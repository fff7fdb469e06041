------------------------------- MODULE Traversal -------------------------------
(***************************************************************************)
(* traverse (retrieval/graph/traversal.py): a breadth-first walk from seed  *)
(* nodes, bounded in hops and in nodes, one step per neighbour looked at.   *)
(*                                                                          *)
(* The graph is what TypedGraph.neighbors returns for each node with the    *)
(* direction and the filters of the call: a sequence of <<edge, neighbour>> *)
(* pairs.  A self-loop walked in both directions appears twice.             *)
(***************************************************************************)
EXTENDS GraphWalk

CONSTANTS
  Graphs,    \* the graphs to walk: node |-> sequence of <<edge, node>>
  Starts,    \* the lists of start ids a caller may pass
  Limits     \* the max_hops and max_nodes arguments a caller may pass, as
             \* records; max_hops is not clamped yet, and the code refuses a
             \* max_nodes below 1

None == <<>>

IsGraph(g) ==
  /\ None \notin DOMAIN g
  /\ \A n \in DOMAIN g : /\ g[n] \in Seq(Range(g[n]))
                        /\ \A i \in DOMAIN g[n] : g[n][i][2] \in DOMAIN g

ASSUME TraversalAssumption ==
  /\ Limits \subseteq [hops : Int, nodes : Nat \ {0}]
  /\ \A g \in Graphs : IsGraph(g)
  /\ \A s \in Starts : s \in Seq(Range(s))

VARIABLES
  graph,     \* the graph of this walk
  limits,    \* the bounds of this walk
  starts,    \* the start ids of this walk
  seeded,    \* how many of them have been looked at
  depth,     \* discovered node |-> its depth (depth_by_id)
  ordered,   \* the nodes in the order they were discovered
  queue,     \* discovered nodes whose neighbours are still to be looked at
  current,   \* the node being expanded, or None
  rest,      \* its neighbours not looked at yet
  followed,  \* the edges followed, in order
  truncated  \* whether the budget kept a node out

vars == <<graph, limits, starts, seeded, depth, ordered, queue, current, rest, followed,
          truncated>>

Discovered == DOMAIN depth

Hops     == Clamp(limits.hops)
MaxNodes == limits.nodes

Init ==
  /\ graph \in Graphs /\ limits \in Limits
  /\ starts \in Starts /\ seeded = 0
  /\ depth = <<>> /\ ordered = <<>> /\ queue = <<>>
  /\ current = None /\ rest = <<>>
  /\ followed = <<>>
  /\ truncated = FALSE

\* Record a node, and queue it for expansion.
Discover(n, d) ==
  /\ depth' = [m \in Discovered \cup {n} |-> IF m = n THEN d ELSE depth[m]]
  /\ ordered' = Append(ordered, n)
  /\ queue' = Append(queue, n)

\* Slip: the depth of the node being expanded, not one more.
NextDepthSlip(n) == depth[n]

NextDepth(n) == depth[n] + 1

\* One start id; those absent from the graph and repeated ones are skipped.
Seed ==
  /\ seeded < Len(starts)
  /\ seeded' = seeded + 1
  /\ IF starts[seeded'] \in DOMAIN graph \ Discovered
     THEN Discover(starts[seeded'], 0)
     ELSE UNCHANGED <<depth, ordered, queue>>
  /\ UNCHANGED <<graph, limits, starts, current, rest, followed, truncated>>

WithinHops(n) == depth[n] < Hops

\* Slip: a node at the hop bound looked at without being taken out.
LeftSlip == IF WithinHops(Head(queue)) THEN Tail(queue) ELSE queue

Left == Tail(queue)

\* queue.popleft; a node at the hop bound is not expanded.
Pop ==
  /\ seeded = Len(starts) /\ current = None /\ queue # <<>>
  /\ queue' = Left
  /\ IF WithinHops(Head(queue))
     THEN current' = Head(queue) /\ rest' = graph[Head(queue)]
     ELSE UNCHANGED <<current, rest>>
  /\ UNCHANGED <<graph, limits, starts, seeded, depth, ordered, followed, truncated>>

\* Slip: the check against the budget off by one.
FullSlip == Cardinality(Discovered) > MaxNodes
Full == Cardinality(Discovered) >= MaxNodes

FollowEdge(p) == followed' = Append(followed, p[1])

\* One neighbour of the current node: its edge is followed in any case.
Follow ==
  /\ current # None /\ rest # <<>>
  /\ FollowEdge(Head(rest))
  /\ LET n == Head(rest)[2] IN
       IF n \in Discovered
       THEN UNCHANGED <<depth, ordered, queue, truncated>>
       ELSE IF Full
       THEN truncated' = TRUE /\ UNCHANGED <<depth, ordered, queue>>
       ELSE Discover(n, NextDepth(current)) /\ UNCHANGED truncated
  /\ rest' = Tail(rest)
  /\ UNCHANGED <<graph, limits, starts, seeded, current>>

Expanded ==
  /\ current # None /\ rest = <<>>
  /\ current' = None
  /\ UNCHANGED <<graph, limits, starts, seeded, depth, ordered, queue, rest, followed, truncated>>

Next == Seed \/ Pop \/ Follow \/ Expanded

Spec == Init /\ [][Next]_vars /\ WF_vars(Next)

Returned == seeded = Len(starts) /\ current = None /\ queue = <<>>

------------------------------------------------------------------------------
Seeds == {starts[i] : i \in DOMAIN starts} \cap DOMAIN graph
Ball == Balls(graph, Seeds, Hops)

TypeOK ==
  /\ IsGraph(graph)
  /\ Discovered \subseteq DOMAIN graph
  /\ \A n \in Discovered : depth[n] \in 0..Hops
  /\ \A i \in DOMAIN queue : queue[i] \in Discovered
  /\ current \in Discovered \cup {None}
  /\ truncated \in BOOLEAN

\* At every moment the walk is breadth-first: it has listed every discovered node
\* once, nearest first, the nodes it has still to expand are the last ones it
\* listed, and a node's depth is its distance from the nearest seed, on a cyclic
\* graph and whether or not the budget cut the walk short.
BreadthFirst ==
  /\ TypeOK
  /\ Len(ordered) = Cardinality(Discovered)
  /\ {ordered[i] : i \in DOMAIN ordered} = Discovered
  /\ \A i, j \in DOMAIN ordered : i < j => depth[ordered[i]] <= depth[ordered[j]]
  /\ queue = SubSeq(ordered, Len(ordered) - Len(queue) + 1, Len(ordered))
  /\ \A n \in Discovered :
       n \in Ball[depth[n]] /\ \A h \in 0..(depth[n] - 1) : n \notin Ball[h]

\* When the walk returns, either the budget, which does not bound the seeds
\* themselves, is exactly used up and every node left out is at least as far as
\* any found, or it has found everything within the hop bound.
FindsReach ==
  Returned =>
    IF truncated
    THEN /\ \/ Cardinality(Discovered) = MaxNodes
            \/ Cardinality(Seeds) > MaxNodes /\ Discovered = Seeds
         /\ Ball[Hops] \ Discovered # {}
         /\ \A n \in Discovered :
              depth[n] > 0 => Ball[depth[n] - 1] \subseteq Discovered
    ELSE Discovered = Ball[Hops]

\* A walk the budget has not cut short has followed an edge once from each of
\* its ends that it expanded: what the usage accounting of the decay pass
\* relies on.
CountsUses ==
  Returned /\ ~ truncated =>
    \A e \in UNION {{graph[n][i][1] : i \in DOMAIN graph[n]} : n \in DOMAIN graph} :
      Cardinality({i \in DOMAIN followed : followed[i] = e}) = Uses(graph, Seeds, Hops, e)

\* What a walk computes: the nodes and the usage above, and unless it was cut
\* short the nodes in the order WalkOrder says.
ComputesWalk ==
  /\ FindsReach
  /\ CountsUses
  /\ Returned /\ ~ truncated => ordered = WalkOrder(graph, starts, Hops)

\* Every walk returns.
Terminates == <>Returned
==============================================================================
