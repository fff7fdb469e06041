------------------------------- MODULE GraphWalk -------------------------------
(***************************************************************************)
(* What a bounded breadth-first walk returns, as operators on the graph     *)
(* alone: neighbors of TypedGraph (retrieval/graph/store.py) and the result *)
(* of traverse (retrieval/graph/traversal.py) when the node budget does not *)
(* bind.  Traversal checks that the code's loop computes these.             *)
(***************************************************************************)
EXTENDS Integers, Sequences, FiniteSets, SequencesExt

MAX_HOPS_LIMIT == 3
Clamp(maxHops) == IF maxHops > MAX_HOPS_LIMIT THEN MAX_HOPS_LIMIT
                  ELSE IF maxHops < 1 THEN 1 ELSE maxHops

\* neighbors(n, direction="both"): the positions of the edges that leave n, then
\* of those that enter it, each with the node at the other end.  A self-loop is
\* both, so it comes twice.
Adjacent(edges, n) ==
  FlattenSeq([i \in DOMAIN edges |->
    IF edges[i].source = n THEN <<<<i, edges[i].target>>>> ELSE <<>>]) \o
  FlattenSeq([i \in DOMAIN edges |->
    IF edges[i].target = n THEN <<<<i, edges[i].source>>>> ELSE <<>>])

GraphOf(nodes, edges) == [n \in nodes |-> Adjacent(edges, n)]

Neighbours(g, n) == {g[n][i][2] : i \in DOMAIN g[n]}

\* The nodes within 0, 1, .. hops of the seeds.
Balls(g, seeds, hops) ==
  LET ball[h \in 0..hops] ==
        IF h = 0 THEN seeds
        ELSE ball[h - 1] \cup UNION {Neighbours(g, n) : n \in ball[h - 1]}
  IN  ball

\* A list with one element, or those of another list, put behind it if it lacks
\* them, first come first.
Put(list, x) == IF Contains(list, x) THEN list ELSE Append(list, x)
Merge(s, t) ==
  LET merged[k \in 0..Len(t)] == IF k = 0 THEN s ELSE Put(merged[k - 1], t[k])
  IN  merged[Len(t)]

\* The start ids that are nodes of the graph, and the neighbours of the nodes of
\* a list, one node after another.
Present(g, starts) ==
  FlattenSeq([i \in DOMAIN starts |-> IF starts[i] \in DOMAIN g THEN <<starts[i]>> ELSE <<>>])
Others(adjacent) == [k \in DOMAIN adjacent |-> adjacent[k][2]]
AllNeighbours(g, list) == FlattenSeq([i \in DOMAIN list |-> Others(g[list[i]])])

\* A list with the next layer of the walk behind it.
NextLayer(g, list) == Merge(list, AllNeighbours(g, list))

\* The nodes a walk lists, layer after layer in the order it meets them.
WalkOrder(g, starts, hops) ==
  LET walk[h \in 0..hops] ==
        IF h = 0 THEN Merge(<<>>, Present(g, starts)) ELSE NextLayer(g, walk[h - 1])
  IN  walk[hops]

\* How often a walk follows the edge at position e: once from every end of it
\* that it expands, that is, that is closer than the hop bound.
Uses(g, seeds, hops, e) ==
  LET expanded == Balls(g, seeds \cap DOMAIN g, hops)[hops - 1]
  IN  Cardinality(UNION {{<<n, i>> : i \in {j \in DOMAIN g[n] : g[n][j][1] = e}} :
                           n \in expanded})
==============================================================================
