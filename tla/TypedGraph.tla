------------------------------ MODULE TypedGraph ------------------------------
(***************************************************************************)
(* TypedGraph (retrieval/graph/store.py): nodes, a list of typed edges, and *)
(* for every node the positions of its outgoing and its incoming edges in   *)
(* that list.  prune_edges asks its callback about one edge after another,  *)
(* empties the list and the indices and puts the survivors back one by one; *)
(* each of those is a step here.                                            *)
(***************************************************************************)
EXTENDS Naturals, Sequences

CONSTANTS
  Ids,       \* node ids
  Types,     \* relationship types
  MaxEdges   \* bound of the model: length of the edge list

Edges == [source : Ids, target : Ids, type : Types]

VARIABLES
  nodes,     \* ids of the nodes (_nodes)
  edges,     \* the edge list (_edges)
  out, in,   \* node |-> positions in edges (_out, _in)
  survivors, \* the edges prune_edges keeps, and has still to put back
  asked,     \* how many edges it has asked its callback about
  pruning    \* "no", "asking" or "rebuilding"

storeVars == <<nodes, edges, out, in, survivors, asked, pruning>>

StoreInit ==
  /\ nodes = {}
  /\ edges = <<>>
  /\ out = <<>> /\ in = <<>>
  /\ survivors = <<>> /\ asked = 0
  /\ pruning = "no"

\* f with g's value at one more point: dict.setdefault of a missing key.
With(f, x, v) == [y \in DOMAIN f \cup {x} |-> IF y = x THEN v ELSE f[y]]

\* Slip: no entry in the incoming index.
AddNodeSlip(n) ==
  /\ pruning = "no"
  /\ n \notin nodes
  /\ nodes' = nodes \cup {n}
  /\ out' = With(out, n, <<>>)
  /\ UNCHANGED <<edges, in, survivors, asked, pruning>>

\* add_node; an id that is there raises before anything changes.
AddNode(n) ==
  /\ pruning = "no"
  /\ n \notin nodes
  /\ nodes' = nodes \cup {n}
  /\ out' = With(out, n, <<>>)
  /\ in' = With(in, n, <<>>)
  /\ UNCHANGED <<edges, survivors, asked, pruning>>

\* The statements add_edge and prune_edges share.
AppendEdge(e) ==
  /\ edges' = Append(edges, e)
  /\ out' = [out EXCEPT ![e.source] = Append(@, Len(edges'))]
  /\ in' = [in EXCEPT ![e.target] = Append(@, Len(edges'))]

\* Slip: the target not looked up.
HasEndpointsSlip(e) == e.source \in nodes

HasEndpoints(e) == e.source \in nodes /\ e.target \in nodes

\* add_edge; an endpoint that is not a node raises before anything changes.
AddEdge(e) ==
  /\ pruning = "no"
  /\ Len(edges) < MaxEdges
  /\ HasEndpoints(e)
  /\ AppendEdge(e)
  /\ UNCHANGED <<nodes, survivors, asked, pruning>>

\* Slip: the adjacency kept across a prune.
EmptyIndicesSlip == UNCHANGED <<out, in>>

EmptyIndices ==
  /\ out' = [n \in nodes |-> <<>>]
  /\ in' = [n \in nodes |-> <<>>]

\* prune_edges.  Which edges go depends on their contents: the callback may
\* keep, drop or raise for each.
Prune ==
  /\ pruning = "no"
  /\ pruning' = "asking"
  /\ asked' = 0 /\ survivors' = <<>>
  /\ UNCHANGED <<nodes, edges, out, in>>

Asking == pruning = "asking" /\ asked < Len(edges)

Keep ==
  /\ Asking
  /\ survivors' = Append(survivors, edges[asked + 1])
  /\ asked' = asked + 1
  /\ UNCHANGED <<nodes, edges, out, in, pruning>>

Drop ==
  /\ Asking
  /\ asked' = asked + 1
  /\ UNCHANGED <<nodes, edges, out, in, survivors, pruning>>

\* The callback raises: nothing has been touched yet.
KeepRaises ==
  /\ Asking
  /\ pruning' = "no" /\ survivors' = <<>> /\ asked' = 0
  /\ UNCHANGED <<nodes, edges, out, in>>

Rebuild ==
  /\ pruning = "asking" /\ asked = Len(edges)
  /\ pruning' = "rebuilding"
  /\ edges' = <<>>
  /\ EmptyIndices
  /\ UNCHANGED <<nodes, survivors, asked>>

Restore ==
  /\ pruning = "rebuilding" /\ survivors # <<>>
  /\ AppendEdge(Head(survivors))
  /\ survivors' = Tail(survivors)
  /\ UNCHANGED <<nodes, asked, pruning>>

PruneDone ==
  /\ pruning = "rebuilding" /\ survivors = <<>>
  /\ pruning' = "no" /\ asked' = 0
  /\ UNCHANGED <<nodes, edges, out, in, survivors>>

StoreNext ==
  \/ \E n \in Ids : AddNode(n)
  \/ \E e \in Edges : AddEdge(e)
  \/ Prune \/ Keep \/ Drop \/ KeepRaises \/ Rebuild \/ Restore \/ PruneDone

StoreSpec == StoreInit /\ [][StoreNext]_storeVars

------------------------------------------------------------------------------
StoreTypeOK ==
  /\ nodes \subseteq Ids
  /\ edges \in Seq(Edges) /\ survivors \in Seq(Edges)
  /\ out \in [nodes -> Seq(Nat)] /\ in \in [nodes -> Seq(Nat)]
  /\ asked \in Nat /\ (pruning # "rebuilding" => asked <= Len(edges))
  /\ pruning \in {"no", "asking", "rebuilding"}

\* Foreign keys: no edge, not even one still to be put back, has an endpoint
\* that is not a node.
NoDanglingEdge ==
  \A s \in {edges, survivors} : \A i \in DOMAIN s :
    s[i].source \in nodes /\ s[i].target \in nodes

\* The positions a node's index lists are those of its edges, in list order:
\* neighbors() can never return another node's edge or fall off the list.
Positions(p, S) ==
  /\ \A i \in DOMAIN p : p[i] \in S
  /\ \A x \in S : \E i \in DOMAIN p : p[i] = x
  /\ \A i, j \in DOMAIN p : i < j => p[i] < p[j]

IndexAgrees ==
  \A n \in nodes :
    /\ Positions(out[n], {i \in DOMAIN edges : edges[i].source = n})
    /\ Positions(in[n], {i \in DOMAIN edges : edges[i].target = n})
==============================================================================
