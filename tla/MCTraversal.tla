----------------------------- MODULE MCTraversal -----------------------------
(* Four nodes: every list of at most two edges, self-loops and parallel edges *)
(* included, and every list of three or four edges that run forward, walked   *)
(* in both directions from one or more seeds.                                 *)
EXTENDS Traversal

CONSTANTS a, b, c, d, absent

Nodes == {a, b, c, d}

Edge(x, y) == [source |-> x, target |-> y]
AnyEdge == {Edge(x, y) : x \in Nodes, y \in Nodes}
Forward == {Edge(a, b), Edge(a, c), Edge(a, d), Edge(b, c), Edge(b, d), Edge(c, d)}

EdgeLists == BoundedSeq(AnyEdge, 2) \cup [1..3 -> Forward] \cup [1..4 -> Forward]

MCGraphs == {GraphOf(Nodes, edges) : edges \in EdgeLists}
MCStarts == {<<a>>, <<absent, d, d>>, <<b, c>>, <<d, c, b, a>>}

\* A budget that never binds, and one of two nodes.
MCLimits == {[hops |-> 9, nodes |-> 10], [hops |-> 2, nodes |-> 2]}
==============================================================================
