---------------------------- MODULE JavaReference ----------------------------
(***************************************************************************)
(* The Java reference: the crossover (Crossover.java, Recovery.java), a    *)
(* scan over an array of the gap and the bracket, of whose bisected root   *)
(* only the depths it lies between are kept (a model is [s0, rho, q]); the *)
(* decision graph (DecisionGraph.java) and the recursive queries of        *)
(* schema/graph.sql it stands for.  A graph is [nodes, edges], edges in    *)
(* the order they were added, an edge [source, target, type, confidence].  *)
(* breakEvenQ, a root, is left out, as is what only repeats another method *)
(* (equalBudgets, factorCurve, structuredRecovery, degradeRecovery).       *)
(***************************************************************************)
EXTENDS Fractions

Model(s0, rho, q) ==
  IF Less(Zero, s0) /\ Less(Zero, rho) /\ Less(Zero, q) /\ Leq(q, One)
  THEN [s0 |-> s0, rho |-> rho, q |-> q] ELSE Raised

Triangular(d) == (d * (d + 1)) \div 2
Similarity(d, m) == IF d < 1 THEN Raised ELSE Times(Power(m.s0, d), Power(m.rho, Triangular(d)))
Structured(d, m) == IF d < 1 THEN Raised ELSE Power(m.q, d)

\* Unlike the recoveries, g is defined at depth zero, where it is zero.
G(d, m) == Minus(Power(m.q, d), Times(Power(m.s0, d), Power(m.rho, Triangular(d))))

\* floor(tauZeroCrossover) + 1; "bound" caps the search.
AfterTauZero(m, bound) ==
  Min({d \in 0..bound : Less(Times(Square(m.s0), Power(m.rho, d + 1)), Square(m.q))})

\* One pass over the depths, in which the peak, the first depth above tau and
\* the end of the run of depths that starts there are found.
Scan(g, tau, s, d) ==
  [peak  |-> IF Less(g[s.peak], g[d]) THEN d ELSE s.peak,
   first |-> IF s.first = 0 /\ Less(tau, g[d]) THEN d ELSE s.first,
   last  |-> IF Less(tau, g[d]) /\ (s.first = 0 \/ s.last = d - 1) THEN d ELSE s.last]

Crossing(g, tau, s) ==
  IF s.first = 0 THEN [exists |-> FALSE, peak |-> s.peak]
  ELSE [exists |-> TRUE, peak |-> s.peak, win |-> <<s.first, s.last>>,
        root |-> IF s.first = 1 \/ Leq(tau, g[s.first - 1]) THEN <<s.first, s.first>>
                 ELSE <<s.first - 1, s.first>>]

CrossoverIn(g, tau) ==
  Crossing(g, tau, FoldLeft(LAMBDA s, d : Scan(g, tau, s, d), [peak |-> 1, first |-> 0, last |-> 0],
                            [d \in DOMAIN g |-> d]))
FindCrossoverDepth(m, tau, maxDepth) ==
  IF Less(tau, Zero) \/ maxDepth < 1 THEN Raised
  ELSE CrossoverIn([d \in 1..maxDepth |-> G(d, m)], tau)

BracketCrossoverDepth(m, tau, maxDepth, bound) ==
  LET lower == Max({1, AfterTauZero(m, bound)})
      lastAbove == Max({d \in 0..maxDepth : Leq(tau, Power(m.q, d))})
      result(upper, winEnd) ==
        [lower |-> lower, upper |-> upper, window |-> IF lower <= winEnd THEN <<lower, winEnd>> ELSE None]
  IN  CASE Less(tau, Zero) \/ maxDepth < 1 \/ ~Less(m.rho, One) -> Raised
        [] tau = Zero -> result(Min({lower, maxDepth}), maxDepth)
        [] tau # Zero /\ Leq(m.q, tau) -> result(lower, 0)
        [] m.q = One /\ Less(Zero, tau) /\ Less(tau, One) -> result(maxDepth, maxDepth)
        [] OTHER -> result(lastAbove, lastAbove)

-----------------------------------------------------------------------------
(* The decision graph                                                      *)

EmptyGraph == [nodes |-> {}, edges |-> <<>>]
AddNode(g, id) == [g EXCEPT !.nodes = @ \cup {id}]

SameLink(e, f) == e.source = f.source /\ e.target = f.target /\ e.type = f.type

ConfidenceOK(e) == Leq(Zero, e.confidence) /\ Leq(e.confidence, One)

AddEdge(g, e) ==
  IF /\ e.source \in g.nodes /\ e.target \in g.nodes
     /\ \A f \in Range(g.edges) : ~SameLink(e, f)
     /\ ConfidenceOK(e)
  THEN [g EXCEPT !.edges = Append(@, e)] ELSE Raised

AddEdges(g, edges) == FoldLeft(LAMBDA h, e : IF h = Raised THEN h ELSE AddEdge(h, e), g, edges)

AddSupersessionChain(g, confidence, versions) ==
  IF versions = <<>> THEN Raised
  ELSE AddEdges(g, [i \in 1..(Len(versions) - 1) |->
                      [source |-> versions[i + 1], target |-> versions[i], type |-> "supersedes",
                       confidence |-> confidence]])

-----------------------------------------------------------------------------
(* The bounded walk.  order is the queue with what it has already given:   *)
(* its i-th node is expanded in turn i.                                    *)

Traverse(g, start, maxHops, minConfidence) ==
  LET meet(s, e) == IF e.target \in DOMAIN s.depth THEN s
                    ELSE [order |-> Append(s.order, e.target),
                          depth |-> s.depth @@ (e.target :> s.depth[e.source] + 1)]
      expand(s, i) == IF i > Len(s.order) \/ s.depth[s.order[i]] >= maxHops THEN s
                      ELSE FoldLeft(meet, s, SelectSeq(g.edges, LAMBDA e :
                             e.source = s.order[i] /\ Leq(minConfidence, e.confidence)))
  IN  IF start \notin g.nodes \/ maxHops < 0 THEN Raised
      ELSE FoldLeft(expand, [order |-> <<start>>, depth |-> start :> 0],
                    [i \in 1..Cardinality(g.nodes) |-> i])

\* The query's walk(node, depth): its UNION drops a row met again, and a row
\* is a node at one depth.
WalkRows(g, start, maxHops, minConfidence) ==
  LET layer[h \in 0..maxHops] ==
        IF h = 0 THEN {start}
        ELSE {e.target : e \in {f \in Range(g.edges) :
                f.source \in layer[h - 1] /\ Leq(minConfidence, f.confidence)}}
  IN  UNION {{<<n, h>> : n \in layer[h]} : h \in 0..maxHops}

-----------------------------------------------------------------------------
(* Supersession                                                            *)

Newer(g, id, minConfidence) ==
  SelectSeq(g.edges, LAMBDA e : e.type = "supersedes" /\ e.target = id /\ Leq(minConfidence, e.confidence))
IsSuperseded(g, id, minConfidence) == Newer(g, id, minConfidence) # <<>>

\* From version to newer version, the oldest edge first, until nothing
\* supersedes it or it comes round again.
ResolveCurrent(g, id, minConfidence) ==
  LET climb(s, i) ==
        IF s.end # None THEN s
        ELSE IF ~IsSuperseded(g, s.cur, minConfidence) THEN [s EXCEPT !.end = s.cur]
        ELSE LET newer == Newer(g, s.cur, minConfidence)[1].source
             IN  IF newer \in s.seen THEN [s EXCEPT !.end = Raised]
                 ELSE [s EXCEPT !.cur = newer, !.seen = @ \cup {newer}]
  IN  IF id \notin g.nodes THEN Raised
      ELSE FoldLeft(climb, [cur |-> id, seen |-> {id}, end |-> None],
                    [i \in 1..(Cardinality(g.nodes) + 1) |-> i]).end

\* The query's heads: what a chain of corrections leads to and nothing corrects.
SupersessionHeads(g, id) ==
  LET newer(ns) == ns \cup {e.source : e \in {f \in Range(g.edges) : f.type = "supersedes" /\ f.target \in ns}}
      walked == FoldLeft(LAMBDA ns, i : newer(ns), {id}, [i \in 1..Cardinality(g.nodes) |-> i])
  IN  {n \in walked : ~IsSuperseded(g, n, Zero)}

Fidelity(q) == Less(Zero, q) /\ Leq(q, One)
EdgeHops(n) == IF n < 1 THEN Raised ELSE n - 1
StructuredSupersession(n, q) == IF Fidelity(q) THEN Power(q, EdgeHops(n)) ELSE Raised
SimilaritySupersession(n) == IF n < 1 THEN Raised ELSE Frac(1, n)
SupersessionAdvantage(n, q) == Minus(StructuredSupersession(n, q), SimilaritySupersession(n))

-----------------------------------------------------------------------------
(* Recovery and scatter                                                    *)

SimilarityRecovery(d, m) == Times(Power(m.s0, d), Power(m.rho, (d * (d + 1)) \div 2))
ScatterFactor(p, sigma) == IF Fidelity(p) /\ sigma >= 0 THEN Power(p, sigma) ELSE Raised
ScatteredRecovery(d, m, p, sigma) == Times(SimilarityRecovery(d, m), ScatterFactor(p, sigma))

ProbesForScatter(sigma) == IF sigma < 0 THEN Raised ELSE sigma
ProbesForDereference == 1
ScatterForFlatChain(d) == IF d < 1 THEN Raised ELSE d
ProbesLowerBound(sigma, p) ==
  IF sigma < 0 \/ ~Fidelity(p) THEN Raised ELSE -((-(sigma * p[2])) \div p[1])

-----------------------------------------------------------------------------
(* Packing: what does not fit is skipped.                                  *)

Pack(items, cost, budget) ==
  LET pack(s, id) == IF s.used + cost[id] > budget THEN s
                     ELSE [ids |-> Append(s.ids, id), used |-> s.used + cost[id]]
  IN  IF budget < 0 THEN Raised ELSE FoldLeft(pack, [ids |-> <<>>, used |-> 0], items)

CanonicalOrder(items, cost) ==
  SetToSortSeq(Range(items), LAMBDA i, j : cost[i] < cost[j] \/ (cost[i] = cost[j] /\ i < j))
=============================================================================
