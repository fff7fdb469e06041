------------------------------- MODULE Ranking -------------------------------
(***************************************************************************)
(* How the arms of retrieval/ turn scores into a context (base.py,         *)
(* fusion.py, hybrid.py, rank_fusion_graph.py, rerank.py, mmr.py,          *)
(* raptor.py, ppr.py, spreading_activation.py), and how a ranking is       *)
(* measured (metrics/retrieval.py, metrics/ir_extra.py), over exact        *)
(* fractions.  The scores themselves are given: an embedding or a term     *)
(* weight is any number.  An edge is [source, target, weight].             *)
(***************************************************************************)
EXTENDS Fractions

W == INSTANCE GraphWalk

\* A stable sort by descending score.
BestFirst(order, score) ==
  LET ahead(i, j) == \/ Less(score[order[j]], score[order[i]])
                     \/ score[order[i]] = score[order[j]] /\ i < j
      at == SetToSortSeq(DOMAIN order, ahead)
  IN  [k \in DOMAIN at |-> order[at[k]]]

\* Slip: what does not fit is skipped.
PackToBudgetSlip(ranked, cost, budget) ==
  LET pack(s, id) == IF s.used + cost[id] > budget THEN s
                     ELSE [s EXCEPT !.ids = Append(@, id), !.used = @ + cost[id]]
  IN  IF budget < 0 THEN Raised
      ELSE FoldLeft(pack, [ids |-> <<>>, used |-> 0, open |-> TRUE], ranked).ids

\* The first item that does not fit ends the packing.
PackToBudget(ranked, cost, budget) ==
  LET pack(s, id) == IF ~s.open \/ s.used + cost[id] > budget THEN [s EXCEPT !.open = FALSE]
                     ELSE [s EXCEPT !.ids = Append(@, id), !.used = @ + cost[id]]
  IN  IF budget < 0 THEN Raised
      ELSE FoldLeft(pack, [ids |-> <<>>, used |-> 0, open |-> TRUE], ranked).ids

-----------------------------------------------------------------------------
(* Fusion of scores and of ranks; scores are a function from ids.          *)

Rescaled(scores, lo, span) == [id \in DOMAIN scores |-> IF span = Zero THEN Zero ELSE Over(Minus(scores[id], lo), span)]
MinMaxNormalize(scores) ==
  Rescaled(scores, Lowest(Range(scores)), Minus(Highest(Range(scores)), Lowest(Range(scores))))

Nonzero(values) == Len(SelectSeq(values, LAMBDA v : v # Zero))
Combined(values, method) ==
  CASE method = "combsum" -> Total(values)
    [] method = "combmnz" -> Times(Total(values), Whole(Nonzero(values)))
    [] method = "combanz" -> IF Nonzero(values) = 0 THEN Zero ELSE Over(Total(values), Whole(Nonzero(values)))

\* What the rankers that have the item say of it.
Said(normalised, id) ==
  LET having == SelectSeq(normalised, LAMBDA s : id \in DOMAIN s)
  IN  [r \in DOMAIN having |-> having[r][id]]
FuseNormalised(normalised, method) ==
  [id \in UNION {DOMAIN s : s \in Range(normalised)} |-> Combined(Said(normalised, id), method)]
FuseScores(rankers, method) == FuseNormalised(Each(rankers, LAMBDA r : MinMaxNormalize(rankers[r])), method)

\* By reciprocal ranks, counted from "first" (hybrid.py from 0, the graph
\* fusion from 1); an id gets a term for every position it has, and nothing from
\* a ranking that lacks it.
ReciprocalRanks(rankings, k, first) ==
  LET ids == UNION {Range(r) : r \in Range(rankings)}
      share(ranking, id) ==
        Total([i \in DOMAIN ranking |-> IF ranking[i] = id THEN Frac(1, k + first + i - 1) ELSE Zero])
  IN  IF k <= 0 THEN Raised
      ELSE [id \in ids |-> Total([r \in DOMAIN rankings |-> share(rankings[r], id)])]

RRFScores(bm25, dense, k) == ReciprocalRanks(<<bm25, dense>>, k, 0)
ReciprocalRankFusion(rankings, k) == ReciprocalRanks(rankings, k, 1)

HybridRetrieve(corpus, bm25, dense, k) == BestFirst(corpus, RRFScores(bm25, dense, k))
FusionRetrieve(corpus, lexical, dense, method) ==
  BestFirst(corpus, FuseScores(<<lexical, dense>>, method))

\* The walk starts at the most similar items; what neither list holds scores nothing.
GraphHopRanking(graph, similar, seeds, maxHops) ==
  W!WalkOrder(graph, SubSeq(similar, 1, Min({seeds, Len(similar)})), W!Clamp(maxHops))
RankFusionRetrieve(corpus, graph, similar, seeds, maxHops, k) ==
  LET scores == ReciprocalRankFusion(<<similar, GraphHopRanking(graph, similar, seeds, maxHops)>>, k)
  IN  BestFirst(corpus, [id \in Range(corpus) |-> IF id \in DOMAIN scores THEN scores[id] ELSE Zero])

\* The share of words in common, of all words in either.
LexicalOverlap(query, document) ==
  IF query = {} \/ document = {} THEN Zero
  ELSE Frac(Cardinality(query \cap document), Cardinality(query \cup document))
RerankRetrieve(firstStage, candidates, query, words) ==
  LET cut == SubSeq(firstStage, 1, Min({candidates, Len(firstStage)}))
  IN  IF candidates <= 0 THEN Raised
      ELSE BestFirst(cut, [id \in Range(cut) |-> LexicalOverlap(query, words[id])])

-----------------------------------------------------------------------------
(* Diversity and trees                                                     *)

\* One after another, the best of the rest; the first of equals.
MMROrder(relevance, similarity, lambda, k) ==
  LET n == Len(relevance)
      limit == IF k = None THEN n ELSE Max({0, Min({k, n})})
      redundancy(d, s) == IF s = <<>> THEN Zero ELSE Highest({similarity[d, j] : j \in Range(s)})
      score(d, s) == Minus(Times(lambda, relevance[d]), Times(Minus(One, lambda), redundancy(d, s)))
      best(s) == LET rest == (1..n) \ Range(s)
                     scored == {<<d, score(d, s)>> : d \in rest}
                     top == Highest({p[2] : p \in scored})
                 IN  Min({p[1] : p \in {q \in scored : q[2] = top}})
  IN  IF Less(lambda, Zero) \/ Less(One, lambda) THEN Raised
      ELSE FoldLeft(LAMBDA s, i : Append(s, best(s)), <<>>, [i \in 1..limit |-> i])

\* Leaves and summaries ranked together; a summary stands for its leaves.
OrderedItemIndices(leafSims, members, summarySims) ==
  LET n == Len(leafSims)
      pool == leafSims \o summarySims
      nodes == BestFirst([i \in DOMAIN pool |-> i], pool)
      leaves(node) == IF node <= n THEN <<node>> ELSE BestFirst(members[node - n], leafSims)
  IN  FoldLeft(LAMBDA out, node : out \o SelectSeq(leaves(node), LAMBDA l : l \notin Range(out)),
               <<>>, nodes)

-----------------------------------------------------------------------------
(* Graphs                                                                  *)

OutWeight(edges, u, v) ==
  Total([i \in DOMAIN edges |-> IF edges[i].source = u /\ edges[i].target = v THEN edges[i].weight ELSE Zero])

TransitionMatrix(n, edges) ==
  LET row(u) == Total([v \in 1..n |-> OutWeight(edges, u, v)])
      share(u, v) == IF row(u) = Zero THEN Zero ELSE Over(OutWeight(edges, u, v), row(u))
      items == [i \in 1..n |-> i]
  IN  Each(items, LAMBDA u : Each(items, LAMBDA v : share(u, v)))

\* Similarities below nought count as nought; without any, every item alike.
RestartDistribution(sims) ==
  LET weights == [i \in DOMAIN sims |-> Higher(Zero, sims[i])]
  IN  IF Total(weights) = Zero THEN [i \in DOMAIN sims |-> Frac(1, Len(sims))]
      ELSE [i \in DOMAIN sims |-> Over(weights[i], Total(weights))]

\* The mass of items without links goes back to the seeds.
PageRankStep(mass, matrix, seed, alpha) ==
  LET dangling == SelectSeq([u \in DOMAIN mass |-> u], LAMBDA u : \A v \in DOMAIN mass : matrix[u][v] = Zero)
      lost == Total([i \in DOMAIN dangling |-> mass[dangling[i]]])
      moved(v) == Plus(Total([u \in DOMAIN mass |-> Times(matrix[u][v], mass[u])]), Times(lost, seed[v]))
  IN  Each(mass, LAMBDA v : Plus(Times(Minus(One, alpha), moved(v)), Times(alpha, seed[v])))

\* At most maxIter steps, fewer when one no longer moves the mass.
PersonalizedPageRank(matrix, restart, alpha, maxIter) ==
  LET step(s, i) ==
        LET next == PageRankStep(s.mass, matrix, restart, alpha)
        IN  IF s.converged THEN s
            ELSE [mass |-> next, iterations |-> i, converged |-> next = s.mass]
  IN  IF Less(alpha, Zero) \/ Less(One, alpha) \/ maxIter < 1 THEN Raised
      ELSE FoldLeft(step, [mass |-> restart, iterations |-> 0, converged |-> FALSE],
                    [i \in 1..maxIter |-> i])

\* Activation spreads along edges either way, a self-loop counting twice.
Contributions(edges, active, decay, threshold, v) ==
  LET via(u, e) == IF u \notin DOMAIN active \/ Less(active[u], threshold) THEN Zero
                   ELSE Times(decay, Times(active[u], e.weight))
  IN  Total([i \in DOMAIN edges |->
        Plus(IF edges[i].target = v THEN via(edges[i].source, edges[i]) ELSE Zero,
             IF edges[i].source = v THEN via(edges[i].target, edges[i]) ELSE Zero)])

SpreadActivation(nodes, edges, seeds, decay, hops, threshold) ==
  LET start == [v \in DOMAIN seeds \cap nodes |-> seeds[v]]
      of(f, v) == IF v \in DOMAIN f THEN f[v] ELSE Zero
      pulse(s, h) ==
        LET reached == {v \in nodes : Contributions(edges, s.current, decay, threshold, v) # Zero}
            next == [v \in reached |-> Contributions(edges, s.current, decay, threshold, v)]
        IN  [current |-> next,
             total |-> [v \in DOMAIN s.total \cup reached |-> Plus(of(s.total, v), of(next, v))]]
  IN  IF Less(decay, Zero) \/ Less(One, decay) \/ hops < 0 THEN Raised
      ELSE FoldLeft(pulse, [current |-> start, total |-> start], [h \in 1..hops |-> h]).total

ActivatedRetrieve(corpus, activation) ==
  BestFirst(SelectSeq(corpus, LAMBDA id : id \in DOMAIN activation /\ Less(Zero, activation[id])), activation)

-----------------------------------------------------------------------------
(* How good a ranking is.                                                  *)

Dedup(retrieved) == FoldLeft(LAMBDA s, id : IF Contains(s, id) THEN s ELSE Append(s, id), <<>>, retrieved)
Cut(retrieved, k) ==
  LET items == Dedup(retrieved) IN IF k = None THEN items ELSE SubSeq(items, 1, Min({k, Len(items)}))
Hits(s, gold) == Cardinality(Range(s) \cap gold)

PrecisionAtK(retrieved, gold, k) ==
  LET cut == Cut(retrieved, k)
  IN  IF cut = <<>> THEN (IF gold = {} THEN One ELSE Zero) ELSE Frac(Hits(cut, gold), Len(cut))
RecallAtK(retrieved, gold, k) ==
  IF gold = {} THEN One ELSE Frac(Hits(Cut(retrieved, k), gold), Cardinality(gold))

ReciprocalRank(retrieved, gold) ==
  LET items == Dedup(retrieved)
      right == {i \in DOMAIN items : items[i] \in gold}
  IN  IF right = {} THEN Zero ELSE Frac(1, Min(right))

AveragePrecision(retrieved, gold) ==
  LET items == Dedup(retrieved)
      at(i) == IF items[i] \in gold THEN Frac(Hits(SubSeq(items, 1, i), gold), i) ELSE Zero
  IN  IF gold = {} THEN One ELSE Over(Total([i \in DOMAIN items |-> at(i)]), Whole(Cardinality(gold)))

ScoreRetrieval(retrieved, governing, k) ==
  LET gold == Range(governing)
  IN  [precision |-> PrecisionAtK(retrieved, gold, k), recall |-> RecallAtK(retrieved, gold, k),
       mrr |-> ReciprocalRank(retrieved, gold), ap |-> AveragePrecision(retrieved, gold),
       chain |-> gold # {} /\ gold \subseteq Range(retrieved),
       retrieved |-> Len(Dedup(retrieved)), gold |-> Cardinality(gold)]

\* Of graded relevances, in the order retrieved.
RankBiasedPrecision(grades, p) ==
  IF Leq(p, Zero) \/ Leq(One, p) THEN Raised
  ELSE Times(Minus(One, p), Total([i \in DOMAIN grades |-> Times(Whole(grades[i]), Power(p, i - 1))]))

\* The user stops at a rank with the chance its grade gives.
ExpectedReciprocalRank(grades, maxGrade) ==
  LET top == IF maxGrade # None THEN maxGrade ELSE Max({1} \cup Range(grades))
      stop(g) == Frac(2^g - 1, 2^top)
      read(s, i) == [err |-> Plus(s.err, Times(s.remaining, Times(stop(grades[i]), Frac(1, i)))),
                     remaining |-> Times(s.remaining, Minus(One, stop(grades[i])))]
  IN  IF (\E g \in Range(grades) : g < 0) \/ (maxGrade # None /\ maxGrade <= 0) THEN Raised
      ELSE FoldLeft(read, [err |-> Zero, remaining |-> One], [i \in DOMAIN grades |-> i]).err

Relevant(grades) == Len(SelectSeq(grades, LAMBDA g : g > 0))
GradedPrecision(grades) ==
  LET at(i) == IF grades[i] > 0 THEN Frac(Relevant(SubSeq(grades, 1, i)), i) ELSE Zero
  IN  IF Relevant(grades) = 0 THEN Zero
      ELSE Over(Total([i \in DOMAIN grades |-> at(i)]), Whole(Relevant(grades)))
MeanAveragePrecision(rankings) ==
  IF rankings = <<>> THEN Zero ELSE Mean([i \in DOMAIN rankings |-> GradedPrecision(rankings[i])])

RPrecision(grades, relevant) ==
  LET r == IF relevant = None THEN Relevant(grades) ELSE relevant
  IN  IF r < 0 THEN Raised
      ELSE IF r = 0 THEN Zero ELSE Frac(Relevant(SubSeq(grades, 1, Min({r, Len(grades)}))), r)
=============================================================================
