------------------------------- MODULE Tables --------------------------------
(***************************************************************************)
(* From records of attempts to what is reported of them: scored rows and   *)
(* their tables (analysis/tables.py, report.py, competitors.py), recovery  *)
(* split into retrieving and complying (metrics/factorization.py), regret  *)
(* (metrics/regret.py) and the frontier of accuracy against cost, which is *)
(* computed in three places (metrics/pareto.py, stats/dominance.py,        *)
(* cli.py).  A point is [accuracy, cost]; intervals are left out.          *)
(***************************************************************************)
EXTENDS Fractions

CONSTANTS PlainNames,  \* see Grading
          ArmNames,    \* the arms, in alphabetical order
          BriefArms,   \* those whose name starts with "brief"
          Claude,      \* the models whose name starts with "claude"
          Strippable, AblationDatasets,
          AblationCells  \* from <<arm, depth>> to a condition

G == INSTANCE Grading
R == INSTANCE Ranking

\* task is the record's task: [coding, corpus].
ScoredRow(rec, coding, compliance, retrieval) ==
  [dataset |-> rec.dataset, arm |-> rec.arm, model |-> rec.model, depth |-> rec.depth,
   spec |-> rec.spec, compliance |-> compliance.rate, chain |-> retrieval.chain,
   recall |-> retrieval.recall, precision |-> retrieval.precision,
   correct |-> IF coding THEN G!ScoreCorrectness(rec.edit, compliance).mergeReady ELSE compliance.rate = One,
   tokens |-> rec.input + rec.output, dollars |-> rec.dollars]
ScoreRecord(rec, task) ==
  ScoredRow(rec, task.coding, G!ScoreCompliance(rec.edit, rec.governing, task.corpus),
            R!ScoreRetrieval(rec.retrieved, rec.governing, None))
ScoreRecords(records, tasks) == Each(records, LAMBDA i : ScoreRecord(records[i], tasks[records[i].task]))

-----------------------------------------------------------------------------
(* Tables                                                                  *)

Indicator(b) == IF b THEN One ELSE Zero

\* The mean of the values, <<key, value>>, of each key.
GroupedMean(keyed) ==
  [k \in {p[1] : p \in Range(keyed)} |->
     LET group == SelectSeq(keyed, LAMBDA p : p[1] = k)
     IN  Mean([i \in DOMAIN group |-> group[i][2]])]

HeadlineTable(rows) ==
  LET claude == SelectSeq(rows, LAMBDA r : r.model \in Claude)
  IN  GroupedMean([i \in DOMAIN claude |-> << <<claude[i].dataset, claude[i].arm>>, claude[i].compliance>>])

DepthCrossoverTable(rows) ==
  LET kept == SelectSeq(rows, LAMBDA r : r.dataset \in Strippable /\ r.model \in Claude)
  IN  GroupedMean([i \in DOMAIN kept |-> << <<kept[i].arm, kept[i].depth>>, Indicator(kept[i].chain)>>])

RobustnessTable(rows, graphArm) ==
  LET its == SelectSeq(rows, LAMBDA r : r.arm = graphArm)
  IN  GroupedMean([i \in DOMAIN its |-> << <<its[i].dataset, its[i].model>>, its[i].compliance>>])

AblationTable(rows) ==
  LET kept == SelectSeq(rows, LAMBDA r : /\ r.dataset \in AblationDatasets /\ r.model \in Claude
                                         /\ <<r.arm, r.depth>> \in DOMAIN AblationCells)
  IN  GroupedMean([i \in DOMAIN kept |-> <<AblationCells[<<kept[i].arm, kept[i].depth>>], kept[i].compliance>>])

AssertSingleTier(tiers) == IF Cardinality(tiers) = 1 THEN CHOOSE t \in tiers : TRUE ELSE Raised
CompetitorMatrix(rows, claims) ==
  [measured |-> GroupedMean([i \in DOMAIN rows |-> <<rows[i].arm, rows[i].compliance>>]),
   measuredTier |-> AssertSingleTier({"measured"}), vendor |-> claims,
   vendorTier |-> IF claims = <<>> THEN "vendor_reported" ELSE AssertSingleTier({c.tier : c \in Range(claims)})]

\* An arm without rows at the deepest depth has NaN there, here None: Python's
\* max keeps what it holds when either is NaN.
BestBaseline(table, deepest) ==
  LET arms == SelectSeq(ArmNames, LAMBDA a : a # "none" /\ a \notin BriefArms /\ \E k \in DOMAIN table : k[1] = a)
      value(a) == IF <<a, deepest>> \in DOMAIN table THEN table[a, deepest] ELSE None
      better(a, b) == value(a) # None /\ value(b) # None /\ Less(value(a), value(b))
      best == FoldLeft(LAMBDA a, b : IF better(a, b) THEN b ELSE a, arms[1], arms)
  IN  IF arms = <<>> THEN [arm |-> None, value |-> None] ELSE [arm |-> best, value |-> value(best)]

\* The first arm that is brief, or else the first; no depth raises.
Deepest(table) == Max({k[2] : k \in DOMAIN table})
ReportOf(table, arm) ==
  [deepest |-> Deepest(table), arm |-> arm, best |-> BestBaseline(table, Deepest(table)),
   recovery |-> IF <<arm, Deepest(table)>> \in DOMAIN table THEN table[arm, Deepest(table)] ELSE None]
FirstArm(arms) == (SelectSeq(arms, LAMBDA a : a \in BriefArms) \o arms)[1]
ReportOn(table) ==
  IF DOMAIN table = {} THEN Raised
  ELSE ReportOf(table, FirstArm(SelectSeq(ArmNames, LAMBDA a : \E k \in DOMAIN table : k[1] = a)))
GenerateReport(rows) == ReportOn(DepthCrossoverTable(rows))

-----------------------------------------------------------------------------
(* Retrieving and complying                                                *)

FactorizeRates(recall, compliance) ==
  LET n == Whole(Len(recall))
      retrieved == Total(recall)
      complied == Total(compliance)
      inUnit(s) == \A x \in Range(s) : Leq(Zero, x) /\ Leq(x, One)
      kappa == IF retrieved = Zero THEN None ELSE Over(complied, retrieved)
  IN  IF Len(recall) # Len(compliance) \/ recall = <<>> \/ ~inUnit(recall) \/ ~inUnit(compliance) THEN Raised
      ELSE [n |-> Len(recall), pRet |-> Over(retrieved, n), kappa |-> kappa,
            observed |-> Over(complied, n),
            pComply |-> IF kappa = None THEN Zero ELSE Times(Over(retrieved, n), kappa)]

FactorizeRows(rows) ==
  [k \in {<<r.arm, r.depth>> : r \in Range(rows)} |->
     LET group == SelectSeq(rows, LAMBDA r : <<r.arm, r.depth>> = k)
     IN  FactorizeRates([i \in DOMAIN group |-> group[i].recall], [i \in DOMAIN group |-> group[i].compliance])]

-----------------------------------------------------------------------------
(* Regret                                                                  *)

NormalizedRegret(achieved, best, worst) ==
  LET spread == Minus(best, worst)
  IN  IF Leq(spread, Zero) THEN Zero
      ELSE Lower(One, Higher(Zero, Over(Minus(best, achieved), spread)))

RegretPerTask(scores, baseline) ==
  LET values == Range(scores)
      worst == IF baseline \in DOMAIN scores THEN scores[baseline] ELSE Lowest(values)
  IN  [arm \in DOMAIN scores |-> NormalizedRegret(scores[arm], Highest(values), worst)]

DefaultTaskKey(r) == <<r.dataset, r.model, r.depth, r.spec>>

RegretByArm(rows, baseline) ==
  LET keys == {DefaultTaskKey(r) : r \in Range(rows)}
      group(k) == SelectSeq(rows, LAMBDA r : DefaultTaskKey(r) = k)
      scores(k) == [a \in {r.arm : r \in Range(group(k))} |->
                      (CHOOSE r \in Range(group(k)) : r.arm = a).compliance]
      ambiguous == \E k \in keys : Len(group(k)) # Cardinality(DOMAIN scores(k))
      on(a) == SetToSeq({k \in keys : a \in DOMAIN scores(k)})
  IN  IF ambiguous THEN Raised
      ELSE [a \in {r.arm : r \in Range(rows)} |->
              [tasks |-> Len(on(a)),
               regret |-> Mean([i \in DOMAIN on(a) |-> RegretPerTask(scores(on(a)[i]), baseline)[a]])]]

-----------------------------------------------------------------------------
(* The frontier, three times                                               *)

\* Slip: a point no better anywhere counts as dominated.
DominatesSlip(p, q) == Leq(q.accuracy, p.accuracy) /\ Leq(p.cost, q.cost)

Dominates(p, q) ==
  /\ Leq(q.accuracy, p.accuracy) /\ Leq(p.cost, q.cost)
  /\ Less(q.accuracy, p.accuracy) \/ Less(p.cost, q.cost)

ParetoFrontier(points) == SelectSeq(points, LAMBDA p : ~\E q \in Range(points) : Dominates(q, p))
DominatedSet(points)   == SelectSeq(points, LAMBDA p : \E q \in Range(points) : Dominates(q, p))

\* stats/dominance.py: the positions, by pairs (accuracy, cost).
PairDominates(a, b) ==
  /\ Leq(b[1], a[1]) /\ Leq(a[2], b[2])
  /\ Less(b[1], a[1]) \/ Less(a[2], b[2])
FrontierIndexes(pairs) ==
  SelectSeq([i \in DOMAIN pairs |-> i],
            LAMBDA i : ~\E j \in DOMAIN pairs \ {i} : PairDominates(pairs[j], pairs[i]))

\* cli.py: of the arms in their order, the cheapest first; of equally cheap
\* ones the better first.
FrontierArms(arms, points) ==
  LET beaten(a, b) == /\ b # a /\ Leq(points[b].cost, points[a].cost) /\ Leq(points[a].accuracy, points[b].accuracy)
                      /\ (Less(points[b].cost, points[a].cost) \/ Less(points[a].accuracy, points[b].accuracy))
      kept == SelectSeq(arms, LAMBDA a : ~\E b \in Range(arms) : beaten(a, b))
      before(p, q) == \/ Less(p.cost, q.cost)
                      \/ p.cost = q.cost /\ Less(q.accuracy, p.accuracy)
      at == SetToSortSeq(DOMAIN kept, LAMBDA i, j :
              \/ before(points[kept[i]], points[kept[j]])
              \/ i < j /\ ~before(points[kept[j]], points[kept[i]]))
  IN  [k \in DOMAIN at |-> kept[at[k]]]

\* Slabs between a point's accuracy and the reference's, from its cost to the
\* next dearer point's.
Hypervolume(points, reference) ==
  LET coords == SetToSortSeq(Range(ParetoFrontier(points)), LAMBDA p, q : Less(q.accuracy, p.accuracy))
      slab(s, p) == [area |-> Plus(s.area, Times(Minus(p.accuracy, reference.accuracy), Minus(s.upper, p.cost))),
                     upper |-> p.cost]
  IN  IF \E p \in Range(coords) : Less(p.accuracy, reference.accuracy) \/ Less(reference.cost, p.cost) THEN Raised
      ELSE FoldLeft(slab, [area |-> Zero, upper |-> reference.cost], coords).area

FromScoredRows(rows) == [i \in DOMAIN rows |-> [accuracy |-> rows[i].compliance, cost |-> rows[i].dollars]]

\* cli.py's mean and area under the curve of recovery by depth.
MeanOrZero(values) == IF values = <<>> THEN Zero ELSE Mean(values)
AUDC(recovery) ==
  LET depths == SetToSortSeq(DOMAIN recovery, <)
      strip(i) == Times(Frac(depths[i + 1] - depths[i], 2), Plus(recovery[depths[i]], recovery[depths[i + 1]]))
  IN  IF Len(depths) = 1 THEN recovery[depths[1]] ELSE Total([i \in 1..(Len(depths) - 1) |-> strip(i)])

\* What the command "frontier" prints.
FrontierCommand(rows) ==
  LET order == R!Dedup([i \in DOMAIN rows |-> rows[i].arm])
      arms == Range(order)
      of(a) == SelectSeq(rows, LAMBDA r : r.arm = a)
      at(a, d) == SelectSeq(rows, LAMBDA r : r.arm = a /\ r.depth = d)
      points == [a \in arms |->
                   [cost |-> MeanOrZero([i \in DOMAIN of(a) |-> Whole(of(a)[i].tokens)]),
                    accuracy |-> MeanOrZero([i \in DOMAIN of(a) |-> Indicator(of(a)[i].correct)])]]
  IN  [frontier |-> FrontierArms(order, points),
       audc |-> [a \in arms |-> AUDC([d \in {r.depth : r \in Range(of(a))} |->
                                        MeanOrZero([i \in DOMAIN at(a, d) |-> Indicator(at(a, d)[i].chain)])])]]
=============================================================================
