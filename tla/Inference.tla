----------------------------- MODULE Inference ------------------------------
(***************************************************************************)
(* Over exact fractions: the corrections for many tests                    *)
(* (stats/multiple_comparisons.py, stats/fdr_extra.py), tests that may be  *)
(* looked at after every answer (stats/sequential.py), calibrated          *)
(* intervals (stats/conformal.py), the exact paired test twice             *)
(* (stats/exact.py, stats/hypothesis.py) and the conjugate posterior       *)
(* (stats/bayes.py).  numpy's default argsort is not stable, so every      *)
(* correction takes the order it happened to return; answers are 0 or 1.   *)
(***************************************************************************)
EXTENDS Fractions

Argsorts(p) ==
  {o \in [DOMAIN p -> DOMAIN p] :
     Range(o) = DOMAIN p /\ \A i \in 1..(Len(p) - 1) : Leq(p[o[i]], p[o[i + 1]])}

RankIn(order, i) == CHOOSE r \in DOMAIN order : order[r] = i

HolmAdjust(p, order) ==
  LET step(r) == Times(Whole(Len(p) - r + 1), p[order[r]])
  IN  IF p = <<>> THEN Raised
      ELSE [i \in DOMAIN p |-> Lower(One, Highest({Zero} \cup {step(r) : r \in 1..RankIn(order, i)}))]

\* Slip: the running minimum is taken from the smallest p-value up.
StepUpSlip(p, factor, order) ==
  LET step(r) == Times(factor, Times(Frac(Len(p), r), p[order[r]]))
  IN  [i \in DOMAIN p |-> Lowest({One} \cup {step(r) : r \in 1..RankIn(order, i)})]
StepUp(p, factor, order) ==
  LET step(r) == Times(factor, Times(Frac(Len(p), r), p[order[r]]))
  IN  [i \in DOMAIN p |-> Lowest({One} \cup {step(r) : r \in RankIn(order, i)..Len(p)})]

BenjaminiHochbergAdjust(p, order) == IF p = <<>> THEN Raised ELSE StepUp(p, One, order)

AsPValues(p) == p # <<>> /\ \A x \in Range(p) : Leq(Zero, x) /\ Leq(x, One)
HarmonicFactor(m) == IF m < 1 THEN Raised ELSE Total([i \in 1..m |-> Frac(1, i)])

BenjaminiYekutieliAdjust(p, order) ==
  IF AsPValues(p) THEN StepUp(p, HarmonicFactor(Len(p)), order) ELSE Raised

\* For fewer than four lambdas; from four on the code smooths with a spline.
StoreyPi0(p, lambdas) ==
  LET lambda == lambdas[Len(lambdas)]
      above == SelectSeq(p, LAMBDA x : Less(lambda, x))
      estimate == Lower(One, Over(Frac(Len(above), Len(p)), Minus(One, lambda)))
  IN  IF \/ ~AsPValues(p) \/ lambdas = <<>>
         \/ \E l \in Range(lambdas) : Less(l, Zero) \/ Leq(One, l)
         \/ \E i \in 1..(Len(lambdas) - 1) : Leq(lambdas[i + 1], lambdas[i])
         \/ estimate = Zero
      THEN Raised ELSE estimate

StoreyQValues(p, pi0, lambdas, order) ==
  LET share == IF pi0 = None THEN StoreyPi0(p, lambdas) ELSE pi0
  IN  IF ~AsPValues(p) \/ share = Raised \/ Leq(share, Zero) \/ Less(One, share) THEN Raised
      ELSE [pi0 |-> share, qvalues |-> StepUp(p, share, order)]

-----------------------------------------------------------------------------
(* Ranks of the treatments, block by block; equal scores share a rank.     *)

RankOf(row, x, higherIsBetter) ==
  LET ahead == SelectSeq(row, LAMBDA y : IF higherIsBetter THEN Less(x, y) ELSE Less(y, x))
      level == SelectSeq(row, LAMBDA y : y = x)
  IN  Plus(Whole(Len(ahead)), Frac(Len(level) + 1, 2))

AverageRanks(scores, higherIsBetter) ==
  [j \in DOMAIN scores[1] |->
     Mean([b \in DOMAIN scores |-> RankOf(scores[b], scores[b][j], higherIsBetter)])]

-----------------------------------------------------------------------------
(* Tests that may be looked at after every answer                          *)

Inside(p) == Less(Zero, p) /\ Less(p, One)

CapitalFactor(x, null, bet, up) ==
  LET edge == Times(bet, Minus(Whole(x), null)) IN IF up THEN Plus(One, edge) ELSE Minus(One, edge)

BettingCapitalProcess(x, null, bet, up) ==
  LET extend(path, y) ==
        Append(path, Times(IF path = <<>> THEN One ELSE path[Len(path)], CapitalFactor(y, null, bet, up)))
  IN  IF x = <<>> \/ ~Inside(null) \/ ~Inside(bet) THEN Raised ELSE FoldLeft(extend, <<>>, x)

\* Slip: the last crossing instead of the first.
StoppingTimeSlip(path, alpha) ==
  LET crossings == {n \in DOMAIN path : Leq(Over(One, alpha), path[n])}
  IN  IF crossings = {} THEN None ELSE Max(crossings)
StoppingTime(path, alpha) ==
  LET crossings == {n \in DOMAIN path : Leq(Over(One, alpha), path[n])}
  IN  IF crossings = {} THEN None ELSE Min(crossings)

SequentialTest(x, null, alpha, bet, up) ==
  LET path == BettingCapitalProcess(x, null, bet, up)
  IN  IF ~Inside(alpha) \/ path = Raised THEN Raised
      ELSE [capital |-> path[Len(path)], path |-> path, n |-> Len(path),
            rejected |-> StoppingTime(path, alpha) # None, stoppingTime |-> StoppingTime(path, alpha)]

\* The answers up to which a bet either way has not refuted the mean g.
Standing(x, g, threshold, bet) ==
  LET up == BettingCapitalProcess(x, g, bet, TRUE)
      down == BettingCapitalProcess(x, g, bet, FALSE)
      refuted == {n \in DOMAIN x : Leq(threshold, Over(Plus(up[n], down[n]), Whole(2)))}
  IN  Min(refuted \cup {Len(x) + 1}) - 1

ConfidenceSequence(x, confidence, bet, gridSize) ==
  LET threshold == Over(One, Minus(One, confidence))
      grid == {Frac(i, gridSize + 1) : i \in 1..gridSize}
      standing == {<<g, Standing(x, g, threshold, bet)>> : g \in grid}
      set(n) == {s[1] : s \in {t \in standing : t[2] >= n}}
      low(n) == IF set(n) = {} THEN Zero ELSE Lowest(set(n))
      up(n) == IF set(n) = {} THEN One ELSE Highest(set(n))
  IN  IF x = <<>> \/ ~Inside(confidence) \/ ~Inside(bet) \/ gridSize < 1 THEN Raised
      ELSE [lower |-> [n \in DOMAIN x |-> Highest({low(k) : k \in 1..n})],
            upper |-> [n \in DOMAIN x |-> Lowest({up(k) : k \in 1..n})]]

-----------------------------------------------------------------------------

Ceiling(p) == -((-p[1]) \div p[2])
Ordered(s) == SortSeq(s, Less)

\* Infinite when there are too few residuals for the level: the whole line.
ConformalQuantile(residuals, alpha) ==
  LET n == Len(residuals)
      k == Ceiling(Times(Whole(n + 1), Minus(One, alpha)))
  IN  IF ~Inside(alpha) \/ n = 0 THEN Raised
      ELSE IF k > n THEN Infinity ELSE Ordered(residuals)[k]

SplitConformalInterval(truth, predicted, point, alpha) ==
  LET gap(a, b) == Higher(Minus(a, b), Minus(b, a))
      q == ConformalQuantile([i \in DOMAIN truth |-> gap(truth[i], predicted[i])], alpha)
  IN  IF Len(truth) # Len(predicted) \/ q = Raised THEN Raised
      ELSE IF q = Infinity THEN Infinity
      ELSE [low |-> Minus(point, q), high |-> Plus(point, q)]

-----------------------------------------------------------------------------

Choose(n) ==
  LET c[k \in 0..n] == IF k = 0 THEN 1 ELSE (c[k - 1] * (n - k + 1)) \div k IN c

McNemarExact(b, c) ==
  LET n == b + c
      m == Min({b, c})
      tail == Sum([k \in 1..(m + 1) |-> Choose(n)[k - 1]])
  IN  IF b < 0 \/ c < 0 THEN Raised
      ELSE IF n = 0 THEN [statistic |-> 0, p |-> One, mid |-> One]
      ELSE [statistic |-> b - c, p |-> Lower(One, Frac(2 * tail, 2^n)),
            mid |-> Lower(One, Frac(2 * tail - Choose(n)[m], 2^n))]

\* scipy's binomtest: the outcomes no likelier than the one observed.
BinomTest(k, n) ==
  Frac(MapThenSumSet(LAMBDA j : Choose(n)[j], {j \in 0..n : Choose(n)[j] <= Choose(n)[k]}), 2^n)

McNemarTest(pairs) ==
  LET aOnly == Len(SelectSeq(pairs, LAMBDA p : p[1] = 1 /\ p[2] = 0))
      bOnly == Len(SelectSeq(pairs, LAMBDA p : p[1] = 0 /\ p[2] = 1))
  IN  IF aOnly + bOnly = 0 THEN [statistic |-> 0, p |-> One]
      ELSE [statistic |-> aOnly - bOnly, p |-> BinomTest(Min({aOnly, bOnly}), aOnly + bOnly)]

BetaBinomialPosterior(successes, trials, a0, b0) ==
  IF trials < 0 \/ successes \notin 0..trials \/ Leq(a0, Zero) \/ Leq(b0, Zero) THEN Raised
  ELSE [alpha |-> Plus(a0, Whole(successes)), beta |-> Plus(b0, Whole(trials - successes))]

PosteriorMean(beta) == Over(beta.alpha, Plus(beta.alpha, beta.beta))
=============================================================================
