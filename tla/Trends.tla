------------------------------- MODULE Trends -------------------------------
(***************************************************************************)
(* Curves of compliance against depth, over exact fractions: the monotone  *)
(* fit (stats/isotonic.py), where two curves cross (stats/changepoint.py,  *)
(* analysis/effect_curves.py), the area under one                          *)
(* (metrics/area_under_depth.py) and the tilted loss                       *)
(* (stats/quantile_regression.py).  Fits by scipy are left out.            *)
(***************************************************************************)
EXTENDS Fractions

Block(mean, weight, count) == [mean |-> mean, weight |-> weight, count |-> count]
Pool(a, b) ==
  LET w == Plus(a.weight, b.weight)
  IN  Block(Over(Plus(Times(a.mean, a.weight), Times(b.mean, b.weight)), w), w, a.count + b.count)

\* What the new block becomes with all the blocks after the n-th pooled in.
Pooled(stack, new) ==
  LET pooled[n \in 0..Len(stack)] == IF n = Len(stack) THEN new ELSE Pool(stack[n + 1], pooled[n + 1])
  IN  pooled

\* Slip: one comparison with the last block instead of the loop.
PushSlip(stack, new) ==
  LET pooled == Pooled(stack, new)
      n == Len(stack)
  IN  IF stack # <<>> /\ Less(new.mean, stack[n].mean)
      THEN Append(SubSeq(stack, 1, n - 1), pooled[n - 1]) ELSE Append(stack, new)

\* Blocks are pooled back until one is no higher than the pool.
Push(stack, new) ==
  LET pooled == Pooled(stack, new)
      kept == Max({n \in 0..Len(stack) : n = 0 \/ Leq(stack[n].mean, pooled[n].mean)})
  IN  Append(SubSeq(stack, 1, kept), pooled[kept])

Spread(blocks) == FoldLeft(LAMBDA s, b : s \o [i \in 1..b.count |-> b.mean], <<>>, blocks)

AsWeights(weights, n) ==
  IF weights = None THEN [i \in 1..n |-> One]
  ELSE IF Len(weights) # n \/ \E w \in Range(weights) : Leq(w, Zero) THEN Raised ELSE weights

IsotonicRegression(y, weights, increasing) ==
  LET w == AsWeights(weights, Len(y))
      sign == Whole(IF increasing THEN 1 ELSE -1)
      blocks == FoldLeft(LAMBDA s, i : Push(s, Block(Times(sign, y[i]), w[i], 1)), <<>>,
                         [i \in 1..Len(y) |-> i])
      fitted == Spread(blocks)
  IN  IF y = <<>> \/ w = Raised THEN Raised ELSE Each(y, LAMBDA i : Times(sign, fitted[i]))

WeightedMean(y, w) == Over(Total([i \in DOMAIN y |-> Times(w[i], y[i])]), Total(w))
WeightedSquares(y, z, w) == Total([i \in DOMAIN y |-> Times(w[i], Square(Minus(y[i], z[i])))])

Explained(residual, total) == IF total = Zero THEN One ELSE Minus(One, Over(residual, total))
FitStatistic(y, w, fitted) ==
  IF fitted = Raised THEN Raised
  ELSE Explained(WeightedSquares(y, fitted, w), WeightedSquares(y, [i \in DOMAIN y |-> WeightedMean(y, w)], w))
MonotoneTrendStatistic(y, weights, increasing) ==
  FitStatistic(y, AsWeights(weights, Len(y)), IsotonicRegression(y, weights, increasing))

\* Observations are <<depth, value>> pairs.
DepthsOf(seen) == SetToSortSeq({o[1] : o \in Range(seen)}, <)
AtDepth(seen, d) == LET at == SelectSeq(seen, LAMBDA o : o[1] = d) IN [i \in DOMAIN at |-> at[i][2]]

TrendTest(depths, means, counts, increasing) ==
  [depths |-> depths, n |-> counts, fitted |-> IsotonicRegression(means, counts, increasing),
   statistic |-> MonotoneTrendStatistic(means, counts, increasing)]
TrendOver(seen, depths, increasing) ==
  TrendTest(depths, Each(depths, LAMBDA i : Mean(AtDepth(seen, depths[i]))),
            Each(depths, LAMBDA i : Whole(Len(AtDepth(seen, depths[i])))), increasing)
MonotoneTrendTest(seen, decreasing) == IF seen = <<>> THEN Raised ELSE TrendOver(seen, DepthsOf(seen), ~decreasing)

-----------------------------------------------------------------------------

InterpolatedCrossing(x, y, level) ==
  LET rises == {i \in 2..Len(x) : Less(level, y[i]) /\ Leq(y[i - 1], level)}
      i == Min(rises)
      frac == Over(Minus(level, y[i - 1]), Minus(y[i], y[i - 1]))
  IN  IF Len(x) # Len(y) \/ x = <<>> THEN Raised
      ELSE IF Less(level, y[1]) THEN x[1]
      ELSE IF rises = {} THEN None
      ELSE Plus(x[i - 1], Times(frac, Minus(x[i], x[i - 1])))

RSquared(observed, predicted) ==
  LET ones == [i \in DOMAIN observed |-> One]
      residual == WeightedSquares(observed, predicted, ones)
      total == WeightedSquares(observed, [i \in DOMAIN observed |-> Mean(observed)], ones)
  IN  IF total = Zero THEN (IF residual = Zero THEN One ELSE Zero)
      ELSE Minus(One, Over(residual, total))

-----------------------------------------------------------------------------

DepthValueCurve(seen) ==
  LET depths == DepthsOf(seen)
  IN  IF seen = <<>> THEN Raised
      ELSE [depths |-> depths, values |-> Each(depths, LAMBDA i : Mean(AtDepth(seen, depths[i])))]

AreaUnderDepthCurve(curve, normalize) ==
  LET d == curve.depths
      v == curve.values
      area == Total([i \in 1..(Len(d) - 1) |->
                       Times(Frac(d[i + 1] - d[i], 2), Plus(v[i], v[i + 1]))])
  IN  IF Len(d) = 1 THEN (IF normalize THEN v[1] ELSE Zero)
      ELSE IF normalize THEN Over(area, Whole(d[Len(d)] - d[1])) ELSE area

DepthHalfLife(curve) ==
  LET d == curve.depths
      v == curve.values
      half == Over(v[1], Whole(2))
      falls == {i \in 1..(Len(d) - 1) : Leq(v[i + 1], half) /\ Leq(half, v[i])}
      i == Min(falls)
  IN  IF Leq(v[1], Zero) \/ falls = {} THEN None
      ELSE IF v[i] = v[i + 1] THEN Whole(d[i])
      ELSE Plus(Whole(d[i]),
                Times(Over(Minus(v[i], half), Minus(v[i], v[i + 1])), Whole(d[i + 1] - d[i])))

PinballLoss(residuals, tau) ==
  IF residuals = <<>> \/ Leq(tau, Zero) \/ Leq(One, tau) THEN Raised
  ELSE Mean([i \in DOMAIN residuals |->
               Times(residuals[i], IF Less(residuals[i], Zero) THEN Minus(tau, One) ELSE tau)])
=============================================================================
