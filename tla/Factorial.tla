------------------------------ MODULE Factorial ------------------------------
(***************************************************************************)
(* Comparisons of samples over exact fractions: the aligned rank transform *)
(* of an arm x depth design (stats/aligned_rank_transform.py), effect      *)
(* sizes (stats/effect_size.py), stochastic dominance (stats/dominance.py) *)
(* and the pooling of studies (stats/meta_analysis.py).  The tails of the  *)
(* F and normal distributions are left out.  An observation is             *)
(* [arm, depth, value].                                                    *)
(***************************************************************************)
EXTENDS Fractions

Levels(seen, factor) == {o[factor] : o \in Range(seen)}
CellSize(seen, i, j) == Len(SelectSeq(seen, LAMBDA o : o.arm = i /\ o.depth = j))

\* Both factors vary, every cell has as many observations, and at least two.
Prepared(seen) ==
  LET arms == Levels(seen, "arm")
      depths == Levels(seen, "depth")
  IN  /\ Cardinality(arms) >= 2 /\ Cardinality(depths) >= 2
      /\ \E n \in 2..Len(seen) : \A i \in arms, j \in depths : CellSize(seen, i, j) = n

Values(s) == [k \in DOMAIN s |-> s[k].value]

MeanOver(y, K) == Over(Total([k \in DOMAIN y |-> IF k \in K THEN y[k] ELSE Zero]), Whole(Cardinality(K)))

GroupMeans(y, seen, k) ==
  LET same(factors) == {l \in DOMAIN seen : \A f \in factors : seen[l][f] = seen[k][f]}
  IN  [cell |-> MeanOver(y, same({"arm", "depth"})), arm |-> MeanOver(y, same({"arm"})),
       depth |-> MeanOver(y, same({"depth"})), grand |-> Mean(y)]

\* The part of an observation that an effect accounts for.
Estimated(means, effect) ==
  CASE effect = "arm" -> Minus(means.arm, means.grand)
    [] effect = "depth" -> Minus(means.depth, means.grand)
    [] effect = "interaction" -> Plus(Minus(Minus(means.cell, means.arm), means.depth), means.grand)

Aligned(value, means, effect) == Plus(Minus(value, means.cell), Estimated(means, effect))
AlignForEffect(seen, effect) ==
  IF ~Prepared(seen) THEN Raised
  ELSE Each(seen, LAMBDA k : Aligned(seen[k].value, GroupMeans(Values(seen), seen, k), effect))

\* scipy's rankdata: equal values share the mean of their ranks.
RankData(s) ==
  LET rank(k) == Plus(Whole(Cardinality({l \in DOMAIN s : Less(s[l], s[k])})),
                      Frac(Cardinality({l \in DOMAIN s : s[l] = s[k]}) + 1, 2))
  IN  Each(s, rank)

AlignedRanks(seen, effect) ==
  LET aligned == AlignForEffect(seen, effect) IN IF aligned = Raised THEN Raised ELSE RankData(aligned)

\* The squares that an observation adds to each sum.
Squares(value, m) ==
  [arm |-> Square(Minus(m.arm, m.grand)), depth |-> Square(Minus(m.depth, m.grand)),
   cells |-> Square(Minus(m.cell, m.grand)), total |-> Square(Minus(value, m.grand))]

SumOf(squares, name) == Total([k \in DOMAIN squares |-> squares[k][name]])
SumsOf(squares) == [name \in {"arm", "depth", "cells", "total"} |-> SumOf(squares, name)]
Partition(sums) ==
  [arm |-> sums.arm, depth |-> sums.depth, interaction |-> Minus(Minus(sums.cells, sums.arm), sums.depth),
   error |-> Minus(sums.total, sums.cells)]
AnovaTable(y, seen) ==
  Partition(SumsOf(Each(seen, LAMBDA k : Squares(y[k], GroupMeans(y, seen, k)))))

FRatio(square, error, df, dfError) ==
  [df |-> df, dfError |-> dfError,
   f |-> IF error = Zero THEN (IF Less(Zero, square) THEN Infinity ELSE Zero)
         ELSE Over(Over(square, Whole(df)), Over(error, Whole(dfError)))]

FOf(table, effect, a, b, n) ==
  FRatio(table[effect], table.error,
         CASE effect = "arm" -> a - 1 [] effect = "depth" -> b - 1 [] OTHER -> (a - 1) * (b - 1), n - a * b)

TwoWayAnovaF(ranks, seen, effect) ==
  FOf(AnovaTable(ranks, seen), effect, Cardinality(Levels(seen, "arm")),
      Cardinality(Levels(seen, "depth")), Len(ranks))

AlignedRankTransform(seen) ==
  IF ~Prepared(seen) THEN Raised
  ELSE [effect \in {"arm", "depth", "interaction"} |->
          TwoWayAnovaF(AlignedRanks(seen, effect), seen, effect)]

-----------------------------------------------------------------------------

PairwiseSigns(a, b) ==
  LET pairs == (DOMAIN a) \X (DOMAIN b)
      greater == Cardinality({p \in pairs : Less(b[p[2]], a[p[1]])})
      less == Cardinality({p \in pairs : Less(a[p[1]], b[p[2]])})
  IN  [greater |-> greater, less |-> less, ties |-> Cardinality(pairs) - greater - less]

CliffsDelta(a, b) ==
  LET s == PairwiseSigns(a, b)
      delta == Frac(s.greater - s.less, Len(a) * Len(b))
      size == Magnitude(delta[1])
      below(n) == size * 1000 < n * delta[2]
  IN  IF a = <<>> \/ b = <<>> THEN Raised
      ELSE [delta |-> delta,
            magnitude |-> IF below(147) THEN "negligible" ELSE IF below(330) THEN "small"
                          ELSE IF below(474) THEN "medium" ELSE "large"]

CommonLanguageEffectSize(a, b) ==
  LET s == PairwiseSigns(a, b)
  IN  IF a = <<>> \/ b = <<>> THEN Raised ELSE Frac(2 * s.greater + s.ties, 2 * Len(a) * Len(b))

OddsRatio(sa, na, sb, nb) ==
  IF sa \notin 0..na \/ sb \notin 0..nb THEN Raised
  ELSE Frac((2 * sa + 1) * (2 * (nb - sb) + 1), (2 * (na - sa) + 1) * (2 * sb + 1))

-----------------------------------------------------------------------------

Ecdf(s, x) == Frac(Len(SelectSeq(s, LAMBDA y : Leq(y, x))), Len(s))
Grid(a, b) == SetToSortSeq(Range(a) \cup Range(b), Less)

FirstOrderDominates(a, b) ==
  IF a = <<>> \/ b = <<>> THEN Raised ELSE \A x \in Range(Grid(a, b)) : Leq(Ecdf(a, x), Ecdf(b, x))

\* The area under the step function up to the j-th point of the grid.
EcdfArea(s, grid, j) ==
  Total([i \in 1..(j - 1) |-> Times(Ecdf(s, grid[i]), Minus(grid[i + 1], grid[i]))])

SecondOrderDominates(a, b) ==
  LET grid == Grid(a, b)
  IN  IF a = <<>> \/ b = <<>> THEN Raised
      ELSE \A j \in DOMAIN grid : Leq(EcdfArea(a, grid, j), EcdfArea(b, grid, j))

-----------------------------------------------------------------------------

WeightedEffect(y, w) == Over(Total([i \in DOMAIN y |-> Times(w[i], y[i])]), Total(w))

DerSimonianLaird(y, v) ==
  LET k == Len(y)
      w == [i \in 1..k |-> Over(One, v[i])]
      fixed == WeightedEffect(y, w)
      q == Total([i \in 1..k |-> Times(w[i], Square(Minus(y[i], fixed)))])
      c == Minus(Total(w), Over(Total([i \in 1..k |-> Square(w[i])]), Total(w)))
      excess == Minus(q, Whole(k - 1))
      tau == Higher(Zero, Over(excess, c))
      star == [i \in 1..k |-> Over(One, Plus(v[i], tau))]
  IN  IF Len(v) # k \/ k < 2 \/ \E i \in DOMAIN v : Leq(v[i], Zero) THEN Raised
      ELSE [fixed |-> fixed, q |-> q, tau |-> tau, pooled |-> WeightedEffect(y, star),
            iSquared |-> IF q = Zero THEN Zero ELSE Higher(Zero, Over(excess, q))]
=============================================================================
