------------------------------ MODULE Agreement ------------------------------
(***************************************************************************)
(* How far raters agree (metrics/agreement.py, datasets/depth_labeling.py) *)
(* and how far stated probabilities can be trusted (metrics/calibration.py,*)
(* metrics/brier.py), over exact fractions.  A unit is the sequence of its *)
(* ratings, None where a rater gave none; a forecast is                    *)
(* [p |-> probability, y |-> 0 or 1].                                      *)
(***************************************************************************)
EXTENDS Fractions

Count(s, x) == Len(SelectSeq(s, LAMBDA y : y = x))
SumOver(S, F(_)) == FoldLeft(LAMBDA t, x : Plus(t, F(x)), Zero, SetToSeq(S))

FleissKappa(units) ==
  LET n == Len(units)
      k == Len(units[1])
      used == UNION {Range(row) : row \in Range(units)}
      agree(row) == Frac(Sum([i \in 1..k |-> Count(row, row[i])]) - k, k * (k - 1))
      pBar == Mean([i \in 1..n |-> agree(units[i])])
      pE == SumOver(used, LAMBDA c : Square(Ratio([i \in 1..n |-> Count(units[i], c)])))
      perRater == Over(pE, Whole(k * k))
  IN  IF \/ units = <<>> \/ k < 2 \/ \E row \in Range(units) : Len(row) # k
         \/ None \in used
      THEN Raised
      ELSE [pBar |-> pBar, pE |-> perRater, categories |-> Cardinality(used),
            kappa |-> IF perRater = One THEN One ELSE Over(Minus(pBar, perRater), Minus(One, perRater))]

Rated(row) == SelectSeq(row, LAMBDA v : v # None)
Pairable(units) == SelectSeq([i \in DOMAIN units |-> Rated(units[i])], LAMBDA row : Len(row) >= 2)

\* Ordered pairs of values in one unit, each unit weighing its number of values.
Coincidence(units, c, k) ==
  LET pairs(row) == IF c = k THEN Count(row, c) * (Count(row, c) - 1) ELSE Count(row, c) * Count(row, k)
  IN  Total([i \in DOMAIN units |-> Frac(pairs(units[i]), Len(units[i]) - 1)])

KrippendorffAlpha(ratings) ==
  LET units == Pairable(ratings)
      cats == UNION {Range(row) : row \in Range(units)}
      apart == {p \in cats \X cats : p[1] # p[2]}
      marginal(c) == SumOver(cats, LAMBDA k : Coincidence(units, c, k))
      total == SumOver(cats, marginal)
      observed == SumOver(apart, LAMBDA p : Coincidence(units, p[1], p[2]))
      expected == Over(SumOver(apart, LAMBDA p : Times(marginal(p[1]), marginal(p[2]))), Minus(total, One))
  IN  IF Less(total, Whole(2)) THEN Raised
      ELSE IF expected = Zero THEN One ELSE Minus(One, Over(observed, expected))

-----------------------------------------------------------------------------
(* Two annotators, as a sequence of their pairs of labels.                 *)

Distance(x, y, weights, categories) ==
  LET span == Max({1, Cardinality(categories) - 1})
      gap == Frac(Magnitude(x - y), span)
  IN  CASE weights = None -> IF x = y THEN Zero ELSE One
        [] weights = "linear" -> gap
        [] weights = "quadratic" -> Square(gap)

CohensKappa(pairs, weights) ==
  LET n == Len(pairs)
      cats == {p[1] : p \in Range(pairs)} \cup {p[2] : p \in Range(pairs)}
      gap(p) == Distance(p[1], p[2], weights, cats)
      observed == Mean([i \in 1..n |-> gap(pairs[i])])
      rows == [i \in 1..n |-> Mean([j \in 1..n |-> gap(<<pairs[i][1], pairs[j][2]>>)])]
      expected == Mean(rows)
  IN  IF n = 0 THEN Raised
      ELSE IF expected = Zero THEN One ELSE Minus(One, Over(observed, expected))

\* Of the tasks both annotators labelled, as a function from tasks to pairs.
CertifyDepths(labels, maxDisagreement) ==
  LET tasks == DOMAIN labels
      pairs == [i \in 1..Cardinality(tasks) |-> labels[SetToSeq(tasks)[i]]]
      dropped == {t \in tasks : Magnitude(labels[t][1] - labels[t][2]) > maxDisagreement}
  IN  IF tasks = {} THEN Raised
      ELSE [kappa |-> CohensKappa(pairs, "linear"),
            exact |-> Frac(Len(SelectSeq(pairs, LAMBDA p : p[1] = p[2])), Len(pairs)),
            n |-> Len(pairs), dropped |-> dropped,
            certified |-> [t \in tasks \ dropped |-> Min({labels[t][1], labels[t][2]})]]

-----------------------------------------------------------------------------

ForecastsOK(f) == f # <<>> /\ \A x \in Range(f) : Leq(Zero, x.p) /\ Leq(x.p, One)

\* The decomposition alone refuses outcomes other than 0 and 1.
BinaryForecastsOK(f) == ForecastsOK(f) /\ \A x \in Range(f) : x.y \in {0, 1}

BrierScore(f) ==
  IF ForecastsOK(f) THEN Mean([i \in DOMAIN f |-> Square(Minus(f[i].p, Whole(f[i].y)))]) ELSE Raised

InBin(p, b, bins) ==
  Leq(p, Frac(b, bins)) /\ IF b = 1 THEN Leq(Zero, p) ELSE Less(Frac(b - 1, bins), p)

Bin(f, b, bins) == SelectSeq(f, LAMBDA x : InBin(x.p, b, bins))
MeanForecast(bin) == Mean([i \in DOMAIN bin |-> bin[i].p])
Accuracy(bin) == Ratio([i \in DOMAIN bin |-> bin[i].y])
Occupied(f, bins) == {b \in 1..bins : Bin(f, b, bins) # <<>>}

Distant(c, a) == Higher(Minus(c, a), Minus(a, c))
ReliabilityCurve(f, bins) ==
  LET part(b) == Times(Frac(Len(Bin(f, b, bins)), Len(f)),
                       Distant(MeanForecast(Bin(f, b, bins)), Accuracy(Bin(f, b, bins))))
  IN  IF bins < 1 \/ ~ForecastsOK(f) THEN Raised
      ELSE [bins |-> [b \in Occupied(f, bins) |->
                        [count |-> Len(Bin(f, b, bins)), confidence |-> MeanForecast(Bin(f, b, bins)),
                         accuracy |-> Accuracy(Bin(f, b, bins))]],
            ece |-> SumOver(Occupied(f, bins), part)]

BinOf(p, bins) == CHOOSE b \in 1..bins : InBin(p, b, bins)
Decomposed(f, bins, curve, base) ==
  LET weighed(At(_)) == SumOver(DOMAIN curve, LAMBDA b :
                          Times(Frac(curve[b].count, Len(f)), Square(At(curve[b]))))
  IN  [reliability |-> weighed(LAMBDA c : Minus(c.confidence, c.accuracy)),
       resolution |-> weighed(LAMBDA c : Minus(c.accuracy, base)),
       uncertainty |-> Times(base, Minus(One, base)), baseRate |-> base,
       brier |-> Mean([i \in DOMAIN f |->
                   Square(Minus(curve[BinOf(f[i].p, bins)].confidence, Whole(f[i].y)))])]
BrierDecomposition(f, bins) ==
  IF bins < 1 \/ ~BinaryForecastsOK(f) THEN Raised
  ELSE Decomposed(f, bins, ReliabilityCurve(f, bins).bins, Accuracy(f))
=============================================================================
