------------------------------- MODULE Study --------------------------------
(***************************************************************************)
(* Every statistic, test and theory of the package on whatever sample has  *)
(* arrived.  The pure code is fed one subject at a time, with the          *)
(* observations about it arriving one by one, in any order; Study and      *)
(* Evaluation recompute what the code computes on what has arrived.  For   *)
(* the theory, an arrival is one more depth scanned of a model of recovery *)
(* chosen at the start.                                                    *)
(***************************************************************************)
EXTENDS RecoveryTheory, Inference, Trends

CONSTANTS Subjects, Alphabet, Length, \* what may arrive for a subject, how often
          Models                      \* models of recovery, for the theory

VARIABLES subject, model, seen
studyVars == <<subject, model, seen>>

StudyInit ==
  /\ subject \in Subjects
  /\ model \in IF subject = "theory" THEN Models ELSE {None}
  /\ seen = <<>>

Observe ==
  /\ Len(seen) < Length[subject]
  /\ \E x \in Alphabet[subject] : seen' = Append(seen, x)
  /\ UNCHANGED <<subject, model>>

StudySpec == StudyInit /\ [][Observe]_studyVars

About(s) == subject = s /\ seen # <<>>

-----------------------------------------------------------------------------
\* A model is [s0, rho, q, tau].
CONSTANTS DepthBound, SigLevels, Alpha, Confidence, NullMeans

\* What sequential.py checks of its arguments, what RecoveryModel and the scan
\* check of theirs, that DepthBound is above every tau-zero crossover of Models,
\* and that no path of capitals is one that raised.
ASSUME StudyAssumption ==
  /\ Alphabet["answers"] \subseteq {0, 1}
  /\ \A p \in {Alpha, Confidence} \cup NullMeans : p \in Fraction /\ Inside(p)
  /\ Models \subseteq [s0 : Fraction, rho : Fraction, q : Fraction, tau : Fraction]
  /\ \A m \in Models :
       /\ DecayAccepts(m) /\ Probability(m.q) /\ Leq(Zero, m.tau)
       /\ IsDecaying(m) =>
            \E d \in 0..DepthBound : Less(Times(Square(m.s0), Power(m.rho, d + 1)), Square(m.q))
  /\ DepthBound \in Nat /\ Raised \notin Seq(Fraction)

Half == Frac(1, 2)

F == INSTANCE Factorial
A == INSTANCE Agreement
J == INSTANCE JavaReference

-----------------------------------------------------------------------------
(* The theory                                                              *)

maxDepth == Len(seen) + 1
Scanned(d) == FindCrossover(model, model.tau, d)

\* The closed form against the scan: a crossover lies in its bracket and its
\* wins in its window; without overhead the bracket is exact; an overhead of
\* at least the link's reliability leaves nothing to win.
InBracket(found, bracket) ==
  /\ found.exists => /\ found.dStar \in bracket.lower..bracket.upper
                     /\ found.win[1] >= bracket.window[1] /\ found.win[2] <= bracket.window[2]
                     /\ \A d \in bracket.lower..bracket.upper :
                          CompareCrossover(Whole(d), Whole(found.dStar), Whole(bracket.upper - bracket.lower)).agrees
  /\ model.tau = Zero => /\ found.exists <=> bracket.lower <= maxDepth
                         /\ found.exists => found.dStar = bracket.lower /\ found.win = bracket.window

StillFound(shallow, found) == shallow.exists => shallow.dStar = found.dStar

BracketHolds ==
  IsDecaying(model) =>
    /\ InBracket(Scanned(maxDepth), BracketCrossover(model, model.tau, maxDepth, DepthBound))
    /\ Leq(model.q, model.tau) => ~Scanned(maxDepth).exists
    /\ \A d \in 1..maxDepth : StillFound(Scanned(d), Scanned(maxDepth))

\* Walking a path hop by hop multiplies up to the two closed forms, and a path
\* is never likelier than any hop of it.
Interleaved(s, t) == [i \in 1..(2 * Len(s)) |-> IF i % 2 = 0 THEN t[i \div 2] ELSE s[(i + 1) \div 2]]
NoLikelier(path, hops) == \A h \in Range(hops) : Leq(path.survival, h.survival)
HalfTyped(path) == path.typed = path.similarity /\ path.hops = 2 * path.typed

PathsHold(similar, typed) ==
  /\ ComposePath(typed).survival = PStructCurve(model, maxDepth)[maxDepth]
  /\ Raised \notin Range(similar) =>
       /\ ComposePath(similar).survival = PSimCurve(model, maxDepth)[maxDepth]
       /\ NoLikelier(ComposePath(similar), similar)
       /\ HalfTyped(ComposePath(Interleaved(similar, typed)))

PathsCompose ==
  PathsHold([i \in 1..maxDepth |-> SimilarityHop(model, i)], [i \in 1..maxDepth |-> TypedHop(model.q)])

\* The elasticities are the exponents of the closed forms, the gap's slopes are
\* the differences of the two sides', and a slope is a central difference
\* wherever the curve is no more than quadratic.
SlopesHold(sim, struct, gap, d) ==
  /\ sim.eS0 = Whole(d) /\ sim.eRho = Whole((d * (d + 1)) \div 2) /\ struct.eQ = Whole(d)
  /\ gap.q = struct.q /\ Plus(gap.s0, sim.s0) = Zero /\ Plus(gap.rho, sim.rho) = Zero
  /\ gap.value = Minus(struct.value, sim.value)

Slope(f, x) == CentralDifference(f, x, Frac(1, 4))
Near(x) == {Minus(x, Frac(1, 4)), Plus(x, Frac(1, 4))}

SlopesAgree ==
  /\ SlopesHold(SimilaritySensitivity(maxDepth, model), StructuredSensitivity(maxDepth, model),
                GapSensitivity(maxDepth, model), maxDepth)
  /\ Slope([q \in Near(model.q) |-> Power(q, 2)], model.q) = StructuredSensitivity(2, model).q
  /\ Slope([s0 \in Near(model.s0) |-> SimilarityRecovery(2, [model EXCEPT !.s0 = s0])], model.s0)
       = SimilaritySensitivity(2, model).s0

\* What is paid: typed links cost no more tokens when every lookup by
\* similarity finds with probability at most one, both ways of paying yield one
\* useful item a hop, the return ratio is the cost ratio, and an overhead of
\* the gap itself breaks even.
CostsAgree ==
  LET d == maxDepth IN
  /\ Leq(Retrievability(model, 1), One) /\ Leq(model.rho, One) =>
       Leq(One, TokenCostRatio(d, model, 2)) /\ SimilarityUsefulSignal(d, model, 2) = Whole(2 * d)
  /\ StructuredUsefulSignal(d, 2) = Whole(2 * d)
  /\ ReturnRatio(d, model, 2) = CostRatio(d, model, 2)
  /\ NetValueGain(d, model, Whole(3), Times(Whole(3), Gap(d, model))) = Zero
  /\ OverheadRatio(Times(Whole(3), Frac(1, 8)), Whole(3)) = Frac(1, 8)
  /\ CostPerCorrectDollars(d, model, 2, Frac(1, 8), TRUE) = Times(Frac(1, 8), StructuredCost(d, model, 2))

\* Chains of corrections and scattered decisions: one link fewer than
\* decisions, structure loses its advantage only with its links, and scatter
\* multiplies out whatever the base.
ChainsAgree ==
  LET n == maxDepth
      r == SupersessionRecovery(n, model.q, None)
  IN  /\ n > 1 => r.struct = StructuredRecovery(n - 1, model.q)
      /\ n = 1 => r.struct = One /\ r.advantage = Zero
      /\ r.wins <=> ~Less(r.advantage, Zero)
      /\ model.q = One => r.wins
      /\ LET base == SimilarityRecovery(n, model)
         IN  Leq(base, One) => DegradeRecovery(base, model.q, n).degraded = ScatteredRecovery(n, model, model.q, n)
      /\ \A i \in 1..n : Leq(FactorCurve(model.q, n)[i + 1], FactorCurve(model.q, n)[i])

\* The two ports in Java find what the package finds.
SameCrossover(scan, found) ==
  /\ scan.exists = found.exists /\ scan.peak = found.peak
  /\ found.exists => scan.win = found.win /\ scan.root = found.root

PortAgrees(port, n) ==
  /\ Minus(J!Structured(n, port), J!Similarity(n, port)) = J!G(n, port) /\ J!G(n, port) = Gap(n, model)
  /\ SameCrossover(J!FindCrossoverDepth(port, model.tau, n), Scanned(n))
  /\ IsDecaying(model) => J!BracketCrossoverDepth(port, model.tau, n, DepthBound)
                             = BracketCrossover(model, model.tau, n, DepthBound)

PortsAgree ==
  /\ PortAgrees(J!Model(model.s0, model.rho, model.q), maxDepth)
  /\ J!SupersessionAdvantage(maxDepth, model.q) = SupersessionRecovery(maxDepth, model.q, None).advantage
  /\ J!ScatteredRecovery(maxDepth, model, model.q, maxDepth) = ScatteredRecovery(maxDepth, model, model.q, maxDepth)
  /\ J!ProbesLowerBound(maxDepth, model.q) >= J!ProbesForScatter(J!ScatterForFlatChain(maxDepth))
  /\ maxDepth > 1 => J!ProbesLowerBound(maxDepth, model.q) > J!ProbesForDereference

\* theory/*.py: each closed form agrees with the scan, the product or the ratio
\* it stands for, at every depth, and with its ports.
TheoryHolds ==
  subject = "theory" =>
    BracketHolds /\ PathsCompose /\ SlopesAgree /\ CostsAgree /\ ChainsAgree /\ PortsAgree

\* stats/sequential.py: looking on never moves the time a test stopped, takes
\* its rejection back, or lets a mean that was refuted return.
Betting(x, m) == SequentialTest(x, m, Alpha, Half, TRUE)

StillStopped(before, after) == before.rejected => after.stoppingTime = before.stoppingTime
Narrows(old, new, n) ==
  /\ SubSeq(new.lower, 1, n) = old.lower
  /\ Leq(old.lower[n], new.lower[n + 1]) /\ Leq(new.upper[n + 1], old.upper[n])
  /\ Leq(new.lower[n + 1], new.upper[n + 1])

Settled ==
  [][About("answers") =>
       /\ \A m \in NullMeans : StillStopped(Betting(seen, m), Betting(seen', m))
       /\ Narrows(ConfidenceSequence(seen, Confidence, Half, 3),
                  ConfidenceSequence(seen', Confidence, Half, 3), Len(seen))]_studyVars

-----------------------------------------------------------------------------
(* Tests                                                                   *)

\* The largest p-value of a family of tests corrected together by Bonferroni.
Closed(p, i) ==
  Lower(One, Highest({Times(Whole(Cardinality(T)), Lowest({p[j] : j \in T})) :
                        T \in {U \in SUBSET DOMAIN p : i \in U}}))

Storey(p, order) == StoreyQValues(p, None, <<Zero, Half>>, order)

\* Each correction is the procedure it is named after: Holm's is closed testing
\* of Bonferroni's, Benjamini and Hochberg's rejects the k smallest for the
\* largest k under the line; they are ordered by how careful they are, and equal
\* p-values get equal answers however the sort places them.
CorrectionsSound ==
  About("pvalues") => \A order \in Argsorts(seen) :
    LET n == Len(seen)
        holm == HolmAdjust(seen, order)
        bh == BenjaminiHochbergAdjust(seen, order)
        by == BenjaminiYekutieliAdjust(seen, order)
        under(a) == {k \in 1..n : Leq(seen[order[k]], Times(a, Frac(k, n)))}
        cut(a) == IF under(a) = {} THEN {} ELSE {order[k] : k \in 1..Max(under(a))}
    IN  /\ \A i \in 1..n : /\ holm[i] = Closed(seen, i)
                           /\ Leq(seen[i], bh[i]) /\ Leq(bh[i], holm[i]) /\ Leq(bh[i], by[i])
                           /\ Storey(seen, order) # Raised => Leq(Storey(seen, order).qvalues[i], bh[i])
        /\ \A i, j \in 1..n : Leq(seen[i], seen[j]) => Leq(holm[i], holm[j]) /\ Leq(bh[i], bh[j])
        /\ \A a \in SigLevels : \A i \in 1..n : Leq(bh[i], a) => \E j \in cut(a) : seen[j] = seen[i]
        /\ \A a \in SigLevels : \A i \in cut(a) : Leq(bh[i], a)
        /\ LET ranks == AverageRanks(<<seen>>, TRUE)
           IN  Total(ranks) = Frac(n * (n + 1), 2)

\* The chance, answers coming with mean m, that the test has rejected by then.
RejectionChance(n, m) ==
  LET chance(x) == FoldLeft(LAMBDA c, y : Times(c, IF y = 1 THEN m ELSE Minus(One, m)), One, x)
      rejecting == {x \in [1..n -> {0, 1}] : SequentialTest(x, m, Alpha, Half, TRUE).rejected}
  IN  A!SumOver(rejecting, chance)

\* A bet on the null mean is fair, so that stopping at the first crossing is
\* wrong no more often than alpha; the posterior mean lies between the prior's
\* and the rate seen.
BetsFair ==
  About("answers") => \A m \in NullMeans :
    LET now == SequentialTest(seen, m, Alpha, Half, TRUE).capital
        next(x) == SequentialTest(Append(seen, x), m, Alpha, Half, TRUE).capital
        rate == Ratio(seen)
        mean == PosteriorMean(BetaBinomialPosterior(Sum(seen), Len(seen), Half, Half))
    IN  /\ Plus(Times(m, next(1)), Times(Minus(One, m), next(0))) = now
        /\ Leq(RejectionChance(Len(seen), m), Alpha)
        /\ Leq(Lower(rate, Half), mean) /\ Leq(mean, Higher(rate, Half))

\* The two exact paired tests are one test, and swapping the systems only turns
\* its sign; the mid p-value is the milder one.
PairsAgree ==
  About("pairs") =>
    LET count(x) == Len(SelectSeq(seen, LAMBDA p : p = x))
        b == count(<<1, 0>>)
        c == count(<<0, 1>>)
        exact == McNemarExact(b, c)
    IN  /\ exact.p = McNemarTest(seen).p /\ exact.statistic = McNemarTest(seen).statistic
        /\ McNemarExact(c, b) = [exact EXCEPT !.statistic = -exact.statistic]
        /\ Leq(exact.mid, exact.p)

\* Split conformal coverage: whichever of the answers is the new one, the
\* interval of the others covers it for at least the stated share of choices.
Covered ==
  About("residuals") /\ Len(seen) > 1 => \A a \in SigLevels :
    LET others(i) == SubSeq(seen, 1, i - 1) \o SubSeq(seen, i + 1, Len(seen))
        band(i) == SplitConformalInterval(others(i), [k \in 1..(Len(seen) - 1) |-> One], One, a)
        covers == {i \in DOMAIN seen : \/ band(i) = Infinity
                                       \/ Leq(band(i).low, seen[i]) /\ Leq(seen[i], band(i).high)}
    IN  Leq(Times(Minus(One, a), Whole(Len(seen))), Whole(Cardinality(covers)))

\* stats: every test does what its name promises, on every sample.
TestsSound == CorrectionsSound /\ BetsFair /\ PairsAgree /\ Covered

-----------------------------------------------------------------------------
(* Estimates                                                               *)

\* The mean of the values i to j.
Between(y, w, i, j) == WeightedMean(SubSeq(y, i, j), SubSeq(w, i, j))

\* The curve read between its depths.
ReadAt(x, y, d) ==
  LET i == Max({k \in DOMAIN x : Leq(x[k], d)})
  IN  IF x[i] = d THEN y[i]
      ELSE Plus(y[i], Times(Over(Minus(d, x[i]), Minus(x[i + 1], x[i])), Minus(y[i + 1], y[i])))

\* Pooling gives the least squares fit: at every depth the highest over the
\* earlier starts of the lowest over the later ends of the means between.
FitsBest(trend, sign, y) ==
  /\ \A i \in DOMAIN y :
       Times(sign, trend.fitted[i]) =
         Highest({Lowest({Between(y, trend.n, a, b) : b \in i..Len(y)}) : a \in 1..i})
  /\ Leq(Zero, trend.statistic) /\ Leq(trend.statistic, One)

MonotoneFit(values) ==
  \A decreasing \in BOOLEAN :
    /\ decreasing => FitsBest(MonotoneTrendTest(seen, TRUE), Whole(-1), Each(values, LAMBDA i : Negated(values[i])))
    /\ ~decreasing => FitsBest(MonotoneTrendTest(seen, FALSE), One, values)
    /\ MonotoneTrendStatistic(values, None, decreasing)
         = RSquared(values, IsotonicRegression(values, None, decreasing))

\* The area, the half-life and the crossing are those of the curve drawn with
\* straight lines, and nothing before the half-life or the crossing is past it.
AreaHolds(curve, x, y, mean) ==
  /\ AreaUnderDepthCurve(curve, FALSE)
       = Total([t \in 1..(Last(curve.depths) - curve.depths[1]) |->
                  Over(Plus(ReadAt(x, y, Whole(curve.depths[1] + t - 1)), ReadAt(x, y, Whole(curve.depths[1] + t))),
                       Whole(2))])
  /\ Leq(Lowest(Range(y)), mean) /\ Leq(mean, Highest(Range(y)))

HalfLifeHolds(life, x, y, half) ==
  life # None => /\ ReadAt(x, y, life) = half
                 /\ \A i \in DOMAIN x : Less(x[i], life) => Less(half, y[i])

CrossingHolds(crossing, x, y, level) ==
  IF crossing = None THEN \A i \in DOMAIN y : Leq(y[i], level)
  ELSE /\ \A i \in DOMAIN x : Less(x[i], crossing) => Leq(y[i], level)
       /\ crossing = x[1] \/ ReadAt(x, y, crossing) = level

CurveRead(curve, x, y) ==
  /\ AreaHolds(curve, x, y, AreaUnderDepthCurve(curve, TRUE))
  /\ HalfLifeHolds(DepthHalfLife(curve), x, y, Over(y[1], Whole(2)))
  /\ CrossingHolds(InterpolatedCrossing(x, y, Frac(1, 4)), x, y, Frac(1, 4))

\* A constant that minimises the tilted loss is a quantile of the values.
TiltIsQuantile ==
  \A tau \in SigLevels :
    LET vs == [i \in DOMAIN seen |-> seen[i][2]]
        loss(c) == PinballLoss([i \in DOMAIN vs |-> Minus(vs[i], c)], tau)
        upTo(c) == Frac(Len(SelectSeq(vs, LAMBDA v : Leq(v, c))), Len(vs))
        below(c) == Frac(Len(SelectSeq(vs, LAMBDA v : Less(v, c))), Len(vs))
    IN  \A c \in Range(vs) :
          (\A e \in Range(vs) : Leq(loss(c), loss(e))) => Leq(tau, upTo(c)) /\ Leq(below(c), tau)

CurveHolds(curve) ==
  MonotoneFit(curve.values) /\ CurveRead(curve, Each(curve.depths, LAMBDA i : Whole(curve.depths[i])), curve.values)

CurvesSound == About("curve") => CurveHolds(DepthValueCurve(seen)) /\ TiltIsQuantile

\* Two effect sizes are one up to scale and turn with the samples; dominance of
\* the first order gives the second order's and a delta that is not negative.
SamplesSound ==
  About("samples") =>
    LET of(g) == AtDepth(seen, g)
        twos(g) == Len(SelectSeq(of(g), LAMBDA v : v = Whole(2)))
        odds(g, h) == F!OddsRatio(twos(g), Len(of(g)), twos(h), Len(of(h)))
        delta(g, h) == F!CliffsDelta(of(g), of(h)).delta
    IN  Len(of(1)) > 0 /\ Len(of(2)) > 0 =>
          /\ delta(1, 2) = Minus(Times(Whole(2), F!CommonLanguageEffectSize(of(1), of(2))), One)
          /\ Plus(delta(1, 2), delta(2, 1)) = Zero /\ Times(odds(1, 2), odds(2, 1)) = One
          /\ F!FirstOrderDominates(of(1), of(2)) =>
               F!SecondOrderDominates(of(1), of(2)) /\ Leq(Zero, delta(1, 2))
          /\ F!FirstOrderDominates(of(1), of(2)) /\ F!FirstOrderDominates(of(2), of(1)) =>
               delta(1, 2) = Zero

\* Pooling studies stays within their effects, moves with all of them, is their
\* mean when they are equally precise, and falls back to the fixed effect when
\* they do not differ more than chance.
PooledWithin(r, y, v) ==
  /\ \A e \in {r.fixed, r.pooled} : Leq(Lowest(Range(y)), e) /\ Leq(e, Highest(Range(y)))
  /\ F!DerSimonianLaird([i \in DOMAIN y |-> Plus(y[i], One)], v)
       = [r EXCEPT !.fixed = Plus(r.fixed, One), !.pooled = Plus(r.pooled, One)]
  /\ Cardinality(Range(v)) = 1 => r.pooled = Mean(y)
  /\ r.tau = Zero => r.pooled = r.fixed
  /\ r.tau = Zero <=> r.iSquared = Zero

StudiesHold(y, v) == PooledWithin(F!DerSimonianLaird(y, v), y, v)

StudiesSound ==
  About("studies") /\ Len(seen) > 1 =>
    StudiesHold([i \in DOMAIN seen |-> seen[i][1]], [i \in DOMAIN seen |-> seen[i][2]])

\* Two arms at two depths, two answers to a cell, in this order.
Design == [k \in DOMAIN seen |-> [arm |-> ((k - 1) \div 4) + 1, depth |-> (((k - 1) \div 2) % 2) + 1,
                                  value |-> seen[k]]]
Effects == {"arm", "depth", "interaction"}

\* Aligning for an effect keeps that effect and the error as they are and
\* strips the others; the sums of squares of the ranks are a partition; and the
\* transform does not care which factor is called which.
Turned(design) == [k \in DOMAIN design |-> [design[k] EXCEPT !.depth = design[k].arm, !.arm = design[k].depth]]

KeepsEffect(e, table, full) ==
  /\ table[e] = full[e] /\ table.error = full.error
  /\ \A other \in Effects \ {e} : table[other] = Zero

Mirrored(art, swapped) ==
  /\ art["arm"] = swapped["depth"] /\ art["depth"] = swapped["arm"]
  /\ art["interaction"] = swapped["interaction"]

DesignHolds(design) ==
  /\ \A e \in Effects :
       /\ KeepsEffect(e, F!AnovaTable(F!AlignForEffect(design, e), design), F!AnovaTable(seen, design))
       /\ \A part \in Range(F!AnovaTable(F!AlignedRanks(design, e), design)) : Leq(Zero, part)
  /\ Mirrored(F!AlignedRankTransform(design), F!AlignedRankTransform(Turned(design)))

DesignSound ==
  About("design") =>
    IF Len(seen) < 8 THEN F!AlignedRankTransform(Design) = Raised ELSE DesignHolds(Design)

\* Two coefficients of the same ratings differ only by the correction for a
\* finite sample, and are one exactly when nobody disagrees.
RatersSound ==
  About("raters") /\ (\A row \in Range(seen) : None \notin Range(row)) =>
    LET n == 3 * Len(seen)
        kappa == A!FleissKappa(seen).kappa
        alpha == A!KrippendorffAlpha(seen)
    IN  /\ Minus(One, alpha) = Times(Frac(n - 1, n), Minus(One, kappa))
        /\ kappa = One <=> \A row \in Range(seen) : Cardinality(Range(row)) = 1

\* A unit with fewer than two ratings tells nothing.
MissingIgnored ==
  About("raters") => LET pairable == A!Pairable(seen)
                     IN  pairable # <<>> => A!KrippendorffAlpha(seen) = A!KrippendorffAlpha(pairable)

\* Kappa is symmetric in the annotators, one exactly when they agree, and its
\* weights make no difference between two labels; certification keeps exactly
\* the tasks within the tolerance, at the shallower depth.
LabelsSound ==
  About("labels") =>
    LET turned == [i \in DOMAIN seen |-> <<seen[i][2], seen[i][1]>>]
        used == {p[1] : p \in Range(seen)} \cup {p[2] : p \in Range(seen)}
        certified(k) == A!CertifyDepths(seen, k)
    IN  /\ \A w \in {None, "linear", "quadratic"} :
             /\ A!CohensKappa(seen, w) = A!CohensKappa(turned, w)
             /\ A!CohensKappa(seen, w) = One <=> \A p \in Range(seen) : p[1] = p[2]
        /\ Cardinality(used) = 2 /\ Max(used) = Min(used) + 1 =>
             A!CohensKappa(seen, None) = A!CohensKappa(seen, "quadratic")
        /\ \A k \in 0..2 : /\ DOMAIN certified(k).certified = DOMAIN seen \ certified(k).dropped
                           /\ certified(k).dropped \subseteq certified(0).dropped
                           /\ Cardinality(certified(0).dropped)
                                = Times(Minus(One, certified(0).exact), Whole(Len(seen)))[1]

\* Murphy's identity: calibration, minus resolution, plus uncertainty is the
\* score of the binned forecasts, which is Brier's where every bin holds one
\* forecast; and splitting a bin never hides miscalibration.
Murphy(m) == m.brier = Plus(Minus(m.reliability, m.resolution), m.uncertainty)

ForecastsSound ==
  About("forecasts") =>
    /\ \A b \in 1..4 : Murphy(A!BrierDecomposition(seen, b))
    /\ A!BrierDecomposition(seen, 4).brier = A!BrierScore(seen)
    /\ \A b \in 1..2 : Leq(A!ReliabilityCurve(seen, b).ece, A!ReliabilityCurve(seen, 2 * b).ece)

\* stats, metrics, analysis: every estimate is what it estimates, on every sample.
EstimatesSound ==
  /\ CurvesSound /\ SamplesSound /\ StudiesSound /\ DesignSound
  /\ RatersSound /\ MissingIgnored /\ LabelsSound /\ ForecastsSound
=============================================================================
