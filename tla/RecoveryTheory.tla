--------------------------- MODULE RecoveryTheory ---------------------------
(***************************************************************************)
(* theory/*.py over exact fractions: how likely a chain of d decisions is  *)
(* recovered by similarity and by typed links, where the two cross, and    *)
(* what that costs in tokens.  A model is [s0, rho, q]: a similarity of    *)
(* s0 * rho^i at distance i, and a link that survives with probability q.  *)
(* Depths, distances and scatters are natural numbers; the columns that    *)
(* are logarithms are left out.                                            *)
(***************************************************************************)
EXTENDS Fractions

DecayAccepts(m) == Less(Zero, m.s0) /\ Less(Zero, m.rho)
IsDecaying(m) == Less(m.rho, One)
Probability(p) == Less(Zero, p) /\ Leq(p, One)
Retrievability(m, distance) == Times(m.s0, Power(m.rho, distance))

SimilarityRecovery(d, m) ==
  IF d < 1 THEN Raised ELSE Times(Power(m.s0, d), Power(m.rho, (d * (d + 1)) \div 2))

StructuredRecovery(d, q) ==
  IF d < 1 \/ ~Probability(q) THEN Raised ELSE Power(q, d)

PSimCurve(m, maxDepth) == [d \in 1..maxDepth |-> SimilarityRecovery(d, m)]
PStructCurve(m, maxDepth) == [d \in 1..maxDepth |-> StructuredRecovery(d, m.q)]

-----------------------------------------------------------------------------
(* Hop by hop (composition.py)                                             *)

SurvivalOK(p) == Leq(Zero, p) /\ Leq(p, One)
ComposeSurvival(ps) ==
  IF \E p \in Range(ps) : ~SurvivalOK(p) THEN Raised ELSE FoldLeft(Times, One, ps)

MakeHop(survival, type) == IF SurvivalOK(survival) THEN [survival |-> survival, type |-> type] ELSE Raised
TypedHop(q) == MakeHop(q, "typed")
SimilarityHop(m, distance) == MakeHop(Retrievability(m, distance), "similarity")

ComposePath(hops) ==
  [survival |-> ComposeSurvival([i \in DOMAIN hops |-> hops[i].survival]),
   hops |-> Len(hops),
   typed |-> Cardinality({i \in DOMAIN hops : hops[i].type = "typed"}),
   similarity |-> Cardinality({i \in DOMAIN hops : hops[i].type = "similarity"})]

-----------------------------------------------------------------------------
(* The crossover (crossover.py, bounds.py)                                 *)

OverheadRatio(maintenance, value) ==
  IF Leq(value, Zero) \/ Less(maintenance, Zero) THEN Raised ELSE Over(maintenance, value)

Gap(d, m) == Minus(Power(m.q, d), Times(Power(m.s0, d), Power(m.rho, (d * (d + 1)) \div 2)))
NetValueGain(d, m, value, maintenance) == Minus(Times(value, Gap(d, m)), maintenance)

NoCrossover(peak) == [exists |-> FALSE, dStar |-> None, root |-> None, win |-> None, peak |-> peak]

Peak(gap) ==
  CHOOSE d \in DOMAIN gap : /\ \A e \in DOMAIN gap : Leq(gap[e], gap[d])
                            /\ \A e \in 1..(d - 1) : Less(gap[e], gap[d])
RootBefore(gap, tau, first) == IF first = 1 \/ Leq(tau, gap[first - 1]) THEN <<first, first>> ELSE <<first - 1, first>>

\* The first depth at which structure wins, and how far that win lasts.  Of
\* the root between two depths only the depths it lies between are kept.
CrossoverAt(gap, tau, first, above) ==
  [exists |-> TRUE, dStar |-> first, win |-> <<first, Max({d \in above : first..d \subseteq above})>>,
   peak |-> Peak(gap), root |-> RootBefore(gap, tau, first)]

FindCrossover(m, tau, maxDepth) ==
  IF Less(tau, Zero) \/ maxDepth < 1 THEN Raised
  ELSE LET gap   == [d \in 1..maxDepth |-> Gap(d, m)]
           above == {d \in 1..maxDepth : Less(tau, Gap(d, m))}
       IN  IF above = {} THEN NoCrossover(Peak(gap)) ELSE CrossoverAt(gap, tau, Min(above), above)

\* floor(d0) + 1, where s0^2 * rho^(d0 + 1) = q^2.
DepthAfterTauZero(m, bound) ==
  IF ~IsDecaying(m) THEN Raised
  ELSE Min({d \in 0..bound : Less(Times(Square(m.s0), Power(m.rho, d + 1)), Square(m.q))})

\* Slip: the floor itself, without the one more.
LowerDepthSlip(m, bound) == Max({1, DepthAfterTauZero(m, bound) - 1})
LowerDepth(m, bound) == Max({1, DepthAfterTauZero(m, bound)})

\* floor(ln tau / ln q), no deeper than the scan.
LastAbove(m, tau, maxDepth) == Max({d \in 0..maxDepth : Leq(tau, Power(m.q, d))})

\* "bound" caps the search for the lower depth; it is above every such depth.
BracketCrossover(m, tau, maxDepth, bound) ==
  IF Less(tau, Zero) \/ maxDepth < 1 \/ ~IsDecaying(m) THEN Raised
  ELSE LET lower == LowerDepth(m, bound)
           upper == IF tau = Zero THEN Min({lower, maxDepth})
                    ELSE IF Leq(m.q, tau) THEN lower
                    ELSE IF m.q = One THEN maxDepth
                    ELSE LastAbove(m, tau, maxDepth)
           winEnd == IF tau = Zero THEN maxDepth ELSE upper
       IN  [lower |-> lower, upper |-> upper,
            window |-> IF (tau # Zero /\ Leq(m.q, tau)) \/ winEnd < lower THEN None ELSE <<lower, winEnd>>]

CompareCrossover(predicted, measured, tolerance) ==
  IF Less(tolerance, Zero) THEN Raised
  ELSE LET gap == Higher(Minus(predicted, measured), Minus(measured, predicted))
       IN  [error |-> gap, agrees |-> Leq(gap, tolerance)]

-----------------------------------------------------------------------------
(* Chains that supersede one another, and spread over areas                *)

EdgeHops(n) == IF n < 1 THEN Raised ELSE n - 1
StructuredSupersession(n, q) == IF EdgeHops(n) = 0 THEN One ELSE StructuredRecovery(EdgeHops(n), q)
SimilaritySupersession(n, baseline) ==
  IF baseline = None THEN Frac(1, n) ELSE IF SurvivalOK(baseline) THEN baseline ELSE Raised

Superseded(hops, struct, sim) ==
  [hops |-> hops, struct |-> struct, sim |-> sim, advantage |-> Minus(struct, sim), wins |-> Leq(sim, struct)]
SupersessionRecovery(n, q, baseline) ==
  Superseded(EdgeHops(n), StructuredSupersession(n, q), SimilaritySupersession(n, baseline))

ScatterFactor(p, sigma) == IF ~Probability(p) \/ sigma < 0 THEN Raised ELSE Power(p, sigma)
ScatteredRecovery(d, m, p, sigma) == Times(SimilarityRecovery(d, m), ScatterFactor(p, sigma))
DegradeRecovery(base, p, sigma) ==
  IF SurvivalOK(base) THEN [factor |-> ScatterFactor(p, sigma), degraded |-> Times(base, ScatterFactor(p, sigma))]
  ELSE Raised
FactorCurve(p, maxSigma) == [i \in 1..(maxSigma + 1) |-> ScatterFactor(p, i - 1)]

-----------------------------------------------------------------------------
(* What the tokens buy (information.py), "item" tokens to an item          *)

UsefulSignal(tokens, precision) ==
  IF Less(tokens, Zero) \/ ~SurvivalOK(precision) THEN Raised ELSE Times(tokens, precision)

Lookups(d, m) == Total([i \in 1..d |-> Over(One, Retrievability(m, i))])
SimilarityTokens(d, m, item) == Times(Whole(item), Lookups(d, m))
StructuredTokens(d, item) == IF d < 1 THEN Raised ELSE Whole(item * d)
SimilarityPrecision(d, m) == Over(Whole(d), Lookups(d, m))
SimilarityUsefulSignal(d, m, item) == UsefulSignal(SimilarityTokens(d, m, item), SimilarityPrecision(d, m))
StructuredUsefulSignal(d, item) == UsefulSignal(StructuredTokens(d, item), One)
SimilarityCost(d, m, item) == Over(SimilarityTokens(d, m, item), SimilarityRecovery(d, m))
StructuredCost(d, m, item) == Over(StructuredTokens(d, item), StructuredRecovery(d, m.q))
CostRatio(d, m, item) == Over(SimilarityCost(d, m, item), StructuredCost(d, m, item))
TokenCostRatio(d, m, item) == Over(SimilarityTokens(d, m, item), StructuredTokens(d, item))
SimilarityReturn(d, m, item) == Over(SimilarityRecovery(d, m), SimilarityTokens(d, m, item))
StructuredReturn(d, m, item) == Over(StructuredRecovery(d, m.q), StructuredTokens(d, item))
ReturnRatio(d, m, item) == Over(StructuredReturn(d, m, item), SimilarityReturn(d, m, item))
CostPerCorrectDollars(d, m, item, dollars, structured) ==
  IF Less(dollars, Zero) THEN Raised
  ELSE Times(dollars, IF structured THEN StructuredCost(d, m, item) ELSE SimilarityCost(d, m, item))

-----------------------------------------------------------------------------
(* Sensitivities (sensitivity.py), without the derivative by depth         *)

\* A slope at a value of nought is infinite, with the sign of the slope.
Elasticity(x, value, grad) ==
  IF grad = Zero THEN Zero
  ELSE IF value = Zero THEN Infinity
  ELSE Over(Times(x, grad), value)

Sensitivity(m, value, s0, rho, q) ==
  [value |-> value, s0 |-> s0, rho |-> rho, q |-> q, eS0 |-> Elasticity(m.s0, value, s0),
   eRho |-> Elasticity(m.rho, value, rho), eQ |-> Elasticity(m.q, value, q)]

BySimilarity(d, m, t) ==
  Sensitivity(m, SimilarityRecovery(d, m),
              Times(Whole(d), Times(Power(m.s0, d - 1), Power(m.rho, t))),
              Times(Whole(t), Times(Power(m.s0, d), Power(m.rho, t - 1))), Zero)
SimilaritySensitivity(d, m) == IF d < 1 THEN Raised ELSE BySimilarity(d, m, (d * (d + 1)) \div 2)

StructuredSensitivity(d, m) ==
  IF d < 1 THEN Raised
  ELSE Sensitivity(m, StructuredRecovery(d, m.q), Zero, Zero, Times(Whole(d), Power(m.q, d - 1)))

GapBetween(m, value, sim, struct) ==
  Sensitivity(m, value, Minus(Zero, sim.s0), Minus(Zero, sim.rho), struct.q)
GapSensitivity(d, m) ==
  IF d < 1 THEN Raised
  ELSE GapBetween(m, Gap(d, m), SimilaritySensitivity(d, m), StructuredSensitivity(d, m))

\* f is known at least at the two points.
CentralDifference(f, x, h) ==
  IF Leq(h, Zero) THEN Raised
  ELSE Over(Minus(f[Plus(x, h)], f[Minus(x, h)]), Times(Whole(2), h))
=============================================================================
