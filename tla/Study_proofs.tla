---------------------------- MODULE Study_proofs ----------------------------
(***************************************************************************)
(* Proofs about the sequential tests of Study, for every stream of answers, *)
(* about packing, for every ranking, and about the theory, for every model  *)
(* of recovery and every depth; with the folds, the fractions and the       *)
(* closed forms of Tournament_proofs.                                       *)
(***************************************************************************)
EXTENDS Tournament_proofs, Study

-----------------------------------------------------------------------------
(* The capital of a bet, answer after answer (stats/sequential.py).          *)

Bits == {0, 1}
Bets(null, bet) == null \in Fraction /\ bet \in Fraction /\ Inside(null) /\ Inside(bet)

Extended(path, y, null, bet, up) ==
  Append(path, Times(IF path = <<>> THEN One ELSE path[Len(path)], CapitalFactor(y, null, bet, up)))

IsPath(path, x, null, bet, up) ==
  /\ path \in Seq(Fraction) /\ Len(path) = Len(x)
  /\ \A k \in 1..Len(x) :
       path[k] = Times(IF k = 1 THEN One ELSE path[k - 1], CapitalFactor(x[k], null, bet, up))

Grows(after, path, y, null, bet, up) ==
  /\ after \in Seq(Fraction) /\ Len(after) = Len(path) + 1
  /\ \A i \in 1..Len(path) : after[i] = path[i]
  /\ after[Len(path) + 1] =
       Times(IF path = <<>> THEN One ELSE path[Len(path)], CapitalFactor(y, null, bet, up))

LEMMA ExtendedFacts ==
  ASSUME NEW null, NEW bet, Bets(null, bet), NEW up, NEW path \in Seq(Fraction), NEW y \in Bits
  PROVE  Grows(Extended(path, y, null, bet, up), path, y, null, bet, up)
<1>1. One \in Fraction /\ Whole(y) \in Fraction
  BY DEF One, Whole, Fraction, Bits
<1>2. PICK f : f = CapitalFactor(y, null, bet, up)
  OBVIOUS
<1>3. f \in Fraction
  <2>1. Minus(Whole(y), null) \in Fraction
    BY <1>1, FractionsClosed DEF Bets
  <2>2. Times(bet, Minus(Whole(y), null)) \in Fraction
    BY <2>1, FractionsClosed DEF Bets
  <2>3. /\ Plus(One, Times(bet, Minus(Whole(y), null))) \in Fraction
        /\ Minus(One, Times(bet, Minus(Whole(y), null))) \in Fraction
    BY <1>1, <2>2, FractionsClosed
  <2> QED BY <1>2, <2>3 DEF CapitalFactor
<1>4. PICK l \in Fraction : l = IF path = <<>> THEN One ELSE path[Len(path)]
  <2>1. path # <<>> => path[Len(path)] \in Fraction
    <3>1. path # <<>> => Len(path) \in 1..Len(path)
      OBVIOUS
    <3> QED BY <3>1
  <2> QED BY <1>1, <2>1
<1>5. PICK z \in Fraction : z = Times(l, f)
  BY <1>3, FractionsClosed
<1>6. Extended(path, y, null, bet, up) = Append(path, z)
  BY <1>2, <1>4, <1>5 DEF Extended
<1>7. /\ Append(path, z) \in Seq(Fraction) /\ Len(Append(path, z)) = Len(path) + 1
      /\ Append(path, z)[Len(path) + 1] = z
      /\ \A i \in 1..Len(path) : Append(path, z)[i] = path[i]
  BY AppendFacts
<1> QED BY <1>2, <1>4, <1>5, <1>6, <1>7 DEF Grows

LEMMA CapitalIs ==
  ASSUME NEW x \in Seq(Bits), x # <<>>, NEW null, NEW bet, Bets(null, bet), NEW up
  PROVE  IsPath(BettingCapitalProcess(x, null, bet, up), x, null, bet, up)
<1> DEFINE IsIter(f) == f = [S \in SUBSET DOMAIN x |->
                               IF S = {} THEN <<>>
                               ELSE Extended(f[S \ {Max(S)}], x[Max(S)], null, bet, up)]
           iter == CHOOSE f : IsIter(f)
           Grown(p, k) ==
             /\ p \in Seq(Fraction) /\ Len(p) = k
             /\ \A i \in 1..k :
                  p[i] = Times(IF i = 1 THEN One ELSE p[i - 1], CapitalFactor(x[i], null, bet, up))
<1>1. BettingCapitalProcess(x, null, bet, up) = iter[DOMAIN x]
  <2>1. Inside(null) /\ Inside(bet)
    BY DEF Bets
  <2> QED BY <2>1, Zenon DEF BettingCapitalProcess, FoldLeft, MapThenFoldSet, Extended
<1>2. PICK n \in Nat : n = Len(x) /\ DOMAIN x = 1..n
  OBVIOUS
<1>3. \E f : IsIter(f)
  <2> DEFINE g == [p \in Seq(Fraction) \X Bits |-> Extended(p[1], p[2], null, bet, up)]
  <2>1. /\ g \in [Seq(Fraction) \X Bits -> Seq(Fraction)]
        /\ \A p \in Seq(Fraction), y \in Bits : g[<<p, y>>] = Extended(p, y, null, bet, up)
    BY ExtendedFacts DEF Grows
  <2> HIDE DEF g
  <2>2. \A i \in 1..n : x[i] \in Bits
    BY <1>2
  <2>3. CanFold(n, Seq(Fraction), <<>>, Bits, g, x)
    BY <2>1, <2>2 DEF CanFold
  <2>4. PICK f \in [SUBSET (1..n) -> Seq(Fraction)] : IsFold(n, <<>>, g, x, f)
    BY <2>3, FoldExists DEF HasFold
  <2>5. ASSUME NEW S \in SUBSET (1..n), S # {}
        PROVE  g[<<f[S \ {Max(S)}], x[Max(S)]>>] =
                 Extended(f[S \ {Max(S)}], x[Max(S)], null, bet, up)
    <3>1. Max(S) \in 1..n
      BY <2>5, MaxFacts
    <3>2. f[S \ {Max(S)}] \in Seq(Fraction) /\ x[Max(S)] \in Bits
      BY <2>2, <3>1
    <3> QED BY <2>1, <3>2
  <2>6. f = [S \in SUBSET (1..n) |->
               IF S = {} THEN <<>> ELSE Extended(f[S \ {Max(S)}], x[Max(S)], null, bet, up)]
    BY <2>4, <2>5 DEF IsFold
  <2> QED BY <1>2, <2>6
<1>4. IsIter(iter)
  <2> HIDE DEF IsIter
  <2> QED BY <1>3
<1> HIDE DEF iter
<1>5. \A S \in SUBSET (1..n) :
        iter[S] = IF S = {} THEN <<>> ELSE Extended(iter[S \ {Max(S)}], x[Max(S)], null, bet, up)
  BY <1>2, <1>4
<1>6. iter[{}] = <<>> /\ 1..0 = {}
  <2>1. {} \in SUBSET (1..n) /\ 1..0 = {}
    OBVIOUS
  <2> QED BY <1>5, <2>1
<1>7. \A k \in 1..n : iter[1..k] = Extended(iter[1..(k - 1)], x[k], null, bet, up)
  BY <1>5, FirstOnes
<1> DEFINE K == {k \in Nat : k <= n => Grown(iter[1..k], k)}
<1>8. 0 \in K
  <2>1. <<>> \in Seq(Fraction) /\ Len(<<>>) = 0
    OBVIOUS
  <2>2. Grown(<<>>, 0)
    BY <2>1
  <2> QED BY <1>6, <2>2
<1>9. \A k \in Nat : k \in K => k + 1 \in K
  <2> SUFFICES ASSUME NEW k \in Nat, k \in K, k + 1 <= n PROVE Grown(iter[1..(k + 1)], k + 1)
    OBVIOUS
  <2>1. k + 1 \in 1..n /\ (k + 1) - 1 = k /\ x[k + 1] \in Bits
    BY <1>2
  <2>2. PICK p : p = iter[1..k]
    OBVIOUS
  <2>3. p \in Seq(Fraction) /\ Len(p) = k
        /\ \A i \in 1..k : p[i] = Times(IF i = 1 THEN One ELSE p[i - 1], CapitalFactor(x[i], null, bet, up))
    BY <2>1, <2>2
  <2>9. PICK y \in Bits : y = x[k + 1]
    BY <2>1
  <2>4. PICK e : e = Extended(p, y, null, bet, up)
    OBVIOUS
  <2>5. iter[1..(k + 1)] = e
    BY <1>7, <2>1, <2>2, <2>4, <2>9
  <2>6. /\ e \in Seq(Fraction) /\ Len(e) = k + 1 /\ \A i \in 1..k : e[i] = p[i]
        /\ e[k + 1] = Times(IF p = <<>> THEN One ELSE p[k], CapitalFactor(x[k + 1], null, bet, up))
    <3>1. Grows(e, p, y, null, bet, up)
      BY <2>3, <2>4, ExtendedFacts
    <3> QED BY <2>3, <2>9, <3>1 DEF Grows
  <2>7. p = <<>> <=> k + 1 = 1
    BY <2>3
  <2>8. ASSUME NEW i \in 1..(k + 1)
        PROVE  e[i] = Times(IF i = 1 THEN One ELSE e[i - 1], CapitalFactor(x[i], null, bet, up))
    <3>1. CASE i = k + 1
      <4>1. k # 0 => e[k] = p[k]
        BY <2>6
      <4> QED BY <2>1, <2>6, <2>7, <3>1, <4>1
    <3>2. CASE i # k + 1
      <4>1. i \in 1..k /\ (i # 1 => i - 1 \in 1..k)
        BY <3>2
      <4> QED BY <2>3, <2>6, <4>1
    <3> QED BY <3>1, <3>2
  <2> QED BY <2>5, <2>6, <2>8
<1>10. n \in K
  <2> HIDE DEF K
  <2> QED BY <1>8, <1>9, Stepping
<1>11. Grown(iter[1..n], n)
  BY <1>10
<1> QED BY <1>1, <1>2, <1>11 DEF IsPath

\* z is x and one more answer.
Continues(z, x) ==
  /\ x \in Seq(Bits) /\ x # <<>> /\ z \in Seq(Bits) /\ z # <<>> /\ Len(z) = Len(x) + 1
  /\ \A k \in 1..Len(x) : z[k] = x[k]

\* One more answer leaves the path so far as it was.
LEMMA PathStays ==
  ASSUME NEW x, NEW z, Continues(z, x), NEW null, NEW bet, NEW up, NEW p, NEW q,
         IsPath(p, x, null, bet, up), IsPath(q, z, null, bet, up)
  PROVE  \A k \in 1..Len(x) : q[k] = p[k]
<1>1. PICK n \in Nat : n = Len(x) /\ Len(z) = n + 1 /\ \A k \in 1..n : z[k] = x[k]
  BY DEF Continues
<1>2. \A k \in 1..n : p[k] = Times(IF k = 1 THEN One ELSE p[k - 1], CapitalFactor(x[k], null, bet, up))
  BY <1>1 DEF IsPath
<1>3. \A k \in 1..n : q[k] = Times(IF k = 1 THEN One ELSE q[k - 1], CapitalFactor(x[k], null, bet, up))
  <2> SUFFICES ASSUME NEW k \in 1..n
               PROVE  q[k] = Times(IF k = 1 THEN One ELSE q[k - 1], CapitalFactor(x[k], null, bet, up))
    OBVIOUS
  <2>1. k \in 1..(n + 1) /\ z[k] = x[k]
    BY <1>1
  <2> QED BY <1>1, <2>1 DEF IsPath
<1> DEFINE K == {k \in Nat : k \in 1..n => q[k] = p[k]}
<1>4. 0 \in K
  OBVIOUS
<1>5. \A k \in Nat : k \in K => k + 1 \in K
  <2> SUFFICES ASSUME NEW k \in Nat, k \in K, k + 1 \in 1..n PROVE q[k + 1] = p[k + 1]
    OBVIOUS
  <2>1. (k + 1) - 1 = k /\ (k + 1 # 1 => k \in 1..n)
    OBVIOUS
  <2>2. k + 1 # 1 => q[k] = p[k]
    BY <2>1
  <2>3. PICK i \in 1..n : i = k + 1
    OBVIOUS
  <2>4. i - 1 = k
    BY <2>3
  <2> QED BY <1>2, <1>3, <2>2, <2>3, <2>4
<1>6. Nat \subseteq K
  <2> HIDE DEF K
  <2> QED BY <1>4, <1>5, Stepping
<1> QED BY <1>1, <1>6

-----------------------------------------------------------------------------
(* Looking on.                                                               *)

Crossings(path, alpha) == {n \in DOMAIN path : Leq(Over(One, alpha), path[n])}

LEMMA HalfFacts == Half \in Fraction /\ Inside(Half)
<1>1. Half \in Fraction /\ Is(Half, 1, 2)
  BY FracIs, FracFraction DEF Half
<1>2. PICK a \in Int, b \in Nat : Half = <<a, b>> /\ b > 0 /\ a * 2 = 1 * b
  BY <1>1, IsTerms
<1>3. Less(Zero, Half) /\ Less(Half, One)
  BY <1>2 DEF Less, Zero, One, Whole
<1> QED BY <1>1, <1>3 DEF Inside

\* A test that has stopped has stopped.
LEMMA StopsOnce ==
  ASSUME NEW x, NEW z, Continues(z, x), NEW m \in Fraction
  PROVE  StillStopped(Betting(x, m), Betting(z, m))
<1>2. /\ x \in Seq(Bits) /\ x # <<>> /\ z \in Seq(Bits) /\ z # <<>> /\ Len(z) = Len(x) + 1
  BY DEF Continues
<1>3. CASE ~Inside(Alpha) \/ ~Inside(m)
  <2>1. ~Inside(m) => /\ BettingCapitalProcess(x, m, Half, TRUE) = Raised
                      /\ BettingCapitalProcess(z, m, Half, TRUE) = Raised
    BY DEF BettingCapitalProcess
  <2>2. Betting(x, m) = Raised /\ Betting(z, m) = Raised
    BY <1>3, <2>1 DEF Betting, SequentialTest
  <2> QED BY <2>2 DEF StillStopped
<1>4. CASE Inside(Alpha) /\ Inside(m)
  <2>13. PICK up : up = TRUE
    OBVIOUS
  <2>1. PICK p : p = BettingCapitalProcess(x, m, Half, up)
    OBVIOUS
  <2>2. PICK q : q = BettingCapitalProcess(z, m, Half, up)
    OBVIOUS
  <2>3. Bets(m, Half)
    BY HalfFacts, <1>4 DEF Bets
  <2>4. IsPath(p, x, m, Half, up) /\ IsPath(q, z, m, Half, up)
    BY <1>2, <2>1, <2>2, <2>3, CapitalIs
  <2>5. PICK n \in Nat : n = Len(x) /\ DOMAIN p = 1..n /\ DOMAIN q = 1..(n + 1)
    BY <1>2, <2>4 DEF IsPath
  <2>6. \A k \in 1..n : q[k] = p[k]
    BY <2>4, <2>5, PathStays
  <2>7. p # Raised /\ q # Raised
    BY <2>4, StudyAssumption DEF IsPath
  <2>8. /\ Betting(x, m).rejected = (StoppingTime(p, Alpha) # None)
        /\ Betting(x, m).stoppingTime = StoppingTime(p, Alpha)
        /\ Betting(z, m).stoppingTime = StoppingTime(q, Alpha)
    BY <1>4, <2>1, <2>2, <2>7, <2>13 DEF Betting, SequentialTest
  <2> DEFINE P == Crossings(p, Alpha)
             Q == Crossings(q, Alpha)
  <2>9. /\ StoppingTime(p, Alpha) = IF P = {} THEN None ELSE Min(P)
        /\ StoppingTime(q, Alpha) = IF Q = {} THEN None ELSE Min(Q)
    BY DEF StoppingTime, Crossings
  <2>10. P \in SUBSET (1..n) /\ Q \in SUBSET (1..(n + 1)) /\ \A k \in 1..n : k \in P <=> k \in Q
    BY <2>5, <2>6 DEF Crossings
  <2> HIDE DEF P, Q
  <2>11. ASSUME P # {} PROVE Q # {} /\ Min(Q) = Min(P)
    <3>1. P \in SUBSET Nat /\ Q \in SUBSET Nat /\ Q # {}
      <4>1. PICK k \in P : k \in Q
        BY <2>10, <2>11
      <4> QED BY <2>5, <2>10, <4>1
    <3>2. PICK i \in P : i = Min(P) /\ \A k \in P : i <= k
      BY <2>11, <3>1, MinFacts
    <3>3. PICK j \in Q : j = Min(Q) /\ \A k \in Q : j <= k
      BY <3>1, MinFacts
    <3>4. i \in Q /\ i \in 1..n
      BY <2>10, <3>2
    <3>5. j <= i /\ j \in 1..n
      BY <2>10, <3>3, <3>4
    <3>6. i <= j
      BY <2>10, <3>2, <3>5
    <3> QED BY <3>1, <3>2, <3>3, <3>4, <3>5, <3>6
  <2>12. StoppingTime(p, Alpha) # None => StoppingTime(q, Alpha) = StoppingTime(p, Alpha)
    BY <2>9, <2>11
  <2> QED BY <2>8, <2>12 DEF StillStopped
<1> QED BY <1>3, <1>4

Grid == {Frac(i, 3 + 1) : i \in 1..3}
Threshold == Over(One, Minus(One, Confidence))
Wealth(x, g, up, n) == BettingCapitalProcess(x, g, Half, up)[n]
Refuted(x, g) ==
  {n \in DOMAIN x : Leq(Threshold, Over(Plus(Wealth(x, g, TRUE, n), Wealth(x, g, FALSE, n)), Whole(2)))}
Kept(x, n) ==
  {s[1] : s \in {t \in {<<g, Standing(x, g, Threshold, Half)>> : g \in Grid} : t[2] >= n}}
LowAt(x, n) == IF Kept(x, n) = {} THEN Zero ELSE Lowest(Kept(x, n))
UpAt(x, n)  == IF Kept(x, n) = {} THEN One ELSE Highest(Kept(x, n))

LEMMA GridFacts ==
  /\ Grid \in SUBSET Fraction /\ IsFiniteSet(Grid)
  /\ \A g \in Grid : Inside(g) /\ Leq(Zero, g) /\ Leq(g, One)
<1>1. ASSUME NEW g \in Grid
      PROVE  g \in Fraction /\ Inside(g) /\ Leq(Zero, g) /\ Leq(g, One)
  <2>1. PICK i \in 1..3 : g = Frac(i, 4)
    BY DEF Grid
  <2>2. g \in Fraction /\ Is(g, i, 4)
    BY <2>1, FracIs, FracFraction
  <2>3. PICK a \in Int, b \in Nat : g = <<a, b>> /\ b > 0 /\ a * 4 = i * b
    BY <2>2, IsTerms
  <2>4. i * b > 0 /\ i * b < 4 * b
    BY <2>3
  <2>5. a > 0 /\ a < b
    BY <2>3, <2>4
  <2> QED BY <2>2, <2>3, <2>5 DEF Inside, Less, Leq, Zero, One, Whole
<1>2. IsFiniteSet(Grid)
  <2> DEFINE e == [i \in 1..3 |-> Frac(i, 3 + 1)]
  <2>1. e \in Surjection(1..3, Grid)
    BY DEF Surjection, Grid
  <2>2. IsFiniteSet(1..3)
    <3>1. 1 \in Int /\ 3 \in Int
      OBVIOUS
    <3> QED BY <3>1, FS_Interval
  <2> HIDE DEF e
  <2> QED BY <2>1, <2>2, FS_Surjection
<1> QED BY <1>1, <1>2

LEMMA StandingIs ==
  ASSUME NEW x \in Seq(Bits), NEW g, NEW n \in 1..Len(x)
  PROVE  /\ Standing(x, g, Threshold, Half) \in Int
         /\ Standing(x, g, Threshold, Half) >= n <=> \A r \in Refuted(x, g) : r > n
<1>1. PICK l \in Nat : l = Len(x) /\ DOMAIN x = 1..l
  OBVIOUS
<1>2. Standing(x, g, Threshold, Half) = Min(Refuted(x, g) \cup {l + 1}) - 1
  BY <1>1 DEF Standing, Refuted, Wealth
<1>3. Refuted(x, g) \in SUBSET (1..l)
  BY <1>1 DEF Refuted
<1> DEFINE S == Refuted(x, g) \cup {l + 1}
<1>4. S \in SUBSET Nat /\ S # {}
  BY <1>3
<1>5. S = Refuted(x, g) \cup {l + 1}
  OBVIOUS
<1> HIDE DEF S
<1>6. PICK m \in S : m = Min(S) /\ \A k \in S : m <= k
  BY <1>4, MinFacts
<1>7. m - 1 >= n <=> \A r \in Refuted(x, g) : r > n
  <2>1. ASSUME m - 1 >= n, NEW r \in Refuted(x, g) PROVE r > n
    <3>1. r \in Nat /\ m \in Nat /\ m <= r
      BY <1>4, <1>5, <1>6
    <3> QED BY <2>1, <3>1
  <2>2. ASSUME \A r \in Refuted(x, g) : r > n PROVE m > n
    <3>1. CASE m \in Refuted(x, g)
      BY <2>2, <3>1
    <3>2. CASE m = l + 1
      BY <1>1, <3>2
    <3> QED BY <1>5, <1>6, <3>1, <3>2
  <2>3. m \in Nat
    BY <1>4, <1>6
  <2> QED BY <2>1, <2>2, <2>3
<1> QED BY <1>2, <1>4, <1>5, <1>6, <1>7

LEMMA KeptIs ==
  ASSUME NEW x \in Seq(Bits), NEW n \in 1..Len(x)
  PROVE  Kept(x, n) = {g \in Grid : \A r \in Refuted(x, g) : r > n}
<1> DEFINE All == {<<g, Standing(x, g, Threshold, Half)>> : g \in Grid}
           Left == {t \in All : t[2] >= n}
<1>1. Kept(x, n) = {g \in Grid : Standing(x, g, Threshold, Half) >= n}
  <2>1. Kept(x, n) = {s[1] : s \in Left}
    BY DEF Kept
  <2>2. ASSUME NEW s \in Left PROVE s[1] \in Grid /\ Standing(x, s[1], Threshold, Half) >= n
    <3>1. PICK g \in Grid : s = <<g, Standing(x, g, Threshold, Half)>>
      OBVIOUS
    <3> QED BY <3>1
  <2>3. ASSUME NEW g \in Grid, Standing(x, g, Threshold, Half) >= n
        PROVE  \E s \in Left : s[1] = g
    <3>1. PICK s : s = <<g, Standing(x, g, Threshold, Half)>>
      OBVIOUS
    <3>2. s \in Left /\ s[1] = g
      BY <2>3, <3>1
    <3> QED BY <3>2
  <2> HIDE DEF Left
  <2> QED BY <2>1, <2>2, <2>3
<1>2. \A g \in Grid : Standing(x, g, Threshold, Half) >= n <=> \A r \in Refuted(x, g) : r > n
  BY StandingIs
<1> QED BY <1>1, <1>2

\* One more answer refutes a mean where it was refuted, and maybe at the end.
LEMMA RefutedStays ==
  ASSUME NEW x, NEW z, Continues(z, x), NEW g \in Grid, NEW n \in 1..Len(x)
  PROVE  n \in Refuted(z, g) <=> n \in Refuted(x, g)
<1>1. /\ x \in Seq(Bits) /\ x # <<>> /\ z \in Seq(Bits) /\ z # <<>> /\ Len(z) = Len(x) + 1
  BY DEF Continues
<1>2. Bets(g, Half)
  BY HalfFacts, GridFacts DEF Bets
<1>3. ASSUME NEW up PROVE Wealth(z, g, up, n) = Wealth(x, g, up, n)
  <2>1. /\ IsPath(BettingCapitalProcess(x, g, Half, up), x, g, Half, up)
        /\ IsPath(BettingCapitalProcess(z, g, Half, up), z, g, Half, up)
    BY <1>1, <1>2, CapitalIs
  <2> QED BY <2>1, PathStays DEF Wealth
<1>4. n \in DOMAIN x /\ n \in DOMAIN z
  BY <1>1
<1>5. /\ Wealth(z, g, TRUE, n) = Wealth(x, g, TRUE, n)
      /\ Wealth(z, g, FALSE, n) = Wealth(x, g, FALSE, n)
  BY <1>3
<1> QED BY <1>4, <1>5 DEF Refuted

LEMMA KeptStays ==
  ASSUME NEW x, NEW z, Continues(z, x), NEW n \in 1..Len(x)
  PROVE  Kept(z, n) = Kept(x, n)
<1>1. PICK l \in Nat : /\ l = Len(x) /\ Len(z) = l + 1 /\ DOMAIN x = 1..l /\ DOMAIN z = 1..(l + 1)
                       /\ x \in Seq(Bits) /\ z \in Seq(Bits)
  BY DEF Continues
<1>2. ASSUME NEW g \in Grid
      PROVE  (\A r \in Refuted(z, g) : r > n) <=> (\A r \in Refuted(x, g) : r > n)
  <2>1. Refuted(x, g) \in SUBSET (1..l) /\ Refuted(z, g) \in SUBSET (1..(l + 1))
    BY <1>1 DEF Refuted
  <2>2. \A k \in 1..l : k \in Refuted(z, g) <=> k \in Refuted(x, g)
    BY <1>1, RefutedStays
  <2>3. ASSUME \A r \in Refuted(x, g) : r > n, NEW r \in Refuted(z, g) PROVE r > n
    <3>1. CASE r \in 1..l
      BY <2>2, <2>3, <3>1
    <3>2. CASE r \notin 1..l
      BY <1>1, <2>1, <3>2
    <3> QED BY <3>1, <3>2
  <2>4. ASSUME \A r \in Refuted(z, g) : r > n, NEW r \in Refuted(x, g) PROVE r > n
    BY <2>1, <2>2, <2>4
  <2> QED BY <2>3, <2>4
<1>3. n \in 1..Len(z)
  BY <1>1
<1>4. /\ Kept(x, n) = {g \in Grid : \A r \in Refuted(x, g) : r > n}
      /\ Kept(z, n) = {g \in Grid : \A r \in Refuted(z, g) : r > n}
  BY <1>1, <1>3, KeptIs
<1> QED BY <1>1, <1>2, <1>4

\* The ends of the means left after n answers.
LEMMA EndsAre ==
  ASSUME NEW x \in Seq(Bits), NEW n \in 1..Len(x)
  PROVE  /\ Kept(x, n) \in SUBSET Grid
         /\ LowAt(x, n) \in Fraction /\ UpAt(x, n) \in Fraction
         /\ Kept(x, n) = {} => LowAt(x, n) = Zero /\ UpAt(x, n) = One
         /\ Kept(x, n) # {} => LowAt(x, n) \in Grid /\ UpAt(x, n) \in Grid
         /\ \A g \in Kept(x, n) : Leq(LowAt(x, n), g) /\ Leq(g, UpAt(x, n))
<1>1. Kept(x, n) \in SUBSET Grid
  BY KeptIs
<1>2. Kept(x, n) \in SUBSET Fraction /\ IsFiniteSet(Kept(x, n))
  BY <1>1, GridFacts, FS_Subset
<1>3. Zero \in Fraction /\ One \in Fraction
  BY DEF Zero, One, Whole, Fraction
<1>4. CASE Kept(x, n) = {}
  BY <1>1, <1>3, <1>4 DEF LowAt, UpAt
<1>5. CASE Kept(x, n) # {}
  <2>1. /\ Lowest(Kept(x, n)) \in Kept(x, n) /\ Highest(Kept(x, n)) \in Kept(x, n)
        /\ \A g \in Kept(x, n) : Leq(Lowest(Kept(x, n)), g) /\ Leq(g, Highest(Kept(x, n)))
    BY <1>2, <1>5, LowestFacts
  <2>2. LowAt(x, n) = Lowest(Kept(x, n)) /\ UpAt(x, n) = Highest(Kept(x, n))
    BY <1>5 DEF LowAt, UpAt
  <2> QED BY <1>1, <1>2, <1>5, <2>1, <2>2
<1> QED BY <1>4, <1>5

\* No lower end ever lies above an upper one.
LEMMA EndsMeet ==
  ASSUME NEW x \in Seq(Bits), NEW j \in 1..Len(x), NEW k \in 1..Len(x)
  PROVE  Leq(LowAt(x, j), UpAt(x, k))
<1>1. /\ LowAt(x, j) \in Fraction /\ UpAt(x, j) \in Fraction
      /\ LowAt(x, k) \in Fraction /\ UpAt(x, k) \in Fraction
  BY EndsAre
<1>2. Zero \in Fraction /\ One \in Fraction /\ Leq(Zero, One)
  BY DEF Zero, One, Whole, Fraction, Leq
<1>3. CASE Kept(x, j) = {}
  <2>1. LowAt(x, j) = Zero
    BY <1>3, EndsAre
  <2>2. UpAt(x, k) = One \/ UpAt(x, k) \in Grid
    BY EndsAre
  <2> QED BY <1>2, <2>1, <2>2, GridFacts
<1>4. CASE Kept(x, k) = {}
  <2>1. UpAt(x, k) = One
    BY <1>4, EndsAre
  <2>2. LowAt(x, j) = Zero \/ LowAt(x, j) \in Grid
    BY EndsAre
  <2> QED BY <1>2, <2>1, <2>2, GridFacts
<1>5. CASE Kept(x, j) # {} /\ Kept(x, k) # {}
  <2>1. ASSUME NEW u \in 1..Len(x), NEW v \in 1..Len(x), u <= v
        PROVE  Kept(x, v) \in SUBSET Kept(x, u)
    <3> SUFFICES ASSUME NEW g \in Kept(x, v) PROVE g \in Kept(x, u)
      OBVIOUS
    <3>1. g \in Grid /\ \A r \in Refuted(x, g) : r > v
      BY KeptIs
    <3>2. \A r \in Refuted(x, g) : r \in Nat
      <4>1. DOMAIN x = 1..Len(x) /\ Len(x) \in Nat
        OBVIOUS
      <4> QED BY <4>1 DEF Refuted
    <3>3. \A r \in Refuted(x, g) : r > u
      BY <2>1, <3>1, <3>2
    <3> QED BY <3>1, <3>3, KeptIs
  <2>2. PICK g \in Grid : g \in Kept(x, j) /\ g \in Kept(x, k)
    <3>1. CASE j <= k
      <4>1. Kept(x, k) \in SUBSET Kept(x, j)
        BY <2>1, <3>1
      <4> QED BY <1>5, <4>1, EndsAre
    <3>2. CASE k <= j
      <4>1. Kept(x, j) \in SUBSET Kept(x, k)
        BY <2>1, <3>2
      <4> QED BY <1>5, <4>1, EndsAre
    <3> QED BY <3>1, <3>2
  <2>3. Leq(LowAt(x, j), g) /\ Leq(g, UpAt(x, k)) /\ g \in Fraction
    BY <2>2, EndsAre, GridFacts
  <2> QED BY <1>1, <2>3, LeqTransitive
<1> QED BY <1>3, <1>4, <1>5

Lows(x, n) == {LowAt(x, k) : k \in 1..n}
Ups(x, n)  == {UpAt(x, k) : k \in 1..n}

LEMMA SequenceIs ==
  ASSUME NEW x \in Seq(Bits), x # <<>>
  PROVE  ConfidenceSequence(x, Confidence, Half, 3) =
           [lower |-> [n \in DOMAIN x |-> Highest(Lows(x, n))],
            upper |-> [n \in DOMAIN x |-> Lowest(Ups(x, n))]]
<1>1. Inside(Confidence) /\ Inside(Half) /\ ~(3 < 1)
  BY StudyAssumption, HalfFacts
<1> QED BY <1>1 DEF ConfidenceSequence, Lows, Ups, LowAt, UpAt, Kept, Grid, Threshold

LEMMA EndSets ==
  ASSUME NEW x \in Seq(Bits), NEW n \in 1..Len(x)
  PROVE  /\ Lows(x, n) \in SUBSET Fraction /\ Ups(x, n) \in SUBSET Fraction
         /\ IsFiniteSet(Lows(x, n)) /\ IsFiniteSet(Ups(x, n))
         /\ Lows(x, n) # {} /\ Ups(x, n) # {}
<1>1. 1..n \in SUBSET (1..Len(x)) /\ n \in 1..n
  OBVIOUS
<1>2. \A k \in 1..n : LowAt(x, k) \in Fraction /\ UpAt(x, k) \in Fraction
  BY <1>1, EndsAre
<1>3. IsFiniteSet(1..n)
  BY FS_Interval
<1>4. IsFiniteSet(Lows(x, n))
  <2> DEFINE e == [k \in 1..n |-> LowAt(x, k)]
  <2>1. e \in Surjection(1..n, Lows(x, n))
    BY DEF Surjection, Lows
  <2> HIDE DEF e
  <2> QED BY <1>3, <2>1, FS_Surjection
<1>5. IsFiniteSet(Ups(x, n))
  <2> DEFINE e == [k \in 1..n |-> UpAt(x, k)]
  <2>1. e \in Surjection(1..n, Ups(x, n))
    BY DEF Surjection, Ups
  <2> HIDE DEF e
  <2> QED BY <1>3, <2>1, FS_Surjection
<1> QED BY <1>1, <1>2, <1>4, <1>5 DEF Lows, Ups

\* The interval never widens, and keeps its ends in order.
LEMMA KeepsNarrowing ==
  ASSUME NEW x, NEW z, Continues(z, x)
  PROVE  Narrows(ConfidenceSequence(x, Confidence, Half, 3),
                 ConfidenceSequence(z, Confidence, Half, 3), Len(x))
<1>1. PICK n \in Nat :
        /\ n = Len(x) /\ n > 0 /\ Len(z) = n + 1 /\ DOMAIN x = 1..n /\ DOMAIN z = 1..(n + 1)
        /\ x \in Seq(Bits) /\ x # <<>> /\ z \in Seq(Bits) /\ z # <<>>
  BY DEF Continues
<1>2. PICK old : old = ConfidenceSequence(x, Confidence, Half, 3)
  OBVIOUS
<1>3. PICK new : new = ConfidenceSequence(z, Confidence, Half, 3)
  OBVIOUS
<1>4. /\ old.lower = [k \in 1..n |-> Highest(Lows(x, k))]
      /\ old.upper = [k \in 1..n |-> Lowest(Ups(x, k))]
      /\ new.lower = [k \in 1..(n + 1) |-> Highest(Lows(z, k))]
      /\ new.upper = [k \in 1..(n + 1) |-> Lowest(Ups(z, k))]
  BY <1>1, <1>2, <1>3, SequenceIs
<1>5. \A k \in 1..n : Lows(z, k) = Lows(x, k) /\ Ups(z, k) = Ups(x, k)
  <2>1. \A k \in 1..n : LowAt(z, k) = LowAt(x, k) /\ UpAt(z, k) = UpAt(x, k)
    BY <1>1, KeptStays DEF LowAt, UpAt
  <2> SUFFICES ASSUME NEW k \in 1..n PROVE Lows(z, k) = Lows(x, k) /\ Ups(z, k) = Ups(x, k)
    OBVIOUS
  <2>2. 1..k \in SUBSET (1..n)
    BY <1>1
  <2> QED BY <2>1, <2>2 DEF Lows, Ups
<1>6. SubSeq(new.lower, 1, n) = old.lower
  <2>1. PICK f : f = new.lower
    OBVIOUS
  <2>2. \A k \in 1..n : f[k] = Highest(Lows(x, k))
    BY <1>1, <1>4, <1>5, <2>1
  <2>3. SubSeq(f, 1, n) = [k \in 1..n |-> f[k]]
    BY <1>1, SMT DEF SubSeq
  <2> QED BY <1>4, <2>1, <2>2, <2>3
<1>7. PICK top \in Nat : top = n + 1
  BY <1>1
<1>8. n \in 1..n /\ n \in 1..Len(z) /\ top \in 1..Len(z) /\ 1..n \in SUBSET (1..top)
  BY <1>1, <1>7
<1>9. /\ old.lower[n] = Highest(Lows(z, n)) /\ new.lower[top] = Highest(Lows(z, top))
      /\ old.upper[n] = Lowest(Ups(z, n)) /\ new.upper[top] = Lowest(Ups(z, top))
  BY <1>1, <1>4, <1>5, <1>7, <1>8
<1>10. /\ Highest(Lows(z, n)) \in Lows(z, n) /\ Highest(Lows(z, top)) \in Lows(z, top)
       /\ Lowest(Ups(z, n)) \in Ups(z, n) /\ Lowest(Ups(z, top)) \in Ups(z, top)
       /\ \A p \in Lows(z, top) : Leq(p, Highest(Lows(z, top)))
       /\ \A p \in Ups(z, top) : Leq(Lowest(Ups(z, top)), p)
  BY <1>1, <1>8, EndSets, LowestFacts
<1>11. Lows(z, n) \in SUBSET Lows(z, top) /\ Ups(z, n) \in SUBSET Ups(z, top)
  BY <1>8 DEF Lows, Ups
<1>12. Leq(old.lower[n], new.lower[top]) /\ Leq(new.upper[top], old.upper[n])
  BY <1>9, <1>10, <1>11
<1>13. Leq(new.lower[top], new.upper[top])
  <2>1. PICK j \in 1..top : new.lower[top] = LowAt(z, j)
    BY <1>9, <1>10 DEF Lows
  <2>2. PICK k \in 1..top : new.upper[top] = UpAt(z, k)
    BY <1>9, <1>10 DEF Ups
  <2>3. j \in 1..Len(z) /\ k \in 1..Len(z)
    BY <1>1, <1>7, <2>1, <2>2
  <2> QED BY <1>1, <2>1, <2>2, <2>3, EndsMeet
<1> QED BY <1>1, <1>2, <1>3, <1>6, <1>7, <1>12, <1>13 DEF Narrows

Asked == subject = "answers" => seen \in Seq(Bits)

LEMMA NextAsked == Asked /\ [Observe]_studyVars => Asked'
<1> SUFFICES ASSUME Asked, [Observe]_studyVars PROVE Asked'
  OBVIOUS
<1>1. CASE Observe
  <2>1. PICK y \in Alphabet[subject] : seen' = Append(seen, y) /\ subject' = subject
    BY <1>1 DEF Observe
  <2>2. ASSUME subject = "answers" PROVE seen \in Seq(Bits) /\ y \in Bits
    BY <2>1, <2>2, StudyAssumption DEF Asked, Bits
  <2> QED BY <2>1, <2>2 DEF Asked
<1>2. CASE UNCHANGED studyVars
  BY <1>2 DEF Asked, studyVars
<1> QED BY <1>1, <1>2

\* However often the answers are looked at: the test's stopping time and its
\* rejection stand, and a mean that was refuted stays out (sequential.py's
\* betting test and confidence sequence).
THEOREM LookingOnIsSafe == StudySpec => Settled
<1> DEFINE Still == /\ \A m \in NullMeans : StillStopped(Betting(seen, m), Betting(seen', m))
                    /\ Narrows(ConfidenceSequence(seen, Confidence, Half, 3),
                               ConfidenceSequence(seen', Confidence, Half, 3), Len(seen))
<1>1. StudyInit => Asked
  BY DEF StudyInit, Asked
<1>2. ASSUME Asked, Observe, subject = "answers"
      PROVE  /\ \E y \in Bits : seen' = Append(seen, y)
             /\ seen \in Seq(Bits) /\ seen' \in Seq(Bits)
  <2>1. PICK y \in Bits : seen' = Append(seen, y)
    BY <1>2, StudyAssumption DEF Observe, Bits
  <2>2. seen \in Seq(Bits)
    BY <1>2 DEF Asked
  <2> QED BY <2>1, <2>2
<1>3. Asked /\ [Observe]_studyVars => Asked'
  BY NextAsked
<1>4. ASSUME Asked, Observe, About("answers") PROVE Still
  <2>1. subject = "answers" /\ seen # <<>>
    BY <1>4 DEF About
  <2>2. Continues(seen', seen)
    <3>1. PICK y \in Bits : seen' = Append(seen, y) /\ seen \in Seq(Bits) /\ seen' \in Seq(Bits)
      BY <1>2, <1>4, <2>1
    <3>2. /\ Len(Append(seen, y)) = Len(seen) + 1 /\ Append(seen, y) # <<>>
          /\ \A i \in 1..Len(seen) : Append(seen, y)[i] = seen[i]
      BY <3>1, AppendFacts
    <3> QED BY <2>1, <3>1, <3>2 DEF Continues
  <2>3. \A m \in NullMeans : m \in Fraction
    BY StudyAssumption
  <2>4. ASSUME NEW m \in NullMeans PROVE StillStopped(Betting(seen, m), Betting(seen', m))
    BY <2>2, <2>3, StopsOnce
  <2>5. Narrows(ConfidenceSequence(seen, Confidence, Half, 3),
                ConfidenceSequence(seen', Confidence, Half, 3), Len(seen))
    BY <2>2, KeepsNarrowing
  <2> QED BY <2>4, <2>5
<1> HIDE DEF Still
<1>5. Asked /\ [Observe]_studyVars => [About("answers") => Still]_studyVars
  BY <1>4
<1> QED BY <1>1, <1>3, <1>5, PTL DEF StudySpec, Settled, Still

-----------------------------------------------------------------------------
(* Streams of n answers, and what one more answer does to them.              *)

Streams(n) == [1..n -> Bits]
Longer(x, n, y) == [i \in 1..(n + 1) |-> IF i = n + 1 THEN y ELSE x[i]]
Shorter(z, n) == [i \in 1..n |-> z[i]]

LEMMA LongerFacts ==
  ASSUME NEW n \in Nat, NEW x \in Streams(n), NEW y \in Bits
  PROVE  /\ Longer(x, n, y) \in Streams(n + 1) /\ Longer(x, n, y)[n + 1] = y
         /\ \A i \in 1..n : Longer(x, n, y)[i] = x[i]
         /\ Shorter(Longer(x, n, y), n) = x
<1>1. /\ Longer(x, n, y) \in Streams(n + 1) /\ Longer(x, n, y)[n + 1] = y
      /\ \A i \in 1..n : Longer(x, n, y)[i] = x[i]
  BY DEF Longer, Streams
<1>2. Shorter(Longer(x, n, y), n) = x
  BY <1>1 DEF Shorter, Streams
<1> QED BY <1>1, <1>2

LEMMA ShorterFacts ==
  ASSUME NEW n \in Nat, NEW z \in Streams(n + 1)
  PROVE  /\ Shorter(z, n) \in Streams(n) /\ z[n + 1] \in Bits
         /\ z = Longer(Shorter(z, n), n, z[n + 1])
<1>1. /\ Shorter(z, n) \in Streams(n) /\ z[n + 1] \in Bits
      /\ \A i \in 1..n : Shorter(z, n)[i] = z[i]
  BY DEF Shorter, Streams
<1>2. \A i \in 1..(n + 1) : i \in 1..n \/ i = n + 1
  OBVIOUS
<1>3. z = Longer(Shorter(z, n), n, z[n + 1])
  BY <1>1, <1>2 DEF Longer, Streams
<1> QED BY <1>1, <1>3

\* A stream of n + 1 answers is one of n, and a last one of two.
LEMMA StreamsDouble ==
  ASSUME NEW n \in Nat
  PROVE  Doubles(Streams(n), Streams(n + 1), [z \in Streams(n + 1) |-> Shorter(z, n)],
                 [x \in Streams(n) |-> Longer(x, n, 0)], [x \in Streams(n) |-> Longer(x, n, 1)])
<1> DEFINE p == [z \in Streams(n + 1) |-> Shorter(z, n)]
           a == [x \in Streams(n) |-> Longer(x, n, 0)]
           b == [x \in Streams(n) |-> Longer(x, n, 1)]
<1>1. 0 \in Bits /\ 1 \in Bits /\ \A y \in Bits : y = 0 \/ y = 1
  BY DEF Bits
<1>2. p \in [Streams(n + 1) -> Streams(n)] /\ \A z \in Streams(n + 1) : p[z] = Shorter(z, n)
  BY ShorterFacts
<1>3. a \in [Streams(n) -> Streams(n + 1)] /\ \A x \in Streams(n) : a[x] = Longer(x, n, 0)
  BY <1>1, LongerFacts
<1>4. b \in [Streams(n) -> Streams(n + 1)] /\ \A x \in Streams(n) : b[x] = Longer(x, n, 1)
  BY <1>1, LongerFacts
<1> HIDE DEF p, a, b
<1>5. ASSUME NEW x \in Streams(n) PROVE p[a[x]] = x /\ p[b[x]] = x /\ a[x] # b[x]
  <2>1. a[x] \in Streams(n + 1) /\ b[x] \in Streams(n + 1)
    BY <1>3, <1>4
  <2>2. p[a[x]] = Shorter(Longer(x, n, 0), n) /\ p[b[x]] = Shorter(Longer(x, n, 1), n)
    BY <1>2, <1>3, <1>4, <2>1
  <2>3. Longer(x, n, 0)[n + 1] = 0 /\ Longer(x, n, 1)[n + 1] = 1
    BY <1>1, LongerFacts
  <2>4. a[x] # b[x]
    BY <1>3, <1>4, <2>3
  <2> QED BY <1>1, <2>2, <2>4, LongerFacts
<1>6. ASSUME NEW z \in Streams(n + 1) PROVE z = a[p[z]] \/ z = b[p[z]]
  <2>1. Shorter(z, n) \in Streams(n) /\ z[n + 1] \in Bits /\ z = Longer(Shorter(z, n), n, z[n + 1])
    BY ShorterFacts
  <2>2. p[z] = Shorter(z, n) /\ a[p[z]] = Longer(Shorter(z, n), n, 0) /\ b[p[z]] = Longer(Shorter(z, n), n, 1)
    BY <1>2, <1>3, <1>4, <2>1
  <2>3. z[n + 1] = 0 \/ z[n + 1] = 1
    BY <1>1, <2>1
  <2> QED BY <2>1, <2>2, <2>3
<1>7. Doubles(Streams(n), Streams(n + 1), p, a, b)
  BY <1>2, <1>3, <1>4, <1>5, <1>6 DEF Doubles
<1> QED BY <1>7 DEF p, a, b

LEMMA NoAnswers == Streams(0) = {<<>>}
<1>1. 1..0 = {}
  OBVIOUS
<1>2. \A f \in [{} -> Bits] : f = <<>>
  OBVIOUS
<1>3. <<>> \in [{} -> Bits]
  OBVIOUS
<1> QED BY <1>1, <1>2, <1>3 DEF Streams

LEMMA StreamsFinite ==
  ASSUME NEW n \in Nat
  PROVE  IsFiniteSet(Streams(n))
<1> DEFINE K == {k \in Nat : IsFiniteSet(Streams(k))}
<1>1. 0 \in K
  BY NoAnswers, FS_Singleton
<1>2. \A k \in Nat : k \in K => k + 1 \in K
  <2> SUFFICES ASSUME NEW k \in Nat, IsFiniteSet(Streams(k)) PROVE IsFiniteSet(Streams(k + 1))
    OBVIOUS
  <2>1. \E p, z, o : Doubles(Streams(k), Streams(k + 1), p, z, o)
    BY StreamsDouble
  <2> QED BY <2>1, TwosFinite
<1>3. n \in K
  <2> HIDE DEF K
  <2> QED BY <1>1, <1>2, Stepping
<1> QED BY <1>3

LEMMA StreamIsSeq ==
  ASSUME NEW n \in Nat, NEW x \in Streams(n)
  PROVE  x \in Seq(Bits) /\ Len(x) = n /\ (x = <<>> <=> n = 0)
BY DEF Streams

-----------------------------------------------------------------------------
(* The chance of a stream and the capital after it.                          *)

Odds(y, m) == IF y = 1 THEN m ELSE Minus(One, m)
Chance(x, m) == FoldLeft(LAMBDA c, y : Times(c, Odds(y, m)), One, x)

\* h is the chance of the first answers.
IsChance(x, m, h) ==
  /\ h \in [0..Len(x) -> Fraction] /\ h[0] = One
  /\ \A k \in 1..Len(x) : h[k] = Times(h[k - 1], Odds(x[k], m))

LEMMA ChanceRuns ==
  ASSUME NEW x \in Seq(Bits), NEW m \in Fraction
  PROVE  \E h : IsChance(x, m, h) /\ Chance(x, m) = h[Len(x)]
<1> DEFINE IsIter(f) == f = [S \in SUBSET DOMAIN x |->
                               IF S = {} THEN One ELSE Times(f[S \ {Max(S)}], Odds(x[Max(S)], m))]
           iter == CHOOSE f : IsIter(f)
<1>1. Chance(x, m) = iter[DOMAIN x]
  BY Zenon DEF Chance, FoldLeft, MapThenFoldSet
<1>2. PICK n \in Nat : n = Len(x) /\ DOMAIN x = 1..n
  OBVIOUS
<1>3. One \in Fraction /\ \A y \in Bits : Odds(y, m) \in Fraction
  <2>1. One \in Fraction
    BY DEF One, Whole, Fraction
  <2>2. Minus(One, m) \in Fraction
    BY <2>1, FractionsClosed
  <2> QED BY <2>1, <2>2 DEF Odds
<1>4. \E f : IsIter(f)
  <2> DEFINE g == [p \in Fraction \X Bits |-> Times(p[1], Odds(p[2], m))]
  <2>1. /\ g \in [Fraction \X Bits -> Fraction]
        /\ \A p \in Fraction, y \in Bits : g[<<p, y>>] = Times(p, Odds(y, m))
    <3>1. \A p \in Fraction, y \in Bits : Times(p, Odds(y, m)) \in Fraction
      BY <1>3, FractionsClosed
    <3> QED BY <3>1
  <2> HIDE DEF g
  <2>2. \A i \in 1..n : x[i] \in Bits
    BY <1>2
  <2>3. CanFold(n, Fraction, One, Bits, g, x)
    BY <1>3, <2>1, <2>2 DEF CanFold
  <2>4. PICK f \in [SUBSET (1..n) -> Fraction] : IsFold(n, One, g, x, f)
    BY <2>3, FoldExists DEF HasFold
  <2>5. ASSUME NEW S \in SUBSET (1..n), S # {}
        PROVE  g[<<f[S \ {Max(S)}], x[Max(S)]>>] = Times(f[S \ {Max(S)}], Odds(x[Max(S)], m))
    <3>1. Max(S) \in 1..n
      BY <2>5, MaxFacts
    <3>2. f[S \ {Max(S)}] \in Fraction /\ x[Max(S)] \in Bits
      BY <2>2, <3>1
    <3> QED BY <2>1, <3>2
  <2>6. f = [S \in SUBSET (1..n) |-> IF S = {} THEN One ELSE Times(f[S \ {Max(S)}], Odds(x[Max(S)], m))]
    BY <2>4, <2>5 DEF IsFold
  <2> QED BY <1>2, <2>6
<1>5. IsIter(iter)
  <2> HIDE DEF IsIter
  <2> QED BY <1>4
<1> HIDE DEF iter
<1>6. \A S \in SUBSET (1..n) :
        iter[S] = IF S = {} THEN One ELSE Times(iter[S \ {Max(S)}], Odds(x[Max(S)], m))
  BY <1>2, <1>5
<1>7. iter[{}] = One /\ 1..0 = {}
  <2>1. {} \in SUBSET (1..n) /\ 1..0 = {}
    OBVIOUS
  <2> QED BY <1>6, <2>1
<1>8. \A k \in 1..n : iter[1..k] = Times(iter[1..(k - 1)], Odds(x[k], m))
  BY <1>6, FirstOnes
<1>9. \A k \in 0..n : iter[1..k] \in Fraction
  <2> DEFINE K == {k \in Nat : k <= n => iter[1..k] \in Fraction}
  <2>1. 0 \in K
    BY <1>3, <1>7
  <2>2. \A k \in Nat : k \in K => k + 1 \in K
    <3> SUFFICES ASSUME NEW k \in Nat, k \in K, k + 1 <= n PROVE iter[1..(k + 1)] \in Fraction
      OBVIOUS
    <3>1. k + 1 \in 1..n /\ (k + 1) - 1 = k /\ x[k + 1] \in Bits
      BY <1>2
    <3>2. iter[1..(k + 1)] = Times(iter[1..k], Odds(x[k + 1], m))
      BY <1>8, <3>1
    <3> QED BY <1>3, <3>1, <3>2, FractionsClosed
  <2> HIDE DEF K
  <2>3. Nat \subseteq K
    BY <2>1, <2>2, Stepping
  <2> QED BY <2>3 DEF K
<1> DEFINE h == [k \in 0..n |-> iter[1..k]]
<1>10. h[0] = One /\ h[n] = iter[1..n] /\ \A k \in 1..n : h[k] = iter[1..k] /\ h[k - 1] = iter[1..(k - 1)]
  BY <1>7
<1>11. h \in [0..n -> Fraction]
  BY <1>9
<1> HIDE DEF h
<1>12. IsChance(x, m, h)
  BY <1>2, <1>8, <1>10, <1>11 DEF IsChance
<1> QED BY <1>1, <1>2, <1>10, <1>12

LEMMA ChanceSteps ==
  ASSUME NEW n \in Nat, NEW x \in Streams(n), NEW y \in Bits, NEW m \in Fraction
  PROVE  Chance(Longer(x, n, y), m) = Times(Chance(x, m), Odds(y, m))
<1>1. PICK z \in Streams(n + 1) : z = Longer(x, n, y) /\ z[n + 1] = y /\ \A i \in 1..n : z[i] = x[i]
  BY LongerFacts
<1>2. x \in Seq(Bits) /\ Len(x) = n /\ z \in Seq(Bits) /\ Len(z) = n + 1
  BY <1>1, StreamIsSeq
<1>3. PICK h : IsChance(x, m, h) /\ Chance(x, m) = h[n]
  BY <1>2, ChanceRuns
<1>4. PICK g : IsChance(z, m, g) /\ Chance(z, m) = g[n + 1]
  BY <1>2, ChanceRuns
<1>5. h[0] = One /\ \A k \in 1..n : h[k] = Times(h[k - 1], Odds(x[k], m))
  BY <1>2, <1>3 DEF IsChance
<1>6. g[0] = One /\ \A k \in 1..(n + 1) : g[k] = Times(g[k - 1], Odds(z[k], m))
  BY <1>2, <1>4 DEF IsChance
<1> DEFINE K == {k \in Nat : k <= n => g[k] = h[k]}
<1>7. 0 \in K
  BY <1>5, <1>6
<1>8. \A k \in Nat : k \in K => k + 1 \in K
  <2> SUFFICES ASSUME NEW k \in Nat, k \in K, k + 1 <= n PROVE g[k + 1] = h[k + 1]
    OBVIOUS
  <2>1. k + 1 \in 1..n /\ k + 1 \in 1..(n + 1) /\ (k + 1) - 1 = k /\ g[k] = h[k] /\ z[k + 1] = x[k + 1]
    BY <1>1
  <2> QED BY <1>5, <1>6, <2>1
<1>9. n \in K
  <2> HIDE DEF K
  <2> QED BY <1>7, <1>8, Stepping
<1>10. g[n] = h[n]
  BY <1>9
<1>11. n + 1 \in 1..(n + 1) /\ (n + 1) - 1 = n
  OBVIOUS
<1> QED BY <1>1, <1>3, <1>4, <1>6, <1>10, <1>11

\* The capitals of a bet on more than m, none before the first answer.
Path(x, m) == IF x = <<>> THEN <<>> ELSE BettingCapitalProcess(x, m, Half, TRUE)
Now(x, m, n) == IF n = 0 THEN One ELSE Path(x, m)[n]
Crossed(x, m) == \E k \in DOMAIN Path(x, m) : Leq(Over(One, Alpha), Path(x, m)[k])

LEMMA PathIs ==
  ASSUME NEW n \in Nat, NEW x \in Streams(n), NEW m \in Fraction, Inside(m)
  PROVE  IsPath(Path(x, m), x, m, Half, TRUE) /\ DOMAIN Path(x, m) = 1..n
<1>1. x \in Seq(Bits) /\ Len(x) = n /\ (x = <<>> <=> n = 0)
  BY StreamIsSeq
<1>2. Bets(m, Half)
  BY HalfFacts DEF Bets
<1>3. PICK up : up = TRUE
  OBVIOUS
<1>4. PICK p : p = Path(x, m)
  OBVIOUS
<1>5. IsPath(p, x, m, Half, up)
  <2>1. CASE x = <<>>
    <3>1. p = <<>> /\ Len(x) = 0 /\ <<>> \in Seq(Fraction) /\ Len(<<>>) = 0
      BY <1>1, <1>4, <2>1 DEF Path
    <3> QED BY <3>1 DEF IsPath
  <2>2. CASE x # <<>>
    <3>1. IsPath(BettingCapitalProcess(x, m, Half, up), x, m, Half, up)
      BY <1>1, <1>2, <2>2, CapitalIs
    <3> QED BY <1>3, <1>4, <2>2, <3>1 DEF Path
  <2> QED BY <2>1, <2>2
<1>6. p \in Seq(Fraction) /\ Len(p) = n
  BY <1>1, <1>5 DEF IsPath
<1>7. DOMAIN p = 1..n
  BY <1>6
<1> QED BY <1>3, <1>4, <1>5, <1>7

\* One more answer: the capitals there were, and one more.
PathSteps(x, n, y, m) ==
  /\ \A k \in 1..n : Path(Longer(x, n, y), m)[k] = Path(x, m)[k]
  /\ Now(Longer(x, n, y), m, n + 1) = Times(Now(x, m, n), CapitalFactor(y, m, Half, TRUE))
  /\ Crossed(Longer(x, n, y), m) <=>
       Crossed(x, m) \/ Leq(Over(One, Alpha), Now(Longer(x, n, y), m, n + 1))

LEMMA PathStep ==
  ASSUME NEW n \in Nat, NEW x \in Streams(n), NEW y \in Bits, NEW m \in Fraction, Inside(m)
  PROVE  PathSteps(x, n, y, m)
<1>1. PICK z \in Streams(n + 1) : z = Longer(x, n, y) /\ z[n + 1] = y /\ \A i \in 1..n : z[i] = x[i]
  BY LongerFacts
<1>2. /\ x \in Seq(Bits) /\ Len(x) = n /\ (x = <<>> <=> n = 0)
      /\ z \in Seq(Bits) /\ Len(z) = n + 1 /\ z # <<>>
  BY <1>1, StreamIsSeq
<1>3. PICK up : up = TRUE
  OBVIOUS
<1>4. PICK p : p = Path(x, m) /\ IsPath(p, x, m, Half, up) /\ DOMAIN p = 1..n
  BY <1>3, PathIs
<1>5. PICK q : q = Path(z, m) /\ IsPath(q, z, m, Half, up) /\ DOMAIN q = 1..(n + 1)
  <2>1. n + 1 \in Nat
    OBVIOUS
  <2> QED BY <1>1, <1>3, <2>1, PathIs
<1>6. \A k \in 1..n : q[k] = p[k]
  <2>1. CASE n = 0
    BY <2>1
  <2>2. CASE n # 0
    <3>1. Continues(z, x)
      BY <1>1, <1>2, <2>2 DEF Continues
    <3> QED BY <1>2, <1>4, <1>5, <3>1, PathStays
  <2> QED BY <2>1, <2>2
<1>7. PICK c : c = CapitalFactor(y, m, Half, up)
  OBVIOUS
<1>8. q[n + 1] = Times(IF n = 0 THEN One ELSE p[n], c)
  <2>1. n + 1 \in 1..(n + 1) /\ (n + 1) - 1 = n /\ (n + 1 = 1 <=> n = 0) /\ (n # 0 => n \in 1..n)
    OBVIOUS
  <2>2. q[n + 1] = Times(IF n + 1 = 1 THEN One ELSE q[(n + 1) - 1], CapitalFactor(z[n + 1], m, Half, up))
    BY <1>2, <1>5, <2>1 DEF IsPath
  <2>3. z[n + 1] = y
    BY <1>1
  <2> QED BY <1>6, <1>7, <2>1, <2>2, <2>3
<1>9. Now(x, m, n) = (IF n = 0 THEN One ELSE p[n]) /\ Now(z, m, n + 1) = q[n + 1]
  BY <1>4, <1>5 DEF Now
<1>10. Now(z, m, n + 1) = Times(Now(x, m, n), c)
  BY <1>8, <1>9
<1>11. Crossed(z, m) <=> Crossed(x, m) \/ Leq(Over(One, Alpha), Now(z, m, n + 1))
  <2>1. PICK t : t = Over(One, Alpha)
    OBVIOUS
  <2>2. Crossed(z, m) <=> \E k \in 1..(n + 1) : Leq(t, q[k])
    BY <1>5, <2>1 DEF Crossed
  <2>3. Crossed(x, m) <=> \E k \in 1..n : Leq(t, p[k])
    BY <1>4, <2>1 DEF Crossed
  <2>4. \A k : k \in 1..(n + 1) <=> k \in 1..n \/ k = n + 1
    OBVIOUS
  <2> QED BY <1>6, <1>9, <2>1, <2>2, <2>3, <2>4
<1> QED BY <1>1, <1>3, <1>4, <1>5, <1>6, <1>7, <1>10, <1>11 DEF PathSteps

\* A mean of a over b: what an answer weighs, and what it pays.
Share(y, a, b) == IF y = 1 THEN a ELSE b - a
Pays(y, a, b) == IF y = 1 THEN 3 * b - a ELSE 2 * b - a

LEMMA AnswerIs ==
  ASSUME NEW a \in Nat, NEW b \in Nat, a > 0, a < b, NEW m, Worth(m, a, b), NEW y \in Bits
  PROVE  /\ Share(y, a, b) \in Nat /\ Pays(y, a, b) \in Nat
         /\ Worth(Odds(y, m), Share(y, a, b), b)
         /\ Is(CapitalFactor(y, m, Half, TRUE), Pays(y, a, b), 2 * b)
<1>1. y = 0 \/ y = 1
  BY DEF Bits
<1>2. y \in Int /\ Share(y, a, b) \in Nat /\ Pays(y, a, b) \in Nat
  BY <1>1 DEF Share, Pays
<1>3. Worth(One, 1, 1) /\ Worth(Whole(y), y, 1)
  BY <1>2, WholeIs, IsWorth DEF One
<1>4. Worth(Half, 1, 2)
  BY FracIs, IsWorth DEF Half
<1>5. Worth(Odds(y, m), Share(y, a, b), b)
  <2>1. CASE y = 1
    BY <2>1 DEF Odds, Share
  <2>2. CASE y # 1
    <3>1. Worth(Minus(One, m), 1 * b - a * 1, 1 * b)
      BY <1>3, MinusWorth, IsWorth
    <3>2. 1 * b - a * 1 = b - a /\ 1 * b = b
      OBVIOUS
    <3> QED BY <2>2, <3>1, <3>2 DEF Odds, Share
  <2> QED BY <2>1, <2>2
<1>6. Worth(Minus(Whole(y), m), y * b - a, b)
  <2>1. Worth(Minus(Whole(y), m), y * b - a * 1, 1 * b)
    BY <1>3, MinusWorth, IsWorth
  <2>2. y * b - a * 1 = y * b - a /\ 1 * b = b
    BY <1>2
  <2> QED BY <2>1, <2>2
<1>7. PICK e : e = Times(Half, Minus(Whole(y), m))
  OBVIOUS
<1>8. Worth(e, y * b - a, 2 * b)
  <2>1. Worth(e, 1 * (y * b - a), 2 * b)
    BY <1>4, <1>6, <1>7, TimesWorth, IsWorth
  <2>2. 1 * (y * b - a) = y * b - a
    BY <1>2
  <2> QED BY <2>1, <2>2
<1>9. Is(Plus(One, e), Pays(y, a, b), 2 * b)
  <2>1. Is(Plus(One, e), 1 * (2 * b) + (y * b - a) * 1, 1 * (2 * b))
    BY <1>3, <1>8, PlusWorth
  <2>2. 1 * (2 * b) = 2 * b
    OBVIOUS
  <2>3. 1 * (2 * b) + (y * b - a) * 1 = Pays(y, a, b)
    BY <1>1 DEF Pays
  <2> QED BY <2>1, <2>2, <2>3
<1>10. CapitalFactor(y, m, Half, TRUE) = Plus(One, e)
  BY <1>7 DEF CapitalFactor
<1> QED BY <1>2, <1>5, <1>9, <1>10

-----------------------------------------------------------------------------
(* Ville's inequality.  The capital is followed until it crosses and then    *)
(* left alone: what it is worth on average, over the streams there are, is   *)
(* what it was at the start.                                                 *)

IsBet(m, a, b) == a \in Nat /\ b \in Nat /\ a > 0 /\ a < b /\ Worth(m, a, b) /\ Inside(m)
IsLevel(r, s) == r \in Nat /\ s \in Nat /\ r > 0 /\ s > 0 /\ Worth(Alpha, r, s)

\* w over N the chance of each stream, g over E the capital after it, h over E
\* the capital left alone.
Follows(n, m, r, s, N, E, w, g, h) ==
  /\ N \in Nat /\ N > 0 /\ E \in Nat /\ E > 0
  /\ w \in [Streams(n) -> Nat] /\ g \in [Streams(n) -> Nat] /\ h \in [Streams(n) -> Nat]
  /\ \A x \in Streams(n) :
       /\ Is(Chance(x, m), w[x], N) /\ Is(Now(x, m, n), g[x], E)
       /\ Crossed(x, m) => s * E <= r * h[x]
       /\ ~Crossed(x, m) => h[x] = g[x]

Weighed(n, w, h) == [x \in Streams(n) |-> w[x] * h[x]]
Averages(n, N, E, w, h) ==
  \E acc : Adds(acc, Streams(n), Weighed(n, w, h)) /\ acc[Streams(n)] = N * E

HasAverage(n, m, r, s) ==
  \E N, E, w, g, h : Follows(n, m, r, s, N, E, w, g, h) /\ Averages(n, N, E, w, h)

LEMMA StartsFair ==
  ASSUME NEW m, NEW a, NEW b, IsBet(m, a, b), NEW r, NEW s, IsLevel(r, s)
  PROVE  HasAverage(0, m, r, s)
<1>1. Streams(0) = {<<>>}
  BY NoAnswers
<1>2. m \in Fraction /\ Inside(m)
  BY DEF IsBet, Worth
<1> DEFINE c == [x \in Streams(0) |-> 1]
<1>3. c \in [Streams(0) -> Nat] /\ \A x \in Streams(0) : c[x] = 1
  OBVIOUS
<1> HIDE DEF c
<1>4. Is(One, 1, 1)
  BY WholeIs DEF One
<1>5. ASSUME NEW x \in Streams(0) PROVE Chance(x, m) = One /\ Now(x, m, 0) = One /\ ~Crossed(x, m)
  <2>1. x \in Seq(Bits) /\ Len(x) = 0
    BY StreamIsSeq
  <2>2. PICK h : IsChance(x, m, h) /\ Chance(x, m) = h[0]
    BY <1>2, <2>1, ChanceRuns
  <2>3. Chance(x, m) = One
    BY <2>2 DEF IsChance
  <2>4. DOMAIN Path(x, m) = 1..0
    BY <1>2, PathIs
  <2>5. ~Crossed(x, m)
    BY <2>4 DEF Crossed
  <2> QED BY <2>3, <2>5 DEF Now
<1>6. Follows(0, m, r, s, 1, 1, c, c, c)
  BY <1>3, <1>4, <1>5 DEF Follows
<1>7. Averages(0, 1, 1, c, c)
  <2>1. Weighed(0, c, c) \in [Streams(0) -> Nat] /\ Weighed(0, c, c)[<<>>] = 1
    BY <1>1, <1>3 DEF Weighed
  <2>2. IsFiniteSet(Streams(0))
    BY StreamsFinite
  <2>3. PICK acc : Adds(acc, Streams(0), Weighed(0, c, c))
    BY <2>1, <2>2, SumExists
  <2>4. acc[Streams(0)] = acc[Streams(0) \ {<<>>}] + Weighed(0, c, c)[<<>>] /\ acc[{}] = 0
    BY <1>1, <2>3 DEF Adds
  <2>5. Streams(0) \ {<<>>} = {}
    BY <1>1
  <2>6. acc[Streams(0)] = 0 + 1
    BY <2>1, <2>4, <2>5, Zenon
  <2>7. 0 + 1 = 1 * 1
    OBVIOUS
  <2> QED BY <2>3, <2>6, <2>7 DEF Averages
<1> QED BY <1>6, <1>7 DEF HasAverage

\* The weights, the capitals and the capitals left alone after one more answer.
NextW(n, a, b, w) == [z \in Streams(n + 1) |-> w[Shorter(z, n)] * Share(z[n + 1], a, b)]
NextG(n, a, b, g) == [z \in Streams(n + 1) |-> g[Shorter(z, n)] * Pays(z[n + 1], a, b)]
NextH(n, m, a, b, h) ==
  [z \in Streams(n + 1) |->
     h[Shorter(z, n)] * (IF Crossed(Shorter(z, n), m) THEN 2 * b ELSE Pays(z[n + 1], a, b))]

LEMMA StillFollows ==
  ASSUME NEW n \in Nat, NEW m, NEW a, NEW b, IsBet(m, a, b), NEW r, NEW s, IsLevel(r, s),
         NEW N, NEW E, NEW w, NEW g, NEW h, Follows(n, m, r, s, N, E, w, g, h)
  PROVE  Follows(n + 1, m, r, s, N * b, E * (2 * b),
                 NextW(n, a, b, w), NextG(n, a, b, g), NextH(n, m, a, b, h))
<1>1. a \in Nat /\ b \in Nat /\ a > 0 /\ a < b /\ Worth(m, a, b) /\ m \in Fraction /\ Inside(m)
  BY DEF IsBet, Worth
<1>2. r \in Nat /\ s \in Nat /\ r > 0 /\ s > 0 /\ Worth(Alpha, r, s)
  BY DEF IsLevel
<1>3. /\ N \in Nat /\ N > 0 /\ E \in Nat /\ E > 0
      /\ w \in [Streams(n) -> Nat] /\ g \in [Streams(n) -> Nat] /\ h \in [Streams(n) -> Nat]
  BY DEF Follows
<1>4. ASSUME NEW x \in Streams(n)
      PROVE  /\ Is(Chance(x, m), w[x], N) /\ Is(Now(x, m, n), g[x], E)
             /\ Crossed(x, m) => s * E <= r * h[x]
             /\ ~Crossed(x, m) => h[x] = g[x]
  BY DEF Follows
<1>5. N * b \in Nat /\ N * b > 0 /\ E * (2 * b) \in Nat /\ E * (2 * b) > 0
  BY <1>1, <1>3
<1>6. ASSUME NEW y \in Bits
      PROVE  /\ Share(y, a, b) \in Nat /\ Pays(y, a, b) \in Nat
             /\ Worth(Odds(y, m), Share(y, a, b), b)
             /\ Is(CapitalFactor(y, m, Half, TRUE), Pays(y, a, b), 2 * b)
  BY <1>1, AnswerIs
<1> DEFINE w2 == NextW(n, a, b, w)
           g2 == NextG(n, a, b, g)
           h2 == NextH(n, m, a, b, h)
<1>7. ASSUME NEW z \in Streams(n + 1)
      PROVE  /\ w2[z] = w[Shorter(z, n)] * Share(z[n + 1], a, b)
             /\ g2[z] = g[Shorter(z, n)] * Pays(z[n + 1], a, b)
             /\ h2[z] = h[Shorter(z, n)] * (IF Crossed(Shorter(z, n), m) THEN 2 * b
                                            ELSE Pays(z[n + 1], a, b))
  BY DEF NextW, NextG, NextH
<1>8. w2 \in [Streams(n + 1) -> Nat] /\ g2 \in [Streams(n + 1) -> Nat] /\ h2 \in [Streams(n + 1) -> Nat]
  <2>1. ASSUME NEW z \in Streams(n + 1) PROVE w2[z] \in Nat /\ g2[z] \in Nat /\ h2[z] \in Nat
    <3>1. Shorter(z, n) \in Streams(n) /\ z[n + 1] \in Bits
      BY ShorterFacts
    <3>2. w[Shorter(z, n)] \in Nat /\ g[Shorter(z, n)] \in Nat /\ h[Shorter(z, n)] \in Nat
      BY <1>3, <3>1
    <3>3. PICK y \in Bits : y = z[n + 1]
      BY <3>1
    <3>4. PICK v \in Nat, u \in Nat : v = Share(y, a, b) /\ u = Pays(y, a, b)
      BY <1>6
    <3>5. PICK q \in Nat : q = IF Crossed(Shorter(z, n), m) THEN 2 * b ELSE u
      BY <1>1
    <3>6. PICK i \in Nat, j \in Nat, k \in Nat :
            i = w[Shorter(z, n)] /\ j = g[Shorter(z, n)] /\ k = h[Shorter(z, n)]
      BY <3>2
    <3> HIDE DEF w2, g2, h2
    <3>7. w2[z] = i * v /\ g2[z] = j * u /\ h2[z] = k * q
      BY <1>7, <3>3, <3>4, <3>5, <3>6
    <3> QED BY <3>7
  <2> QED BY <2>1 DEF NextW, NextG, NextH
<1> HIDE DEF w2, g2, h2
<1>9. ASSUME NEW z \in Streams(n + 1)
      PROVE  /\ Is(Chance(z, m), w2[z], N * b) /\ Is(Now(z, m, n + 1), g2[z], E * (2 * b))
             /\ Crossed(z, m) => s * (E * (2 * b)) <= r * h2[z]
             /\ ~Crossed(z, m) => h2[z] = g2[z]
  <2>1. PICK x \in Streams(n) : x = Shorter(z, n)
    BY ShorterFacts
  <2>2. PICK y \in Bits : y = z[n + 1] /\ z = Longer(x, n, y)
    BY <2>1, ShorterFacts
  <2>3. PICK v \in Nat : v = Share(y, a, b) /\ Worth(Odds(y, m), v, b)
    BY <1>6
  <2>4. PICK u \in Nat : u = Pays(y, a, b) /\ Is(CapitalFactor(y, m, Half, TRUE), u, 2 * b)
    BY <1>6
  <2>5. PICK hx \in Nat : hx = h[x]
    BY <1>3
  <2>6. PICK gx \in Nat : gx = g[x]
    BY <1>3
  <2>7. w2[z] = w[x] * v /\ g2[z] = gx * u /\ h2[z] = hx * (IF Crossed(x, m) THEN 2 * b ELSE u)
    BY <1>7, <2>1, <2>2, <2>3, <2>4, <2>5, <2>6
  <2>8. PathSteps(x, n, y, m)
    BY <1>1, PathStep
  <2>9. /\ Now(z, m, n + 1) = Times(Now(x, m, n), CapitalFactor(y, m, Half, TRUE))
        /\ Crossed(z, m) <=> Crossed(x, m) \/ Leq(Over(One, Alpha), Now(z, m, n + 1))
    BY <2>2, <2>8 DEF PathSteps
  <2>10. Is(Chance(z, m), w2[z], N * b)
    <3>1. Chance(z, m) = Times(Chance(x, m), Odds(y, m))
      BY <1>1, <2>2, ChanceSteps
    <3>2. Worth(Chance(x, m), w[x], N)
      BY <1>4, IsWorth
    <3> QED BY <2>3, <2>7, <3>1, <3>2, TimesWorth
  <2>11. Is(Now(z, m, n + 1), g2[z], E * (2 * b))
    <3>1. Is(Now(x, m, n), gx, E)
      BY <1>4, <2>6
    <3> QED BY <2>4, <2>7, <2>9, <3>1, TimesIs
  <2>12. ASSUME Crossed(z, m) PROVE s * (E * (2 * b)) <= r * h2[z]
    <3>1. CASE Crossed(x, m)
      <4>1. s * E <= r * hx
        BY <1>4, <2>5, <3>1
      <4>2. s * E \in Int /\ r * hx \in Int /\ 2 * b \in Int /\ 2 * b > 0
        BY <1>1, <1>2, <1>3
      <4>3. (s * E) * (2 * b) <= (r * hx) * (2 * b)
        BY <4>1, <4>2, Scaling
      <4>4. h2[z] = hx * (2 * b)
        BY <2>7, <3>1
      <4>5. (s * E) * (2 * b) = s * (E * (2 * b)) /\ (r * hx) * (2 * b) = r * (hx * (2 * b))
        BY <1>1, <1>2, <1>3
      <4> QED BY <4>3, <4>4, <4>5
    <3>2. CASE ~Crossed(x, m)
      <4>1. Leq(Over(One, Alpha), Now(z, m, n + 1))
        BY <2>9, <2>12, <3>2
      <4>2. h2[z] = g2[z]
        BY <1>4, <2>5, <2>6, <2>7, <3>2
      <4>3. Worth(Over(One, Alpha), s, r)
        <5>1. PICK c \in Int, d \in Nat : Alpha = <<c, d>> /\ d > 0 /\ c * s = r * d
          BY <1>2, WorthTerms
        <5>2. c > 0
          <6>1. c * s > 0
            BY <1>2, <5>1
          <6>2. ASSUME c <= 0 PROVE FALSE
            <7>1. c \in Int /\ s \in Nat /\ s > 0
              BY <1>2, <5>1
            <7>2. c * s <= 0
              BY <6>2, <7>1
            <7> QED BY <6>1, <7>1, <7>2
          <6>3. c \in Int
            BY <5>1
          <6> QED BY <6>2, <6>3
        <5>3. Flipped(Alpha) = <<d, c>>
          BY <5>1, <5>2 DEF Flipped
        <5>4. d * r = s * c
          BY <1>2, <5>1
        <5>5. Worth(Flipped(Alpha), s, r)
          BY <1>2, <5>1, <5>2, <5>3, <5>4 DEF Worth, Fraction
        <5>6. Worth(One, 1, 1)
          BY WholeIs, IsWorth DEF One
        <5>7. Worth(Over(One, Alpha), 1 * s, 1 * r)
          BY <5>5, <5>6, TimesWorth, IsWorth DEF Over
        <5> QED BY <1>2, <5>7
      <4>4. Worth(Now(z, m, n + 1), g2[z], E * (2 * b))
        BY <2>11, IsWorth
      <4>5. s * (E * (2 * b)) <= g2[z] * r
        BY <4>1, <4>3, <4>4, LeqWorth
      <4>6. g2[z] \in Nat
        BY <1>8
      <4>7. g2[z] * r = r * g2[z]
        BY <1>2, <4>6
      <4> QED BY <4>2, <4>5, <4>7
    <3> QED BY <3>1, <3>2
  <2>13. ASSUME ~Crossed(z, m) PROVE h2[z] = g2[z]
    <3>1. ~Crossed(x, m)
      BY <2>9, <2>13
    <3> QED BY <1>4, <2>5, <2>6, <2>7, <3>1
  <2> QED BY <2>10, <2>11, <2>12, <2>13
<1>10. Follows(n + 1, m, r, s, N * b, E * (2 * b), w2, g2, h2)
  BY <1>5, <1>8, <1>9 DEF Follows
<1> QED BY <1>10 DEF w2, g2, h2

-----------------------------------------------------------------------------
(* What is weighed after one more answer, and so after any number of them.   *)

LEMMA FairBet ==
  ASSUME NEW a \in Nat, NEW b \in Nat, a < b, NEW W \in Nat, NEW H \in Nat
  PROVE  /\ (W * (b - a)) * (H * (2 * b)) + (W * a) * (H * (2 * b)) = ((2 * b) * b) * (W * H)
         /\ (W * (b - a)) * (H * (2 * b - a)) + (W * a) * (H * (3 * b - a)) = ((2 * b) * b) * (W * H)
<1>1. PICK c \in Nat : c = b - a
  OBVIOUS
<1>2. b = c + a
  BY <1>1
<1>3. ASSUME NEW u \in Nat, NEW v \in Nat PROVE (W * u) * (H * v) = (W * H) * (u * v)
  OBVIOUS
<1>4. PICK P \in Nat : P = W * H
  OBVIOUS
<1>5. ASSUME NEW i \in Nat, NEW j \in Nat, i + j = (2 * b) * b
      PROVE  P * i + P * j = ((2 * b) * b) * P
  BY <1>5
<1>6. /\ c \in Nat /\ 2 * b \in Nat /\ 2 * b - a \in Nat /\ 3 * b - a \in Nat
  BY <1>2
<1>7. PICK i \in Nat : i = c * (2 * b)
  BY <1>6
<1>8. PICK j \in Nat : j = a * (2 * b)
  OBVIOUS
<1>9. PICK k \in Nat : k = c * (2 * b - a)
  BY <1>6
<1>10. PICK l \in Nat : l = a * (3 * b - a)
  BY <1>6
<1>11. i + j = (2 * b) * b
  BY <1>2, <1>7, <1>8
<1>12. k + l = (2 * b) * b
  <2>1. k = c * (2 * c + a) /\ l = a * (3 * c + 2 * a) /\ (2 * b) * b = (2 * (c + a)) * (c + a)
    BY <1>2, <1>9, <1>10
  <2> QED BY <2>1
<1>13. /\ (W * c) * (H * (2 * b)) = P * i /\ (W * a) * (H * (2 * b)) = P * j
       /\ (W * c) * (H * (2 * b - a)) = P * k /\ (W * a) * (H * (3 * b - a)) = P * l
  BY <1>3, <1>4, <1>6, <1>7, <1>8, <1>9, <1>10
<1> QED BY <1>1, <1>4, <1>5, <1>11, <1>12, <1>13

LEMMA WeighedFacts ==
  ASSUME NEW n, NEW w \in [Streams(n) -> Nat], NEW h \in [Streams(n) -> Nat]
  PROVE  /\ Weighed(n, w, h) \in [Streams(n) -> Nat]
         /\ \A x \in Streams(n) : Weighed(n, w, h)[x] = w[x] * h[x]
<1>1. PICK S : S = Streams(n)
  OBVIOUS
<1>2. \A i \in Nat, j \in Nat : i * j \in Nat
  OBVIOUS
<1>3. \A x \in S : w[x] * h[x] \in Nat
  BY <1>1, <1>2
<1>4. Weighed(n, w, h) = [x \in S |-> w[x] * h[x]]
  BY <1>1 DEF Weighed
<1> QED BY <1>1, <1>3, <1>4

LEMMA StillAverages ==
  ASSUME NEW n \in Nat, NEW m, NEW a, NEW b, IsBet(m, a, b), NEW r, NEW s,
         NEW N, NEW E, NEW w, NEW g, NEW h, Follows(n, m, r, s, N, E, w, g, h),
         Follows(n + 1, m, r, s, N * b, E * (2 * b),
                 NextW(n, a, b, w), NextG(n, a, b, g), NextH(n, m, a, b, h)),
         Averages(n, N, E, w, h)
  PROVE  Averages(n + 1, N * b, E * (2 * b), NextW(n, a, b, w), NextH(n, m, a, b, h))
<1>1. a \in Nat /\ b \in Nat /\ a < b
  BY DEF IsBet
<1>2. N \in Nat /\ E \in Nat /\ w \in [Streams(n) -> Nat] /\ h \in [Streams(n) -> Nat]
  BY DEF Follows
<1>3. PICK w2 : w2 = NextW(n, a, b, w)
  OBVIOUS
<1>4. PICK h2 : h2 = NextH(n, m, a, b, h)
  OBVIOUS
<1>5. w2 \in [Streams(n + 1) -> Nat] /\ h2 \in [Streams(n + 1) -> Nat]
  BY <1>3, <1>4 DEF Follows
<1>6. PICK f \in [Streams(n + 1) -> Nat] :
        f = Weighed(n + 1, w2, h2) /\ \A z \in Streams(n + 1) : f[z] = w2[z] * h2[z]
  BY <1>5, WeighedFacts
<1>7. PICK e \in [Streams(n) -> Nat] :
        e = Weighed(n, w, h) /\ \A x \in Streams(n) : e[x] = w[x] * h[x]
  BY <1>2, WeighedFacts
<1>8. PICK B : Adds(B, Streams(n), e) /\ B[Streams(n)] = N * E
  BY <1>7 DEF Averages
<1>9. IsFiniteSet(Streams(n)) /\ IsFiniteSet(Streams(n + 1))
  BY StreamsFinite
<1>10. PICK C : Adds(C, Streams(n + 1), f)
  BY <1>9, SumExists
<1> DEFINE zero == [x \in Streams(n) |-> Longer(x, n, 0)]
           one == [x \in Streams(n) |-> Longer(x, n, 1)]
<1>11. ASSUME NEW x \in Streams(n), NEW y \in Bits
       PROVE  f[Longer(x, n, y)] = (w[x] * Share(y, a, b))
                                     * (h[x] * (IF Crossed(x, m) THEN 2 * b ELSE Pays(y, a, b)))
  <2>1. PICK z \in Streams(n + 1) : z = Longer(x, n, y) /\ z[n + 1] = y /\ Shorter(z, n) = x
    BY LongerFacts
  <2>2. w2[z] = w[Shorter(z, n)] * Share(z[n + 1], a, b)
    BY <1>3 DEF NextW
  <2>3. h2[z] = h[Shorter(z, n)] * (IF Crossed(Shorter(z, n), m) THEN 2 * b ELSE Pays(z[n + 1], a, b))
    BY <1>4 DEF NextH
  <2>4. f[z] = w2[z] * h2[z]
    BY <1>6
  <2> QED BY <2>1, <2>2, <2>3, <2>4
<1>12. ASSUME NEW x \in Streams(n) PROVE f[zero[x]] + f[one[x]] = ((2 * b) * b) * e[x]
  <2>1. 0 \in Bits /\ 1 \in Bits /\ zero[x] = Longer(x, n, 0) /\ one[x] = Longer(x, n, 1)
    BY DEF Bits
  <2>2. /\ Share(0, a, b) = b - a /\ Share(1, a, b) = a
        /\ Pays(0, a, b) = 2 * b - a /\ Pays(1, a, b) = 3 * b - a
    BY DEF Share, Pays
  <2>3. PICK W \in Nat, H \in Nat : W = w[x] /\ H = h[x] /\ e[x] = W * H
    BY <1>2, <1>7
  <2>4. f[zero[x]] = (W * (b - a)) * (H * (IF Crossed(x, m) THEN 2 * b ELSE 2 * b - a))
    BY <1>11, <2>1, <2>2, <2>3
  <2>5. f[one[x]] = (W * a) * (H * (IF Crossed(x, m) THEN 2 * b ELSE 3 * b - a))
    BY <1>11, <2>1, <2>2, <2>3
  <2>6. W \in Nat /\ H \in Nat
    BY <2>3
  <2>7. CASE Crossed(x, m)
    <3>1. f[zero[x]] = (W * (b - a)) * (H * (2 * b)) /\ f[one[x]] = (W * a) * (H * (2 * b))
      BY <2>4, <2>5, <2>7
    <3>2. (W * (b - a)) * (H * (2 * b)) + (W * a) * (H * (2 * b)) = ((2 * b) * b) * (W * H)
      BY ONLY <1>1, <2>6, FairBet
    <3> QED BY <2>3, <3>1, <3>2
  <2>8. CASE ~Crossed(x, m)
    <3>1. f[zero[x]] = (W * (b - a)) * (H * (2 * b - a)) /\ f[one[x]] = (W * a) * (H * (3 * b - a))
      BY <2>4, <2>5, <2>8
    <3>2. (W * (b - a)) * (H * (2 * b - a)) + (W * a) * (H * (3 * b - a)) = ((2 * b) * b) * (W * H)
      BY ONLY <1>1, <2>6, FairBet
    <3> QED BY <2>3, <3>1, <3>2
  <2> QED BY <2>7, <2>8
<1> DEFINE back == [z \in Streams(n + 1) |-> Shorter(z, n)]
<1>13. Doubles(Streams(n), Streams(n + 1), back, zero, one)
  BY StreamsDouble
<1>14. PICK k \in Nat : k = (2 * b) * b
  BY <1>1
<1>15. C[Streams(n + 1)] = k * B[Streams(n)]
  <2> HIDE DEF back, zero, one
  <2>1. \A x \in Streams(n) : f[zero[x]] + f[one[x]] = k * e[x]
    BY <1>12, <1>14
  <2> QED BY <1>8, <1>9, <1>10, <1>13, <2>1, SumByTwos
<1>16. k * (N * E) = (N * b) * (E * (2 * b))
  BY <1>1, <1>2, <1>14
<1>17. C[Streams(n + 1)] = (N * b) * (E * (2 * b))
  BY <1>8, <1>15, <1>16
<1> QED BY <1>3, <1>4, <1>6, <1>10, <1>17 DEF Averages

LEMMA AlwaysAverages ==
  ASSUME NEW n \in Nat, NEW m, NEW a, NEW b, IsBet(m, a, b), NEW r, NEW s, IsLevel(r, s)
  PROVE  HasAverage(n, m, r, s)
<1> DEFINE K == {k \in Nat : HasAverage(k, m, r, s)}
<1>1. 0 \in K
  BY StartsFair
<1>2. ASSUME NEW k \in Nat, k \in K PROVE k + 1 \in K
  <2>1. PICK N, E, w, g, h : Follows(k, m, r, s, N, E, w, g, h) /\ Averages(k, N, E, w, h)
    BY <1>2 DEF HasAverage
  <2>2. Follows(k + 1, m, r, s, N * b, E * (2 * b),
                NextW(k, a, b, w), NextG(k, a, b, g), NextH(k, m, a, b, h))
    BY <2>1, StillFollows
  <2>3. Averages(k + 1, N * b, E * (2 * b), NextW(k, a, b, w), NextH(k, m, a, b, h))
    BY <2>1, <2>2, StillAverages
  <2>4. HasAverage(k + 1, m, r, s)
    BY <2>2, <2>3 DEF HasAverage
  <2> QED BY <2>4
<1> HIDE DEF K
<1>3. n \in K
  BY <1>1, <1>2, Stepping
<1> QED BY <1>3 DEF K

-----------------------------------------------------------------------------
(* The chance of having rejected, added up stream by stream.                 *)

Rejecting(n, m) == {x \in [1..n -> {0, 1}] : SequentialTest(x, m, Alpha, Half, TRUE).rejected}

\* Study's instance of Agreement counts and adds as Study does.
LEMMA SamePlus == ASSUME NEW p, NEW q PROVE A!Plus(p, q) = Plus(p, q)
BY Zenon DEF A!Plus, Plus, A!Added, Added, A!Frac, Frac, A!Reduced, Reduced, A!GCD, GCD

LEMMA SameMax == ASSUME NEW S PROVE A!Max(S) = Max(S)
BY Zenon DEF A!Max, Max

LEMMA SameCount == ASSUME NEW S PROVE A!Cardinality(S) = Cardinality(S)
BY Zenon DEF A!Cardinality, Cardinality

\* l lists members of R, none twice.
Lists(l, k, R) == l \in [1..k -> R] /\ \A i, j \in 1..k : l[i] = l[j] => i = j

LEMMA ListExists ==
  ASSUME NEW R, IsFiniteSet(R)
  PROVE  \E k \in Nat : Lists(A!SetToSeq(R), k, R)
<1>1. PICK k \in Nat : k = Cardinality(R) /\ ExistsBijection(1..k, R)
  BY FS_CardinalityType
<1>2. PICK f \in [1..k -> R] : \A i, j \in 1..k : f[i] = f[j] => i = j
  BY <1>1 DEF ExistsBijection, Bijection, Injection, IsInjective
<1>3. PICK C : C = [1..k -> R]
  OBVIOUS
<1>4. A!SetToSeq(R) = CHOOSE g \in C : A!IsInjective(g)
  BY <1>1, <1>3, SameCount, Zenon DEF A!SetToSeq
<1>5. f \in C /\ A!IsInjective(f)
  BY <1>2, <1>3 DEF A!IsInjective
<1>6. A!SetToSeq(R) \in C /\ A!IsInjective(A!SetToSeq(R))
  BY <1>4, <1>5, Zenon
<1> QED BY <1>3, <1>6 DEF A!IsInjective, Lists

\* h is the sum of the chances of the first streams listed.
Totals(h, l, k, m) ==
  /\ h \in [0..k -> Fraction] /\ h[0] = Zero
  /\ \A i \in 1..k : h[i] = Plus(h[i - 1], Chance(l[i], m))

LEMMA RejectionRuns ==
  ASSUME NEW n \in Nat, NEW m \in Fraction, NEW l, l = A!SetToSeq(Rejecting(n, m)),
         NEW k \in Nat, Lists(l, k, Rejecting(n, m))
  PROVE  \E h : Totals(h, l, k, m) /\ RejectionChance(n, m) = h[k]
<1> DEFINE IsIter(f) == f = [S \in SUBSET DOMAIN l |->
                               IF S = {} THEN A!Zero
                               ELSE A!Plus(f[S \ {A!Max(S)}], Chance(l[A!Max(S)], m))]
           iter == CHOOSE f : IsIter(f)
<1>1. RejectionChance(n, m) = iter[DOMAIN l]
  BY Zenon DEF RejectionChance, A!SumOver, Rejecting, A!FoldLeft, A!MapThenFoldSet, Chance, Odds
<1>2. DOMAIN l = 1..k /\ \A i \in 1..k : l[i] \in Rejecting(n, m)
  BY DEF Lists
<1>3. Zero \in Fraction /\ A!Zero = Zero
  BY DEF Zero, Whole, Fraction, A!Zero, A!Whole
<1>4. ASSUME NEW x \in Streams(n) PROVE Chance(x, m) \in Fraction
  <2>1. PICK h : IsChance(x, m, h) /\ Chance(x, m) = h[Len(x)]
    BY StreamIsSeq, ChanceRuns
  <2>2. Len(x) = n
    BY StreamIsSeq
  <2> QED BY <2>1, <2>2 DEF IsChance
<1>5. \A i \in 1..k : l[i] \in Streams(n)
  BY <1>2 DEF Rejecting, Streams, Bits
<1>6. \E f : IsIter(f)
  <2> DEFINE g == [p \in Fraction \X Streams(n) |-> Plus(p[1], Chance(p[2], m))]
  <2>1. /\ g \in [Fraction \X Streams(n) -> Fraction]
        /\ \A p \in Fraction, x \in Streams(n) : g[<<p, x>>] = Plus(p, Chance(x, m))
    <3>1. \A p \in Fraction, x \in Streams(n) : Plus(p, Chance(x, m)) \in Fraction
      BY <1>4, FractionsClosed
    <3> QED BY <3>1
  <2> HIDE DEF g
  <2>2. CanFold(k, Fraction, Zero, Streams(n), g, l)
    BY <1>3, <1>5, <2>1 DEF CanFold
  <2>3. PICK f \in [SUBSET (1..k) -> Fraction] : IsFold(k, Zero, g, l, f)
    BY <2>2, FoldExists DEF HasFold
  <2>4. ASSUME NEW S \in SUBSET (1..k), S # {}
        PROVE  g[<<f[S \ {Max(S)}], l[Max(S)]>>] = A!Plus(f[S \ {A!Max(S)}], Chance(l[A!Max(S)], m))
    <3>1. Max(S) \in 1..k
      BY <2>4, MaxFacts
    <3>2. f[S \ {Max(S)}] \in Fraction /\ l[Max(S)] \in Streams(n)
      BY <1>5, <3>1
    <3>3. g[<<f[S \ {Max(S)}], l[Max(S)]>>] = Plus(f[S \ {Max(S)}], Chance(l[Max(S)], m))
      BY <2>1, <3>2
    <3> QED BY <3>3, SameMax, SamePlus
  <2>5. f = [S \in SUBSET (1..k) |-> IF S = {} THEN A!Zero
                                     ELSE A!Plus(f[S \ {A!Max(S)}], Chance(l[A!Max(S)], m))]
    BY <1>3, <2>3, <2>4 DEF IsFold
  <2> QED BY <1>2, <2>5
<1>7. IsIter(iter)
  <2> HIDE DEF IsIter
  <2> QED BY <1>6
<1> HIDE DEF iter
<1>8. ASSUME NEW S \in SUBSET (1..k)
      PROVE  iter[S] = IF S = {} THEN Zero ELSE Plus(iter[S \ {Max(S)}], Chance(l[Max(S)], m))
  <2>1. iter[S] = IF S = {} THEN A!Zero ELSE A!Plus(iter[S \ {A!Max(S)}], Chance(l[A!Max(S)], m))
    BY <1>2, <1>7
  <2> QED BY <1>3, <2>1, SameMax, SamePlus
<1>9. iter[{}] = Zero /\ 1..0 = {}
  <2>1. {} \in SUBSET (1..k) /\ 1..0 = {}
    OBVIOUS
  <2> QED BY <1>8, <2>1
<1>10. \A i \in 1..k : iter[1..i] = Plus(iter[1..(i - 1)], Chance(l[i], m))
  BY <1>8, FirstOnes
<1>11. \A i \in 0..k : iter[1..i] \in Fraction
  <2> DEFINE K == {i \in Nat : i <= k => iter[1..i] \in Fraction}
  <2>1. 0 \in K
    BY <1>3, <1>9
  <2>2. \A i \in Nat : i \in K => i + 1 \in K
    <3> SUFFICES ASSUME NEW i \in Nat, i \in K, i + 1 <= k PROVE iter[1..(i + 1)] \in Fraction
      OBVIOUS
    <3>1. i + 1 \in 1..k /\ (i + 1) - 1 = i
      OBVIOUS
    <3>2. iter[1..(i + 1)] = Plus(iter[1..i], Chance(l[i + 1], m))
      BY <1>10, <3>1
    <3>3. Chance(l[i + 1], m) \in Fraction
      BY <1>4, <1>5, <3>1
    <3> QED BY <3>2, <3>3, FractionsClosed
  <2> HIDE DEF K
  <2>3. Nat \subseteq K
    BY <2>1, <2>2, Stepping
  <2> QED BY <2>3 DEF K
<1> DEFINE h == [i \in 0..k |-> iter[1..i]]
<1>12. h[0] = Zero /\ h[k] = iter[1..k] /\ \A i \in 1..k : h[i] = iter[1..i] /\ h[i - 1] = iter[1..(i - 1)]
  BY <1>9
<1>13. h \in [0..k -> Fraction]
  BY <1>11
<1> HIDE DEF h
<1>14. Totals(h, l, k, m)
  BY <1>10, <1>12, <1>13 DEF Totals
<1> QED BY <1>1, <1>2, <1>12, <1>14

\* The chances of the streams listed come to the weights of them together.
LEMMA TotalIs ==
  ASSUME NEW n \in Nat, NEW m, NEW R \in SUBSET Streams(n), NEW l, NEW k \in Nat, Lists(l, k, R),
         NEW h, Totals(h, l, k, m),
         NEW N \in Nat, N > 0, NEW w \in [Streams(n) -> Nat],
         \A x \in Streams(n) : Is(Chance(x, m), w[x], N),
         NEW B, Adds(B, Streams(n), w)
  PROVE  \E T \in SUBSET R : Is(h[k], B[T], N)
<1> DEFINE First(i) == {l[j] : j \in 1..i}
           K == {i \in Nat : i <= k => Is(h[i], B[First(i)], N)}
<1>1. l \in [1..k -> R] /\ \A i, j \in 1..k : l[i] = l[j] => i = j
  BY DEF Lists
<1>2. h[0] = Zero /\ \A i \in 1..k : h[i] = Plus(h[i - 1], Chance(l[i], m))
  BY DEF Totals
<1>3. /\ B \in [SUBSET Streams(n) -> Nat] /\ B[{}] = 0
      /\ \A T \in SUBSET Streams(n) : \A x \in T : B[T] = B[T \ {x}] + w[x]
  BY DEF Adds
<1>4. 0 \in K
  <2>1. First(0) = {}
    OBVIOUS
  <2>2. Is(Zero, 0, 1)
    BY WholeIs DEF Zero
  <2>3. Is(Zero, 0, N)
    BY <2>2, IsAlso
  <2> QED BY <1>2, <1>3, <2>1, <2>3
<1>5. ASSUME NEW i \in Nat, i \in K PROVE i + 1 \in K
  <2> SUFFICES ASSUME i + 1 <= k PROVE Is(h[i + 1], B[First(i + 1)], N)
    OBVIOUS
  <2>1. i + 1 \in 1..k /\ (i + 1) - 1 = i /\ Is(h[i], B[First(i)], N)
    BY <1>5
  <2>2. PICK x \in R : x = l[i + 1]
    BY <1>1, <2>1
  <2>3. First(i + 1) \in SUBSET Streams(n) /\ x \in First(i + 1) /\ First(i) \in SUBSET Streams(n)
    BY <1>1, <2>1, <2>2
  <2>4. First(i + 1) \ {x} = First(i)
    <3>1. x \notin First(i)
      <4>1. \A j \in 1..i : j \in 1..k /\ j # i + 1
        BY <2>1
      <4>2. \A j \in 1..i : l[j] # l[i + 1]
        BY <1>1, <2>1, <4>1
      <4> QED BY <2>2, <4>2
    <3>2. First(i + 1) = First(i) \cup {x}
      <4>1. 1..(i + 1) = (1..i) \cup {i + 1}
        OBVIOUS
      <4> QED BY <2>2, <4>1
    <3> QED BY <3>1, <3>2
  <2> HIDE DEF First
  <2>5. PICK v \in Nat : v = w[x]
    OBVIOUS
  <2>6. PICK c \in Nat : c = B[First(i)]
    BY <1>3, <2>3
  <2>7. B[First(i + 1)] = c + v
    BY <1>3, <2>3, <2>4, <2>5, <2>6
  <2>8. h[i + 1] = Plus(h[i], Chance(x, m))
    BY <1>2, <2>1, <2>2
  <2>9. Worth(h[i], c, N) /\ Worth(Chance(x, m), v, N)
    <3>1. Is(Chance(x, m), v, N)
      BY <2>5
    <3> QED BY <2>1, <2>6, <3>1, IsWorth
  <2>10. Is(h[i + 1], c * N + v * N, N * N)
    BY <2>8, <2>9, PlusWorth
  <2>11. (c * N + v * N) * N = (c + v) * (N * N)
    OBVIOUS
  <2>12. Is(h[i + 1], c + v, N)
    BY <2>10, <2>11, IsAlso
  <2> QED BY <2>7, <2>12
<1>6. k \in K
  <2> HIDE DEF K
  <2> QED BY <1>4, <1>5, Stepping
<1>7. First(k) \in SUBSET R
  BY <1>1
<1> QED BY <1>6, <1>7

-----------------------------------------------------------------------------
(* A bet on the null mean is fair.                                           *)

LEMMA InTermsOf ==
  ASSUME NEW p \in Fraction, Inside(p)
  PROVE  \E a \in Nat, b \in Nat : a > 0 /\ a < b /\ p = <<a, b>> /\ Worth(p, a, b)
<1>1. PICK a \in Int, b \in Nat : p = <<a, b>> /\ b > 0
  BY FractionTerms
<1>2. a > 0 /\ a < b
  BY <1>1 DEF Inside, Less, Zero, One, Whole
<1>3. a \in Nat /\ Worth(p, a, b)
  BY <1>1, <1>2 DEF Worth
<1> QED BY <1>1, <1>2, <1>3

LEMMA RejectedCrossed ==
  ASSUME NEW n \in Nat, n > 0, NEW m \in Fraction, Inside(m), NEW x \in Rejecting(n, m)
  PROVE  x \in Streams(n) /\ Crossed(x, m)
<1>1. x \in Streams(n) /\ SequentialTest(x, m, Alpha, Half, TRUE).rejected
  BY DEF Rejecting, Streams, Bits
<1>2. x # <<>>
  BY <1>1, StreamIsSeq
<1>3. PICK p : p = BettingCapitalProcess(x, m, Half, TRUE) /\ p = Path(x, m)
  BY <1>2 DEF Path
<1>4. p # Raised
  <2>1. p \in Seq(Fraction)
    BY <1>1, <1>3, PathIs DEF IsPath
  <2> QED BY <2>1, StudyAssumption
<1>5. Inside(Alpha)
  BY StudyAssumption
<1>6. SequentialTest(x, m, Alpha, Half, TRUE).rejected = (StoppingTime(p, Alpha) # None)
  BY <1>3, <1>4, <1>5 DEF SequentialTest
<1>7. StoppingTime(p, Alpha) # None
  BY <1>1, <1>6
<1>8. {k \in DOMAIN p : Leq(Over(One, Alpha), p[k])} # {}
  BY <1>7 DEF StoppingTime
<1> QED BY <1>1, <1>3, <1>8 DEF Crossed

\* Ville's inequality: answers coming with the null mean, the test has rejected
\* by any time with no more than the chance alpha.
LEMMA RejectsSeldom ==
  ASSUME NEW n \in Nat, n > 0, NEW m \in NullMeans
  PROVE  Leq(RejectionChance(n, m), Alpha)
<1>1. m \in Fraction /\ Inside(m) /\ Alpha \in Fraction /\ Inside(Alpha)
  BY StudyAssumption
<1>2. PICK a \in Nat, b \in Nat : a > 0 /\ a < b /\ Worth(m, a, b)
  BY <1>1, InTermsOf
<1>3. PICK r \in Nat, s \in Nat : r > 0 /\ r < s /\ Worth(Alpha, r, s)
  BY <1>1, InTermsOf
<1>4. IsBet(m, a, b) /\ IsLevel(r, s)
  BY <1>1, <1>2, <1>3 DEF IsBet, IsLevel
<1>5. PICK N, E, w, g, h : Follows(n, m, r, s, N, E, w, g, h) /\ Averages(n, N, E, w, h)
  BY <1>4, AlwaysAverages DEF HasAverage
<1>6. /\ N \in Nat /\ N > 0 /\ E \in Nat /\ E > 0
      /\ w \in [Streams(n) -> Nat] /\ h \in [Streams(n) -> Nat]
      /\ \A x \in Streams(n) : Is(Chance(x, m), w[x], N)
      /\ \A x \in Streams(n) : Crossed(x, m) => s * E <= r * h[x]
  BY <1>5 DEF Follows
<1>7. PICK f \in [Streams(n) -> Nat] :
        f = Weighed(n, w, h) /\ \A x \in Streams(n) : f[x] = w[x] * h[x]
  BY <1>6, WeighedFacts
<1>8. PICK C : Adds(C, Streams(n), f) /\ C[Streams(n)] = N * E
  BY <1>5, <1>7 DEF Averages
<1>9. IsFiniteSet(Streams(n))
  BY StreamsFinite
<1>10. PICK B : Adds(B, Streams(n), w)
  BY <1>6, <1>9, SumExists
<1>11. PICK R \in SUBSET Streams(n) : R = Rejecting(n, m) /\ \A x \in R : Crossed(x, m)
  BY <1>1, RejectedCrossed
<1>12. PICK l : l = A!SetToSeq(Rejecting(n, m))
  OBVIOUS
<1>13. PICK k \in Nat : Lists(l, k, R)
  <2>1. IsFiniteSet(R)
    BY <1>9, FS_Subset
  <2> QED BY <1>11, <1>12, <2>1, ListExists
<1>14. PICK t : Totals(t, l, k, m) /\ RejectionChance(n, m) = t[k]
  BY <1>1, <1>11, <1>12, <1>13, RejectionRuns
<1>15. PICK T \in SUBSET R : Is(RejectionChance(n, m), B[T], N)
  BY <1>6, <1>10, <1>13, <1>14, TotalIs
<1>16. PICK j \in Nat : j = s * E
  BY <1>6
<1>17. ASSUME NEW x \in T PROVE j * w[x] <= r * f[x]
  <2>1. PICK v \in Nat, u \in Nat : v = w[x] /\ u = h[x] /\ f[x] = v * u /\ j <= r * u
    BY <1>6, <1>7, <1>11, <1>16
  <2>2. PICK c \in Nat : c = r * u
    OBVIOUS
  <2>3. v * j <= v * c
    BY <2>1, <2>2
  <2>4. j * v = v * j /\ r * (v * u) = v * c
    BY <2>2
  <2> QED BY <2>1, <2>3, <2>4
<1>18. j * B[T] <= r * C[T]
  <2>1. T \in SUBSET Streams(n)
    OBVIOUS
  <2> QED BY <1>6, <1>8, <1>9, <1>10, <1>17, <2>1, SumsCompare
<1>19. PICK e \in Nat : e = C[T] /\ e <= N * E
  BY <1>8, <1>9, SumPart
<1>20. PICK d \in Nat : d = B[T]
  <2>1. T \in SUBSET Streams(n)
    OBVIOUS
  <2> QED BY <1>6, <1>9, <1>10, <2>1, SumPart
<1>21. d * s <= r * N
  <2>1. (s * E) * d <= r * e
    BY <1>16, <1>18, <1>19, <1>20
  <2>2. r * e <= r * (N * E)
    <3>1. PICK i \in Nat : i = N * E
      BY <1>6
    <3>2. r * e <= r * i
      BY <1>19, <3>1
    <3> QED BY <3>1, <3>2
  <2>3. (s * E) * d = (d * s) * E /\ r * (N * E) = (r * N) * E
    BY <1>6
  <2>4. d * s \in Int /\ r * N \in Int /\ E \in Int /\ r * e \in Int
    BY <1>6
  <2>5. (d * s) * E <= (r * N) * E
    <3>1. (d * s) * E \in Int /\ (r * N) * E \in Int
      BY <2>4
    <3> QED BY <2>1, <2>2, <2>3, <2>4, <3>1
  <2> QED BY <1>6, <2>4, <2>5, Scaling
<1>22. Worth(RejectionChance(n, m), d, N)
  BY <1>15, <1>20, IsWorth
<1> QED BY <1>3, <1>21, <1>22, LeqWorth

\* What the next answer is expected to leave of the capital is what there is.
LEMMA BetIsFair ==
  ASSUME NEW n \in Nat, n > 0, NEW x \in Streams(n), NEW m \in NullMeans
  PROVE  LET now == SequentialTest(x, m, Alpha, Half, TRUE).capital
             next(y) == SequentialTest(Append(x, y), m, Alpha, Half, TRUE).capital
         IN  Plus(Times(m, next(1)), Times(Minus(One, m), next(0))) = now
<1> DEFINE capital(z) == SequentialTest(z, m, Alpha, Half, TRUE).capital
           next(y) == capital(Append(x, y))
<1>1. m \in Fraction /\ Inside(m) /\ Alpha \in Fraction /\ Inside(Alpha)
  BY StudyAssumption
<1>2. PICK a \in Nat, b \in Nat : a > 0 /\ a < b /\ Worth(m, a, b)
  BY <1>1, InTermsOf
<1>3. PICK r \in Nat, s \in Nat : r > 0 /\ r < s /\ Worth(Alpha, r, s)
  BY <1>1, InTermsOf
<1>4. IsBet(m, a, b) /\ IsLevel(r, s)
  BY <1>1, <1>2, <1>3 DEF IsBet, IsLevel
<1>5. PICK N, E, w, g, h : Follows(n, m, r, s, N, E, w, g, h)
  BY <1>4, AlwaysAverages DEF HasAverage
<1>6. E \in Nat /\ E > 0 /\ g \in [Streams(n) -> Nat] /\ Is(Now(x, m, n), g[x], E)
  BY <1>5 DEF Follows
<1>7. PICK c \in Nat : c = g[x]
  BY <1>6
<1>8. ASSUME NEW i \in Nat, i > 0, NEW z \in Streams(i)
      PROVE  capital(z) = Now(z, m, i)
  <2>1. z # <<>>
    BY <1>8, StreamIsSeq
  <2>2. PICK p : p = BettingCapitalProcess(z, m, Half, TRUE) /\ p = Path(z, m)
    BY <2>1 DEF Path
  <2>3. p # Raised /\ Len(p) = i
    <3>1. IsPath(Path(z, m), z, m, Half, TRUE) /\ DOMAIN Path(z, m) = 1..i
      BY <1>1, PathIs
    <3>2. p \in Seq(Fraction) /\ DOMAIN p = 1..i
      BY <2>2, <3>1 DEF IsPath
    <3> QED BY <3>2, StudyAssumption
  <2>4. capital(z) = p[i]
    BY <1>1, <2>2, <2>3 DEF SequentialTest
  <2>5. Now(z, m, i) = p[i]
    <3>1. i # 0
      BY <1>8
    <3>2. p = Path(z, m)
      BY <2>2, Zenon
    <3> QED BY <3>1, <3>2 DEF Now
  <2> QED BY <2>4, <2>5
<1> HIDE DEF capital
<1>9. ASSUME NEW y \in Bits PROVE Is(next(y), c * Pays(y, a, b), E * (2 * b))
  <2>1. Append(x, y) = Longer(x, n, y)
    <3>1. x \in Seq(Bits) /\ Len(x) = n
      BY StreamIsSeq
    <3>5. /\ Append(x, y) \in Seq(Bits) /\ Len(Append(x, y)) = Len(x) + 1
          /\ Append(x, y)[Len(x) + 1] = y /\ \A i \in 1..Len(x) : Append(x, y)[i] = x[i]
      BY <3>1, AppendFacts
    <3>2. PICK t \in Seq(Bits) : t = Append(x, y) /\ Len(t) = n + 1 /\ t[n + 1] = y
                                 /\ \A i \in 1..n : t[i] = x[i]
      BY <3>1, <3>5
    <3>3. t = [i \in 1..(n + 1) |-> t[i]]
      <4>1. t = [i \in 1..Len(t) |-> t[i]]
        OBVIOUS
      <4> QED BY <3>2, <4>1
    <3>4. ASSUME NEW i \in 1..(n + 1) PROVE t[i] = IF i = n + 1 THEN y ELSE x[i]
      <4>1. i # n + 1 => i \in 1..n
        OBVIOUS
      <4> QED BY <3>2, <4>1
    <3> QED BY <3>2, <3>3, <3>4 DEF Longer
  <2>2. PICK z \in Streams(n + 1) : z = Longer(x, n, y)
    BY LongerFacts
  <2>3. next(y) = Now(z, m, n + 1)
    <3>1. capital(z) = Now(z, m, n + 1)
      BY <1>8
    <3> QED BY <2>1, <2>2, <3>1
  <2>4. Now(z, m, n + 1) = Times(Now(x, m, n), CapitalFactor(y, m, Half, TRUE))
    BY <1>1, <2>2, PathStep DEF PathSteps
  <2>5. Is(CapitalFactor(y, m, Half, TRUE), Pays(y, a, b), 2 * b)
    BY <1>2, AnswerIs
  <2> QED BY <1>6, <1>7, <2>3, <2>4, <2>5, TimesIs
<1>10. 0 \in Bits /\ 1 \in Bits
  BY DEF Bits
<1>11. PICK p : p = next(1)
  OBVIOUS
<1>12. PICK q : q = next(0)
  OBVIOUS
<1>25. capital(x) = Now(x, m, n)
  BY <1>8
<1> HIDE DEF next
<1>13. /\ Pays(1, a, b) = 3 * b - a /\ Pays(0, a, b) = 2 * b - a
       /\ Share(1, a, b) = a /\ Share(0, a, b) = b - a
       /\ Odds(1, m) = m /\ Odds(0, m) = Minus(One, m)
  BY DEF Pays, Share, Odds
<1>14. PICK D \in Nat : D = E * (2 * b) /\ D > 0
  BY <1>2, <1>6
<1>15. PICK u \in Nat : u = c * (3 * b - a) /\ Is(p, u, D)
  <2>1. 3 * b - a \in Nat
    BY <1>2
  <2> QED BY <1>9, <1>10, <1>11, <1>13, <1>14, <2>1
<1>16. PICK v \in Nat : v = c * (2 * b - a) /\ Is(q, v, D)
  <2>1. 2 * b - a \in Nat
    BY <1>2
  <2> QED BY <1>9, <1>10, <1>12, <1>13, <1>14, <2>1
<1>17. Is(Times(m, p), a * u, b * D)
  BY <1>2, <1>15, IsWorth, TimesWorth
<1>18. Is(Times(Minus(One, m), q), (b - a) * v, b * D)
  <2>1. Worth(Minus(One, m), b - a, b)
    <3>1. Worth(Odds(0, m), Share(0, a, b), b)
      BY <1>2, <1>10, AnswerIs
    <3> QED BY <1>13, <3>1
  <2> QED BY <1>16, <2>1, IsWorth, TimesWorth
<1>19. PICK F0 \in Nat, X \in Nat, Y \in Nat : F0 = b * D /\ F0 > 0 /\ X = a * u /\ Y = (b - a) * v
  BY <1>2, <1>14
<1>20. Is(Plus(Times(m, p), Times(Minus(One, m), q)), X * F0 + Y * F0, F0 * F0)
  BY <1>17, <1>18, <1>19, IsWorth, PlusWorth
<1>21. X + Y = ((2 * b) * b) * c
  <2>1. PICK i \in Nat : i = b - a
    BY <1>2
  <2>2. X = (1 * a) * (c * (3 * b - a)) /\ Y = (1 * (b - a)) * (c * (2 * b - a))
    BY <1>15, <1>16, <1>19, <2>1
  <2>3. (1 * (b - a)) * (c * (2 * b - a)) + (1 * a) * (c * (3 * b - a)) = ((2 * b) * b) * (1 * c)
    BY <1>2, FairBet
  <2> QED BY <2>2, <2>3, <1>19
<1>22. F0 = ((2 * b) * b) * E
  BY <1>6, <1>14, <1>19
<1>23. (X * F0 + Y * F0) * E = c * (F0 * F0)
  <2>1. PICK k \in Nat : k = (2 * b) * b
    OBVIOUS
  <2>2. X + Y = k * c /\ F0 = k * E
    BY <1>21, <1>22, <2>1
  <2>3. X * F0 + Y * F0 = (X + Y) * F0
    OBVIOUS
  <2>4. ((k * c) * F0) * E = c * ((k * E) * F0)
    BY <1>6
  <2> QED BY <2>2, <2>3, <2>4
<1>24. Plus(Times(m, p), Times(Minus(One, m), q)) = Now(x, m, n)
  BY <1>6, <1>7, <1>20, <1>23, SameFraction
<1> QED BY <1>11, <1>12, <1>24, <1>25, Zenon DEF next, capital

\* The posterior mean of the answers lies between the prior's and their rate.
LEMMA MeanBetween ==
  ASSUME NEW x \in Seq(Bits), x # <<>>
  PROVE  LET rate == Ratio(x)
             mean == PosteriorMean(BetaBinomialPosterior(Sum(x), Len(x), Half, Half))
         IN  Leq(Lower(rate, Half), mean) /\ Leq(mean, Higher(rate, Half))
<1>1. PICK n \in Nat : n = Len(x) /\ n > 0
  OBVIOUS
<1>2. PICK s \in Nat : s = Sum(x) /\ s <= n
  <2>1. x \in Seq(Int) /\ \A i \in 1..n : x[i] \in {0, 1}
    BY <1>1 DEF Bits
  <2>2. PICK h : IsRunning(x, h) /\ Sum(x) = h[Len(x)]
    BY <2>1, SumRuns
  <2>3. h \in [0..n -> Int] /\ h[0] = 0 /\ \A k \in 1..n : h[k] = h[k - 1] + x[k]
    BY <1>1, <2>2 DEF IsRunning
  <2> DEFINE K == {k \in Nat : k <= n => h[k] \in Nat /\ h[k] <= k}
  <2>4. 0 \in K
    BY <2>3
  <2>5. ASSUME NEW k \in Nat, k \in K PROVE k + 1 \in K
    <3> SUFFICES ASSUME k + 1 <= n PROVE h[k + 1] \in Nat /\ h[k + 1] <= k + 1
      OBVIOUS
    <3>1. k + 1 \in 1..n /\ (k + 1) - 1 = k /\ h[k] \in Nat /\ h[k] <= k
      BY <2>5
    <3>2. h[k + 1] = h[k] + x[k + 1] /\ x[k + 1] \in {0, 1}
      BY <2>1, <2>3, <3>1
    <3> QED BY <3>1, <3>2
  <2>6. n \in K
    <3> HIDE DEF K
    <3> QED BY <2>4, <2>5, Stepping
  <2> QED BY <1>1, <2>2, <2>6
<1>3. Is(Half, 1, 2) /\ Half \in Fraction
  BY FracIs, FracFraction DEF Half
<1>4. PICK al : al = Plus(Half, Whole(s)) /\ Is(al, 1 + 2 * s, 2)
  <2>1. Worth(Half, 1, 2) /\ Worth(Whole(s), s, 1)
    BY <1>3, WholeIs, IsWorth
  <2>2. Is(Plus(Half, Whole(s)), 1 * 1 + s * 2, 2 * 1)
    BY <2>1, PlusWorth
  <2>3. 1 * 1 + s * 2 = 1 + 2 * s /\ 2 * 1 = 2
    OBVIOUS
  <2> QED BY <2>2, <2>3
<1>5. PICK be : be = Plus(Half, Whole(n - s)) /\ Is(be, 1 + 2 * (n - s), 2)
  <2>1. n - s \in Int
    OBVIOUS
  <2>2. Worth(Half, 1, 2) /\ Worth(Whole(n - s), n - s, 1)
    BY <1>3, <2>1, WholeIs, IsWorth
  <2>3. Is(Plus(Half, Whole(n - s)), 1 * 1 + (n - s) * 2, 2 * 1)
    BY <2>2, PlusWorth
  <2>4. 1 * 1 + (n - s) * 2 = 1 + 2 * (n - s) /\ 2 * 1 = 2
    OBVIOUS
  <2> QED BY <2>3, <2>4
<1>6. ~Leq(Half, Zero)
  <2>1. PICK a \in Int, b \in Nat : Half = <<a, b>> /\ b > 0 /\ a * 2 = 1 * b
    BY <1>3, IsTerms
  <2> QED BY <2>1 DEF Leq, Zero, Whole
<1>7. BetaBinomialPosterior(Sum(x), Len(x), Half, Half) = [alpha |-> al, beta |-> be]
  <2>1. ~(n < 0 \/ s \notin 0..n)
    BY <1>2
  <2> QED BY <1>1, <1>2, <1>4, <1>5, <1>6, <2>1 DEF BetaBinomialPosterior
<1>8. PICK mean : mean = PosteriorMean([alpha |-> al, beta |-> be]) /\ mean = Over(al, Plus(al, be))
  BY DEF PosteriorMean
<1>9. Is(Plus(al, be), n + 1, 1)
  <2>1. Is(Plus(al, be), (1 + 2 * s) * 2 + (1 + 2 * (n - s)) * 2, 2 * 2)
    BY <1>4, <1>5, IsWorth, PlusWorth
  <2>2. ((1 + 2 * s) * 2 + (1 + 2 * (n - s)) * 2) * 1 = (n + 1) * (2 * 2)
    OBVIOUS
  <2> QED BY <2>1, <2>2, IsAlso
<1>10. Worth(mean, (1 + 2 * s) * 1, 2 * (n + 1))
  <2>1. n + 1 > 0
    OBVIOUS
  <2>2. Is(mean, (1 + 2 * s) * 1, 2 * (n + 1))
    BY <1>4, <1>8, <1>9, <2>1, OverIs
  <2> QED BY <2>2, IsWorth
<1>11. PICK rate : rate = Ratio(x) /\ Worth(rate, s, n)
  BY <1>1, <1>2, FracIs, IsWorth DEF Ratio
<1>12. Worth(Half, 1, 2)
  BY <1>3, IsWorth
<1>13. PICK u \in Nat : u = s * (2 * (n + 1))
  OBVIOUS
<1>14. PICK v \in Nat : v = ((1 + 2 * s) * 1) * n
  OBVIOUS
<1>15. u = 2 * (s * n) + 2 * s /\ v = n + 2 * (s * n)
  BY <1>13, <1>14
<1>16. /\ Leq(rate, mean) <=> u <= v
       /\ Leq(mean, rate) <=> v <= u
  BY <1>10, <1>11, <1>13, <1>14, LeqWorth
<1>17. Leq(rate, Half) <=> s * 2 <= 1 * n
  BY <1>11, <1>12, LeqWorth
<1>18. /\ Leq(Half, mean) <=> 1 * (2 * (n + 1)) <= ((1 + 2 * s) * 1) * 2
       /\ Leq(mean, Half) <=> ((1 + 2 * s) * 1) * 2 <= 1 * (2 * (n + 1))
  BY <1>10, <1>12, LeqWorth
<1>19. PICK k \in Nat : k = s * n
  OBVIOUS
<1>20. CASE 2 * s <= n
  <2>1. Leq(rate, Half) /\ Leq(rate, mean) /\ Leq(mean, Half)
    BY <1>15, <1>16, <1>17, <1>18, <1>19, <1>20
  <2> QED BY <1>7, <1>8, <1>11, <2>1 DEF Lower, Higher
<1>21. CASE ~(2 * s <= n)
  <2>1. ~Leq(rate, Half) /\ Leq(mean, rate) /\ Leq(Half, mean)
    BY <1>15, <1>16, <1>17, <1>18, <1>19, <1>21
  <2> QED BY <1>7, <1>8, <1>11, <2>1 DEF Lower, Higher
<1> QED BY <1>20, <1>21

LEMMA Fair == ASSUME Asked PROVE BetsFair
<1> SUFFICES ASSUME About("answers") PROVE BetsFair
  BY DEF BetsFair
<1>1. seen \in Seq(Bits) /\ seen # <<>>
  BY DEF About, Asked
<1>2. PICK n \in Nat : n = Len(seen) /\ n > 0
  BY <1>1
<1>3. seen \in Streams(n)
  BY <1>1, <1>2 DEF Streams
<1>4. ASSUME NEW m \in NullMeans
      PROVE  /\ LET now == SequentialTest(seen, m, Alpha, Half, TRUE).capital
                    next(x) == SequentialTest(Append(seen, x), m, Alpha, Half, TRUE).capital
                IN  Plus(Times(m, next(1)), Times(Minus(One, m), next(0))) = now
             /\ Leq(RejectionChance(Len(seen), m), Alpha)
             /\ LET rate == Ratio(seen)
                    mean == PosteriorMean(BetaBinomialPosterior(Sum(seen), Len(seen), Half, Half))
                IN  Leq(Lower(rate, Half), mean) /\ Leq(mean, Higher(rate, Half))
  <2>1. Leq(RejectionChance(Len(seen), m), Alpha)
    BY <1>2, RejectsSeldom
  <2>2. LET now == SequentialTest(seen, m, Alpha, Half, TRUE).capital
            next(x) == SequentialTest(Append(seen, x), m, Alpha, Half, TRUE).capital
        IN  Plus(Times(m, next(1)), Times(Minus(One, m), next(0))) = now
    BY <1>2, <1>3, BetIsFair
  <2> QED BY <1>1, <2>1, <2>2, MeanBetween, Zenon
<1> QED BY <1>4, Zenon DEF BetsFair

\* Whatever answers have come, a bet on the null mean is fair, the test that
\* stops at its first crossing is wrong no more often than alpha, as
\* sequential.py says it is by Ville's inequality, and the posterior mean lies
\* between the prior's and the rate seen.
THEOREM BetsAreFair == StudySpec => []BetsFair
<1>1. StudyInit => Asked
  BY DEF StudyInit, Asked
<1>2. Asked /\ [Observe]_studyVars => Asked'
  BY NextAsked
<1>3. Asked => BetsFair
  BY Fair
<1> QED BY <1>1, <1>2, <1>3, PTL DEF StudySpec

-----------------------------------------------------------------------------
(* Packing a ranking into a budget (retrieval/base.py and the Java           *)
(* reference): the costs are counts of tokens.                               *)

Rk == INSTANCE Ranking

Packings(Ids) == [ids : Seq(Ids), used : Nat, open : BOOLEAN]
Empty == [ids |-> <<>>, used |-> 0, open |-> TRUE]
Taken(s, id, cost, budget) ==
  IF ~s.open \/ s.used + cost[id] > budget THEN [s EXCEPT !.open = FALSE]
  ELSE [s EXCEPT !.ids = Append(@, id), !.used = @ + cost[id]]

\* t is what taking id makes of s.
Takes(t, s, id, cost, budget) ==
  /\ ~s.open \/ s.used + cost[id] > budget => t.ids = s.ids /\ t.used = s.used /\ ~t.open
  /\ s.open /\ s.used + cost[id] <= budget =>
       t.ids = Append(s.ids, id) /\ t.used = s.used + cost[id] /\ t.open

LEMMA TakenFacts ==
  ASSUME NEW Ids, NEW cost \in [Ids -> Nat], NEW budget \in Nat, NEW s \in Packings(Ids), NEW id \in Ids
  PROVE  Taken(s, id, cost, budget) \in Packings(Ids) /\ Takes(Taken(s, id, cost, budget), s, id, cost, budget)
<1>1. PICK i, u, o : s = [ids |-> i, used |-> u, open |-> o] /\ i \in Seq(Ids) /\ u \in Nat /\ o \in BOOLEAN
  BY DEF Packings
<1>2. PICK c \in Nat : c = cost[id]
  OBVIOUS
<1>3. PICK t : t = Taken(s, id, cost, budget)
  OBVIOUS
<1>4. Append(i, id) \in Seq(Ids) /\ u + c \in Nat
  BY <1>1
<1>5. CASE ~o \/ u + c > budget
  <2>1. t = [ids |-> i, used |-> u, open |-> FALSE]
    BY <1>1, <1>2, <1>3, <1>5 DEF Taken
  <2>2. t \in Packings(Ids)
    BY <1>1, <2>1 DEF Packings
  <2>3. t.ids = s.ids /\ t.used = s.used /\ ~t.open /\ ~(s.open /\ s.used + cost[id] <= budget)
    BY <1>1, <1>2, <1>5, <2>1
  <2> QED BY <1>3, <2>2, <2>3 DEF Takes
<1>6. CASE ~(~o \/ u + c > budget)
  <2>1. t = [ids |-> Append(i, id), used |-> u + c, open |-> o]
    BY <1>1, <1>2, <1>3, <1>6 DEF Taken
  <2>2. o = TRUE /\ u + c <= budget
    BY <1>1, <1>6
  <2>3. t \in Packings(Ids)
    BY <1>4, <2>1, <2>2 DEF Packings
  <2>4. /\ t.ids = Append(s.ids, id) /\ t.used = s.used + cost[id] /\ t.open
        /\ ~(~s.open \/ s.used + cost[id] > budget)
    BY <1>1, <1>2, <1>6, <2>1, <2>2
  <2> QED BY <1>3, <2>3, <2>4 DEF Takes
<1> QED BY <1>5, <1>6

\* h is the packing after each item.
Packs(h, ranked, Ids, cost, budget) ==
  /\ h \in [0..Len(ranked) -> Packings(Ids)] /\ h[0] = Empty
  /\ \A k \in 1..Len(ranked) : Takes(h[k], h[k - 1], ranked[k], cost, budget)

LEMMA PackRuns ==
  ASSUME NEW Ids, NEW ranked \in Seq(Ids), NEW cost \in [Ids -> Nat], NEW budget \in Nat
  PROVE  \E h : Packs(h, ranked, Ids, cost, budget)
                /\ Rk!PackToBudget(ranked, cost, budget) = h[Len(ranked)].ids
<1> DEFINE IsIter(f) == f = [S \in SUBSET DOMAIN ranked |->
                               IF S = {} THEN Empty
                               ELSE Taken(f[S \ {Rk!Max(S)}], ranked[Rk!Max(S)], cost, budget)]
           iter == CHOOSE f : IsIter(f)
<1>1. Rk!PackToBudget(ranked, cost, budget) = iter[DOMAIN ranked].ids
  <2>1. ~(budget < 0)
    OBVIOUS
  <2> QED BY <2>1, Zenon DEF Rk!PackToBudget, Rk!FoldLeft, Rk!MapThenFoldSet, Taken, Empty
<1>2. PICK n \in Nat : n = Len(ranked) /\ DOMAIN ranked = 1..n /\ \A i \in 1..n : ranked[i] \in Ids
  OBVIOUS
<1>3. Empty \in Packings(Ids)
  BY DEF Empty, Packings
<1>4. ASSUME NEW S PROVE Rk!Max(S) = Max(S)
  BY Zenon DEF Rk!Max, Max
<1>5. \E f : IsIter(f)
  <2> DEFINE g == [p \in Packings(Ids) \X Ids |-> Taken(p[1], p[2], cost, budget)]
  <2>1. /\ g \in [Packings(Ids) \X Ids -> Packings(Ids)]
        /\ \A s \in Packings(Ids), id \in Ids : g[<<s, id>>] = Taken(s, id, cost, budget)
    BY TakenFacts
  <2> HIDE DEF g
  <2>2. CanFold(n, Packings(Ids), Empty, Ids, g, ranked)
    BY <1>2, <1>3, <2>1 DEF CanFold
  <2>3. PICK f \in [SUBSET (1..n) -> Packings(Ids)] : IsFold(n, Empty, g, ranked, f)
    BY <2>2, FoldExists DEF HasFold
  <2>4. ASSUME NEW S \in SUBSET (1..n), S # {}
        PROVE  g[<<f[S \ {Max(S)}], ranked[Max(S)]>>] =
                 Taken(f[S \ {Rk!Max(S)}], ranked[Rk!Max(S)], cost, budget)
    <3>1. Max(S) \in 1..n
      BY <2>4, MaxFacts
    <3>2. f[S \ {Max(S)}] \in Packings(Ids) /\ ranked[Max(S)] \in Ids
      BY <1>2, <3>1
    <3> QED BY <1>4, <2>1, <3>2
  <2>5. f = [S \in SUBSET (1..n) |-> IF S = {} THEN Empty
                                     ELSE Taken(f[S \ {Rk!Max(S)}], ranked[Rk!Max(S)], cost, budget)]
    BY <2>3, <2>4 DEF IsFold
  <2> QED BY <1>2, <2>5
<1>6. IsIter(iter)
  <2> HIDE DEF IsIter
  <2> QED BY <1>5
<1> HIDE DEF iter
<1>7. ASSUME NEW S \in SUBSET (1..n)
      PROVE  iter[S] = IF S = {} THEN Empty ELSE Taken(iter[S \ {Max(S)}], ranked[Max(S)], cost, budget)
  <2>1. iter[S] = IF S = {} THEN Empty ELSE Taken(iter[S \ {Rk!Max(S)}], ranked[Rk!Max(S)], cost, budget)
    BY <1>2, <1>6
  <2> QED BY <1>4, <2>1
<1>8. iter[{}] = Empty /\ 1..0 = {}
  <2>1. {} \in SUBSET (1..n) /\ 1..0 = {}
    OBVIOUS
  <2> QED BY <1>7, <2>1
<1>9. \A i \in 1..n : iter[1..i] = Taken(iter[1..(i - 1)], ranked[i], cost, budget)
  BY <1>7, FirstOnes
<1>10. \A i \in 0..n : iter[1..i] \in Packings(Ids)
  <2> DEFINE K == {i \in Nat : i <= n => iter[1..i] \in Packings(Ids)}
  <2>1. 0 \in K
    BY <1>3, <1>8
  <2>2. \A i \in Nat : i \in K => i + 1 \in K
    <3> SUFFICES ASSUME NEW i \in Nat, i \in K, i + 1 <= n PROVE iter[1..(i + 1)] \in Packings(Ids)
      OBVIOUS
    <3>1. i + 1 \in 1..n /\ (i + 1) - 1 = i /\ ranked[i + 1] \in Ids
      BY <1>2
    <3>2. iter[1..(i + 1)] = Taken(iter[1..i], ranked[i + 1], cost, budget)
      BY <1>9, <3>1
    <3>3. PICK s \in Packings(Ids) : s = iter[1..i]
      OBVIOUS
    <3>4. Taken(s, ranked[i + 1], cost, budget) \in Packings(Ids)
      BY <3>1, TakenFacts
    <3> QED BY <3>2, <3>3, <3>4
  <2> HIDE DEF K
  <2>3. Nat \subseteq K
    BY <2>1, <2>2, Stepping
  <2> QED BY <2>3 DEF K
<1> DEFINE h == [i \in 0..n |-> iter[1..i]]
<1>11. h[0] = Empty /\ h[n] = iter[1..n] /\ \A i \in 1..n : h[i] = iter[1..i] /\ h[i - 1] = iter[1..(i - 1)]
  BY <1>8
<1>12. h \in [0..n -> Packings(Ids)]
  BY <1>10
<1> HIDE DEF h
<1>13. ASSUME NEW i \in 1..n PROVE Takes(h[i], h[i - 1], ranked[i], cost, budget)
  <2>1. h[i - 1] \in Packings(Ids) /\ ranked[i] \in Ids
    BY <1>2, <1>12
  <2>2. h[i] = Taken(h[i - 1], ranked[i], cost, budget)
    BY <1>9, <1>11
  <2> QED BY <2>1, <2>2, TakenFacts
<1>14. Packs(h, ranked, Ids, cost, budget)
  BY <1>2, <1>11, <1>12, <1>13 DEF Packs
<1> QED BY <1>1, <1>2, <1>11, <1>14

First(s, n) == [i \in 1..n |-> s[i]]
Costs(ranked, cost) == [i \in 1..Len(ranked) |-> cost[ranked[i]]]

LEMMA FirstFacts ==
  ASSUME NEW T, NEW s \in Seq(T), NEW n \in Nat, n <= Len(s)
  PROVE  First(s, n) \in Seq(T) /\ Len(First(s, n)) = n /\ \A i \in 1..n : First(s, n)[i] = s[i]
<1>1. \A i \in 1..n : s[i] \in T
  OBVIOUS
<1>2. PICK f : f = First(s, n)
  OBVIOUS
<1>3. f \in [1..n -> T] /\ \A i \in 1..n : f[i] = s[i]
  BY <1>1, <1>2 DEF First
<1>4. f \in Seq(T) /\ Len(f) = n
  BY <1>3
<1> QED BY <1>2, <1>3, <1>4

LEMMA SumOfFirst ==
  ASSUME NEW s \in Seq(Int), NEW h, IsRunning(s, h), NEW n \in Nat, n <= Len(s)
  PROVE  Sum(First(s, n)) = h[n]
<1>1. PICK t \in Seq(Int) : t = First(s, n) /\ Len(t) = n /\ \A i \in 1..n : t[i] = s[i]
  BY FirstFacts
<1>2. PICK r : IsRunning(t, r) /\ Sum(t) = r[n]
  BY <1>1, SumRuns
<1>3. /\ r[0] = 0 /\ \A k \in 1..n : r[k] = r[k - 1] + t[k]
  BY <1>1, <1>2 DEF IsRunning
<1>4. /\ h[0] = 0 /\ \A k \in 1..n : h[k] = h[k - 1] + s[k]
  <2>1. \A k \in 1..n : k \in 1..Len(s)
    OBVIOUS
  <2> QED BY <2>1 DEF IsRunning
<1> DEFINE K == {k \in Nat : k <= n => r[k] = h[k]}
<1>5. 0 \in K
  BY <1>3, <1>4
<1>6. ASSUME NEW k \in Nat, k \in K PROVE k + 1 \in K
  <2> SUFFICES ASSUME k + 1 <= n PROVE r[k + 1] = h[k + 1]
    OBVIOUS
  <2>1. PICK j \in 1..n : j = k + 1 /\ j - 1 = k
    OBVIOUS
  <2>2. r[k] = h[k]
    BY <1>6
  <2>3. r[j] = r[k] + t[j] /\ h[j] = h[k] + s[j] /\ t[j] = s[j]
    BY <1>1, <1>3, <1>4, <2>1
  <2> QED BY <2>1, <2>2, <2>3
<1>7. n \in K
  <2> HIDE DEF K
  <2> QED BY <1>5, <1>6, Stepping
<1> QED BY <1>1, <1>2, <1>7

\* The first n of k fit, and one more does not.
Fits(n, k, r, budget) == n \in 0..k /\ r[n] <= budget /\ (n < k => r[n + 1] > budget)

IsPacked(s, n, k, ranked, r) ==
  s.ids = First(ranked, n) /\ s.used = r[n] /\ (s.open <=> n = k)

LEMMA OneMore ==
  ASSUME NEW Ids, NEW ranked \in Seq(Ids), NEW k \in Nat, k + 1 <= Len(ranked)
  PROVE  Append(First(ranked, k), ranked[k + 1]) = First(ranked, k + 1)
<1>1. PICK t \in Seq(Ids) : t = First(ranked, k) /\ Len(t) = k /\ \A i \in 1..k : t[i] = ranked[i]
  <2>1. k <= Len(ranked)
    OBVIOUS
  <2> QED BY <2>1, FirstFacts
<1>2. PICK x \in Ids : x = ranked[k + 1]
  OBVIOUS
<1>3. /\ Append(t, x) \in Seq(Ids) /\ Len(Append(t, x)) = Len(t) + 1
      /\ Append(t, x)[Len(t) + 1] = x /\ \A i \in 1..Len(t) : Append(t, x)[i] = t[i]
  BY <1>1, AppendFacts
<1>4. PICK u \in Seq(Ids) : u = Append(t, x) /\ Len(u) = k + 1 /\ u[k + 1] = x /\ \A i \in 1..k : u[i] = t[i]
  BY <1>1, <1>3
<1>5. u = [i \in 1..(k + 1) |-> u[i]]
  <2>1. u = [i \in 1..Len(u) |-> u[i]]
    OBVIOUS
  <2> QED BY <1>4, <2>1
<1>6. ASSUME NEW i \in 1..(k + 1) PROVE u[i] = ranked[i]
  <2>1. i # k + 1 => i \in 1..k
    OBVIOUS
  <2> QED BY <1>1, <1>2, <1>4, <2>1
<1> QED BY <1>1, <1>2, <1>4, <1>5, <1>6 DEF First

\* r is what the first items of the ranking cost together.
Runs(r, ranked, cost) ==
  /\ r \in [0..Len(ranked) -> Nat] /\ r[0] = 0
  /\ \A k \in 1..Len(ranked) : r[k] = r[k - 1] + cost[ranked[k]] /\ r[k - 1] <= r[k]

LEMMA RunningCosts ==
  ASSUME NEW Ids, NEW ranked \in Seq(Ids), NEW cost \in [Ids -> Nat]
  PROVE  \E r : /\ Runs(r, ranked, cost)
               /\ \A n \in 0..Len(ranked) : Sum(First(Costs(ranked, cost), n)) = r[n]
<1>1. PICK n \in Nat : n = Len(ranked) /\ \A i \in 1..n : ranked[i] \in Ids /\ cost[ranked[i]] \in Nat
  OBVIOUS
<1>2. PICK s \in Seq(Nat) : s = Costs(ranked, cost) /\ Len(s) = n /\ \A i \in 1..n : s[i] = cost[ranked[i]]
  <2>1. Costs(ranked, cost) \in [1..n -> Nat]
    BY <1>1 DEF Costs
  <2>2. Costs(ranked, cost) \in Seq(Nat) /\ Len(Costs(ranked, cost)) = n
    BY <2>1
  <2> QED BY <1>1, <2>2 DEF Costs
<1>3. s \in Seq(Int)
  OBVIOUS
<1>4. PICK r : IsRunning(s, r)
  BY <1>3, SumRuns
<1>5. r \in [0..n -> Nat] /\ \A k \in 1..n : r[k - 1] <= r[k]
  BY <1>2, <1>4, RunningGrow
<1>6. r[0] = 0 /\ \A k \in 1..n : r[k] = r[k - 1] + cost[ranked[k]]
  BY <1>2, <1>4 DEF IsRunning
<1>7. \A j \in 0..n : Sum(First(s, j)) = r[j]
  BY <1>2, <1>3, <1>4, SumOfFirst
<1>8. Runs(r, ranked, cost)
  BY <1>1, <1>2, <1>5, <1>6 DEF Runs
<1> QED BY <1>1, <1>2, <1>7, <1>8

LEMMA PacksFirst ==
  ASSUME NEW Ids, NEW ranked \in Seq(Ids), NEW cost \in [Ids -> Nat], NEW budget \in Nat,
         NEW r, Runs(r, ranked, cost), NEW h, Packs(h, ranked, Ids, cost, budget)
  PROVE  \A k \in 0..Len(ranked) : \E n : Fits(n, k, r, budget) /\ IsPacked(h[k], n, k, ranked, r)
<1>1. PICK l \in Nat : l = Len(ranked)
  OBVIOUS
<1>2. /\ r \in [0..l -> Nat] /\ r[0] = 0
      /\ \A k \in 1..l : r[k] = r[k - 1] + cost[ranked[k]]
  BY <1>1 DEF Runs
<1>3. h[0] = Empty /\ \A k \in 1..l : Takes(h[k], h[k - 1], ranked[k], cost, budget)
  BY <1>1 DEF Packs
<1> DEFINE PackedAt(k) == \E n : Fits(n, k, r, budget) /\ IsPacked(h[k], n, k, ranked, r)
           K == {k \in Nat : k <= l => PackedAt(k)}
<1>4. 0 \in K
  <2>1. First(ranked, 0) = <<>>
    BY DEF First
  <2>2. Fits(0, 0, r, budget) /\ IsPacked(h[0], 0, 0, ranked, r)
    BY <1>2, <1>3, <2>1 DEF Fits, IsPacked, Empty
  <2> QED BY <2>2
<1>5. ASSUME NEW k \in Nat, k \in K PROVE k + 1 \in K
  <2> SUFFICES ASSUME k + 1 <= l PROVE PackedAt(k + 1)
    OBVIOUS
  <2>1. PICK n : Fits(n, k, r, budget) /\ IsPacked(h[k], n, k, ranked, r)
    BY <1>5
  <2>2. PICK s, t : s = h[k] /\ t = h[k + 1]
    OBVIOUS
  <2>3. k + 1 \in 1..l /\ (k + 1) - 1 = k
    OBVIOUS
  <2>4. Takes(t, s, ranked[k + 1], cost, budget)
    BY <1>3, <2>2, <2>3
  <2>5. n \in Nat /\ n <= k /\ r[n] <= budget /\ (n < k => r[n + 1] > budget)
    BY <2>1 DEF Fits
  <2>6. s.ids = First(ranked, n) /\ s.used = r[n] /\ (s.open <=> n = k)
    BY <2>1, <2>2 DEF IsPacked
  <2>7. PICK c \in Nat : c = cost[ranked[k + 1]] /\ r[k + 1] = r[k] + c
    BY <1>1, <1>2, <2>3
  <2>8. r[k] \in Nat /\ r[k + 1] \in Nat
    BY <1>2, <2>3
  <2>9. CASE n < k \/ r[k] + c > budget
    <3>1. ~s.open \/ s.used + cost[ranked[k + 1]] > budget
      BY <2>5, <2>6, <2>7, <2>9
    <3>2. t.ids = s.ids /\ t.used = s.used /\ ~t.open
      BY <2>4, <3>1 DEF Takes
    <3>3. Fits(n, k + 1, r, budget)
      <4>1. n \in 0..(k + 1) /\ r[n] <= budget
        BY <2>5
      <4>2. CASE n < k
        BY <2>5, <4>1, <4>2 DEF Fits
      <4>3. CASE n = k
        BY <2>7, <2>9, <4>1, <4>3 DEF Fits
      <4> QED BY <2>5, <4>2, <4>3
    <3>4. IsPacked(t, n, k + 1, ranked, r)
      BY <2>5, <2>6, <3>2 DEF IsPacked
    <3> QED BY <2>2, <3>3, <3>4
  <2>10. CASE ~(n < k \/ r[k] + c > budget)
    <3>1. n = k /\ s.open /\ s.used + cost[ranked[k + 1]] <= budget
      BY <2>5, <2>6, <2>7, <2>8, <2>10
    <3>2. t.ids = Append(s.ids, ranked[k + 1]) /\ t.used = s.used + cost[ranked[k + 1]] /\ t.open
      BY <2>4, <3>1 DEF Takes
    <3>3. t.ids = First(ranked, k + 1)
      BY <1>1, <2>6, <3>1, <3>2, OneMore
    <3>4. Fits(k + 1, k + 1, r, budget)
      BY <2>7, <2>8, <2>10 DEF Fits
    <3>5. IsPacked(t, k + 1, k + 1, ranked, r)
      BY <2>6, <2>7, <3>1, <3>2, <3>3 DEF IsPacked
    <3> QED BY <2>2, <3>4, <3>5
  <2> QED BY <2>9, <2>10
<1>6. Nat \subseteq K
  <2> HIDE DEF K
  <2> QED BY <1>4, <1>5, Stepping
<1> QED BY <1>1, <1>6

\* Starts are of one list; the longer has the shorter for its start.
LEMMA StartsOf ==
  ASSUME NEW Ids, NEW s \in Seq(Ids), NEW t \in Seq(Ids), Len(s) <= Len(t),
         \A i \in 1..Len(s) : s[i] = t[i]
  PROVE  IsPrefix(s, t)
<1>1. PICK n \in Nat : n = Len(s) /\ n <= Len(t)
  OBVIOUS
<1>2. SubSeq(s, 1, n) = [k \in 1..n |-> s[k]]
  BY <1>1, SMT DEF SubSeq
<1>3. SubSeq(t, 1, n) = [k \in 1..n |-> t[k]]
  BY <1>1, SMT DEF SubSeq
<1> QED BY <1>1, <1>2, <1>3 DEF IsPrefix

\* What packs to one budget is the start of what packs to a larger one.
LEMMA FitsMore ==
  ASSUME NEW Ids, NEW ranked \in Seq(Ids), NEW cost \in [Ids -> Nat], NEW budget \in Nat,
         NEW more \in Nat, budget <= more, NEW r, Runs(r, ranked, cost),
         NEW n, Fits(n, Len(ranked), r, budget), NEW k, Fits(k, Len(ranked), r, more)
  PROVE  n <= k
<1>1. PICK l \in Nat : l = Len(ranked)
  OBVIOUS
<1>2. r \in [0..l -> Nat] /\ \A i \in 1..l : r[i - 1] <= r[i]
  BY <1>1 DEF Runs
<1>3. n \in Nat /\ n <= l /\ r[n] <= budget
  BY <1>1 DEF Fits
<1>4. k \in Nat /\ k <= l /\ (k < l => r[k + 1] > more)
  BY <1>1 DEF Fits
<1> SUFFICES ASSUME k < n PROVE FALSE
  BY <1>3, <1>4
<1> DEFINE K == {i \in Nat : k + 1 + i <= l => r[k + 1] <= r[k + 1 + i]}
<1>5. 0 \in K
  BY <1>2, <1>4
<1>6. ASSUME NEW i \in Nat, i \in K PROVE i + 1 \in K
  <2> SUFFICES ASSUME k + 1 + (i + 1) <= l PROVE r[k + 1] <= r[k + 1 + (i + 1)]
    OBVIOUS
  <2>1. PICK j \in 1..l : j = k + 1 + (i + 1) /\ j - 1 = k + 1 + i
    BY <1>4
  <2>2. k + 1 \in 0..l /\ j - 1 \in 0..l /\ j \in 0..l
    BY <1>4, <2>1
  <2>3. r[k + 1] \in Nat /\ r[j - 1] \in Nat /\ r[j] \in Nat
    BY <1>2, <2>2
  <2>4. r[j - 1] <= r[j]
    BY <1>2, <2>1
  <2>5. r[k + 1] <= r[j - 1]
    BY <1>6, <2>1, <2>2
  <2>6. r[k + 1] <= r[j]
    BY <2>3, <2>4, <2>5
  <2> QED BY <2>1, <2>6
<1>7. PICK d \in Nat : n = k + 1 + d
  BY <1>3, <1>4
<1>8. d \in K
  <2> HIDE DEF K
  <2> QED BY <1>5, <1>6, Stepping
<1>9. r[k + 1] <= r[n]
  BY <1>3, <1>7, <1>8
<1>10. r[k + 1] > more /\ r[k + 1] \in Nat /\ r[n] \in Nat
  BY <1>2, <1>3, <1>4
<1> QED BY <1>3, <1>9, <1>10

\* The Java reference's packing, which skips what does not fit.
JavaPackings(Ids) == [ids : Seq(Ids), used : Nat]
JavaEmpty == [ids |-> <<>>, used |-> 0]
JavaTaken(s, id, cost, budget) ==
  IF s.used + cost[id] > budget THEN s
  ELSE [ids |-> Append(s.ids, id), used |-> s.used + cost[id]]

JavaTakes(t, s, id, cost, budget) ==
  /\ s.used + cost[id] > budget => t = s
  /\ s.used + cost[id] <= budget => t.ids = Append(s.ids, id) /\ t.used = s.used + cost[id]

LEMMA JavaTakenFacts ==
  ASSUME NEW Ids, NEW cost \in [Ids -> Nat], NEW budget \in Nat, NEW s \in JavaPackings(Ids), NEW id \in Ids
  PROVE  /\ JavaTaken(s, id, cost, budget) \in JavaPackings(Ids)
         /\ JavaTakes(JavaTaken(s, id, cost, budget), s, id, cost, budget)
<1>1. s.ids \in Seq(Ids) /\ s.used \in Nat
  BY DEF JavaPackings
<1>2. PICK c \in Nat : c = cost[id]
  OBVIOUS
<1>3. PICK u \in Nat : u = s.used
  BY <1>1
<1>4. Append(s.ids, id) \in Seq(Ids)
  BY <1>1
<1>5. PICK t : t = JavaTaken(s, id, cost, budget)
  OBVIOUS
<1>6. CASE u + c > budget
  <2>1. t = s
    BY <1>2, <1>3, <1>5, <1>6 DEF JavaTaken
  <2> QED BY <1>2, <1>3, <1>5, <1>6, <2>1 DEF JavaTakes
<1>7. CASE ~(u + c > budget)
  <2>1. t = [ids |-> Append(s.ids, id), used |-> u + c]
    BY <1>2, <1>3, <1>5, <1>7 DEF JavaTaken
  <2>2. t \in JavaPackings(Ids)
    BY <1>4, <2>1 DEF JavaPackings
  <2>3. t.ids = Append(s.ids, id) /\ t.used = s.used + cost[id] /\ ~(s.used + cost[id] > budget)
    BY <1>2, <1>3, <1>7, <2>1
  <2> QED BY <1>5, <2>2, <2>3 DEF JavaTakes
<1> QED BY <1>6, <1>7

JavaPacks(h, ranked, Ids, cost, budget) ==
  /\ h \in [0..Len(ranked) -> JavaPackings(Ids)] /\ h[0] = JavaEmpty
  /\ \A k \in 1..Len(ranked) : JavaTakes(h[k], h[k - 1], ranked[k], cost, budget)

LEMMA JavaPackRuns ==
  ASSUME NEW Ids, NEW ranked \in Seq(Ids), NEW cost \in [Ids -> Nat], NEW budget \in Nat
  PROVE  \E h : JavaPacks(h, ranked, Ids, cost, budget)
                /\ J!Pack(ranked, cost, budget) = h[Len(ranked)]
<1> DEFINE IsIter(f) == f = [S \in SUBSET DOMAIN ranked |->
                               IF S = {} THEN JavaEmpty
                               ELSE JavaTaken(f[S \ {J!Max(S)}], ranked[J!Max(S)], cost, budget)]
           iter == CHOOSE f : IsIter(f)
<1>1. J!Pack(ranked, cost, budget) = iter[DOMAIN ranked]
  <2>1. ~(budget < 0)
    OBVIOUS
  <2> QED BY <2>1, Zenon DEF J!Pack, J!FoldLeft, J!MapThenFoldSet, JavaTaken, JavaEmpty
<1>2. PICK n \in Nat : n = Len(ranked) /\ DOMAIN ranked = 1..n /\ \A i \in 1..n : ranked[i] \in Ids
  OBVIOUS
<1>3. JavaEmpty \in JavaPackings(Ids)
  BY DEF JavaEmpty, JavaPackings
<1>4. ASSUME NEW S PROVE J!Max(S) = Max(S)
  BY Zenon DEF J!Max, Max
<1>5. \E f : IsIter(f)
  <2> DEFINE g == [p \in JavaPackings(Ids) \X Ids |-> JavaTaken(p[1], p[2], cost, budget)]
  <2>1. /\ g \in [JavaPackings(Ids) \X Ids -> JavaPackings(Ids)]
        /\ \A s \in JavaPackings(Ids), id \in Ids : g[<<s, id>>] = JavaTaken(s, id, cost, budget)
    BY JavaTakenFacts
  <2> HIDE DEF g
  <2>2. CanFold(n, JavaPackings(Ids), JavaEmpty, Ids, g, ranked)
    BY <1>2, <1>3, <2>1 DEF CanFold
  <2>3. PICK f \in [SUBSET (1..n) -> JavaPackings(Ids)] : IsFold(n, JavaEmpty, g, ranked, f)
    BY <2>2, FoldExists DEF HasFold
  <2>4. ASSUME NEW S \in SUBSET (1..n), S # {}
        PROVE  g[<<f[S \ {Max(S)}], ranked[Max(S)]>>] =
                 JavaTaken(f[S \ {J!Max(S)}], ranked[J!Max(S)], cost, budget)
    <3>1. Max(S) \in 1..n
      BY <2>4, MaxFacts
    <3>2. f[S \ {Max(S)}] \in JavaPackings(Ids) /\ ranked[Max(S)] \in Ids
      BY <1>2, <3>1
    <3> QED BY <1>4, <2>1, <3>2
  <2>5. f = [S \in SUBSET (1..n) |-> IF S = {} THEN JavaEmpty
                                     ELSE JavaTaken(f[S \ {J!Max(S)}], ranked[J!Max(S)], cost, budget)]
    BY <2>3, <2>4 DEF IsFold
  <2> QED BY <1>2, <2>5
<1>6. IsIter(iter)
  <2> HIDE DEF IsIter
  <2> QED BY <1>5
<1> HIDE DEF iter
<1>7. ASSUME NEW S \in SUBSET (1..n)
      PROVE  iter[S] = IF S = {} THEN JavaEmpty ELSE JavaTaken(iter[S \ {Max(S)}], ranked[Max(S)], cost, budget)
  <2>1. iter[S] = IF S = {} THEN JavaEmpty ELSE JavaTaken(iter[S \ {J!Max(S)}], ranked[J!Max(S)], cost, budget)
    BY <1>2, <1>6
  <2> QED BY <1>4, <2>1
<1>8. iter[{}] = JavaEmpty /\ 1..0 = {}
  <2>1. {} \in SUBSET (1..n) /\ 1..0 = {}
    OBVIOUS
  <2> QED BY <1>7, <2>1
<1>9. \A i \in 1..n : iter[1..i] = JavaTaken(iter[1..(i - 1)], ranked[i], cost, budget)
  BY <1>7, FirstOnes
<1>10. \A i \in 0..n : iter[1..i] \in JavaPackings(Ids)
  <2> DEFINE K == {i \in Nat : i <= n => iter[1..i] \in JavaPackings(Ids)}
  <2>1. 0 \in K
    BY <1>3, <1>8
  <2>2. \A i \in Nat : i \in K => i + 1 \in K
    <3> SUFFICES ASSUME NEW i \in Nat, i \in K, i + 1 <= n PROVE iter[1..(i + 1)] \in JavaPackings(Ids)
      OBVIOUS
    <3>1. i + 1 \in 1..n /\ (i + 1) - 1 = i /\ ranked[i + 1] \in Ids
      BY <1>2
    <3>2. iter[1..(i + 1)] = JavaTaken(iter[1..i], ranked[i + 1], cost, budget)
      BY <1>9, <3>1
    <3>3. PICK s \in JavaPackings(Ids) : s = iter[1..i]
      OBVIOUS
    <3>4. JavaTaken(s, ranked[i + 1], cost, budget) \in JavaPackings(Ids)
      BY <3>1, JavaTakenFacts
    <3> QED BY <3>2, <3>3, <3>4
  <2> HIDE DEF K
  <2>3. Nat \subseteq K
    BY <2>1, <2>2, Stepping
  <2> QED BY <2>3 DEF K
<1> DEFINE h == [i \in 0..n |-> iter[1..i]]
<1>11. h[0] = JavaEmpty /\ h[n] = iter[1..n] /\ \A i \in 1..n : h[i] = iter[1..i] /\ h[i - 1] = iter[1..(i - 1)]
  BY <1>8
<1>12. h \in [0..n -> JavaPackings(Ids)]
  BY <1>10
<1> HIDE DEF h
<1>13. ASSUME NEW i \in 1..n PROVE JavaTakes(h[i], h[i - 1], ranked[i], cost, budget)
  <2>1. h[i - 1] \in JavaPackings(Ids) /\ ranked[i] \in Ids
    BY <1>2, <1>12
  <2>2. h[i] = JavaTaken(h[i - 1], ranked[i], cost, budget)
    BY <1>9, <1>11
  <2> QED BY <2>1, <2>2, JavaTakenFacts
<1>14. JavaPacks(h, ranked, Ids, cost, budget)
  BY <1>2, <1>11, <1>12, <1>13 DEF JavaPacks
<1> QED BY <1>1, <1>2, <1>11, <1>14

\* The Java reference's packing of the first k is that of the first n, while
\* they fit, and perhaps more.
JavaIsPacked(s, n, k, ranked, r, budget) ==
  /\ s.used <= budget /\ n <= Len(s.ids) /\ \A i \in 1..n : s.ids[i] = ranked[i]
  /\ n = k => s.ids = First(ranked, k) /\ s.used = r[k]

LEMMA JavaPacksFirst ==
  ASSUME NEW Ids, NEW ranked \in Seq(Ids), NEW cost \in [Ids -> Nat], NEW budget \in Nat,
         NEW r, Runs(r, ranked, cost), NEW h, JavaPacks(h, ranked, Ids, cost, budget)
  PROVE  \A k \in 0..Len(ranked) :
           \E n : Fits(n, k, r, budget) /\ JavaIsPacked(h[k], n, k, ranked, r, budget)
<1>1. PICK l \in Nat : l = Len(ranked)
  OBVIOUS
<1>2. /\ r \in [0..l -> Nat] /\ r[0] = 0
      /\ \A k \in 1..l : r[k] = r[k - 1] + cost[ranked[k]]
  BY <1>1 DEF Runs
<1>3. /\ h \in [0..l -> JavaPackings(Ids)] /\ h[0] = JavaEmpty
      /\ \A k \in 1..l : JavaTakes(h[k], h[k - 1], ranked[k], cost, budget)
  BY <1>1 DEF JavaPacks
<1> DEFINE PackedAt(k) == \E n : Fits(n, k, r, budget) /\ JavaIsPacked(h[k], n, k, ranked, r, budget)
           K == {k \in Nat : k <= l => PackedAt(k)}
<1>4. 0 \in K
  <2>1. First(ranked, 0) = <<>>
    BY DEF First
  <2>2. Fits(0, 0, r, budget) /\ JavaIsPacked(h[0], 0, 0, ranked, r, budget)
    BY <1>2, <1>3, <2>1 DEF Fits, JavaIsPacked, JavaEmpty
  <2> QED BY <2>2
<1>5. ASSUME NEW k \in Nat, k \in K PROVE k + 1 \in K
  <2> SUFFICES ASSUME k + 1 <= l PROVE PackedAt(k + 1)
    OBVIOUS
  <2>1. PICK n : Fits(n, k, r, budget) /\ JavaIsPacked(h[k], n, k, ranked, r, budget)
    BY <1>5
  <2>2. PICK s, t : s = h[k] /\ t = h[k + 1]
    OBVIOUS
  <2>3. k + 1 \in 1..l /\ (k + 1) - 1 = k /\ k \in 0..l
    OBVIOUS
  <2>4. JavaTakes(t, s, ranked[k + 1], cost, budget)
    BY <1>3, <2>2, <2>3
  <2>5. n \in Nat /\ n <= k /\ r[n] <= budget /\ (n < k => r[n + 1] > budget)
    BY <2>1 DEF Fits
  <2>6. /\ s.used <= budget /\ n <= Len(s.ids) /\ \A i \in 1..n : s.ids[i] = ranked[i]
        /\ n = k => s.ids = First(ranked, k) /\ s.used = r[k]
    BY <2>1, <2>2 DEF JavaIsPacked
  <2>7. PICK c \in Nat : c = cost[ranked[k + 1]] /\ r[k + 1] = r[k] + c
    BY <1>1, <1>2, <2>3
  <2>8. r[k] \in Nat /\ r[k + 1] \in Nat
    BY <1>2, <2>3
  <2>9. s.ids \in Seq(Ids) /\ s.used \in Nat /\ ranked[k + 1] \in Ids
    <3>1. s \in JavaPackings(Ids)
      BY <1>3, <2>2, <2>3
    <3> QED BY <1>1, <2>3, <3>1 DEF JavaPackings
  <2>10. PICK ids \in Seq(Ids), u \in Nat : ids = s.ids /\ u = s.used
    BY <2>9
  <2>11. n < k \/ r[k] + c > budget => Fits(n, k + 1, r, budget)
    <3>1. n \in 0..(k + 1) /\ r[n] <= budget
      BY <2>5
    <3>2. CASE n < k
      BY <2>5, <3>1, <3>2 DEF Fits
    <3>3. CASE n = k
      BY <2>7, <3>1, <3>3 DEF Fits
    <3> QED BY <2>5, <3>2, <3>3
  <2>12. CASE u + c > budget
    <3>1. t = s
      BY <2>4, <2>7, <2>10, <2>12 DEF JavaTakes
    <3>2. Fits(n, k + 1, r, budget)
      BY <2>5, <2>6, <2>10, <2>11, <2>12
    <3>3. JavaIsPacked(t, n, k + 1, ranked, r, budget)
      BY <2>5, <2>6, <3>1 DEF JavaIsPacked
    <3> QED BY <2>2, <3>2, <3>3
  <2>13. CASE u + c <= budget
    <3>1. t.ids = Append(ids, ranked[k + 1]) /\ t.used = u + c
      BY <2>4, <2>7, <2>10, <2>13 DEF JavaTakes
    <3>5. PICK x \in Ids : x = ranked[k + 1]
      BY <2>9
    <3>6. /\ Append(ids, x) \in Seq(Ids) /\ Len(Append(ids, x)) = Len(ids) + 1
          /\ \A i \in 1..Len(ids) : Append(ids, x)[i] = ids[i]
      BY AppendFacts
    <3>2. PICK a \in Seq(Ids) : /\ a = Append(ids, ranked[k + 1]) /\ Len(a) = Len(ids) + 1
                                /\ \A i \in 1..Len(ids) : a[i] = ids[i]
      BY <3>5, <3>6
    <3>3. CASE n < k
      <4>1. Fits(n, k + 1, r, budget)
        BY <2>11, <3>3
      <4>2. n <= Len(a) /\ \A i \in 1..n : a[i] = ranked[i]
        <5>1. n <= Len(ids) /\ Len(ids) \in Nat
          BY <2>6, <2>10
        <5>2. ASSUME NEW i \in 1..n PROVE a[i] = ranked[i]
          <6>1. i \in 1..Len(ids)
            BY <2>5, <5>1
          <6> QED BY <2>6, <2>10, <3>2, <6>1
        <5> QED BY <2>5, <3>2, <5>1, <5>2
      <4>3. JavaIsPacked(t, n, k + 1, ranked, r, budget)
        <5>1. t.ids = a /\ t.used <= budget /\ n # k + 1
          BY <2>5, <2>13, <3>1, <3>2, <3>3
        <5> QED BY <4>2, <5>1 DEF JavaIsPacked
      <4> QED BY <2>2, <4>1, <4>3
    <3>4. CASE n = k
      <4>1. ids = First(ranked, k) /\ u = r[k]
        BY <2>6, <2>10, <3>4
      <4>2. a = First(ranked, k + 1)
        BY <1>1, <3>2, <4>1, OneMore
      <4>3. Len(a) = k + 1 /\ \A i \in 1..(k + 1) : a[i] = ranked[i]
        <5>1. k + 1 \in Nat /\ k + 1 <= Len(ranked)
          BY <1>1
        <5> QED BY <4>2, <5>1, FirstFacts
      <4>4. Fits(k + 1, k + 1, r, budget)
        BY <2>7, <2>8, <2>13, <4>1 DEF Fits
      <4>5. JavaIsPacked(t, k + 1, k + 1, ranked, r, budget)
        <5>1. t.ids = a /\ t.used = r[k + 1] /\ t.used <= budget
          BY <2>7, <2>13, <3>1, <3>2, <4>1
        <5> QED BY <4>2, <4>3, <5>1 DEF JavaIsPacked
      <4> QED BY <2>2, <4>4, <4>5
    <3> QED BY <2>5, <3>3, <3>4
  <2> QED BY <2>12, <2>13
<1>6. Nat \subseteq K
  <2> HIDE DEF K
  <2> QED BY <1>4, <1>5, Stepping
<1> QED BY <1>1, <1>6

LEMMA FitsOnce ==
  ASSUME NEW Ids, NEW ranked \in Seq(Ids), NEW cost \in [Ids -> Nat], NEW budget \in Nat,
         NEW r, Runs(r, ranked, cost),
         NEW n, Fits(n, Len(ranked), r, budget), NEW k, Fits(k, Len(ranked), r, budget)
  PROVE  n = k
<1>1. n <= k /\ k <= n
  BY FitsMore
<1>2. n \in Nat /\ k \in Nat
  BY DEF Fits
<1> QED BY <1>1, <1>2

\* Whatever the ranking, the counts of tokens and the budget, pack_to_budget
\* returns the longest start of the ranking that fits, no less of it for a larger
\* budget, and the Java reference packs that and perhaps more, within the budget.
THEOREM PacksLongest ==
  ASSUME NEW Ids, NEW ranked \in Seq(Ids), NEW cost \in [Ids -> Nat], NEW budget \in Nat,
         NEW more \in Nat, budget <= more
  PROVE  LET spent(n) == Sum(First(Costs(ranked, cost), n))
             packed == Rk!PackToBudget(ranked, cost, budget)
             java == J!Pack(ranked, cost, budget)
         IN  /\ \E n \in 0..Len(ranked) :
                  /\ packed = First(ranked, n) /\ spent(n) <= budget
                  /\ n < Len(ranked) => spent(n + 1) > budget
             /\ IsPrefix(packed, Rk!PackToBudget(ranked, cost, more))
             /\ IsPrefix(packed, java.ids) /\ java.used <= budget
<1>1. PICK l \in Nat : l = Len(ranked)
  OBVIOUS
<1>2. PICK r : /\ Runs(r, ranked, cost)
               /\ \A n \in 0..l : Sum(First(Costs(ranked, cost), n)) = r[n]
  BY <1>1, RunningCosts
<1>3. ASSUME NEW b \in Nat
      PROVE  \E n \in 0..l : Fits(n, l, r, b) /\ Rk!PackToBudget(ranked, cost, b) = First(ranked, n)
  <2>1. PICK h : Packs(h, ranked, Ids, cost, b) /\ Rk!PackToBudget(ranked, cost, b) = h[l].ids
    BY <1>1, PackRuns
  <2>2. PICK n : Fits(n, l, r, b) /\ IsPacked(h[l], n, l, ranked, r)
    <3>1. l \in 0..Len(ranked)
      BY <1>1
    <3> QED BY <1>2, <2>1, <3>1, PacksFirst
  <2>3. n \in 0..l /\ h[l].ids = First(ranked, n)
    BY <2>2 DEF Fits, IsPacked
  <2> QED BY <2>1, <2>2, <2>3
<1>4. PICK n \in 0..l : Fits(n, l, r, budget) /\ Rk!PackToBudget(ranked, cost, budget) = First(ranked, n)
  BY <1>3
<1>5. PICK k \in 0..l : Fits(k, l, r, more) /\ Rk!PackToBudget(ranked, cost, more) = First(ranked, k)
  BY <1>3
<1>6. PICK p \in Seq(Ids) : p = First(ranked, n) /\ Len(p) = n /\ \A i \in 1..n : p[i] = ranked[i]
  BY <1>1, FirstFacts
<1>7. PICK q \in Seq(Ids) : q = First(ranked, k) /\ Len(q) = k /\ \A i \in 1..k : q[i] = ranked[i]
  BY <1>1, FirstFacts
<1>8. /\ r[n] <= budget /\ (n < l => r[n + 1] > budget)
      /\ Sum(First(Costs(ranked, cost), n)) = r[n]
      /\ n < l => Sum(First(Costs(ranked, cost), n + 1)) = r[n + 1]
  <2>1. n < l => n + 1 \in 0..l
    OBVIOUS
  <2> QED BY <1>2, <1>4, <2>1 DEF Fits
<1>9. IsPrefix(p, q)
  <2>1. n <= k
    BY <1>1, <1>2, <1>4, <1>5, FitsMore
  <2>2. ASSUME NEW i \in 1..n PROVE p[i] = q[i]
    <3>1. i \in 1..k
      BY <2>1
    <3> QED BY <1>6, <1>7, <3>1
  <2>3. Len(p) <= Len(q) /\ \A i \in 1..Len(p) : p[i] = q[i]
    BY <1>6, <1>7, <2>1, <2>2
  <2> QED BY <2>3, StartsOf
<1>10. PICK j : j = J!Pack(ranked, cost, budget)
  OBVIOUS
<1>11. IsPrefix(p, j.ids) /\ j.used <= budget
  <2>1. PICK h : JavaPacks(h, ranked, Ids, cost, budget) /\ j = h[l]
    <3>1. PICK h : /\ JavaPacks(h, ranked, Ids, cost, budget)
                   /\ J!Pack(ranked, cost, budget) = h[Len(ranked)]
      BY JavaPackRuns
    <3> QED BY <1>1, <1>10, <3>1
  <2>2. PICK d : Fits(d, l, r, budget) /\ JavaIsPacked(h[l], d, l, ranked, r, budget)
    <3>1. l \in 0..Len(ranked)
      BY <1>1
    <3> QED BY <1>2, <2>1, <3>1, JavaPacksFirst
  <2>3. d = n
    BY <1>1, <1>2, <1>4, <2>2, FitsOnce
  <2>4. j.used <= budget /\ n <= Len(j.ids) /\ \A i \in 1..n : j.ids[i] = ranked[i]
    BY <2>1, <2>2, <2>3 DEF JavaIsPacked
  <2>5. j.ids \in Seq(Ids)
    <3>1. l \in 0..Len(ranked)
      BY <1>1
    <3>2. h[l] \in JavaPackings(Ids)
      BY <2>1, <3>1 DEF JavaPacks
    <3> QED BY <2>1, <3>2 DEF JavaPackings
  <2>6. PICK t \in Seq(Ids) : t = j.ids
    BY <2>5
  <2>7. Len(p) <= Len(t) /\ \A i \in 1..Len(p) : p[i] = t[i]
    BY <1>6, <2>4, <2>6
  <2> QED BY <2>4, <2>6, <2>7, StartsOf
<1> QED BY <1>1, <1>4, <1>5, <1>6, <1>7, <1>8, <1>9, <1>10, <1>11

-----------------------------------------------------------------------------
(* Paths and slopes of every model.                                          *)

LEMMA PathsHoldFor ==
  ASSUME NEW m, IsModel(m), NEW n \in Nat, n > 0, NEW similar, NEW typed,
         similar = [i \in 1..n |-> SimilarityHop(m, i)], typed = [i \in 1..n |-> TypedHop(m.q)]
  PROVE  /\ ComposePath(typed).survival = PStructCurve(m, n)[n]
         /\ Raised \notin Range(similar) =>
              /\ ComposePath(similar).survival = PSimCurve(m, n)[n]
              /\ NoLikelier(ComposePath(similar), similar)
              /\ HalfTyped(ComposePath(Interleaved(similar, typed)))
<1>1. SurvivalOK(m.q) /\ m.q \in Fraction
  BY LinksOK
<1>2. \A i \in 1..n : typed[i] = [survival |-> m.q, type |-> "typed"]
  BY <1>1 DEF TypedHop, MakeHop
<1>3. DOMAIN typed = 1..n /\ DOMAIN similar = 1..n /\ Len(similar) = n
  OBVIOUS
<1>4. ComposePath(typed).survival = PStructCurve(m, n)[n]
  <2>1. PICK ps : ps = [i \in 1..n |-> m.q]
    OBVIOUS
  <2>2. [i \in DOMAIN typed |-> typed[i].survival] = ps
    BY <1>2, <1>3, <2>1
  <2>3. ComposePath(typed).survival = ComposeSurvival(ps)
    BY <2>2 DEF ComposePath
  <2>4. \A p \in Range(ps) : SurvivalOK(p)
    BY <1>1, <2>1 DEF Range
  <2>5. ComposeSurvival(ps) = FoldLeft(Times, One, ps)
    BY <2>4, Zenon DEF ComposeSurvival
  <2>6. PStructCurve(m, n)[n] = StructuredRecovery(n, m.q)
    BY DEF PStructCurve
  <2> QED BY <2>1, <2>3, <2>5, <2>6, TypedProduct
<1>5. ASSUME Raised \notin Range(similar)
      PROVE  /\ ComposePath(similar).survival = PSimCurve(m, n)[n]
             /\ NoLikelier(ComposePath(similar), similar)
             /\ HalfTyped(ComposePath(Interleaved(similar, typed)))
  <2>1. ASSUME NEW i \in 1..n
        PROVE  /\ similar[i] = [survival |-> Retrievability(m, i), type |-> "similarity"]
               /\ SurvivalOK(Retrievability(m, i)) /\ Retrievability(m, i) \in Fraction
    <3>1. similar[i] = SimilarityHop(m, i) /\ similar[i] # Raised
      BY <1>3, <1>5 DEF Range
    <3>2. SurvivalOK(Retrievability(m, i))
      BY <3>1 DEF SimilarityHop, MakeHop
    <3>3. Retrievability(m, i) \in Fraction
      BY ModelTerms, RetrievesIs, IsCompared
    <3> QED BY <3>1, <3>2, <3>3 DEF SimilarityHop, MakeHop
  <2>2. PICK ps \in [1..n -> Fraction] : ps = [i \in 1..n |-> Retrievability(m, i)]
    BY <2>1
  <2>3. [i \in DOMAIN similar |-> similar[i].survival] = ps
    BY <1>3, <2>1, <2>2
  <2>4. ComposePath(similar).survival = ComposeSurvival(ps)
    BY <2>3 DEF ComposePath
  <2>5. \A i \in 1..n : SurvivalOK(ps[i])
    BY <2>1, <2>2
  <2>6. \A p \in Range(ps) : SurvivalOK(p)
    BY <2>5 DEF Range
  <2>7. ComposeSurvival(ps) = FoldLeft(Times, One, ps)
    BY <2>6, Zenon DEF ComposeSurvival
  <2>8. PSimCurve(m, n)[n] = SimilarityRecovery(n, m)
    BY DEF PSimCurve
  <2>9. ComposePath(similar).survival = PSimCurve(m, n)[n]
    BY <2>2, <2>4, <2>7, <2>8, SimilarProduct
  <2>10. NoLikelier(ComposePath(similar), similar)
    <3>1. PICK h : IsProduct(h, ps, n) /\ FoldLeft(Times, One, ps) = h[n]
      BY ProductRuns
    <3>2. \A i \in 1..n : Leq(h[n], ps[i])
      BY <2>5, <3>1, ProductBelow
    <3>3. \A i \in 1..n : similar[i].survival = ps[i]
      BY <2>1, <2>2
    <3>4. ComposePath(similar).survival = h[n]
      BY <2>4, <2>7, <3>1
    <3> QED BY <1>3, <3>2, <3>3, <3>4 DEF NoLikelier, Range
  <2>11. HalfTyped(ComposePath(Interleaved(similar, typed)))
    <3>1. PICK w : w = Interleaved(similar, typed)
      OBVIOUS
    <3>2. w = [i \in 1..(2 * n) |-> IF i % 2 = 0 THEN typed[i \div 2] ELSE similar[(i + 1) \div 2]]
      BY <1>3, <3>1 DEF Interleaved
    <3>3. DOMAIN w = 1..(2 * n) /\ Len(w) = 2 * n
      BY <3>2
    <3>4. ASSUME NEW i \in 1..(2 * n) PROVE w[i].type = IF i % 2 = 0 THEN "typed" ELSE "similarity"
      <4>1. CASE i % 2 = 0
        <5>1. PICK k \in 1..n : k = i \div 2
          BY <4>1
        <5>2. w[i] = typed[k]
          BY <3>2, <4>1, <5>1
        <5>3. typed[k].type = "typed"
          BY <1>2
        <5> QED BY <4>1, <5>2, <5>3
      <4>2. CASE i % 2 # 0
        <5>1. PICK k \in 1..n : k = (i + 1) \div 2
          BY <4>2
        <5>2. w[i] = similar[k]
          BY <3>2, <4>2, <5>1
        <5>3. similar[k].type = "similarity"
          BY <2>1
        <5> QED BY <4>2, <5>2, <5>3
      <4> QED BY <4>1, <4>2
    <3>5. /\ {i \in DOMAIN w : w[i].type = "typed"} = {i \in 1..(2 * n) : i % 2 = 0}
          /\ {i \in DOMAIN w : w[i].type = "similarity"} = {i \in 1..(2 * n) : i % 2 # 0}
      BY <3>3, <3>4
    <3>6. ComposePath(w).typed = n /\ ComposePath(w).similarity = n /\ ComposePath(w).hops = 2 * n
      BY <3>3, <3>5, HalfOf DEF ComposePath
    <3> QED BY <3>1, <3>6 DEF HalfTyped
  <2> QED BY <2>9, <2>10, <2>11
<1> QED BY <1>4, <1>5

LEMMA SlopesHoldFor ==
  ASSUME NEW m, IsModel(m), NEW d \in Nat, d > 0
  PROVE  SlopesHold(SimilaritySensitivity(d, m), StructuredSensitivity(d, m), GapSensitivity(d, m), d)
<1>1. PICK a, b, c, e, u, v : Terms(m, a, b, c, e, u, v)
  BY ModelTerms
<1>2. PICK t \in Nat : t = Tri(d) /\ t > 0
  <2>1. Tri(d) \in Nat /\ 2 * Tri(d) = d * (d + 1)
    BY Triangles
  <2>2. d * (d + 1) > 0
    OBVIOUS
  <2> QED BY <2>1, <2>2
<1>3. PICK i \in Nat, j \in Nat : d = i + 1 /\ t = j + 1 /\ d - 1 = i /\ t - 1 = j
  <2>1. d - 1 \in Nat /\ t - 1 \in Nat /\ d = (d - 1) + 1 /\ t = (t - 1) + 1
    BY <1>2
  <2> QED BY <2>1
<1> DEFINE gs == Times(Whole(d), Times(Power(m.s0, d - 1), Power(m.rho, t)))
           gr == Times(Whole(t), Times(Power(m.s0, d), Power(m.rho, t - 1)))
           gq == Times(Whole(d), Power(m.q, d - 1))
<1>4. PICK value : value = Simil(m, d)
  OBVIOUS
<1>5. SimilaritySensitivity(d, m) = Sensitivity(m, value, gs, gr, Zero)
  <2>1. SimilarityRecovery(d, m) = value /\ t = (d * (d + 1)) \div 2
    BY <1>2, <1>4 DEF SimilarityRecovery, Simil, Tri
  <2> HIDE DEF gs, gr
  <2>2. ~(d < 1)
    OBVIOUS
  <2> QED BY <2>1, <2>2, Zenon DEF SimilaritySensitivity, BySimilarity, gs, gr
<1>6. StructuredSensitivity(d, m) = Sensitivity(m, Power(m.q, d), Zero, Zero, gq)
  <2>1. StructuredRecovery(d, m.q) = Power(m.q, d) /\ ~(d < 1)
    BY DEF StructuredRecovery, IsModel
  <2> QED BY <2>1, Zenon DEF StructuredSensitivity
<1>7. GapSensitivity(d, m) = Sensitivity(m, Gap(d, m), Minus(Zero, gs), Minus(Zero, gr), gq)
  <2> HIDE DEF gs, gr, gq
  <2>1. ~(d < 1) /\ SimilaritySensitivity(d, m).s0 = gs /\ SimilaritySensitivity(d, m).rho = gr
        /\ StructuredSensitivity(d, m).q = gq
    BY <1>5, <1>6 DEF Sensitivity
  <2> QED BY <2>1, Zenon DEF GapSensitivity, GapBetween
<1>8. PICK a1 \in Nat, b1 \in Nat : a1 = Pw(a, i) /\ b1 = Pw(b, i) /\ a1 > 0 /\ b1 > 0
  BY <1>1, PwPositive DEF Terms
<1>9. PICK c1 \in Nat, e1 \in Nat : c1 = Pw(c, j) /\ e1 = Pw(e, j) /\ c1 > 0 /\ e1 > 0
  BY <1>1, PwPositive DEF Terms
<1>10. PICK u1 \in Nat, v1 \in Nat : u1 = Pw(u, i) /\ v1 = Pw(v, i) /\ u1 > 0 /\ v1 > 0
  BY <1>1, PwPositive DEF Terms
<1>11. /\ a \in Nat /\ b \in Nat /\ c \in Nat /\ e \in Nat /\ u \in Nat /\ v \in Nat
       /\ a > 0 /\ b > 0 /\ c > 0 /\ e > 0 /\ u > 0 /\ v > 0
       /\ Worth(m.s0, a, b) /\ Worth(m.rho, c, e) /\ Worth(m.q, u, v)
  BY <1>1 DEF Terms
<1>12. /\ Pw(a, d) = a1 * a /\ Pw(b, d) = b1 * b /\ Pw(c, t) = c1 * c /\ Pw(e, t) = e1 * e
       /\ Pw(u, d) = u1 * u /\ Pw(v, d) = v1 * v
  BY <1>3, <1>8, <1>9, <1>10, <1>11, PwFacts
<1>13. /\ Is(Power(m.s0, i), a1, b1) /\ Is(Power(m.s0, d), a1 * a, b1 * b)
       /\ Is(Power(m.rho, j), c1, e1) /\ Is(Power(m.rho, t), c1 * c, e1 * e)
       /\ Is(Power(m.q, i), u1, v1) /\ Is(Power(m.q, d), u1 * u, v1 * v)
  BY <1>8, <1>9, <1>10, <1>11, <1>12, PowerIs
<1>14. Is(value, (a1 * a) * (c1 * c), (b1 * b) * (e1 * e))
  BY <1>1, <1>2, <1>4, <1>12, SimilIs
<1>15. Elasticity(m.s0, value, gs) = Whole(d)
  <2>1. PICK A1 \in Nat, B1 \in Nat : A1 = a1 * (c1 * c) /\ B1 = b1 * (e1 * e) /\ A1 > 0 /\ B1 > 0
    <3>1. c1 * c > 0 /\ e1 * e > 0 /\ c1 * c \in Nat /\ e1 * e \in Nat
      BY <1>9, <1>11
    <3>2. a1 * (c1 * c) > 0 /\ b1 * (e1 * e) > 0
      BY <1>8, <3>1
    <3> QED BY <3>1, <3>2
  <2>2. Is(gs, d * A1, 1 * B1)
    <3>1. Is(Times(Power(m.s0, d - 1), Power(m.rho, t)), A1, B1)
      BY <1>3, <1>13, <2>1, IsWorth, TimesWorth
    <3> QED BY <3>1, WholeIs, IsWorth, TimesWorth
  <2>3. Is(value, A1 * a, B1 * b) /\ 1 * B1 = B1
    <3>1. (a1 * a) * (c1 * c) = (a1 * (c1 * c)) * a
      BY <1>11
    <3>2. (b1 * b) * (e1 * e) = (b1 * (e1 * e)) * b
      BY <1>11
    <3>3. 1 * B1 = B1
      BY <2>1
    <3> QED BY <1>14, <2>1, <3>1, <3>2, <3>3
  <2>4. Is(gs, d * A1, B1)
    BY <2>2, <2>3
  <2> HIDE DEF gs
  <2>5. a \in Nat /\ b \in Nat /\ a > 0 /\ b > 0 /\ Worth(m.s0, a, b)
    BY <1>11
  <2>6. A1 \in Nat /\ B1 \in Nat /\ A1 > 0 /\ B1 > 0
    BY <2>1
  <2>7. Is(value, A1 * a, B1 * b)
    BY <2>3
  <2> QED BY <2>4, <2>5, <2>6, <2>7, Elastic
<1>16. Elasticity(m.rho, value, gr) = Whole(t)
  <2>1. PICK A1 \in Nat, B1 \in Nat : A1 = (a1 * a) * c1 /\ B1 = (b1 * b) * e1 /\ A1 > 0 /\ B1 > 0
    <3>1. a1 * a > 0 /\ b1 * b > 0 /\ a1 * a \in Nat /\ b1 * b \in Nat
      BY <1>8, <1>11
    <3>2. (a1 * a) * c1 > 0 /\ (b1 * b) * e1 > 0
      BY <1>9, <3>1
    <3> QED BY <3>1, <3>2
  <2>2. Is(gr, t * A1, 1 * B1)
    <3>1. Is(Times(Power(m.s0, d), Power(m.rho, t - 1)), A1, B1)
      BY <1>3, <1>13, <2>1, IsWorth, TimesWorth
    <3> QED BY <3>1, WholeIs, IsWorth, TimesWorth
  <2>3. Is(value, A1 * c, B1 * e) /\ 1 * B1 = B1
    <3>1. (a1 * a) * (c1 * c) = ((a1 * a) * c1) * c
      BY <1>11
    <3>2. (b1 * b) * (e1 * e) = ((b1 * b) * e1) * e
      BY <1>11
    <3>3. 1 * B1 = B1
      BY <2>1
    <3> QED BY <1>14, <2>1, <3>1, <3>2, <3>3
  <2>4. Is(gr, t * A1, B1)
    BY <2>2, <2>3
  <2> HIDE DEF gr
  <2>5. c \in Nat /\ e \in Nat /\ c > 0 /\ e > 0 /\ Worth(m.rho, c, e)
    BY <1>11
  <2>6. A1 \in Nat /\ B1 \in Nat /\ A1 > 0 /\ B1 > 0 /\ t \in Nat /\ t > 0
    BY <1>2, <2>1
  <2>7. Is(value, A1 * c, B1 * e)
    BY <2>3
  <2> QED BY <2>4, <2>5, <2>6, <2>7, Elastic
<1>17. Elasticity(m.q, Power(m.q, d), gq) = Whole(d)
  <2>1. Is(gq, d * u1, 1 * v1) /\ 1 * v1 = v1
    <3>1. Worth(Whole(d), d, 1)
      BY d \in Int, WholeIs, IsWorth
    <3>2. Is(Power(m.q, d - 1), u1, v1)
      BY <1>3, <1>13
    <3>3. Worth(Power(m.q, d - 1), u1, v1)
      BY <3>2, IsWorth
    <3>4. Is(gq, d * u1, 1 * v1)
      BY <3>1, <3>3, TimesWorth
    <3>5. 1 * v1 = v1
      BY <1>10
    <3> QED BY <3>4, <3>5
  <2> HIDE DEF gq
  <2>2. Is(gq, d * u1, v1)
    BY <2>1
  <2>3. u \in Nat /\ v \in Nat /\ u > 0 /\ v > 0 /\ Worth(m.q, u, v)
    BY <1>11
  <2>4. u1 \in Nat /\ v1 \in Nat /\ u1 > 0 /\ v1 > 0
    BY <1>10
  <2>5. Is(Power(m.q, d), u1 * u, v1 * v)
    BY <1>13
  <2> QED BY <2>2, <2>3, <2>4, <2>5, Elastic
<1>18. gs \in Fraction /\ gr \in Fraction
  <2>1. /\ Power(m.s0, d - 1) \in Fraction /\ Power(m.rho, t) \in Fraction
        /\ Power(m.s0, d) \in Fraction /\ Power(m.rho, t - 1) \in Fraction
        /\ Whole(d) \in Fraction /\ Whole(t) \in Fraction
    BY <1>3, <1>13, WholeIs, IsCompared
  <2> QED BY <2>1, FractionsClosed
<1>19. Plus(Minus(Zero, gs), gs) = Zero /\ Plus(Minus(Zero, gr), gr) = Zero
  <2> HIDE DEF gs, gr
  <2> QED BY <1>18, Cancels
<1>20. Gap(d, m) = Minus(Power(m.q, d), value)
  BY <1>4, GapOf
<1> HIDE DEF gs, gr, gq
<1>21. t = (d * (d + 1)) \div 2
  BY <1>2 DEF Tri
<1> QED BY <1>5, <1>6, <1>7, <1>15, <1>16, <1>17, <1>19, <1>20, <1>21 DEF SlopesHold, Sensitivity

LEMMA SlopeIs ==
  ASSUME NEW x, NEW u \in Int, NEW v \in Nat, v > 0, Worth(x, u, v), NEW w \in Nat, NEW z \in Nat, z > 0,
         NEW f, \A y, n, d : Worth(y, n, d) /\ y \in Near(x) => Is(f[y], (n * n) * w, (d * d) * z)
  PROVE  Is(Slope(f, x), (2 * u) * w, v * z)
<1>1. Is(Frac(1, 4), 1, 4)
  BY FracIs
<1>2. PICK h : h = Frac(1, 4)
  OBVIOUS
<1>3. PICK D \in Nat, P \in Int, R \in Int : D = v * 4 /\ P = u * 4 + 1 * v /\ R = u * 4 - 1 * v /\ D > 0
  <2>1. v * 4 \in Nat /\ u * 4 + 1 * v \in Int /\ u * 4 - 1 * v \in Int /\ v * 4 > 0
    OBVIOUS
  <2> QED BY <2>1
<1>4. PICK up, down : up = Plus(x, h) /\ down = Minus(x, h)
  OBVIOUS
<1>5. Worth(up, P, D) /\ Worth(down, R, D) /\ up \in Near(x) /\ down \in Near(x)
  <2>1. Is(up, u * 4 + 1 * v, v * 4)
    BY <1>1, <1>2, <1>4, IsWorth, PlusWorth
  <2>2. Is(down, u * 4 - 1 * v, v * 4)
    BY <1>1, <1>2, <1>4, IsWorth, MinusWorth
  <2> QED BY <1>2, <1>3, <1>4, <2>1, <2>2, IsWorth DEF Near
<1>6. Is(f[up], (P * P) * w, (D * D) * z) /\ Is(f[down], (R * R) * w, (D * D) * z)
  BY <1>5
<1>7. PICK E \in Nat, X \in Int, Y \in Int : E = (D * D) * z /\ X = (P * P) * w /\ Y = (R * R) * w
  <2>1. (D * D) * z \in Nat /\ (P * P) * w \in Int /\ (R * R) * w \in Int
    BY <1>3
  <2> QED BY <2>1
<1>8. Is(Minus(f[up], f[down]), X * E - Y * E, E * E)
  BY <1>6, <1>7, IsWorth, MinusWorth
<1>9. Is(Times(Whole(2), h), 2 * 1, 1 * 4)
  <2>1. Worth(Whole(2), 2, 1)
    BY 2 \in Int, WholeIs, IsWorth
  <2>2. Worth(h, 1, 4)
    BY <1>1, <1>2, IsWorth
  <2> QED BY <2>1, <2>2, TimesWorth
<1>10. Is(Over(Minus(f[up], f[down]), Times(Whole(2), h)), (X * E - Y * E) * 4, (E * E) * 2)
  <2>1. Worth(Times(Whole(2), h), 2, 4)
    BY <1>9, IsWorth
  <2> QED BY <1>8, <2>1, IsWorth, OverWorth
<1>11. ~Leq(h, Zero)
  <2>1. ~(1 * 1 <= 0 * 4)
    OBVIOUS
  <2> QED BY <1>1, <1>2, <2>1, IsWorth, OneOfOne, LeqWorth
<1>12. Slope(f, x) = Over(Minus(f[up], f[down]), Times(Whole(2), h))
  BY <1>2, <1>4, <1>11 DEF Slope, CentralDifference
<1>13. X - Y = (16 * (u * v)) * w /\ E = (16 * (v * v)) * z
  <2>1. P * P - R * R = 16 * (u * v)
    BY <1>3
  <2>2. (P * P) * w - (R * R) * w = (P * P - R * R) * w
    OBVIOUS
  <2>3. D * D = 16 * (v * v)
    BY <1>3
  <2> QED BY <1>7, <2>1, <2>2, <2>3
<1>14. ((X * E - Y * E) * 4) * (v * z) = ((2 * u) * w) * ((E * E) * 2)
  <2>1. PICK g \in Int : g = X - Y
    OBVIOUS
  <2>2. ((X * E - Y * E) * 4) * (v * z) = (g * E) * (4 * (v * z))
    BY <2>1
  <2>3. g * (4 * (v * z)) = ((2 * u) * w) * (E * 2)
    <3>1. ((16 * (u * v)) * w) * (4 * (v * z)) = ((2 * u) * w) * (((16 * (v * v)) * z) * 2)
      OBVIOUS
    <3> QED BY <1>13, <2>1, <3>1
  <2>4. (g * E) * (4 * (v * z)) = (g * (4 * (v * z))) * E
    OBVIOUS
  <2>5. (((2 * u) * w) * (E * 2)) * E = ((2 * u) * w) * ((E * E) * 2)
    OBVIOUS
  <2> QED BY <2>2, <2>3, <2>4, <2>5
<1>15. (2 * u) * w \in Int /\ v * z \in Nat /\ v * z > 0
  OBVIOUS
<1> QED BY <1>10, <1>12, <1>14, <1>15, IsAlso

LEMMA SlopesExact ==
  ASSUME NEW m, IsModel(m)
  PROVE  /\ Slope([q \in Near(m.q) |-> Power(q, 2)], m.q) = StructuredSensitivity(2, m).q
         /\ Slope([s0 \in Near(m.s0) |-> SimilarityRecovery(2, [m EXCEPT !.s0 = s0])], m.s0)
              = SimilaritySensitivity(2, m).s0
<1>1. PICK a, b, c, e, u, v : Terms(m, a, b, c, e, u, v)
  BY ModelTerms
<1>2. /\ a \in Nat /\ b \in Nat /\ c \in Nat /\ e \in Nat /\ u \in Nat /\ v \in Nat
      /\ a > 0 /\ b > 0 /\ c > 0 /\ e > 0 /\ u > 0 /\ v > 0
      /\ Worth(m.s0, a, b) /\ Worth(m.rho, c, e) /\ Worth(m.q, u, v)
  BY <1>1 DEF Terms
<1>3. m.s0 \in Fraction /\ m.q \in Fraction
  BY DEF IsModel
<1>4. Slope([q \in Near(m.q) |-> Power(q, 2)], m.q) = StructuredSensitivity(2, m).q
  <2>1. PICK f : f = [q \in Near(m.q) |-> Power(q, 2)]
    OBVIOUS
  <2>2. ASSUME NEW y, NEW n, NEW d, Worth(y, n, d), y \in Near(m.q)
        PROVE  Is(f[y], (n * n) * 1, (d * d) * 1)
    <3>1. Is(f[y], n * n, d * d)
      BY <2>1, <2>2, SquareIs
    <3>2. (n * n) * 1 = n * n /\ (d * d) * 1 = d * d
      BY <2>2 DEF Worth
    <3> QED BY <3>1, <3>2
  <2>3. Is(Slope(f, m.q), (2 * u) * 1, v * 1)
    BY <1>2, <2>2, SlopeIs
  <2>4. StructuredSensitivity(2, m).q = Times(Whole(2), Power(m.q, 1))
    <3>1. ~(2 < 1) /\ 2 - 1 = 1
      OBVIOUS
    <3> QED BY <3>1 DEF StructuredSensitivity, Sensitivity
  <2>5. Is(Times(Whole(2), Power(m.q, 1)), 2 * u, 1 * v)
    <3>1. Worth(Whole(2), 2, 1)
      BY 2 \in Int, WholeIs, IsWorth
    <3>2. Worth(Power(m.q, 1), u, v)
      BY <1>2, <1>3, PowerOfOne, IsWorth
    <3> QED BY <3>1, <3>2, TimesWorth
  <2>6. ((2 * u) * 1) * (1 * v) = (2 * u) * (v * 1)
    BY <1>2
  <2> QED BY <2>1, <2>3, <2>4, <2>5, <2>6, SameFraction
<1>5. PICK w \in Nat, z \in Nat : w = Pw(c, 3) /\ z = Pw(e, 3) /\ z > 0 /\ Is(Power(m.rho, 3), w, z)
  <2>1. 3 \in Nat
    OBVIOUS
  <2>2. Pw(c, 3) \in Nat /\ Pw(e, 3) \in Nat /\ Pw(e, 3) > 0
    BY <1>2, <2>1, PwPositive
  <2>3. Is(Power(m.rho, 3), Pw(c, 3), Pw(e, 3))
    BY <1>2, <2>1, PowerIs
  <2> QED BY <2>2, <2>3
<1>6. Slope([s0 \in Near(m.s0) |-> SimilarityRecovery(2, [m EXCEPT !.s0 = s0])], m.s0)
        = SimilaritySensitivity(2, m).s0
  <2>1. PICK f : f = [s0 \in Near(m.s0) |-> SimilarityRecovery(2, [m EXCEPT !.s0 = s0])]
    OBVIOUS
  <2>0. (2 * (2 + 1)) \div 2 = 3 /\ ~(2 < 1) /\ 2 - 1 = 1
    OBVIOUS
  <2>2. ASSUME NEW y, NEW n, NEW d, Worth(y, n, d), y \in Near(m.s0)
        PROVE  Is(f[y], (n * n) * w, (d * d) * z)
    <3>1. PICK k : k = [m EXCEPT !.s0 = y]
      OBVIOUS
    <3>2. k.s0 = y /\ k.rho = m.rho
      BY <3>1 DEF IsModel
    <3>3. f[y] = SimilarityRecovery(2, k)
      BY <2>1, <2>2, <3>1
    <3>4. SimilarityRecovery(2, k) = Times(Power(y, 2), Power(m.rho, 3))
      BY <2>0, <3>2 DEF SimilarityRecovery
    <3>5. Is(Power(y, 2), n * n, d * d)
      BY <2>2, SquareIs
    <3> QED BY <1>5, <3>3, <3>4, <3>5, IsWorth, TimesWorth
  <2>3. Is(Slope(f, m.s0), (2 * a) * w, b * z)
    BY <1>2, <1>5, <2>2, SlopeIs
  <2>4. SimilaritySensitivity(2, m).s0 = Times(Whole(2), Times(Power(m.s0, 1), Power(m.rho, 3)))
    BY <2>0 DEF SimilaritySensitivity, BySimilarity, Sensitivity
  <2>5. Is(Times(Power(m.s0, 1), Power(m.rho, 3)), a * w, b * z)
    BY <1>2, <1>3, <1>5, PowerOfOne, IsWorth, TimesWorth
  <2>6. Is(Times(Whole(2), Times(Power(m.s0, 1), Power(m.rho, 3))), 2 * (a * w), 1 * (b * z))
    <3>1. Worth(Whole(2), 2, 1)
      BY 2 \in Int, WholeIs, IsWorth
    <3>2. Worth(Times(Power(m.s0, 1), Power(m.rho, 3)), a * w, b * z)
      BY <2>5, IsWorth
    <3> QED BY <3>1, <3>2, TimesWorth
  <2>7. ((2 * a) * w) * (1 * (b * z)) = (2 * (a * w)) * (b * z)
    BY <1>2
  <2> QED BY <2>1, <2>3, <2>4, <2>6, <2>7, SameFraction
<1> QED BY <1>4, <1>6

-----------------------------------------------------------------------------
(* The port in Java computes with the same fractions.                        *)

LEMMA JPlus == ASSUME NEW p, NEW q PROVE J!Plus(p, q) = Plus(p, q)
BY Zenon DEF J!Plus, Plus, J!Added, Added, J!Frac, Frac, J!Reduced, Reduced, J!GCD, GCD

LEMMA JMinus == ASSUME NEW p, NEW q PROVE J!Minus(p, q) = Minus(p, q)
BY JPlus, Zenon DEF J!Minus, J!Negated, Minus, Negated

LEMMA JTimes == ASSUME NEW p, NEW q PROVE J!Times(p, q) = Times(p, q)
BY Zenon DEF J!Times, J!Frac, J!Reduced, J!GCD, Times, Frac, Reduced, GCD

LEMMA JPower == ASSUME NEW p, NEW n PROVE J!Power(p, n) = Power(p, n)
BY JTimes, Zenon
   DEF J!Power, J!FoldLeft, J!MapThenFoldSet, J!One, J!Whole, J!Max, Power, FoldLeft, MapThenFoldSet, One, Whole, Max

LEMMA JMost == ASSUME NEW S PROVE J!Max(S) = Max(S) /\ J!Min(S) = Min(S)
BY Zenon DEF J!Max, Max, J!Min, Min

LEMMA JOrder == ASSUME NEW p, NEW q PROVE (J!Less(p, q) <=> Less(p, q)) /\ (J!Leq(p, q) <=> Leq(p, q))
BY Zenon DEF J!Less, J!Leq, Less, Leq

LEMMA JFrac == ASSUME NEW p, NEW q PROVE J!Frac(p, q) = Frac(p, q) /\ J!One = One /\ J!Zero = Zero
BY Zenon DEF J!Frac, J!Reduced, J!GCD, Frac, Reduced, GCD, J!One, J!Zero, J!Whole, One, Zero, Whole

LEMMA JSquare == ASSUME NEW p PROVE J!Square(p) = Square(p)
BY JTimes, Zenon DEF J!Square, Square

-----------------------------------------------------------------------------
(* The scan, depth by depth.                                                 *)

Marks(n) == [peak : 1..n, first : 0..n, last : 0..n]
Unscanned == [peak |-> 1, first |-> 0, last |-> 0]

IsScan(h, g, tau, n) ==
  /\ h \in [0..n -> Marks(n)] /\ h[0] = Unscanned
  /\ \A k \in 1..n : h[k] = J!Scan(g, tau, h[k - 1], k)

LEMMA ScanMarks ==
  ASSUME NEW n \in Nat, NEW g, NEW tau, NEW s \in Marks(n), NEW d \in 1..n
  PROVE  J!Scan(g, tau, s, d) \in Marks(n)
BY DEF J!Scan, Marks

LEMMA ScanRuns ==
  ASSUME NEW n \in Nat, n > 0, NEW tau, NEW g, DOMAIN g = 1..n
  PROVE  \E h : IsScan(h, g, tau, n) /\ J!CrossoverIn(g, tau) = J!Crossing(g, tau, h[n])
<1> DEFINE ds == [d \in DOMAIN g |-> d]
           IsIter(f) == f = [S \in SUBSET DOMAIN ds |->
                               IF S = {} THEN Unscanned
                               ELSE J!Scan(g, tau, f[S \ {Max(S)}], ds[Max(S)])]
           iter == CHOOSE f : IsIter(f)
<1>1. J!CrossoverIn(g, tau) = J!Crossing(g, tau, iter[DOMAIN ds])
  BY Zenon DEF J!CrossoverIn, J!FoldLeft, J!MapThenFoldSet, J!Max, Max, Unscanned
<1>2. DOMAIN ds = 1..n
  OBVIOUS
<1>3. \E f : IsIter(f)
  <2> DEFINE scan == [z \in Marks(n) \X (1..n) |-> J!Scan(g, tau, z[1], z[2])]
  <2>1. /\ scan \in [Marks(n) \X (1..n) -> Marks(n)]
        /\ \A z \in Marks(n), i \in 1..n : scan[<<z, i>>] = J!Scan(g, tau, z, i)
    BY ScanMarks
  <2> HIDE DEF scan
  <2>2. Unscanned \in Marks(n) /\ \A i \in 1..n : ds[i] \in 1..n
    BY DEF Unscanned, Marks
  <2> HIDE DEF ds
  <2>3. CanFold(n, Marks(n), Unscanned, 1..n, scan, ds)
    BY <2>1, <2>2 DEF CanFold
  <2>4. PICK f \in [SUBSET (1..n) -> Marks(n)] : IsFold(n, Unscanned, scan, ds, f)
    BY <2>3, FoldExists DEF HasFold
  <2>5. ASSUME NEW S \in SUBSET (1..n), S # {}
        PROVE  scan[<<f[S \ {Max(S)}], ds[Max(S)]>>] = J!Scan(g, tau, f[S \ {Max(S)}], ds[Max(S)])
    <3>1. Max(S) \in 1..n
      BY <2>5, MaxFacts
    <3>2. f[S \ {Max(S)}] \in Marks(n) /\ ds[Max(S)] \in 1..n
      BY <2>2, <3>1
    <3> QED BY <2>1, <3>2
  <2>6. f = [S \in SUBSET (1..n) |-> IF S = {} THEN Unscanned
                                     ELSE J!Scan(g, tau, f[S \ {Max(S)}], ds[Max(S)])]
    BY <2>4, <2>5 DEF IsFold
  <2> QED BY <1>2, <2>6
<1>4. IsIter(iter)
  <2> HIDE DEF IsIter
  <2> QED BY <1>3
<1> HIDE DEF iter
<1>5. \A S \in SUBSET (1..n) : iter[S] = IF S = {} THEN Unscanned
                                         ELSE J!Scan(g, tau, iter[S \ {Max(S)}], ds[Max(S)])
  BY <1>2, <1>4
<1>6. iter[{}] = Unscanned /\ 1..0 = {}
  <2>1. {} \in SUBSET (1..n) /\ 1..0 = {}
    OBVIOUS
  <2> QED BY <1>5, <2>1
<1>7. \A k \in 1..n : iter[1..k] = J!Scan(g, tau, iter[1..(k - 1)], k)
  <2> SUFFICES ASSUME NEW k \in 1..n PROVE iter[1..k] = J!Scan(g, tau, iter[1..(k - 1)], k)
    OBVIOUS
  <2>1. /\ 1..k \in SUBSET (1..n) /\ 1..k # {} /\ Max(1..k) = k
        /\ (1..k) \ {Max(1..k)} = 1..(k - 1)
    BY FirstOnes
  <2>2. ds[k] = k
    OBVIOUS
  <2> HIDE DEF ds
  <2>3. iter[1..k] = J!Scan(g, tau, iter[(1..k) \ {Max(1..k)}], ds[Max(1..k)])
    BY <1>5, <2>1
  <2> QED BY <2>1, <2>2, <2>3
<1> HIDE DEF ds
<1> DEFINE h == [k \in 0..n |-> iter[1..k]]
<1>8. \A k \in 0..n : iter[1..k] \in Marks(n)
  <2> DEFINE K == {k \in Nat : k <= n => iter[1..k] \in Marks(n)}
  <2>1. 0 \in K
    BY <1>6 DEF Unscanned, Marks
  <2>2. \A k \in Nat : k \in K => k + 1 \in K
    <3> SUFFICES ASSUME NEW k \in Nat, k \in K, k + 1 <= n PROVE iter[1..(k + 1)] \in Marks(n)
      OBVIOUS
    <3>1. k + 1 \in 1..n /\ (k + 1) - 1 = k /\ iter[1..k] \in Marks(n)
      OBVIOUS
    <3>2. iter[1..(k + 1)] = J!Scan(g, tau, iter[1..k], k + 1)
      BY <1>7, <3>1
    <3> QED BY <3>1, <3>2, ScanMarks
  <2>3. Nat \subseteq K
    <3> HIDE DEF K
    <3> QED BY <2>1, <2>2, Stepping
  <2> QED BY <2>3
<1>9. h[0] = Unscanned /\ h[n] = iter[1..n] /\ \A k \in 1..n : h[k] = iter[1..k] /\ h[k - 1] = iter[1..(k - 1)]
  BY <1>6
<1>10. h \in [0..n -> Marks(n)]
  BY <1>8
<1> HIDE DEF h
<1>11. IsScan(h, g, tau, n)
  BY <1>7, <1>9, <1>10 DEF IsScan
<1> QED BY <1>1, <1>2, <1>9, <1>11

\* The peak of the first k depths, the first one above tau and the end of its run.
IsPeak(p, g, k) ==
  /\ p \in 1..k
  /\ \A e \in 1..k : Leq(g[e], g[p])
  /\ \A e \in 1..(p - 1) : Less(g[e], g[p])
AboveIn(g, tau, k) == {d \in 1..k : Less(tau, g[d])}
Marked(s, g, tau, k) ==
  LET above == AboveIn(g, tau, k) IN
  /\ IF k = 0 THEN s.peak = 1 ELSE IsPeak(s.peak, g, k)
  /\ s.first = 0 => above = {} /\ s.last = 0
  /\ s.first # 0 =>
       /\ s.first \in above /\ \A d \in above : s.first <= d
       /\ s.last \in above /\ s.first..s.last \subseteq above /\ s.first <= s.last
       /\ \A d \in above : s.first..d \subseteq above => d <= s.last

LEMMA PeakMoves ==
  ASSUME NEW n \in Nat, NEW g \in [1..n -> Fraction], NEW k \in Nat, k + 1 \in 1..n, NEW p \in 1..n,
         IF k = 0 THEN p = 1 ELSE IsPeak(p, g, k),
         NEW q, q = IF Less(g[p], g[k + 1]) THEN k + 1 ELSE p
  PROVE  IsPeak(q, g, k + 1)
<1>1. ASSUME NEW e \in 1..n PROVE Leq(g[e], g[e]) /\ ~Less(g[e], g[e])
  BY <1>1, LessLeq, LeqTotal
<1>2. CASE k = 0
  <2>1. p = 1 /\ k + 1 = 1 /\ 1 \in 1..n
    BY <1>2
  <2>2. q = 1
    BY <1>1, <2>1
  <2>3. 1..(1 - 1) = {} /\ \A e \in 1..1 : e = 1
    OBVIOUS
  <2> QED BY <1>1, <2>1, <2>2, <2>3 DEF IsPeak
<1>3. CASE k # 0
  <2>1. p \in 1..k /\ (\A e \in 1..k : Leq(g[e], g[p])) /\ (\A e \in 1..(p - 1) : Less(g[e], g[p]))
    BY <1>3 DEF IsPeak
  <2>2. \A e \in 1..(k + 1) : e \in 1..k \/ e = k + 1
    OBVIOUS
  <2>3. \A e \in 1..(k + 1) : g[e] \in Fraction
    OBVIOUS
  <2>4. CASE Less(g[p], g[k + 1])
    <3>1. q = k + 1 /\ (k + 1) - 1 = k
      BY <2>4
    <3>2. \A e \in 1..k : Less(g[e], g[k + 1])
      <4> SUFFICES ASSUME NEW e \in 1..k, Leq(g[k + 1], g[e]) PROVE FALSE
        BY <2>3, LessLeq
      <4>1. Leq(g[e], g[p]) /\ g[e] \in Fraction /\ g[p] \in Fraction /\ g[k + 1] \in Fraction
        BY <2>1, <2>3
      <4>2. Leq(g[k + 1], g[p])
        BY <4>1, LeqTransitive
      <4> QED BY <2>4, <4>1, <4>2, LessLeq
    <3>3. \A e \in 1..(k + 1) : Leq(g[e], g[k + 1])
      <4> SUFFICES ASSUME NEW e \in 1..(k + 1) PROVE Leq(g[e], g[k + 1])
        OBVIOUS
      <4>1. CASE e = k + 1
        BY <1>1, <4>1
      <4>2. CASE e \in 1..k
        BY <2>3, <3>2, <4>2, LessLeq, LeqTotal
      <4> QED BY <2>2, <4>1, <4>2
    <3> QED BY <3>1, <3>2, <3>3 DEF IsPeak
  <2>5. CASE ~Less(g[p], g[k + 1])
    <3>1. q = p
      BY <2>5
    <3>2. Leq(g[k + 1], g[p])
      BY <2>1, <2>3, <2>5, LessLeq
    <3>3. \A e \in 1..(k + 1) : Leq(g[e], g[p])
      BY <2>1, <2>2, <3>2
    <3> QED BY <2>1, <3>1, <3>3 DEF IsPeak
  <2> QED BY <2>4, <2>5
<1> QED BY <1>2, <1>3

LEMMA MarksMove ==
  ASSUME NEW n \in Nat, NEW g \in [1..n -> Fraction], NEW tau, NEW k \in Nat, k + 1 \in 1..n,
         NEW s \in Marks(n), Marked(s, g, tau, k)
  PROVE  Marked(J!Scan(g, tau, s, k + 1), g, tau, k + 1)
<1>1. PICK t : t = J!Scan(g, tau, s, k + 1)
  OBVIOUS
<1>2. /\ t.peak = IF Less(g[s.peak], g[k + 1]) THEN k + 1 ELSE s.peak
      /\ t.first = IF s.first = 0 /\ Less(tau, g[k + 1]) THEN k + 1 ELSE s.first
      /\ t.last = IF Less(tau, g[k + 1]) /\ (s.first = 0 \/ s.last = k) THEN k + 1 ELSE s.last
  <2>1. (k + 1) - 1 = k
    OBVIOUS
  <2> QED BY <1>1, <2>1, JOrder DEF J!Scan
<1>3. s.peak \in 1..n /\ s.first \in 0..n /\ s.last \in 0..n
  BY DEF Marks
<1>4. IsPeak(t.peak, g, k + 1)
  <2>1. IF k = 0 THEN s.peak = 1 ELSE IsPeak(s.peak, g, k)
    BY DEF Marked
  <2> QED BY <1>2, <1>3, <2>1, PeakMoves
<1>5. PICK above, after : above = AboveIn(g, tau, k) /\ after = AboveIn(g, tau, k + 1)
  OBVIOUS
<1>6. above \subseteq 1..k /\ after = IF Less(tau, g[k + 1]) THEN above \cup {k + 1} ELSE above
  BY <1>5 DEF AboveIn
<1>7. /\ s.first = 0 => above = {} /\ s.last = 0
      /\ s.first # 0 =>
           /\ s.first \in above /\ \A d \in above : s.first <= d
           /\ s.last \in above /\ s.first..s.last \subseteq above /\ s.first <= s.last
           /\ \A d \in above : s.first..d \subseteq above => d <= s.last
  BY <1>5 DEF Marked
<1>8. t.first = 0 => after = {} /\ t.last = 0
  BY <1>2, <1>6, <1>7
<1>9. ASSUME t.first # 0
      PROVE  /\ t.first \in after /\ \A d \in after : t.first <= d
             /\ t.last \in after /\ t.first..t.last \subseteq after /\ t.first <= t.last
             /\ \A d \in after : t.first..d \subseteq after => d <= t.last
  <2>1. CASE s.first = 0
    <3>1. Less(tau, g[k + 1]) /\ t.first = k + 1 /\ t.last = k + 1 /\ above = {} /\ after = {k + 1}
      BY <1>2, <1>6, <1>7, <1>9, <2>1
    <3>2. (k + 1)..(k + 1) = {k + 1}
      OBVIOUS
    <3> QED BY <3>1, <3>2
  <2>2. CASE s.first # 0 /\ ~Less(tau, g[k + 1])
    BY <1>2, <1>6, <1>7, <2>2
  <2>3. CASE s.first # 0 /\ Less(tau, g[k + 1])
    <3>1. t.first = s.first /\ after = above \cup {k + 1}
      BY <1>2, <1>6, <2>3
    <3>2. t.first \in after /\ t.first <= k /\ t.first \in Nat /\ \A d \in after : t.first <= d
      <4>1. s.first \in above /\ s.first \in 1..k /\ \A d \in above : s.first <= d
        BY <1>6, <1>7, <2>3
      <4>2. s.first <= k /\ s.first <= k + 1 /\ s.first \in Nat
        BY <4>1
      <4> QED BY <3>1, <4>1, <4>2
    <3>3. CASE s.last = k
      <4>1. t.last = k + 1
        BY <1>2, <2>3, <3>3
      <4>2. s.first..k \subseteq above
        BY <1>7, <2>3, <3>3
      <4>3. t.first..t.last \subseteq after
        BY <3>1, <3>2, <4>1, <4>2
      <4>4. \A d \in after : d <= k + 1
        BY <1>6, <3>1
      <4> QED BY <3>1, <3>2, <4>1, <4>3, <4>4
    <3>4. CASE s.last # k
      <4>1. t.last = s.last /\ s.last \in above /\ s.last <= k /\ s.last \in Nat
        <5>1. s.last \in above /\ s.last \in 1..k
          BY <1>6, <1>7, <2>3
        <5> QED BY <1>2, <2>3, <3>4, <5>1
      <4>2. t.last \in after /\ t.first..t.last \subseteq after /\ t.first <= t.last
        BY <1>7, <2>3, <3>1, <4>1
      <4>3. ASSUME NEW d \in after, t.first..d \subseteq after PROVE d <= t.last
        <5>1. CASE d \in above
          <6>1. t.first..d \subseteq above
            <7>1. d <= k /\ d \in Nat
              <8>1. d \in 1..k
                BY <1>6, <5>1
              <8> QED BY <8>1
            <7>2. \A e \in t.first..d : e # k + 1
              BY <3>2, <7>1
            <7> QED BY <3>1, <4>3, <7>2
          <6> QED BY <1>7, <2>3, <3>1, <4>1, <5>1, <6>1
        <5>2. CASE d = k + 1
          <6>1. t.first..k \subseteq above
            <7>1. \A e \in t.first..k : e \in t.first..d /\ e # k + 1
              BY <3>2, <5>2
            <7> QED BY <3>1, <4>3, <7>1
          <6>2. k \in above
            BY <3>2, <6>1
          <6>3. k <= s.last
            BY <1>7, <2>3, <3>1, <6>1, <6>2
          <6> QED BY <3>4, <4>1, <6>3
        <5> QED BY <3>1, <5>1, <5>2
      <4> QED BY <3>2, <4>2, <4>3
    <3> QED BY <3>3, <3>4
  <2> QED BY <2>1, <2>2, <2>3
<1>10. Marked(t, g, tau, k + 1)
  <2>1. k + 1 # 0
    OBVIOUS
  <2> QED BY <1>4, <1>5, <1>8, <1>9, <2>1 DEF Marked
<1> QED BY <1>1, <1>10

LEMMA ScanMarked ==
  ASSUME NEW n \in Nat, NEW g \in [1..n -> Fraction], NEW tau, NEW h, IsScan(h, g, tau, n)
  PROVE  h[n] \in Marks(n) /\ Marked(h[n], g, tau, n)
<1>1. /\ h \in [0..n -> Marks(n)] /\ h[0] = Unscanned
      /\ \A k \in 1..n : h[k] = J!Scan(g, tau, h[k - 1], k)
  BY DEF IsScan
<1> DEFINE K == {k \in Nat : k <= n => Marked(h[k], g, tau, k)}
<1>2. 0 \in K
  <2>1. AboveIn(g, tau, 0) = {}
    BY DEF AboveIn
  <2> QED BY <1>1, <2>1 DEF Marked, Unscanned
<1>3. ASSUME NEW k \in Nat, k \in K PROVE k + 1 \in K
  <2> SUFFICES ASSUME k + 1 <= n PROVE Marked(h[k + 1], g, tau, k + 1)
    OBVIOUS
  <2>1. k + 1 \in 1..n /\ (k + 1) - 1 = k /\ k \in 0..n
    OBVIOUS
  <2>2. h[k + 1] = J!Scan(g, tau, h[k], k + 1) /\ h[k] \in Marks(n) /\ Marked(h[k], g, tau, k)
    BY <1>1, <1>3, <2>1
  <2> QED BY <2>1, <2>2, MarksMove
<1>4. n \in K
  <2> HIDE DEF K
  <2> QED BY <1>2, <1>3, Stepping
<1> QED BY <1>1, <1>4

LEMMA OnePeak ==
  ASSUME NEW n \in Nat, NEW g \in [1..n -> Fraction], NEW p, IsPeak(p, g, n)
  PROVE  Peak(g) = p
<1>1. DOMAIN g = 1..n
  OBVIOUS
<1>2. /\ p \in DOMAIN g /\ \A e \in DOMAIN g : Leq(g[e], g[p])
      /\ \A e \in 1..(p - 1) : Less(g[e], g[p])
  BY <1>1 DEF IsPeak
<1>3. ASSUME NEW d \in DOMAIN g, \A e \in DOMAIN g : Leq(g[e], g[d]), \A e \in 1..(d - 1) : Less(g[e], g[d])
      PROVE  d = p
  <2>1. g[d] \in Fraction /\ g[p] \in Fraction /\ Leq(g[d], g[p]) /\ Leq(g[p], g[d])
    BY <1>1, <1>2, <1>3
  <2>2. ~Less(g[d], g[p]) /\ ~Less(g[p], g[d])
    BY <2>1, LessLeq
  <2>3. d \notin 1..(p - 1) /\ p \notin 1..(d - 1)
    BY <1>2, <1>3, <2>2
  <2>4. d \in 1..n /\ p \in 1..n
    BY <1>1, <1>2
  <2> QED BY <2>3, <2>4
<1> DEFINE Top(d) == /\ \A e \in DOMAIN g : Leq(g[e], g[d])
                     /\ \A e \in 1..(d - 1) : Less(g[e], g[d])
<1>4. Peak(g) = CHOOSE d \in DOMAIN g : Top(d)
  BY Zenon DEF Peak
<1>5. p \in DOMAIN g /\ Top(p) /\ \A d \in DOMAIN g : Top(d) => d = p
  BY <1>2, <1>3
<1> HIDE DEF Top
<1> QED BY <1>4, <1>5

-----------------------------------------------------------------------------
(* The port's crossover and its bracket are the package's.                   *)

LEMMA PortOf ==
  ASSUME NEW m, IsModel(m)
  PROVE  J!Model(m.s0, m.rho, m.q) = [s0 |-> m.s0, rho |-> m.rho, q |-> m.q]
<1>1. Less(Zero, m.s0) /\ Less(Zero, m.rho) /\ Less(Zero, m.q) /\ Leq(m.q, One)
  BY DEF IsModel, DecayAccepts, Probability
<1> QED BY <1>1, JFrac, JOrder, Zenon DEF J!Model

LEMMA PortGap ==
  ASSUME NEW m, NEW port, port.s0 = m.s0, port.rho = m.rho, port.q = m.q, NEW d \in Nat
  PROVE  /\ J!G(d, port) = Gap(d, m)
         /\ d > 0 => Minus(J!Structured(d, port), J!Similarity(d, port)) = J!G(d, port)
<1>1. J!G(d, port) = Gap(d, m)
  BY JMinus, JTimes, JPower, Zenon DEF J!G, J!Triangular, Gap
<1>2. ASSUME d > 0 PROVE Minus(J!Structured(d, port), J!Similarity(d, port)) = J!G(d, port)
  <2>1. ~(d < 1)
    BY <1>2
  <2> QED BY <2>1, JMinus, Zenon DEF J!G, J!Structured, J!Similarity
<1> QED BY <1>1, <1>2

LEMMA ScansAgree ==
  ASSUME NEW m, IsModel(m), NEW port, port.s0 = m.s0, port.rho = m.rho, port.q = m.q, NEW n \in Nat, n > 0
  PROVE  SameCrossover(J!FindCrossoverDepth(port, m.tau, n), FindCrossover(m, m.tau, n))
<1>1. PICK g : g = [d \in 1..n |-> Gap(d, m)]
  OBVIOUS
<1>2. g \in [1..n -> Fraction] /\ DOMAIN g = 1..n
  <2>1. ASSUME NEW d \in 1..n PROVE Gap(d, m) \in Fraction
    <3>1. PICK S1, S2, U, V : Recovers(m, d, S1, S2, U, V)
      BY RecoversSo, d \in Nat
    <3> QED BY <3>1, IsCompared DEF Recovers
  <2> QED BY <1>1, <2>1
<1>3. J!FindCrossoverDepth(port, m.tau, n) = J!CrossoverIn(g, m.tau)
  <2>1. ~Less(m.tau, Zero) /\ ~(n < 1)
    <3>1. Zero \in Fraction /\ m.tau \in Fraction /\ Leq(Zero, m.tau)
      BY OneOfOne DEF IsModel
    <3> QED BY <3>1, LessLeq
  <2>2. [d \in 1..n |-> J!G(d, port)] = g
    <3>1. \A d \in 1..n : J!G(d, port) = Gap(d, m)
      BY PortGap, 1..n \subseteq Nat
    <3> QED BY <1>1, <3>1
  <2> QED BY <2>1, <2>2, JFrac, JOrder, Zenon DEF J!FindCrossoverDepth
<1>4. PICK h : IsScan(h, g, m.tau, n) /\ J!CrossoverIn(g, m.tau) = J!Crossing(g, m.tau, h[n])
  BY <1>2, ScanRuns
<1>5. PICK s \in Marks(n) : s = h[n] /\ Marked(s, g, m.tau, n)
  BY <1>2, <1>4, ScanMarked
<1>6. PICK scan, found : scan = J!FindCrossoverDepth(port, m.tau, n) /\ found = FindCrossover(m, m.tau, n)
  OBVIOUS
<1>7. scan = J!Crossing(g, m.tau, s)
  BY <1>3, <1>4, <1>5, <1>6
<1>8. Peak(g) = s.peak
  <2>1. IsPeak(s.peak, g, n)
    BY <1>5 DEF Marked
  <2> QED BY <1>2, <2>1, OnePeak
<1>9. PICK above \in SUBSET (1..n) : above = Above(m, n)
  BY DEF Above
<1>10. AboveIn(g, m.tau, n) = above
  BY <1>1, <1>9 DEF AboveIn, Above
<1>11. found = IF above = {} THEN NoCrossover(s.peak) ELSE CrossoverAt(g, m.tau, Min(above), above)
  BY <1>1, <1>6, <1>8, <1>9, ScanIs, Zenon
<1>12. CASE s.first = 0
  <2>1. above = {}
    BY <1>5, <1>10, <1>12 DEF Marked
  <2>2. scan = [exists |-> FALSE, peak |-> s.peak]
    BY <1>7, <1>12, Zenon DEF J!Crossing
  <2>3. found.exists = FALSE /\ found.peak = s.peak
    BY <1>11, <2>1 DEF NoCrossover
  <2>4. scan.exists = FALSE /\ scan.peak = s.peak
    BY <2>2
  <2> QED BY <1>6, <2>3, <2>4, Zenon DEF SameCrossover
<1>13. CASE s.first # 0
  <2>1. /\ s.first \in above /\ \A d \in above : s.first <= d
        /\ s.last \in above /\ s.first..s.last \subseteq above /\ s.first <= s.last
        /\ \A d \in above : s.first..d \subseteq above => d <= s.last
    BY <1>5, <1>10, <1>13 DEF Marked
  <2>2. Min(above) = s.first
    <3>1. Min(above) \in above /\ \A d \in above : Min(above) <= d
      BY <2>1, MinFacts, above \in SUBSET Nat
    <3>2. Min(above) <= s.first /\ s.first <= Min(above) /\ Min(above) \in 1..n /\ s.first \in 1..n
      BY <2>1, <3>1
    <3> QED BY <3>2
  <2>3. Max({d \in above : s.first..d \subseteq above}) = s.last
    <3>1. PICK S \in SUBSET (0..n) : S = {d \in above : s.first..d \subseteq above}
      <4>1. above \subseteq 0..n
        OBVIOUS
      <4>2. {d \in above : s.first..d \subseteq above} \subseteq above
        OBVIOUS
      <4> QED BY <4>1, <4>2
    <3>2. s.last \in S /\ \A d \in S : d <= s.last
      BY <2>1, <3>1
    <3>3. Max(S) \in S /\ Max(S) \in 0..n /\ \A y \in S : y <= Max(S)
      BY <3>2, MaxOf
    <3>4. Max(S) <= s.last /\ s.last <= Max(S) /\ s.last \in 0..n
      BY <3>2, <3>3
    <3> QED BY <3>1, <3>3, <3>4
  <2>4. above # {}
    BY <2>1
  <2>5. found = CrossoverAt(g, m.tau, s.first, above)
    BY <1>11, <2>2, <2>4
  <2>6. /\ found.exists = TRUE /\ found.peak = s.peak /\ found.win = <<s.first, s.last>>
        /\ found.root = RootBefore(g, m.tau, s.first)
    BY <1>8, <2>3, <2>5 DEF CrossoverAt
  <2>7. scan = [exists |-> TRUE, peak |-> s.peak, win |-> <<s.first, s.last>>,
                root |-> RootBefore(g, m.tau, s.first)]
    BY <1>7, <1>13, JOrder, Zenon DEF J!Crossing, RootBefore
  <2>8. /\ scan.exists = TRUE /\ scan.peak = s.peak /\ scan.win = <<s.first, s.last>>
        /\ scan.root = RootBefore(g, m.tau, s.first)
    BY <2>7
  <2> QED BY <1>6, <2>6, <2>8, Zenon DEF SameCrossover
<1> QED BY <1>12, <1>13

LEMMA BracketsAgree ==
  ASSUME NEW m, IsModel(m), IsDecaying(m), NEW port, port.s0 = m.s0, port.rho = m.rho, port.q = m.q,
         NEW bound, Reaches(m, bound), NEW n \in Nat, n > 0
  PROVE  J!BracketCrossoverDepth(port, m.tau, n, bound) = BracketCrossover(m, m.tau, n, bound)
<1>1. PICK l \in Nat : l = LowerDepth(m, bound) /\ l >= 1
  BY LowerIs
<1>2. J!Max({1, J!AfterTauZero(port, bound)}) = l
  <2>1. J!AfterTauZero(port, bound) = DepthAfterTauZero(m, bound)
    <3>1. \A d \in 0..bound :
            J!Less(J!Times(J!Square(port.s0), J!Power(port.rho, d + 1)), J!Square(port.q))
              <=> Less(Times(Square(m.s0), Power(m.rho, d + 1)), Square(m.q))
      BY JOrder, JTimes, JSquare, JPower, Zenon
    <3>2. {d \in 0..bound : J!Less(J!Times(J!Square(port.s0), J!Power(port.rho, d + 1)), J!Square(port.q))}
            = {d \in 0..bound : Less(Times(Square(m.s0), Power(m.rho, d + 1)), Square(m.q))}
      BY <3>1, Zenon
    <3> QED BY <3>2, JMost, Zenon DEF J!AfterTauZero, DepthAfterTauZero
  <2> QED BY <1>1, <2>1, JMost, Zenon DEF LowerDepth
<1>3. PICK tops \in SUBSET (0..n) : tops = {d \in 0..n : Leq(m.tau, Power(m.q, d))}
  OBVIOUS
<1>4. {d \in 0..n : J!Leq(m.tau, J!Power(port.q, d))} = tops /\ LastAbove(m, m.tau, n) = Max(tops)
  <2>1. \A d \in 0..n : J!Leq(m.tau, J!Power(port.q, d)) <=> Leq(m.tau, Power(m.q, d))
    BY JOrder, JPower, Zenon
  <2>2. {d \in 0..n : J!Leq(m.tau, J!Power(port.q, d))} = {d \in 0..n : Leq(m.tau, Power(m.q, d))}
    BY <2>1, Zenon
  <2> QED BY <1>3, <2>2, Zenon DEF LastAbove
<1>5. PICK last : last = Max(tops) /\ J!Max({d \in 0..n : J!Leq(m.tau, J!Power(port.q, d))}) = last
  BY <1>4, JMost, Zenon
<1>6. PICK low : low = Min({l, n}) /\ J!Min({l, n}) = low
  BY JMost, Zenon
<1>7. ~Less(m.tau, Zero) /\ ~(n < 1) /\ Less(m.rho, One)
  <2>1. Zero \in Fraction /\ m.tau \in Fraction /\ Leq(Zero, m.tau)
    BY OneOfOne DEF IsModel
  <2> QED BY <2>1, LessLeq DEF IsDecaying
<1> DEFINE result(upper, winEnd) ==
             [lower |-> l, upper |-> upper, window |-> IF l <= winEnd THEN <<l, winEnd>> ELSE None]
<1>8. J!BracketCrossoverDepth(port, m.tau, n, bound) =
        CASE Less(m.tau, Zero) \/ n < 1 \/ ~Less(m.rho, One) -> Raised
          [] m.tau = Zero -> result(low, n)
          [] m.tau # Zero /\ Leq(m.q, m.tau) -> result(l, 0)
          [] m.q = One /\ Less(Zero, m.tau) /\ Less(m.tau, One) -> result(n, n)
          [] OTHER -> result(last, last)
  BY <1>2, <1>5, <1>6, JOrder, JFrac, Zenon DEF J!BracketCrossoverDepth
<1>9. BracketCrossover(m, m.tau, n, bound) =
        LET upper  == IF m.tau = Zero THEN low
                      ELSE IF Leq(m.q, m.tau) THEN l
                      ELSE IF m.q = One THEN n
                      ELSE last
            winEnd == IF m.tau = Zero THEN n ELSE upper
        IN  [lower |-> l, upper |-> upper,
             window |-> IF (m.tau # Zero /\ Leq(m.q, m.tau)) \/ winEnd < l THEN None ELSE <<l, winEnd>>]
  BY <1>1, <1>4, <1>5, <1>6, <1>7, Zenon DEF BracketCrossover, IsDecaying
<1>10. ~Leq(m.q, m.tau) => last \in 0..n /\ (m.q = One => last = n)
  <2>1. m.tau \in Fraction /\ m.q \in Fraction /\ One \in Fraction /\ Zero \in Fraction
    BY OneOfOne DEF IsModel
  <2>2. CASE Leq(m.tau, One)
    <3>1. 0 \in tops
      <4>1. Power(m.q, 0) = One
        BY <2>1, PowerOfNone
      <4> QED BY <1>3, <2>2, <4>1
    <3>2. Max(tops) \in 0..n /\ \A y \in tops : y <= Max(tops)
      BY <3>1, MaxOf
    <3>3. ASSUME m.q = One PROVE n \in tops
      <4>1. Worth(Power(m.q, n), 1, 1)
        BY <3>3, WholePower
      <4>2. Leq(One, Power(m.q, n)) /\ Power(m.q, n) \in Fraction
        <5>1. 1 * 1 <= 1 * 1
          OBVIOUS
        <5> QED BY <4>1, <5>1, OneOfOne, LeqWorth DEF Worth
      <4>3. Leq(m.tau, Power(m.q, n))
        BY <2>1, <2>2, <4>2, LeqTransitive
      <4> QED BY <1>3, <4>3
    <3> QED BY <1>5, <3>2, <3>3
  <2>3. CASE ~Leq(m.tau, One)
    <3>1. Leq(m.q, One) /\ Leq(One, m.tau)
      BY <2>1, <2>3, LeqTotal DEF IsModel, Probability
    <3> QED BY <2>1, <3>1, LeqTransitive
  <2> QED BY <2>2, <2>3
<1>11. CASE m.tau = Zero
  <2>1. J!BracketCrossoverDepth(port, m.tau, n, bound) = result(low, n)
    BY <1>7, <1>8, <1>11
  <2>2. n < l <=> ~(l <= n)
    OBVIOUS
  <2> QED BY <1>9, <1>11, <2>1, <2>2
<1>12. CASE m.tau # Zero /\ Leq(m.q, m.tau)
  <2>1. m.q = One => ~Less(m.tau, One)
    BY <1>12, LessLeq, OneOfOne DEF IsModel
  <2>2. J!BracketCrossoverDepth(port, m.tau, n, bound) = result(l, 0)
    BY <1>7, <1>8, <1>12, <2>1
  <2>3. ~(l <= 0)
    BY <1>1
  <2> QED BY <1>9, <1>12, <2>2, <2>3
<1>13. CASE m.tau # Zero /\ ~Leq(m.q, m.tau) /\ m.q = One
  <2>1. last = n
    BY <1>10, <1>13
  <2>2. J!BracketCrossoverDepth(port, m.tau, n, bound) = result(n, n)
    BY <1>7, <1>8, <1>13, <2>1
  <2>3. n < l <=> ~(l <= n)
    OBVIOUS
  <2> QED BY <1>9, <1>13, <2>2, <2>3
<1>14. CASE m.tau # Zero /\ ~Leq(m.q, m.tau) /\ m.q # One
  <2>1. J!BracketCrossoverDepth(port, m.tau, n, bound) = result(last, last)
    BY <1>7, <1>8, <1>14
  <2>2. last < l <=> ~(l <= last)
    BY <1>10, <1>14
  <2> QED BY <1>9, <1>14, <2>1, <2>2
<1> QED BY <1>11, <1>12, <1>13, <1>14

\* Dividing up: the quotient of n times v by u, rounded up, is at least n.
LEMMA RoundedUp ==
  ASSUME NEW n \in Nat, NEW u \in Nat, NEW v \in Nat, u > 0, u <= v
  PROVE  -((-(n * v)) \div u) >= n
<1>1. PICK a \in Int : a = -(n * v)
  OBVIOUS
<1>2. PICK z \in Int : z = a \div u /\ u * z <= a
  BY Division
<1>3. n * u <= n * v
  <2>1. u <= v
    OBVIOUS
  <2> QED BY <2>1
<1>4. u * z <= u * (-n)
  <2>1. u * (-n) = -(n * u)
    OBVIOUS
  <2>2. PICK x \in Int, y \in Int : x = n * u /\ y = n * v
    OBVIOUS
  <2> QED BY <1>1, <1>2, <1>3, <2>1, <2>2
<1>5. z <= -n
  <2>1. PICK g \in Int : g = -n
    OBVIOUS
  <2> SUFFICES ASSUME z > g PROVE FALSE
    BY <2>1
  <2>2. z >= g + 1
    BY <2>1
  <2>3. u * z >= u * (g + 1)
    BY <2>1, <2>2
  <2>4. u * (g + 1) = u * g + u
    BY <2>1
  <2>5. u * z \in Int /\ u * g \in Int
    BY <2>1
  <2> QED BY <1>4, <2>1, <2>3, <2>4, <2>5
<1> QED BY <1>1, <1>2, <1>5

LEMMA PortsHoldFor ==
  ASSUME NEW m, IsModel(m), NEW n \in Nat, n > 0
  PROVE  /\ J!SupersessionAdvantage(n, m.q) = SupersessionRecovery(n, m.q, None).advantage
         /\ J!ScatteredRecovery(n, m, m.q, n) = ScatteredRecovery(n, m, m.q, n)
         /\ J!ProbesLowerBound(n, m.q) >= J!ProbesForScatter(J!ScatterForFlatChain(n))
         /\ n > 1 => J!ProbesLowerBound(n, m.q) > J!ProbesForDereference
<1>1. J!Fidelity(m.q) /\ Probability(m.q)
  BY JFrac, JOrder, Zenon DEF J!Fidelity, IsModel, Probability
<1>2. ~(n < 1) /\ ~(n < 0) /\ n >= 0 /\ n - 1 \in Nat
  OBVIOUS
<1>3. J!SupersessionAdvantage(n, m.q) = SupersessionRecovery(n, m.q, None).advantage
  <2>1. J!StructuredSupersession(n, m.q) = Power(m.q, n - 1)
    BY <1>1, <1>2, JPower, Zenon DEF J!StructuredSupersession, J!EdgeHops
  <2>2. J!SimilaritySupersession(n) = SimilaritySupersession(n, None)
    BY <1>2, JFrac, Zenon DEF J!SimilaritySupersession, SimilaritySupersession
  <2>3. SupersessionRecovery(n, m.q, None).advantage = Minus(Power(m.q, n - 1), SimilaritySupersession(n, None))
    BY SupersessionIs DEF SupersessionRecovery, Superseded
  <2> QED BY <2>1, <2>2, <2>3, JMinus, Zenon DEF J!SupersessionAdvantage
<1>4. J!ScatteredRecovery(n, m, m.q, n) = ScatteredRecovery(n, m, m.q, n)
  <2>1. J!ScatterFactor(m.q, n) = Power(m.q, n) /\ ScatterFactor(m.q, n) = Power(m.q, n)
    BY <1>1, <1>2, JPower, Zenon DEF J!ScatterFactor, ScatterFactor
  <2>2. J!SimilarityRecovery(n, m) = SimilarityRecovery(n, m)
    BY <1>2, JPower, JTimes, Zenon DEF J!SimilarityRecovery, SimilarityRecovery
  <2> QED BY <2>1, <2>2, JTimes, Zenon DEF J!ScatteredRecovery, ScatteredRecovery
<1>5. J!ProbesLowerBound(n, m.q) >= n
  <2>1. PICK u \in Int, v \in Nat : m.q = <<u, v>> /\ v > 0
    BY FractionTerms DEF IsModel
  <2>2. u > 0 /\ u <= v
    <3>1. Worth(m.q, u, v)
      BY <2>1 DEF Worth, Fraction
    <3>2. 0 * v < u * 1 /\ u * 1 <= 1 * v
      BY <1>1, <3>1, OneOfOne, LeqWorth, LessWorth DEF Probability
    <3> QED BY <2>1, <3>2
  <2>3. J!ProbesLowerBound(n, m.q) = -((-(n * v)) \div u)
    BY <1>1, <1>2, <2>1 DEF J!ProbesLowerBound
  <2>4. -((-(n * v)) \div u) >= n
    BY <2>1, <2>2, u \in Nat, RoundedUp
  <2> QED BY <2>3, <2>4
<1>6. J!ProbesForScatter(J!ScatterForFlatChain(n)) = n /\ J!ProbesForDereference = 1
  BY <1>2 DEF J!ProbesForScatter, J!ScatterForFlatChain, J!ProbesForDereference
<1>7. J!ProbesLowerBound(n, m.q) \in Int
  <2>1. PICK u \in Int, v \in Nat : m.q = <<u, v>> /\ v > 0
    BY FractionTerms DEF IsModel
  <2>2. u > 0
    <3>1. Worth(m.q, u, v)
      BY <2>1 DEF Worth, Fraction
    <3>2. 0 * v < u * 1
      BY <1>1, <3>1, OneOfOne, LessWorth DEF Probability
    <3> QED BY <2>1, <3>2
  <2>3. J!ProbesLowerBound(n, m.q) = -((-(n * v)) \div u)
    BY <1>1, <1>2, <2>1 DEF J!ProbesLowerBound
  <2>4. (-(n * v)) \div u \in Int
    BY <2>1, <2>2, u \in Nat, -(n * v) \in Int, Division
  <2> QED BY <2>3, <2>4
<1> QED BY <1>3, <1>4, <1>5, <1>6, <1>7

-----------------------------------------------------------------------------
(* The theory of every model, at every depth scanned.                        *)

Chosen == subject = "theory" => model \in Models /\ seen \in Seq(Alphabet["theory"])

LEMMA NextChosen == Chosen /\ [Observe]_studyVars => Chosen'
<1> SUFFICES ASSUME Chosen, [Observe]_studyVars PROVE Chosen'
  OBVIOUS
<1>1. CASE Observe
  <2>1. PICK y \in Alphabet[subject] : seen' = Append(seen, y) /\ subject' = subject /\ model' = model
    BY <1>1 DEF Observe
  <2> QED BY <2>1 DEF Chosen
<1>2. CASE UNCHANGED studyVars
  BY <1>2 DEF Chosen, studyVars
<1> QED BY <1>1, <1>2

LEMMA AssumedOf ==
  ASSUME NEW m \in Models
  PROVE  IsModel(m) /\ (IsDecaying(m) => Reaches(m, DepthBound))
BY StudyAssumption DEF IsModel, Reaches, Ahead

LEMMA TheoryOf == ASSUME Chosen PROVE TheoryHolds
<1> SUFFICES ASSUME subject = "theory"
             PROVE  BracketHolds /\ PathsCompose /\ SlopesAgree /\ CostsAgree /\ ChainsAgree /\ PortsAgree
  BY DEF TheoryHolds
<1>1. IsModel(model) /\ (IsDecaying(model) => Reaches(model, DepthBound))
  BY AssumedOf DEF Chosen
<1>2. PICK n \in Nat : n = maxDepth /\ n > 0
  <2>1. Len(seen) \in Nat
    BY DEF Chosen
  <2> QED BY <2>1 DEF maxDepth
<1>3. BracketHolds
  <2> SUFFICES ASSUME IsDecaying(model)
               PROVE  /\ InBracket(Scanned(n), BracketCrossover(model, model.tau, n, DepthBound))
                      /\ Leq(model.q, model.tau) => ~Scanned(n).exists
                      /\ \A d \in 1..n : StillFound(Scanned(d), Scanned(n))
    BY <1>2 DEF BracketHolds
  <2>1. Reaches(model, DepthBound)
    BY <1>1
  <2>2. PICK found, br : found = Scanned(n) /\ br = BracketCrossover(model, model.tau, n, DepthBound)
    OBVIOUS
  <2>3. /\ found.exists =>
             /\ found.dStar \in br.lower..br.upper
             /\ found.win[1] >= br.window[1] /\ found.win[2] <= br.window[2]
             /\ \A d \in br.lower..br.upper :
                  CompareCrossover(Whole(d), Whole(found.dStar), Whole(br.upper - br.lower)).agrees
        /\ model.tau = Zero => /\ found.exists <=> br.lower <= n
                               /\ found.exists => found.dStar = br.lower /\ found.win = br.window
        /\ Leq(model.q, model.tau) => ~found.exists
    BY <1>1, <1>2, <2>1, <2>2, BracketContains, Zenon DEF Scanned, Bracket
  <2>4. InBracket(found, br)
    BY <1>2, <2>3, Zenon DEF InBracket
  <2>5. ASSUME NEW d \in 1..n PROVE StillFound(Scanned(d), Scanned(n))
    BY <1>1, FoundDeeper DEF StillFound, Scanned
  <2> QED BY <2>2, <2>3, <2>4, <2>5
<1>4. PathsCompose
  BY <1>1, <1>2, PathsHoldFor, Zenon DEF PathsCompose, PathsHold
<1>5. SlopesAgree
  BY <1>1, <1>2, SlopesHoldFor, SlopesExact, Zenon DEF SlopesAgree
<1>6. CostsAgree
  <2>1. CostPerCorrectDollars(n, model, 2, Frac(1, 8), TRUE) = Times(Frac(1, 8), StructuredCost(n, model, 2))
    BY ShareIs, Zenon DEF CostPerCorrectDollars
  <2> QED BY <1>1, <1>2, <2>1, CostsHoldFor, ShareIs, Zenon DEF CostsAgree
<1>7. ChainsAgree
  BY <1>1, <1>2, ChainsHoldFor, Zenon DEF ChainsAgree
<1>8. PortsAgree
  <2>1. PICK port : port = J!Model(model.s0, model.rho, model.q)
    OBVIOUS
  <2>2. port.s0 = model.s0 /\ port.rho = model.rho /\ port.q = model.q
    <3>1. port = [s0 |-> model.s0, rho |-> model.rho, q |-> model.q]
      BY <1>1, <2>1, PortOf, Zenon
    <3> QED BY <3>1
  <2>3. PortAgrees(port, n)
    <3>1. Minus(J!Structured(n, port), J!Similarity(n, port)) = J!G(n, port) /\ J!G(n, port) = Gap(n, model)
      BY <1>2, <2>2, PortGap
    <3>2. SameCrossover(J!FindCrossoverDepth(port, model.tau, n), Scanned(n))
      BY <1>1, <1>2, <2>2, ScansAgree DEF Scanned
    <3>3. IsDecaying(model) => J!BracketCrossoverDepth(port, model.tau, n, DepthBound)
                                 = BracketCrossover(model, model.tau, n, DepthBound)
      BY <1>1, <1>2, <2>2, BracketsAgree
    <3> QED BY <3>1, <3>2, <3>3 DEF PortAgrees
  <2> QED BY <1>1, <1>2, <2>1, <2>3, PortsHoldFor, Zenon DEF PortsAgree
<1> QED BY <1>3, <1>4, <1>5, <1>6, <1>7, <1>8

\* theory/*.py, for every model whose links survive with a chance and whose
\* similarity is positive, and at every depth: a crossover lies in its bracket
\* and its wins in its window; hops multiply up to the closed forms; slopes,
\* costs and chains are what the closed forms say; the ports in Java agree.
THEOREM TheoryIsSound == StudySpec => []TheoryHolds
<1>1. StudyInit => Chosen
  BY DEF StudyInit, Chosen
<1>2. Chosen /\ [Observe]_studyVars => Chosen'
  BY NextChosen
<1>3. Chosen => TheoryHolds
  BY TheoryOf
<1> QED BY <1>1, <1>2, <1>3, PTL DEF StudySpec
=============================================================================
