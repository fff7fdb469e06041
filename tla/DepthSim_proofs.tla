--------------------------- MODULE DepthSim_proofs ---------------------------
(***************************************************************************)
(* Proofs about DepthSim, for any depth, any number of trials and of        *)
(* workers (none or fewer included), whichever trials survive.              *)
(***************************************************************************)
EXTENDS DepthSim, FiniteSetTheorems, TLAPS

All == 0..(Trials - 1)

\* The trials of S that goroutine w takes before it is at trial n, and those
\* that the first s goroutines take.
Stripe(S, w, n) == {t \in S : t % W = w /\ t < n}
Below(S, s) == {t \in S : t % W < s}

Running == {"running", "stored"}
Active == {w \in Goroutines : pc[w] \in Running}

Typ ==
  /\ draws \in Draws /\ depth \in 1..(MaxDepth + 1) /\ arm \in Arms
  /\ phase \in {"entering", "spawning", "summing", "counted", "returned"}
  /\ phase # "returned" => depth \in 1..MaxDepth
  /\ spawned \in 0..W /\ wg \in Int /\ summed \in 0..W
  /\ pc \in [Goroutines -> {"none", "running", "stored", "ended"}]
  /\ at \in [Goroutines -> Nat]
  /\ count \in [Goroutines -> Nat] /\ partial \in [Goroutines -> Nat]
  /\ total \in Nat
  /\ estimate \in [Arms -> Nat \cup {None}]
  /\ crossover \in 0..MaxDepth \cup {None}

\* Goroutines live between their start and the end of the wait, and the wait
\* group counts them.
Flow ==
  /\ wg = Cardinality(Active)
  /\ phase \in {"spawning", "summing"} => Trials > 0
  /\ phase = "spawning" => \A w \in Goroutines : pc[w] = "none" <=> w >= spawned
  /\ phase # "spawning" => Active = {}
  /\ phase = "summing" => \A w \in Goroutines : pc[w] = "ended"

\* A goroutine has counted the survivors of its own residue class that lie
\* before the trial it is at; once it is through, all of them.
Counted(w) ==
  /\ pc[w] = "running" => /\ at[w] % W = w
                          /\ count[w] = Cardinality(Stripe(draws[<<arm, depth>>], w, at[w]))
  /\ pc[w] \in {"stored", "ended"} =>
       partial[w] = Cardinality(Stripe(draws[<<arm, depth>>], w, Trials))

Counts ==
  /\ phase \in {"spawning", "summing"} => \A w \in Goroutines : Counted(w)
  /\ phase = "spawning" => total = 0 /\ summed = 0
  /\ phase = "summing" => total = Cardinality(Below(draws[<<arm, depth>>], summed))
  /\ phase = "counted" => total = Survivors(arm, depth)

\* What the loop over the depths knows.
Found ==
  /\ \A a \in Arms : estimate[a] # None => estimate[a] = Survivors(a, depth)
  /\ phase # "returned" /\ arm = "structured" => estimate["similarity"] # None
  /\ phase # "returned" =>
       \A d \in 1..(depth - 1) : Survivors("structured", d) <= Survivors("similarity", d)
  /\ FirstLead

-----------------------------------------------------------------------------
(* Residue classes.                                                          *)

LEMMA WPositive == W \in Nat /\ W > 0 /\ Goroutines = 0..(W - 1)
BY DepthSimAssumption DEF W, Goroutines

\* Quotient and remainder, for any divisor, and that they are unique.
LEMMA DivMod ==
  ASSUME NEW s \in Nat, s > 0, NEW x \in Nat
  PROVE  x = s * (x \div s) + (x % s) /\ x % s \in 0..(s - 1) /\ x \div s \in Nat
OBVIOUS

LEMMA DivModUnique ==
  ASSUME NEW s \in Nat, s > 0, NEW q \in Nat, NEW p \in Nat, NEW r \in Nat, NEW v \in Nat,
         r < s, v < s, s * q + r = s * p + v
  PROVE  q = p /\ r = v
<1>1. CASE q < p
  <2>1. PICK k \in Nat : p = q + 1 + k
    <3>1. p - q - 1 \in Nat
      BY <1>1
    <3> QED BY <3>1
  <2>2. s * p = s * q + s + s * k /\ s * k >= 0
    BY <2>1
  <2> QED BY <2>2
<1>2. CASE p < q
  <2>1. PICK k \in Nat : q = p + 1 + k
    <3>1. q - p - 1 \in Nat
      BY <1>2
    <3> QED BY <3>1
  <2>2. s * q = s * p + s + s * k /\ s * k >= 0
    BY <2>1
  <2> QED BY <2>2
<1> QED BY <1>1, <1>2

\* One stride further is the same class, and nothing of the class is between.
LEMMA Stride ==
  ASSUME NEW a \in Nat
  PROVE  /\ (a + W) % W = a % W
         /\ \A t \in Nat : t % W = a % W /\ a < t => a + W <= t
<1>1. W \in Nat /\ W > 0
  BY WPositive
<1>2. a = W * (a \div W) + (a % W) /\ a % W \in 0..(W - 1) /\ a \div W \in Nat
  BY <1>1, DivMod
<1>3. (a + W) % W = a % W
  <2> DEFINE q == (a + W) \div W
             r == (a + W) % W
  <2>1. a + W = W * q + r /\ r \in 0..(W - 1) /\ q \in Nat
    BY <1>1, DivMod
  <2>2. W * ((a \div W) + 1) + (a % W) = a + W
    BY <1>1, <1>2
  <2> DEFINE p == (a \div W) + 1
             v == a % W
  <2>3. p \in Nat /\ v \in Nat /\ v < W /\ r \in Nat /\ r < W /\ W * q + r = W * p + v
    BY <1>1, <1>2, <2>1, <2>2
  <2> HIDE DEF q, r, p, v
  <2>4. r = v
    BY <1>1, <2>1, <2>3, DivModUnique
  <2> QED BY <2>4 DEF r, v
<1>4. ASSUME NEW t \in Nat, t % W = a % W, a < t PROVE a + W <= t
  <2>1. t = W * (t \div W) + (t % W) /\ t \div W \in Nat
    BY <1>1, DivMod
  <2>2. a \div W < t \div W
    <3> SUFFICES ASSUME t \div W <= a \div W PROVE FALSE
      BY <1>2, <2>1
    <3>1. W * (t \div W) <= W * (a \div W)
      BY <1>1, <1>2, <2>1
    <3> QED BY <1>1, <1>2, <1>4, <2>1, <3>1
  <2>3. W * (t \div W) >= W * ((a \div W) + 1)
    BY <1>1, <1>2, <2>1, <2>2
  <2> QED BY <1>1, <1>2, <1>4, <2>1, <2>3
<1> QED BY <1>3, <1>4

LEMMA AllFinite ==
  ASSUME NEW S, S \subseteq All
  PROVE  IsFiniteSet(S) /\ Cardinality(S) \in Nat
<1>1. Trials \in Int /\ IsFiniteSet(0..(Trials - 1))
  BY DepthSimAssumption, FS_Interval
<1>2. IsFiniteSet(S)
  BY <1>1, FS_Subset DEF All
<1> QED BY <1>2, FS_CardinalityType

\* A goroutine starts with nothing behind it.
LEMMA StripeStart ==
  ASSUME NEW S \in SUBSET All, NEW w \in Goroutines
  PROVE  w % W = w /\ Stripe(S, w, w) = {}
<1>1. w \in Nat /\ w < W /\ W \in Nat /\ W > 0
  BY WPositive
<1>2. w % W = w
  BY <1>1
<1>3. \A t \in Nat : t % W <= t
  <2> SUFFICES ASSUME NEW t \in Nat PROVE t % W <= t
    OBVIOUS
  <2>1. t = W * (t \div W) + (t % W) /\ t \div W \in Nat /\ t % W \in Nat
    BY <1>1, DivMod
  <2>2. W * (t \div W) >= 0
    BY <1>1, <2>1
  <2> QED BY <1>1, <2>1, <2>2
<1>4. \A t \in S : t \in Nat
  BY DepthSimAssumption DEF All
<1> QED BY <1>1, <1>2, <1>3, <1>4 DEF Stripe

\* A trial adds itself, if it survives, and nothing else.
LEMMA StripeStep ==
  ASSUME NEW S \in SUBSET All, NEW w \in Goroutines, NEW a \in Nat, a % W = w
  PROVE  /\ (a + W) % W = w
         /\ Cardinality(Stripe(S, w, a + W)) =
              IF a \in S THEN Cardinality(Stripe(S, w, a)) + 1 ELSE Cardinality(Stripe(S, w, a))
<1>1. W \in Nat /\ W > 0 /\ \A t \in S : t \in Nat
  BY WPositive, DepthSimAssumption DEF All
<1>2. (a + W) % W = w
  BY Stride
<1>3. Stripe(S, w, a) \subseteq All
  BY DEF Stripe
<1>4. IsFiniteSet(Stripe(S, w, a))
  BY <1>3, AllFinite
<1>5. \A t \in S : t % W = w /\ t < a + W => t <= a
  <2> SUFFICES ASSUME NEW t \in S, t % W = w, t < a + W, ~ (t <= a) PROVE FALSE
    OBVIOUS
  <2>1. t \in Nat /\ a < t
    BY <1>1
  <2>2. a + W <= t
    BY <2>1, Stride
  <2> QED BY <1>1, <2>1, <2>2
<1>6. CASE a \in S
  <2>1. \A t \in S : t % W = w => (t < a + W <=> t < a \/ t = a)
    BY <1>1, <1>5
  <2>2. Stripe(S, w, a + W) = Stripe(S, w, a) \cup {a}
    BY <1>6, <2>1, Zenon DEF Stripe
  <2>3. a \notin Stripe(S, w, a)
    BY DEF Stripe
  <2> QED BY <1>2, <1>4, <1>6, <2>2, <2>3, FS_AddElement
<1>7. CASE a \notin S
  <2>1. Stripe(S, w, a + W) = Stripe(S, w, a)
    BY <1>1, <1>5, <1>7 DEF Stripe
  <2> QED BY <1>2, <1>7, <2>1
<1> QED BY <1>6, <1>7

\* Past the last trial the class is whole.
LEMMA StripeWhole ==
  ASSUME NEW S \in SUBSET All, NEW w, NEW a \in Nat, a >= Trials
  PROVE  Stripe(S, w, a) = Stripe(S, w, Trials)
<1>1. \A t \in S : t \in Nat /\ t < Trials /\ t < a
  BY DepthSimAssumption DEF All
<1> QED BY <1>1 DEF Stripe

\* The classes of the goroutines are disjoint and cover the trials.
LEMMA BelowStep ==
  ASSUME NEW S \in SUBSET All, NEW s \in Nat
  PROVE  Cardinality(Below(S, s + 1)) = Cardinality(Below(S, s)) + Cardinality(Stripe(S, s, Trials))
<1>1. W \in Nat /\ W > 0 /\ \A t \in S : t \in Nat /\ t < Trials
  BY WPositive, DepthSimAssumption DEF All
<1>2. \A t \in S : t % W \in Nat
  BY <1>1, DivMod
<1>3. Below(S, s + 1) = Below(S, s) \cup Stripe(S, s, Trials)
  BY <1>1, <1>2 DEF Below, Stripe
<1>4. Below(S, s) \cap Stripe(S, s, Trials) = {}
  BY <1>1, <1>2 DEF Below, Stripe
<1>5. Below(S, s) \subseteq All /\ Stripe(S, s, Trials) \subseteq All
  BY DEF Below, Stripe
<1>6. /\ IsFiniteSet(Below(S, s)) /\ Cardinality(Below(S, s)) \in Nat
      /\ IsFiniteSet(Stripe(S, s, Trials)) /\ Cardinality(Stripe(S, s, Trials)) \in Nat
  BY <1>5, AllFinite
<1>7. Cardinality(Below(S, s) \cup Stripe(S, s, Trials)) =
        Cardinality(Below(S, s)) + Cardinality(Stripe(S, s, Trials)) - Cardinality(Below(S, s) \cap Stripe(S, s, Trials))
  BY <1>6, FS_Union
<1>8. Cardinality(Below(S, s + 1)) = Cardinality(Below(S, s)) + Cardinality(Stripe(S, s, Trials)) - 0
  BY <1>3, <1>4, <1>7, FS_EmptySet, Zenon
<1> QED BY <1>6, <1>8

LEMMA BelowEnds ==
  ASSUME NEW S \in SUBSET All
  PROVE  Below(S, 0) = {} /\ Below(S, W) = S
<1>1. W \in Nat /\ W > 0 /\ \A t \in S : t \in Nat
  BY WPositive, DepthSimAssumption DEF All
<1>2. \A t \in S : t % W \in 0..(W - 1)
  BY <1>1, DivMod
<1> QED BY <1>1, <1>2 DEF Below

LEMMA DrawsType ==
  ASSUME draws \in Draws, NEW a \in Arms, NEW d \in 1..MaxDepth
  PROVE  draws[<<a, d>>] \in SUBSET All
<1>1. draws \in [Arms \X (1..MaxDepth) -> SUBSET (0..(Trials - 1))]
  BY DepthSimAssumption
<1>2. <<a, d>> \in Arms \X (1..MaxDepth)
  OBVIOUS
<1>3. draws[<<a, d>>] \in SUBSET (0..(Trials - 1))
  BY <1>1, <1>2
<1> QED BY <1>3 DEF All

LEMMA SurvivorsType ==
  ASSUME draws \in Draws, NEW a \in Arms, NEW d \in 1..MaxDepth
  PROVE  Survivors(a, d) \in Nat
BY DrawsType, AllFinite DEF Survivors

-----------------------------------------------------------------------------
LEMMA InitTyp == Init => Typ /\ Flow
<1> SUFFICES ASSUME Init PROVE Typ /\ Flow
  OBVIOUS
<1>1. MaxDepth \in Nat /\ (MaxDepth # 0 => 1 \in 1..MaxDepth) /\ 1 \in 1..(MaxDepth + 1)
  BY DepthSimAssumption
<1>2. W \in Nat
  BY WPositive
<1>3. Active = {}
  BY DEF Init, Active, Running
<1>4. Typ
  BY <1>1, <1>2 DEF Init, Typ, Arms
<1>5. wg = 0 /\ phase \in {"returned", "entering"}
  BY DEF Init
<1> QED BY <1>3, <1>4, <1>5, FS_EmptySet DEF Flow

\* The wait group follows the goroutines that are added and that end.
LEMMA ActiveFinite == IsFiniteSet(Active)
<1>1. IsFiniteSet(0..(W - 1))
  BY WPositive, FS_Interval
<1>2. Active \subseteq 0..(W - 1)
  BY WPositive DEF Active
<1> QED BY <1>1, <1>2, FS_Subset

LEMMA NextTyp == Typ /\ [Next]_vars => Typ'
<1> SUFFICES ASSUME Typ, [Next]_vars PROVE Typ'
  OBVIOUS
<1> USE WPositive, DepthSimAssumption
<1>1. CASE Enter
  BY <1>1 DEF Enter, Typ
<1>2. CASE Spawn
  <2>1. spawned \in Goroutines
    BY <1>2 DEF Spawn, Typ
  <2>2. spawned + 1 \in 0..W /\ spawned \in Nat
    BY <1>2 DEF Spawn, Typ
  <2> QED BY <1>2, <2>1, <2>2 DEF Spawn, Added, FirstTrial, Typ
<1>3. CASE Wait
  BY <1>3 DEF Wait, Typ
<1>4. CASE Sum
  <2>1. summed \in Goroutines /\ summed + 1 \in 0..W
    BY <1>4 DEF Sum, Typ
  <2>2. partial[summed] \in Nat
    BY <2>1 DEF Typ
  <2>3. total + partial[summed] \in Nat
    BY <2>2 DEF Typ
  <2> QED BY <1>4, <2>1, <2>3 DEF Sum, Typ
<1>5. CASE Summed
  BY <1>5 DEF Summed, Typ
<1>6. CASE Simulated
  BY <1>6 DEF Simulated, Typ, Arms
<1>7. CASE Compare
  <2>1. depth \in 1..MaxDepth
    BY <1>7 DEF Compare, Typ
  <2>2. CASE Leads \/ depth = MaxDepth
    <3>1. crossover' \in 0..MaxDepth
      BY <1>7, <2>1, <2>2 DEF Compare
    <3>2. estimate' \in [Arms -> Nat \cup {None}]
      <4>1. estimate' = [estimate EXCEPT !["structured"] = total]
        BY <1>7, <2>2 DEF Compare
      <4>2. estimate \in [Arms -> Nat \cup {None}] /\ total \in Nat
        BY DEF Typ
      <4> QED BY <4>1, <4>2
    <3>3. /\ phase' = "returned"
          /\ UNCHANGED <<depth, arm, draws, spawned, pc, at, count, partial, wg, summed, total>>
      BY <1>7, <2>2 DEF Compare
    <3> QED BY <3>1, <3>2, <3>3 DEF Typ
  <2>3. CASE ~ (Leads \/ depth = MaxDepth)
    <3>1. depth' \in 1..MaxDepth /\ depth' \in 1..(MaxDepth + 1) /\ arm' \in Arms
      BY <1>7, <2>1, <2>3 DEF Compare, Arms
    <3>2. estimate' \in [Arms -> Nat \cup {None}] /\ phase' = "entering"
      BY <1>7, <2>3 DEF Compare
    <3>3. UNCHANGED <<crossover, draws, spawned, pc, at, count, partial, wg, summed, total>>
      BY <1>7, <2>3 DEF Compare
    <3> QED BY <3>1, <3>2, <3>3 DEF Typ
  <2> QED BY <2>2, <2>3
<1>8. ASSUME NEW w \in Goroutines, Trial(w) PROVE Typ'
  <2>1. at[w] \in Nat /\ count[w] \in Nat /\ at[w] + W \in Nat /\ count[w] + 1 \in Nat
    <3>1. at[w] \in Nat /\ count[w] \in Nat
      BY DEF Typ
    <3> QED BY <3>1
  <2> QED BY <1>8, <2>1 DEF Trial, Typ
<1>9. ASSUME NEW w \in Goroutines, Store(w) PROVE Typ'
  BY <1>9 DEF Store, Typ
<1>10. ASSUME NEW w \in Goroutines, Done(w) PROVE Typ'
  <2>1. wg' \in Int /\ pc' = [pc EXCEPT ![w] = "ended"]
    BY <1>10 DEF Done, Marked, Typ
  <2>2. pc' \in [Goroutines -> {"none", "running", "stored", "ended"}]
    BY <2>1 DEF Typ
  <2> QED BY <1>10, <2>1, <2>2 DEF Done, Typ
<1>11. CASE UNCHANGED vars
  BY <1>11 DEF vars, Typ
<1> QED BY <1>1, <1>2, <1>3, <1>4, <1>5, <1>6, <1>7, <1>8, <1>9, <1>10, <1>11
        DEF Next, Caller, Goroutine, Returned

LEMMA NextFlow == Typ /\ Flow /\ [Next]_vars => Flow'
<1> SUFFICES ASSUME Typ, Flow, [Next]_vars PROVE Flow'
  OBVIOUS
<1> USE WPositive
<1>a. pc \in [Goroutines -> {"none", "running", "stored", "ended"}] /\ IsFiniteSet(Active)
      /\ wg = Cardinality(Active)
  BY ActiveFinite DEF Typ, Flow
<1>1. CASE Enter
  <2>1. Active' = {} /\ wg' = wg /\ Active = {}
    BY <1>1 DEF Enter, Active, Running, Flow
  <2>2. spawned' = 0 /\ \A w \in Goroutines : pc'[w] = "none" /\ w >= 0
    BY <1>1 DEF Enter
  <2>3. phase' = IF Trials <= 0 THEN "counted" ELSE "spawning"
    BY <1>1 DEF Enter
  <2> QED BY <1>a, <2>1, <2>2, <2>3, DepthSimAssumption DEF Flow
<1>2. CASE Spawn
  <2>1. /\ phase = "spawning" /\ phase' = phase /\ spawned \in Goroutines /\ spawned' = spawned + 1
        /\ pc' = [pc EXCEPT ![spawned] = "running"] /\ wg' = wg + 1
    BY <1>2 DEF Spawn, Added, Typ
  <2>2. pc[spawned] = "none"
    BY <2>1 DEF Flow
  <2>3. Active' = Active \cup {spawned} /\ spawned \notin Active
    BY <1>a, <2>1, <2>2 DEF Active, Running
  <2>4. wg' = Cardinality(Active')
    BY <1>a, <2>1, <2>3, FS_AddElement
  <2>5. \A w \in Goroutines : pc'[w] = "none" <=> w >= spawned'
    <3>1. \A w \in Goroutines : pc[w] = "none" <=> w >= spawned
      BY <2>1 DEF Flow
    <3>2. \A w \in Goroutines : pc'[w] = IF w = spawned THEN "running" ELSE pc[w]
      BY <1>a, <2>1
    <3>3. \A w \in Goroutines : w \in Int
      BY DEF Goroutines
    <3> QED BY <2>1, <3>1, <3>2, <3>3
  <2> QED BY <2>1, <2>4, <2>5 DEF Flow
<1>3. CASE Wait
  <2>1. phase = "spawning" /\ phase' = "summing" /\ spawned = W /\ wg = 0 /\ UNCHANGED <<pc, wg>>
    BY <1>3 DEF Wait, Joined
  <2>2. Active = {} /\ Active' = {}
    BY <1>a, <2>1, FS_EmptySet DEF Active
  <2>3. \A w \in Goroutines : pc'[w] = "ended"
    BY <1>a, <2>1, <2>2 DEF Active, Running, Flow
  <2> QED BY <1>a, <2>1, <2>2, <2>3 DEF Flow
<1>4. CASE Sum \/ Summed \/ Simulated \/ Compare \/ UNCHANGED vars
  <2>1. /\ UNCHANGED <<pc, wg>> /\ (phase' = phase \/ (phase # "spawning" /\ phase' \notin {"spawning", "summing"}))
        /\ (UNCHANGED vars \/ phase # "spawning") /\ (phase' = "spawning" => spawned' = spawned)
    BY <1>4 DEF Sum, Summed, Simulated, Compare, vars
  <2>2. Active' = Active
    BY <2>1 DEF Active
  <2> QED BY <1>a, <2>1, <2>2 DEF Flow
<1>5. ASSUME NEW w \in Goroutines, Trial(w) PROVE Flow'
  <2>1. UNCHANGED <<pc, wg, phase, spawned>> /\ Active' = Active
    BY <1>5 DEF Trial, Active
  <2> QED BY <2>1 DEF Flow
<1>6. ASSUME NEW w \in Goroutines, Store(w) PROVE Flow'
  <2>1. pc[w] = "running" /\ pc' = [pc EXCEPT ![w] = "stored"] /\ UNCHANGED <<wg, phase, spawned>>
    BY <1>6 DEF Store
  <2>2. Active' = Active /\ w \in Active
    BY <1>a, <2>1 DEF Active, Running
  <2>3. phase = "spawning"
    BY <2>2 DEF Flow
  <2> QED BY <1>a, <2>1, <2>2, <2>3 DEF Flow
<1>7. ASSUME NEW w \in Goroutines, Done(w) PROVE Flow'
  <2>1. pc[w] = "stored" /\ pc' = [pc EXCEPT ![w] = "ended"] /\ wg' = wg - 1 /\ UNCHANGED <<phase, spawned>>
    BY <1>7 DEF Done, Marked
  <2>2. Active' = Active \ {w} /\ w \in Active
    BY <1>a, <2>1 DEF Active, Running
  <2>3. phase = "spawning"
    BY <2>2 DEF Flow
  <2>4. wg' = Cardinality(Active')
    BY <1>a, <2>1, <2>2, FS_RemoveElement
  <2> QED BY <1>a, <2>1, <2>3, <2>4 DEF Flow
<1> QED BY <1>1, <1>2, <1>3, <1>4, <1>5, <1>6, <1>7 DEF Next, Caller, Goroutine, Returned

-----------------------------------------------------------------------------
(* What is counted.                                                          *)

LEMMA InitCounts == Init => Counts /\ Found
<1> SUFFICES ASSUME Init PROVE Counts /\ Found
  OBVIOUS
<1>1. phase \in {"returned", "entering"} /\ depth = 1 /\ arm = "similarity"
      /\ \A a \in Arms : estimate[a] = None
  BY DEF Init
<1>2. Counts
  BY <1>1 DEF Counts
<1>3. 1..(1 - 1) = {}
  OBVIOUS
<1>4. FirstLead
  <2> SUFFICES ASSUME phase = "returned"
               PROVE  {d \in 1..MaxDepth : Survivors("structured", d) > Survivors("similarity", d)} = {} /\ crossover = 0
    BY DEF FirstLead
  <2>1. MaxDepth = 0 /\ crossover = 0
    BY DEF Init
  <2>2. 1..0 = {}
    OBVIOUS
  <2> QED BY <2>1, <2>2
<1> QED BY <1>1, <1>2, <1>3, <1>4 DEF Found

\* A goroutine's step keeps its own account, and nobody else's account moves.
LEMMA CountedStep ==
  ASSUME Typ, NEW w \in Goroutines, Goroutine(w), phase = "spawning", Counted(w)
  PROVE  Counted(w)'
<1> DEFINE D == draws[<<arm, depth>>]
<1>1. D \in SUBSET All
  BY DrawsType DEF Typ
<1>2. D' = D
  BY DEF Goroutine, Trial, Store, Done
<1>3. CASE Trial(w)
  <2>1. /\ pc[w] = "running" /\ pc' = pc /\ at' = [at EXCEPT ![w] = @ + W]
        /\ count' = [count EXCEPT ![w] = IF at[w] \in D THEN @ + 1 ELSE @]
    BY <1>3 DEF Trial
  <2>2. /\ at[w] \in Nat /\ at'[w] = at[w] + W
        /\ count'[w] = IF at[w] \in D THEN count[w] + 1 ELSE count[w]
    BY <2>1 DEF Typ
  <2>3. at[w] % W = w /\ count[w] = Cardinality(Stripe(D, w, at[w]))
    BY <2>1 DEF Counted
  <2> HIDE DEF D
  <2>4. at'[w] % W = w /\ count'[w] = Cardinality(Stripe(D, w, at'[w]))
    BY <1>1, <2>2, <2>3, StripeStep
  <2> QED BY <1>2, <2>1, <2>4 DEF Counted, D
<1>4. CASE Store(w)
  <2>1. /\ pc[w] = "running" /\ at[w] >= Trials /\ pc' = [pc EXCEPT ![w] = "stored"]
        /\ partial' = [partial EXCEPT ![w] = count[w]]
    BY <1>4 DEF Store
  <2>2. pc'[w] = "stored" /\ partial'[w] = count[w] /\ at[w] \in Nat
    BY <2>1 DEF Typ
  <2>3. count[w] = Cardinality(Stripe(D, w, at[w]))
    BY <2>1 DEF Counted
  <2> HIDE DEF D
  <2>4. partial'[w] = Cardinality(Stripe(D, w, Trials))
    BY <1>1, <2>1, <2>2, <2>3, StripeWhole
  <2> QED BY <1>2, <2>2, <2>4 DEF Counted, D
<1>5. CASE Done(w)
  <2>1. pc[w] = "stored" /\ pc'[w] = "ended" /\ UNCHANGED partial
    BY <1>5 DEF Done, Typ
  <2>2. partial[w] = Cardinality(Stripe(D, w, Trials))
    BY <2>1 DEF Counted
  <2> HIDE DEF D
  <2> QED BY <1>2, <2>1, <2>2 DEF Counted, D
<1> QED BY <1>3, <1>4, <1>5 DEF Goroutine

LEMMA NextCounts == Typ /\ Flow /\ Counts /\ [Next]_vars => Counts'
<1> SUFFICES ASSUME Typ, Flow, Counts, [Next]_vars PROVE Counts'
  OBVIOUS
<1> USE WPositive
<1> DEFINE D == draws[<<arm, depth>>]
<1>a. phase # "returned" => D \in SUBSET All
  BY DrawsType DEF Typ
<1>1. CASE Enter
  <2>1. /\ UNCHANGED <<draws, depth, arm>> /\ phase = "entering"
        /\ phase' = (IF Trials <= 0 THEN "counted" ELSE "spawning")
        /\ total' = 0 /\ summed' = 0 /\ \A w \in Goroutines : pc'[w] = "none"
    BY <1>1 DEF Enter
  <2>2. CASE Trials <= 0
    <3>1. All = {}
      BY <2>2, DepthSimAssumption DEF All
    <3>2. D = {} /\ D' = D /\ phase' = "counted"
      BY <1>a, <2>1, <2>2, <3>1
    <3>3. Survivors(arm, depth)' = Cardinality(D)
      BY <3>2 DEF Survivors
    <3>4. total' = Survivors(arm, depth)'
      BY <2>1, <3>2, <3>3, FS_EmptySet
    <3> QED BY <3>2, <3>4 DEF Counts
  <2>3. CASE ~ (Trials <= 0)
    <3>1. phase' = "spawning"
      BY <2>1, <2>3
    <3>2. \A w \in Goroutines : Counted(w)'
      BY <2>1, Zenon DEF Counted
    <3> QED BY <2>1, <3>1, <3>2 DEF Counts
  <2> QED BY <2>2, <2>3
<1>2. CASE Spawn
  <2>1. /\ phase = "spawning" /\ phase' = phase /\ spawned \in Goroutines
        /\ pc' = [pc EXCEPT ![spawned] = "running"]
        /\ at' = [at EXCEPT ![spawned] = spawned] /\ count' = [count EXCEPT ![spawned] = 0]
        /\ UNCHANGED <<draws, depth, arm, partial, summed, total>>
    BY <1>2 DEF Spawn, FirstTrial, Typ
  <2>2. pc'[spawned] = "running" /\ at'[spawned] = spawned /\ count'[spawned] = 0
    BY <2>1 DEF Typ
  <2>3. spawned % W = spawned /\ Stripe(D, spawned, spawned) = {}
    BY <1>a, <2>1, StripeStart
  <2>4. PICK v \in Goroutines : v = spawned
    BY <2>1
  <2>5. ASSUME NEW w \in Goroutines PROVE Counted(w)'
    <3>1. CASE w = v
      <4>1. D' = D
        BY <2>1
      <4>2. pc'[w] = "running" /\ at'[w] = w /\ count'[w] = 0 /\ w % W = w /\ Stripe(D, w, w) = {}
        BY <2>2, <2>3, <2>4, <3>1
      <4>3. count'[w] = Cardinality(Stripe(D', w, at'[w])) /\ at'[w] % W = w
        BY <4>1, <4>2, FS_EmptySet
      <4>4. pc'[w] \notin {"stored", "ended"}
        BY <4>2
      <4> QED BY <4>3, <4>4, Zenon DEF Counted
    <3>2. CASE w # v
      <4>1. pc'[w] = pc[w] /\ at'[w] = at[w] /\ count'[w] = count[w] /\ partial'[w] = partial[w]
        BY <2>1, <2>4, <3>2 DEF Typ
      <4>2. Counted(w)
        BY <2>1 DEF Counts
      <4> QED BY <2>1, <4>1, <4>2 DEF Counted
    <3> QED BY <3>1, <3>2
  <2>6. total' = 0 /\ summed' = 0
    BY <2>1 DEF Counts
  <2>7. \A w \in Goroutines : Counted(w)'
    BY <2>5
  <2> QED BY <2>1, <2>6, <2>7 DEF Counts
<1>3. CASE Wait
  <2>1. phase = "spawning" /\ phase' = "summing"
        /\ UNCHANGED <<draws, depth, arm, pc, at, count, partial, summed, total>>
    BY <1>3 DEF Wait
  <2>2. \A w \in Goroutines : Counted(w)'
    BY <2>1 DEF Counts, Counted
  <2>3. total = 0 /\ summed = 0
    BY <2>1 DEF Counts
  <2>4. Below(D, 0) = {}
    BY <1>a, <2>1, BelowEnds
  <2>5. total' = Cardinality(Below(D', summed'))
    BY <2>1, <2>3, <2>4, FS_EmptySet
  <2> QED BY <2>1, <2>2, <2>5 DEF Counts
<1>4. CASE Sum
  <2>1. /\ phase = "summing" /\ phase' = phase /\ summed \in Goroutines
        /\ total' = total + partial[summed] /\ summed' = summed + 1
        /\ UNCHANGED <<draws, depth, arm, pc, at, count, partial>>
    BY <1>4 DEF Sum, Typ
  <2>2. \A w \in Goroutines : Counted(w)'
    BY <2>1 DEF Counts, Counted
  <2>3. partial[summed] = Cardinality(Stripe(D, summed, Trials))
    BY <2>1 DEF Counts, Counted, Flow
  <2>4. Cardinality(Below(D, summed + 1)) = Cardinality(Below(D, summed)) + Cardinality(Stripe(D, summed, Trials))
    BY <1>a, <2>1, BelowStep
  <2>5. total = Cardinality(Below(D, summed))
    BY <2>1 DEF Counts
  <2>6. D' = D
    BY <2>1
  <2> HIDE DEF D
  <2>7. total' = Cardinality(Below(D', summed'))
    BY <2>1, <2>3, <2>4, <2>5, <2>6
  <2> QED BY <2>1, <2>2, <2>7 DEF Counts, D
<1>5. CASE Summed
  <2>1. phase = "summing" /\ phase' = "counted" /\ summed = W /\ UNCHANGED <<draws, depth, arm, total>>
    BY <1>5 DEF Summed
  <2>2. total = Cardinality(Below(D, W)) /\ Below(D, W) = D
    BY <1>a, <2>1, BelowEnds DEF Counts
  <2>3. Survivors(arm, depth)' = Cardinality(D)
    BY <2>1 DEF Survivors
  <2> QED BY <2>1, <2>2, <2>3 DEF Counts
<1>6. CASE Simulated \/ Compare
  <2>1. phase' \in {"entering", "returned"}
    BY <1>6 DEF Simulated, Compare
  <2> QED BY <2>1 DEF Counts
<1>7. ASSUME NEW w \in Goroutines, Goroutine(w) PROVE Counts'
  <2>1. w \in Active /\ UNCHANGED <<phase, draws, depth, arm, summed, total>>
    BY <1>7 DEF Goroutine, Trial, Store, Done, Active, Running
  <2>2. phase = "spawning"
    BY <2>1 DEF Flow
  <2>3. \A v \in Goroutines : Counted(v)
    BY <2>2 DEF Counts
  <2>4. Counted(w)'
    BY <1>7, <2>2, <2>3, CountedStep
  <2>5. ASSUME NEW v \in Goroutines, v # w PROVE Counted(v)'
    <3>1. pc'[v] = pc[v] /\ at'[v] = at[v] /\ count'[v] = count[v] /\ partial'[v] = partial[v]
      BY <1>7, <2>5 DEF Goroutine, Trial, Store, Done, Typ
    <3> QED BY <2>1, <2>3, <3>1 DEF Counted
  <2>6. \A v \in Goroutines : Counted(v)'
    BY <2>4, <2>5
  <2>7. phase = "spawning" => total = 0 /\ summed = 0
    BY DEF Counts
  <2> QED BY <2>1, <2>2, <2>6, <2>7 DEF Counts
<1>8. CASE UNCHANGED vars
  <2>1. UNCHANGED <<phase, draws, depth, arm, pc, at, count, partial, summed, total>>
    BY <1>8 DEF vars
  <2>2. \A w \in Goroutines : Counted(w) => Counted(w)'
    BY <2>1 DEF Counted
  <2>3. Survivors(arm, depth)' = Survivors(arm, depth)
    BY <2>1 DEF Survivors
  <2> QED BY <2>1, <2>2, <2>3 DEF Counts
<1> QED BY <1>1, <1>2, <1>3, <1>4, <1>5, <1>6, <1>7, <1>8 DEF Next, Caller, Returned

-----------------------------------------------------------------------------
(* What is found.                                                            *)

LEMMA NextFound == Typ /\ Flow /\ Counts /\ Found /\ [Next]_vars => Found'
<1> SUFFICES ASSUME Typ, Flow, Counts, Found, [Next]_vars PROVE Found'
  OBVIOUS
<1>a. draws' = draws /\ draws \in Draws
  BY DEF Next, Caller, Goroutine, Enter, Spawn, Wait, Sum, Summed, Simulated, Compare, Trial, Store,
         Done, Returned, vars, Typ
<1>b. \A a, d : Survivors(a, d)' = Survivors(a, d)
  BY <1>a DEF Survivors
<1>1. CASE UNCHANGED <<depth, arm, estimate, crossover>> /\ (phase' = "returned" <=> phase = "returned")
  BY <1>b, <1>1 DEF Found, FirstLead
<1>2. CASE Simulated
  <2>1. /\ phase = "counted" /\ arm = "similarity" /\ arm' = "structured" /\ phase' = "entering"
        /\ estimate' = [estimate EXCEPT !["similarity"] = total] /\ UNCHANGED depth
    BY <1>2 DEF Simulated
  <2>2. total = Survivors("similarity", depth) /\ total # None
    BY <2>1 DEF Counts, Typ, None
  <2>3. \A a \in Arms : estimate'[a] = IF a = "similarity" THEN total ELSE estimate[a]
    BY <2>1 DEF Typ
  <2>4. \A a \in Arms : estimate'[a] # None => estimate'[a] = Survivors(a, depth)
    BY <2>2, <2>3 DEF Found
  <2> QED BY <1>b, <2>1, <2>2, <2>3, <2>4 DEF Found, FirstLead, Arms
<1>3. CASE Compare
  <2>1. phase = "counted" /\ arm = "structured" /\ depth \in 1..MaxDepth
    BY <1>3 DEF Compare, Typ
  <2>2. total = Survivors("structured", depth) /\ estimate["similarity"] = Survivors("similarity", depth)
    BY <2>1 DEF Counts, Found, Arms
  <2>3. Leads <=> Survivors("structured", depth) > Survivors("similarity", depth)
    BY <2>2 DEF Leads
  <2>4. \A d \in 1..(depth - 1) : Survivors("structured", d) <= Survivors("similarity", d)
    BY <2>1 DEF Found
  <2>5. \A d \in 1..MaxDepth : Survivors("structured", d) \in Nat /\ Survivors("similarity", d) \in Nat
    BY <1>a, SurvivorsType DEF Arms
  <2>6. CASE Leads \/ depth = MaxDepth
    <3>1. /\ phase' = "returned" /\ UNCHANGED <<depth, arm>>
          /\ estimate' = [estimate EXCEPT !["structured"] = total]
          /\ crossover' = IF Leads THEN depth ELSE 0
      BY <1>3, <2>6 DEF Compare
    <3>2. \A a \in Arms : estimate'[a] = IF a = "structured" THEN total ELSE estimate[a]
      BY <3>1 DEF Typ
    <3>3. \A a \in Arms : estimate'[a] # None => estimate'[a] = Survivors(a, depth)
      BY <2>2, <3>2 DEF Found
    <3> DEFINE lead == {d \in 1..MaxDepth : Survivors("structured", d) > Survivors("similarity", d)}
    <3>4. IF lead = {} THEN crossover' = 0
          ELSE crossover' \in lead /\ \A d \in lead : crossover' <= d
      <4>1. \A d \in lead : depth <= d
        BY <2>1, <2>4, <2>5
      <4>2. CASE Leads
        BY <2>1, <2>3, <3>1, <4>1, <4>2
      <4>3. CASE ~ Leads
        <5>1. \A d \in lead : d = depth
          BY <2>1, <2>6, <4>1, <4>3
        <5>2. lead = {}
          BY <2>1, <2>3, <2>5, <4>3, <5>1
        <5> QED BY <3>1, <4>3, <5>2
      <4> QED BY <4>2, <4>3
    <3>5. FirstLead'
      BY <1>b, <3>4 DEF FirstLead
    <3> QED BY <1>b, <3>1, <3>3, <3>5 DEF Found
  <2>7. CASE ~ (Leads \/ depth = MaxDepth)
    <3>1. /\ phase' = "entering" /\ depth' = depth + 1 /\ arm' = "similarity"
          /\ estimate' = [a \in Arms |-> None]
      BY <1>3, <2>7 DEF Compare
    <3>2. \A d \in 1..(depth' - 1) : Survivors("structured", d) <= Survivors("similarity", d)
      <4> SUFFICES ASSUME NEW d \in 1..(depth' - 1)
                   PROVE  Survivors("structured", d) <= Survivors("similarity", d)
        OBVIOUS
      <4>a. depth \in Nat /\ MaxDepth \in Nat /\ depth <= MaxDepth /\ d \in 1..((depth + 1) - 1)
        BY <2>1, <3>1, DepthSimAssumption
      <4>1. d \in 1..MaxDepth /\ (d = depth \/ d \in 1..(depth - 1))
        BY <4>a
      <4> QED BY <2>3, <2>4, <2>5, <2>7, <4>1
    <3>3. \A a \in Arms : estimate'[a] = None
      BY <3>1
    <3> QED BY <1>b, <3>1, <3>2, <3>3 DEF Found, FirstLead
  <2> QED BY <2>6, <2>7
<1>4. Enter \/ Spawn \/ Wait \/ Sum \/ Summed \/ UNCHANGED vars \/ (\E w \in Goroutines : Goroutine(w))
        => UNCHANGED <<depth, arm, estimate, crossover>> /\ (phase' = "returned" <=> phase = "returned")
  BY DEF Enter, Spawn, Wait, Sum, Summed, vars, Goroutine, Trial, Store, Done
<1> QED BY <1>1, <1>2, <1>3, <1>4 DEF Next, Caller, Returned

-----------------------------------------------------------------------------
\* For any number of workers and under every schedule an estimate counts each
\* of its trials exactly once, and the slice is read only when no goroutine can
\* write to it any more.
THEOREM Estimates == Spec => []EstimateExact
<1>1. Typ /\ Flow /\ Counts /\ Found => EstimateExact
  <2> SUFFICES ASSUME Typ, Flow, Counts, Found PROVE EstimateExact
    OBVIOUS
  <2>1. wg \in 0..W
    <3>1. IsFiniteSet(0..(W - 1)) /\ Cardinality(0..(W - 1)) = W
      BY WPositive, FS_Interval
    <3>2. Active \subseteq 0..(W - 1)
      BY WPositive DEF Active
    <3>3. Cardinality(Active) <= W /\ Cardinality(Active) \in Nat
      BY <3>1, <3>2, FS_Subset, FS_CardinalityType
    <3> QED BY <3>3, WPositive DEF Flow
  <2>2. phase \in {"summing", "counted"} => \A w \in Goroutines : pc[w] \notin {"running", "stored"}
    BY DEF Flow, Active, Running
  <2> QED BY <2>1, <2>2 DEF EstimateExact, TypeOK, Typ, Found
<1> QED BY InitTyp, NextTyp, NextFlow, InitCounts, NextCounts, NextFound, <1>1, PTL DEF Spec

\* What EmpiricalCrossover returns is the first depth at which the structured
\* arm is strictly ahead, or 0 if there is none.
THEOREM CrossoverIsFirstLead == Spec => []FirstLead
<1>1. Found => FirstLead
  BY DEF Found
<1> QED BY InitTyp, NextTyp, NextFlow, InitCounts, NextCounts, NextFound, <1>1, PTL DEF Spec
==============================================================================
