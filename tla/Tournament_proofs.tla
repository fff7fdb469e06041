-------------------------- MODULE Tournament_proofs --------------------------
(***************************************************************************)
(* Proofs about Tournament, for every set of calls, whatever the models     *)
(* answer and cost; and, from "The order of the fractions" on, about the    *)
(* fractions and the closed forms of RecoveryTheory, which Study_proofs     *)
(* uses.                                                                    *)
(***************************************************************************)
EXTENDS Tournament, RecoveryTheory, FiniteSetTheorems, SequenceTheorems, WellFoundedInduction, TLAPS

-----------------------------------------------------------------------------
(* Induction, stated of sets of numbers.                                     *)

LEMMA Least ==
  ASSUME NEW T \in SUBSET Nat, T # {}
  PROVE  \E x \in T : \A y \in T : x <= y
<1> DEFINE R == {ss \in Nat \X Nat : ss[1] < ss[2]}
<1>1. IsWellFoundedOn(R, Nat)
  BY NatLessThanWellFounded, Zenon DEF OpToRel
<1>2. \E x \in T : \A y \in T : ~ (<<y, x>> \in R)
  <2> HIDE DEF R
  <2> QED BY <1>1, WFMin
<1>3. PICK x \in T : \A y \in T : ~ (<<y, x>> \in R)
  BY <1>2
<1>4. \A y \in T : ~ (y < x)
  BY <1>3
<1> QED BY <1>4

\* A set that holds a number whenever it holds the smaller ones holds them all.
LEMMA Induction ==
  ASSUME NEW S, \A n \in Nat : (\A m \in 0..(n - 1) : m \in S) => n \in S
  PROVE  Nat \subseteq S
<1> SUFFICES ASSUME NEW k \in Nat, k \notin S PROVE FALSE
  OBVIOUS
<1> DEFINE T == {n \in Nat : n \notin S}
<1>1. PICK x \in T : \A y \in T : x <= y
  <2>1. T \in SUBSET Nat /\ T # {}
    OBVIOUS
  <2> HIDE DEF T
  <2> QED BY <2>1, Least
<1>2. \A m \in 0..(x - 1) : m \in S
  BY <1>1
<1> QED BY <1>1, <1>2

\* The same, one number after another.
LEMMA Stepping ==
  ASSUME NEW S, 0 \in S, \A n \in Nat : n \in S => n + 1 \in S
  PROVE  Nat \subseteq S
<1>1. ASSUME NEW n \in Nat, \A m \in 0..(n - 1) : m \in S PROVE n \in S
  <2>1. CASE n = 0
    BY <2>1
  <2>2. CASE n # 0
    <3>1. n - 1 \in 0..(n - 1) /\ n - 1 \in Nat /\ (n - 1) + 1 = n
      BY <2>2
    <3>2. n - 1 \in S
      BY <1>1, <3>1
    <3> QED BY <3>1, <3>2
  <2> QED BY <2>1, <2>2
<1> QED BY <1>1, Induction

-----------------------------------------------------------------------------
(* Fractions.                                                                *)

IsGCD(b, f) == f = [y \in 0..b |-> [x \in Nat |-> IF y = 0 THEN x ELSE f[x % y][y]]]

LEMMA Division ==
  ASSUME NEW a \in Int, NEW b \in Nat, b > 0
  PROVE  /\ a = b * (a \div b) + (a % b) /\ a \div b \in Int
         /\ a % b \in Nat /\ a % b \in 0..(b - 1)
OBVIOUS

\* The recursion of GCD has a solution.
LEMMA GCDExists ==
  ASSUME NEW b \in Nat
  PROVE  \E f : IsGCD(b, f)
<1> DEFINE S == {k \in Nat : \E f : IsGCD(k, f)}
<1>1. 0 \in S
  <2> DEFINE f == [y \in 0..0 |-> [x \in Nat |-> x]]
  <2>1. f = [y \in 0..0 |-> [x \in Nat |-> IF y = 0 THEN x ELSE f[x % y][y]]]
    OBVIOUS
  <2> HIDE DEF f
  <2>2. IsGCD(0, f)
    BY <2>1 DEF IsGCD
  <2> QED BY <2>2
<1>2. \A k \in Nat : k \in S => k + 1 \in S
  <2> SUFFICES ASSUME NEW k \in Nat, k \in S PROVE k + 1 \in S
    OBVIOUS
  <2>1. PICK f : IsGCD(k, f)
    OBVIOUS
  <2>2. k + 1 \in Nat /\ k + 1 > 0
    OBVIOUS
  <2> DEFINE top == k + 1
             e == [y \in 0..top |-> IF y = top THEN [x \in Nat |-> f[x % y][y]] ELSE f[y]]
  <2>3. e[top] = [x \in Nat |-> f[x % top][top]] /\ \A y \in 0..k : e[y] = f[y]
    OBVIOUS
  <2>4. DOMAIN e = 0..top
    OBVIOUS
  <2> HIDE DEF e
  <2>5. \A y \in 0..k : e[y] = [x \in Nat |-> IF y = 0 THEN x ELSE e[x % y][y]]
    <3> SUFFICES ASSUME NEW y \in 0..k
                 PROVE  e[y] = [x \in Nat |-> IF y = 0 THEN x ELSE e[x % y][y]]
      OBVIOUS
    <3>1. e[y] = [x \in Nat |-> IF y = 0 THEN x ELSE f[x % y][y]]
      BY <2>1, <2>3 DEF IsGCD
    <3>2. ASSUME NEW x \in Nat, y # 0 PROVE f[x % y][y] = e[x % y][y]
      <4>1. x % y \in 0..k
        BY <3>2
      <4> QED BY <4>1, <2>3
    <3> QED BY <3>1, <3>2
  <2>6. e[top] = [x \in Nat |-> IF top = 0 THEN x ELSE e[x % top][top]]
    <3>1. ASSUME NEW x \in Nat PROVE f[x % top][top] = e[x % top][top]
      <4>1. x % top \in 0..k
        BY <2>2, Division
      <4> HIDE DEF top
      <4> QED BY <4>1, <2>3
    <3>2. top # 0
      OBVIOUS
    <3> HIDE DEF top
    <3> QED BY <2>3, <3>1, <3>2
  <2>7. \A y \in 0..top : e[y] = [x \in Nat |-> IF y = 0 THEN x ELSE e[x % y][y]]
    <3> SUFFICES ASSUME NEW y \in 0..top, y # top PROVE y \in 0..k
      BY <2>5, <2>6
    <3> QED OBVIOUS
  <2>8. e = [y \in 0..top |-> e[y]]
    BY <2>3 DEF e
  <2>9. IsGCD(top, e)
    <3> HIDE DEF top
    <3> QED BY <2>7, <2>8 DEF IsGCD
  <2> QED BY <2>9, <2>2
<1>3. b \in S
  <2> HIDE DEF S
  <2> QED BY <1>1, <1>2, Stepping
<1> QED BY <1>3

\* g divides a and b and is a sum of multiples of them.
Divides(g, a) == \E m \in Int : a = m * g
Combines(g, a, b) == \E u, v \in Int : g = u * a + v * b
IsCommon(g, a, b) == g \in Nat /\ g > 0 /\ Divides(g, a) /\ Divides(g, b) /\ Combines(g, a, b)

LEMMA CommonStep ==
  ASSUME NEW a \in Nat, NEW b \in Nat, b > 0, NEW g, IsCommon(g, b, a % b)
  PROVE  IsCommon(g, a, b)
<1> DEFINE q == a \div b
           r == a % b
<1>1. a = b * q + r /\ q \in Int /\ r \in Int
  BY Division
<1> HIDE DEF q, r
<1>2. PICK m \in Int : b = m * g
  BY DEF IsCommon, Divides
<1>3. PICK n \in Int : r = n * g
  BY DEF IsCommon, Divides, r
<1>4. PICK u, v \in Int : g = u * b + v * r
  BY DEF IsCommon, Combines, r
<1>5. g \in Nat /\ g > 0
  BY DEF IsCommon
<1>6. a = (m * q + n) * g
  BY <1>1, <1>2, <1>3, <1>5
<1>7. g = v * a + (u - v * q) * b
  BY <1>1, <1>4, <1>5
<1>8. m * q + n \in Int /\ u - v * q \in Int
  BY <1>1
<1> QED BY <1>2, <1>4, <1>5, <1>6, <1>7, <1>8 DEF IsCommon, Divides, Combines

\* What GCD computes, and that there is nothing to divide a number by but itself
\* when the other is zero.
LEMMA GCDCommon ==
  ASSUME NEW a \in Nat, NEW b \in Nat, a > 0 \/ b > 0
  PROVE  IsCommon(GCD(a, b), a, b) /\ (b = 0 => GCD(a, b) = a)
<1> DEFINE f == CHOOSE f : IsGCD(b, f)
<1>1. IsGCD(b, f)
  BY GCDExists
<1>2. GCD(a, b) = f[b][a]
  BY Zenon DEF GCD, IsGCD
<1> HIDE DEF f
<1>3. \A y \in 0..b, x \in Nat : f[y][x] = IF y = 0 THEN x ELSE f[x % y][y]
  BY <1>1 DEF IsGCD
<1> DEFINE S == {y \in Nat : y <= b => \A x \in Nat : x > 0 \/ y > 0 => IsCommon(f[y][x], x, y)}
<1>4. ASSUME NEW y \in Nat, \A z \in 0..(y - 1) : z \in S PROVE y \in S
  <2> SUFFICES ASSUME y <= b, NEW x \in Nat, x > 0 \/ y > 0 PROVE IsCommon(f[y][x], x, y)
    OBVIOUS
  <2>1. CASE y = 0
    <3>1. f[y][x] = x
      BY <1>3, <2>1
    <3>2. x = 1 * x /\ 0 = 0 * x /\ x = 1 * x + 0 * 0
      OBVIOUS
    <3>3. Divides(x, x) /\ Divides(x, 0) /\ Combines(x, x, 0)
      BY <3>2 DEF Divides, Combines
    <3> QED BY <2>1, <3>1, <3>3 DEF IsCommon
  <2>2. CASE y # 0
    <3>1. y > 0 /\ x % y \in 0..(y - 1) /\ x % y \in Nat
      BY <2>2, Division
    <3>2. IsCommon(f[x % y][y], y, x % y)
      <4>1. x % y \in S /\ x % y <= b
        BY <1>4, <3>1
      <4> QED BY <4>1, <3>1
    <3>3. f[y][x] = f[x % y][y]
      BY <1>3, <2>2
    <3>4. IsCommon(f[y][x], y, x % y)
      BY <3>2, <3>3
    <3> QED BY <3>1, <3>4, CommonStep
  <2> QED BY <2>1, <2>2
<1>5. b \in S
  <2> HIDE DEF S
  <2> QED BY <1>4, Induction
<1>6. IsCommon(f[b][a], a, b)
  BY <1>5
<1>7. b = 0 => f[b][a] = a
  BY <1>3
<1> QED BY <1>2, <1>6, <1>7

\* A fraction in lowest terms: p is n over d, and its terms have no common factor.
InTerms(p) == p = <<p[1], p[2]>> /\ p[1] \in Int /\ p[2] \in Nat /\ p[2] > 0
IsLowest(p) == InTerms(p) /\ Combines(1, p[1], p[2])
Stands(p, n, d) == p[1] * d = n * p[2]

LEMMA FracFacts ==
  ASSUME NEW n \in Int, NEW d \in Nat, d > 0
  PROVE  IsLowest(Frac(n, d)) /\ Stands(Frac(n, d), n, d)
<1> DEFINE q == n \div d
           r == n % d
           g == GCD(d, r)
<1>1. n = d * q + r /\ q \in Int /\ r \in Nat
  BY Division
<1>2. IsCommon(g, d, r)
  BY <1>1, GCDCommon
<1>3. Frac(n, d) = <<n \div g, d \div g>>
  BY DEF Frac, Reduced
<1> HIDE DEF q, r, g
<1>4. g \in Nat /\ g > 0
  BY <1>2 DEF IsCommon
<1>5. PICK e \in Int : d = e * g
  BY <1>2 DEF IsCommon, Divides
<1>6. PICK s \in Int : r = s * g
  BY <1>2 DEF IsCommon, Divides
<1>7. PICK u, v \in Int : g = u * d + v * r
  BY <1>2 DEF IsCommon, Combines
<1> DEFINE m == e * q + s
<1>8. n = m * g /\ m \in Int
  BY <1>1, <1>4, <1>5, <1>6
<1> HIDE DEF m
<1>9. n \div g = m
  BY <1>4, <1>8
<1>10. d \div g = e
  BY <1>4, <1>5
<1>11. e \in Nat /\ e > 0
  BY <1>4, <1>5
<1>12. 1 = v * m + (u - v * q) * e
  <2>1. g = v * n + (u - v * q) * d
    BY <1>1, <1>7
  <2>2. g * 1 = g * (v * m + (u - v * q) * e)
    BY <2>1, <1>1, <1>4, <1>5, <1>8
  <2>3. v * m + (u - v * q) * e \in Int
    BY <1>1, <1>8
  <2> DEFINE w == v * m + (u - v * q) * e
  <2> HIDE DEF w
  <2>4. g * 1 = g * w /\ w \in Int
    BY <2>2, <2>3 DEF w
  <2>5. w = 1
    BY <2>4, <1>4
  <2> QED BY <2>5 DEF w
<1>13. v \in Int /\ u - v * q \in Int
  BY <1>1
<1>14. Frac(n, d) = <<m, e>>
  BY <1>3, <1>9, <1>10
<1>15. m * d = n * e
  BY <1>4, <1>5, <1>8
<1>16. Combines(1, m, e)
  BY <1>12, <1>13 DEF Combines
<1> QED BY <1>8, <1>11, <1>14, <1>15, <1>16 DEF IsLowest, InTerms, Stands

LEMMA FracNat ==
  ASSUME NEW n \in Nat, NEW d \in Nat, d > 0
  PROVE  Frac(n, d) \in Nat \X Nat /\ Leq(Zero, Frac(n, d))
<1> DEFINE p == Frac(n, d)
<1>1. InTerms(p) /\ Stands(p, n, d)
  BY FracFacts DEF IsLowest
<1> HIDE DEF p
<1>2. p = <<p[1], p[2]>> /\ p[1] \in Int /\ p[2] \in Nat /\ p[2] > 0 /\ p[1] * d = n * p[2]
  BY <1>1 DEF InTerms, Stands
<1>3. p[1] >= 0
  <2> DEFINE x == p[1]
             y == p[2]
  <2>1. x \in Int /\ y \in Nat /\ x * d = n * y
    BY <1>2
  <2> HIDE DEF x, y
  <2>2. x >= 0
    <3>1. n * y >= 0
      BY <2>1
    <3>2. x * d >= 0
      BY <2>1, <3>1
    <3> QED BY <2>1, <3>2
  <2> QED BY <2>2 DEF x
<1>4. p \in Nat \X Nat
  BY <1>2, <1>3
<1>5. Leq(Zero, p)
  BY <1>2, <1>3 DEF Leq, Zero, Whole
<1> QED BY <1>4, <1>5 DEF p

LEMMA FracMonotone ==
  ASSUME NEW n \in Nat, NEW m \in Nat, n <= m, NEW d \in Nat, d > 0
  PROVE  Leq(Frac(n, d), Frac(m, d))
<1>1. PICK p : p = Frac(n, d)
  OBVIOUS
<1>2. PICK q : q = Frac(m, d)
  OBVIOUS
<1>3. InTerms(p) /\ Stands(p, n, d) /\ InTerms(q) /\ Stands(q, m, d)
  BY <1>1, <1>2, FracFacts DEF IsLowest
<1>4. \A a, x \in Int, b, y \in Nat : b > 0 /\ y > 0 /\ a * d = n * b /\ x * d = m * y => a * y <= x * b
  <2> SUFFICES ASSUME NEW a \in Int, NEW x \in Int, NEW b \in Nat, NEW y \in Nat,
                      b > 0, y > 0, a * d = n * b, x * d = m * y
               PROVE  a * y <= x * b
    OBVIOUS
  <2>1. (a * y) * d = n * (b * y) /\ (x * b) * d = m * (b * y)
    <3>1. (a * y) * d = (a * d) * y /\ (x * b) * d = (x * d) * b
      OBVIOUS
    <3>2. (n * b) * y = n * (b * y) /\ (m * y) * b = m * (b * y)
      OBVIOUS
    <3> QED BY <3>1, <3>2
  <2>2. n * (b * y) <= m * (b * y)
    OBVIOUS
  <2> DEFINE l == a * y
             r == x * b
  <2>3. l \in Int /\ r \in Int /\ l * d <= r * d
    BY <2>1, <2>2
  <2> HIDE DEF l, r
  <2>4. l <= r
    BY <2>3
  <2> QED BY <2>4 DEF l, r
<1>5. p[1] * q[2] <= q[1] * p[2]
  BY <1>3, <1>4 DEF InTerms, Stands
<1> QED BY <1>1, <1>2, <1>5 DEF Leq

-----------------------------------------------------------------------------
(* The ledgers of the call in progress.                                      *)

\* What the model was paid for, and run_task's record of it.
Bills == [input : Nat, output : Nat, good : BOOLEAN, dollars : Nat \X Nat]
Records == [attempt : Nat, response : Bills]
Turns == [turn : Nat, prompt : Nat, completion : Nat, resolved : BOOLEAN, dollars : Nat \X Nat]

Stages == {"called", "retrieving", "attempting", "attempted", "turning", "returned", "raised",
           "collected"}

Typ ==
  /\ call \in Calls /\ pc \in Stages /\ todo \subseteq Calls
  /\ writes \in 0..1
  /\ billed \in Seq(Bills) /\ records \in Seq(Records) /\ turns \in Seq(Turns)

\* The records are of what was billed first, the turns of all of it, and only
\* the last answer can be a good one.
Entered ==
  /\ Len(records) <= Len(billed)
  /\ \A i \in 1..Len(records) : records[i].attempt = i /\ records[i].response = billed[i]
  /\ turns = <<>> => Len(records) = Len(billed)
  /\ turns # <<>> => Len(turns) = Len(billed)
  /\ \A i \in 1..Len(turns) : turns[i] = FromResponse(i, billed[i])
  /\ \A i \in 1..(Len(billed) - 1) : ~billed[i].good

\* The caps.
Capped ==
  /\ records # <<>> => Len(records) <= MaxAttempts /\ Prices[call.model] # None
  /\ turns # <<>> => /\ call.fn = "run_session" /\ Len(turns) <= call.maxTurns
                     /\ Prices[call.model] # None

\* How far the call is.
Reached ==
  /\ pc = "called" => writes = 0
  /\ pc \in {"called", "retrieving"} => billed = <<>>
  /\ pc \in {"called", "retrieving", "attempting", "attempted"} => turns = <<>>
  /\ pc \in {"retrieving", "attempting", "attempted"} /\ call.fn = "run_session" => call.maxTurns >= 1
  /\ pc = "attempting" /\ records # <<>> => Retrying /\ ~records[Len(records)].response.good
  /\ pc = "attempted" \/ (pc = "returned" /\ call.fn = "run_task") =>
       IF Retrying THEN \/ Len(records) >= MaxAttempts
                        \/ records # <<>> /\ records[Len(records)].response.good
                   ELSE Len(records) = 1
  /\ pc = "turning" => turns # <<>>
  /\ pc = "returned" /\ call.fn = "run_session" => turns # <<>> /\ ~More

Inv == Typ /\ Entered /\ Capped /\ Reached

LEMMA AppendFacts ==
  ASSUME NEW T, NEW s \in Seq(T), NEW x \in T
  PROVE  /\ Append(s, x) \in Seq(T) /\ Len(Append(s, x)) = Len(s) + 1 /\ Append(s, x) # <<>>
         /\ Append(s, x)[Len(s) + 1] = x
         /\ \A i \in 1..Len(s) : Append(s, x)[i] = s[i]
<1>1. Append(s, x) \in Seq(T) /\ Len(Append(s, x)) = Len(s) + 1 /\ Len(s) \in Nat
  OBVIOUS
<1>2. Append(s, x) # <<>>
  BY <1>1
<1> QED BY <1>1, <1>2

CallFacts(c) ==
  /\ c.fn \in {"run_task", "run_session"} /\ c.maxAttempts \in Int /\ c.maxTurns \in Int
  /\ c.fn = "run_session" => c.policy = "single_shot"

LEMMA CallKnown ==
  ASSUME NEW c \in Calls
  PROVE  CallFacts(c)
BY AgentSessionAssumption DEF CallFacts

\* A bill of a priced model is a bill.
LEMMA BillingFacts ==
  ASSUME NEW r \in Responses, call \in Calls, Prices[call.model] # None
  PROVE  Billing(r) \in Bills /\ Billing(r).good = r.good
<1>1. r.input \in Nat /\ r.output \in Nat /\ r.good \in BOOLEAN
  BY AgentSessionAssumption
<1>2. Prices[call.model].input \in Nat /\ Prices[call.model].output \in Nat
  BY AgentSessionAssumption
<1> DEFINE n == r.input * Prices[call.model].input + r.output * Prices[call.model].output
           dollars == PriceDollars(call.model, r.input, r.output)
<1>3. n \in Nat /\ 1000000 \in Nat /\ 1000000 > 0
  BY <1>1, <1>2
<1>4. dollars = Frac(n, 1000000)
  BY DEF PriceDollars
<1> HIDE DEF n
<1>5. dollars \in Nat \X Nat
  BY <1>3, <1>4, FracNat
<1> HIDE DEF dollars
<1>6. Billing(r) = [input |-> r.input, output |-> r.output, good |-> r.good, dollars |-> dollars]
  BY DEF Billing, dollars
<1> QED BY <1>1, <1>5, <1>6 DEF Bills

LEMMA InitInv == Init => Inv
<1> SUFFICES ASSUME Init PROVE Inv
  OBVIOUS
<1>1. /\ call \in Calls /\ pc = "called" /\ todo \subseteq Calls
      /\ writes = 0 /\ billed = <<>> /\ records = <<>> /\ turns = <<>>
  BY DEF Init, Start
<1>2. Typ
  <2>1. <<>> \in Seq(Bills) /\ <<>> \in Seq(Records) /\ <<>> \in Seq(Turns)
    OBVIOUS
  <2> QED BY <1>1, <2>1 DEF Typ, Stages
<1>3. Entered /\ Capped
  BY <1>1 DEF Entered, Capped
<1>4. Reached
  BY <1>1 DEF Reached
<1> QED BY <1>2, <1>3, <1>4 DEF Inv

\* The steps that only go on.
Moves == Refuse \/ Retrieve \/ Exhausted \/ ReturnRecords \/ Conclude \/ Break \/ Collect

LEMMA MovesInv == ASSUME Inv, Moves, UNCHANGED todo PROVE Inv'
<1>1. UNCHANGED <<call, todo, writes, billed, records, turns>> /\ pc' \in Stages
  BY DEF Moves, Refuse, Retrieve, Exhausted, ReturnRecords, Conclude, Break, Collect, Stages
<1>2. Typ'
  BY <1>1 DEF Inv, Typ
<1>3. Entered' /\ Capped' /\ More' = More /\ Retrying' = Retrying /\ MaxAttempts' = MaxAttempts
  BY <1>1 DEF Inv, Entered, Capped, MaxAttempts, Retrying, More, FromResponse
<1>4. CallFacts(call)
  BY CallKnown DEF Inv, Typ
<1>5. Reached'
  <2> USE <1>1, <1>3 DEF Inv, Reached
  <2>1. CASE Refuse
    BY <2>1, <1>4 DEF Refuse, CallFacts
  <2>2. CASE Retrieve
    BY <2>2 DEF Retrieve, Entered
  <2>3. CASE Exhausted
    <3>1. pc = "attempting" /\ Len(records) >= MaxAttempts /\ pc' = "attempted"
      BY <2>3 DEF Exhausted, Spent
    <3>2. Retrying
      <4> SUFFICES ASSUME ~Retrying PROVE FALSE
        OBVIOUS
      <4>1. Len(records) >= 1
        BY <3>1 DEF MaxAttempts
      <4>2. records # <<>>
        BY <4>1
      <4> QED BY <3>1, <4>2
    <3> QED BY <3>1, <3>2
  <2>4. CASE ReturnRecords
    BY <2>4, <1>4 DEF ReturnRecords, CallFacts
  <2>5. CASE Conclude
    BY <2>5, <1>4 DEF Conclude, Capped, CallFacts
  <2>6. CASE Break
    BY <2>6 DEF Break
  <2>7. CASE Collect
    BY <2>7 DEF Collect
  <2> QED BY <2>1, <2>2, <2>3, <2>4, <2>5, <2>6, <2>7 DEF Moves
<1> QED BY <1>2, <1>3, <1>5 DEF Inv

LEMMA WriteInv == ASSUME Inv, Write, UNCHANGED todo PROVE Inv'
<1>1. /\ UNCHANGED <<call, todo, billed, records, turns>> /\ pc = "called"
      /\ writes' = writes + 1 /\ pc' \in {"retrieving", "raised"}
      /\ call.fn = "run_session" => call.maxTurns >= 1
  BY DEF Write
<1>2. writes = 0 /\ billed = <<>> /\ turns = <<>>
  BY <1>1 DEF Inv, Reached
<1>3. Typ'
  BY <1>1, <1>2 DEF Inv, Typ, Stages
<1>4. Entered' /\ Capped' /\ Retrying' = Retrying /\ MaxAttempts' = MaxAttempts
  BY <1>1 DEF Inv, Entered, Capped, MaxAttempts, Retrying, FromResponse
<1>5. Reached'
  BY <1>1, <1>2 DEF Reached
<1> QED BY <1>3, <1>4, <1>5 DEF Inv

LEMMA AttemptInv == ASSUME Inv, Attempt, UNCHANGED todo PROVE Inv'
<1>1. /\ pc = "attempting" /\ Len(records) < MaxAttempts /\ Prices[call.model] # None
      /\ UNCHANGED <<call, todo, writes, turns>>
  BY DEF Attempt
<1>2. PICK r \in Responses :
        /\ billed' = Append(billed, Billing(r))
        /\ records' = Append(records, [attempt |-> Len(records) + 1, response |-> Billing(r)])
        /\ pc' = IF LastAttempt(r) THEN "attempted" ELSE "attempting"
  BY DEF Attempt
<1>3. PICK b : b = Billing(r)
  OBVIOUS
<1>4. PICK x : x = [attempt |-> Len(records) + 1, response |-> b]
  OBVIOUS
<1>5. b \in Bills /\ b.good = r.good
  BY <1>1, <1>3, BillingFacts DEF Inv, Typ
<1>6. Len(records) \in Nat /\ records \in Seq(Records) /\ billed \in Seq(Bills) /\ turns = <<>>
      /\ Len(billed) = Len(records)
  BY <1>1 DEF Inv, Typ, Reached, Entered
<1>7. x \in Records /\ x.attempt = Len(records) + 1 /\ x.response = b
  BY <1>4, <1>5, <1>6 DEF Records
<1>8. /\ billed' \in Seq(Bills) /\ Len(billed') = Len(billed) + 1 /\ billed' # <<>>
      /\ billed'[Len(billed) + 1] = b /\ \A i \in 1..Len(billed) : billed'[i] = billed[i]
  BY <1>2, <1>3, <1>5, <1>6, AppendFacts
<1>9. /\ records' \in Seq(Records) /\ Len(records') = Len(records) + 1 /\ records' # <<>>
      /\ records'[Len(records) + 1] = x /\ \A i \in 1..Len(records) : records'[i] = records[i]
  BY <1>2, <1>3, <1>4, <1>6, <1>7, AppendFacts
<1>10. Typ'
  BY <1>1, <1>2, <1>8, <1>9 DEF Inv, Typ, Stages
<1>11. Entered'
  <2>1. \A i \in 1..Len(records') : records'[i].attempt = i /\ records'[i].response = billed'[i]
    BY <1>6, <1>7, <1>8, <1>9 DEF Inv, Entered
  <2>2. \A i \in 1..(Len(billed') - 1) : ~billed'[i].good
    <3>1. records # <<>> => ~records[Len(records)].response.good
      BY <1>1 DEF Inv, Reached
    <3>2. ASSUME NEW i \in 1..Len(billed) PROVE ~billed[i].good
      <4>1. CASE i = Len(billed)
        <5>1. records # <<>> /\ records[i].response = billed[i]
          BY <1>6, <4>1 DEF Inv, Entered
        <5> QED BY <3>1, <1>6, <4>1, <5>1
      <4>2. CASE i # Len(billed)
        BY <1>6, <4>2 DEF Inv, Entered
      <4> QED BY <4>1, <4>2
    <3> QED BY <1>6, <1>8, <3>2
  <2>3. Len(records') <= Len(billed') /\ Len(records') = Len(billed') /\ turns' = <<>>
    BY <1>1, <1>6, <1>8, <1>9
  <2> QED BY <2>1, <2>2, <2>3 DEF Entered
<1>12. Retrying' = Retrying /\ MaxAttempts' = MaxAttempts /\ MaxAttempts \in Int
  BY <1>1, CallKnown DEF Retrying, MaxAttempts, Inv, Typ, CallFacts
<1>13. Capped'
  BY <1>1, <1>6, <1>9, <1>12 DEF Capped
<1>14. Reached'
  <2>1. records'[Len(records')].response.good = r.good
    BY <1>5, <1>6, <1>7, <1>9
  <2>2. pc' \in {"attempting", "attempted"} /\ turns' = <<>>
    BY <1>1, <1>2, <1>6
  <2>3. call.fn = "run_session" => call.maxTurns >= 1
    BY <1>1 DEF Inv, Reached
  <2>4. pc' = "attempting" => Retrying /\ ~records'[Len(records')].response.good
    BY <1>2, <2>1 DEF LastAttempt
  <2>5. pc' = "attempted" => IF Retrying THEN records'[Len(records')].response.good
                                         ELSE Len(records') = 1
    <3>1. ~Retrying => Len(records') = 1
      BY <1>1, <1>6, <1>9 DEF MaxAttempts
    <3> QED BY <1>2, <2>1, <3>1 DEF LastAttempt
  <2> QED BY <1>1, <1>9, <1>12, <2>2, <2>3, <2>4, <2>5 DEF Reached
<1> QED BY <1>10, <1>11, <1>13, <1>14 DEF Inv

LEMMA TurnFacts ==
  ASSUME NEW b \in Bills, NEW i \in Nat
  PROVE  FromResponse(i, b) \in Turns /\ FromResponse(i, b).resolved = b.good
BY DEF FromResponse, Bills, Turns

LEMMA FirstTurnInv == ASSUME Inv, FirstTurn, UNCHANGED todo PROVE Inv'
<1>1. /\ pc = "attempted" /\ call.fn = "run_session" /\ pc' = "turning"
      /\ turns' = <<FromResponse(1, Head(records).response)>>
      /\ UNCHANGED <<call, todo, writes, billed, records>>
  BY DEF FirstTurn
<1>2. ~Retrying
  <2>1. CallFacts(call)
    BY CallKnown DEF Inv, Typ
  <2> QED BY <1>1, <2>1 DEF Retrying, CallFacts
<1>15. Retrying' = Retrying /\ MaxAttempts' = MaxAttempts
  <2>1. call' = call
    BY <1>1
  <2> QED BY <2>1 DEF Retrying, MaxAttempts
<1>3. turns = <<>> /\ Len(records) = 1 /\ records # <<>> /\ Len(billed) = 1
  <2>1. turns = <<>> /\ Len(records) = 1
    BY <1>1, <1>2 DEF Inv, Reached
  <2>2. records # <<>>
    BY <2>1
  <2> QED BY <2>1, <2>2 DEF Inv, Entered
<1>4. billed \in Seq(Bills) /\ records \in Seq(Records)
  BY DEF Inv, Typ
<1>5. billed[1] \in Bills /\ Head(records).response = billed[1]
  BY <1>3, <1>4 DEF Inv, Entered
<1>6. PICK t : t = FromResponse(1, billed[1])
  OBVIOUS
<1>7. t \in Turns
  BY <1>5, <1>6, TurnFacts
<1>8. turns' = <<t>>
  BY <1>1, <1>5, <1>6
<1>9. turns' \in Seq(Turns) /\ Len(turns') = 1 /\ turns' # <<>> /\ turns'[1] = t
  BY <1>7, <1>8
<1>10. Typ'
  BY <1>1, <1>9 DEF Inv, Typ, Stages
<1>11. Entered'
  <2>1. \A i \in 1..Len(turns') : turns'[i] = FromResponse(i, billed'[i])
    BY <1>1, <1>6, <1>9
  <2>2. /\ Len(records') <= Len(billed')
        /\ \A i \in 1..Len(records') : records'[i].attempt = i /\ records'[i].response = billed'[i]
        /\ \A i \in 1..(Len(billed') - 1) : ~billed'[i].good
    BY <1>1 DEF Inv, Entered
  <2>3. turns' # <<>> /\ Len(turns') = Len(billed')
    BY <1>1, <1>3, <1>9
  <2> QED BY <2>1, <2>2, <2>3 DEF Entered
<1>12. call.maxTurns >= 1 /\ call.maxTurns \in Int
  BY <1>1, CallKnown DEF Inv, Reached, Typ, CallFacts
<1>13. Capped'
  <2>1. records # <<>> => Len(records) <= MaxAttempts /\ Prices[call.model] # None
    BY DEF Inv, Capped
  <2> QED BY <1>1, <1>15, <1>3, <1>9, <1>12, <2>1 DEF Capped
<1>14. Reached'
  BY <1>1, <1>9 DEF Reached
<1> QED BY <1>10, <1>11, <1>13, <1>14 DEF Inv

LEMMA FollowUpInv == ASSUME Inv, FollowUp, UNCHANGED todo PROVE Inv'
<1>1. /\ pc = "turning" /\ ~Last(turns).resolved /\ Len(turns) < call.maxTurns
      /\ UNCHANGED <<call, todo, pc, writes, records>>
  BY DEF FollowUp, More
<1>2. PICK r \in Responses :
        /\ billed' = Append(billed, Billing(r))
        /\ turns' = Append(turns, FromResponse(Len(turns) + 1, Billing(r)))
  BY DEF FollowUp
<1>3. turns # <<>> /\ Prices[call.model] # None /\ call.fn = "run_session"
  BY <1>1 DEF Inv, Reached, Capped
<1>4. PICK b : b = Billing(r)
  OBVIOUS
<1>5. b \in Bills
  BY <1>3, <1>4, BillingFacts DEF Inv, Typ
<1>6. /\ billed \in Seq(Bills) /\ records \in Seq(Records) /\ turns \in Seq(Turns)
      /\ Len(turns) \in Nat /\ Len(turns) = Len(billed) /\ Len(turns) > 0
  BY <1>3 DEF Inv, Typ, Entered
<1>7. PICK t : t = FromResponse(Len(turns) + 1, b)
  OBVIOUS
<1>8. t \in Turns
  BY <1>5, <1>6, <1>7, TurnFacts
<1>9. /\ billed' \in Seq(Bills) /\ Len(billed') = Len(billed) + 1 /\ billed' # <<>>
      /\ billed'[Len(billed) + 1] = b /\ \A i \in 1..Len(billed) : billed'[i] = billed[i]
  BY <1>2, <1>4, <1>5, <1>6, AppendFacts
<1>10. /\ turns' \in Seq(Turns) /\ Len(turns') = Len(turns) + 1 /\ turns' # <<>>
       /\ turns'[Len(turns) + 1] = t /\ \A i \in 1..Len(turns) : turns'[i] = turns[i]
  BY <1>2, <1>4, <1>6, <1>7, <1>8, AppendFacts
<1>11. Typ'
  BY <1>1, <1>9, <1>10 DEF Inv, Typ
<1>12. Entered'
  <2>1. \A i \in 1..Len(turns') : turns'[i] = FromResponse(i, billed'[i])
    <3>1. \A i \in 1..Len(turns) : turns[i] = FromResponse(i, billed[i])
      BY DEF Inv, Entered
    <3> QED BY <1>6, <1>7, <1>9, <1>10, <3>1
  <2>2. \A i \in 1..(Len(billed') - 1) : ~billed'[i].good
    <3>1. ~billed[Len(billed)].good
      <4>1. turns[Len(turns)] = FromResponse(Len(turns), billed[Len(turns)])
        BY <1>6 DEF Inv, Entered
      <4> QED BY <1>1, <1>6, <4>1 DEF FromResponse, Last
    <3>2. \A i \in 1..(Len(billed) - 1) : ~billed[i].good
      BY DEF Inv, Entered
    <3> QED BY <1>6, <1>9, <3>1, <3>2
  <2>3. /\ Len(records) <= Len(billed) /\ Len(records) \in Nat
        /\ \A i \in 1..Len(records) : records[i].attempt = i /\ records[i].response = billed[i]
    BY <1>6 DEF Inv, Entered
  <2>4. /\ Len(records') <= Len(billed')
        /\ \A i \in 1..Len(records') : records'[i].attempt = i /\ records'[i].response = billed'[i]
    BY <1>1, <1>6, <1>9, <2>3
  <2>5. turns' # <<>> /\ Len(turns') = Len(billed')
    BY <1>6, <1>9, <1>10
  <2> QED BY <2>1, <2>2, <2>4, <2>5 DEF Entered
<1>13. Retrying' = Retrying /\ MaxAttempts' = MaxAttempts /\ call.maxTurns \in Int
  BY <1>1, CallKnown DEF Retrying, MaxAttempts, Inv, Typ, CallFacts
<1>14. Capped'
  <2>1. records # <<>> => Len(records) <= MaxAttempts
    BY DEF Inv, Capped
  <2> QED BY <1>1, <1>3, <1>6, <1>10, <1>13, <2>1 DEF Capped
<1>15. Reached'
  BY <1>1, <1>10 DEF Reached
<1> QED BY <1>11, <1>12, <1>14, <1>15 DEF Inv

LEMMA NextCallInv == ASSUME Inv, NextCall PROVE Inv'
<1>1. /\ call' \in Calls /\ pc' = "called" /\ todo' \subseteq Calls
      /\ writes' = 0 /\ billed' = <<>> /\ records' = <<>> /\ turns' = <<>>
  BY DEF NextCall, Inv, Typ
<1>2. Typ'
  <2>1. <<>> \in Seq(Bills) /\ <<>> \in Seq(Records) /\ <<>> \in Seq(Turns)
    OBVIOUS
  <2> QED BY <1>1, <2>1 DEF Typ, Stages
<1>3. Entered' /\ Capped'
  BY <1>1 DEF Entered, Capped
<1>4. Reached'
  BY <1>1 DEF Reached
<1> QED BY <1>2, <1>3, <1>4 DEF Inv

LEMMA NextInv == Inv /\ [Next]_vars => Inv'
<1> SUFFICES ASSUME Inv, [Next]_vars PROVE Inv'
  OBVIOUS
<1>1. CASE UNCHANGED vars
  <2>1. UNCHANGED <<call, pc, todo, writes, billed, records, turns>>
    BY <1>1 DEF vars, callVars
  <2>2. Typ' /\ Entered' /\ Capped'
    BY <2>1 DEF Inv, Typ, Entered, Capped, Retrying, MaxAttempts, FromResponse
  <2>3. Reached'
    BY <2>1 DEF Inv, Reached, Retrying, MaxAttempts, More
  <2> QED BY <2>2, <2>3 DEF Inv
<1>2. CASE Moves /\ UNCHANGED todo
  BY <1>2, MovesInv
<1>3. CASE Write /\ UNCHANGED todo
  BY <1>3, WriteInv
<1>4. CASE Attempt /\ UNCHANGED todo
  BY <1>4, AttemptInv
<1>5. CASE FirstTurn /\ UNCHANGED todo
  BY <1>5, FirstTurnInv
<1>6. CASE FollowUp /\ UNCHANGED todo
  BY <1>6, FollowUpInv
<1>7. CASE NextCall
  BY <1>7, NextCallInv
<1>8. Collect => UNCHANGED todo
  BY DEF Collect
<1> QED BY <1>1, <1>2, <1>3, <1>4, <1>5, <1>6, <1>7, <1>8 DEF Next, Go, Advance, Moves

\* Every state of the sweep is one of the invariant's: the ledgers of the call
\* in progress are filled in step, up to their caps (runner.py, session.py).
THEOREM InvHolds == Spec => []Inv
<1> QED BY InitInv, NextInv, PTL DEF Spec

-----------------------------------------------------------------------------
(* Folds over a sequence, from its first element to its last.                *)

LEMMA MaxIs ==
  ASSUME NEW S \in SUBSET Int, NEW x \in S, \A y \in S : y <= x
  PROVE  Max(S) = x
<1>1. \E m \in S : \A y \in S : m >= y
  OBVIOUS
<1>2. Max(S) \in S /\ \A y \in S : Max(S) >= y
  BY <1>1, Zenon DEF Max
<1>3. Max(S) >= x /\ Max(S) <= x /\ Max(S) \in Int
  BY <1>2
<1> QED BY <1>3

LEMMA MaxFacts ==
  ASSUME NEW n \in Nat, NEW S \in SUBSET (1..n), S # {}
  PROVE  Max(S) \in S /\ \A y \in S : y <= Max(S)
<1> DEFINE T == {k \in Nat : \E y \in S : k = n - y}
<1>1. PICK z \in S : TRUE
  OBVIOUS
<1>2. n - z \in T
  BY <1>1
<1>3. PICK k \in T : \A l \in T : k <= l
  <2>1. T \in SUBSET Nat /\ T # {}
    BY <1>2
  <2> HIDE DEF T
  <2> QED BY <2>1, Least
<1>4. PICK x \in S : k = n - x
  OBVIOUS
<1>5. ASSUME NEW y \in S PROVE y <= x
  <2>1. n - y \in T
    OBVIOUS
  <2>2. k <= n - y
    BY <1>3, <2>1
  <2> QED BY <2>2, <1>4
<1>6. Max(S) = x
  BY <1>5, MaxIs
<1> QED BY <1>5, <1>6

\* f folds s by the step g from b, over every set of its first n positions.
IsFold(n, b, g, s, f) ==
  f = [S \in SUBSET (1..n) |->
         IF S = {} THEN b ELSE g[<<f[S \ {Max(S)}], s[Max(S)]>>]]

HasFold(n, T, b, g, s) == \E f \in [SUBSET (1..n) -> T] : IsFold(n, b, g, s, f)

\* The step g goes from a value of T and an element of X to a value of T.
CanFold(n, T, b, X, g, s) == b \in T /\ g \in [T \X X -> T] /\ \A i \in 1..n : s[i] \in X

LEMMA FoldExists ==
  ASSUME NEW n \in Nat, NEW T, NEW b, NEW X, NEW g, NEW s, CanFold(n, T, b, X, g, s)
  PROVE  HasFold(n, T, b, g, s)
<1> DEFINE K == {k \in Nat : k <= n => HasFold(k, T, b, g, s)}
<1>4. b \in T /\ g \in [T \X X -> T] /\ \A i \in 1..n : s[i] \in X
  BY DEF CanFold
<1>1. 0 \in K
  <2> DEFINE f == [S \in SUBSET (1..0) |-> b]
  <2>1. \A S \in SUBSET (1..0) : S = {}
    OBVIOUS
  <2>2. f \in [SUBSET (1..0) -> T] /\ IsFold(0, b, g, s, f)
    BY <1>4, <2>1 DEF IsFold
  <2> HIDE DEF f
  <2> QED BY <2>2 DEF HasFold
<1>2. \A k \in Nat : k \in K => k + 1 \in K
  <2> SUFFICES ASSUME NEW k \in Nat, k \in K, k + 1 <= n
               PROVE  HasFold(k + 1, T, b, g, s)
    OBVIOUS
  <2>9. HasFold(k, T, b, g, s)
    OBVIOUS
  <2>1. PICK f \in [SUBSET (1..k) -> T] : IsFold(k, b, g, s, f)
    BY <2>9 DEF HasFold
  <2>2. PICK top : top = k + 1
    OBVIOUS
  <2>3. top \in Nat /\ top \in 1..n /\ top \notin 1..k /\ 1..top = (1..k) \cup {top} /\ s[top] \in X
    BY <1>4, <2>2
  <2> DEFINE e == [S \in SUBSET (1..top) |->
                     IF top \in S THEN g[<<f[S \ {top}], s[top]>>] ELSE f[S]]
  <2>4. ASSUME NEW S \in SUBSET (1..top)
        PROVE  /\ S \ {top} \in SUBSET (1..k) /\ (top \notin S => S \in SUBSET (1..k))
               /\ (top \in S => Max(S) = top)
    <3>1. S \ {top} \in SUBSET (1..k) /\ (top \notin S => S \in SUBSET (1..k))
      BY <2>3
    <3>2. ASSUME top \in S PROVE Max(S) = top
      <4>1. S \in SUBSET Int /\ \A y \in S : y <= top
        BY <2>3
      <4> QED BY <3>2, <4>1, MaxIs
    <3> QED BY <3>1, <3>2
  <2>5. e \in [SUBSET (1..top) -> T]
    <3>1. ASSUME NEW S \in SUBSET (1..top), top \in S PROVE g[<<f[S \ {top}], s[top]>>] \in T
      <4>1. f[S \ {top}] \in T
        BY <2>4
      <4> QED BY <1>4, <4>1, <2>3
    <3>2. ASSUME NEW S \in SUBSET (1..top), top \notin S PROVE f[S] \in T
      BY <2>4, <3>2
    <3> QED BY <3>1, <3>2
  <2>6. \A S \in SUBSET (1..top) : e[S] = IF top \in S THEN g[<<f[S \ {top}], s[top]>>] ELSE f[S]
    OBVIOUS
  <2> HIDE DEF e
  <2>7. ASSUME NEW S \in SUBSET (1..top)
        PROVE  e[S] = IF S = {} THEN b ELSE g[<<e[S \ {Max(S)}], s[Max(S)]>>]
    <3>1. CASE top \in S
      <4>1. S # {} /\ Max(S) = top /\ S \ {top} \in SUBSET (1..k) /\ S \ {top} \in SUBSET (1..top)
        BY <2>4, <3>1
      <4>2. e[S \ {top}] = f[S \ {top}]
        BY <2>6, <4>1
      <4> QED BY <2>6, <3>1, <4>1, <4>2
    <3>2. CASE top \notin S
      <4>1. S \in SUBSET (1..k) /\ e[S] = f[S]
        BY <2>4, <2>6, <3>2
      <4>2. f[S] = IF S = {} THEN b ELSE g[<<f[S \ {Max(S)}], s[Max(S)]>>]
        BY <2>1, <4>1 DEF IsFold
      <4>3. S \ {Max(S)} \in SUBSET (1..top) /\ top \notin S \ {Max(S)}
        BY <3>2
      <4>4. e[S \ {Max(S)}] = f[S \ {Max(S)}]
        BY <2>6, <4>3
      <4> QED BY <4>1, <4>2, <4>4
    <3> QED BY <3>1, <3>2
  <2>8. IsFold(top, b, g, s, e)
    BY <2>5, <2>7 DEF IsFold
  <2> QED BY <2>2, <2>5, <2>8 DEF HasFold
<1>3. n \in K
  <2> HIDE DEF K
  <2> QED BY <1>1, <1>2, Stepping
<1> QED BY <1>3

\* The sets of the first positions.
LEMMA FirstOnes ==
  ASSUME NEW n \in Nat, NEW k \in 1..n
  PROVE  /\ 1..k \in SUBSET (1..n) /\ 1..k # {} /\ Max(1..k) = k
         /\ (1..k) \ {Max(1..k)} = 1..(k - 1) /\ k - 1 \in 0..n
<1>1. Max(1..k) = k
  <2>1. 1..k \in SUBSET Int /\ k \in 1..k /\ \A y \in 1..k : y <= k
    OBVIOUS
  <2> QED BY <2>1, MaxIs
<1>2. 1..k \in SUBSET (1..n) /\ 1..k # {} /\ (1..k) \ {k} = 1..(k - 1) /\ k - 1 \in 0..n
  OBVIOUS
<1> QED BY <1>1, <1>2

\* The running sums of s.
IsRunning(s, h) ==
  /\ h \in [0..Len(s) -> Int]
  /\ h[0] = 0
  /\ \A k \in 1..Len(s) : h[k] = h[k - 1] + s[k]

LEMMA SumRuns ==
  ASSUME NEW s \in Seq(Int)
  PROVE  \E h : IsRunning(s, h) /\ Sum(s) = h[Len(s)]
<1> DEFINE IsIter(f) == f = [S \in SUBSET DOMAIN s |->
                               IF S = {} THEN 0 ELSE f[S \ {Max(S)}] + s[Max(S)]]
           iter == CHOOSE f : IsIter(f)
<1>1. Sum(s) = iter[DOMAIN s]
  BY Zenon DEF Sum, FoldLeft, MapThenFoldSet
<1>2. PICK n \in Nat : n = Len(s) /\ DOMAIN s = 1..n
  OBVIOUS
<1>3. \E f : IsIter(f)
  <2> DEFINE g == [p \in Int \X Int |-> p[1] + p[2]]
  <2>1. g \in [Int \X Int -> Int] /\ \A x, y \in Int : g[<<x, y>>] = x + y
    OBVIOUS
  <2> HIDE DEF g
  <2>2. \A i \in 1..n : s[i] \in Int
    BY <1>2
  <2>6. CanFold(n, Int, 0, Int, g, s)
    BY <2>1, <2>2 DEF CanFold
  <2>3. PICK f \in [SUBSET (1..n) -> Int] : IsFold(n, 0, g, s, f)
    BY <2>6, FoldExists DEF HasFold
  <2>4. ASSUME NEW S \in SUBSET (1..n), S # {}
        PROVE  g[<<f[S \ {Max(S)}], s[Max(S)]>>] = f[S \ {Max(S)}] + s[Max(S)]
    <3>1. Max(S) \in 1..n
      BY <2>4, MaxFacts
    <3>2. f[S \ {Max(S)}] \in Int /\ s[Max(S)] \in Int
      BY <2>2, <3>1
    <3> QED BY <2>1, <3>2
  <2>5. f = [S \in SUBSET (1..n) |-> IF S = {} THEN 0 ELSE f[S \ {Max(S)}] + s[Max(S)]]
    BY <2>3, <2>4 DEF IsFold
  <2> QED BY <1>2, <2>5
<1>4. IsIter(iter)
  <2> HIDE DEF IsIter
  <2> QED BY <1>3
<1> HIDE DEF iter
<1>5. \A S \in SUBSET (1..n) : iter[S] = IF S = {} THEN 0 ELSE iter[S \ {Max(S)}] + s[Max(S)]
  BY <1>2, <1>4
<1>6. iter[{}] = 0 /\ 1..0 = {}
  <2>1. {} \in SUBSET (1..n) /\ 1..0 = {}
    OBVIOUS
  <2> QED BY <1>5, <2>1
<1>7. \A k \in 1..n : iter[1..k] = iter[1..(k - 1)] + s[k]
  BY <1>5, FirstOnes
<1>8. \A k \in 0..n : iter[1..k] \in Int
  <2> DEFINE K == {k \in Nat : k <= n => iter[1..k] \in Int}
  <2>1. 0 \in K
    BY <1>6
  <2>2. \A k \in Nat : k \in K => k + 1 \in K
    <3> SUFFICES ASSUME NEW k \in Nat, k \in K, k + 1 <= n PROVE iter[1..(k + 1)] \in Int
      OBVIOUS
    <3>1. k + 1 \in 1..n /\ (k + 1) - 1 = k /\ s[k + 1] \in Int
      BY <1>2
    <3>2. iter[1..(k + 1)] = iter[1..k] + s[k + 1]
      BY <1>7, <3>1
    <3> QED BY <3>1, <3>2
  <2> HIDE DEF K
  <2>3. Nat \subseteq K
    BY <2>1, <2>2, Stepping
  <2> QED BY <2>3 DEF K
<1> DEFINE h == [k \in 0..n |-> iter[1..k]]
<1>9. h[0] = 0 /\ h[n] = iter[1..n] /\ \A k \in 1..n : h[k] = iter[1..k] /\ h[k - 1] = iter[1..(k - 1)]
  BY <1>6
<1>10. h \in [0..n -> Int]
  BY <1>8
<1> HIDE DEF h
<1>11. IsRunning(s, h)
  BY <1>2, <1>7, <1>9, <1>10 DEF IsRunning
<1> QED BY <1>1, <1>2, <1>9, <1>11

\* Running sums of natural numbers grow.
LEMMA RunningGrow ==
  ASSUME NEW s \in Seq(Nat), NEW h, IsRunning(s, h)
  PROVE  /\ h \in [0..Len(s) -> Nat]
         /\ \A k \in 1..Len(s) : h[k - 1] <= h[k]
<1>1. PICK n \in Nat : n = Len(s)
  OBVIOUS
<1>2. /\ h \in [0..n -> Int] /\ h[0] = 0
      /\ \A k \in 1..n : h[k] = h[k - 1] + s[k] /\ s[k] \in Nat
  BY <1>1 DEF IsRunning
<1> DEFINE K == {k \in Nat : k <= n => h[k] \in Nat}
<1>3. 0 \in K
  BY <1>2
<1>4. \A k \in Nat : k \in K => k + 1 \in K
  <2> SUFFICES ASSUME NEW k \in Nat, k \in K, k + 1 <= n PROVE h[k + 1] \in Nat
    OBVIOUS
  <2>1. k + 1 \in 1..n /\ (k + 1) - 1 = k /\ h[k] \in Nat
    OBVIOUS
  <2>2. h[k + 1] = h[k] + s[k + 1] /\ s[k + 1] \in Nat
    BY <1>2, <2>1
  <2> QED BY <2>1, <2>2
<1>5. \A k \in 0..n : h[k] \in Nat
  <2> HIDE DEF K
  <2>1. Nat \subseteq K
    BY <1>3, <1>4, Stepping
  <2> QED BY <2>1 DEF K
<1>6. \A k \in 1..n : h[k - 1] <= h[k]
  <2> SUFFICES ASSUME NEW k \in 1..n PROVE h[k - 1] <= h[k]
    OBVIOUS
  <2>1. k - 1 \in 0..n
    OBVIOUS
  <2>2. h[k] = h[k - 1] + s[k] /\ s[k] \in Nat /\ h[k - 1] \in Nat
    BY <1>2, <1>5, <2>1
  <2> QED BY <2>2
<1> QED BY <1>1, <1>2, <1>5, <1>6

\* The sum of two sequences, position by position.
LEMMA SumPairs ==
  ASSUME NEW s \in Seq(Int), NEW t \in Seq(Int), NEW u \in Seq(Int),
         Len(s) = Len(u), Len(t) = Len(u), \A i \in 1..Len(u) : u[i] = s[i] + t[i]
  PROVE  Sum(u) = Sum(s) + Sum(t)
<1>1. PICK n \in Nat : n = Len(u)
  OBVIOUS
<1>2. PICK f : IsRunning(s, f) /\ Sum(s) = f[Len(s)]
  BY SumRuns
<1>3. PICK g : IsRunning(t, g) /\ Sum(t) = g[Len(t)]
  BY SumRuns
<1>4. PICK h : IsRunning(u, h) /\ Sum(u) = h[Len(u)]
  BY SumRuns
<1>5. /\ f \in [0..n -> Int] /\ f[0] = 0 /\ \A k \in 1..n : f[k] = f[k - 1] + s[k]
      /\ g \in [0..n -> Int] /\ g[0] = 0 /\ \A k \in 1..n : g[k] = g[k - 1] + t[k]
      /\ h \in [0..n -> Int] /\ h[0] = 0 /\ \A k \in 1..n : h[k] = h[k - 1] + u[k]
  BY <1>1, <1>2, <1>3, <1>4 DEF IsRunning
<1>6. \A k \in 1..n : s[k] \in Int /\ t[k] \in Int /\ u[k] = s[k] + t[k]
  BY <1>1
<1> DEFINE K == {k \in Nat : k <= n => h[k] = f[k] + g[k]}
<1>7. 0 \in K
  BY <1>5
<1>8. \A k \in Nat : k \in K => k + 1 \in K
  <2> SUFFICES ASSUME NEW k \in Nat, k \in K, k + 1 <= n PROVE h[k + 1] = f[k + 1] + g[k + 1]
    OBVIOUS
  <2>1. k + 1 \in 1..n /\ (k + 1) - 1 = k /\ h[k] = f[k] + g[k] /\ k \in 0..n
    OBVIOUS
  <2>2. f[k] \in Int /\ g[k] \in Int
    BY <1>5, <2>1
  <2>3. h[k + 1] = h[k] + u[k + 1] /\ f[k + 1] = f[k] + s[k + 1] /\ g[k + 1] = g[k] + t[k + 1]
    BY <1>5, <2>1
  <2>4. u[k + 1] = s[k + 1] + t[k + 1] /\ s[k + 1] \in Int /\ t[k + 1] \in Int
    BY <1>6, <2>1
  <2>6. h[k + 1] = (f[k] + g[k]) + (s[k + 1] + t[k + 1])
    BY <2>1, <2>3, <2>4
  <2>5. (f[k] + g[k]) + (s[k + 1] + t[k + 1]) = (f[k] + s[k + 1]) + (g[k] + t[k + 1])
    <3> DEFINE a == f[k]
               b == g[k]
               c == s[k + 1]
               d == t[k + 1]
    <3>2. a \in Int /\ b \in Int /\ c \in Int /\ d \in Int
      BY <2>2, <2>4
    <3> HIDE DEF a, b, c, d
    <3>3. (a + b) + (c + d) = (a + c) + (b + d)
      BY <3>2
    <3> QED BY <3>3 DEF a, b, c, d
  <2> QED BY <2>3, <2>5, <2>6
<1>9. n \in K
  <2> HIDE DEF K
  <2> QED BY <1>7, <1>8, Stepping
<1> QED BY <1>1, <1>2, <1>3, <1>4, <1>9

\* A running total with one more, as CumulativeTokens adds it.
Further(totals, t) ==
  Append(totals, TotalTokens(t) + IF totals = <<>> THEN 0 ELSE Last(totals))
Tokens(ts) == [i \in DOMAIN ts |-> TotalTokens(ts[i])]

LEMMA TotalType ==
  ASSUME NEW t \in Turns
  PROVE  TotalTokens(t) \in Nat
BY DEF TotalTokens, Turns

LEMMA TokensType ==
  ASSUME NEW ts \in Seq(Turns)
  PROVE  /\ Tokens(ts) \in Seq(Nat) /\ Tokens(ts) \in Seq(Int) /\ Len(Tokens(ts)) = Len(ts)
         /\ \A i \in 1..Len(ts) : Tokens(ts)[i] = TotalTokens(ts[i]) /\ TotalTokens(ts[i]) \in Nat
<1>1. \A i \in 1..Len(ts) : TotalTokens(ts[i]) \in Nat
  <2> SUFFICES ASSUME NEW i \in 1..Len(ts) PROVE TotalTokens(ts[i]) \in Nat
    OBVIOUS
  <2>1. ts[i] \in Turns
    OBVIOUS
  <2> QED BY <2>1, TotalType
<1>2. PICK n \in Nat : n = Len(ts) /\ DOMAIN ts = 1..n
  OBVIOUS
<1>3. PICK s : s = Tokens(ts)
  OBVIOUS
<1>4. s = [i \in 1..n |-> TotalTokens(ts[i])]
  BY <1>2, <1>3 DEF Tokens
<1>5. s \in Seq(Nat) /\ s \in Seq(Int) /\ Len(s) = n /\ \A i \in 1..n : s[i] = TotalTokens(ts[i])
  BY <1>1, <1>2, <1>4
<1> QED BY <1>1, <1>2, <1>3, <1>5

LEMMA FurtherFacts ==
  ASSUME NEW totals \in Seq(Nat), NEW t \in Turns
  PROVE  /\ Further(totals, t) \in Seq(Nat)
         /\ Len(Further(totals, t)) = Len(totals) + 1
         /\ \A i \in 1..Len(totals) : Further(totals, t)[i] = totals[i]
         /\ Further(totals, t)[Len(totals) + 1] =
              TotalTokens(t) + IF Len(totals) = 0 THEN 0 ELSE totals[Len(totals)]
<1>1. totals = <<>> <=> Len(totals) = 0
  OBVIOUS
<1>2. PICK x : x = TotalTokens(t) + IF totals = <<>> THEN 0 ELSE Last(totals)
  OBVIOUS
<1>3. x = TotalTokens(t) + IF Len(totals) = 0 THEN 0 ELSE totals[Len(totals)]
  BY <1>1, <1>2 DEF Last
<1>4. TotalTokens(t) \in Nat
  BY TotalType
<1>5. x \in Nat
  BY <1>3, <1>4
<1>6. Further(totals, t) = Append(totals, x)
  BY <1>2 DEF Further
<1> QED BY <1>3, <1>5, <1>6, AppendFacts

\* The first k running totals.
AreTotals(c, k, h) == c \in Seq(Nat) /\ Len(c) = k /\ \A i \in 1..k : c[i] = h[i]

LEMMA CumulativeRuns ==
  ASSUME NEW ts \in Seq(Turns), NEW h, IsRunning(Tokens(ts), h)
  PROVE  /\ Len(CumulativeTokens(ts)) = Len(ts) /\ CumulativeTokens(ts) \in Seq(Nat)
         /\ \A i \in 1..Len(ts) : CumulativeTokens(ts)[i] = h[i]
<1> DEFINE IsIter(f) == f = [S \in SUBSET DOMAIN ts |->
                               IF S = {} THEN <<>> ELSE Further(f[S \ {Max(S)}], ts[Max(S)])]
           iter == CHOOSE f : IsIter(f)
<1>1. CumulativeTokens(ts) = iter[DOMAIN ts]
  BY Zenon DEF CumulativeTokens, FoldLeft, MapThenFoldSet, Further
<1>2. PICK n \in Nat : n = Len(ts) /\ DOMAIN ts = 1..n
  OBVIOUS
<1>3. \E f : IsIter(f)
  <2> DEFINE g == [p \in Seq(Nat) \X Turns |-> Further(p[1], p[2])]
  <2>1. g \in [Seq(Nat) \X Turns -> Seq(Nat)] /\ \A x \in Seq(Nat), y \in Turns : g[<<x, y>>] = Further(x, y)
    BY FurtherFacts
  <2> HIDE DEF g
  <2>2. \A i \in 1..n : ts[i] \in Turns
    BY <1>2
  <2>6. CanFold(n, Seq(Nat), <<>>, Turns, g, ts)
    BY <2>1, <2>2 DEF CanFold
  <2>3. PICK f \in [SUBSET (1..n) -> Seq(Nat)] : IsFold(n, <<>>, g, ts, f)
    BY <2>6, FoldExists DEF HasFold
  <2>4. ASSUME NEW S \in SUBSET (1..n), S # {}
        PROVE  g[<<f[S \ {Max(S)}], ts[Max(S)]>>] = Further(f[S \ {Max(S)}], ts[Max(S)])
    <3>1. Max(S) \in 1..n
      BY <2>4, MaxFacts
    <3>2. f[S \ {Max(S)}] \in Seq(Nat) /\ ts[Max(S)] \in Turns
      BY <2>2, <3>1
    <3> QED BY <2>1, <3>2
  <2>5. f = [S \in SUBSET (1..n) |-> IF S = {} THEN <<>> ELSE Further(f[S \ {Max(S)}], ts[Max(S)])]
    BY <2>3, <2>4 DEF IsFold
  <2> QED BY <1>2, <2>5
<1>4. IsIter(iter)
  <2> HIDE DEF IsIter
  <2> QED BY <1>3
<1> HIDE DEF iter
<1>5. \A S \in SUBSET (1..n) : iter[S] = IF S = {} THEN <<>> ELSE Further(iter[S \ {Max(S)}], ts[Max(S)])
  BY <1>2, <1>4
<1>6. iter[{}] = <<>> /\ 1..0 = {}
  <2>1. {} \in SUBSET (1..n) /\ 1..0 = {}
    OBVIOUS
  <2> QED BY <1>5, <2>1
<1>7. \A k \in 1..n : iter[1..k] = Further(iter[1..(k - 1)], ts[k])
  BY <1>5, FirstOnes
<1>8. /\ h \in [0..n -> Int] /\ h[0] = 0
      /\ \A k \in 1..n : h[k] = h[k - 1] + TotalTokens(ts[k]) /\ ts[k] \in Turns
                         /\ TotalTokens(ts[k]) \in Nat
  <2>1. PICK s : s = Tokens(ts)
    OBVIOUS
  <2>2. /\ h \in [0..n -> Int] /\ h[0] = 0
        /\ \A k \in 1..n : h[k] = h[k - 1] + s[k]
    BY <1>2, <2>1, TokensType DEF IsRunning
  <2>3. \A k \in 1..n : s[k] = TotalTokens(ts[k]) /\ TotalTokens(ts[k]) \in Nat /\ ts[k] \in Turns
    BY <1>2, <2>1, TokensType
  <2> QED BY <2>2, <2>3
<1> DEFINE K == {k \in Nat : k <= n => AreTotals(iter[1..k], k, h)}
<1>9. 0 \in K
  <2>1. <<>> \in Seq(Nat) /\ Len(<<>>) = 0
    OBVIOUS
  <2>2. AreTotals(<<>>, 0, h)
    BY <2>1 DEF AreTotals
  <2> QED BY <1>6, <2>2
<1>10. \A k \in Nat : k \in K => k + 1 \in K
  <2> SUFFICES ASSUME NEW k \in Nat, k \in K, k + 1 <= n PROVE AreTotals(iter[1..(k + 1)], k + 1, h)
    OBVIOUS
  <2>1. k + 1 \in 1..n /\ (k + 1) - 1 = k /\ k \in 0..n /\ AreTotals(iter[1..k], k, h)
    OBVIOUS
  <2>2. PICK c : c = iter[1..k]
    OBVIOUS
  <2>3. c \in Seq(Nat) /\ Len(c) = k /\ \A i \in 1..k : c[i] = h[i]
    BY <2>1, <2>2 DEF AreTotals
  <2>4. iter[1..(k + 1)] = Further(c, ts[k + 1])
    BY <1>7, <2>1, <2>2
  <2>5. PICK e : e = Further(c, ts[k + 1])
    OBVIOUS
  <2>6. /\ e \in Seq(Nat) /\ Len(e) = k + 1 /\ \A i \in 1..k : e[i] = c[i]
        /\ e[k + 1] = TotalTokens(ts[k + 1]) + IF k = 0 THEN 0 ELSE c[k]
    BY <1>8, <2>1, <2>3, <2>5, FurtherFacts
  <2>7. h[k + 1] = h[k] + TotalTokens(ts[k + 1]) /\ h[k] \in Int /\ TotalTokens(ts[k + 1]) \in Nat
    BY <1>8, <2>1
  <2>8. e[k + 1] = h[k + 1]
    <3>2. k # 0 => k \in 1..k
      OBVIOUS
    <3>1. (IF k = 0 THEN 0 ELSE c[k]) = h[k]
      BY <1>8, <2>3, <3>2
    <3> QED BY <2>6, <2>7, <3>1
  <2>9. \A i \in 1..(k + 1) : e[i] = h[i]
    <3>1. \A i \in 1..(k + 1) : i = k + 1 \/ i \in 1..k
      OBVIOUS
    <3> QED BY <2>3, <2>6, <2>8, <3>1
  <2> QED BY <2>4, <2>5, <2>6, <2>9 DEF AreTotals
<1>11. n \in K
  <2> HIDE DEF K
  <2> QED BY <1>9, <1>10, Stepping
<1>12. CumulativeTokens(ts) = iter[1..n]
  BY <1>1, <1>2
<1>13. AreTotals(iter[1..n], n, h)
  BY <1>11
<1> QED BY <1>2, <1>12, <1>13 DEF AreTotals

-----------------------------------------------------------------------------
(* What the ledgers promise.                                                 *)

LEMMA MaxWithZero ==
  ASSUME NEW m \in Int
  PROVE  Max({m, 0}) = IF m >= 0 THEN m ELSE 0
<1>1. CASE m >= 0
  <2>1. {m, 0} \in SUBSET Int /\ m \in {m, 0} /\ \A y \in {m, 0} : y <= m
    BY <1>1
  <2> QED BY <1>1, <2>1, MaxIs
<1>2. CASE ~(m >= 0)
  <2>1. {m, 0} \in SUBSET Int /\ 0 \in {m, 0} /\ \A y \in {m, 0} : y <= 0
    BY <1>2
  <2> QED BY <1>2, <2>1, MaxIs
<1> QED BY <1>1, <1>2

\* Where the first good answer is: nowhere, or at the end.
LEMMA GoodAtEnd ==
  ASSUME Inv
  PROVE  \/ GoodAt = {} /\ (billed # <<>> => ~billed[Len(billed)].good)
         \/ GoodAt = {Len(billed)} /\ billed # <<>> /\ billed[Len(billed)].good
<1>1. PICK n \in Nat : n = Len(billed) /\ DOMAIN billed = 1..n
  BY DEF Inv, Typ
<1>2. \A i \in 1..(n - 1) : ~billed[i].good
  BY <1>1 DEF Inv, Entered
<1>3. billed # <<>> <=> n > 0
  BY <1>1 DEF Inv, Typ
<1>4. CASE n > 0 /\ billed[n].good
  <2>1. GoodAt = {n}
    BY <1>1, <1>2, <1>4 DEF GoodAt
  <2> QED BY <1>1, <1>3, <1>4, <2>1
<1>5. CASE ~(n > 0 /\ billed[n].good)
  <2>1. ASSUME NEW i \in 1..n PROVE ~billed[i].good
    <3>1. i = n \/ i \in 1..(n - 1)
      OBVIOUS
    <3>2. n > 0
      OBVIOUS
    <3> QED BY <1>2, <1>5, <3>1, <3>2
  <2>2. GoodAt = {}
    BY <1>1, <2>1 DEF GoodAt
  <2>3. billed # <<>> => ~billed[Len(billed)].good
    BY <1>1, <1>3, <1>5
  <2> QED BY <2>2, <2>3
<1> QED BY <1>4, <1>5

TaskRight ==
  /\ [i \in DOMAIN records |-> records[i].response] = billed
  /\ \A i \in DOMAIN records : records[i].attempt = i
  /\ Len(records) <= Max({MaxAttempts, 0})
  /\ ~Retrying => Len(records) = 1
  /\ Retrying =>
       IF GoodAt = {} THEN Len(records) = Max({MaxAttempts, 0}) ELSE GoodAt = {Len(records)}

LEMMA TaskAccounted ==
  ASSUME Inv, call.fn = "run_task", pc = "returned"
  PROVE  TaskRight
<1>1. PICK n \in Nat : n = Len(records) /\ DOMAIN records = 1..n
  BY DEF Inv, Typ
<1>2. turns = <<>> /\ Len(billed) = n /\ billed \in Seq(Bills) /\ records \in Seq(Records)
  BY <1>1 DEF Inv, Typ, Entered, Capped
<1>3. \A i \in 1..n : records[i].attempt = i /\ records[i].response = billed[i]
  BY <1>1 DEF Inv, Entered
<1>4. billed = [i \in 1..n |-> billed[i]]
  BY <1>2
<1>5. [i \in DOMAIN records |-> records[i].response] = billed
  BY <1>1, <1>3, <1>4
<1>6. MaxAttempts \in Int
  BY CallKnown DEF Inv, Typ, MaxAttempts, CallFacts
<1>7. n > 0 => n <= MaxAttempts
  <2>1. n > 0 => records # <<>>
    BY <1>1
  <2> QED BY <1>1, <2>1 DEF Inv, Capped
<1>8. PICK top \in Int : top = Max({MaxAttempts, 0}) /\ top = IF MaxAttempts >= 0 THEN MaxAttempts ELSE 0
  BY <1>6, MaxWithZero
<1>9. n <= top
  BY <1>6, <1>7, <1>8
<1>10. IF Retrying THEN \/ n >= MaxAttempts
                        \/ records # <<>> /\ records[n].response.good
                   ELSE n = 1
  BY <1>1 DEF Inv, Reached
<1>11. ASSUME Retrying PROVE IF GoodAt = {} THEN n = top ELSE GoodAt = {n}
  <2>1. CASE GoodAt = {}
    <3>1. billed # <<>> => ~billed[n].good
      BY <1>2, <2>1, GoodAtEnd
    <3>2. records # <<>> => n > 0 /\ billed # <<>> /\ records[n].response = billed[n]
      BY <1>1, <1>2, <1>3
    <3>3. n >= MaxAttempts
      BY <1>10, <1>11, <3>1, <3>2
    <3> QED BY <1>6, <1>7, <1>8, <2>1, <3>3
  <2>2. CASE GoodAt # {}
    BY <1>2, <2>2, GoodAtEnd
  <2> QED BY <2>1, <2>2
<1> QED BY <1>1, <1>3, <1>5, <1>8, <1>9, <1>10, <1>11 DEF TaskRight

\* The turns of a session's ledger.
LEMMA LedgerFacts ==
  ASSUME Inv, turns # <<>>
  PROVE  /\ turns \in Seq(Turns) /\ billed \in Seq(Bills)
         /\ Len(turns) \in Nat /\ Len(turns) > 0 /\ Len(billed) = Len(turns)
         /\ DOMAIN turns = 1..Len(turns) /\ DOMAIN billed = 1..Len(turns)
         /\ \A i \in 1..Len(turns) :
              /\ turns[i].turn = i /\ turns[i].prompt = billed[i].input
              /\ turns[i].completion = billed[i].output
              /\ turns[i].resolved = billed[i].good /\ turns[i].dollars = billed[i].dollars
              /\ turns[i] \in Turns /\ billed[i] \in Bills
<1>1. turns \in Seq(Turns) /\ billed \in Seq(Bills) /\ Len(billed) = Len(turns)
  BY DEF Inv, Typ, Entered
<1>2. \A i \in 1..Len(turns) : turns[i] = FromResponse(i, billed[i])
  BY DEF Inv, Entered
<1>3. Len(turns) \in Nat /\ Len(turns) > 0
  BY <1>1
<1>4. \A i \in 1..Len(turns) :
              /\ turns[i].turn = i /\ turns[i].prompt = billed[i].input
              /\ turns[i].completion = billed[i].output
              /\ turns[i].resolved = billed[i].good /\ turns[i].dollars = billed[i].dollars
  <2> SUFFICES ASSUME NEW i \in 1..Len(turns)
               PROVE  /\ turns[i].turn = i /\ turns[i].prompt = billed[i].input
                      /\ turns[i].completion = billed[i].output
                      /\ turns[i].resolved = billed[i].good
                      /\ turns[i].dollars = billed[i].dollars
    OBVIOUS
  <2>1. turns[i] = FromResponse(i, billed[i])
    BY <1>2
  <2> QED BY <2>1 DEF FromResponse
<1>5. \A i \in 1..Len(turns) : turns[i] \in Turns /\ billed[i] \in Bills
  BY <1>1
<1> QED BY <1>1, <1>3, <1>4, <1>5

LEMMA LedgerAccepted ==
  ASSUME Inv
  PROVE  SessionAccepts(turns) /\ (call.fn = "run_session" => Len(turns) <= Max({call.maxTurns, 0}))
<1>1. CASE turns = <<>>
  <2>1. SessionAccepts(turns) /\ Len(turns) = 0
    BY <1>1 DEF SessionAccepts
  <2>2. call.fn = "run_session" => call.maxTurns \in Int
    BY CallKnown DEF Inv, Typ, CallFacts
  <2> QED BY <2>1, <2>2, MaxWithZero
<1>2. CASE turns # <<>>
  <2>1. PICK n \in Nat : n = Len(turns) /\ n > 0 /\ DOMAIN turns = 1..n
    BY <1>2, LedgerFacts
  <2>2. \A i \in 1..(n - 1) : ~turns[i].resolved
    <3>1. Len(billed) = n /\ \A i \in 1..(n - 1) : turns[i].resolved = billed[i].good
      BY <1>2, <2>1, LedgerFacts
    <3> QED BY <3>1 DEF Inv, Entered
  <2>3. ASSUME NEW i \in 1..n PROVE TurnOK(turns[i]) /\ turns[i].turn = i
    <3>1. PICK t \in Turns : t = turns[i] /\ t.turn = i
      BY <1>2, <2>1, LedgerFacts
    <3>2. t.prompt \in Nat /\ t.completion \in Nat /\ t.dollars \in Nat \X Nat
      BY DEF Turns
    <3>3. Leq(Zero, t.dollars)
      BY <3>2 DEF Leq, Zero, Whole
    <3> QED BY <3>1, <3>2, <3>3 DEF TurnOK
  <2>4. SessionAccepts(turns)
    <3>1. \A i \in 1..n : i < n => i \in 1..(n - 1)
      OBVIOUS
    <3> QED BY <2>1, <2>2, <2>3, <3>1 DEF SessionAccepts
  <2>5. n <= call.maxTurns /\ call.maxTurns \in Int
    BY <1>2, <2>1, CallKnown DEF Inv, Typ, CallFacts, Capped
  <2> QED BY <2>1, <2>4, <2>5, MaxWithZero
<1> QED BY <1>1, <1>2

\* What a session's ledger adds up to is what was billed.
LEMMA LedgerAddsUp ==
  ASSUME Inv, turns # <<>>
  PROVE  /\ SessionTokens(turns) = Billed
         /\ PromptTokens(turns) + CompletionTokens(turns) = Billed
         /\ ReportedDollars(turns) = Total([i \in DOMAIN billed |-> billed[i].dollars])
<1>1. PICK n \in Nat : n = Len(turns) /\ n > 0 /\ DOMAIN turns = 1..n /\ DOMAIN billed = 1..n
  BY LedgerFacts
<1>2. \A i \in 1..n : /\ turns[i].prompt = billed[i].input /\ turns[i].completion = billed[i].output
                      /\ turns[i].dollars = billed[i].dollars
  BY <1>1, LedgerFacts
<1>3. \A i \in 1..n : turns[i].prompt \in Nat /\ turns[i].completion \in Nat
  <2> SUFFICES ASSUME NEW i \in 1..n PROVE turns[i].prompt \in Nat /\ turns[i].completion \in Nat
    OBVIOUS
  <2>1. turns[i] \in Turns
    BY <1>1, LedgerFacts
  <2> QED BY <2>1 DEF Turns
<1>4. [i \in DOMAIN turns |-> TotalTokens(turns[i])] =
        [i \in DOMAIN billed |-> billed[i].input + billed[i].output]
  <2>1. \A i \in 1..n : TotalTokens(turns[i]) = billed[i].input + billed[i].output
    BY <1>2 DEF TotalTokens
  <2> QED BY <1>1, <2>1
<1>5. SessionTokens(turns) = Billed
  BY <1>4 DEF SessionTokens, Billed
<1>6. PICK u : u = [i \in DOMAIN turns |-> TotalTokens(turns[i])]
  OBVIOUS
<1>7. PICK s : s = [i \in DOMAIN turns |-> turns[i].prompt]
  OBVIOUS
<1>8. PICK t : t = [i \in DOMAIN turns |-> turns[i].completion]
  OBVIOUS
<1>9. /\ s \in Seq(Int) /\ Len(s) = n /\ t \in Seq(Int) /\ Len(t) = n
      /\ \A i \in 1..n : s[i] = turns[i].prompt /\ t[i] = turns[i].completion
  BY <1>1, <1>3, <1>7, <1>8
<1>10. u \in Seq(Int) /\ Len(u) = n /\ \A i \in 1..n : u[i] = s[i] + t[i]
  <2>1. u = [i \in 1..n |-> s[i] + t[i]]
    BY <1>1, <1>6, <1>9 DEF TotalTokens
  <2>2. \A i \in 1..n : s[i] + t[i] \in Int
    BY <1>9
  <2> QED BY <2>1, <2>2
<1>11. Sum(u) = Sum(s) + Sum(t)
  <2>1. Len(s) = Len(u) /\ Len(t) = Len(u) /\ \A i \in 1..Len(u) : u[i] = s[i] + t[i]
    BY <1>9, <1>10
  <2>2. s \in Seq(Int) /\ t \in Seq(Int) /\ u \in Seq(Int)
    BY <1>9, <1>10
  <2> QED BY <2>1, <2>2, SumPairs
<1>12. PromptTokens(turns) + CompletionTokens(turns) = SessionTokens(turns)
  BY <1>6, <1>7, <1>8, <1>11 DEF PromptTokens, CompletionTokens, SessionTokens
<1>13. [i \in DOMAIN turns |-> turns[i].dollars] = [i \in DOMAIN billed |-> billed[i].dollars]
  BY <1>1, <1>2
<1>14. ReportedDollars(turns) = Total([i \in DOMAIN billed |-> billed[i].dollars])
  BY <1>13, Zenon DEF ReportedDollars
<1> QED BY <1>5, <1>12, <1>14

\* The first resolved turn of a ledger.
Good(ts) == {i \in 1..Len(ts) : ts[i].resolved}
LEMMA ConvergesAt ==
  ASSUME NEW ts
  PROVE  ConvergenceTurn(ts) =
           LET first == IF Good(ts) # {} THEN Min(Good(ts)) ELSE 0
           IN  IF first = 0 THEN None ELSE ts[first].turn
BY Zenon DEF ConvergenceTurn, SelectInSeq, Good

LEMMA MinOfOne ==
  ASSUME NEW n \in Nat
  PROVE  Min({n}) = n
<1>1. \E x \in {n} : \A y \in {n} : x <= y
  OBVIOUS
<1>2. Min({n}) \in {n}
  BY <1>1, Zenon DEF Min
<1> QED BY <1>2

LEMMA LedgerConverges ==
  ASSUME Inv, turns # <<>>
  PROVE  ConvergenceTurn(turns) = IF GoodAt = {} THEN None ELSE Min(GoodAt)
<1>1. PICK n \in Nat : n = Len(turns) /\ n > 0 /\ DOMAIN billed = 1..n /\ Len(billed) = n
  BY LedgerFacts
<1>2. \A i \in 1..n : turns[i].resolved = billed[i].good /\ turns[i].turn = i
  BY <1>1, LedgerFacts
<1>3. Good(turns) = GoodAt
  BY <1>1, <1>2 DEF Good, GoodAt
<1>4. CASE GoodAt = {}
  BY <1>3, <1>4, ConvergesAt
<1>5. CASE GoodAt # {}
  <2>1. GoodAt = {n}
    BY <1>1, <1>5, GoodAtEnd
  <2>2. Min(GoodAt) = n
    BY <2>1, MinOfOne
  <2>3. n # 0 /\ turns[n].turn = n
    BY <1>1, <1>2
  <2> QED BY <1>3, <1>5, <2>2, <2>3, ConvergesAt
<1> QED BY <1>4, <1>5

\* A ledger rebuilt from its published totals.
FromTotals == [i \in DOMAIN turns |-> FromTotal(i, TotalTokens(turns[i]), turns[i].resolved)]

LEMMA RowInvariant ==
  ASSUME Inv, turns # <<>>
  PROVE  AsRow(FromTotals) = AsRow(turns)
<1>1. PICK n \in Nat : n = Len(turns) /\ DOMAIN turns = 1..n
  BY LedgerFacts
<1>2. PICK ts : ts = FromTotals
  OBVIOUS
<1>3. ts = [i \in 1..n |-> FromTotal(i, TotalTokens(turns[i]), turns[i].resolved)]
  BY <1>1, <1>2 DEF FromTotals
<1>4. DOMAIN ts = 1..n /\ Len(ts) = n
  BY <1>3
<1>5. \A i \in 1..n : /\ turns[i].turn = i /\ turns[i].prompt \in Nat /\ turns[i].completion \in Nat
                      /\ TotalTokens(turns[i]) \in Nat
  <2> SUFFICES ASSUME NEW i \in 1..n
               PROVE  /\ turns[i].turn = i /\ turns[i].prompt \in Nat /\ turns[i].completion \in Nat
                      /\ TotalTokens(turns[i]) \in Nat
    OBVIOUS
  <2>1. turns[i] \in Turns /\ turns[i].turn = i
    BY <1>1, LedgerFacts
  <2> QED BY <2>1, TotalType DEF Turns
<1>6. \A i \in 1..n : ts[i].resolved = turns[i].resolved /\ ts[i].turn = turns[i].turn
                      /\ TotalTokens(ts[i]) = TotalTokens(turns[i])
  <2> SUFFICES ASSUME NEW i \in 1..n
               PROVE  ts[i].resolved = turns[i].resolved /\ ts[i].turn = turns[i].turn
                      /\ TotalTokens(ts[i]) = TotalTokens(turns[i])
    OBVIOUS
  <2>1. ts[i] = FromTotal(i, TotalTokens(turns[i]), turns[i].resolved)
    BY <1>3
  <2>2. /\ ts[i].resolved = turns[i].resolved /\ ts[i].turn = i
        /\ ts[i].prompt = TotalTokens(turns[i]) /\ ts[i].completion = 0
    BY <2>1 DEF FromTotal
  <2>3. TotalTokens(ts[i]) = TotalTokens(turns[i])
    <3>1. TotalTokens(ts[i]) = TotalTokens(turns[i]) + 0
      BY <2>2 DEF TotalTokens
    <3> QED BY <1>5, <3>1
  <2> QED BY <1>5, <2>2, <2>3
<1>7. [i \in DOMAIN ts |-> TotalTokens(ts[i])] = [i \in DOMAIN turns |-> TotalTokens(turns[i])]
  BY <1>1, <1>4, <1>6
<1>8. SessionTokens(ts) = SessionTokens(turns)
  BY <1>7 DEF SessionTokens
<1>9. Resolved(ts) <=> Resolved(turns)
  BY <1>1, <1>4, <1>6 DEF Resolved
<1>10. Good(ts) = Good(turns) /\ Good(ts) \in SUBSET (1..n)
  BY <1>1, <1>4, <1>6 DEF Good
<1>11. ConvergenceTurn(ts) = ConvergenceTurn(turns)
  <2>1. CASE Good(ts) = {}
    BY <1>10, <2>1, ConvergesAt
  <2>2. CASE Good(ts) # {}
    <3>1. Min(Good(ts)) \in 1..n
      <4>1. \E x \in Good(ts) : \A y \in Good(ts) : x <= y
        <5>1. Good(ts) \in SUBSET Nat
          BY <1>10
        <5> QED BY <2>2, <5>1, Least
      <4>2. Min(Good(ts)) \in Good(ts)
        BY <4>1, Zenon DEF Min
      <4> QED BY <1>10, <4>2
    <3>2. PICK m \in 1..n : m = Min(Good(ts)) /\ m = Min(Good(turns))
      BY <1>10, <3>1
    <3>3. ts[m].turn = turns[m].turn /\ m # 0
      BY <1>6
    <3> QED BY <1>10, <2>2, <3>2, <3>3, ConvergesAt
  <2> QED BY <2>1, <2>2
<1>12. Resolved(ts) = Resolved(turns)
  BY <1>9 DEF Resolved
<1> QED BY <1>1, <1>2, <1>4, <1>7, <1>8, <1>11, <1>12 DEF AsRow

\* What a ledger has cost, turn by turn.
LEMMA LedgerSpends ==
  ASSUME Inv, turns # <<>>
  PROVE  LET spent == CumulativeDollars(turns, call.model)
         IN  /\ Last(CumulativeTokens(turns)) = Billed
             /\ Last(spent) = SessionBlendedCost(call.model, Billed)
             /\ Raised \notin Range(spent) => \A i \in 2..Len(turns) : Leq(spent[i - 1], spent[i])
<1>1. PICK n \in Nat : n = Len(turns) /\ n > 0 /\ DOMAIN turns = 1..n
  BY LedgerFacts
<1>2. turns \in Seq(Turns)
  BY DEF Inv, Typ
<1>3. PICK s : s = Tokens(turns)
  OBVIOUS
<1>4. s \in Seq(Nat) /\ s \in Seq(Int) /\ Len(s) = n
  BY <1>1, <1>2, <1>3, TokensType
<1>5. PICK h : IsRunning(s, h) /\ Sum(s) = h[n]
  BY <1>4, SumRuns
<1>6. h[n] = Billed
  BY <1>3, <1>5, LedgerAddsUp DEF Tokens, SessionTokens
<1>7. PICK c : c = CumulativeTokens(turns)
  OBVIOUS
<1>8. Len(c) = n /\ c \in Seq(Nat) /\ \A i \in 1..n : c[i] = h[i]
  BY <1>1, <1>2, <1>3, <1>5, <1>7, CumulativeRuns
<1>9. n \in 1..n /\ Last(c) = Billed
  BY <1>1, <1>6, <1>8 DEF Last
<1>10. PICK spent : spent = CumulativeDollars(turns, call.model)
  OBVIOUS
<1>11. spent = [i \in 1..n |-> SessionBlendedCost(call.model, c[i])]
  BY <1>1, <1>7, <1>10 DEF CumulativeDollars
<1>12. Len(spent) = n /\ DOMAIN spent = 1..n
  BY <1>11
<1>13. Last(spent) = SessionBlendedCost(call.model, Billed)
  BY <1>6, <1>8, <1>9, <1>11, <1>12 DEF Last
<1>14. ASSUME Raised \notin Range(spent), NEW i \in 2..n PROVE Leq(spent[i - 1], spent[i])
  <2>1. i \in 1..n /\ i - 1 \in 1..n
    OBVIOUS
  <2>2. c[i - 1] <= c[i] /\ c[i - 1] \in Nat /\ c[i] \in Nat
    <3>1. h[i - 1] <= h[i]
      BY <1>4, <1>5, <2>1, RunningGrow
    <3>2. c[i - 1] = h[i - 1] /\ c[i] = h[i] /\ c[i - 1] \in Nat /\ c[i] \in Nat
      BY <1>8, <2>1
    <3> QED BY <3>1, <3>2
  <2>3. Rates[call.model] # None
    <3>1. spent[i] # Raised
      BY <1>12, <1>14, <2>1 DEF Range
    <3>2. spent[i] = SessionBlendedCost(call.model, c[i])
      BY <1>11, <2>1
    <3> QED BY <3>1, <3>2 DEF SessionBlendedCost
  <2>4. PICK rate \in Nat : rate = Rates[call.model]
    BY <2>3, AgentSessionAssumption DEF Inv, Typ
  <2>5. ASSUME NEW k \in 1..n, c[k] \in Nat PROVE spent[k] = Frac(c[k] * rate, 1000000)
    <3>1. spent[k] = SessionBlendedCost(call.model, c[k])
      BY <1>11
    <3>2. ~(c[k] < 0)
      BY <2>5
    <3> QED BY <2>3, <2>4, <3>1, <3>2 DEF SessionBlendedCost
  <2>6. PICK a, b \in Nat : a = c[i - 1] * rate /\ b = c[i] * rate /\ a <= b
    <3> DEFINE x == c[i - 1]
               y == c[i]
    <3>1. x \in Nat /\ y \in Nat /\ x <= y
      BY <2>2
    <3> HIDE DEF x, y
    <3>2. x * rate \in Nat /\ y * rate \in Nat /\ x * rate <= y * rate
      BY <3>1
    <3> QED BY <3>2 DEF x, y
  <2>7. Leq(Frac(a, 1000000), Frac(b, 1000000))
    BY <2>6, FracMonotone
  <2> QED BY <2>1, <2>2, <2>5, <2>6, <2>7
<1> QED BY <1>1, <1>7, <1>9, <1>10, <1>13, <1>14

LEMMA LedgerFull ==
  ASSUME Inv, call.fn = "run_session", pc = "returned"
  PROVE  turns # <<>> /\ (GoodAt = {} => Len(turns) = call.maxTurns)
<1>1. turns # <<>> /\ ~More
  BY DEF Inv, Reached
<1>2. ASSUME GoodAt = {} PROVE Len(turns) = call.maxTurns
  <2>1. PICK n \in Nat : n = Len(turns) /\ n > 0 /\ Len(billed) = n
    BY <1>1, LedgerFacts
  <2>2. billed # <<>> /\ turns[n].resolved = billed[n].good
    BY <1>1, <2>1, LedgerFacts
  <2>3. ~turns[n].resolved
    BY <1>2, <2>1, <2>2, GoodAtEnd
  <2>4. ~(n < call.maxTurns)
    BY <1>1, <2>1, <2>3 DEF More, Last
  <2>5. n <= call.maxTurns /\ call.maxTurns \in Int
    BY <1>1, <2>1, CallKnown DEF Inv, Typ, CallFacts, Capped
  <2> QED BY <2>1, <2>4, <2>5
<1> QED BY <1>1, <1>2

\* Whatever the models answer and whoever raises, each call's ledger is
\* accounted for: runner.py's attempts, session.py's turns and their totals.
THEOREM LedgersBalance == Spec => []CallsAccounted
<1>1. Inv => CallsAccounted
  <2> SUFFICES ASSUME Inv PROVE CallsAccounted
    OBVIOUS
  <2>1. writes <= 1
    BY DEF Inv, Typ
  <2>2. call.fn = "run_task" /\ pc = "returned" => TaskRight
    BY TaskAccounted
  <2>3. SessionAccepts(turns) /\ (call.fn = "run_session" => Len(turns) <= Max({call.maxTurns, 0}))
    BY LedgerAccepted
  <2>4. ASSUME call.fn = "run_session", pc = "returned"
        PROVE  /\ turns # <<>> /\ (GoodAt = {} => Len(turns) = call.maxTurns)
               /\ SessionTokens(turns) = Billed
               /\ PromptTokens(turns) + CompletionTokens(turns) = Billed
               /\ ReportedDollars(turns) = Total([i \in DOMAIN billed |-> billed[i].dollars])
               /\ ConvergenceTurn(turns) = IF GoodAt = {} THEN None ELSE Min(GoodAt)
               /\ AsRow(FromTotals) = AsRow(turns)
               /\ LET spent == CumulativeDollars(turns, call.model)
                  IN  /\ Last(CumulativeTokens(turns)) = Billed
                      /\ Last(spent) = SessionBlendedCost(call.model, Billed)
                      /\ Raised \notin Range(spent) =>
                           \A i \in 2..Len(turns) : Leq(spent[i - 1], spent[i])
    <3>1. turns # <<>> /\ (GoodAt = {} => Len(turns) = call.maxTurns)
      BY <2>4, LedgerFull
    <3>2. /\ SessionTokens(turns) = Billed
          /\ PromptTokens(turns) + CompletionTokens(turns) = Billed
          /\ ReportedDollars(turns) = Total([i \in DOMAIN billed |-> billed[i].dollars])
      BY <3>1, LedgerAddsUp
    <3>3. ConvergenceTurn(turns) = IF GoodAt = {} THEN None ELSE Min(GoodAt)
      BY <3>1, LedgerConverges
    <3>4. AsRow(FromTotals) = AsRow(turns)
      BY <3>1, RowInvariant
    <3> HIDE DEF SessionTokens
    <3> QED BY <3>1, <3>2, <3>3, <3>4, LedgerSpends
  <2>5. call.fn = "run_session" /\ pc # "called" =>
          SessionAccepts(turns) /\ Len(turns) <= Max({call.maxTurns, 0})
    BY <2>3
  <2> QED BY <2>1, <2>2, <2>4, <2>5 DEF CallsAccounted, TaskRight, FromTotals
<1> QED BY InitInv, NextInv, <1>1, PTL DEF Spec
-----------------------------------------------------------------------------
(* Sums over a finite set.                                                   *)

\* What holds of the empty set, and of a set whenever it holds of it without
\* any one element, holds of every finite set.
LEMMA Subsets ==
  ASSUME NEW S, IsFiniteSet(S), NEW K, {} \in K,
         \A s \in SUBSET S : s # {} /\ (\A x \in s : s \ {x} \in K) => s \in K
  PROVE  S \in K
<1> DEFINE T == {n \in Nat : \A s \in SUBSET S : Cardinality(s) = n => s \in K}
<1>1. 0 \in T
  <2> SUFFICES ASSUME NEW s \in SUBSET S, Cardinality(s) = 0 PROVE s \in K
    OBVIOUS
  <2>1. s = {}
    BY FS_Subset, FS_EmptySet
  <2> QED BY <2>1
<1>2. ASSUME NEW n \in Nat, n \in T PROVE n + 1 \in T
  <2> SUFFICES ASSUME NEW s \in SUBSET S, Cardinality(s) = n + 1 PROVE s \in K
    OBVIOUS
  <2>1. IsFiniteSet(s) /\ s # {}
    BY FS_Subset, FS_EmptySet
  <2>2. ASSUME NEW x \in s PROVE s \ {x} \in K
    <3>1. Cardinality(s \ {x}) = Cardinality(s) - 1
      BY <2>1, FS_RemoveElement
    <3>2. Cardinality(s \ {x}) = n /\ s \ {x} \in SUBSET S
      BY <3>1
    <3> QED BY <1>2, <3>2
  <2> QED BY <2>1, <2>2
<1>3. Cardinality(S) \in T
  <2>1. Cardinality(S) \in Nat
    BY FS_CardinalityType
  <2> HIDE DEF T
  <2> QED BY <1>1, <1>2, <2>1, Stepping
<1> QED BY <1>3

LEMMA Disjoint ==
  ASSUME NEW S, NEW T, IsFiniteSet(S), IsFiniteSet(T), S \cap T = {}
  PROVE  IsFiniteSet(S \cup T) /\ Cardinality(S \cup T) = Cardinality(S) + Cardinality(T)
<1>1. /\ IsFiniteSet(S \cup T)
      /\ Cardinality(S \cup T) = Cardinality(S) + Cardinality(T) - Cardinality(S \cap T)
  BY FS_Union
<1>2. Cardinality(S \cap T) = 0 /\ Cardinality(S) \in Nat /\ Cardinality(T) \in Nat
  BY FS_EmptySet, FS_CardinalityType
<1> QED BY <1>1, <1>2

Picked(s) == CHOOSE x \in s : TRUE

\* h sums f over the subsets of S, an element after the other.
IsAdder(S, f, h) ==
  h = [s \in SUBSET S |-> IF s = {} THEN 0 ELSE f[Picked(s)] + h[s \ {Picked(s)}]]

LEMMA AdderSteps ==
  ASSUME NEW S, NEW f, NEW h, IsAdder(S, f, h)
  PROVE  \A s \in SUBSET S : h[s] = IF s = {} THEN 0 ELSE f[Picked(s)] + h[s \ {Picked(s)}]
<1>1. PICK e : e = [s \in SUBSET S |-> IF s = {} THEN 0 ELSE f[Picked(s)] + h[s \ {Picked(s)}]]
  OBVIOUS
<1>2. \A s \in SUBSET S : e[s] = IF s = {} THEN 0 ELSE f[Picked(s)] + h[s \ {Picked(s)}]
  BY <1>1
<1>3. h = e
  BY <1>1 DEF IsAdder
<1> QED BY <1>2, <1>3

LEMMA AdderNat ==
  ASSUME NEW S, IsFiniteSet(S), NEW f \in [S -> Nat], NEW h, IsAdder(S, f, h)
  PROVE  h \in [SUBSET S -> Nat] /\ h[{}] = 0
<1> DEFINE K == {s \in SUBSET S : \A t \in SUBSET s : h[t] \in Nat}
<1>1. h[{}] = 0
  BY AdderSteps
<1>2. {} \in K
  BY <1>1
<1>3. ASSUME NEW s \in SUBSET S, s # {}, \A x \in s : s \ {x} \in K PROVE s \in K
  <2> SUFFICES ASSUME NEW t \in SUBSET s PROVE h[t] \in Nat
    OBVIOUS
  <2>1. CASE t = {}
    BY <1>1, <2>1
  <2>2. CASE t # {}
    <3>1. PICK x \in t : x = Picked(t)
      BY <2>2, Zenon DEF Picked
    <3>4. t \in SUBSET S
      OBVIOUS
    <3>5. h[t] = IF t = {} THEN 0 ELSE f[Picked(t)] + h[t \ {Picked(t)}]
      BY <3>4, AdderSteps
    <3>2. h[t] = f[x] + h[t \ {x}] /\ f[x] \in Nat
      BY <2>2, <3>1, <3>5
    <3>3. h[t \ {x}] \in Nat
      BY <1>3
    <3> QED BY <3>2, <3>3
  <2> QED BY <2>1, <2>2
<1>4. S \in K
  <2> HIDE DEF K
  <2> QED BY <1>2, <1>3, Subsets
<1>5. DOMAIN h = SUBSET S /\ h = [s \in SUBSET S |-> h[s]]
  <2>1. PICK e : e = [s \in SUBSET S |-> IF s = {} THEN 0 ELSE f[Picked(s)] + h[s \ {Picked(s)}]]
    OBVIOUS
  <2>2. DOMAIN e = SUBSET S /\ e = [s \in SUBSET S |-> e[s]]
    BY <2>1
  <2> QED BY <2>1, <2>2 DEF IsAdder
<1> QED BY <1>1, <1>4, <1>5

LEMMA AdderExists ==
  ASSUME NEW S, IsFiniteSet(S), NEW f \in [S -> Nat]
  PROVE  \E h : IsAdder(S, f, h)
<1> DEFINE OneMore(h, s) == IF s = {} THEN 0 ELSE f[Picked(s)] + h[s \ {Picked(s)}]
           Upto(h, n) == \A s \in SUBSET S : Cardinality(s) <= n => h[s] = OneMore(h, s)
           T == {n \in Nat : \E h \in [SUBSET S -> Nat] : Upto(h, n)}
<1>0. ASSUME NEW s \in SUBSET S, s # {}
      PROVE  /\ Picked(s) \in s /\ s \ {Picked(s)} \in SUBSET S /\ IsFiniteSet(s)
             /\ Cardinality(s) \in Nat /\ Cardinality(s \ {Picked(s)}) = Cardinality(s) - 1
  <2>1. Picked(s) \in s
    BY <1>0, Zenon DEF Picked
  <2>2. IsFiniteSet(s) /\ Cardinality(s) \in Nat
    BY FS_Subset, FS_CardinalityType
  <2> QED BY <2>1, <2>2, FS_RemoveElement
<1>1. 0 \in T
  <2> DEFINE h == [s \in SUBSET S |-> 0]
  <2>1. \A s \in SUBSET S : Cardinality(s) <= 0 => s = {}
    <3> SUFFICES ASSUME NEW s \in SUBSET S, Cardinality(s) <= 0 PROVE s = {}
      OBVIOUS
    <3>1. IsFiniteSet(s) /\ Cardinality(s) \in Nat
      BY FS_Subset, FS_CardinalityType
    <3> QED BY <3>1, FS_EmptySet
  <2>2. h \in [SUBSET S -> Nat] /\ \A s \in SUBSET S : h[s] = 0
    OBVIOUS
  <2> HIDE DEF h
  <2>3. Upto(h, 0)
    BY <2>1, <2>2
  <2> HIDE DEF Upto
  <2> QED BY <2>2, <2>3
<1>2. ASSUME NEW n \in Nat, n \in T PROVE n + 1 \in T
  <2>1. PICK h \in [SUBSET S -> Nat] : Upto(h, n)
    BY <1>2
  <2> DEFINE e == [s \in SUBSET S |-> IF Cardinality(s) <= n THEN h[s] ELSE OneMore(h, s)]
  <2>2. e \in [SUBSET S -> Nat]
    <3> SUFFICES ASSUME NEW s \in SUBSET S PROVE OneMore(h, s) \in Nat
      OBVIOUS
    <3>1. CASE s = {}
      BY <3>1
    <3>2. CASE s # {}
      <4>1. Picked(s) \in S /\ s \ {Picked(s)} \in SUBSET S
        BY <3>2, <1>0
      <4>2. f[Picked(s)] \in Nat /\ h[s \ {Picked(s)}] \in Nat
        BY <4>1
      <4> QED BY <3>2, <4>2
    <3> QED BY <3>1, <3>2
  <2>3. \A s \in SUBSET S : e[s] = IF Cardinality(s) <= n THEN h[s] ELSE OneMore(h, s)
    OBVIOUS
  <2> HIDE DEF e
  <2>4. ASSUME NEW s \in SUBSET S, Cardinality(s) <= n + 1 PROVE e[s] = OneMore(e, s)
    <3>1. CASE s = {}
      <4>1. Cardinality(s) <= n
        BY <3>1, FS_EmptySet
      <4> QED BY <2>1, <2>3, <3>1, <4>1
    <3>2. CASE s # {}
      <4>1. s \ {Picked(s)} \in SUBSET S /\ Cardinality(s \ {Picked(s)}) <= n
        BY <2>4, <3>2, <1>0
      <4>2. e[s \ {Picked(s)}] = h[s \ {Picked(s)}]
        BY <2>3, <4>1
      <4>3. OneMore(e, s) = OneMore(h, s)
        BY <3>2, <4>2
      <4>4. e[s] = OneMore(h, s)
        BY <2>1, <2>3
      <4> QED BY <4>3, <4>4
    <3> QED BY <3>1, <3>2
  <2>5. Upto(e, n + 1)
    BY <2>4
  <2> HIDE DEF Upto
  <2> QED BY <2>2, <2>5
<1>3. Cardinality(S) \in T
  <2>1. Cardinality(S) \in Nat
    BY FS_CardinalityType
  <2> HIDE DEF T
  <2> QED BY <1>1, <1>2, <2>1, Stepping
<1>4. PICK h \in [SUBSET S -> Nat] : Upto(h, Cardinality(S))
  BY <1>3
<1>5. \A s \in SUBSET S : h[s] = OneMore(h, s)
  BY <1>4, FS_Subset
<1> QED BY <1>5 DEF IsAdder

\* A sum of natural numbers is zero when each of them is.
LEMMA AdderZero ==
  ASSUME NEW S, IsFiniteSet(S), NEW f \in [S -> Nat], NEW h, IsAdder(S, f, h)
  PROVE  h[S] \in Nat /\ (h[S] = 0 <=> \A x \in S : f[x] = 0)
<1> DEFINE K == {s \in SUBSET S : h[s] = 0 <=> \A x \in s : f[x] = 0}
<1>1. h \in [SUBSET S -> Nat] /\ h[{}] = 0
  BY AdderNat
<1>2. {} \in K
  BY <1>1
<1>3. ASSUME NEW s \in SUBSET S, s # {}, \A x \in s : s \ {x} \in K PROVE s \in K
  <2>1. PICK x \in s : x = Picked(s)
    BY <1>3, Zenon DEF Picked
  <2>6. h[s] = IF s = {} THEN 0 ELSE f[Picked(s)] + h[s \ {Picked(s)}]
    BY AdderSteps
  <2>2. h[s] = f[x] + h[s \ {x}]
    BY <1>3, <2>1, <2>6
  <2>3. f[x] \in Nat /\ h[s \ {x}] \in Nat
    <3>1. x \in S /\ s \ {x} \in SUBSET S
      OBVIOUS
    <3> QED BY <1>1, <3>1
  <2>4. h[s] = 0 <=> f[x] = 0 /\ h[s \ {x}] = 0
    BY <2>2, <2>3
  <2>5. h[s \ {x}] = 0 <=> \A y \in s \ {x} : f[y] = 0
    BY <1>3
  <2> QED BY <2>4, <2>5
<1>4. S \in K
  <2> HIDE DEF K
  <2> QED BY <1>2, <1>3, Subsets
<1> QED BY <1>1, <1>4

\* What is counted for each value of k adds up to all that is counted.
LEMMA AdderCounts ==
  ASSUME NEW S, IsFiniteSet(S), NEW I, IsFiniteSet(I), NEW k \in [I -> S],
         NEW f \in [S -> Nat], \A c \in S : f[c] = Cardinality({i \in I : k[i] = c}),
         NEW h, IsAdder(S, f, h)
  PROVE  h[S] = Cardinality(I)
<1> DEFINE At(s) == {i \in I : k[i] \in s}
           K == {s \in SUBSET S : h[s] = Cardinality(At(s))}
<1>1. {} \in K
  <2>1. At({}) = {} /\ {} \in SUBSET S
    OBVIOUS
  <2>2. h[{}] = 0
    BY AdderNat
  <2> QED BY <2>1, <2>2, FS_EmptySet
<1>2. ASSUME NEW s \in SUBSET S, s # {}, \A x \in s : s \ {x} \in K PROVE s \in K
  <2>1. PICK x \in s : x = Picked(s)
    BY <1>2, Zenon DEF Picked
  <2>2. h[s] = f[x] + h[s \ {x}]
    BY <1>2, <2>1, AdderSteps
  <2>3. h[s \ {x}] = Cardinality(At(s \ {x}))
    BY <1>2
  <2> DEFINE Here == {i \in I : k[i] = x}
             There == At(s \ {x})
  <2>4. At(s) = Here \cup There /\ Here \cap There = {} /\ Here \in SUBSET I /\ There \in SUBSET I
    OBVIOUS
  <2>5. f[x] = Cardinality(Here)
    OBVIOUS
  <2> HIDE DEF At, Here, There
  <2>6. IsFiniteSet(Here) /\ IsFiniteSet(There) /\ Cardinality(Here) \in Nat /\ Cardinality(There) \in Nat
    BY <2>4, FS_Subset, FS_CardinalityType
  <2>7. Cardinality(At(s)) = Cardinality(Here) + Cardinality(There)
    BY <2>4, <2>6, Disjoint
  <2>8. h[s] = Cardinality(At(s))
    BY <2>2, <2>3, <2>5, <2>7 DEF There
  <2> QED BY <2>8
<1>3. S \in K
  <2> HIDE DEF K
  <2> QED BY <1>1, <1>2, Subsets
<1>4. At(S) = I
  OBVIOUS
<1> QED BY <1>3, <1>4

-----------------------------------------------------------------------------
(* The matchups in order.                                                    *)

\* Of two matchups one comes first.
Distinguished(S) == \A m, n \in S : m # n => Before(m, n) \/ Before(n, m)

LEMMA LayersInt == Layers \subseteq Int
BY TournamentAssumption DEF Layers

LEMMA BeforeOrders ==
  ASSUME NEW l \in Matchups, NEW m \in Matchups, NEW n \in Matchups
  PROVE  ~Before(m, m) /\ (Before(l, m) /\ Before(m, n) => Before(l, n))
<1>1. /\ l.model \in Int /\ l.task \in Int /\ l.competitor \in Int
      /\ m.model \in Int /\ m.task \in Int /\ m.competitor \in Int
      /\ n.model \in Int /\ n.task \in Int /\ n.competitor \in Int
  BY LayersInt DEF Matchups
<1> QED BY <1>1 DEF Before

\* Each matchup's place: the number of those before it, and one.
LEMMA PlacesExist ==
  ASSUME NEW S \in SUBSET Matchups, IsFiniteSet(S), Distinguished(S)
  PROVE  \E r \in Bijection(S, 1..Cardinality(S)) :
           \A x, y \in S : r[x] < r[y] => Before(x, y)
<1> DEFINE Below(x) == {y \in S : Before(y, x)}
           n == Cardinality(S)
           r == [x \in S |-> Cardinality(Below(x)) + 1]
<1>0. n \in Nat
  BY FS_CardinalityType
<1>1. ASSUME NEW x \in S
      PROVE  IsFiniteSet(Below(x)) /\ Cardinality(Below(x)) \in Nat /\ Cardinality(Below(x)) <= n - 1
  <2>1. Below(x) \in SUBSET (S \ {x})
    BY BeforeOrders
  <2>2. IsFiniteSet(S \ {x}) /\ Cardinality(S \ {x}) = n - 1
    BY FS_RemoveElement
  <2> HIDE DEF Below, n
  <2> QED BY <2>1, <2>2, FS_Subset, FS_CardinalityType
<1>2. ASSUME NEW x \in S, NEW y \in S, Before(x, y)
      PROVE  Cardinality(Below(x)) < Cardinality(Below(y))
  <2>1. Below(x) \in SUBSET Below(y) /\ x \in Below(y) /\ x \notin Below(x)
    BY <1>2, BeforeOrders
  <2> HIDE DEF Below, n
  <2>2. Cardinality(Below(x)) <= Cardinality(Below(y)) /\ Cardinality(Below(x)) # Cardinality(Below(y))
    BY <1>1, <2>1, FS_Subset
  <2> QED BY <1>1, <2>2
<1>3. \A x \in S : r[x] = Cardinality(Below(x)) + 1
  OBVIOUS
<1>4. r \in [S -> 1..n]
  <2> HIDE DEF Below, n
  <2> SUFFICES ASSUME NEW x \in S PROVE Cardinality(Below(x)) + 1 \in 1..n
    OBVIOUS
  <2> QED BY <1>0, <1>1
<1> HIDE DEF r, Below, n
<1>5. ASSUME NEW x \in S, NEW y \in S, Before(x, y) PROVE r[x] < r[y]
  BY <1>1, <1>2, <1>3, <1>5
<1>6. ASSUME NEW x \in S, NEW y \in S, r[x] < r[y] PROVE Before(x, y)
  <2>1. ~(r[y] < r[x]) /\ x # y
    BY <1>4, <1>6
  <2> QED BY <1>5, <2>1 DEF Distinguished
<1>7. r \in Injection(S, 1..n)
  <2>1. ASSUME NEW x \in S, NEW y \in S, r[x] = r[y] PROVE x = y
    <3>1. ~(r[x] < r[y]) /\ ~(r[y] < r[x])
      BY <1>4, <2>1
    <3> QED BY <1>5, <3>1 DEF Distinguished
  <2> QED BY <1>4, <2>1 DEF Injection, IsInjective
<1>8. r \in Surjection(S, 1..n)
  <2>1. IsFiniteSet(1..n) /\ Cardinality(1..n) = n
    BY <1>0, FS_Interval
  <2>2. Cardinality(S) = n
    BY DEF n
  <2> QED BY <1>7, <2>1, <2>2, FS_Injection
<1>9. r \in Bijection(S, 1..n)
  BY <1>7, <1>8 DEF Bijection
<1> QED BY <1>6, <1>9 DEF n

\* InOrder lists each matchup once.
LEMMA InOrderFacts ==
  ASSUME NEW S \in SUBSET Matchups, IsFiniteSet(S), Distinguished(S)
  PROVE  /\ Cardinality(S) \in Nat /\ InOrder(S) \in Bijection(1..Cardinality(S), S)
         /\ \A i, j \in 1..Cardinality(S) : i < j => Before(InOrder(S)[i], InOrder(S)[j])
<1> DEFINE n == Cardinality(S)
           Sorted(s) == \A i, j \in DOMAIN s : i < j => Before(s[i], s[j])
           o == InOrder(S)
<1>0. n \in Nat
  BY FS_CardinalityType
<1>1. PICK r \in Bijection(S, 1..n) : \A x, y \in S : r[x] < r[y] => Before(x, y)
  BY PlacesExist
<1>2. r \in [S -> 1..n] /\ \A i \in 1..n : \E x \in S : r[x] = i
  BY <1>1 DEF Bijection, Surjection, Injection
<1> DEFINE s == [i \in 1..n |-> CHOOSE x \in S : r[x] = i]
<1>3. s \in [1..n -> S] /\ \A i \in 1..n : r[s[i]] = i
  BY <1>2
<1>4. Sorted(s)
  <2> HIDE DEF s
  <2> SUFFICES ASSUME NEW i \in 1..n, NEW j \in 1..n, i < j PROVE Before(s[i], s[j])
    BY <1>3
  <2>1. s[i] \in S /\ s[j] \in S /\ r[s[i]] < r[s[j]]
    BY <1>3
  <2> QED BY <1>1, <2>1
<1>5. o \in [1..n -> S] /\ Sorted(o)
  <2> HIDE DEF s, Sorted
  <2>1. \E t \in [1..n -> S] : Sorted(t)
    BY <1>3, <1>4
  <2> QED BY <2>1, Zenon DEF InOrder, Sorted
<1> HIDE DEF o, n
<1>6. \A i, j \in 1..n : i < j => Before(o[i], o[j])
  BY <1>5
<1>7. o \in Injection(1..n, S)
  <2>1. ASSUME NEW i \in 1..n, NEW j \in 1..n, o[i] = o[j] PROVE i = j
    <3>1. ~Before(o[i], o[j]) /\ ~Before(o[j], o[i])
      <4>1. o[i] \in Matchups
        BY <1>5
      <4> QED BY <2>1, <4>1, BeforeOrders
    <3>2. ~(i < j) /\ ~(j < i)
      BY <1>6, <3>1
    <3> QED BY <1>0, <3>2
  <2> QED BY <1>5, <2>1 DEF Injection, IsInjective
<1>8. o \in Surjection(1..n, S)
  <2>1. IsFiniteSet(1..n) /\ Cardinality(1..n) = n
    BY <1>0, FS_Interval
  <2>2. Cardinality(S) = n
    BY DEF n
  <2> QED BY <1>7, <2>1, <2>2, FS_Injection
<1> QED BY <1>0, <1>6, <1>7, <1>8 DEF Bijection, n, o

-----------------------------------------------------------------------------
(* The matchups of a tournament that is not refused.                         *)

\* What is recorded of a session.
Logged == [model : Int, task : Int, layer : Layers, tokens : Nat, resolved : BOOLEAN]

MatchupOf(b, s) ==
  [model |-> b.model, task |-> b.task, competitor |-> s.layer, brief |-> b.tokens, other |-> s.tokens]
MatchupsIn(ss) == {MatchupOf(p[1], p[2]) : p \in Pairs(ss)}
Competing(ss) == {s \in Range(ss) : Competes(s)}
BriefOf(ss, s) == CHOOSE b \in Range(ss) : Cell(b) = Cell(s) /\ ~Competes(b)

Accepted(ss) == ss \in Seq(Logged) /\ ~Duplicated(ss) /\ ~NoBaseline(ss)

LEMMA RangeFacts ==
  ASSUME NEW T, NEW ss \in Seq(T)
  PROVE  /\ Range(ss) \in SUBSET T /\ IsFiniteSet(Range(ss))
         /\ \A s \in Range(ss) : \E i \in 1..Len(ss) : s = ss[i]
         /\ \A i \in 1..Len(ss) : ss[i] \in Range(ss)
<1>1. PICK n \in Nat : n = Len(ss) /\ DOMAIN ss = 1..n
  OBVIOUS
<1>2. Range(ss) = {ss[i] : i \in 1..n}
  BY <1>1 DEF Range
<1>3. ss \in Surjection(1..n, Range(ss))
  <2>1. ss \in [1..n -> Range(ss)]
    BY <1>1, <1>2
  <2> QED BY <1>2, <2>1 DEF Surjection
<1>4. IsFiniteSet(Range(ss))
  BY <1>3, FS_Interval, FS_Surjection
<1>5. Range(ss) \in SUBSET T
  BY <1>1, <1>2
<1> QED BY <1>1, <1>2, <1>4, <1>5

\* A cell and a layer have one session.
LEMMA OneSession ==
  ASSUME NEW ss, Accepted(ss), NEW s \in Range(ss), NEW t \in Range(ss),
         Cell(s) = Cell(t), s.layer = t.layer
  PROVE  s = t
<1>1. PICK i, j \in 1..Len(ss) : s = ss[i] /\ t = ss[j]
  BY RangeFacts DEF Accepted
<1>2. DOMAIN ss = 1..Len(ss) /\ Len(ss) \in Nat
  BY DEF Accepted
<1>3. ~(i < j) /\ ~(j < i)
  BY <1>1, <1>2 DEF Accepted, Duplicated
<1> QED BY <1>1, <1>2, <1>3

LEMMA BriefFacts ==
  ASSUME NEW ss, Accepted(ss), NEW s \in Competing(ss)
  PROVE  /\ BriefOf(ss, s) \in Range(ss)
         /\ Cell(BriefOf(ss, s)) = Cell(s) /\ ~Competes(BriefOf(ss, s))
         /\ \A b \in Range(ss) : Cell(b) = Cell(s) /\ ~Competes(b) => b = BriefOf(ss, s)
<1> DEFINE Is(b) == Cell(b) = Cell(s) /\ ~Competes(b)
           o == BriefOf(ss, s)
<1>1. \E b \in Range(ss) : Is(b)
  BY DEF Accepted, NoBaseline, Competing
<1>2. o \in Range(ss) /\ Is(o)
  BY <1>1, Zenon DEF BriefOf
<1> HIDE DEF o
<1>3. ASSUME NEW b \in Range(ss), Is(b) PROVE b = o
  <2>1. Cell(b) = Cell(o) /\ b.layer = o.layer
    BY <1>2, <1>3 DEF Competes
  <2> QED BY <1>2, <2>1, OneSession
<1> QED BY <1>2, <1>3 DEF o

\* A competitor's session has one matchup, and every matchup is of one.
LEMMA MatchupFacts ==
  ASSUME NEW ss, Accepted(ss)
  PROVE  /\ [s \in Competing(ss) |-> MatchupOf(BriefOf(ss, s), s)]
              \in Bijection(Competing(ss), MatchupsIn(ss))
         /\ IsFiniteSet(Competing(ss)) /\ IsFiniteSet(MatchupsIn(ss))
         /\ Cardinality(MatchupsIn(ss)) = Cardinality(Competing(ss))
         /\ MatchupsIn(ss) \in SUBSET Matchups /\ Distinguished(MatchupsIn(ss))
<1> DEFINE C == Competing(ss)
           M == MatchupsIn(ss)
           f == [s \in C |-> MatchupOf(BriefOf(ss, s), s)]
<1>1. IsFiniteSet(Range(ss)) /\ Range(ss) \in SUBSET Logged
  BY RangeFacts DEF Accepted
<1>2. C \in SUBSET Range(ss) /\ IsFiniteSet(C)
  <2>1. C \in SUBSET Range(ss)
    BY DEF Competing
  <2> QED BY <1>1, <2>1, FS_Subset
<1>3. \A s \in C : f[s] = MatchupOf(BriefOf(ss, s), s)
  OBVIOUS
<1>4. ASSUME NEW s \in C
      PROVE  /\ f[s] \in M /\ f[s] \in Matchups
             /\ f[s].model = s.model /\ f[s].task = s.task /\ f[s].competitor = s.layer
  <2>1. PICK b \in Range(ss) : b = BriefOf(ss, s) /\ Cell(b) = Cell(s) /\ ~Competes(b)
    BY BriefFacts
  <2>2. s \in Range(ss) /\ Competes(s)
    BY DEF Competing
  <2>3. f[s] = MatchupOf(b, s)
    BY <1>3, <2>1
  <2> HIDE DEF f
  <2>4. <<b, s>> \in Pairs(ss)
    BY <2>1, <2>2 DEF Pairs
  <2>5. f[s] \in M
    BY <2>3, <2>4 DEF MatchupsIn
  <2>6. b \in Logged /\ s \in Logged /\ b.model = s.model /\ b.task = s.task
    BY <1>1, <2>1, <2>2 DEF Cell
  <2>7. /\ f[s] \in Matchups
        /\ f[s].model = s.model /\ f[s].task = s.task /\ f[s].competitor = s.layer
    BY <2>3, <2>6 DEF MatchupOf, Matchups, Logged
  <2> QED BY <2>5, <2>7
<1>5. ASSUME NEW m \in M PROVE \E s \in C : f[s] = m
  <2>1. PICK p \in Pairs(ss) : m = MatchupOf(p[1], p[2])
    BY DEF MatchupsIn
  <2>2. p[1] \in Range(ss) /\ p[2] \in C /\ Cell(p[1]) = Cell(p[2]) /\ ~Competes(p[1])
    BY <2>1 DEF Pairs, Competing
  <2>3. p[1] = BriefOf(ss, p[2])
    BY <2>2, BriefFacts
  <2> QED BY <1>3, <2>1, <2>2, <2>3
<1> HIDE DEF f
<1>6. ASSUME NEW s \in C, NEW t \in C, f[s].model = f[t].model, f[s].task = f[t].task,
             f[s].competitor = f[t].competitor
      PROVE  s = t
  <2>1. Cell(s) = Cell(t) /\ s.layer = t.layer
    BY <1>4, <1>6 DEF Cell
  <2> QED BY <1>2, <2>1, OneSession
<1>7. f \in Bijection(C, M)
  <2>1. f \in [C -> M]
    BY <1>4 DEF f
  <2>2. \A s, t \in C : f[s] = f[t] => s = t
    BY <1>6
  <2> QED BY <1>5, <2>1, <2>2 DEF Bijection, Injection, Surjection, IsInjective
<1>8. IsFiniteSet(M) /\ Cardinality(M) = Cardinality(C)
  <2>1. ExistsBijection(C, M)
    BY <1>7 DEF ExistsBijection
  <2> QED BY <1>2, <2>1, FS_Bijection
<1>9. M \in SUBSET Matchups
  BY <1>4, <1>5
<1>10. Distinguished(M)
  <2> SUFFICES ASSUME NEW m \in M, NEW n \in M, m # n PROVE Before(m, n) \/ Before(n, m)
    BY DEF Distinguished
  <2>1. PICK s, t \in C : m = f[s] /\ n = f[t]
    BY <1>5
  <2>2. s # t
    BY <2>1
  <2>3. m.model # n.model \/ m.task # n.task \/ m.competitor # n.competitor
    BY <1>6, <2>1, <2>2
  <2>4. /\ m.model \in Int /\ m.task \in Int /\ m.competitor \in Int
        /\ n.model \in Int /\ n.task \in Int /\ n.competitor \in Int
    BY <1>9, LayersInt DEF Matchups
  <2> QED BY <2>3, <2>4 DEF Before
<1> QED BY <1>2, <1>7, <1>8, <1>9, <1>10 DEF f

\* BuildMatchups lists the matchups once each.
LEMMA BuiltFacts ==
  ASSUME NEW ss, Accepted(ss)
  PROVE  /\ Cardinality(Competing(ss)) \in Nat
         /\ BuildMatchups(ss) \in Bijection(1..Cardinality(Competing(ss)), MatchupsIn(ss))
         /\ BuildMatchups(ss) \in Seq(Matchups) /\ BuildMatchups(ss) # Raised
         /\ DOMAIN BuildMatchups(ss) = 1..Cardinality(Competing(ss))
<1> DEFINE M == MatchupsIn(ss)
           n == Cardinality(Competing(ss))
           ms == BuildMatchups(ss)
<1>1. M = {[model |-> p[1].model, task |-> p[1].task, competitor |-> p[2].layer,
            brief |-> p[1].tokens, other |-> p[2].tokens] : p \in Pairs(ss)}
  BY DEF MatchupsIn, MatchupOf
<1>2. ms = InOrder(M)
  BY <1>1, Zenon DEF BuildMatchups, Accepted
<1>3. M \in SUBSET Matchups /\ IsFiniteSet(M) /\ Distinguished(M) /\ Cardinality(M) = n
  BY MatchupFacts
<1> HIDE DEF M, n, ms
<1>4. n \in Nat /\ ms \in Bijection(1..n, M)
  BY <1>2, <1>3, InOrderFacts
<1>5. ms \in [1..n -> Matchups]
  BY <1>3, <1>4 DEF Bijection, Injection
<1>6. ms \in Seq(Matchups) /\ DOMAIN ms = 1..n
  BY <1>4, <1>5
<1>7. ms # Raised
  BY <1>6, TournamentAssumption
<1> QED BY <1>4, <1>6, <1>7 DEF M, n, ms

-----------------------------------------------------------------------------
(* The tallies.                                                              *)

OutcomeOf(f) == IF f = "wins" THEN "brief_cheaper"
                ELSE IF f = "losses" THEN "competitor_cheaper" ELSE "tie"

Ended(ms, I, o) == {i \in I : Outcome(ms[i]) = o}

LEMMA TallyIs ==
  ASSUME NEW ms, NEW I, NEW f \in {"wins", "losses", "ties"}
  PROVE  TallyAt(ms, I)[f] = Cardinality(Ended(ms, I, OutcomeOf(f)))
<1>1. CASE f = "wins"
  BY <1>1 DEF TallyAt, Ended, OutcomeOf
<1>2. CASE f = "losses"
  BY <1>2 DEF TallyAt, Ended, OutcomeOf
<1>3. CASE f = "ties"
  BY <1>3 DEF TallyAt, Ended, OutcomeOf
<1> QED BY <1>1, <1>2, <1>3

\* Every matchup is won, lost or tied.
LEMMA TallySplits ==
  ASSUME NEW ms, NEW I, IsFiniteSet(I), \A i \in I : ms[i] \in Matchups
  PROVE  TallyAt(ms, I) \in Tallies /\ Matches(TallyAt(ms, I)) = Cardinality(I)
<1> DEFINE W == Ended(ms, I, "brief_cheaper")
           L == Ended(ms, I, "competitor_cheaper")
           T == Ended(ms, I, "tie")
<1>1. I = (W \cup L) \cup T
  <2> SUFFICES ASSUME NEW i \in I PROVE Outcome(ms[i]) \in {"brief_cheaper", "competitor_cheaper", "tie"}
    BY DEF Ended
  <2> QED BY DEF Outcome
<1>2. W \cap L = {} /\ (W \cup L) \cap T = {} /\ W \in SUBSET I /\ L \in SUBSET I /\ T \in SUBSET I
  BY DEF Ended
<1>3. TallyAt(ms, I) = [wins |-> Cardinality(W), losses |-> Cardinality(L), ties |-> Cardinality(T)]
  BY DEF TallyAt, Ended
<1> HIDE DEF W, L, T
<1>4. /\ IsFiniteSet(W) /\ IsFiniteSet(L) /\ IsFiniteSet(T)
      /\ Cardinality(W) \in Nat /\ Cardinality(L) \in Nat /\ Cardinality(T) \in Nat
  BY <1>2, FS_Subset, FS_CardinalityType
<1>5. IsFiniteSet(W \cup L) /\ Cardinality(W \cup L) = Cardinality(W) + Cardinality(L)
  BY <1>2, <1>4, Disjoint
<1>6. Cardinality(I) = Cardinality(W) + Cardinality(L) + Cardinality(T)
  BY <1>1, <1>2, <1>4, <1>5, Disjoint
<1>7. Matches(TallyAt(ms, I)) = Cardinality(W) + Cardinality(L) + Cardinality(T)
  BY <1>3, <1>4 DEF Matches
<1> QED BY <1>3, <1>4, <1>6, <1>7 DEF Tallies

\* The competitors' tallies add up to the overall one.
LEMMA TalliesAddUp ==
  ASSUME NEW n \in Nat, NEW ms \in [1..n -> Matchups], NEW f \in {"wins", "losses", "ties"}
  PROVE  MapThenSumSet(LAMBDA c : TallyByCompetitor(ms)[c][f], DOMAIN TallyByCompetitor(ms)) = Tally(ms)[f]
<1> DEFINE by == TallyByCompetitor(ms)
           S == {ms[i].competitor : i \in 1..n}
           o == OutcomeOf(f)
           I == Ended(ms, 1..n, o)
           k == [i \in I |-> ms[i].competitor]
           g == [c \in S |-> Cardinality({i \in I : k[i] = c})]
           IsIter(h) == h = [s \in SUBSET DOMAIN by |->
                               IF s = {} THEN 0
                               ELSE LET x == CHOOSE x \in s : TRUE
                                    IN  by[x][f] + h[s \ {x}]]
           iter == CHOOSE h : IsIter(h)
<1>1. MapThenSumSet(LAMBDA c : by[c][f], DOMAIN by) = iter[DOMAIN by]
  BY Zenon DEF MapThenSumSet, MapThenFoldSet
<1>2. DOMAIN ms = 1..n
  OBVIOUS
<1>3. by = [c \in S |-> TallyAt(ms, {i \in 1..n : ms[i].competitor = c})]
  BY <1>2 DEF TallyByCompetitor
<1> HIDE DEF by
<1>4. DOMAIN by = S /\ \A c \in S : by[c] = TallyAt(ms, {i \in 1..n : ms[i].competitor = c})
  BY <1>3
<1>5. IsFiniteSet(1..n) /\ IsFiniteSet(I)
  <2>1. IsFiniteSet(1..n) /\ I \in SUBSET (1..n)
    BY FS_Interval DEF Ended
  <2> QED BY <2>1, FS_Subset
<1>6. IsFiniteSet(S)
  <2> DEFINE e == [i \in 1..n |-> ms[i].competitor]
  <2>1. e \in Surjection(1..n, S)
    BY DEF Surjection
  <2> HIDE DEF e, S
  <2> QED BY <1>5, <2>1, FS_Surjection
<1>7. ASSUME NEW c \in S PROVE by[c][f] = g[c] /\ g[c] \in Nat
  <2>1. {i \in I : k[i] = c} = Ended(ms, {i \in 1..n : ms[i].competitor = c}, o)
    BY DEF Ended
  <2>2. g[c] = Cardinality({i \in I : k[i] = c})
    OBVIOUS
  <2>3. by[c][f] = Cardinality(Ended(ms, {i \in 1..n : ms[i].competitor = c}, o))
    BY <1>4, TallyIs
  <2>4. Cardinality({i \in I : k[i] = c}) \in Nat
    <3>1. {i \in I : k[i] = c} \in SUBSET I
      OBVIOUS
    <3> HIDE DEF I, k
    <3> QED BY <1>5, <3>1, FS_Subset, FS_CardinalityType
  <2> QED BY <2>1, <2>2, <2>3, <2>4
<1>8. k \in [I -> S]
  BY DEF Ended
<1>9. \A c \in S : g[c] = Cardinality({i \in I : k[i] = c})
  OBVIOUS
<1>10. DOMAIN g = S /\ g = [c \in S |-> g[c]]
  OBVIOUS
<1> HIDE DEF g, k, I, S, o
<1>11. g \in [S -> Nat]
  BY <1>7, <1>10
<1>12. PICK h : IsAdder(S, g, h)
  BY <1>6, <1>11, AdderExists
<1>13. ASSUME NEW e PROVE IsIter(e) <=> IsAdder(S, g, e)
  <2>1. ASSUME NEW s \in SUBSET S, s # {}
        PROVE  g[Picked(s)] = by[Picked(s)][f] /\ Picked(s) = CHOOSE x \in s : TRUE
    <3>1. Picked(s) = (CHOOSE x \in s : TRUE) /\ Picked(s) \in s
      BY <2>1, Zenon DEF Picked
    <3> QED BY <1>7, <3>1
  <2>2. [s \in SUBSET S |-> IF s = {} THEN 0 ELSE g[Picked(s)] + e[s \ {Picked(s)}]] =
          [s \in SUBSET S |-> IF s = {} THEN 0 ELSE LET x == CHOOSE x \in s : TRUE
                                                  IN  by[x][f] + e[s \ {x}]]
    BY <2>1
  <2> QED BY <1>4, <2>2, Zenon DEF IsAdder
<1>14. IsIter(iter)
  <2> HIDE DEF IsIter
  <2>1. \E e : IsIter(e)
    BY <1>12, <1>13
  <2> QED BY <2>1, Zenon
<1> HIDE DEF iter, IsIter
<1>15. IsAdder(S, g, iter)
  BY <1>13, <1>14
<1>16. iter[S] = Cardinality(I)
  BY <1>5, <1>6, <1>8, <1>9, <1>11, <1>15, AdderCounts
<1>17. Tally(ms)[f] = Cardinality(I)
  BY <1>2, TallyIs DEF Tally, I, o
<1> QED BY <1>1, <1>4, <1>16, <1>17 DEF by

-----------------------------------------------------------------------------
(* The order of the sessions, the size of the tournament and its shares.     *)

LEMMA ReverseFacts ==
  ASSUME NEW T, NEW ss \in Seq(T)
  PROVE  BuildMatchups(Reverse(ss)) = BuildMatchups(ss)
<1>1. PICK n \in Nat : n = Len(ss) /\ DOMAIN ss = 1..n
  OBVIOUS
<1>2. PICK rs : rs = Reverse(ss)
  OBVIOUS
<1>3. rs = [i \in 1..n |-> ss[(n - i) + 1]]
  BY <1>1, <1>2 DEF Reverse
<1>4. DOMAIN rs = 1..n /\ \A i \in 1..n : (n - i) + 1 \in 1..n /\ rs[i] = ss[(n - i) + 1]
  BY <1>3
<1>5. \A i \in 1..n : rs[(n - i) + 1] = ss[i]
  <2> SUFFICES ASSUME NEW i \in 1..n PROVE rs[(n - i) + 1] = ss[i]
    OBVIOUS
  <2>1. PICK k \in 1..n : k = (n - i) + 1 /\ (n - k) + 1 = i
    OBVIOUS
  <2> QED BY <1>4, <2>1
<1>6. Range(rs) = Range(ss)
  <2>1. Range(rs) = {rs[i] : i \in 1..n} /\ Range(ss) = {ss[i] : i \in 1..n}
    BY <1>1, <1>4 DEF Range
  <2> QED BY <1>4, <1>5, <2>1
<1>7. ASSUME NEW a, NEW b, DOMAIN a = 1..n, DOMAIN b = 1..n,
             \A i \in 1..n : a[i] = b[(n - i) + 1], Duplicated(a)
      PROVE  Duplicated(b)
  <2>1. PICK i, j \in 1..n : i < j /\ Cell(a[i]) = Cell(a[j]) /\ a[i].layer = a[j].layer
    BY <1>7 DEF Duplicated
  <2>2. PICK k, l \in 1..n : k = (n - i) + 1 /\ l = (n - j) + 1 /\ l < k
    BY <2>1
  <2>3. a[i] = b[k] /\ a[j] = b[l]
    BY <1>7, <2>2
  <2>4. /\ l \in DOMAIN b /\ k \in DOMAIN b /\ l < k
        /\ Cell(b[l]) = Cell(b[k]) /\ b[l].layer = b[k].layer
    BY <1>7, <2>1, <2>2, <2>3
  <2> QED BY <2>4 DEF Duplicated
<1>8. Duplicated(rs) <=> Duplicated(ss)
  <2>1. Duplicated(rs) => Duplicated(ss)
    BY <1>1, <1>4, <1>7
  <2>2. Duplicated(ss) => Duplicated(rs)
    BY <1>1, <1>4, <1>5, <1>7
  <2> QED BY <2>1, <2>2
<1>9. NoBaseline(rs) <=> NoBaseline(ss)
  BY <1>6 DEF NoBaseline
<1>10. Pairs(rs) = Pairs(ss)
  BY <1>6 DEF Pairs
<1> QED BY <1>2, <1>8, <1>9, <1>10 DEF BuildMatchups

\* A full sweep has one competing session for each cell and competitor.
LEMMA FullSweep ==
  ASSUME Accepted(sessions),
         \A cell \in Cells, l \in Competitors \cup {BriefLayer} :
           \E s \in Range(sessions) : Cell(s) = cell /\ s.layer = l
  PROVE  Cardinality(Competing(sessions)) =
           MatchupCount(1, Cardinality(Cells), Cardinality(Competitors))
<1> DEFINE R == Range(sessions)
           C == Competing(sessions)
           f == [s \in C |-> <<Cell(s), s.layer>>]
<1>1. IsFiniteSet(R)
  BY RangeFacts DEF Accepted
<1>2. IsFiniteSet(C) /\ C \in SUBSET R
  BY MatchupFacts DEF Competing
<1>3. IsFiniteSet(Cells)
  <2> DEFINE e == [s \in R |-> Cell(s)]
  <2>1. e \in Surjection(R, Cells)
    BY DEF Surjection, Cells, Cell
  <2> HIDE DEF e
  <2> QED BY <1>1, <2>1, FS_Surjection
<1>4. IsFiniteSet(Competitors)
  <2> DEFINE e == [s \in C |-> s.layer]
  <2>1. e \in Surjection(C, Competitors)
    BY DEF Surjection, Competitors, Competing
  <2> HIDE DEF e
  <2> QED BY <1>2, <2>1, FS_Surjection
<1>5. f \in [C -> Cells \X Competitors]
  <2>1. ASSUME NEW s \in C PROVE Cell(s) \in Cells /\ s.layer \in Competitors
    BY DEF Competing, Cells, Cell, Competitors
  <2> QED BY <2>1
<1>6. \A s \in C : f[s] = <<Cell(s), s.layer>>
  OBVIOUS
<1> HIDE DEF f
<1>7. f \in Injection(C, Cells \X Competitors)
  <2>1. ASSUME NEW s \in C, NEW t \in C, f[s] = f[t] PROVE s = t
    <3>1. Cell(s) = Cell(t) /\ s.layer = t.layer
      BY <1>6, <2>1
    <3> QED BY <1>2, <3>1, OneSession
  <2> QED BY <1>5, <2>1 DEF Injection, IsInjective
<1>8. f \in Surjection(C, Cells \X Competitors)
  <2>1. ASSUME NEW cell \in Cells, NEW l \in Competitors PROVE \E s \in C : f[s] = <<cell, l>>
    <3>1. PICK s \in R : Cell(s) = cell /\ s.layer = l
      OBVIOUS
    <3>2. l # BriefLayer
      BY DEF Competitors, Competes
    <3>3. s \in C
      BY <3>1, <3>2 DEF Competing, Competes
    <3> QED BY <1>6, <3>1, <3>3
  <2>2. \A p \in Cells \X Competitors : \E s \in C : f[s] = p
    BY <2>1
  <2> QED BY <1>5, <2>2 DEF Surjection
<1>9. Cardinality(Cells \X Competitors) = Cardinality(C)
  <2>1. ExistsBijection(C, Cells \X Competitors)
    BY <1>7, <1>8 DEF Bijection, ExistsBijection
  <2> QED BY <1>2, <2>1, FS_Bijection
<1> HIDE DEF C
<1>10. Cardinality(Cells \X Competitors) = Cardinality(Cells) * Cardinality(Competitors)
  BY <1>3, <1>4, FS_Product
<1>11. PICK a, b \in Nat : a = Cardinality(Cells) /\ b = Cardinality(Competitors)
  BY <1>3, <1>4, FS_CardinalityType
<1>12. MatchupCount(1, a, b) = a * b
  <2>1. 1 * a * b = a * b /\ ~(1 < 0 \/ a < 0 \/ b < 0)
    OBVIOUS
  <2> QED BY <2>1 DEF MatchupCount
<1> QED BY <1>9, <1>10, <1>11, <1>12 DEF C

\* The fractions of two parts of a whole add up to no more than one.
LEMMA PartsFit ==
  ASSUME NEW w \in Nat, NEW l \in Nat, NEW m \in Nat, m > 0, w + l <= m
  PROVE  Leq(Plus(Frac(w, m), Frac(l, m)), One)
<1>1. PICK p : p = Frac(w, m)
  OBVIOUS
<1>2. PICK q : q = Frac(l, m)
  OBVIOUS
<1>3. InTerms(p) /\ Stands(p, w, m) /\ InTerms(q) /\ Stands(q, l, m)
  BY <1>1, <1>2, FracFacts DEF IsLowest
<1>4. PICK a \in Int, b \in Nat : a = p[1] /\ b = p[2] /\ b > 0 /\ a * m = w * b
  BY <1>3 DEF InTerms, Stands
<1>5. PICK c \in Int, d \in Nat : c = q[1] /\ d = q[2] /\ d > 0 /\ c * m = l * d
  BY <1>3 DEF InTerms, Stands
<1>6. PICK g : g = GCD(b, d)
  OBVIOUS
<1>7. g \in Nat /\ g > 0 /\ Divides(g, b) /\ Divides(g, d)
  BY <1>4, <1>6, GCDCommon DEF IsCommon
<1>8. PICK x \in Int : b = x * g
  BY <1>7 DEF Divides
<1>9. PICK y \in Int : d = y * g
  BY <1>7 DEF Divides
<1>10. x > 0 /\ y > 0 /\ b \div g = x /\ d \div g = y
  BY <1>4, <1>5, <1>7, <1>8, <1>9
<1> DEFINE N == a * y + c * x
           D == x * d
<1>11. Plus(p, q) = Frac(N, D)
  BY <1>4, <1>5, <1>6, <1>10 DEF Plus, Added
<1>12. N \in Int /\ D \in Nat /\ D > 0
  BY <1>4, <1>5, <1>10
<1>13. N <= D
  <2> DEFINE k == x * d
  <2>1. (a * y) * m = w * k
    <3>1. (a * y) * m = (a * m) * y
      OBVIOUS
    <3>2. (a * m) * y = (w * (x * g)) * y
      BY <1>4, <1>8
    <3>3. (w * (x * g)) * y = w * (x * (y * g))
      BY <1>7
    <3> QED BY <1>9, <3>1, <3>2, <3>3
  <2>2. (c * x) * m = l * k
    <3>1. (c * x) * m = (c * m) * x
      OBVIOUS
    <3>2. (c * m) * x = (l * d) * x
      BY <1>5
    <3>3. (l * d) * x = l * (x * d)
      OBVIOUS
    <3> QED BY <3>1, <3>2, <3>3
  <2> DEFINE u == a * y
             v == c * x
  <2>3. u \in Int /\ v \in Int /\ k \in Nat
    BY <1>12
  <2> HIDE DEF u, v, k
  <2>4. u * m = w * k /\ v * m = l * k
    BY <2>1, <2>2 DEF u, v
  <2>5. (u + v) * m = (w + l) * k
    <3>1. (u + v) * m = u * m + v * m /\ (w + l) * k = w * k + l * k
      BY <2>3
    <3> QED BY <2>4, <3>1
  <2>6. (w + l) * k <= m * k
    BY <2>3
  <2>7. u + v <= k
    <3>1. (u + v) * m <= k * m
      BY <2>3, <2>5, <2>6
    <3> QED BY <2>3, <3>1
  <2> QED BY <2>7 DEF u, v, k
<1> HIDE DEF N, D
<1>14. PICK r : r = Frac(N, D) /\ InTerms(r) /\ Stands(r, N, D)
  BY <1>12, FracFacts DEF IsLowest
<1>15. PICK e \in Int, h \in Nat : e = r[1] /\ h = r[2] /\ h > 0 /\ e * D = N * h
  BY <1>14 DEF InTerms, Stands
<1>16. e <= h
  <2>1. N * h <= D * h
    BY <1>12, <1>13
  <2>2. e * D <= h * D
    BY <1>12, <1>15, <2>1
  <2> QED BY <1>12, <2>2
<1>17. r[1] * 1 <= 1 * r[2]
  BY <1>15, <1>16
<1> QED BY <1>1, <1>2, <1>11, <1>14, <1>17 DEF Leq, One, Whole

-----------------------------------------------------------------------------
(* Fractions by what they stand for.                                         *)

\* p is n over d.
Is(p, n, d) == n \in Int /\ d \in Nat /\ d > 0 /\ IsLowest(p) /\ Stands(p, n, d)

LEMMA Cancel ==
  ASSUME NEW a \in Int, NEW b \in Int, NEW k \in Int, k > 0, a * k = b * k
  PROVE  a = b
OBVIOUS

LEMMA IsTerms ==
  ASSUME NEW p, NEW n, NEW d, Is(p, n, d)
  PROVE  \E a \in Int, b \in Nat : p = <<a, b>> /\ b > 0 /\ a * d = n * b /\ Combines(1, a, b)
BY DEF Is, IsLowest, InTerms, Stands

\* A number has one fraction in lowest terms.
LEMMA SameFraction ==
  ASSUME NEW p, NEW n, NEW d, Is(p, n, d), NEW q, NEW m, NEW e, Is(q, m, e), n * e = m * d
  PROVE  p = q
<1>1. PICK a \in Int, b \in Nat : p = <<a, b>> /\ b > 0 /\ a * d = n * b /\ Combines(1, a, b)
  BY IsTerms
<1>2. PICK x \in Int, y \in Nat : q = <<x, y>> /\ y > 0 /\ x * e = m * y /\ Combines(1, x, y)
  BY IsTerms
<1>3. n \in Int /\ m \in Int /\ d \in Nat /\ d > 0 /\ e \in Nat /\ e > 0
  BY DEF Is
<1>4. a * y = x * b
  <2>1. (a * y) * (d * e) = (n * b) * (y * e)
    <3>1. (a * y) * (d * e) = (a * d) * (y * e)
      BY <1>3
    <3> QED BY <1>1, <3>1
  <2>2. (x * b) * (d * e) = (m * y) * (b * d)
    <3>1. (x * b) * (d * e) = (x * e) * (b * d)
      BY <1>3
    <3> QED BY <1>2, <3>1
  <2>3. (n * b) * (y * e) = (n * e) * (b * y) /\ (m * y) * (b * d) = (m * d) * (b * y)
    BY <1>3
  <2>4. (a * y) * (d * e) = (x * b) * (d * e)
    BY <2>1, <2>2, <2>3
  <2>5. a * y \in Int /\ x * b \in Int /\ d * e \in Int /\ d * e > 0
    BY <1>3
  <2> QED BY <2>4, <2>5, Cancel
<1>5. PICK u, v \in Int : 1 = u * a + v * b
  BY <1>1 DEF Combines
<1>6. PICK s, t \in Int : 1 = s * x + t * y
  BY <1>2 DEF Combines
<1>7. PICK k \in Int : y = b * k
  <2>1. y = y * (u * a + v * b)
    BY <1>5
  <2>2. y * (u * a + v * b) = u * (a * y) + b * (v * y)
    OBVIOUS
  <2>3. u * (x * b) + b * (v * y) = b * (u * x + v * y)
    OBVIOUS
  <2>4. u * x + v * y \in Int
    OBVIOUS
  <2> QED BY <1>4, <2>1, <2>2, <2>3, <2>4
<1>8. PICK l \in Int : b = y * l
  <2>1. b = b * (s * x + t * y)
    BY <1>6
  <2>2. b * (s * x + t * y) = s * (x * b) + y * (t * b)
    OBVIOUS
  <2>3. s * (a * y) + y * (t * b) = y * (s * a + t * b)
    OBVIOUS
  <2>4. s * a + t * b \in Int
    OBVIOUS
  <2> QED BY <1>4, <2>1, <2>2, <2>3, <2>4
<1>9. b = y
  <2>1. k > 0 /\ l > 0
    BY <1>1, <1>2, <1>7, <1>8
  <2>2. y >= b /\ b >= y
    BY <1>1, <1>2, <1>7, <1>8, <2>1
  <2> QED BY <2>2
<1>10. a = x
  BY <1>1, <1>4, <1>9, Cancel
<1> QED BY <1>1, <1>2, <1>9, <1>10

LEMMA FracIs ==
  ASSUME NEW n \in Int, NEW d \in Nat, d > 0
  PROVE  Is(Frac(n, d), n, d)
BY FracFacts DEF Is

LEMMA WholeIs ==
  ASSUME NEW n \in Int
  PROVE  Is(Whole(n), n, 1)
<1>1. 1 = 0 * n + 1 * 1 /\ n * 1 = n * 1
  OBVIOUS
<1> QED BY <1>1 DEF Is, IsLowest, InTerms, Combines, Stands, Whole

LEMMA TimesIs ==
  ASSUME NEW p, NEW n, NEW d, Is(p, n, d), NEW q, NEW m, NEW e, Is(q, m, e)
  PROVE  Is(Times(p, q), n * m, d * e)
<1>1. PICK a \in Int, b \in Nat : p = <<a, b>> /\ b > 0 /\ a * d = n * b
  BY IsTerms
<1>2. PICK x \in Int, y \in Nat : q = <<x, y>> /\ y > 0 /\ x * e = m * y
  BY IsTerms
<1>3. n \in Int /\ m \in Int /\ d \in Nat /\ d > 0 /\ e \in Nat /\ e > 0
  BY DEF Is
<1>4. a * x \in Int /\ b * y \in Nat /\ b * y > 0 /\ n * m \in Int /\ d * e \in Nat /\ d * e > 0
  BY <1>1, <1>2, <1>3
<1>5. PICK t : t = Times(p, q) /\ t = Frac(a * x, b * y)
  BY <1>1, <1>2 DEF Times
<1>6. Is(t, a * x, b * y)
  BY <1>4, <1>5, FracIs
<1>7. PICK f \in Int, g \in Nat : t = <<f, g>> /\ g > 0 /\ f * (b * y) = (a * x) * g
  BY <1>6, IsTerms
<1>8. f * (d * e) = (n * m) * g
  <2>1. (f * (d * e)) * (b * y) = (f * (b * y)) * (d * e)
    BY <1>3
  <2>2. ((a * x) * g) * (d * e) = ((a * d) * (x * e)) * g
    BY <1>3
  <2>3. ((n * b) * (m * y)) * g = ((n * m) * g) * (b * y)
    BY <1>3
  <2>4. (f * (d * e)) * (b * y) = ((n * m) * g) * (b * y)
    BY <1>1, <1>2, <1>7, <2>1, <2>2, <2>3
  <2>5. f * (d * e) \in Int /\ (n * m) * g \in Int
    BY <1>4
  <2> QED BY <1>4, <2>4, <2>5, Cancel
<1>9. IsLowest(t)
  BY <1>6 DEF Is
<1>10. Stands(t, n * m, d * e)
  BY <1>7, <1>8 DEF Stands
<1> QED BY <1>4, <1>5, <1>9, <1>10 DEF Is

LEMMA OverIs ==
  ASSUME NEW p, NEW n, NEW d, Is(p, n, d), NEW q, NEW m, NEW e, Is(q, m, e), m > 0
  PROVE  Is(Over(p, q), n * e, d * m)
<1>1. PICK a \in Int, b \in Nat : q = <<a, b>> /\ b > 0 /\ a * e = m * b /\ Combines(1, a, b)
  BY IsTerms
<1>2. m \in Int /\ e \in Nat /\ e > 0
  BY DEF Is
<1>3. a > 0
  <2>1. m * b > 0
    BY <1>1, <1>2
  <2>2. a * e > 0
    BY <1>1, <2>1
  <2> QED BY <1>2, <2>2
<1>4. Flipped(q) = <<b, a>>
  BY <1>1, <1>3 DEF Flipped
<1>5. Combines(1, b, a)
  <2>1. PICK u, v \in Int : 1 = u * a + v * b
    BY <1>1 DEF Combines
  <2>2. 1 = v * b + u * a
    BY <2>1
  <2> QED BY <2>2 DEF Combines
<1>6. b * m = e * a
  BY <1>1, <1>2
<1>7. Is(Flipped(q), e, m)
  BY <1>1, <1>2, <1>3, <1>4, <1>5, <1>6 DEF Is, IsLowest, InTerms, Stands
<1> QED BY <1>7, TimesIs DEF Over

\* A whole number of times a fraction.
LEMMA ScaledIs ==
  ASSUME NEW p, NEW n, NEW d, Is(p, n, d), NEW k \in Int
  PROVE  Is(Times(Whole(k), p), k * n, d) /\ Is(Times(p, Whole(k)), n * k, d)
<1>1. 1 * d = d /\ d * 1 = d
  BY DEF Is
<1>2. Is(Whole(k), k, 1)
  BY WholeIs
<1>3. Is(Times(Whole(k), p), k * n, 1 * d) /\ Is(Times(p, Whole(k)), n * k, d * 1)
  BY <1>2, TimesIs
<1> QED BY <1>1, <1>3

\* Comparing a fraction with whole numbers.
LEMMA IsCompared ==
  ASSUME NEW p, NEW n, NEW d, Is(p, n, d)
  PROVE  /\ p \in Fraction
         /\ Less(Zero, p) <=> n > 0
         /\ Leq(Zero, p) <=> n >= 0
         /\ p = Zero <=> n = 0
         /\ \A k \in Nat : Leq(p, Whole(k)) <=> n <= k * d
<1>1. PICK a \in Int, b \in Nat : p = <<a, b>> /\ b > 0 /\ a * d = n * b
  BY IsTerms
<1>2. n \in Int /\ d \in Nat /\ d > 0
  BY DEF Is
<1>3. a > 0 <=> n > 0
  <2>1. a > 0 => a * d > 0
    BY <1>2
  <2>2. n > 0 => n * b > 0
    BY <1>1, <1>2
  <2>3. a <= 0 => a * d <= 0
    BY <1>2
  <2>4. n <= 0 => n * b <= 0
    BY <1>1, <1>2
  <2> QED BY <1>1, <1>2, <2>1, <2>2, <2>3, <2>4
<1>4. a >= 0 <=> n >= 0
  <2>1. a >= 0 => a * d >= 0
    BY <1>2
  <2>2. n >= 0 => n * b >= 0
    BY <1>1, <1>2
  <2>3. a < 0 => a * d < 0
    BY <1>2
  <2>4. n < 0 => n * b < 0
    BY <1>1, <1>2
  <2> QED BY <1>1, <1>2, <2>1, <2>2, <2>3, <2>4
<1>5. Less(Zero, p) <=> a > 0
  BY <1>1 DEF Less, Zero, Whole
<1>6. Leq(Zero, p) <=> a >= 0
  BY <1>1 DEF Leq, Zero, Whole
<1>7. p = Zero <=> n = 0
  <2>1. ASSUME n = 0 PROVE p = Zero
    <3>1. Is(Zero, 0, 1)
      BY WholeIs DEF Zero
    <3>2. n * 1 = 0 * d
      BY <1>2, <2>1
    <3> QED BY <3>1, <3>2, SameFraction
  <2>2. ASSUME p = Zero PROVE n = 0
    <3>1. a = 0
      BY <1>1, <2>2 DEF Zero, Whole
    <3> QED BY <1>2, <1>3, <1>4, <3>1
  <2> QED BY <2>1, <2>2
<1>8. ASSUME NEW k \in Nat PROVE Leq(p, Whole(k)) <=> n <= k * d
  <2>1. Leq(p, Whole(k)) <=> a <= k * b
    BY <1>1 DEF Leq, Whole
  <2> DEFINE c == a - k * b
             z == n - k * d
  <2>2. c * d = z * b
    <3>1. c * d = a * d - (k * b) * d /\ z * b = n * b - (k * d) * b
      BY <1>2
    <3>2. (k * b) * d = (k * d) * b
      BY <1>2
    <3> QED BY <1>1, <3>1, <3>2
  <2>3. c \in Int /\ z \in Int /\ (a <= k * b <=> c <= 0) /\ (n <= k * d <=> z <= 0)
    BY <1>2
  <2> HIDE DEF c, z
  <2>4. (c <= 0 => c * d <= 0) /\ (c > 0 => c * d > 0)
    BY <1>2, <2>3
  <2>5. (z <= 0 => z * b <= 0) /\ (z > 0 => z * b > 0)
    BY <1>1, <2>3
  <2> QED BY <2>1, <2>2, <2>3, <2>4, <2>5
<1>9. p \in Fraction
  BY <1>1 DEF Fraction
<1> QED BY <1>3, <1>4, <1>5, <1>6, <1>7, <1>8, <1>9

-----------------------------------------------------------------------------
(* The economics table.                                                      *)

\* A layer's n sessions, of which r resolved, and their t tokens.
RowOf(n, r, t) ==
  LET rate == Frac(r, n)
      mean == Frac(t, n)
  IN  [sessions |-> n, rate |-> rate, tokens |-> mean,
       perPoint |-> IF rate = Zero THEN None ELSE TokensPerResolvedPoint(rate, mean),
       efficiency |-> EfficiencyScore(rate, mean, EfficiencyScale)]

\* What EconomicsAgree says of a row.
RowAgrees(row) ==
  LET pct == Times(row.rate, Whole(100))
  IN  /\ row.efficiency = PointsPerToken(pct, row.tokens)
      /\ row.perPoint = None <=> row.efficiency = Zero
      /\ row.perPoint # None =>
           /\ row.perPoint = TokensPerPoint(row.tokens, pct)
           /\ Times(row.efficiency, row.perPoint) = Whole(EfficiencyScale \div 100)

\* session.py's scale is token_economics.py's over per cent.
LEMMA ScaleFacts ==
  \E k \in Nat :
    /\ k > 0 /\ EfficiencyScale = 100 * k /\ EfficiencyScale \div 100 = k
    /\ \A pct, tokens : PointsPerToken(pct, tokens) =
         IF Less(Zero, tokens) /\ Leq(Zero, pct)
           THEN Over(Times(Whole(k), pct), tokens) ELSE Raised
<1>1. PICK k \in Nat : k = 100000
  BY SMT
<1>2. k > 0 /\ EfficiencyScale = 100 * k /\ EfficiencyScale \div 100 = k
  BY <1>1, SMT DEF EfficiencyScale
<1>3. \A pct, tokens : PointsPerToken(pct, tokens) =
        IF Less(Zero, tokens) /\ Leq(Zero, pct)
          THEN Over(Times(Whole(k), pct), tokens) ELSE Raised
  BY <1>1, SMT DEF PointsPerToken
<1> QED BY <1>2, <1>3

LEMMA RowFacts ==
  ASSUME NEW n \in Nat, n > 0, NEW r \in Nat, r <= n, NEW t \in Nat
  PROVE  /\ t = 0 => RowOf(n, r, t).efficiency = Raised
         /\ t # 0 => /\ RowOf(n, r, t).efficiency # Raised
                     /\ RowOf(n, r, t) \in Rows /\ RowAgrees(RowOf(n, r, t))
<1> DEFINE row == RowOf(n, r, t)
<1>0. PICK k \in Nat, z \in Nat :
        /\ k > 0 /\ z = 100 * k /\ EfficiencyScale = z /\ EfficiencyScale \div 100 = k
        /\ \A pct, tokens : PointsPerToken(pct, tokens) =
             IF Less(Zero, tokens) /\ Leq(Zero, pct)
               THEN Over(Times(Whole(k), pct), tokens) ELSE Raised
  BY ScaleFacts
<1>1. PICK rate : rate = Frac(r, n)
  OBVIOUS
<1>2. PICK mean : mean = Frac(t, n)
  OBVIOUS
<1>3. row = [sessions |-> n, rate |-> rate, tokens |-> mean,
             perPoint |-> IF rate = Zero THEN None ELSE TokensPerResolvedPoint(rate, mean),
             efficiency |-> EfficiencyScore(rate, mean, EfficiencyScale)]
  BY <1>1, <1>2 DEF RowOf
<1> HIDE DEF row
<1>4. /\ row.sessions = n /\ row.rate = rate /\ row.tokens = mean
      /\ row.perPoint = IF rate = Zero THEN None ELSE TokensPerResolvedPoint(rate, mean)
      /\ row.efficiency = EfficiencyScore(rate, mean, EfficiencyScale)
  BY <1>3
<1>5. Is(rate, r, n) /\ Is(mean, t, n)
  BY <1>1, <1>2, FracIs
<1>6. /\ rate \in Fraction /\ Leq(Zero, rate) /\ (Less(Zero, rate) <=> r > 0) /\ (rate = Zero <=> r = 0)
      /\ mean \in Fraction /\ Leq(Zero, mean) /\ (Less(Zero, mean) <=> t > 0)
  BY <1>5, IsCompared
<1>7. Leq(rate, One)
  <2>1. r <= 1 * n
    OBVIOUS
  <2> QED BY <1>5, <2>1, IsCompared DEF One
<1>8. EfficiencyScore(rate, mean, EfficiencyScale) =
        IF t > 0 THEN Over(Times(Whole(EfficiencyScale), rate), mean) ELSE Raised
  BY <1>6, <1>7 DEF EfficiencyScore
<1>9. ASSUME t = 0 PROVE row.efficiency = Raised
  BY <1>4, <1>8, <1>9
<1>10. ASSUME t # 0
       PROVE  row.efficiency # Raised /\ row \in Rows /\ RowAgrees(row)
  <2>1. PICK pct : pct = Times(rate, Whole(100))
    OBVIOUS
  <2>2. PICK e : e = Over(Times(Whole(EfficiencyScale), rate), mean)
    OBVIOUS
  <2>3. t > 0 /\ row.efficiency = e
    BY <1>4, <1>8, <1>10, <2>2
  <2>4. Is(e, (z * r) * n, n * t)
    <3>1. Is(Times(Whole(EfficiencyScale), rate), z * r, n)
      BY <1>0, <1>5, ScaledIs
    <3> QED BY <1>5, <2>2, <2>3, <3>1, OverIs
  <2>5. Is(pct, r * 100, n)
    BY <1>5, <2>1, ScaledIs
  <2>6. e \in Fraction /\ e # Raised /\ (e = Zero <=> r = 0)
    <3>1. e \in Fraction /\ (e = Zero <=> (z * r) * n = 0)
      BY <2>4, IsCompared
    <3>2. (z * r) * n = 0 <=> r = 0
      <4>1. r > 0 => (z * r) * n > 0
        BY <1>0
      <4> QED BY <4>1
    <3> QED BY <3>1, <3>2, FractionsAssumption
  <2>7. /\ Leq(Zero, pct) /\ (Less(Zero, pct) <=> r > 0) /\ Leq(pct, Whole(100))
    <3>1. r * 100 >= 0 /\ (r * 100 > 0 <=> r > 0) /\ r * 100 <= 100 * n
      OBVIOUS
    <3> QED BY <2>5, <3>1, IsCompared
  <2>8. row.efficiency = PointsPerToken(pct, row.tokens)
    <3>1. PICK f : f = Over(Times(Whole(k), pct), mean)
      OBVIOUS
    <3>2. Is(f, (k * (r * 100)) * n, n * t)
      <4>1. Is(Times(Whole(k), pct), k * (r * 100), n)
        BY <2>5, ScaledIs
      <4> QED BY <1>5, <2>3, <3>1, <4>1, OverIs
    <3>3. z * r = k * (r * 100)
      BY <1>0
    <3>4. e = f
      BY <2>4, <3>2, <3>3, SameFraction
    <3>5. PointsPerToken(pct, mean) = f
      BY <1>0, <1>6, <2>3, <2>7, <3>1
    <3> QED BY <1>4, <2>3, <3>4, <3>5
  <2>9. CASE r = 0
    <3>1. row.perPoint = None /\ e = Zero
      BY <1>4, <1>6, <2>6, <2>9
    <3>2. row \in Rows
      BY <1>3, <1>6, <2>3, <2>6, <3>1 DEF Rows
    <3> QED BY <1>4, <2>1, <2>3, <2>6, <2>8, <3>1, <3>2 DEF RowAgrees
  <2>10. CASE r # 0
    <3>1. r > 0 /\ rate # Zero /\ e # Zero
      BY <1>6, <2>6, <2>10
    <3>2. PICK p : p = Over(mean, pct)
      OBVIOUS
    <3>3. row.perPoint = p
      BY <1>4, <1>6, <1>7, <2>1, <3>1, <3>2 DEF TokensPerResolvedPoint
    <3>4. Is(p, t * n, n * (r * 100))
      <4>1. r * 100 > 0
        BY <3>1
      <4> QED BY <1>5, <2>5, <3>2, <4>1, OverIs
    <3>5. p \in Fraction /\ p # None
      BY <3>4, IsCompared, FractionsAssumption
    <3>6. p = TokensPerPoint(mean, pct)
      BY <2>7, <3>1, <3>2 DEF TokensPerPoint
    <3>7. Times(e, p) = Whole(EfficiencyScale \div 100)
      <4>1. Is(Times(e, p), ((z * r) * n) * (t * n), (n * t) * (n * (r * 100)))
        BY <2>4, <3>4, TimesIs
      <4>2. Is(Whole(k), k, 1)
        BY WholeIs
      <4>3. (((z * r) * n) * (t * n)) * 1 = k * ((n * t) * (n * (r * 100)))
        <5>1. PICK x \in Nat : x = (r * n) * (t * n)
          OBVIOUS
        <5>2. ((z * r) * n) * (t * n) = z * x /\ (n * t) * (n * (r * 100)) = 100 * x
          BY <5>1
        <5>3. (z * x) * 1 = k * (100 * x)
          BY <1>0
        <5> QED BY <5>2, <5>3
      <4>4. Times(e, p) = Whole(k)
        BY <4>1, <4>2, <4>3, SameFraction
      <4> QED BY <1>0, <4>4
    <3>8. row \in Rows
      BY <1>3, <1>6, <2>3, <2>6, <3>3, <3>5 DEF Rows
    <3> QED BY <1>4, <2>1, <2>3, <2>6, <2>8, <3>1, <3>3, <3>5, <3>6, <3>7, <3>8 DEF RowAgrees
  <2> QED BY <2>9, <2>10
<1> QED BY <1>9, <1>10 DEF row

\* A layer's row is of its sessions, and has no tokens where none of them has.
LEMMA EconomicsIs ==
  ASSUME NEW ss \in Seq(Logged), NEW l, \E s \in Range(ss) : s.layer = l
  PROVE  \E n, r, t \in Nat :
           /\ n > 0 /\ r <= n /\ EconomicsOf(ss, l) = RowOf(n, r, t)
           /\ t = 0 <=> \A s \in Range(ss) : s.layer = l => s.tokens = 0
<1> DEFINE mine == {i \in DOMAIN ss : ss[i].layer = l}
           won == {i \in mine : ss[i].resolved}
           g == [i \in mine |-> ss[i].tokens]
           IsIter(h) == h = [s \in SUBSET mine |->
                               IF s = {} THEN 0
                               ELSE LET x == CHOOSE x \in s : TRUE
                                    IN  ss[x].tokens + h[s \ {x}]]
           iter == CHOOSE h : IsIter(h)
           n == Cardinality(mine)
           r == Cardinality(won)
           t == MapThenSumSet(LAMBDA i : ss[i].tokens, mine)
<1>1. t = iter[mine]
  BY Zenon DEF MapThenSumSet, MapThenFoldSet
<1>2. EconomicsOf(ss, l) = RowOf(n, r, t)
  BY DEF EconomicsOf, RowOf
<1>3. DOMAIN ss = 1..Len(ss) /\ Len(ss) \in Nat
  OBVIOUS
<1>4. mine \in SUBSET (1..Len(ss)) /\ \A i \in mine : g[i] = ss[i].tokens /\ ss[i].tokens \in Nat
  <2>1. \A i \in 1..Len(ss) : ss[i] \in Logged
    OBVIOUS
  <2> QED BY <1>3, <2>1 DEF Logged
<1>5. g \in [mine -> Nat]
  BY <1>4
<1>6. won \in SUBSET mine
  OBVIOUS
<1>7. IsFiniteSet(mine) /\ IsFiniteSet(won) /\ n \in Nat /\ r \in Nat /\ r <= n
  <2>1. IsFiniteSet(1..Len(ss))
    BY <1>3, FS_Interval
  <2> HIDE DEF mine, won
  <2>2. IsFiniteSet(mine)
    BY <1>4, <2>1, FS_Subset
  <2> QED BY <1>6, <2>2, FS_Subset, FS_CardinalityType
<1>8. n > 0
  <2>1. PICK s \in Range(ss) : s.layer = l
    OBVIOUS
  <2>2. PICK i \in 1..Len(ss) : s = ss[i]
    BY RangeFacts
  <2>3. i \in mine
    BY <1>3, <2>1, <2>2
  <2> HIDE DEF mine
  <2> QED BY <1>7, <2>3, FS_EmptySet
<1>9. (\A i \in mine : g[i] = 0) <=> \A s \in Range(ss) : s.layer = l => s.tokens = 0
  <2>1. ASSUME \A i \in mine : g[i] = 0, NEW s \in Range(ss), s.layer = l PROVE s.tokens = 0
    <3>1. PICK i \in 1..Len(ss) : s = ss[i]
      BY RangeFacts
    <3>2. i \in mine
      BY <1>3, <2>1, <3>1
    <3> HIDE DEF mine, g
    <3> QED BY <1>4, <2>1, <3>1, <3>2
  <2>2. ASSUME \A s \in Range(ss) : s.layer = l => s.tokens = 0, NEW i \in mine PROVE g[i] = 0
    <3>1. ss[i] \in Range(ss) /\ ss[i].layer = l
      BY <1>4, RangeFacts
    <3> QED BY <1>4, <2>2, <3>1
  <2> QED BY <2>1, <2>2
<1> HIDE DEF g, mine, won, n, r, t
<1>10. PICK h : IsAdder(mine, g, h)
  BY <1>5, <1>7, AdderExists
<1>11. ASSUME NEW e PROVE IsIter(e) <=> IsAdder(mine, g, e)
  <2>1. ASSUME NEW s \in SUBSET mine, s # {}
        PROVE  g[Picked(s)] = ss[Picked(s)].tokens /\ Picked(s) = CHOOSE x \in s : TRUE
    <3>1. Picked(s) = (CHOOSE x \in s : TRUE) /\ Picked(s) \in s
      BY <2>1, Zenon DEF Picked
    <3> QED BY <1>4, <3>1
  <2>2. [s \in SUBSET mine |-> IF s = {} THEN 0 ELSE g[Picked(s)] + e[s \ {Picked(s)}]] =
          [s \in SUBSET mine |-> IF s = {} THEN 0 ELSE LET x == CHOOSE x \in s : TRUE
                                                     IN  ss[x].tokens + e[s \ {x}]]
    BY <2>1
  <2> QED BY <2>2, Zenon DEF IsAdder
<1>12. IsIter(iter)
  <2> HIDE DEF IsIter
  <2>1. \E e : IsIter(e)
    BY <1>10, <1>11
  <2> QED BY <2>1, Zenon
<1> HIDE DEF iter, IsIter
<1>13. IsAdder(mine, g, iter)
  BY <1>11, <1>12
<1>14. t \in Nat /\ (t = 0 <=> \A i \in mine : g[i] = 0)
  BY <1>1, <1>5, <1>7, <1>13, AdderZero
<1> QED BY <1>2, <1>7, <1>8, <1>9, <1>14

LEMMA EconomicsHold ==
  ASSUME sessions \in Seq(Logged)
  PROVE  EconomicsAgree
<1> DEFINE L == {s.layer : s \in Range(sessions)}
           table == [l \in L |-> EconomicsOf(sessions, l)]
           Free(l) == \A s \in Range(sessions) : s.layer = l => s.tokens = 0
<1>1. ASSUME NEW l \in L
      PROVE  /\ Free(l) => EconomicsOf(sessions, l).efficiency = Raised
             /\ ~Free(l) => /\ EconomicsOf(sessions, l).efficiency # Raised
                            /\ EconomicsOf(sessions, l) \in Rows
                            /\ RowAgrees(EconomicsOf(sessions, l))
  <2>1. \E s \in Range(sessions) : s.layer = l
    OBVIOUS
  <2>2. PICK n, r, t \in Nat :
          /\ n > 0 /\ r <= n /\ EconomicsOf(sessions, l) = RowOf(n, r, t)
          /\ t = 0 <=> \A s \in Range(sessions) : s.layer = l => s.tokens = 0
    BY <2>1, EconomicsIs
  <2> HIDE DEF L
  <2> QED BY <2>2, RowFacts
<1>2. EconomicsBySystem(sessions) = IF \E l \in L : table[l].efficiency = Raised THEN Raised ELSE table
  BY DEF EconomicsBySystem
<1>3. L \in SUBSET Layers
  <2>1. Range(sessions) \in SUBSET Logged
    BY RangeFacts
  <2> QED BY <2>1 DEF Logged
<1> HIDE DEF L
<1>4. \A l \in L : table[l] = EconomicsOf(sessions, l)
  OBVIOUS
<1>5. CASE \E l \in L : Free(l)
  <2>1. EconomicsBySystem(sessions) = Raised
    BY <1>1, <1>2, <1>4, <1>5
  <2> QED BY <1>5, <2>1 DEF EconomicsAgree, L
<1>6. CASE \A l \in L : ~Free(l)
  <2>1. EconomicsBySystem(sessions) = table
    BY <1>1, <1>2, <1>4, <1>6
  <2>2. table \in [L -> Rows]
    BY <1>1, <1>6
  <2>3. table # Raised
    BY <1>3, <2>2, TournamentAssumption
  <2>4. \A l \in DOMAIN table : RowAgrees(table[l])
    BY <1>1, <1>4, <1>6
  <2> HIDE DEF table
  <2> QED BY <1>6, <2>1, <2>3, <2>4 DEF EconomicsAgree, RowAgrees, L
<1> QED BY <1>5, <1>6

-----------------------------------------------------------------------------
(* What the sweep records.                                                   *)

Recorded == sessions \in Seq(Logged)

LEMMA RecordLogged == ASSUME Inv PROVE RecordOf \in Logged
<1>1. call \in Calls /\ turns \in Seq(Turns)
  BY DEF Inv, Typ
<1>2. call.model \in Int /\ call.task \in Int /\ call.layer \in Layers
  BY <1>1, TournamentAssumption DEF Layers
<1>3. SessionTokens(turns) \in Nat
  <2>1. PICK s \in Seq(Nat) : s = Tokens(turns) /\ s \in Seq(Int)
    BY <1>1, TokensType
  <2>2. SessionTokens(turns) = Sum(s)
    BY <2>1 DEF SessionTokens, Tokens
  <2>3. PICK h : IsRunning(s, h) /\ Sum(s) = h[Len(s)]
    BY <2>1, SumRuns
  <2>4. h \in [0..Len(s) -> Nat] /\ Len(s) \in 0..Len(s)
    BY <2>3, RunningGrow
  <2> QED BY <2>2, <2>3, <2>4
<1>4. Resolved(turns) \in BOOLEAN
  BY DEF Resolved
<1> HIDE DEF SessionTokens, Resolved
<1>5. AsRow(turns).tokens = SessionTokens(turns) /\ AsRow(turns).resolved = Resolved(turns)
  BY DEF AsRow
<1>6. RecordOf = [model |-> call.model, task |-> call.task, layer |-> call.layer,
                  tokens |-> SessionTokens(turns), resolved |-> Resolved(turns)]
  BY <1>5 DEF RecordOf
<1> QED BY <1>2, <1>3, <1>4, <1>6 DEF Logged

LEMMA InitRecorded == Init => Recorded
BY DEF Init, Recorded

LEMMA NextRecorded == Inv /\ Recorded /\ [Next]_vars => Recorded'
<1> SUFFICES ASSUME Inv, Recorded, [Next]_vars PROVE Recorded'
  OBVIOUS
<1>1. UNCHANGED sessions \/ sessions' = Append(sessions, RecordOf)
  <2>1. CASE Collect
    BY <2>1 DEF Collect
  <2>2. CASE UNCHANGED sessions
    BY <2>2
  <2>3. NextCall => UNCHANGED sessions
    BY DEF NextCall
  <2> QED BY <2>1, <2>2, <2>3 DEF Next, Go, vars
<1>2. RecordOf \in Logged
  BY RecordLogged
<1> QED BY <1>1, <1>2 DEF Recorded

-----------------------------------------------------------------------------
(* The tournament and the economics table of what was recorded.              *)

\* A tournament is refused for two records of one cell and layer, and for a
\* competitor without the store's session, and for nothing else.
LEMMA Refused ==
  ASSUME Recorded
  PROVE  /\ SummarizeTournament(sessions) = Raised <=> Duplicated(sessions) \/ NoBaseline(sessions)
         /\ Accepted(sessions) =>
              SummarizeTournament(sessions) =
                [overall |-> Tally(BuildMatchups(sessions)),
                 byCompetitor |-> TallyByCompetitor(BuildMatchups(sessions))]
<1> DEFINE ms == BuildMatchups(sessions)
           t == SummarizeTournament(sessions)
<1>1. CASE Duplicated(sessions) \/ NoBaseline(sessions)
  <2>1. ms = Raised
    BY <1>1 DEF BuildMatchups
  <2>2. t = Raised
    BY <2>1 DEF SummarizeTournament
  <2> QED BY <1>1, <2>2 DEF Accepted
<1>2. CASE ~(Duplicated(sessions) \/ NoBaseline(sessions))
  <2>1. Accepted(sessions)
    BY <1>2 DEF Accepted, Recorded
  <2>2. PICK n \in Nat : /\ ms \in [1..n -> Matchups] /\ DOMAIN ms = 1..n /\ ms # Raised
    <3>1. /\ Cardinality(Competing(sessions)) \in Nat /\ ms \in Seq(Matchups) /\ ms # Raised
          /\ DOMAIN ms = 1..Cardinality(Competing(sessions))
      BY <2>1, BuiltFacts
    <3> QED BY <3>1
  <2>3. t = [overall |-> Tally(ms), byCompetitor |-> TallyByCompetitor(ms)]
    BY <2>2 DEF SummarizeTournament
  <2> HIDE DEF ms
  <2> DEFINE L == {ms[i].competitor : i \in 1..n}
  <2>4. ASSUME NEW I, I \in SUBSET (1..n) PROVE TallyAt(ms, I) \in Tallies
    <3>1. IsFiniteSet(1..n)
      BY FS_Interval
    <3>2. IsFiniteSet(I)
      BY <2>4, <3>1, FS_Subset
    <3>3. \A i \in I : ms[i] \in Matchups
      BY <2>2, <2>4
    <3> QED BY <3>2, <3>3, TallySplits
  <2>5. Tally(ms) \in Tallies
    BY <2>2, <2>4 DEF Tally
  <2>6. TallyByCompetitor(ms) \in [L -> Tallies]
    <3>1. TallyByCompetitor(ms) = [c \in L |-> TallyAt(ms, {i \in 1..n : ms[i].competitor = c})]
      BY <2>2 DEF TallyByCompetitor
    <3>2. \A c \in L : TallyAt(ms, {i \in 1..n : ms[i].competitor = c}) \in Tallies
      BY <2>4
    <3> QED BY <3>1, <3>2
  <2>7. L \in SUBSET Layers
    BY <2>2 DEF Matchups
  <2> HIDE DEF L
  <2>8. t \in [overall : Tallies, byCompetitor : [L -> Tallies]]
    BY <2>3, <2>5, <2>6
  <2>9. t # Raised
    BY <2>7, <2>8, TournamentAssumption
  <2> QED BY <1>2, <2>3, <2>9 DEF ms
<1> QED BY <1>1, <1>2

LEMMA Balanced == Recorded => TournamentBalances
<1> SUFFICES ASSUME Recorded PROVE TournamentBalances
  OBVIOUS
<1> DEFINE ms == BuildMatchups(sessions)
           t == SummarizeTournament(sessions)
           by(f) == MapThenSumSet(LAMBDA c : t.byCompetitor[c][f], DOMAIN t.byCompetitor)
           n == Cardinality(Competing(sessions))
<1>1. EconomicsAgree
  BY EconomicsHold DEF Recorded
<1>2. BuildMatchups(Reverse(sessions)) = BuildMatchups(sessions)
  BY ReverseFacts DEF Recorded
<1>3. t = Raised <=> Duplicated(sessions) \/ NoBaseline(sessions)
  BY Refused
<1>4. ASSUME t # Raised
      PROVE  /\ \A f \in {"wins", "losses", "ties"} : by(f) = t.overall[f]
             /\ Matches(t.overall) = n
             /\ (\A cell \in Cells, l \in Competitors \cup {BriefLayer} :
                    \E s \in Range(sessions) : Cell(s) = cell /\ s.layer = l) =>
                  Matches(t.overall) = MatchupCount(1, Cardinality(Cells), Cardinality(Competitors))
             /\ Matches(t.overall) > 0 =>
                  Leq(Plus(WinShare(t.overall), LossShare(t.overall)), One)
  <2>1. Accepted(sessions)
    BY <1>3, <1>4 DEF Accepted, Recorded
  <2>2. n \in Nat /\ ms \in [1..n -> Matchups] /\ DOMAIN ms = 1..n
    <3>1. n \in Nat /\ ms \in Seq(Matchups) /\ DOMAIN ms = 1..n
      BY <2>1, BuiltFacts
    <3> QED BY <3>1
  <2>3. t = [overall |-> Tally(ms), byCompetitor |-> TallyByCompetitor(ms)]
    BY <2>1, Refused
  <2> HIDE DEF t, ms
  <2>4. t.overall = Tally(ms) /\ t.byCompetitor = TallyByCompetitor(ms)
    BY <2>3
  <2>5. ASSUME NEW f \in {"wins", "losses", "ties"} PROVE by(f) = t.overall[f]
    <3> HIDE DEF n
    <3>1. MapThenSumSet(LAMBDA c : TallyByCompetitor(ms)[c][f], DOMAIN TallyByCompetitor(ms)) =
            Tally(ms)[f]
      BY <2>2, TalliesAddUp
    <3> QED BY <2>4, <3>1
  <2>6. t.overall \in Tallies /\ Matches(t.overall) = n
    <3>1. IsFiniteSet(1..n) /\ Cardinality(1..n) = n
      BY <2>2, FS_Interval
    <3>2. \A i \in 1..n : ms[i] \in Matchups
      BY <2>2
    <3>3. Tally(ms) = TallyAt(ms, 1..n)
      BY <2>2 DEF Tally
    <3> HIDE DEF n
    <3> QED BY <2>4, <3>1, <3>2, <3>3, TallySplits
  <2>7. ASSUME \A cell \in Cells, l \in Competitors \cup {BriefLayer} :
                 \E s \in Range(sessions) : Cell(s) = cell /\ s.layer = l
        PROVE  Matches(t.overall) = MatchupCount(1, Cardinality(Cells), Cardinality(Competitors))
    BY <2>1, <2>6, <2>7, FullSweep
  <2>8. ASSUME Matches(t.overall) > 0
        PROVE  Leq(Plus(WinShare(t.overall), LossShare(t.overall)), One)
    <3>1. PICK w \in Nat, l \in Nat, e \in Nat :
            t.overall.wins = w /\ t.overall.losses = l /\ t.overall.ties = e
      BY <2>6 DEF Tallies
    <3>2. PICK m \in Nat : m = Matches(t.overall) /\ m = w + l + e
      BY <3>1 DEF Matches
    <3>3. m > 0 /\ w + l <= m /\ m # 0
      BY <2>8, <3>2
    <3>4. WinShare(t.overall) = Frac(w, m) /\ LossShare(t.overall) = Frac(l, m)
      BY <3>1, <3>2, <3>3 DEF WinShare, LossShare
    <3> QED BY <3>3, <3>4, PartsFit
  <2> QED BY <2>5, <2>6, <2>7, <2>8
<1>5. n = Cardinality({s \in Range(sessions) : Competes(s)})
  BY DEF Competing
<1> HIDE DEF n
<1> QED BY <1>1, <1>2, <1>3, <1>4, <1>5 DEF TournamentBalances

\* Whatever was recorded, in whatever order: the tournament is zero-sum, a
\* full sweep's has a matchup for every cell and competitor, and the economics
\* table and session.py's two measures agree (token_economics.py).
THEOREM TournamentHolds == Spec => []TournamentBalances
<1>1. Init => Inv /\ Recorded
  BY InitInv, InitRecorded
<1>2. (Inv /\ Recorded) /\ [Next]_vars => (Inv /\ Recorded)'
  BY NextInv, NextRecorded
<1>3. Inv /\ Recorded => TournamentBalances
  BY Balanced
<1> QED BY <1>1, <1>2, <1>3, PTL DEF Spec

-----------------------------------------------------------------------------
(* The order of the fractions.                                               *)

LEMMA FractionTerms ==
  ASSUME NEW p \in Fraction
  PROVE  \E a \in Int, b \in Nat : p = <<a, b>> /\ b > 0
BY DEF Fraction

LEMMA FracFraction ==
  ASSUME NEW n \in Int, NEW d \in Nat, d > 0
  PROVE  Frac(n, d) \in Fraction
BY FracIs, IsCompared

LEMMA FractionsClosed ==
  ASSUME NEW p \in Fraction, NEW q \in Fraction
  PROVE  Plus(p, q) \in Fraction /\ Minus(p, q) \in Fraction /\ Times(p, q) \in Fraction
<1>1. ASSUME NEW r \in Fraction PROVE Plus(p, r) \in Fraction
  <2>1. PICK a \in Int, b \in Nat : p = <<a, b>> /\ b > 0
    BY FractionTerms
  <2>2. PICK c \in Int, d \in Nat : r = <<c, d>> /\ d > 0
    BY FractionTerms
  <2>3. PICK g : g = GCD(b, d)
    OBVIOUS
  <2>4. g \in Nat /\ g > 0 /\ Divides(g, b) /\ Divides(g, d)
    BY <2>1, <2>3, GCDCommon DEF IsCommon
  <2>5. PICK x \in Int : b = x * g
    BY <2>4 DEF Divides
  <2>6. PICK y \in Int : d = y * g
    BY <2>4 DEF Divides
  <2>7. x > 0 /\ y > 0 /\ b \div g = x /\ d \div g = y
    BY <2>1, <2>2, <2>4, <2>5, <2>6
  <2>8. Plus(p, r) = Frac(a * y + c * x, x * d)
    BY <2>1, <2>2, <2>3, <2>7 DEF Plus, Added
  <2>9. a * y + c * x \in Int /\ x * d \in Nat /\ x * d > 0
    BY <2>2, <2>7
  <2> QED BY <2>8, <2>9, FracFraction
<1>2. Minus(p, q) \in Fraction
  <2>1. PICK c \in Int, d \in Nat : q = <<c, d>> /\ d > 0
    BY FractionTerms
  <2>2. Negated(q) \in Fraction
    BY <2>1 DEF Negated, Fraction
  <2> QED BY <1>1, <2>2 DEF Minus
<1>3. Times(p, q) \in Fraction
  <2>1. PICK a \in Int, b \in Nat : p = <<a, b>> /\ b > 0
    BY FractionTerms
  <2>2. PICK c \in Int, d \in Nat : q = <<c, d>> /\ d > 0
    BY FractionTerms
  <2>3. Times(p, q) = Frac(a * c, b * d)
    BY <2>1, <2>2 DEF Times
  <2>4. a * c \in Int /\ b * d \in Nat /\ b * d > 0
    BY <2>1, <2>2
  <2> QED BY <2>3, <2>4, FracFraction
<1> QED BY <1>1, <1>2, <1>3

LEMMA LeqTotal ==
  ASSUME NEW p \in Fraction, NEW q \in Fraction
  PROVE  Leq(p, q) \/ Leq(q, p)
<1>1. PICK a \in Int, b \in Nat : p = <<a, b>> /\ b > 0
  BY FractionTerms
<1>2. PICK c \in Int, d \in Nat : q = <<c, d>> /\ d > 0
  BY FractionTerms
<1>3. a * d <= c * b \/ c * b <= a * d
  OBVIOUS
<1> QED BY <1>1, <1>2, <1>3 DEF Leq

LEMMA LeqTransitive ==
  ASSUME NEW p \in Fraction, NEW q \in Fraction, NEW r \in Fraction, Leq(p, q), Leq(q, r)
  PROVE  Leq(p, r)
<1>1. PICK a \in Int, b \in Nat : p = <<a, b>> /\ b > 0
  BY FractionTerms
<1>2. PICK c \in Int, d \in Nat : q = <<c, d>> /\ d > 0
  BY FractionTerms
<1>3. PICK e \in Int, f \in Nat : r = <<e, f>> /\ f > 0
  BY FractionTerms
<1>4. a * d <= c * b /\ c * f <= e * d
  BY <1>1, <1>2, <1>3 DEF Leq
<1>5. (a * f) * d <= (e * b) * d
  <2>1. (a * d) * f <= (c * b) * f
    BY <1>3, <1>4
  <2>2. (c * f) * b <= (e * d) * b
    BY <1>1, <1>4
  <2>3. (a * d) * f = (a * f) * d /\ (c * b) * f = (c * f) * b /\ (e * d) * b = (e * b) * d
    OBVIOUS
  <2> QED BY <2>1, <2>2, <2>3
<1>6. a * f <= e * b
  <2> DEFINE u == a * f
             v == e * b
  <2>1. u \in Int /\ v \in Int /\ u * d <= v * d
    BY <1>5
  <2> HIDE DEF u, v
  <2>2. u <= v
    <3>1. v < u => v * d < u * d
      BY <1>2, <2>1
    <3> QED BY <2>1, <3>1
  <2> QED BY <2>2 DEF u, v
<1> QED BY <1>1, <1>3, <1>6 DEF Leq

\* A finite set has a first element in any order that is total.
Orders(R, T) ==
  /\ \A p, q \in T : <<p, q>> \in R \/ <<q, p>> \in R
  /\ \A p, q, r \in T : <<p, q>> \in R /\ <<q, r>> \in R => <<p, r>> \in R

HasFirst(R, S) == \E p \in S : \A q \in S : <<p, q>> \in R

LEMMA FirstExists ==
  ASSUME NEW R, NEW T, Orders(R, T), NEW S \in SUBSET T, IsFiniteSet(S), S # {}
  PROVE  HasFirst(R, S)
<1> DEFINE K == {n \in Nat : \A U \in SUBSET T :
                   IsFiniteSet(U) /\ Cardinality(U) = n /\ U # {} => HasFirst(R, U)}
<1>1. 0 \in K
  BY FS_EmptySet
<1>2. \A n \in Nat : n \in K => n + 1 \in K
  <2> SUFFICES ASSUME NEW n \in Nat, n \in K, NEW U \in SUBSET T,
                      IsFiniteSet(U), Cardinality(U) = n + 1, U # {}
               PROVE  HasFirst(R, U)
    OBVIOUS
  <2>1. PICK x \in U : TRUE
    OBVIOUS
  <2>2. PICK V \in SUBSET T : V = U \ {x}
    OBVIOUS
  <2>3. IsFiniteSet(V) /\ Cardinality(V) = n
    <3>1. /\ IsFiniteSet(U \ {x})
          /\ Cardinality(U \ {x}) = IF x \in U THEN Cardinality(U) - 1 ELSE Cardinality(U)
      BY FS_RemoveElement
    <3>2. (n + 1) - 1 = n /\ x \in U
      BY <2>1
    <3> QED BY <2>2, <3>1, <3>2
  <2>4. \A q \in T : <<q, q>> \in R
    BY DEF Orders
  <2>5. CASE V = {}
    <3>1. \A q \in U : q = x
      BY <2>2, <2>5
    <3> QED BY <2>1, <2>4, <3>1 DEF HasFirst
  <2>6. CASE V # {}
    <3>1. HasFirst(R, V)
      BY <2>3, <2>6
    <3>2. PICK p \in V : \A q \in V : <<p, q>> \in R
      BY <3>1 DEF HasFirst
    <3>3. \A q \in U : q = x \/ q \in V
      BY <2>2
    <3>4. p \in U /\ p \in T /\ x \in T
      BY <2>2
    <3>5. CASE <<p, x>> \in R
      BY <3>2, <3>3, <3>4, <3>5 DEF HasFirst
    <3>6. CASE <<x, p>> \in R
      <4>1. \A q \in V : <<x, q>> \in R
        BY <3>2, <3>4, <3>6 DEF Orders
      <4> QED BY <2>1, <2>4, <3>3, <3>4, <4>1 DEF HasFirst
    <3> QED BY <3>4, <3>5, <3>6 DEF Orders
  <2> QED BY <2>5, <2>6
<1>3. Nat \subseteq K
  <2> HIDE DEF K
  <2> QED BY <1>1, <1>2, Stepping
<1> QED BY <1>3, FS_CardinalityType

LEMMA LowestFacts ==
  ASSUME NEW S \in SUBSET Fraction, IsFiniteSet(S), S # {}
  PROVE  /\ Lowest(S) \in S /\ \A q \in S : Leq(Lowest(S), q)
         /\ Highest(S) \in S /\ \A q \in S : Leq(q, Highest(S))
<1>1. \E p \in S : \A q \in S : Leq(p, q)
  <2> DEFINE R == {z \in Fraction \X Fraction : Leq(z[1], z[2])}
  <2>1. \A p, q \in Fraction : <<p, q>> \in R <=> Leq(p, q)
    OBVIOUS
  <2> HIDE DEF R
  <2>2. Orders(R, Fraction)
    BY <2>1, LeqTotal, LeqTransitive DEF Orders
  <2>3. HasFirst(R, S)
    BY <2>2, FirstExists
  <2> QED BY <2>1, <2>3 DEF HasFirst
<1>2. \E p \in S : \A q \in S : Leq(q, p)
  <2> DEFINE R == {z \in Fraction \X Fraction : Leq(z[2], z[1])}
  <2>1. \A p, q \in Fraction : <<p, q>> \in R <=> Leq(q, p)
    OBVIOUS
  <2> HIDE DEF R
  <2>2. Orders(R, Fraction)
    BY <2>1, LeqTotal, LeqTransitive DEF Orders
  <2>3. HasFirst(R, S)
    BY <2>2, FirstExists
  <2> QED BY <2>1, <2>3 DEF HasFirst
<1>3. Lowest(S) \in S /\ \A q \in S : Leq(Lowest(S), q)
  BY <1>1, Zenon DEF Lowest
<1>4. Highest(S) \in S /\ \A q \in S : Leq(q, Highest(S))
  BY <1>2, Zenon DEF Highest
<1> QED BY <1>3, <1>4

LEMMA MinFacts ==
  ASSUME NEW S \in SUBSET Nat, S # {}
  PROVE  Min(S) \in S /\ \A y \in S : Min(S) <= y
<1>1. \E x \in S : \A y \in S : x <= y
  BY Least
<1> QED BY <1>1, Zenon DEF Min

-----------------------------------------------------------------------------
(* Sums over the subsets of a finite set, whatever element is taken last.    *)

Adds(acc, S, f) ==
  /\ acc \in [SUBSET S -> Nat] /\ acc[{}] = 0
  /\ \A T \in SUBSET S : \A x \in T : acc[T] = acc[T \ {x}] + f[x]

LEMMA SumExists ==
  ASSUME NEW S, IsFiniteSet(S), NEW f \in [S -> Nat]
  PROVE  \E acc : Adds(acc, S, f)
<1>1. PICK acc : IsAdder(S, f, acc)
  BY AdderExists
<1>2. acc \in [SUBSET S -> Nat] /\ acc[{}] = 0
  BY <1>1, AdderNat
<1>3. \A s \in SUBSET S : acc[s] = IF s = {} THEN 0 ELSE f[Picked(s)] + acc[s \ {Picked(s)}]
  BY <1>1, AdderSteps
<1>4. ASSUME NEW T \in SUBSET S PROVE \A x \in T : acc[T] = acc[T \ {x}] + f[x]
  <2> DEFINE K == {s \in SUBSET T : \A x \in s : acc[s] = acc[s \ {x}] + f[x]}
  <2>1. IsFiniteSet(T)
    BY FS_Subset
  <2>2. {} \in K
    OBVIOUS
  <2>3. ASSUME NEW s \in SUBSET T, s # {}, \A x \in s : s \ {x} \in K PROVE s \in K
    <3> SUFFICES ASSUME NEW x \in s PROVE acc[s] = acc[s \ {x}] + f[x]
      OBVIOUS
    <3>1. PICK p : p = Picked(s)
      OBVIOUS
    <3>2. p \in s
      BY <2>3, <3>1, Zenon DEF Picked
    <3>3. s \in SUBSET S /\ s \ {p} \in SUBSET S /\ s \ {x} \in SUBSET S /\ x \in S /\ p \in S
      BY <3>2
    <3>4. acc[s] = f[p] + acc[s \ {p}] /\ f[p] \in Nat /\ f[x] \in Nat
      BY <1>3, <2>3, <3>1, <3>3
    <3>5. CASE x = p
      BY <1>2, <3>3, <3>4, <3>5
    <3>6. CASE x # p
      <4>1. acc[s \ {p}] = acc[(s \ {p}) \ {x}] + f[x]
        BY <2>3, <3>2, <3>6
      <4>2. acc[s \ {x}] = acc[(s \ {x}) \ {p}] + f[p]
        BY <2>3, <3>2, <3>6
      <4>3. PICK a : a = acc[(s \ {p}) \ {x}]
        OBVIOUS
      <4>4. (s \ {p}) \ {x} = (s \ {x}) \ {p} /\ (s \ {p}) \ {x} \in SUBSET S
        BY <3>3
      <4>5. a \in Nat
        BY <1>2, <4>3, <4>4
      <4>6. acc[s \ {p}] = a + f[x] /\ acc[s \ {x}] = a + f[p]
        BY <4>1, <4>2, <4>3, <4>4
      <4> QED BY <3>4, <4>5, <4>6
    <3> QED BY <3>5, <3>6
  <2>4. T \in K
    <3> HIDE DEF K
    <3> QED BY <2>1, <2>2, <2>3, Subsets
  <2> QED BY <2>4
<1> QED BY <1>2, <1>4 DEF Adds

\* A part of the summands is no more than all of them.
LEMMA SumPart ==
  ASSUME NEW S, IsFiniteSet(S), NEW f \in [S -> Nat], NEW acc, Adds(acc, S, f), NEW T \in SUBSET S
  PROVE  acc[T] \in Nat /\ acc[S] \in Nat /\ acc[T] <= acc[S]
<1> DEFINE K == {s \in SUBSET S : acc[s \cap T] <= acc[s]}
<1>1. /\ acc \in [SUBSET S -> Nat]
      /\ \A t \in SUBSET S : \A x \in t : acc[t] = acc[t \ {x}] + f[x]
  BY DEF Adds
<1>2. {} \in K
  <2>1. {} \cap T = {} /\ {} \in SUBSET S
    OBVIOUS
  <2> QED BY <1>1, <2>1
<1>3. ASSUME NEW s \in SUBSET S, s # {}, \A x \in s : s \ {x} \in K PROVE s \in K
  <2>1. PICK x \in s : TRUE
    BY <1>3
  <2>2. PICK r : r = s \ {x} /\ r \in SUBSET S /\ acc[r \cap T] <= acc[r]
    BY <1>3
  <2>3. acc[s] = acc[r] + f[x] /\ f[x] \in Nat /\ acc[r] \in Nat
    BY <1>1, <2>2
  <2>4. PICK st : st = s \cap T /\ st \in SUBSET S
    OBVIOUS
  <2>5. CASE x \in T
    <3>1. st \ {x} = r \cap T /\ x \in st
      BY <2>2, <2>4, <2>5
    <3>2. acc[st] = acc[r \cap T] + f[x]
      BY <1>1, <2>4, <3>1
    <3>3. acc[r \cap T] \in Nat
      BY <1>1
    <3> QED BY <2>2, <2>3, <2>4, <3>2, <3>3
  <2>6. CASE x \notin T
    <3>1. st = r \cap T
      BY <2>2, <2>4, <2>6
    <3>2. acc[st] \in Nat
      BY <1>1, <2>4
    <3> QED BY <2>2, <2>3, <2>4, <3>1, <3>2
  <2> QED BY <2>5, <2>6
<1>4. S \in K
  <2> HIDE DEF K
  <2> QED BY <1>2, <1>3, Subsets
<1>5. S \cap T = T
  OBVIOUS
<1> QED BY <1>1, <1>4, <1>5

\* Two sums compare as their summands do.
LEMMA SumsCompare ==
  ASSUME NEW S, IsFiniteSet(S), NEW f \in [S -> Nat], NEW g \in [S -> Nat],
         NEW acc, Adds(acc, S, f), NEW B, Adds(B, S, g), NEW T \in SUBSET S,
         NEW j \in Nat, NEW k \in Nat, \A x \in T : j * f[x] <= k * g[x]
  PROVE  j * acc[T] <= k * B[T]
<1> DEFINE K == {s \in SUBSET T : j * acc[s] <= k * B[s]}
<1>1. /\ acc \in [SUBSET S -> Nat] /\ acc[{}] = 0
      /\ \A t \in SUBSET S : \A x \in t : acc[t] = acc[t \ {x}] + f[x]
  BY DEF Adds
<1>2. /\ B \in [SUBSET S -> Nat] /\ B[{}] = 0
      /\ \A t \in SUBSET S : \A x \in t : B[t] = B[t \ {x}] + g[x]
  BY DEF Adds
<1>3. {} \in K
  BY <1>1, <1>2
<1>4. ASSUME NEW s \in SUBSET T, s # {}, \A x \in s : s \ {x} \in K PROVE s \in K
  <2>1. PICK x \in s : TRUE
    BY <1>4
  <2>2. PICK r : r = s \ {x} /\ r \in SUBSET S /\ j * acc[r] <= k * B[r]
    BY <1>4
  <2>3. x \in T /\ x \in S /\ s \in SUBSET S
    OBVIOUS
  <2>4. PICK a \in Nat : a = acc[r]
    BY <1>1, <2>2
  <2>5. PICK b \in Nat : b = B[r]
    BY <1>2, <2>2
  <2>6. PICK c \in Nat : c = f[x]
    BY <2>3
  <2>7. PICK d \in Nat : d = g[x]
    BY <2>3
  <2>8. acc[s] = a + c /\ B[s] = b + d
    BY <1>1, <1>2, <2>2, <2>3, <2>4, <2>5, <2>6, <2>7
  <2>9. j * a <= k * b /\ j * c <= k * d
    BY <2>2, <2>3, <2>4, <2>5, <2>6, <2>7
  <2>10. j * (a + c) <= k * (b + d)
    <3>1. j * (a + c) = j * a + j * c /\ k * (b + d) = k * b + k * d
      OBVIOUS
    <3>2. j * a \in Nat /\ j * c \in Nat /\ k * b \in Nat /\ k * d \in Nat
      OBVIOUS
    <3> QED BY <2>9, <3>1, <3>2
  <2> QED BY <2>8, <2>10
<1>5. IsFiniteSet(T)
  BY FS_Subset
<1>6. T \in K
  <2> HIDE DEF K
  <2> QED BY <1>3, <1>4, <1>5, Subsets
<1> QED BY <1>6

\* Everything in T comes of something in S, in one of two ways.
Doubles(S, T, p, z, o) ==
  /\ p \in [T -> S] /\ z \in [S -> T] /\ o \in [S -> T]
  /\ \A x \in S : p[z[x]] = x /\ p[o[x]] = x /\ z[x] # o[x]
  /\ \A y \in T : y = z[p[y]] \/ y = o[p[y]]

\* A sum over T taken by twos.
LEMMA SumByTwos ==
  ASSUME NEW S, IsFiniteSet(S), NEW T, NEW p, NEW z, NEW o, Doubles(S, T, p, z, o),
         NEW f \in [T -> Nat], NEW g \in [S -> Nat], NEW k \in Nat,
         \A x \in S : f[z[x]] + f[o[x]] = k * g[x],
         NEW acc, Adds(acc, T, f), NEW B, Adds(B, S, g)
  PROVE  acc[T] = k * B[S]
<1> DEFINE From(s) == {y \in T : p[y] \in s}
           K == {s \in SUBSET S : acc[From(s)] = k * B[s]}
<1>1. /\ acc \in [SUBSET T -> Nat] /\ acc[{}] = 0
      /\ \A t \in SUBSET T : \A x \in t : acc[t] = acc[t \ {x}] + f[x]
  BY DEF Adds
<1>2. /\ B \in [SUBSET S -> Nat] /\ B[{}] = 0
      /\ \A t \in SUBSET S : \A x \in t : B[t] = B[t \ {x}] + g[x]
  BY DEF Adds
<1>3. /\ p \in [T -> S] /\ z \in [S -> T] /\ o \in [S -> T]
      /\ \A x \in S : p[z[x]] = x /\ p[o[x]] = x /\ z[x] # o[x]
      /\ \A y \in T : y = z[p[y]] \/ y = o[p[y]]
  BY DEF Doubles
<1>4. {} \in K
  <2>1. From({}) = {} /\ {} \in SUBSET S
    OBVIOUS
  <2> HIDE DEF From
  <2>2. acc[From({})] = 0 /\ B[{}] = 0
    BY <1>1, <1>2, <2>1
  <2> QED BY <2>1, <2>2
<1>5. ASSUME NEW s \in SUBSET S, s # {}, \A x \in s : s \ {x} \in K PROVE s \in K
  <2>1. PICK x \in s : TRUE
    BY <1>5
  <2>2. PICK r : r = s \ {x} /\ r \in SUBSET S /\ acc[From(r)] = k * B[r]
    BY <1>5
  <2>3. PICK u \in T : u = z[x]
    BY <1>3
  <2>4. PICK v \in T : v = o[x]
    BY <1>3
  <2>5. p[u] = x /\ p[v] = x /\ u # v
    BY <1>3, <2>3, <2>4
  <2>6. \A y \in T : p[y] = x => y = u \/ y = v
    BY <1>3, <2>3, <2>4
  <2>7. From(r) = (From(s) \ {u}) \ {v} /\ u \in From(s) /\ v \in From(s) \ {u}
    BY <2>2, <2>5, <2>6
  <2>8. From(s) \in SUBSET T /\ From(s) \ {u} \in SUBSET T /\ From(r) \in SUBSET T
    OBVIOUS
  <2> HIDE DEF From
  <2>9. acc[From(s)] = acc[From(s) \ {u}] + f[u] /\ acc[From(s) \ {u}] = acc[From(r)] + f[v]
    <3>1. acc[From(s)] = acc[From(s) \ {u}] + f[u]
      BY <1>1, <2>7, <2>8
    <3>2. acc[From(s) \ {u}] = acc[(From(s) \ {u}) \ {v}] + f[v]
      BY <1>1, <2>7, <2>8
    <3> QED BY <2>7, <3>1, <3>2
  <2>10. PICK b \in Nat : b = B[r]
    BY <1>2, <2>2
  <2>11. PICK d \in Nat : d = g[x]
    OBVIOUS
  <2>12. f[u] \in Nat /\ f[v] \in Nat /\ f[u] + f[v] = k * d
    BY <2>3, <2>4, <2>11
  <2>13. acc[From(r)] = k * b /\ k * b \in Nat /\ k * d \in Nat
    BY <2>2, <2>10
  <2>14. acc[From(s)] = k * b + k * d
    <3>1. acc[From(s)] = (acc[From(r)] + f[v]) + f[u]
      BY <2>9
    <3>2. PICK c \in Nat : c = k * b
      BY <2>13
    <3>3. PICK e \in Nat : e = k * d
      BY <2>13
    <3>4. acc[From(r)] = c /\ f[u] + f[v] = e
      BY <2>12, <2>13, <3>2, <3>3
    <3>5. acc[From(s)] = c + e
      BY <2>12, <3>1, <3>4
    <3> QED BY <3>2, <3>3, <3>5
  <2>15. B[s] = b + d
    BY <1>2, <2>2, <2>10, <2>11
  <2>16. k * (b + d) = k * b + k * d
    OBVIOUS
  <2> QED BY <2>14, <2>15, <2>16
<1>6. S \in K
  <2> HIDE DEF K
  <2> QED BY <1>4, <1>5, Subsets
<1>7. From(S) = T
  BY <1>3
<1> QED BY <1>6, <1>7

LEMMA TwosFinite ==
  ASSUME NEW S, IsFiniteSet(S), NEW T, NEW p, NEW z, NEW o, Doubles(S, T, p, z, o)
  PROVE  IsFiniteSet(T)
<1> DEFINE Zs == {z[x] : x \in S}
           Os == {o[x] : x \in S}
<1>1. z \in Surjection(S, Zs) /\ o \in Surjection(S, Os)
  BY DEF Doubles, Surjection
<1> HIDE DEF Zs, Os
<1>2. IsFiniteSet(Zs) /\ IsFiniteSet(Os)
  BY <1>1, FS_Surjection
<1>3. IsFiniteSet(Zs \cup Os)
  BY <1>2, FS_Union
<1>4. T \in SUBSET (Zs \cup Os)
  BY DEF Doubles, Zs, Os
<1> QED BY <1>3, <1>4, FS_Subset

-----------------------------------------------------------------------------
(* Fractions in any terms: p is n over d.                                    *)

Worth(p, n, d) == p \in Fraction /\ n \in Int /\ d \in Nat /\ d > 0 /\ p[1] * d = n * p[2]

LEMMA WorthTerms ==
  ASSUME NEW p, NEW n, NEW d, Worth(p, n, d)
  PROVE  \E a \in Int, b \in Nat : p = <<a, b>> /\ b > 0 /\ a * d = n * b
<1>1. PICK a \in Int, b \in Nat : p = <<a, b>> /\ b > 0
  BY FractionTerms DEF Worth
<1> QED BY <1>1 DEF Worth

LEMMA IsWorth ==
  ASSUME NEW p, NEW n, NEW d, Is(p, n, d)
  PROVE  Worth(p, n, d)
<1>1. PICK a \in Int, b \in Nat : p = <<a, b>> /\ b > 0 /\ a * d = n * b
  BY IsTerms
<1>2. n \in Int /\ d \in Nat /\ d > 0
  BY DEF Is
<1> QED BY <1>1, <1>2 DEF Worth, Fraction

\* The same fraction in other terms.
LEMMA IsAlso ==
  ASSUME NEW p, NEW n, NEW d, Is(p, n, d), NEW m \in Int, NEW e \in Nat, e > 0, n * e = m * d
  PROVE  Is(p, m, e)
<1>1. PICK a \in Int, b \in Nat : p = <<a, b>> /\ b > 0 /\ a * d = n * b
  BY IsTerms
<1>2. n \in Int /\ d \in Nat /\ d > 0 /\ IsLowest(p)
  BY DEF Is
<1>3. a * e = m * b
  <2>1. (a * e) * d = (a * d) * e /\ (m * b) * d = (m * d) * b
    BY <1>1, <1>2
  <2>2. (n * b) * e = (n * e) * b
    BY <1>1, <1>2
  <2>3. (a * e) * d = (m * b) * d
    BY <1>1, <2>1, <2>2
  <2>4. a * e \in Int /\ m * b \in Int
    BY <1>1
  <2> QED BY <1>2, <2>3, <2>4, Cancel
<1>4. Stands(p, m, e)
  BY <1>1, <1>3 DEF Stands
<1> QED BY <1>2, <1>4 DEF Is

LEMMA TimesWorth ==
  ASSUME NEW p, NEW n, NEW d, Worth(p, n, d), NEW q, NEW m, NEW e, Worth(q, m, e)
  PROVE  Is(Times(p, q), n * m, d * e)
<1>1. PICK a \in Int, b \in Nat : p = <<a, b>> /\ b > 0 /\ a * d = n * b
  BY WorthTerms
<1>2. PICK x \in Int, y \in Nat : q = <<x, y>> /\ y > 0 /\ x * e = m * y
  BY WorthTerms
<1>3. n \in Int /\ m \in Int /\ d \in Nat /\ d > 0 /\ e \in Nat /\ e > 0
  BY DEF Worth
<1>4. a * x \in Int /\ b * y \in Nat /\ b * y > 0 /\ n * m \in Int /\ d * e \in Nat /\ d * e > 0
  BY <1>1, <1>2, <1>3
<1>5. Times(p, q) = Frac(a * x, b * y)
  BY <1>1, <1>2 DEF Times
<1>6. Is(Times(p, q), a * x, b * y)
  BY <1>4, <1>5, FracIs
<1>7. (a * x) * (d * e) = (n * m) * (b * y)
  <2>1. (a * x) * (d * e) = (a * d) * (x * e)
    BY <1>3
  <2>2. (n * m) * (b * y) = (n * b) * (m * y)
    BY <1>3
  <2> QED BY <1>1, <1>2, <2>1, <2>2
<1> QED BY <1>4, <1>6, <1>7, IsAlso

LEMMA PlusWorth ==
  ASSUME NEW p, NEW n, NEW d, Worth(p, n, d), NEW q, NEW m, NEW e, Worth(q, m, e)
  PROVE  Is(Plus(p, q), n * e + m * d, d * e)
<1>1. PICK a \in Int, b \in Nat : p = <<a, b>> /\ b > 0 /\ a * d = n * b
  BY WorthTerms
<1>2. PICK x \in Int, y \in Nat : q = <<x, y>> /\ y > 0 /\ x * e = m * y
  BY WorthTerms
<1>3. n \in Int /\ m \in Int /\ d \in Nat /\ d > 0 /\ e \in Nat /\ e > 0
  BY DEF Worth
<1>4. PICK g : g = GCD(b, y)
  OBVIOUS
<1>5. g \in Nat /\ g > 0 /\ Divides(g, b) /\ Divides(g, y)
  BY <1>1, <1>4, GCDCommon DEF IsCommon
<1>6. PICK i \in Int : b = i * g
  BY <1>5 DEF Divides
<1>7. PICK j \in Int : y = j * g
  BY <1>5 DEF Divides
<1>8. i > 0 /\ j > 0 /\ b \div g = i /\ y \div g = j
  BY <1>1, <1>2, <1>5, <1>6, <1>7
<1>9. Plus(p, q) = Frac(a * j + x * i, i * y)
  BY <1>1, <1>2, <1>4, <1>8 DEF Plus, Added
<1>10. /\ a * j + x * i \in Int /\ i * y \in Nat /\ i * y > 0
       /\ n * e + m * d \in Int /\ d * e \in Nat /\ d * e > 0
  BY <1>1, <1>2, <1>3, <1>8
<1>11. Is(Plus(p, q), a * j + x * i, i * y)
  BY <1>9, <1>10, FracIs
<1>12. (a * j + x * i) * (d * e) = (n * e + m * d) * (i * y)
  <2>1. (a * j) * (d * e) = (a * d) * (j * e)
    BY <1>3
  <2>2. (n * b) * (j * e) = (n * e) * (i * y)
    <3>1. (n * (i * g)) * (j * e) = (n * e) * (i * (j * g))
      BY <1>3, <1>5
    <3> QED BY <1>6, <1>7, <3>1
  <2>3. (x * i) * (d * e) = (x * e) * (i * d)
    BY <1>3
  <2>4. (m * y) * (i * d) = (m * d) * (i * y)
    BY <1>3
  <2>5. (a * j + x * i) * (d * e) = (a * j) * (d * e) + (x * i) * (d * e)
    BY <1>3
  <2>6. (n * e + m * d) * (i * y) = (n * e) * (i * y) + (m * d) * (i * y)
    BY <1>3
  <2> QED BY <1>1, <1>2, <2>1, <2>2, <2>3, <2>4, <2>5, <2>6
<1> QED BY <1>10, <1>11, <1>12, IsAlso

LEMMA MinusWorth ==
  ASSUME NEW p, NEW n, NEW d, Worth(p, n, d), NEW q, NEW m, NEW e, Worth(q, m, e)
  PROVE  Is(Minus(p, q), n * e - m * d, d * e)
<1>1. PICK x \in Int, y \in Nat : q = <<x, y>> /\ y > 0 /\ x * e = m * y
  BY WorthTerms
<1>2. n \in Int /\ m \in Int /\ d \in Nat /\ d > 0 /\ e \in Nat /\ e > 0
  BY DEF Worth
<1>3. Negated(q) = <<-x, y>>
  BY <1>1 DEF Negated
<1>4. (-x) * e = (-m) * y
  <2>1. (-x) * e = -(x * e) /\ (-m) * y = -(m * y)
    BY <1>2
  <2> QED BY <1>1, <2>1
<1>5. Worth(Negated(q), -m, e)
  BY <1>1, <1>2, <1>3, <1>4 DEF Worth, Fraction
<1>6. Is(Minus(p, q), n * e + (-m) * d, d * e)
  BY <1>5, PlusWorth DEF Minus
<1>7. n * e + (-m) * d = n * e - m * d
  BY <1>2
<1> QED BY <1>6, <1>7

LEMMA Scaling ==
  ASSUME NEW a \in Int, NEW b \in Int, NEW k \in Int, k > 0
  PROVE  a <= b <=> a * k <= b * k
<1>1. PICK c \in Int : c = b - a
  OBVIOUS
<1>2. b * k = a * k + c * k
  BY <1>1
<1>3. (c >= 0 => c * k >= 0) /\ (c < 0 => c * k < 0)
  OBVIOUS
<1>4. a * k \in Int /\ b * k \in Int /\ c * k \in Int
  OBVIOUS
<1> QED BY <1>1, <1>2, <1>3, <1>4

LEMMA LeqWorth ==
  ASSUME NEW p, NEW n, NEW d, Worth(p, n, d), NEW q, NEW m, NEW e, Worth(q, m, e)
  PROVE  Leq(p, q) <=> n * e <= m * d
<1>1. PICK a \in Int, b \in Nat : p = <<a, b>> /\ b > 0 /\ a * d = n * b
  BY WorthTerms
<1>2. PICK x \in Int, y \in Nat : q = <<x, y>> /\ y > 0 /\ x * e = m * y
  BY WorthTerms
<1>3. n \in Int /\ m \in Int /\ d \in Nat /\ d > 0 /\ e \in Nat /\ e > 0
  BY DEF Worth
<1>4. Leq(p, q) <=> a * y <= x * b
  BY <1>1, <1>2 DEF Leq
<1>5. PICK k \in Int : k = d * e /\ k > 0
  BY <1>3
<1>6. PICK l \in Int : l = b * y /\ l > 0
  BY <1>1, <1>2
<1>7. (a * y) * k = (n * e) * l
  <2>1. (a * y) * (d * e) = (a * d) * (y * e)
    BY <1>3
  <2>2. (n * b) * (y * e) = (n * e) * (b * y)
    BY <1>3
  <2> QED BY <1>1, <1>5, <1>6, <2>1, <2>2
<1>8. (x * b) * k = (m * d) * l
  <2>1. (x * b) * (d * e) = (x * e) * (b * d)
    BY <1>3
  <2>2. (m * y) * (b * d) = (m * d) * (b * y)
    BY <1>3
  <2> QED BY <1>2, <1>5, <1>6, <2>1, <2>2
<1>9. a * y \in Int /\ x * b \in Int /\ n * e \in Int /\ m * d \in Int
  BY <1>3
<1>10. a * y <= x * b <=> (a * y) * k <= (x * b) * k
  BY <1>5, <1>9, Scaling
<1>11. n * e <= m * d <=> (n * e) * l <= (m * d) * l
  BY <1>6, <1>9, Scaling
<1> QED BY <1>4, <1>7, <1>8, <1>10, <1>11

-----------------------------------------------------------------------------
(* Powers of natural numbers, and of fractions.                              *)

Powers(f, x, n) == f \in [0..n -> Nat] /\ f[0] = 1 /\ \A k \in 1..n : f[k] = f[k - 1] * x
IsPower(y, x, n) == \E f : Powers(f, x, n) /\ y = f[n]
Pw(x, n) == CHOOSE y : IsPower(y, x, n)

LEMMA PowersAgree ==
  ASSUME NEW x \in Nat, NEW n \in Nat, NEW f, Powers(f, x, n), NEW g, Powers(g, x, n)
  PROVE  f[n] = g[n]
<1> DEFINE K == {k \in Nat : k <= n => f[k] = g[k]}
<1>1. 0 \in K
  BY DEF Powers
<1>2. \A k \in Nat : k \in K => k + 1 \in K
  <2> SUFFICES ASSUME NEW k \in Nat, k \in K, k + 1 <= n PROVE f[k + 1] = g[k + 1]
    OBVIOUS
  <2>1. k + 1 \in 1..n /\ (k + 1) - 1 = k /\ f[k] = g[k]
    OBVIOUS
  <2> QED BY <2>1 DEF Powers
<1> HIDE DEF K
<1>3. Nat \subseteq K
  BY <1>1, <1>2, Stepping
<1> QED BY <1>3 DEF K

LEMMA PowerStarts ==
  ASSUME NEW x \in Nat
  PROVE  IsPower(1, x, 0)
<1> DEFINE f == [k \in 0..0 |-> 1]
<1>1. f \in [0..0 -> Nat] /\ f[0] = 1 /\ 1..0 = {}
  OBVIOUS
<1> HIDE DEF f
<1>2. Powers(f, x, 0)
  BY <1>1 DEF Powers
<1> QED BY <1>1, <1>2 DEF IsPower

LEMMA PowerGoesOn ==
  ASSUME NEW x \in Nat, NEW n \in Nat, NEW y \in Nat, IsPower(y, x, n)
  PROVE  IsPower(y * x, x, n + 1)
<1>1. PICK f : Powers(f, x, n) /\ y = f[n]
  BY DEF IsPower
<1> DEFINE g == [k \in 0..(n + 1) |-> IF k = n + 1 THEN y * x ELSE f[k]]
<1>2. /\ f \in [0..n -> Nat] /\ f[0] = 1 /\ \A k \in 1..n : f[k] = f[k - 1] * x
  BY <1>1 DEF Powers
<1>3. y * x \in Nat
  OBVIOUS
<1>4. g \in [0..(n + 1) -> Nat]
  BY <1>2, <1>3
<1>5. g[0] = 1 /\ g[n + 1] = y * x /\ \A k \in 0..n : g[k] = f[k]
  BY <1>2
<1> HIDE DEF g
<1>6. ASSUME NEW k \in 1..(n + 1) PROVE g[k] = g[k - 1] * x
  <2>1. CASE k = n + 1
    <3>1. k - 1 = n /\ n \in 0..n
      BY <2>1
    <3> QED BY <1>1, <1>5, <2>1, <3>1
  <2>2. CASE k # n + 1
    <3>1. k \in 1..n /\ k \in 0..n /\ k - 1 \in 0..n
      BY <2>2
    <3> QED BY <1>2, <1>5, <3>1
  <2> QED BY <2>1, <2>2
<1>7. Powers(g, x, n + 1)
  BY <1>4, <1>5, <1>6 DEF Powers
<1> QED BY <1>5, <1>7 DEF IsPower

LEMMA PwFacts ==
  ASSUME NEW x \in Nat
  PROVE  /\ Pw(x, 0) = 1
         /\ \A n \in Nat : Pw(x, n) \in Nat /\ Pw(x, n + 1) = Pw(x, n) * x
<1>1. ASSUME NEW n \in Nat, NEW y, IsPower(y, x, n) PROVE Pw(x, n) = y
  <2>1. ASSUME NEW z, IsPower(z, x, n) PROVE z = y
    BY <1>1, <2>1, PowersAgree DEF IsPower
  <2> QED BY <1>1, <2>1 DEF Pw
<1> DEFINE K == {n \in Nat : Pw(x, n) \in Nat /\ IsPower(Pw(x, n), x, n)}
<1>2. 0 \in K /\ Pw(x, 0) = 1
  BY <1>1, PowerStarts
<1>3. ASSUME NEW n \in Nat, n \in K PROVE n + 1 \in K /\ Pw(x, n + 1) = Pw(x, n) * x
  <2>1. PICK y \in Nat : y = Pw(x, n) /\ IsPower(y, x, n)
    BY <1>3
  <2>2. IsPower(y * x, x, n + 1) /\ y * x \in Nat /\ n + 1 \in Nat
    BY <2>1, PowerGoesOn
  <2>3. Pw(x, n + 1) = y * x
    BY <1>1, <2>2
  <2> QED BY <2>1, <2>2, <2>3
<1>4. Nat \subseteq K
  <2> HIDE DEF K
  <2> QED BY <1>2, <1>3, Stepping
<1> QED BY <1>2, <1>3, <1>4

LEMMA PwPositive ==
  ASSUME NEW x \in Nat, x > 0, NEW n \in Nat
  PROVE  Pw(x, n) \in Nat /\ Pw(x, n) > 0
<1> DEFINE K == {k \in Nat : Pw(x, k) > 0}
<1>1. 0 \in K
  BY PwFacts
<1>2. \A k \in Nat : k \in K => k + 1 \in K
  <2> SUFFICES ASSUME NEW k \in Nat, Pw(x, k) > 0 PROVE Pw(x, k + 1) > 0
    OBVIOUS
  <2>1. PICK y \in Nat : y = Pw(x, k) /\ Pw(x, k + 1) = y * x
    BY PwFacts
  <2> QED BY <2>1
<1>3. Nat \subseteq K
  <2> HIDE DEF K
  <2> QED BY <1>1, <1>2, Stepping
<1> QED BY <1>3, PwFacts

LEMMA PwTimes ==
  ASSUME NEW x \in Nat, NEW y \in Nat, NEW n \in Nat
  PROVE  Pw(x * y, n) = Pw(x, n) * Pw(y, n)
<1> DEFINE K == {k \in Nat : Pw(x * y, k) = Pw(x, k) * Pw(y, k)}
<1>0. PICK z \in Nat : z = x * y
  OBVIOUS
<1>1. 0 \in K
  BY <1>0, PwFacts
<1>2. \A k \in Nat : k \in K => k + 1 \in K
  <2> SUFFICES ASSUME NEW k \in Nat, Pw(x * y, k) = Pw(x, k) * Pw(y, k)
               PROVE  Pw(x * y, k + 1) = Pw(x, k + 1) * Pw(y, k + 1)
    OBVIOUS
  <2>1. PICK u \in Nat : u = Pw(x, k) /\ Pw(x, k + 1) = u * x
    BY PwFacts
  <2>2. PICK v \in Nat : v = Pw(y, k) /\ Pw(y, k + 1) = v * y
    BY PwFacts
  <2>3. Pw(x * y, k + 1) = (u * v) * (x * y)
    BY <1>0, <2>1, <2>2, PwFacts
  <2>4. (u * v) * (x * y) = (u * x) * (v * y)
    OBVIOUS
  <2> QED BY <2>1, <2>2, <2>3, <2>4
<1>3. Nat \subseteq K
  <2> HIDE DEF K
  <2> QED BY <1>1, <1>2, Stepping
<1> QED BY <1>3

LEMMA PwPlus ==
  ASSUME NEW x \in Nat, NEW m \in Nat, NEW n \in Nat
  PROVE  Pw(x, m + n) = Pw(x, m) * Pw(x, n)
<1> DEFINE K == {k \in Nat : Pw(x, m + k) = Pw(x, m) * Pw(x, k)}
<1>0. PICK z \in Nat : z = Pw(x, m)
  BY PwFacts
<1>1. 0 \in K
  <2>1. Pw(x, 0) = 1 /\ m + 0 = m /\ z * 1 = z
    BY PwFacts
  <2> QED BY <1>0, <2>1
<1>2. \A k \in Nat : k \in K => k + 1 \in K
  <2> SUFFICES ASSUME NEW k \in Nat, Pw(x, m + k) = Pw(x, m) * Pw(x, k)
               PROVE  Pw(x, m + (k + 1)) = Pw(x, m) * Pw(x, k + 1)
    OBVIOUS
  <2>1. PICK u \in Nat : u = Pw(x, k) /\ Pw(x, k + 1) = u * x
    BY PwFacts
  <2>2. PICK i \in Nat : i = m + k /\ m + (k + 1) = i + 1
    OBVIOUS
  <2>3. Pw(x, i + 1) = (z * u) * x
    BY <1>0, <2>1, <2>2, PwFacts
  <2>4. (z * u) * x = z * (u * x)
    OBVIOUS
  <2> QED BY <1>0, <2>1, <2>2, <2>3, <2>4
<1>3. Nat \subseteq K
  <2> HIDE DEF K
  <2> QED BY <1>1, <1>2, Stepping
<1> QED BY <1>3

LEMMA PwPw ==
  ASSUME NEW x \in Nat, NEW m \in Nat, NEW n \in Nat
  PROVE  Pw(Pw(x, m), n) = Pw(x, m * n)
<1> DEFINE K == {k \in Nat : Pw(Pw(x, m), k) = Pw(x, m * k)}
<1>0. PICK z \in Nat : z = Pw(x, m)
  BY PwFacts
<1>1. 0 \in K
  <2>1. m * 0 = 0
    OBVIOUS
  <2> QED BY <1>0, <2>1, PwFacts
<1>2. \A k \in Nat : k \in K => k + 1 \in K
  <2> SUFFICES ASSUME NEW k \in Nat, Pw(Pw(x, m), k) = Pw(x, m * k)
               PROVE  Pw(Pw(x, m), k + 1) = Pw(x, m * (k + 1))
    OBVIOUS
  <2>1. PICK i \in Nat : i = m * k /\ m * (k + 1) = i + m
    OBVIOUS
  <2>2. Pw(x, i + m) = Pw(x, i) * z
    BY <1>0, PwPlus
  <2>3. Pw(z, k + 1) = Pw(z, k) * z
    BY PwFacts
  <2> QED BY <1>0, <2>1, <2>2, <2>3
<1>3. Nat \subseteq K
  <2> HIDE DEF K
  <2> QED BY <1>1, <1>2, Stepping
<1> QED BY <1>3

LEMMA PwOrder ==
  ASSUME NEW x \in Nat, NEW y \in Nat, NEW n \in Nat
  PROVE  /\ x <= y => Pw(x, n) <= Pw(y, n)
         /\ x < y /\ n > 0 => Pw(x, n) < Pw(y, n)
<1> DEFINE K == {k \in Nat : Pw(x, k) <= Pw(y, k) /\ (x < y /\ k > 0 => Pw(x, k) < Pw(y, k))}
<1> SUFFICES ASSUME x <= y PROVE n \in K
  OBVIOUS
<1>1. 0 \in K
  BY PwFacts
<1>2. \A k \in Nat : k \in K => k + 1 \in K
  <2> SUFFICES ASSUME NEW k \in Nat, Pw(x, k) <= Pw(y, k) PROVE k + 1 \in K
    OBVIOUS
  <2>1. PICK u \in Nat : u = Pw(x, k) /\ Pw(x, k + 1) = u * x
    BY PwFacts
  <2>2. PICK v \in Nat : v = Pw(y, k) /\ Pw(y, k + 1) = v * y
    BY PwFacts
  <2>3. u <= v
    BY <2>1, <2>2
  <2>4. u * x <= v * x
    BY <2>3
  <2>5. v * x <= v * y
    OBVIOUS
  <2>6. x < y => v * x < v * y
    <3>1. y > 0 /\ x < y => v > 0
      BY <2>2, PwPositive
    <3>2. v > 0 /\ x < y => v * x < v * y
      OBVIOUS
    <3> QED BY <3>1, <3>2
  <2>7. u * x \in Nat /\ v * x \in Nat /\ v * y \in Nat
    OBVIOUS
  <2>8. u * x <= v * y /\ (x < y => u * x < v * y)
    BY <2>4, <2>5, <2>6, <2>7
  <2> QED BY <2>1, <2>2, <2>8
<1>3. Nat \subseteq K
  <2> HIDE DEF K
  <2> QED BY <1>1, <1>2, Stepping
<1> QED BY <1>3

-----------------------------------------------------------------------------
LEMMA PowerRuns ==
  ASSUME NEW p \in Fraction, NEW n \in Nat
  PROVE  \E h : /\ h \in [0..n -> Fraction] /\ h[0] = One /\ Power(p, n) = h[n]
                /\ \A k \in 1..n : h[k] = Times(h[k - 1], p)
<1> DEFINE s == [i \in 1..n |-> i]
           IsIter(f) == f = [S \in SUBSET DOMAIN s |->
                               IF S = {} THEN One ELSE Times(f[S \ {Max(S)}], p)]
           iter == CHOOSE f : IsIter(f)
<1>1. Power(p, n) = iter[DOMAIN s]
  BY Zenon DEF Power, FoldLeft, MapThenFoldSet
<1>2. DOMAIN s = 1..n
  OBVIOUS
<1>3. \E f : IsIter(f)
  <2> DEFINE g == [z \in Fraction \X (1..n) |-> Times(z[1], p)]
  <2>1. /\ g \in [Fraction \X (1..n) -> Fraction]
        /\ \A z \in Fraction, i \in 1..n : g[<<z, i>>] = Times(z, p)
    BY FractionsClosed
  <2> HIDE DEF g
  <2>2. One \in Fraction /\ \A i \in 1..n : s[i] \in 1..n
    BY DEF One, Whole, Fraction
  <2> HIDE DEF s
  <2>3. CanFold(n, Fraction, One, 1..n, g, s)
    BY <2>1, <2>2 DEF CanFold
  <2>4. PICK f \in [SUBSET (1..n) -> Fraction] : IsFold(n, One, g, s, f)
    BY <2>3, FoldExists DEF HasFold
  <2>5. ASSUME NEW S \in SUBSET (1..n), S # {}
        PROVE  g[<<f[S \ {Max(S)}], s[Max(S)]>>] = Times(f[S \ {Max(S)}], p)
    <3>1. Max(S) \in 1..n
      BY <2>5, MaxFacts
    <3>2. f[S \ {Max(S)}] \in Fraction /\ s[Max(S)] \in 1..n
      BY <2>2, <3>1
    <3> QED BY <2>1, <3>2
  <2>6. f = [S \in SUBSET (1..n) |-> IF S = {} THEN One ELSE Times(f[S \ {Max(S)}], p)]
    BY <2>4, <2>5 DEF IsFold
  <2> QED BY <1>2, <2>6
<1>4. IsIter(iter)
  <2> HIDE DEF IsIter
  <2> QED BY <1>3
<1> HIDE DEF iter
<1>5. \A S \in SUBSET (1..n) : iter[S] = IF S = {} THEN One ELSE Times(iter[S \ {Max(S)}], p)
  BY <1>2, <1>4
<1>6. iter[{}] = One /\ 1..0 = {}
  <2>1. {} \in SUBSET (1..n) /\ 1..0 = {}
    OBVIOUS
  <2> QED BY <1>5, <2>1
<1>7. \A k \in 1..n : iter[1..k] = Times(iter[1..(k - 1)], p)
  BY <1>5, FirstOnes
<1> DEFINE h == [k \in 0..n |-> iter[1..k]]
<1>8. \A k \in 0..n : iter[1..k] \in Fraction
  <2> DEFINE K == {k \in Nat : k <= n => iter[1..k] \in Fraction}
  <2>1. 0 \in K
    BY <1>6 DEF One, Whole, Fraction
  <2>2. \A k \in Nat : k \in K => k + 1 \in K
    <3> SUFFICES ASSUME NEW k \in Nat, k \in K, k + 1 <= n PROVE iter[1..(k + 1)] \in Fraction
      OBVIOUS
    <3>1. k + 1 \in 1..n /\ (k + 1) - 1 = k /\ iter[1..k] \in Fraction
      OBVIOUS
    <3>2. iter[1..(k + 1)] = Times(iter[1..k], p)
      BY <1>7, <3>1
    <3> QED BY <3>1, <3>2, FractionsClosed
  <2>3. Nat \subseteq K
    <3> HIDE DEF K
    <3> QED BY <2>1, <2>2, Stepping
  <2> QED BY <2>3
<1>9. h[0] = One /\ h[n] = iter[1..n] /\ \A k \in 1..n : h[k] = iter[1..k] /\ h[k - 1] = iter[1..(k - 1)]
  BY <1>6
<1>10. h \in [0..n -> Fraction]
  BY <1>8
<1> HIDE DEF h, s
<1> QED BY <1>1, <1>2, <1>7, <1>9, <1>10

\* A fraction's power is a power of what is above over a power of what is below.
LEMMA PowerIs ==
  ASSUME NEW p, NEW a \in Nat, NEW b \in Nat, Worth(p, a, b), NEW n \in Nat
  PROVE  Is(Power(p, n), Pw(a, n), Pw(b, n))
<1>1. p \in Fraction /\ b > 0
  BY DEF Worth
<1>2. PICK h : /\ h \in [0..n -> Fraction] /\ h[0] = One /\ Power(p, n) = h[n]
               /\ \A k \in 1..n : h[k] = Times(h[k - 1], p)
  BY <1>1, PowerRuns, Zenon
<1> DEFINE K == {k \in Nat : k <= n => Is(h[k], Pw(a, k), Pw(b, k))}
<1>3. 0 \in K
  BY <1>2, WholeIs, PwFacts DEF One
<1>4. \A k \in Nat : k \in K => k + 1 \in K
  <2> SUFFICES ASSUME NEW k \in Nat, k \in K, k + 1 <= n PROVE Is(h[k + 1], Pw(a, k + 1), Pw(b, k + 1))
    OBVIOUS
  <2>1. k + 1 \in 1..n /\ (k + 1) - 1 = k
    OBVIOUS
  <2>2. h[k + 1] = Times(h[k], p) /\ Is(h[k], Pw(a, k), Pw(b, k))
    BY <1>2, <2>1
  <2>3. Is(h[k + 1], Pw(a, k) * a, Pw(b, k) * b)
    BY <2>2, TimesWorth, IsWorth
  <2> QED BY <2>3, PwFacts
<1>5. Nat \subseteq K
  <2> HIDE DEF K
  <2> QED BY <1>3, <1>4, Stepping
<1> QED BY <1>2, <1>5

-----------------------------------------------------------------------------
(* Where typed links overtake similarity.                                    *)

LEMMA LessLeq ==
  ASSUME NEW p \in Fraction, NEW q \in Fraction
  PROVE  Less(p, q) <=> ~Leq(q, p)
<1>1. PICK a \in Int, b \in Nat : p = <<a, b>> /\ b > 0
  BY FractionTerms
<1>2. PICK c \in Int, d \in Nat : q = <<c, d>> /\ d > 0
  BY FractionTerms
<1>3. PICK x \in Int, y \in Int : x = a * d /\ y = c * b
  OBVIOUS
<1>4. x < y <=> ~(y <= x)
  OBVIOUS
<1> QED BY <1>1, <1>2, <1>3, <1>4 DEF Less, Leq

LEMMA LessWorth ==
  ASSUME NEW p, NEW n, NEW d, Worth(p, n, d), NEW q, NEW m, NEW e, Worth(q, m, e)
  PROVE  Less(p, q) <=> n * e < m * d
<1>1. Less(p, q) <=> ~Leq(q, p)
  BY LessLeq DEF Worth
<1>2. Leq(q, p) <=> m * d <= n * e
  BY LeqWorth
<1>3. n * e \in Int /\ m * d \in Int
  BY DEF Worth
<1> QED BY <1>1, <1>2, <1>3

Tri(d) == (d * (d + 1)) \div 2

LEMMA Triangles ==
  ASSUME NEW d \in Nat
  PROVE  Tri(d) \in Nat /\ 2 * Tri(d) = d * (d + 1) /\ Tri(d + 1) = Tri(d) + (d + 1)
<1> DEFINE K == {k \in Nat : \E t \in Nat : k * (k + 1) = 2 * t}
<1>1. 0 \in K
  BY 0 * (0 + 1) = 2 * 0
<1>2. \A k \in Nat : k \in K => k + 1 \in K
  <2> SUFFICES ASSUME NEW k \in Nat, NEW t \in Nat, k * (k + 1) = 2 * t
               PROVE  \E r \in Nat : (k + 1) * ((k + 1) + 1) = 2 * r
    OBVIOUS
  <2>1. PICK r \in Nat : r = t + (k + 1)
    OBVIOUS
  <2>2. (k + 1) * ((k + 1) + 1) = 2 * r
    BY <2>1
  <2> WITNESS r \in Nat
  <2> QED BY <2>2
<1> HIDE DEF K
<1>3. d \in K
  BY <1>1, <1>2, Stepping
<1>4. PICK t \in Nat : d * (d + 1) = 2 * t
  BY <1>3 DEF K
<1>5. (d + 1) * ((d + 1) + 1) = 2 * (t + (d + 1))
  BY <1>4
<1>6. \A r \in Nat : (2 * r) \div 2 = r
  OBVIOUS
<1>7. t + (d + 1) \in Nat
  OBVIOUS
<1>8. Tri(d) = t /\ Tri(d + 1) = t + (d + 1)
  BY <1>4, <1>5, <1>6, <1>7 DEF Tri
<1> QED BY <1>4, <1>8

IsModel(m) ==
  /\ m \in [s0 : Fraction, rho : Fraction, q : Fraction, tau : Fraction]
  /\ DecayAccepts(m) /\ Probability(m.q) /\ Leq(Zero, m.tau)

\* s0 is a over b, rho c over e, and q u over v.
Terms(m, a, b, c, e, u, v) ==
  /\ a \in Nat /\ b \in Nat /\ c \in Nat /\ e \in Nat /\ u \in Nat /\ v \in Nat
  /\ a > 0 /\ b > 0 /\ c > 0 /\ e > 0 /\ u > 0 /\ v > 0
  /\ Worth(m.s0, a, b) /\ Worth(m.rho, c, e) /\ Worth(m.q, u, v)

LEMMA PositiveTerms ==
  ASSUME NEW p \in Fraction, Less(Zero, p)
  PROVE  \E a \in Nat, b \in Nat : a > 0 /\ b > 0 /\ Worth(p, a, b)
<1>1. PICK a \in Int, b \in Nat : p = <<a, b>> /\ b > 0
  BY FractionTerms
<1>2. a > 0
  BY <1>1 DEF Less, Zero, Whole
<1>3. Worth(p, a, b)
  BY <1>1 DEF Worth
<1> QED BY <1>1, <1>2, <1>3

LEMMA ModelTerms ==
  ASSUME NEW m, IsModel(m)
  PROVE  \E a, b, c, e, u, v : Terms(m, a, b, c, e, u, v)
<1>1. PICK a \in Nat, b \in Nat : a > 0 /\ b > 0 /\ Worth(m.s0, a, b)
  BY PositiveTerms DEF IsModel, DecayAccepts
<1>2. PICK c \in Nat, e \in Nat : c > 0 /\ e > 0 /\ Worth(m.rho, c, e)
  BY PositiveTerms DEF IsModel, DecayAccepts
<1>3. PICK u \in Nat, v \in Nat : u > 0 /\ v > 0 /\ Worth(m.q, u, v)
  BY PositiveTerms DEF IsModel, Probability
<1>4. Terms(m, a, b, c, e, u, v)
  BY <1>1, <1>2, <1>3 DEF Terms
<1> QED BY <1>4

Simil(m, d) == Times(Power(m.s0, d), Power(m.rho, Tri(d)))

LEMMA GapOf == ASSUME NEW m, NEW d PROVE Gap(d, m) = Minus(Power(m.q, d), Simil(m, d))
BY DEF Gap, Simil, Tri

LEMMA SimilIs ==
  ASSUME NEW m, NEW a, NEW b, NEW c, NEW e, NEW u, NEW v, Terms(m, a, b, c, e, u, v), NEW d \in Nat
  PROVE  Is(Simil(m, d), Pw(a, d) * Pw(c, Tri(d)), Pw(b, d) * Pw(e, Tri(d)))
<1>1. Is(Power(m.s0, d), Pw(a, d), Pw(b, d))
  BY PowerIs DEF Terms
<1>2. Is(Power(m.rho, Tri(d)), Pw(c, Tri(d)), Pw(e, Tri(d)))
  BY PowerIs, Triangles DEF Terms
<1> QED BY <1>1, <1>2, IsWorth, TimesWorth DEF Simil

\* The terms of the two recoveries.
Recovers(m, d, A1, B1, U, V) ==
  /\ A1 \in Nat /\ B1 \in Nat /\ U \in Nat /\ V \in Nat /\ A1 > 0 /\ B1 > 0 /\ U > 0 /\ V > 0
  /\ Is(Simil(m, d), A1, B1) /\ Is(Power(m.q, d), U, V)
  /\ Is(Gap(d, m), U * B1 - A1 * V, V * B1)

LEMMA RecoverTerms ==
  ASSUME NEW m, NEW a, NEW b, NEW c, NEW e, NEW u, NEW v, Terms(m, a, b, c, e, u, v), NEW d \in Nat
  PROVE  Recovers(m, d, Pw(a, d) * Pw(c, Tri(d)), Pw(b, d) * Pw(e, Tri(d)), Pw(u, d), Pw(v, d))
<1>1. PICK t \in Nat : t = Tri(d)
  BY Triangles
<1>2. PICK i \in Nat, j \in Nat : i = Pw(a, d) /\ j = Pw(c, t) /\ i > 0 /\ j > 0
  BY PwPositive DEF Terms
<1>3. PICK k \in Nat, l \in Nat : k = Pw(b, d) /\ l = Pw(e, t) /\ k > 0 /\ l > 0
  BY PwPositive DEF Terms
<1>4. PICK x \in Nat, y \in Nat : x = Pw(u, d) /\ y = Pw(v, d) /\ x > 0 /\ y > 0
  BY PwPositive DEF Terms
<1>5. PICK g \in Nat, h \in Nat : g = i * j /\ h = k * l /\ g > 0 /\ h > 0
  BY <1>2, <1>3
<1>6. Is(Simil(m, d), g, h)
  BY <1>1, <1>2, <1>3, <1>5, SimilIs
<1>7. Is(Power(m.q, d), x, y)
  BY <1>4, PowerIs DEF Terms
<1>8. Is(Gap(d, m), x * h - g * y, y * h)
  BY <1>6, <1>7, IsWorth, MinusWorth, GapOf
<1>9. Recovers(m, d, g, h, x, y)
  BY <1>4, <1>5, <1>6, <1>7, <1>8 DEF Recovers
<1> QED BY <1>1, <1>2, <1>3, <1>4, <1>5, <1>9

LEMMA RecoversSo ==
  ASSUME NEW m, IsModel(m), NEW d \in Nat
  PROVE  \E A1, B1, U, V : Recovers(m, d, A1, B1, U, V)
BY ModelTerms, RecoverTerms

\* What the closed form asks of a depth.
Ahead(m, d) == Less(Times(Square(m.s0), Power(m.rho, d + 1)), Square(m.q))
Behind(a, c, v, d) == ((a * a) * Pw(c, d + 1)) * (v * v)

LEMMA AheadIs ==
  ASSUME NEW m, NEW a, NEW b, NEW c, NEW e, NEW u, NEW v, Terms(m, a, b, c, e, u, v), NEW d \in Nat
  PROVE  /\ Ahead(m, d) <=> Behind(a, c, v, d) < Behind(b, e, u, d)
         /\ Behind(a, c, v, d) \in Nat /\ Behind(b, e, u, d) \in Nat /\ Behind(b, e, u, d) > 0
         /\ Behind(a, c, v, d + 1) = Behind(a, c, v, d) * c
         /\ Behind(b, e, u, d + 1) = Behind(b, e, u, d) * e
<1>0. PICK n \in Nat : n = d + 1
  OBVIOUS
<1>1. PICK i \in Nat : i = Pw(c, d + 1) /\ Pw(c, (d + 1) + 1) = i * c
  <2>1. Pw(c, n) \in Nat /\ Pw(c, n + 1) = Pw(c, n) * c
    BY PwFacts DEF Terms
  <2> QED BY <1>0, <2>1
<1>2. PICK j \in Nat : j = Pw(e, d + 1) /\ j > 0 /\ Pw(e, (d + 1) + 1) = j * e
  <2>1. Pw(e, n) \in Nat /\ Pw(e, n) > 0 /\ Pw(e, n + 1) = Pw(e, n) * e
    BY PwFacts, PwPositive DEF Terms
  <2> QED BY <1>0, <2>1
<1>3. Is(Square(m.s0), a * a, b * b) /\ Is(Square(m.q), u * u, v * v)
  BY TimesWorth DEF Terms, Square
<1>4. Is(Power(m.rho, d + 1), i, j)
  BY <1>1, <1>2, PowerIs DEF Terms
<1>5. Is(Times(Square(m.s0), Power(m.rho, d + 1)), (a * a) * i, (b * b) * j)
  BY <1>3, <1>4, IsWorth, TimesWorth
<1>6. Ahead(m, d) <=> ((a * a) * i) * (v * v) < (u * u) * ((b * b) * j)
  BY <1>3, <1>5, IsWorth, LessWorth DEF Ahead
<1>7. (u * u) * ((b * b) * j) = ((b * b) * j) * (u * u)
  BY <1>2 DEF Terms
<1>8. /\ ((a * a) * i) * (v * v) \in Nat
      /\ ((a * a) * (i * c)) * (v * v) = (((a * a) * i) * (v * v)) * c
  BY <1>1 DEF Terms
<1>9. /\ ((b * b) * j) * (u * u) \in Nat /\ ((b * b) * j) * (u * u) > 0
      /\ ((b * b) * (j * e)) * (u * u) = (((b * b) * j) * (u * u)) * e
  <2>1. PICK k \in Nat, l \in Nat : k = b * b /\ l = u * u /\ k > 0 /\ l > 0
    BY DEF Terms
  <2>2. PICK r \in Nat : r = k * j /\ r > 0
    BY <1>2, <2>1
  <2>3. r * l > 0 /\ r * l \in Nat
    BY <2>1, <2>2
  <2>4. (k * (j * e)) * l = ((k * j) * l) * e
    BY <1>2 DEF Terms
  <2> QED BY <2>1, <2>2, <2>3, <2>4
<1> QED BY <1>1, <1>2, <1>6, <1>7, <1>8, <1>9 DEF Behind

\* To the power of the depth it asks that the square of what similarity
\* recovers be less than that of what the links do.
LEMMA BehindPower ==
  ASSUME NEW a \in Nat, NEW c \in Nat, NEW v \in Nat, NEW d \in Nat
  PROVE  LET s == (Pw(a, d) * Pw(c, Tri(d))) * Pw(v, d)
         IN  s \in Nat /\ Pw(Behind(a, c, v, d), d) = s * s
<1>1. PICK t \in Nat : t = Tri(d) /\ (d + 1) * d = t + t
  <2>1. Tri(d) \in Nat /\ 2 * Tri(d) = d * (d + 1)
    BY Triangles
  <2> QED BY <2>1
<1>2. PICK i \in Nat, j \in Nat, k \in Nat : i = Pw(a, d) /\ j = Pw(c, t) /\ k = Pw(v, d)
  BY <1>1, PwFacts
<1>3. PICK r \in Nat : r = Pw(c, d + 1)
  BY PwFacts
<1>4. Pw(r, d) = j * j
  BY <1>1, <1>2, <1>3, PwPw, PwPlus
<1>5. Pw(a * a, d) = i * i /\ Pw(v * v, d) = k * k
  BY <1>2, PwTimes
<1>6. Pw((a * a) * r, d) = (i * i) * (j * j)
  BY <1>4, <1>5, PwTimes, a * a \in Nat
<1>7. Pw(((a * a) * r) * (v * v), d) = ((i * i) * (j * j)) * (k * k)
  BY <1>5, <1>6, PwTimes, (a * a) * r \in Nat, v * v \in Nat
<1>8. ((i * i) * (j * j)) * (k * k) = ((i * j) * k) * ((i * j) * k)
  OBVIOUS
<1> QED BY <1>1, <1>2, <1>3, <1>7, <1>8 DEF Behind

LEMMA Squares ==
  ASSUME NEW x \in Nat, NEW y \in Nat
  PROVE  x * x < y * y <=> x < y
<1>1. x < y => x * x < y * y
  OBVIOUS
<1>2. y <= x => y * y <= x * x
  OBVIOUS
<1> QED BY <1>1, <1>2

\* The closed form: a depth wins where it asks.
LEMMA WinsAhead ==
  ASSUME NEW m, IsModel(m), NEW d \in Nat, d > 0
  PROVE  Less(Zero, Gap(d, m)) <=> Ahead(m, d)
<1>1. PICK a, b, c, e, u, v : Terms(m, a, b, c, e, u, v)
  BY ModelTerms
<1>2. a \in Nat /\ b \in Nat /\ c \in Nat /\ e \in Nat /\ u \in Nat /\ v \in Nat
  BY <1>1 DEF Terms
<1>3. PICK A1 \in Nat, B1 \in Nat : A1 = Pw(a, d) * Pw(c, Tri(d)) /\ B1 = Pw(b, d) * Pw(e, Tri(d))
  BY <1>1, RecoverTerms DEF Recovers
<1>4. PICK U \in Nat, V \in Nat : U = Pw(u, d) /\ V = Pw(v, d)
  BY <1>2, PwFacts
<1>5. Less(Zero, Gap(d, m)) <=> U * B1 - A1 * V > 0
  <2>1. Is(Gap(d, m), U * B1 - A1 * V, V * B1)
    BY <1>1, <1>3, <1>4, RecoverTerms DEF Recovers
  <2> QED BY <2>1, IsCompared
<1>6. PICK X \in Nat, Y \in Nat : X = Behind(a, c, v, d) /\ Y = Behind(b, e, u, d)
  BY <1>1, AheadIs
<1>7. Ahead(m, d) <=> X < Y
  BY <1>1, <1>6, AheadIs
<1>8. PICK s \in Nat, r \in Nat : s = A1 * V /\ r = B1 * U
  OBVIOUS
<1>9. Pw(X, d) = s * s /\ Pw(Y, d) = r * r
  <2>1. Pw(X, d) = ((Pw(a, d) * Pw(c, Tri(d))) * Pw(v, d)) * ((Pw(a, d) * Pw(c, Tri(d))) * Pw(v, d))
    BY <1>2, <1>6, BehindPower
  <2>2. Pw(Y, d) = ((Pw(b, d) * Pw(e, Tri(d))) * Pw(u, d)) * ((Pw(b, d) * Pw(e, Tri(d))) * Pw(u, d))
    BY <1>2, <1>6, BehindPower
  <2> QED BY <1>3, <1>4, <1>8, <2>1, <2>2
<1>10. X < Y <=> s * s < r * r
  <2>1. X < Y => Pw(X, d) < Pw(Y, d)
    BY PwOrder
  <2>2. Y <= X => Pw(Y, d) <= Pw(X, d)
    BY PwOrder
  <2>3. s * s \in Nat /\ r * r \in Nat
    OBVIOUS
  <2> QED BY <1>9, <2>1, <2>2, <2>3
<1>11. U * B1 - A1 * V > 0 <=> s < r
  <2>1. U * B1 = r
    BY <1>8
  <2> QED BY <1>8, <2>1
<1> QED BY <1>5, <1>7, <1>10, <1>11, Squares

LEMMA StaysAhead ==
  ASSUME NEW m, IsModel(m), IsDecaying(m), NEW d \in Nat, Ahead(m, d)
  PROVE  Ahead(m, d + 1)
<1>1. PICK a, b, c, e, u, v : Terms(m, a, b, c, e, u, v)
  BY ModelTerms
<1>2. PICK X \in Nat, Y \in Nat : X = Behind(a, c, v, d) /\ Y = Behind(b, e, u, d) /\ X < Y
  BY <1>1, AheadIs
<1>3. Behind(a, c, v, d + 1) = X * c /\ Behind(b, e, u, d + 1) = Y * e
  BY <1>1, <1>2, AheadIs
<1>4. c \in Nat /\ e \in Nat /\ c < e /\ c > 0
  <2>1. Worth(One, 1, 1) /\ Worth(m.rho, c, e) /\ c \in Nat /\ e \in Nat /\ c > 0
    BY <1>1, WholeIs, IsWorth DEF One, Terms
  <2>2. c * 1 < 1 * e
    BY <2>1, LessWorth DEF IsDecaying
  <2> QED BY <2>1, <2>2
<1>5. X * c < Y * e
  <2>1. X * c < Y * c
    BY <1>2, <1>4
  <2>2. Y * c <= Y * e
    BY <1>4
  <2>3. X * c \in Nat /\ Y * c \in Nat /\ Y * e \in Nat
    BY <1>4
  <2> QED BY <2>1, <2>2, <2>3
<1> QED BY <1>1, <1>3, <1>5, AheadIs

LEMMA MaxOf ==
  ASSUME NEW n \in Nat, NEW S \in SUBSET (0..n), S # {}
  PROVE  Max(S) \in S /\ Max(S) \in 0..n /\ \A y \in S : y <= Max(S)
<1> DEFINE T == {k \in Nat : \E y \in S : k = n - y}
<1>1. PICK z \in S : TRUE
  OBVIOUS
<1>2. n - z \in T
  BY <1>1
<1>3. PICK k \in T : \A l \in T : k <= l
  <2>1. T \in SUBSET Nat /\ T # {}
    BY <1>2
  <2> HIDE DEF T
  <2> QED BY <2>1, Least
<1>4. PICK x \in S : k = n - x
  BY <1>3
<1>5. \A y \in S : y <= x
  <2> SUFFICES ASSUME NEW y \in S PROVE y <= x
    OBVIOUS
  <2>1. n - y \in T
    OBVIOUS
  <2>2. k <= n - y
    BY <1>3, <2>1
  <2> QED BY <1>4, <2>2
<1>6. Max(S) = x
  BY <1>5, MaxIs, S \in SUBSET Int
<1> QED BY <1>5, <1>6

\* The bound does not cut the search for the lower depth short.
Reaches(m, bound) == bound \in Nat /\ \E d \in 0..bound : Ahead(m, d)

LEMMA LowerIs ==
  ASSUME NEW m, IsModel(m), IsDecaying(m), NEW bound, Reaches(m, bound)
  PROVE  /\ LowerDepth(m, bound) \in Nat /\ LowerDepth(m, bound) >= 1
         /\ \A d \in Nat : d > 0 => (Less(Zero, Gap(d, m)) <=> d >= LowerDepth(m, bound))
<1> DEFINE S == {d \in 0..bound : Ahead(m, d)}
<1>1. bound \in Nat /\ S # {} /\ S \in SUBSET Nat
  BY DEF Reaches
<1>2. PICK x : x = Min(S)
  OBVIOUS
<1>3. x \in S /\ \A y \in S : x <= y
  <2> HIDE DEF S
  <2> QED BY <1>1, <1>2, MinFacts
<1>4. x \in Nat /\ x <= bound /\ Ahead(m, x)
  BY <1>1, <1>3
<1>5. DepthAfterTauZero(m, bound) = x
  BY <1>2 DEF DepthAfterTauZero, Ahead
<1>6. \A k \in Nat : Ahead(m, x + k)
  <2> DEFINE K == {k \in Nat : Ahead(m, x + k)}
  <2>1. 0 \in K
    BY <1>4, x + 0 = x
  <2>2. \A k \in Nat : k \in K => k + 1 \in K
    <3> SUFFICES ASSUME NEW k \in Nat, Ahead(m, x + k) PROVE Ahead(m, x + (k + 1))
      OBVIOUS
    <3>1. PICK i \in Nat : i = x + k /\ x + (k + 1) = i + 1
      BY <1>4
    <3> QED BY <3>1, StaysAhead
  <2>3. Nat \subseteq K
    <3> HIDE DEF K
    <3> QED BY <2>1, <2>2, Stepping
  <2> QED BY <2>3
<1>7. ASSUME NEW d \in Nat PROVE Ahead(m, d) <=> d >= x
  <2>1. ASSUME d >= x PROVE Ahead(m, d)
    <3>1. PICK k \in Nat : d = x + k
      <4>1. d - x \in Nat /\ d = x + (d - x)
        BY <1>4, <2>1
      <4> QED BY <4>1
    <3> QED BY <1>6, <3>1
  <2>2. ASSUME Ahead(m, d), d < x PROVE FALSE
    <3>1. d \in 0..bound
      BY <1>1, <1>4, <2>2
    <3>2. d \in S
      BY <2>2, <3>1
    <3> QED BY <1>3, <1>4, <2>2, <3>2
  <2> QED BY <1>4, <2>1, <2>2
<1>8. PICK l \in Nat : l = (IF x > 1 THEN x ELSE 1)
  BY <1>4
<1>9. LowerDepth(m, bound) = l
  <2>1. {1, x} \in SUBSET Int /\ l \in {1, x} /\ \A y \in {1, x} : y <= l
    BY <1>4, <1>8
  <2>2. Max({1, x}) = l
    BY <2>1, MaxIs
  <2> QED BY <1>5, <2>2 DEF LowerDepth
<1>10. ASSUME NEW d \in Nat, d > 0 PROVE Less(Zero, Gap(d, m)) <=> d >= l
  <2>1. Less(Zero, Gap(d, m)) <=> Ahead(m, d)
    BY <1>10, WinsAhead
  <2>2. d >= l <=> d >= x
    BY <1>4, <1>8, <1>10
  <2> QED BY <1>7, <2>1, <2>2
<1> QED BY <1>8, <1>9, <1>10

-----------------------------------------------------------------------------
(* The bracket of the crossover, against the scan.                           *)

Above(m, n) == {d \in 1..n : Less(m.tau, Gap(d, m))}
LastOf(above, first) == Max({d \in above : first..d \subseteq above})

LEMMA ScanIs ==
  ASSUME NEW m, IsModel(m), NEW n \in Nat, n > 0
  PROVE  LET found == FindCrossover(m, m.tau, n)
             above == Above(m, n)
         IN  found = IF above = {} THEN NoCrossover(Peak([d \in 1..n |-> Gap(d, m)]))
                     ELSE CrossoverAt([d \in 1..n |-> Gap(d, m)], m.tau, Min(above), above)
<1>1. ~Less(m.tau, Zero) /\ ~(n < 1)
  <2>1. Zero \in Fraction /\ m.tau \in Fraction /\ Leq(Zero, m.tau)
    BY DEF IsModel, Zero, Whole, Fraction
  <2> QED BY <2>1, LessLeq
<1> QED BY <1>1, Zenon DEF FindCrossover, Above

\* The scan finds the first depth above tau, and how far the wins last.
Finds(found, m, n) ==
  LET above == Above(m, n) IN
  /\ found.exists <=> above # {}
  /\ found.exists =>
       /\ found.dStar \in above /\ \A d \in above : found.dStar <= d
       /\ \E last \in above : /\ found.win = <<found.dStar, last>>
                              /\ last = LastOf(above, found.dStar)
                              /\ found.dStar..last \subseteq above /\ found.dStar <= last
                              /\ \A d \in above : found.dStar..d \subseteq above => d <= last

LEMMA ScanFinds ==
  ASSUME NEW m, IsModel(m), NEW n \in Nat, n > 0
  PROVE  Finds(FindCrossover(m, m.tau, n), m, n)
<1>1. PICK above \in SUBSET (1..n) : above = Above(m, n)
  BY DEF Above
<1>2. PICK g : g = [d \in 1..n |-> Gap(d, m)]
  OBVIOUS
<1>3. PICK found : found = FindCrossover(m, m.tau, n)
  OBVIOUS
<1>4. found = IF above = {} THEN NoCrossover(Peak(g)) ELSE CrossoverAt(g, m.tau, Min(above), above)
  BY <1>1, <1>2, <1>3, ScanIs, Zenon
<1>5. CASE above = {}
  BY <1>1, <1>3, <1>4, <1>5 DEF NoCrossover, Finds
<1>6. CASE above # {}
  <2>1. PICK first : first = Min(above)
    OBVIOUS
  <2>2. first \in above /\ \A d \in above : first <= d
    BY <1>6, <2>1, MinFacts, above \in SUBSET Nat
  <2>3. first \in Nat /\ first..first = {first}
    BY <2>2
  <2>4. PICK S : S = {d \in above : first..d \subseteq above}
    OBVIOUS
  <2>10. S \in SUBSET (0..n)
    <3>1. above \subseteq 0..n
      OBVIOUS
    <3> QED BY <2>4, <3>1
  <2>5. S # {}
    BY <2>2, <2>3, <2>4
  <2>6. PICK last : last = Max(S) /\ last \in S /\ \A d \in S : d <= last
    BY <2>5, <2>10, MaxOf
  <2>7. last \in above /\ first..last \subseteq above /\ first <= last /\ last = LastOf(above, first)
    BY <2>2, <2>4, <2>6 DEF LastOf
  <2>8. \A d \in above : first..d \subseteq above => d <= last
    BY <2>4, <2>6
  <2>9. found.exists /\ found.dStar = first /\ found.win = <<first, last>>
    BY <1>4, <1>6, <2>1, <2>4, <2>6 DEF CrossoverAt
  <2> QED BY <1>1, <1>3, <1>6, <2>2, <2>7, <2>8, <2>9 DEF Finds
<1> QED BY <1>5, <1>6

LEMMA TauTerms ==
  ASSUME NEW m, IsModel(m)
  PROVE  \E x \in Nat, y \in Nat : y > 0 /\ Worth(m.tau, x, y)
<1>1. PICK x \in Int, y \in Nat : m.tau = <<x, y>> /\ y > 0
  BY FractionTerms DEF IsModel
<1>2. x >= 0
  BY <1>1 DEF IsModel, Leq, Zero, Whole
<1>3. Worth(m.tau, x, y)
  BY <1>1 DEF Worth, IsModel
<1> QED BY <1>1, <1>2, <1>3

\* The gap clears tau only where the links do, and only above nought.
LEMMA GapBelow ==
  ASSUME NEW m, IsModel(m), NEW d \in Nat, Less(m.tau, Gap(d, m))
  PROVE  Less(m.tau, Power(m.q, d)) /\ Less(Zero, Gap(d, m))
<1>1. PICK x \in Nat, y \in Nat : y > 0 /\ Worth(m.tau, x, y)
  BY TauTerms
<1>2. PICK A1, B1, U, V : Recovers(m, d, A1, B1, U, V)
  BY RecoversSo
<1>3. /\ A1 \in Nat /\ B1 \in Nat /\ U \in Nat /\ V \in Nat /\ A1 > 0 /\ B1 > 0 /\ U > 0 /\ V > 0
      /\ Worth(Power(m.q, d), U, V) /\ Is(Gap(d, m), U * B1 - A1 * V, V * B1)
  BY <1>2, IsWorth DEF Recovers
<1>4. PICK g \in Int : g = U * B1 - A1 * V
  BY <1>3
<1>5. x * (V * B1) < g * y
  BY <1>1, <1>3, <1>4, IsWorth, LessWorth
<1>6. g > 0
  <2>1. x * (V * B1) >= 0 /\ g * y > 0
    <3>1. V * B1 \in Nat /\ x * (V * B1) \in Nat /\ g * y \in Int
      BY <1>3
    <3> QED BY <1>5, <3>1
  <2>2. g <= 0 => g * y <= 0
    OBVIOUS
  <2>3. g * y \in Int
    OBVIOUS
  <2> QED BY <2>1, <2>2, <2>3
<1>7. x * V < U * y
  <2>1. PICK p \in Nat, r \in Nat : p = A1 * V /\ r = U * B1 /\ g = r - p
    BY <1>3, <1>4
  <2>2. g * y <= r * y
    <3>1. g <= r
      BY <2>1
    <3> QED BY <1>1, <3>1
  <2>3. (x * V) * B1 < (U * y) * B1
    <3>1. x * (V * B1) = (x * V) * B1 /\ r * y = (U * y) * B1
      BY <1>3, <2>1
    <3>2. x * (V * B1) \in Int /\ g * y \in Int /\ r * y \in Int
      BY <1>3
    <3> QED BY <1>5, <2>2, <3>1, <3>2
  <2>4. PICK i \in Nat, j \in Nat : i = x * V /\ j = U * y
    BY <1>3
  <2>5. j <= i => j * B1 <= i * B1
    BY <1>3
  <2>6. i * B1 \in Nat /\ j * B1 \in Nat
    BY <1>3
  <2> QED BY <2>3, <2>4, <2>5, <2>6
<1> QED BY <1>1, <1>3, <1>4, <1>6, <1>7, LessWorth, IsCompared

LEMMA PowerBelow ==
  ASSUME NEW m, IsModel(m), NEW d \in Nat
  PROVE  /\ Power(m.q, d) \in Fraction
         /\ Leq(Power(m.q, d), One) /\ Leq(Power(m.q, d + 1), Power(m.q, d))
         /\ d > 0 => Leq(Power(m.q, d), m.q)
<1>1. PICK a, b, c, e, u, v : Terms(m, a, b, c, e, u, v)
  BY ModelTerms
<1>2. u \in Nat /\ v \in Nat /\ u > 0 /\ v > 0 /\ Worth(m.q, u, v) /\ Worth(One, 1, 1)
  BY <1>1, WholeIs, IsWorth DEF Terms, One
<1>3. u <= v
  <2>1. u * 1 <= 1 * v
    BY <1>2, LeqWorth DEF IsModel, Probability
  <2> QED BY <1>2, <2>1
<1>4. ASSUME NEW k \in Nat
      PROVE  \E U \in Nat, V \in Nat : /\ U = Pw(u, k) /\ V = Pw(v, k) /\ U <= V /\ Worth(Power(m.q, k), U, V)
                                       /\ Worth(Power(m.q, k + 1), U * u, V * v)
  <2>1. Is(Power(m.q, k), Pw(u, k), Pw(v, k)) /\ Is(Power(m.q, k + 1), Pw(u, k + 1), Pw(v, k + 1))
    BY <1>2, PowerIs, k + 1 \in Nat
  <2>2. Pw(u, k) \in Nat /\ Pw(v, k) \in Nat /\ Pw(u, k) <= Pw(v, k)
    BY <1>2, <1>3, PwFacts, PwOrder
  <2>3. Pw(u, k + 1) = Pw(u, k) * u /\ Pw(v, k + 1) = Pw(v, k) * v
    BY <1>2, PwFacts
  <2> QED BY <2>1, <2>2, <2>3, IsWorth
<1>5. PICK U \in Nat, V \in Nat : U <= V /\ Worth(Power(m.q, d), U, V) /\ Worth(Power(m.q, d + 1), U * u, V * v)
  BY <1>4
<1>6. Power(m.q, d) \in Fraction
  BY <1>5 DEF Worth
<1>7. Leq(Power(m.q, d), One)
  <2>1. U * 1 <= 1 * V
    BY <1>5
  <2> QED BY <1>2, <1>5, <2>1, LeqWorth
<1>8. Leq(Power(m.q, d + 1), Power(m.q, d))
  <2>1. (U * u) * V <= U * (V * v)
    <3>1. u * (U * V) <= v * (U * V)
      BY <1>2, <1>3
    <3>2. (U * u) * V = u * (U * V) /\ U * (V * v) = v * (U * V)
      BY <1>2
    <3> QED BY <3>1, <3>2
  <2> QED BY <1>5, <2>1, LeqWorth
<1>9. ASSUME d > 0 PROVE Leq(Power(m.q, d), m.q)
  <2>1. PICK k \in Nat : k + 1 = d
    <3>1. d - 1 \in Nat /\ (d - 1) + 1 = d
      BY <1>9
    <3> QED BY <3>1
  <2>2. PICK X \in Nat, Y \in Nat : X <= Y /\ Worth(Power(m.q, d), X * u, Y * v)
    BY <1>4, <2>1
  <2>3. (X * u) * v <= u * (Y * v)
    <3>1. X * (u * v) <= Y * (u * v)
      BY <1>2, <2>2
    <3>2. (X * u) * v = X * (u * v) /\ u * (Y * v) = Y * (u * v)
      BY <1>2
    <3> QED BY <3>1, <3>2
  <2> QED BY <1>2, <2>2, <2>3, LeqWorth
<1> QED BY <1>6, <1>7, <1>8, <1>9

LEMMA WinsWhere ==
  ASSUME NEW m, IsModel(m), IsDecaying(m), NEW bound, Reaches(m, bound), NEW n \in Nat, NEW d \in Above(m, n)
  PROVE  /\ d \in 1..n /\ LowerDepth(m, bound) <= d
         /\ Leq(m.tau, Power(m.q, d)) /\ ~Leq(m.q, m.tau)
<1>1. d \in 1..n /\ d \in Nat /\ d > 0 /\ Less(m.tau, Gap(d, m))
  BY DEF Above
<1>2. Less(m.tau, Power(m.q, d)) /\ Less(Zero, Gap(d, m))
  BY <1>1, GapBelow
<1>3. LowerDepth(m, bound) <= d
  BY <1>1, <1>2, LowerIs
<1>4. m.tau \in Fraction /\ m.q \in Fraction /\ Power(m.q, d) \in Fraction /\ Leq(Power(m.q, d), m.q)
  BY <1>1, PowerBelow DEF IsModel
<1>5. ~Leq(Power(m.q, d), m.tau)
  BY <1>2, <1>4, LessLeq
<1>6. Leq(m.tau, Power(m.q, d)) /\ ~Leq(m.q, m.tau)
  BY <1>4, <1>5, LeqTotal, LeqTransitive
<1> QED BY <1>1, <1>3, <1>6

LEMMA ExactWithoutOverhead ==
  ASSUME NEW m, IsModel(m), IsDecaying(m), NEW bound, Reaches(m, bound), NEW n \in Nat, m.tau = Zero
  PROVE  Above(m, n) = {d \in 1..n : LowerDepth(m, bound) <= d}
<1>1. ASSUME NEW d \in 1..n PROVE Less(m.tau, Gap(d, m)) <=> LowerDepth(m, bound) <= d
  <2>1. d \in Nat /\ d > 0
    OBVIOUS
  <2> QED BY <2>1, LowerIs
<1> QED BY <1>1 DEF Above

-----------------------------------------------------------------------------
LEMMA AgreesWithin ==
  ASSUME NEW l \in Nat, NEW h \in Nat, NEW d \in l..h, NEW e \in l..h
  PROVE  CompareCrossover(Whole(d), Whole(e), Whole(h - l)).agrees
<1>1. d \in Int /\ e \in Int /\ h - l \in Int /\ h - l >= 0 /\ d - e <= h - l /\ e - d <= h - l
  OBVIOUS
<1>2. Worth(Whole(d), d, 1) /\ Worth(Whole(e), e, 1) /\ Worth(Whole(h - l), h - l, 1) /\ Worth(Zero, 0, 1)
  BY <1>1, WholeIs, IsWorth DEF Zero
<1>3. ~Less(Whole(h - l), Zero)
  BY <1>1, <1>2, LessWorth
<1>4. PICK p, r : p = Minus(Whole(d), Whole(e)) /\ r = Minus(Whole(e), Whole(d))
  OBVIOUS
<1>5. Worth(p, d - e, 1) /\ Worth(r, e - d, 1)
  <2>1. Worth(p, d * 1 - e * 1, 1 * 1) /\ Worth(r, e * 1 - d * 1, 1 * 1)
    BY <1>2, <1>4, MinusWorth, IsWorth
  <2>2. d * 1 - e * 1 = d - e /\ e * 1 - d * 1 = e - d /\ 1 * 1 = 1
    BY <1>1
  <2> QED BY <2>1, <2>2
<1>6. Leq(p, Whole(h - l)) /\ Leq(r, Whole(h - l))
  BY <1>1, <1>2, <1>5, LeqWorth
<1>7. Leq(Higher(p, r), Whole(h - l))
  BY <1>6 DEF Higher
<1> QED BY <1>3, <1>4, <1>7 DEF CompareCrossover

Bracket(m, n, bound) == BracketCrossover(m, m.tau, n, bound)

\* What a bracket has to do with a scan.
Brackets(br, m, n, l) ==
  LET above == Above(m, n) IN
  /\ br.lower = l /\ br.upper \in Nat
  /\ \A d \in above : (\A k \in above : d <= k) => d <= br.upper
  /\ above # {} => \E end \in Nat : br.window = <<l, end>> /\ \A d \in above : d <= end
  /\ m.tau = Zero /\ above # {} => br.window = <<l, n>>

LEMMA BracketIs ==
  ASSUME NEW m, IsModel(m), IsDecaying(m), NEW bound, Reaches(m, bound), NEW n \in Nat, n > 0
  PROVE  Brackets(Bracket(m, n, bound), m, n, LowerDepth(m, bound))
<1>1. PICK l \in Nat : l = LowerDepth(m, bound) /\ l >= 1
  BY LowerIs
<1>2. PICK above \in SUBSET (1..n) : above = Above(m, n)
  BY DEF Above
<1>3. \A d \in above : l <= d /\ d <= n /\ Leq(m.tau, Power(m.q, d)) /\ ~Leq(m.q, m.tau)
  BY <1>1, <1>2, WinsWhere
<1>4. ~Less(m.tau, Zero) /\ ~(n < 1)
  <2>1. Zero \in Fraction /\ m.tau \in Fraction /\ Leq(Zero, m.tau)
    BY DEF IsModel, Zero, Whole, Fraction
  <2> QED BY <2>1, LessLeq
<1> DEFINE upper == IF m.tau = Zero THEN Min({l, n})
                    ELSE IF Leq(m.q, m.tau) THEN l
                    ELSE IF m.q = One THEN n
                    ELSE LastAbove(m, m.tau, n)
           winEnd == IF m.tau = Zero THEN n ELSE upper
           window == IF (m.tau # Zero /\ Leq(m.q, m.tau)) \/ winEnd < l THEN None ELSE <<l, winEnd>>
<1>5. PICK br : br = Bracket(m, n, bound)
  OBVIOUS
<1>6. br = [lower |-> l, upper |-> upper, window |-> window]
  BY <1>1, <1>4, <1>5, Zenon DEF Bracket, BracketCrossover
<1>7. br.lower = l /\ br.upper = upper /\ br.window = window
  BY <1>6
<1>8. ASSUME NEW end \in Nat, winEnd = end, \A d \in above : d <= end, above # {} PROVE window = <<l, end>>
  <2>1. PICK d \in above : TRUE
    BY <1>8
  <2>2. ~Leq(m.q, m.tau) /\ l <= d /\ d <= end
    BY <1>3, <1>8
  <2>3. ~(end < l)
    BY <1>1, <1>2, <2>2
  <2> HIDE DEF winEnd
  <2> QED BY <1>8, <2>2, <2>3
<1>9. CASE m.tau = Zero
  <2>1. above = {d \in 1..n : l <= d}
    BY <1>1, <1>2, <1>9, ExactWithoutOverhead
  <2>2. Min({l, n}) \in {l, n} /\ Min({l, n}) <= l /\ Min({l, n}) <= n
    BY MinFacts, {l, n} \in SUBSET Nat, {l, n} # {}
  <2>3. upper \in Nat /\ upper \in {l, n}
    BY <1>9, <2>2
  <2>4. winEnd = n /\ upper = Min({l, n})
    BY <1>9
  <2> HIDE DEF upper, winEnd, window
  <2>5. ASSUME NEW d \in above, \A k \in above : d <= k PROVE d <= upper
    <3>1. d \in 1..n /\ l <= d /\ l \in 1..n
      BY <1>1, <2>1
    <3>2. l \in above /\ l <= n
      BY <2>1, <3>1
    <3>3. d <= l
      BY <2>5, <3>2
    <3> QED BY <2>3, <3>2, <3>3
  <2>6. above # {} => window = <<l, n>>
    BY <1>3, <1>8, <2>4
  <2> QED BY <1>1, <1>2, <1>3, <1>5, <1>7, <2>3, <2>5, <2>6 DEF Brackets
<1>10. CASE m.tau # Zero
  <2>1. upper \in Nat /\ \A d \in above : d <= upper
    <3>1. CASE Leq(m.q, m.tau)
      BY <1>3, <1>10, <3>1
    <3>2. CASE ~Leq(m.q, m.tau) /\ m.q = One
      BY <1>3, <1>10, <3>2
    <3>3. CASE ~Leq(m.q, m.tau) /\ m.q # One
      <4>1. PICK S \in SUBSET (0..n) : S = {d \in 0..n : Leq(m.tau, Power(m.q, d))}
        OBVIOUS
      <4>2. upper = Max(S)
        BY <1>10, <3>3, <4>1 DEF LastAbove
      <4>3. 0 \in S
        <5>1. Power(m.q, 0) = One
          <6>1. PICK h : h[0] = One /\ Power(m.q, 0) = h[0]
            BY PowerRuns DEF IsModel
          <6> QED BY <6>1
        <5>2. m.tau \in Fraction /\ m.q \in Fraction /\ One \in Fraction /\ Leq(m.q, One)
          BY DEF IsModel, Probability, One, Whole, Fraction
        <5>3. Leq(m.tau, One)
          BY <3>3, <5>2, LeqTotal, LeqTransitive
        <5> QED BY <4>1, <5>1, <5>3
      <4>4. Max(S) \in 0..n /\ \A d \in S : d <= Max(S)
        BY <4>3, MaxOf
      <4>5. above \subseteq S
        BY <1>3, <4>1
      <4> HIDE DEF upper
      <4> QED BY <4>2, <4>4, <4>5
    <3> QED BY <3>1, <3>2, <3>3
  <2>2. winEnd = upper
    BY <1>10
  <2> HIDE DEF upper, winEnd, window
  <2>3. above # {} => window = <<l, upper>>
    BY <1>8, <2>1, <2>2
  <2> QED BY <1>1, <1>2, <1>5, <1>7, <1>10, <2>1, <2>3 DEF Brackets
<1> QED BY <1>9, <1>10

LEMMA BracketContains ==
  ASSUME NEW m, IsModel(m), IsDecaying(m), NEW bound, Reaches(m, bound), NEW n \in Nat, n > 0
  PROVE  LET found == FindCrossover(m, m.tau, n)
             br == Bracket(m, n, bound)
         IN  /\ found.exists =>
                  /\ found.dStar \in br.lower..br.upper
                  /\ found.win[1] >= br.window[1] /\ found.win[2] <= br.window[2]
                  /\ \A d \in br.lower..br.upper :
                       CompareCrossover(Whole(d), Whole(found.dStar), Whole(br.upper - br.lower)).agrees
             /\ m.tau = Zero => /\ found.exists <=> br.lower <= n
                                /\ found.exists => found.dStar = br.lower /\ found.win = br.window
             /\ Leq(m.q, m.tau) => ~found.exists
<1>1. PICK l \in Nat : l = LowerDepth(m, bound) /\ l >= 1
  BY LowerIs
<1>2. PICK above \in SUBSET (1..n) : above = Above(m, n)
  BY DEF Above
<1>3. PICK found, br : found = FindCrossover(m, m.tau, n) /\ br = Bracket(m, n, bound)
  OBVIOUS
<1>4. Finds(found, m, n) /\ Brackets(br, m, n, l)
  BY <1>1, <1>3, ScanFinds, BracketIs
<1>5. br.lower = l /\ br.upper \in Nat
  BY <1>4 DEF Brackets
<1>6. \A d \in above : l <= d /\ ~Leq(m.q, m.tau)
  BY <1>1, <1>2, WinsWhere
<1>7. ASSUME found.exists
      PROVE  /\ found.dStar \in br.lower..br.upper
             /\ found.win[1] >= br.window[1] /\ found.win[2] <= br.window[2]
  <2>1. PICK last \in above : /\ found.win = <<found.dStar, last>> /\ found.dStar \in above
                              /\ \A d \in above : found.dStar <= d
    BY <1>2, <1>4, <1>7 DEF Finds
  <2>2. found.dStar <= br.upper
    BY <1>2, <1>4, <2>1 DEF Brackets
  <2>3. l <= found.dStar /\ found.dStar \in Nat
    <3>1. found.dStar \in 1..n
      BY <2>1
    <3> QED BY <1>6, <2>1, <3>1
  <2>4. PICK end \in Nat : br.window = <<l, end>> /\ \A d \in above : d <= end
    BY <1>2, <1>4, <2>1 DEF Brackets
  <2> QED BY <1>5, <2>1, <2>2, <2>3, <2>4
<1>8. ASSUME found.exists, NEW d \in br.lower..br.upper
      PROVE  CompareCrossover(Whole(d), Whole(found.dStar), Whole(br.upper - br.lower)).agrees
  BY <1>5, <1>7, <1>8, AgreesWithin
<1>9. ASSUME m.tau = Zero
      PROVE  /\ found.exists <=> br.lower <= n
             /\ found.exists => found.dStar = br.lower /\ found.win = br.window
  <2>1. above = {d \in 1..n : l <= d}
    BY <1>1, <1>2, <1>9, ExactWithoutOverhead
  <2>2. above # {} <=> l <= n
    <3>1. l <= n => l \in above
      BY <1>1, <2>1
    <3>2. \A d \in above : l <= n
      BY <2>1
    <3> QED BY <3>1, <3>2
  <2>3. ASSUME found.exists PROVE found.dStar = l /\ found.win = br.window
    <3>1. PICK last \in above : /\ found.win = <<found.dStar, last>> /\ found.dStar \in above
                                /\ \A d \in above : found.dStar <= d
                                /\ \A d \in above : found.dStar..d \subseteq above => d <= last
      BY <1>2, <1>4, <2>3 DEF Finds
    <3>2. l \in above /\ n \in above /\ l..n \subseteq above
      BY <1>1, <2>1, <3>1
    <3>3. found.dStar = l
      <4>1. found.dStar <= l /\ l <= found.dStar /\ found.dStar \in Nat
        BY <2>1, <3>1, <3>2
      <4> QED BY <4>1
    <3>4. last = n
      <4>1. n <= last /\ last \in 1..n
        BY <3>1, <3>2, <3>3
      <4> QED BY <4>1
    <3>5. br.window = <<l, n>>
      BY <1>2, <1>4, <1>9, <3>1 DEF Brackets
    <3> QED BY <3>1, <3>3, <3>4, <3>5
  <2>4. found.exists <=> above # {}
    BY <1>2, <1>4 DEF Finds
  <2> QED BY <1>5, <2>2, <2>3, <2>4
<1>10. Leq(m.q, m.tau) => ~found.exists
  <2>1. found.exists <=> above # {}
    BY <1>2, <1>4 DEF Finds
  <2> QED BY <1>6, <2>1
<1> QED BY <1>3, <1>7, <1>8, <1>9, <1>10

\* A crossover once found is found by every deeper scan.
LEMMA FoundDeeper ==
  ASSUME NEW m, IsModel(m), NEW n \in Nat, NEW k \in 1..n, FindCrossover(m, m.tau, k).exists
  PROVE  FindCrossover(m, m.tau, k).dStar = FindCrossover(m, m.tau, n).dStar
<1>1. k \in Nat /\ k > 0 /\ n > 0
  OBVIOUS
<1>2. PICK shallow, found : shallow = FindCrossover(m, m.tau, k) /\ found = FindCrossover(m, m.tau, n)
  OBVIOUS
<1>3. Finds(shallow, m, k) /\ Finds(found, m, n)
  BY <1>1, <1>2, ScanFinds
<1>4. shallow.dStar \in Above(m, k) /\ \A d \in Above(m, k) : shallow.dStar <= d
  BY <1>2, <1>3 DEF Finds
<1>5. Above(m, k) \subseteq Above(m, n) /\ \A d \in Above(m, n) : d <= k => d \in Above(m, k)
  BY <1>1 DEF Above
<1>6. found.dStar \in Above(m, n) /\ \A d \in Above(m, n) : found.dStar <= d
  BY <1>3, <1>4, <1>5 DEF Finds
<1>7. PICK x \in Nat, y \in Nat : x = shallow.dStar /\ y = found.dStar /\ x <= k
  BY <1>4, <1>6 DEF Above
<1>8. y <= x
  BY <1>4, <1>5, <1>6, <1>7
<1>9. x <= y
  BY <1>4, <1>5, <1>6, <1>7, <1>8
<1> QED BY <1>2, <1>7, <1>8, <1>9

-----------------------------------------------------------------------------
(* Walking a path hop by hop.                                                *)

LEMMA OneOfOne == One \in Fraction /\ Zero \in Fraction /\ Leq(Zero, One) /\ Worth(One, 1, 1) /\ Worth(Zero, 0, 1)
<1>1. One \in Fraction /\ Zero \in Fraction
  BY DEF One, Zero, Whole, Fraction
<1>2. Worth(One, 1, 1) /\ Worth(Zero, 0, 1)
  BY WholeIs, IsWorth DEF One, Zero
<1> QED BY <1>1, <1>2, LeqWorth

IsProduct(h, ps, n) ==
  /\ h \in [0..n -> Fraction] /\ h[0] = One
  /\ \A k \in 1..n : h[k] = Times(h[k - 1], ps[k])

LEMMA ProductRuns ==
  ASSUME NEW n \in Nat, NEW ps \in [1..n -> Fraction]
  PROVE  \E h : IsProduct(h, ps, n) /\ FoldLeft(Times, One, ps) = h[n]
<1> DEFINE IsIter(f) == f = [S \in SUBSET DOMAIN ps |->
                               IF S = {} THEN One ELSE Times(f[S \ {Max(S)}], ps[Max(S)])]
           iter == CHOOSE f : IsIter(f)
<1>1. FoldLeft(Times, One, ps) = iter[DOMAIN ps]
  BY Zenon DEF FoldLeft, MapThenFoldSet
<1>2. DOMAIN ps = 1..n
  OBVIOUS
<1>3. \E f : IsIter(f)
  <2> DEFINE g == [z \in Fraction \X Fraction |-> Times(z[1], z[2])]
  <2>1. /\ g \in [Fraction \X Fraction -> Fraction]
        /\ \A y \in Fraction, z \in Fraction : g[<<y, z>>] = Times(y, z)
    BY FractionsClosed
  <2> HIDE DEF g
  <2>2. One \in Fraction /\ \A i \in 1..n : ps[i] \in Fraction
    BY DEF One, Whole, Fraction
  <2>3. CanFold(n, Fraction, One, Fraction, g, ps)
    BY <2>1, <2>2 DEF CanFold
  <2>4. PICK f \in [SUBSET (1..n) -> Fraction] : IsFold(n, One, g, ps, f)
    BY <2>3, FoldExists DEF HasFold
  <2>5. ASSUME NEW S \in SUBSET (1..n), S # {}
        PROVE  g[<<f[S \ {Max(S)}], ps[Max(S)]>>] = Times(f[S \ {Max(S)}], ps[Max(S)])
    <3>1. Max(S) \in 1..n
      BY <2>5, MaxFacts
    <3>2. f[S \ {Max(S)}] \in Fraction /\ ps[Max(S)] \in Fraction
      BY <2>2, <3>1
    <3> QED BY <2>1, <3>2
  <2>6. f = [S \in SUBSET (1..n) |-> IF S = {} THEN One ELSE Times(f[S \ {Max(S)}], ps[Max(S)])]
    BY <2>4, <2>5 DEF IsFold
  <2> QED BY <1>2, <2>6
<1>4. IsIter(iter)
  <2> HIDE DEF IsIter
  <2> QED BY <1>3
<1> HIDE DEF iter
<1>5. \A S \in SUBSET (1..n) : iter[S] = IF S = {} THEN One ELSE Times(iter[S \ {Max(S)}], ps[Max(S)])
  BY <1>2, <1>4
<1>6. iter[{}] = One /\ 1..0 = {}
  <2>1. {} \in SUBSET (1..n) /\ 1..0 = {}
    OBVIOUS
  <2> QED BY <1>5, <2>1
<1>7. \A k \in 1..n : iter[1..k] = Times(iter[1..(k - 1)], ps[k])
  BY <1>5, FirstOnes
<1> DEFINE h == [k \in 0..n |-> iter[1..k]]
<1>8. \A k \in 0..n : iter[1..k] \in Fraction
  <2> DEFINE K == {k \in Nat : k <= n => iter[1..k] \in Fraction}
  <2>1. 0 \in K
    BY <1>6, OneOfOne
  <2>2. \A k \in Nat : k \in K => k + 1 \in K
    <3> SUFFICES ASSUME NEW k \in Nat, k \in K, k + 1 <= n PROVE iter[1..(k + 1)] \in Fraction
      OBVIOUS
    <3>1. k + 1 \in 1..n /\ (k + 1) - 1 = k /\ iter[1..k] \in Fraction /\ ps[k + 1] \in Fraction
      OBVIOUS
    <3>2. iter[1..(k + 1)] = Times(iter[1..k], ps[k + 1])
      BY <1>7, <3>1
    <3> QED BY <3>1, <3>2, FractionsClosed
  <2>3. Nat \subseteq K
    <3> HIDE DEF K
    <3> QED BY <2>1, <2>2, Stepping
  <2> QED BY <2>3
<1>9. h[0] = One /\ h[n] = iter[1..n] /\ \A k \in 1..n : h[k] = iter[1..k] /\ h[k - 1] = iter[1..(k - 1)]
  BY <1>6
<1>10. h \in [0..n -> Fraction]
  BY <1>8
<1> HIDE DEF h
<1>11. IsProduct(h, ps, n)
  BY <1>7, <1>9, <1>10 DEF IsProduct
<1> QED BY <1>1, <1>2, <1>9, <1>11

LEMMA TimesBelow ==
  ASSUME NEW p \in Fraction, NEW q \in Fraction, SurvivalOK(p), SurvivalOK(q)
  PROVE  SurvivalOK(Times(p, q)) /\ Leq(Times(p, q), p) /\ Leq(Times(p, q), q)
<1>1. PICK a \in Int, b \in Nat : p = <<a, b>> /\ b > 0
  BY FractionTerms
<1>2. PICK c \in Int, d \in Nat : q = <<c, d>> /\ d > 0
  BY FractionTerms
<1>3. Worth(p, a, b) /\ Worth(q, c, d)
  BY <1>1, <1>2 DEF Worth
<1>4. 0 <= a /\ a <= b /\ 0 <= c /\ c <= d
  <2>1. 0 * b <= a * 1 /\ a * 1 <= 1 * b /\ 0 * d <= c * 1 /\ c * 1 <= 1 * d
    BY <1>3, LeqWorth, OneOfOne DEF SurvivalOK
  <2> QED BY <1>1, <1>2, <2>1
<1>5. Worth(Times(p, q), a * c, b * d)
  BY <1>3, TimesWorth, IsWorth
<1>6. a * c >= 0 /\ a * c <= a * d /\ a * c <= b * c
  BY <1>4
<1>7. a * d <= b * d
  BY <1>4
<1>8. Leq(Zero, Times(p, q))
  <2>1. 0 * (b * d) <= (a * c) * 1
    BY <1>6
  <2> QED BY <1>5, <2>1, LeqWorth, OneOfOne
<1>9. Leq(Times(p, q), One)
  <2>1. (a * c) * 1 <= 1 * (b * d)
    BY <1>6, <1>7
  <2> QED BY <1>5, <2>1, LeqWorth, OneOfOne
<1>10. Leq(Times(p, q), p)
  <2>1. (a * c) * b <= a * (b * d)
    <3>1. (a * c) * b = (a * b) * c /\ a * (b * d) = (a * b) * d
      OBVIOUS
    <3>2. (a * b) * c <= (a * b) * d
      <4>1. a * b \in Nat
        BY <1>4
      <4> QED BY <1>4, <4>1
    <3> QED BY <3>1, <3>2
  <2> QED BY <1>3, <1>5, <2>1, LeqWorth
<1>11. Leq(Times(p, q), q)
  <2>1. (a * c) * d <= c * (b * d)
    <3>1. (a * c) * d = (c * d) * a /\ c * (b * d) = (c * d) * b
      OBVIOUS
    <3>2. (c * d) * a <= (c * d) * b
      <4>1. c * d \in Nat
        BY <1>4
      <4> QED BY <1>4, <4>1
    <3> QED BY <3>1, <3>2
  <2> QED BY <1>3, <1>5, <2>1, LeqWorth
<1> QED BY <1>8, <1>9, <1>10, <1>11 DEF SurvivalOK

\* A product of survivals survives no likelier than any of them.
LEMMA ProductBelow ==
  ASSUME NEW n \in Nat, NEW ps \in [1..n -> Fraction], \A i \in 1..n : SurvivalOK(ps[i]),
         NEW h, IsProduct(h, ps, n)
  PROVE  SurvivalOK(h[n]) /\ \A i \in 1..n : Leq(h[n], ps[i])
<1> DEFINE K == {k \in Nat : k <= n => SurvivalOK(h[k]) /\ \A i \in 1..k : Leq(h[k], ps[i])}
<1>0. /\ h \in [0..n -> Fraction] /\ h[0] = One
      /\ \A k \in 1..n : h[k] = Times(h[k - 1], ps[k])
  BY DEF IsProduct
<1>1. 0 \in K
  <2>1. SurvivalOK(h[0])
    BY <1>0, OneOfOne, LeqWorth, 1 * 1 <= 1 * 1 DEF SurvivalOK
  <2> QED BY <2>1
<1>2. ASSUME NEW k \in Nat, k \in K PROVE k + 1 \in K
  <2> SUFFICES ASSUME k + 1 <= n
               PROVE  SurvivalOK(h[k + 1]) /\ \A i \in 1..(k + 1) : Leq(h[k + 1], ps[i])
    OBVIOUS
  <2>1. k + 1 \in 1..n /\ (k + 1) - 1 = k /\ k \in 0..n
    OBVIOUS
  <2>2. PICK p \in Fraction, q \in Fraction : p = h[k] /\ q = ps[k + 1] /\ h[k + 1] = Times(p, q)
    BY <1>0, <2>1
  <2>3. SurvivalOK(p) /\ SurvivalOK(q) /\ \A i \in 1..k : Leq(p, ps[i])
    BY <1>2, <2>1, <2>2
  <2>4. /\ SurvivalOK(Times(p, q)) /\ Leq(Times(p, q), p) /\ Leq(Times(p, q), q)
        /\ Times(p, q) \in Fraction
    BY <2>3, TimesBelow, FractionsClosed
  <2>5. ASSUME NEW i \in 1..(k + 1) PROVE Leq(Times(p, q), ps[i])
    <3>1. CASE i = k + 1
      BY <2>2, <2>4, <3>1
    <3>2. CASE i # k + 1
      <4>1. i \in 1..k /\ ps[i] \in Fraction
        BY <2>1, <3>2
      <4> QED BY <2>3, <2>4, <4>1, LeqTransitive
    <3> QED BY <3>1, <3>2
  <2> QED BY <2>2, <2>4, <2>5
<1>3. Nat \subseteq K
  <2> HIDE DEF K
  <2> QED BY <1>1, <1>2, Stepping
<1> QED BY <1>3

LEMMA LinksOK == ASSUME NEW m, IsModel(m) PROVE SurvivalOK(m.q) /\ m.q \in Fraction
<1>1. m.q \in Fraction /\ Less(Zero, m.q) /\ Leq(m.q, One) /\ Zero \in Fraction
  BY OneOfOne DEF IsModel, Probability
<1>2. Leq(Zero, m.q)
  BY <1>1, LessLeq, LeqTotal
<1> QED BY <1>1, <1>2 DEF SurvivalOK

LEMMA TypedProduct ==
  ASSUME NEW m, IsModel(m), NEW n \in Nat, n > 0
  PROVE  FoldLeft(Times, One, [i \in 1..n |-> m.q]) = StructuredRecovery(n, m.q)
<1>1. m.q \in Fraction
  BY DEF IsModel
<1>2. PICK ps \in [1..n -> Fraction] : ps = [i \in 1..n |-> m.q]
  BY <1>1
<1>3. PICK h : IsProduct(h, ps, n) /\ FoldLeft(Times, One, ps) = h[n]
  BY ProductRuns
<1>4. PICK g : /\ g \in [0..n -> Fraction] /\ g[0] = One /\ Power(m.q, n) = g[n]
               /\ \A k \in 1..n : g[k] = Times(g[k - 1], m.q)
  BY <1>1, PowerRuns, Zenon
<1> DEFINE K == {k \in Nat : k <= n => h[k] = g[k]}
<1>5. 0 \in K
  BY <1>3, <1>4 DEF IsProduct
<1>6. \A k \in Nat : k \in K => k + 1 \in K
  <2> SUFFICES ASSUME NEW k \in Nat, k \in K, k + 1 <= n PROVE h[k + 1] = g[k + 1]
    OBVIOUS
  <2>1. k + 1 \in 1..n /\ (k + 1) - 1 = k /\ h[k] = g[k]
    OBVIOUS
  <2>2. ps[k + 1] = m.q
    BY <1>2, <2>1
  <2> QED BY <1>3, <1>4, <2>1, <2>2 DEF IsProduct
<1>7. Nat \subseteq K
  <2> HIDE DEF K
  <2> QED BY <1>5, <1>6, Stepping
<1>8. Power(m.q, n) = StructuredRecovery(n, m.q)
  BY DEF IsModel, StructuredRecovery
<1>9. h[n] = g[n]
  BY <1>7
<1> QED BY <1>2, <1>3, <1>4, <1>8, <1>9, Zenon

LEMMA RetrievesIs ==
  ASSUME NEW m, NEW a, NEW b, NEW c, NEW e, NEW u, NEW v, Terms(m, a, b, c, e, u, v), NEW i \in Nat
  PROVE  Is(Retrievability(m, i), a * Pw(c, i), b * Pw(e, i))
<1>1. Is(Power(m.rho, i), Pw(c, i), Pw(e, i))
  BY PowerIs DEF Terms
<1> QED BY <1>1, IsWorth, TimesWorth DEF Terms, Retrievability

LEMMA SimilarProduct ==
  ASSUME NEW m, IsModel(m), NEW n \in Nat, n > 0,
         NEW ps \in [1..n -> Fraction], \A i \in 1..n : ps[i] = Retrievability(m, i)
  PROVE  FoldLeft(Times, One, ps) = SimilarityRecovery(n, m)
<1>1. PICK a, b, c, e, u, v : Terms(m, a, b, c, e, u, v)
  BY ModelTerms
<1>2. a \in Nat /\ b \in Nat /\ c \in Nat /\ e \in Nat
  BY <1>1 DEF Terms
<1>3. PICK h : IsProduct(h, ps, n) /\ FoldLeft(Times, One, ps) = h[n]
  BY ProductRuns
<1> DEFINE Top(x, y, k) == Pw(x, k) * Pw(y, Tri(k))
           K == {k \in Nat : k <= n => Is(h[k], Top(a, c, k), Top(b, e, k))}
<1>4. ASSUME NEW x \in Nat, NEW y \in Nat, NEW k \in Nat
      PROVE  Top(x, y, k + 1) = Top(x, y, k) * (x * Pw(y, k + 1)) /\ Top(x, y, 0) = 1
  <2>1. PICK t \in Nat : t = Tri(k) /\ Tri(k + 1) = t + (k + 1)
    BY Triangles
  <2>2. PICK i \in Nat, j \in Nat, l \in Nat : i = Pw(x, k) /\ j = Pw(y, t) /\ l = Pw(y, k + 1)
    <3>1. Pw(x, k) \in Nat /\ Pw(y, t) \in Nat /\ Pw(y, k + 1) \in Nat
      BY PwFacts, k + 1 \in Nat
    <3> QED BY <3>1
  <2>3. Pw(x, k + 1) = i * x /\ Pw(y, t + (k + 1)) = j * l
    BY <2>2, PwFacts, PwPlus
  <2>4. (i * x) * (j * l) = (i * j) * (x * l)
    OBVIOUS
  <2>5. Tri(0) = 0
    BY DEF Tri
  <2> QED BY <2>1, <2>2, <2>3, <2>4, <2>5, PwFacts
<1>5. 0 \in K
  <2>1. h[0] = One /\ Top(a, c, 0) = 1 /\ Top(b, e, 0) = 1
    BY <1>2, <1>3, <1>4 DEF IsProduct
  <2> HIDE DEF Top
  <2> QED BY <2>1, WholeIs DEF One
<1>6. \A k \in Nat : k \in K => k + 1 \in K
  <2> SUFFICES ASSUME NEW k \in Nat, k \in K, k + 1 <= n PROVE Is(h[k + 1], Top(a, c, k + 1), Top(b, e, k + 1))
    OBVIOUS
  <2>1. k + 1 \in 1..n /\ (k + 1) - 1 = k /\ k + 1 \in Nat
    OBVIOUS
  <2>2. h[k + 1] = Times(h[k], Retrievability(m, k + 1))
    BY <1>3, <2>1 DEF IsProduct
  <2>3. Is(h[k], Top(a, c, k), Top(b, e, k))
    OBVIOUS
  <2>4. Is(Retrievability(m, k + 1), a * Pw(c, k + 1), b * Pw(e, k + 1))
    BY <1>1, <2>1, RetrievesIs
  <2>5. /\ Top(a, c, k + 1) = Top(a, c, k) * (a * Pw(c, k + 1))
        /\ Top(b, e, k + 1) = Top(b, e, k) * (b * Pw(e, k + 1))
    BY <1>2, <1>4
  <2> HIDE DEF Top, K
  <2> QED BY <2>2, <2>3, <2>4, <2>5, IsWorth, TimesWorth
<1>7. Nat \subseteq K
  <2> HIDE DEF K
  <2> QED BY <1>5, <1>6, Stepping
<1>8. Is(h[n], Top(a, c, n), Top(b, e, n))
  BY <1>7
<1>9. Is(Simil(m, n), Top(a, c, n), Top(b, e, n))
  BY <1>1, SimilIs
<1>10. h[n] = Simil(m, n)
  <2> HIDE DEF Top
  <2> QED BY <1>8, <1>9, SameFraction
<1>11. SimilarityRecovery(n, m) = Simil(m, n)
  BY DEF SimilarityRecovery, Simil, Tri
<1> QED BY <1>3, <1>10, <1>11

-----------------------------------------------------------------------------
LEMMA HalfOf ==
  ASSUME NEW n \in Nat
  PROVE  /\ Cardinality({i \in 1..(2 * n) : i % 2 = 0}) = n
         /\ Cardinality({i \in 1..(2 * n) : i % 2 # 0}) = n
<1> DEFINE E(k) == {i \in 1..(2 * k) : i % 2 = 0}
           O(k) == {i \in 1..(2 * k) : i % 2 # 0}
           Half2(S, k) == IsFiniteSet(S) /\ Cardinality(S) = k
           K == {k \in Nat : Half2(E(k), k) /\ Half2(O(k), k)}
<1>1. 0 \in K
  <2>1. E(0) = {} /\ O(0) = {}
    OBVIOUS
  <2> HIDE DEF E, O
  <2> QED BY <2>1, FS_EmptySet
<1>2. ASSUME NEW k \in Nat, k \in K PROVE k + 1 \in K
  <2>1. PICK x \in Nat, y \in Nat : x = 2 * k + 2 /\ y = 2 * k + 1 /\ 2 * (k + 1) = x
    OBVIOUS
  <2>2. x % 2 = 0 /\ y % 2 = 1
    BY <2>1
  <2>3. E(k + 1) = E(k) \cup {x} /\ x \notin E(k)
    BY <2>1, <2>2
  <2>4. O(k + 1) = O(k) \cup {y} /\ y \notin O(k)
    BY <2>1, <2>2
  <2>5. IsFiniteSet(E(k)) /\ Cardinality(E(k)) = k /\ IsFiniteSet(O(k)) /\ Cardinality(O(k)) = k
    BY <1>2
  <2> HIDE DEF E, O, K
  <2>6. IsFiniteSet(E(k) \cup {x}) /\ Cardinality(E(k) \cup {x}) = k + 1
    BY <2>3, <2>5, FS_AddElement
  <2>7. IsFiniteSet(O(k) \cup {y}) /\ Cardinality(O(k) \cup {y}) = k + 1
    BY <2>4, <2>5, FS_AddElement
  <2> QED BY <2>3, <2>4, <2>6, <2>7, k + 1 \in Nat DEF K
<1>3. Nat \subseteq K
  <2> HIDE DEF K
  <2> QED BY <1>1, <1>2, Stepping
<1> QED BY <1>3

-----------------------------------------------------------------------------
(* Slopes.                                                                   *)

LEMMA OverWorth ==
  ASSUME NEW p, NEW n, NEW d, Worth(p, n, d), NEW q, NEW m \in Nat, NEW e, Worth(q, m, e), m > 0
  PROVE  Is(Over(p, q), n * e, d * m)
<1>1. PICK x \in Int, y \in Nat : q = <<x, y>> /\ y > 0 /\ x * e = m * y
  BY WorthTerms
<1>2. e \in Nat /\ e > 0
  BY DEF Worth
<1>3. x > 0
  <2>1. m * y > 0
    BY <1>1
  <2>2. x <= 0 => x * e <= 0
    BY <1>2
  <2>3. x * e \in Int
    BY <1>2
  <2> QED BY <1>1, <2>1, <2>2, <2>3
<1>4. Flipped(q) = <<y, x>>
  BY <1>1, <1>3 DEF Flipped
<1>5. Worth(Flipped(q), e, m)
  <2>1. y * m = e * x
    BY <1>1, <1>2
  <2> QED BY <1>1, <1>2, <1>3, <1>4, <2>1 DEF Worth, Fraction
<1> QED BY <1>5, TimesWorth DEF Over

\* The elasticity of a power is its exponent.
LEMMA Elastic ==
  ASSUME NEW x, NEW a \in Nat, NEW b \in Nat, a > 0, b > 0, Worth(x, a, b),
         NEW A1 \in Nat, NEW B1 \in Nat, A1 > 0, B1 > 0, NEW k \in Nat, k > 0,
         NEW grad, Is(grad, k * A1, B1), NEW value, Is(value, A1 * a, B1 * b)
  PROVE  Elasticity(x, value, grad) = Whole(k)
<1>1. k * A1 > 0 /\ A1 * a > 0 /\ A1 * a \in Nat /\ k * A1 \in Nat
  OBVIOUS
<1>2. grad # Zero /\ value # Zero
  BY <1>1, IsCompared
<1>3. Is(Times(x, grad), a * (k * A1), b * B1)
  BY IsWorth, TimesWorth
<1>4. Is(Over(Times(x, grad), value), (a * (k * A1)) * (B1 * b), (b * B1) * (A1 * a))
  BY <1>1, <1>3, IsWorth, OverWorth
<1>5. ((a * (k * A1)) * (B1 * b)) * 1 = k * ((b * B1) * (A1 * a))
  OBVIOUS
<1>6. Is(Whole(k), k, 1)
  BY WholeIs
<1>7. Over(Times(x, grad), value) = Whole(k)
  BY <1>4, <1>5, <1>6, SameFraction
<1> QED BY <1>2, <1>7 DEF Elasticity

LEMMA Cancels ==
  ASSUME NEW p \in Fraction
  PROVE  Plus(Minus(Zero, p), p) = Zero /\ Minus(p, p) = Zero
<1>1. PICK a \in Int, b \in Nat : p = <<a, b>> /\ b > 0
  BY FractionTerms
<1>2. Worth(p, a, b)
  BY <1>1 DEF Worth
<1>3. Is(Minus(Zero, p), 0 * b - a * 1, 1 * b)
  BY <1>2, OneOfOne, MinusWorth
<1>4. Is(Plus(Minus(Zero, p), p), (0 * b - a * 1) * b + a * (1 * b), (1 * b) * b)
  BY <1>2, <1>3, IsWorth, PlusWorth
<1>5. (0 * b - a * 1) * b + a * (1 * b) = 0
  OBVIOUS
<1>6. Is(Minus(p, p), a * b - a * b, b * b)
  BY <1>2, MinusWorth
<1>7. a * b - a * b = 0
  OBVIOUS
<1> QED BY <1>4, <1>5, <1>6, <1>7, IsCompared

-----------------------------------------------------------------------------
(* A central difference of a square, times something, is exact.              *)

LEMMA SquareIs ==
  ASSUME NEW y, NEW n, NEW d, Worth(y, n, d)
  PROVE  Is(Power(y, 2), n * n, d * d)
<1>1. PICK h : /\ h \in [0..2 -> Fraction] /\ h[0] = One /\ Power(y, 2) = h[2]
               /\ \A k \in 1..2 : h[k] = Times(h[k - 1], y)
  <2>1. y \in Fraction /\ 2 \in Nat
    BY DEF Worth
  <2> QED BY <2>1, PowerRuns, Zenon
<1>2. h[1] = Times(One, y) /\ h[2] = Times(h[1], y)
  <2>1. 1 \in 1..2 /\ 2 \in 1..2 /\ 1 - 1 = 0 /\ 2 - 1 = 1
    OBVIOUS
  <2> QED BY <1>1, <2>1
<1>3. Is(h[1], 1 * n, 1 * d)
  BY <1>2, OneOfOne, TimesWorth
<1>4. Is(Power(y, 2), (1 * n) * n, (1 * d) * d)
  BY <1>1, <1>2, <1>3, IsWorth, TimesWorth
<1>5. 1 * n = n /\ 1 * d = d
  BY DEF Worth
<1> QED BY <1>4, <1>5

LEMMA PowerOfOne ==
  ASSUME NEW p \in Fraction, NEW n, NEW d, Worth(p, n, d)
  PROVE  Is(Power(p, 1), n, d)
<1>1. PICK h : /\ h \in [0..1 -> Fraction] /\ h[0] = One /\ Power(p, 1) = h[1]
               /\ \A k \in 1..1 : h[k] = Times(h[k - 1], p)
  BY PowerRuns, 1 \in Nat, Zenon
<1>2. Power(p, 1) = Times(One, p)
  BY <1>1, 1 \in 1..1, 1 - 1 = 0
<1>3. Is(Power(p, 1), 1 * n, 1 * d)
  BY <1>2, OneOfOne, TimesWorth
<1>4. 1 * n = n /\ 1 * d = d
  BY DEF Worth
<1> QED BY <1>3, <1>4

-----------------------------------------------------------------------------
(* What the lookups come to.                                                 *)

IsTotal(h, ps, n) ==
  /\ h \in [0..n -> Fraction] /\ h[0] = Zero
  /\ \A k \in 1..n : h[k] = Plus(h[k - 1], ps[k])

LEMMA TotalRuns ==
  ASSUME NEW n \in Nat, NEW ps \in [1..n -> Fraction]
  PROVE  \E h : IsTotal(h, ps, n) /\ Total(ps) = h[n]
<1> DEFINE IsIter(f) == f = [S \in SUBSET DOMAIN ps |->
                               IF S = {} THEN Zero ELSE Plus(f[S \ {Max(S)}], ps[Max(S)])]
           iter == CHOOSE f : IsIter(f)
<1>1. FoldLeft(Plus, Zero, ps) = iter[DOMAIN ps]
  BY Zenon DEF FoldLeft, MapThenFoldSet
<1>2. DOMAIN ps = 1..n
  OBVIOUS
<1>3. \E f : IsIter(f)
  <2> DEFINE g == [z \in Fraction \X Fraction |-> Plus(z[1], z[2])]
  <2>1. /\ g \in [Fraction \X Fraction -> Fraction]
        /\ \A y \in Fraction, z \in Fraction : g[<<y, z>>] = Plus(y, z)
    BY FractionsClosed
  <2> HIDE DEF g
  <2>2. Zero \in Fraction /\ \A i \in 1..n : ps[i] \in Fraction
    BY DEF Zero, Whole, Fraction
  <2>3. CanFold(n, Fraction, Zero, Fraction, g, ps)
    BY <2>1, <2>2 DEF CanFold
  <2>4. PICK f \in [SUBSET (1..n) -> Fraction] : IsFold(n, Zero, g, ps, f)
    BY <2>3, FoldExists DEF HasFold
  <2>5. ASSUME NEW S \in SUBSET (1..n), S # {}
        PROVE  g[<<f[S \ {Max(S)}], ps[Max(S)]>>] = Plus(f[S \ {Max(S)}], ps[Max(S)])
    <3>1. Max(S) \in 1..n
      BY <2>5, MaxFacts
    <3>2. f[S \ {Max(S)}] \in Fraction /\ ps[Max(S)] \in Fraction
      BY <2>2, <3>1
    <3> QED BY <2>1, <3>2
  <2>6. f = [S \in SUBSET (1..n) |-> IF S = {} THEN Zero ELSE Plus(f[S \ {Max(S)}], ps[Max(S)])]
    BY <2>4, <2>5 DEF IsFold
  <2> QED BY <1>2, <2>6
<1>4. IsIter(iter)
  <2> HIDE DEF IsIter
  <2> QED BY <1>3
<1> HIDE DEF iter
<1>5. \A S \in SUBSET (1..n) : iter[S] = IF S = {} THEN Zero ELSE Plus(iter[S \ {Max(S)}], ps[Max(S)])
  BY <1>2, <1>4
<1>6. iter[{}] = Zero /\ 1..0 = {}
  <2>1. {} \in SUBSET (1..n) /\ 1..0 = {}
    OBVIOUS
  <2> QED BY <1>5, <2>1
<1>7. \A k \in 1..n : iter[1..k] = Plus(iter[1..(k - 1)], ps[k])
  BY <1>5, FirstOnes
<1> DEFINE h == [k \in 0..n |-> iter[1..k]]
<1>8. \A k \in 0..n : iter[1..k] \in Fraction
  <2> DEFINE K == {k \in Nat : k <= n => iter[1..k] \in Fraction}
  <2>1. 0 \in K
    BY <1>6, OneOfOne
  <2>2. \A k \in Nat : k \in K => k + 1 \in K
    <3> SUFFICES ASSUME NEW k \in Nat, k \in K, k + 1 <= n PROVE iter[1..(k + 1)] \in Fraction
      OBVIOUS
    <3>1. k + 1 \in 1..n /\ (k + 1) - 1 = k /\ iter[1..k] \in Fraction /\ ps[k + 1] \in Fraction
      OBVIOUS
    <3>2. iter[1..(k + 1)] = Plus(iter[1..k], ps[k + 1])
      BY <1>7, <3>1
    <3> QED BY <3>1, <3>2, FractionsClosed
  <2>3. Nat \subseteq K
    <3> HIDE DEF K
    <3> QED BY <2>1, <2>2, Stepping
  <2> QED BY <2>3
<1>9. h[0] = Zero /\ h[n] = iter[1..n] /\ \A k \in 1..n : h[k] = iter[1..k] /\ h[k - 1] = iter[1..(k - 1)]
  BY <1>6
<1>10. h \in [0..n -> Fraction]
  BY <1>8
<1> HIDE DEF h
<1>11. IsTotal(h, ps, n)
  BY <1>7, <1>9, <1>10 DEF IsTotal
<1> QED BY <1>1, <1>2, <1>9, <1>11 DEF Total

LEMMA LookupIs ==
  ASSUME NEW m, IsModel(m), NEW i \in Nat
  PROVE  \E x \in Nat, y \in Nat :
           /\ x > 0 /\ y > 0 /\ Is(Over(One, Retrievability(m, i)), x, y)
           /\ i > 0 /\ Leq(Retrievability(m, 1), One) /\ Leq(m.rho, One) => y <= x
<1>1. PICK a, b, c, e, u, v : Terms(m, a, b, c, e, u, v)
  BY ModelTerms
<1>2. /\ a \in Nat /\ b \in Nat /\ c \in Nat /\ e \in Nat /\ a > 0 /\ b > 0 /\ c > 0 /\ e > 0
      /\ Worth(m.rho, c, e)
  BY <1>1 DEF Terms
<1>3. PICK C \in Nat, E \in Nat : C = Pw(c, i) /\ E = Pw(e, i) /\ C > 0 /\ E > 0
  BY <1>2, PwPositive
<1>4. Is(Retrievability(m, i), a * C, b * E)
  BY <1>1, <1>3, RetrievesIs
<1>5. PICK y \in Nat, x \in Nat : y = a * C /\ x = b * E /\ x > 0 /\ y > 0
  <2>1. a * C \in Nat /\ b * E \in Nat /\ a * C > 0 /\ b * E > 0
    BY <1>2, <1>3
  <2> QED BY <2>1
<1>6. Is(Over(One, Retrievability(m, i)), x, y)
  <2>1. Is(Over(One, Retrievability(m, i)), 1 * x, 1 * y)
    BY <1>4, <1>5, OneOfOne, IsWorth, OverWorth
  <2>2. 1 * x = x /\ 1 * y = y
    BY <1>5
  <2> QED BY <2>1, <2>2
<1>7. ASSUME i > 0, Leq(Retrievability(m, 1), One), Leq(m.rho, One) PROVE y <= x
  <2>1. PICK j \in Nat : j + 1 = i
    <3>1. i - 1 \in Nat /\ (i - 1) + 1 = i
      BY <1>7
    <3> QED BY <3>1
  <2>2. PICK C1 \in Nat, E1 \in Nat : C1 = Pw(c, j) /\ E1 = Pw(e, j) /\ C = C1 * c /\ E = E1 * e /\ C1 <= E1
    <3>1. c <= e
      <4>1. c * 1 <= 1 * e
        BY <1>2, <1>7, OneOfOne, LeqWorth
      <4> QED BY <1>2, <4>1
    <3>2. Pw(c, j) \in Nat /\ Pw(e, j) \in Nat /\ Pw(c, j) <= Pw(e, j)
      BY <1>2, <3>1, PwFacts, PwOrder
    <3>3. Pw(c, j + 1) = Pw(c, j) * c /\ Pw(e, j + 1) = Pw(e, j) * e
      BY <1>2, PwFacts
    <3> QED BY <1>3, <2>1, <3>2, <3>3
  <2>3. a * c <= b * e
    <3>1. Is(Retrievability(m, 1), a * Pw(c, 1), b * Pw(e, 1))
      BY <1>1, RetrievesIs, 1 \in Nat
    <3>2. Pw(c, 1) = c /\ Pw(e, 1) = e
      <4>1. Pw(c, 0) = 1 /\ Pw(c, 0 + 1) = Pw(c, 0) * c /\ Pw(e, 0) = 1 /\ Pw(e, 0 + 1) = Pw(e, 0) * e
        BY <1>2, PwFacts, 0 \in Nat
      <4>2. 1 * c = c /\ 1 * e = e /\ 0 + 1 = 1
        BY <1>2
      <4> QED BY <4>1, <4>2
    <3>3. (a * c) * 1 <= 1 * (b * e)
      BY <1>7, <3>1, <3>2, IsWorth, OneOfOne, LeqWorth
    <3> QED BY <1>2, <3>3
  <2>4. PICK g \in Nat, k \in Nat : g = a * c /\ k = b * e
    BY <1>2
  <2>5. y = g * C1 /\ x = k * E1
    <3>1. a * (C1 * c) = (a * c) * C1 /\ b * (E1 * e) = (b * e) * E1
      BY <1>2
    <3> QED BY <1>5, <2>2, <2>4, <3>1
  <2>6. g * C1 <= k * C1 /\ k * C1 <= k * E1
    BY <2>2, <2>3, <2>4
  <2> QED BY <2>5, <2>6
<1> QED BY <1>5, <1>6, <1>7

LEMMA LookupsAre ==
  ASSUME NEW m, IsModel(m), NEW n \in Nat, n > 0
  PROVE  \E x \in Nat, y \in Nat :
           /\ x > 0 /\ y > 0 /\ Is(Lookups(n, m), x, y)
           /\ Leq(Retrievability(m, 1), One) /\ Leq(m.rho, One) => n * y <= x
<1>1. PICK ps : ps = [i \in 1..n |-> Over(One, Retrievability(m, i))]
  OBVIOUS
<1>2. ASSUME NEW i \in 1..n
      PROVE  \E x \in Nat, y \in Nat :
               /\ x > 0 /\ y > 0 /\ Is(ps[i], x, y)
               /\ Leq(Retrievability(m, 1), One) /\ Leq(m.rho, One) => y <= x
  <2>1. i \in Nat /\ i > 0 /\ ps[i] = Over(One, Retrievability(m, i))
    BY <1>1, <1>2
  <2> QED BY <2>1, LookupIs
<1>3. ps \in [1..n -> Fraction]
  <2>1. \A i \in 1..n : ps[i] \in Fraction
    BY <1>2, IsCompared
  <2> QED BY <1>1, <2>1
<1>4. PICK h : IsTotal(h, ps, n) /\ Total(ps) = h[n]
  BY <1>3, TotalRuns
<1>5. h[0] = Zero /\ \A k \in 1..n : h[k] = Plus(h[k - 1], ps[k])
  BY <1>4 DEF IsTotal
<1> DEFINE SumsTo(k) ==
             \E x \in Nat, y \in Nat :
               /\ (k > 0 => x > 0) /\ y > 0 /\ Is(h[k], x, y)
               /\ Leq(Retrievability(m, 1), One) /\ Leq(m.rho, One) => k * y <= x
           K == {k \in Nat : k <= n => SumsTo(k)}
<1>6. 0 \in K
  <2>1. Is(h[0], 0, 1)
    BY <1>5, WholeIs DEF Zero
  <2>2. 0 * 1 <= 0 /\ ~(0 > 0) /\ 1 > 0 /\ 0 \in Nat /\ 1 \in Nat
    OBVIOUS
  <2> QED BY <2>1, <2>2
<1>7. ASSUME NEW k \in Nat, k \in K PROVE k + 1 \in K
  <2> SUFFICES ASSUME k + 1 <= n PROVE SumsTo(k + 1)
    OBVIOUS
  <2>1. k + 1 \in 1..n /\ (k + 1) - 1 = k /\ k <= n
    OBVIOUS
  <2>2. PICK x \in Nat, y \in Nat :
          /\ y > 0 /\ Is(h[k], x, y)
          /\ Leq(Retrievability(m, 1), One) /\ Leq(m.rho, One) => k * y <= x
    BY <1>7, <2>1
  <2>3. PICK w \in Nat, z \in Nat :
          /\ w > 0 /\ z > 0 /\ Is(ps[k + 1], w, z)
          /\ Leq(Retrievability(m, 1), One) /\ Leq(m.rho, One) => z <= w
    BY <1>2, <2>1
  <2>4. Is(h[k + 1], x * z + w * y, y * z)
    <3>1. h[k + 1] = Plus(h[k], ps[k + 1])
      BY <1>5, <2>1
    <3> QED BY <2>2, <2>3, <3>1, IsWorth, PlusWorth
  <2>5. x * z + w * y \in Nat /\ x * z + w * y > 0 /\ y * z \in Nat /\ y * z > 0
    <3>1. x * z \in Nat /\ w * y \in Nat /\ w * y > 0
      BY <2>2, <2>3
    <3>2. y * z \in Nat /\ y * z > 0
      BY <2>2, <2>3
    <3> QED BY <3>1, <3>2
  <2>6. ASSUME Leq(Retrievability(m, 1), One), Leq(m.rho, One) PROVE (k + 1) * (y * z) <= x * z + w * y
    <3>1. k * y <= x /\ z <= w
      BY <2>2, <2>3, <2>6
    <3>2. PICK g \in Nat : g = k * y
      OBVIOUS
    <3>3. g * z <= x * z /\ y * z <= w * y
      BY <2>2, <2>3, <3>1, <3>2
    <3>4. (k + 1) * (y * z) = (k * y) * z + y * z
      OBVIOUS
    <3> QED BY <3>2, <3>3, <3>4
  <2> QED BY <2>4, <2>5, <2>6
<1>8. n \in K
  <2> HIDE DEF K
  <2> QED BY <1>6, <1>7, Stepping
<1>9. Lookups(n, m) = h[n]
  BY <1>1, <1>4 DEF Lookups
<1> QED BY <1>8, <1>9

LEMMA RatioOfRatios ==
  ASSUME NEW p, NEW p1 \in Nat, NEW p2, p1 > 0, Worth(p, p1, p2),
         NEW q, NEW q1 \in Nat, NEW q2, q1 > 0, Worth(q, q1, q2),
         NEW r, NEW r1 \in Nat, NEW r2, r1 > 0, Worth(r, r1, r2),
         NEW s, NEW s1 \in Nat, NEW s2, s1 > 0, Worth(s, s1, s2)
  PROVE  Over(Over(p, q), Over(r, s)) = Over(Over(s, r), Over(q, p))
<1>1. /\ p2 \in Nat /\ p2 > 0 /\ q2 \in Nat /\ q2 > 0 /\ r2 \in Nat /\ r2 > 0 /\ s2 \in Nat /\ s2 > 0
  BY DEF Worth
<1>2. /\ Worth(Over(p, q), p1 * q2, p2 * q1) /\ Worth(Over(r, s), r1 * s2, r2 * s1)
      /\ Worth(Over(s, r), s1 * r2, s2 * r1) /\ Worth(Over(q, p), q1 * p2, q2 * p1)
  BY OverWorth, IsWorth
<1>3. PICK a \in Nat, b \in Nat, c \in Nat, d \in Nat :
        a = p1 * q2 /\ b = p2 * q1 /\ c = r1 * s2 /\ d = r2 * s1 /\ a > 0 /\ b > 0 /\ c > 0 /\ d > 0
  <2>1. p1 * q2 \in Nat /\ p2 * q1 \in Nat /\ r1 * s2 \in Nat /\ r2 * s1 \in Nat
    BY <1>1
  <2>2. p1 * q2 > 0 /\ p2 * q1 > 0
    BY <1>1
  <2>3. r1 * s2 > 0 /\ r2 * s1 > 0
    BY <1>1
  <2> QED BY <2>1, <2>2, <2>3
<1>4. q2 * p1 = a /\ q1 * p2 = b /\ s2 * r1 = c /\ s1 * r2 = d
  BY <1>1, <1>3
<1>5. Is(Over(Over(p, q), Over(r, s)), a * d, b * c) /\ Is(Over(Over(s, r), Over(q, p)), d * a, c * b)
  <2>1. Worth(Over(p, q), a, b) /\ Worth(Over(r, s), c, d) /\ Worth(Over(s, r), d, c) /\ Worth(Over(q, p), b, a)
    BY <1>2, <1>3, <1>4
  <2> QED BY <1>3, <2>1, OverWorth
<1>6. (a * d) * (c * b) = (d * a) * (b * c)
  OBVIOUS
<1> QED BY <1>5, <1>6, SameFraction

LEMMA CostsHoldFor ==
  ASSUME NEW m, IsModel(m), NEW d \in Nat, d > 0
  PROVE  /\ Leq(Retrievability(m, 1), One) /\ Leq(m.rho, One) =>
              Leq(One, TokenCostRatio(d, m, 2)) /\ SimilarityUsefulSignal(d, m, 2) = Whole(2 * d)
         /\ StructuredUsefulSignal(d, 2) = Whole(2 * d)
         /\ ReturnRatio(d, m, 2) = CostRatio(d, m, 2)
         /\ NetValueGain(d, m, Whole(3), Times(Whole(3), Gap(d, m))) = Zero
<1>1. PICK x \in Nat, y \in Nat :
        /\ x > 0 /\ y > 0 /\ Is(Lookups(d, m), x, y)
        /\ Leq(Retrievability(m, 1), One) /\ Leq(m.rho, One) => d * y <= x
  BY LookupsAre
<1>2. Worth(Whole(2), 2, 1) /\ Worth(Whole(d), d, 1) /\ Worth(Whole(2 * d), 2 * d, 1) /\ Worth(Whole(3), 3, 1)
  <2>1. 2 \in Int /\ 3 \in Int /\ d \in Int /\ 2 * d \in Int
    OBVIOUS
  <2> QED BY <2>1, WholeIs, IsWorth
<1>3. PICK w \in Nat : w = 2 * x /\ w > 0
  <2>1. 2 * x \in Nat /\ 2 * x > 0
    BY <1>1
  <2> QED BY <2>1
<1>4. Worth(SimilarityTokens(d, m, 2), w, y)
  <2>1. Is(SimilarityTokens(d, m, 2), 2 * x, 1 * y)
    BY <1>1, <1>2, IsWorth, TimesWorth DEF SimilarityTokens
  <2>2. 1 * y = y
    BY <1>1
  <2> QED BY <1>3, <2>1, <2>2, IsWorth
<1>5. StructuredTokens(d, 2) = Whole(2 * d) /\ 2 * d \in Nat /\ 2 * d > 0
  BY DEF StructuredTokens
<1>6. ASSUME Leq(Retrievability(m, 1), One), Leq(m.rho, One) PROVE Leq(One, TokenCostRatio(d, m, 2))
  <2>1. Worth(TokenCostRatio(d, m, 2), w * 1, y * (2 * d))
    BY <1>2, <1>3, <1>4, <1>5, OverWorth, IsWorth DEF TokenCostRatio
  <2>2. 1 * (y * (2 * d)) <= (w * 1) * 1
    <3>1. d * y <= x
      BY <1>1, <1>6
    <3>2. PICK g \in Nat : g = d * y
      OBVIOUS
    <3>3. 1 * (y * (2 * d)) = 2 * (d * y)
      OBVIOUS
    <3> QED BY <1>3, <3>1, <3>2, <3>3
  <2> QED BY <2>1, <2>2, OneOfOne, LeqWorth
<1>7. ASSUME Leq(Retrievability(m, 1), One), Leq(m.rho, One) PROVE SimilarityUsefulSignal(d, m, 2) = Whole(2 * d)
  <2>1. PICK g \in Nat : g = d * y /\ g <= x
    BY <1>1, <1>7
  <2>2. Is(SimilarityPrecision(d, m), g, x)
    <3>1. Is(SimilarityPrecision(d, m), d * y, 1 * x)
      BY <1>1, <1>2, OverWorth, IsWorth DEF SimilarityPrecision
    <3>2. 1 * x = x
      BY <1>1
    <3> QED BY <2>1, <3>1, <3>2
  <2>3. SurvivalOK(SimilarityPrecision(d, m))
    <3>1. g * 1 <= 1 * x /\ 0 * x <= g * 1
      BY <2>1
    <3> QED BY <2>2, <3>1, IsWorth, OneOfOne, LeqWorth DEF SurvivalOK
  <2>4. ~Less(SimilarityTokens(d, m, 2), Zero)
    <3>1. ~(w * 1 < 0 * y)
      BY <1>3
    <3> QED BY <1>4, <3>1, OneOfOne, LessWorth
  <2>5. SimilarityUsefulSignal(d, m, 2) = Times(SimilarityTokens(d, m, 2), SimilarityPrecision(d, m))
    BY <2>3, <2>4 DEF SimilarityUsefulSignal, UsefulSignal
  <2>6. Is(SimilarityUsefulSignal(d, m, 2), w * g, y * x)
    BY <1>4, <2>2, <2>5, IsWorth, TimesWorth
  <2>7. (w * g) * 1 = (2 * d) * (y * x)
    <3>1. ((2 * x) * (d * y)) * 1 = (2 * d) * (y * x)
      OBVIOUS
    <3> QED BY <1>3, <2>1, <3>1
  <2> QED BY <1>5, <2>6, <2>7, WholeIs, SameFraction
<1>8. StructuredUsefulSignal(d, 2) = Whole(2 * d)
  <2>1. SurvivalOK(One)
    <3>1. 1 * 1 <= 1 * 1
      OBVIOUS
    <3> QED BY <3>1, OneOfOne, LeqWorth DEF SurvivalOK
  <2>2. ~Less(Whole(2 * d), Zero)
    <3>1. ~((2 * d) * 1 < 0 * 1)
      BY <1>5
    <3> QED BY <1>2, <3>1, OneOfOne, LessWorth
  <2>3. StructuredUsefulSignal(d, 2) = Times(Whole(2 * d), One)
    BY <1>5, <2>1, <2>2 DEF StructuredUsefulSignal, UsefulSignal
  <2>4. Is(StructuredUsefulSignal(d, 2), (2 * d) * 1, 1 * 1)
    BY <1>2, <2>3, OneOfOne, TimesWorth
  <2>5. ((2 * d) * 1) * 1 = (2 * d) * (1 * 1)
    OBVIOUS
  <2> QED BY <1>5, <2>4, <2>5, WholeIs, SameFraction
<1>9. PICK S1, S2, U, V : Recovers(m, d, S1, S2, U, V)
  BY RecoversSo
<1>10. SimilarityRecovery(d, m) = Simil(m, d) /\ StructuredRecovery(d, m.q) = Power(m.q, d)
  BY DEF SimilarityRecovery, Simil, Tri, StructuredRecovery, IsModel
<1>11. ReturnRatio(d, m, 2) = CostRatio(d, m, 2)
  <2>1. /\ S1 \in Nat /\ S1 > 0 /\ Worth(SimilarityRecovery(d, m), S1, S2)
        /\ U \in Nat /\ U > 0 /\ Worth(StructuredRecovery(d, m.q), U, V)
    BY <1>9, <1>10, IsWorth DEF Recovers
  <2>2. Worth(StructuredTokens(d, 2), 2 * d, 1)
    BY <1>2, <1>5
  <2>3. Over(Over(SimilarityTokens(d, m, 2), SimilarityRecovery(d, m)),
             Over(StructuredTokens(d, 2), StructuredRecovery(d, m.q)))
          = Over(Over(StructuredRecovery(d, m.q), StructuredTokens(d, 2)),
                 Over(SimilarityRecovery(d, m), SimilarityTokens(d, m, 2)))
    BY <1>3, <1>4, <1>5, <2>1, <2>2, RatioOfRatios
  <2> QED BY <2>3, Zenon DEF ReturnRatio, CostRatio, SimilarityCost, StructuredCost, SimilarityReturn, StructuredReturn
<1>12. NetValueGain(d, m, Whole(3), Times(Whole(3), Gap(d, m))) = Zero
  <2>1. Gap(d, m) \in Fraction /\ Whole(3) \in Fraction
    BY <1>2, <1>9, IsCompared DEF Recovers, Worth
  <2>2. Times(Whole(3), Gap(d, m)) \in Fraction
    BY <2>1, FractionsClosed
  <2> QED BY <2>2, Cancels, Zenon DEF NetValueGain
<1> QED BY <1>6, <1>7, <1>8, <1>11, <1>12

LEMMA ShareIs ==
  /\ OverheadRatio(Times(Whole(3), Frac(1, 8)), Whole(3)) = Frac(1, 8)
  /\ ~Less(Frac(1, 8), Zero)
<1>1. Is(Frac(1, 8), 1, 8)
  BY FracIs
<1>2. Worth(Frac(1, 8), 1, 8) /\ Worth(Whole(3), 3, 1)
  BY <1>1, 3 \in Int, WholeIs, IsWorth
<1>3. PICK p : p = Times(Whole(3), Frac(1, 8))
  OBVIOUS
<1>4. Worth(p, 3 * 1, 1 * 8)
  BY <1>2, <1>3, TimesWorth, IsWorth
<1>5. ~Leq(Whole(3), Zero) /\ ~Less(p, Zero) /\ ~Less(Frac(1, 8), Zero)
  <2>1. ~(3 * 1 <= 0 * 1) /\ ~((3 * 1) * 1 < 0 * (1 * 8)) /\ ~(1 * 1 < 0 * 8)
    OBVIOUS
  <2> QED BY <1>2, <1>4, <2>1, OneOfOne, LeqWorth, LessWorth
<1>6. Is(Over(p, Whole(3)), (3 * 1) * 1, (1 * 8) * 3)
  BY <1>2, <1>4, 3 \in Nat, 3 > 0, OverWorth
<1>7. ((3 * 1) * 1) * 8 = 1 * ((1 * 8) * 3)
  OBVIOUS
<1>8. Over(p, Whole(3)) = Frac(1, 8)
  BY <1>1, <1>6, <1>7, SameFraction
<1> QED BY <1>3, <1>5, <1>8 DEF OverheadRatio

-----------------------------------------------------------------------------
(* Chains.                                                                   *)

LEMMA Sign ==
  ASSUME NEW p \in Fraction, NEW q \in Fraction
  PROVE  Less(Minus(p, q), Zero) <=> Less(p, q)
<1>1. PICK a \in Int, b \in Nat : p = <<a, b>> /\ b > 0
  BY FractionTerms
<1>2. PICK c \in Int, d \in Nat : q = <<c, d>> /\ d > 0
  BY FractionTerms
<1>3. Worth(p, a, b) /\ Worth(q, c, d)
  BY <1>1, <1>2 DEF Worth
<1>4. Worth(Minus(p, q), a * d - c * b, b * d)
  BY <1>3, MinusWorth, IsWorth
<1>5. Less(Minus(p, q), Zero) <=> (a * d - c * b) * 1 < 0 * (b * d)
  BY <1>4, OneOfOne, LessWorth
<1>6. Less(p, q) <=> a * d < c * b
  BY <1>3, LessWorth
<1>7. PICK X \in Int, Y \in Int : X = a * d /\ Y = c * b
  OBVIOUS
<1>8. (a * d - c * b) * 1 < 0 * (b * d) <=> X < Y
  <2>1. (a * d - c * b) * 1 = X - Y /\ 0 * (b * d) = 0
    BY <1>7
  <2> QED BY <1>7, <2>1
<1> QED BY <1>5, <1>6, <1>7, <1>8

LEMMA WholePower ==
  ASSUME NEW n \in Nat
  PROVE  Worth(Power(One, n), 1, 1)
<1>1. Is(Power(One, n), Pw(1, n), Pw(1, n))
  BY OneOfOne, PowerIs, 1 \in Nat
<1>2. PICK x \in Nat : x = Pw(1, n) /\ x > 0
  BY PwPositive, 1 \in Nat, 1 > 0
<1>3. x * 1 = 1 * x
  OBVIOUS
<1>4. Is(Power(One, n), 1, 1)
  BY <1>1, <1>2, <1>3, IsAlso
<1> QED BY <1>4, IsWorth

LEMMA PowerOfNone ==
  ASSUME NEW p \in Fraction
  PROVE  Power(p, 0) = One
<1>1. PICK h : h[0] = One /\ Power(p, 0) = h[0]
  BY PowerRuns, 0 \in Nat
<1> QED BY <1>1

LEMMA SupersessionIs ==
  ASSUME NEW m, IsModel(m), NEW n \in Nat, n > 0
  PROVE  StructuredSupersession(n, m.q) = Power(m.q, n - 1)
<1>1. EdgeHops(n) = n - 1 /\ n - 1 \in Nat /\ Probability(m.q) /\ m.q \in Fraction
  BY DEF EdgeHops, IsModel
<1>2. CASE n = 1
  <2>1. n - 1 = 0
    BY <1>2
  <2> QED BY <1>1, <2>1, PowerOfNone DEF StructuredSupersession
<1>3. CASE n > 1
  <2>1. ~(n - 1 < 1) /\ n - 1 # 0
    BY <1>3
  <2> QED BY <1>1, <2>1 DEF StructuredSupersession, StructuredRecovery
<1> QED BY <1>2, <1>3

LEMMA ChainsHoldFor ==
  ASSUME NEW m, IsModel(m), NEW n \in Nat, n > 0
  PROVE  LET r == SupersessionRecovery(n, m.q, None)
         IN  /\ n > 1 => r.struct = StructuredRecovery(n - 1, m.q)
             /\ n = 1 => r.struct = One /\ r.advantage = Zero
             /\ r.wins <=> ~Less(r.advantage, Zero)
             /\ m.q = One => r.wins
             /\ LET base == SimilarityRecovery(n, m)
                IN  Leq(base, One) => DegradeRecovery(base, m.q, n).degraded = ScatteredRecovery(n, m, m.q, n)
             /\ \A i \in 1..n : Leq(FactorCurve(m.q, n)[i + 1], FactorCurve(m.q, n)[i])
<1>1. EdgeHops(n) = n - 1 /\ n - 1 \in Nat /\ Probability(m.q) /\ m.q \in Fraction
  BY DEF EdgeHops, IsModel
<1>2. PICK s, t : s = StructuredSupersession(n, m.q) /\ t = SimilaritySupersession(n, None)
  OBVIOUS
<1>3. Is(t, 1, n)
  BY <1>2, FracIs DEF SimilaritySupersession
<1>4. n > 1 => s = StructuredRecovery(n - 1, m.q)
  BY <1>1, <1>2 DEF StructuredSupersession
<1>5. n = 1 => s = One
  BY <1>1, <1>2 DEF StructuredSupersession
<1>6. s = Power(m.q, n - 1)
  BY <1>2, SupersessionIs
<1>7. s \in Fraction /\ t \in Fraction
  BY <1>1, <1>3, <1>6, PowerBelow, IsCompared
<1>8. PICK r : r = SupersessionRecovery(n, m.q, None)
  OBVIOUS
<1>9. r.struct = s /\ r.sim = t /\ r.advantage = Minus(s, t) /\ r.wins = Leq(t, s)
  BY <1>2, <1>8 DEF SupersessionRecovery, Superseded
<1>10. n = 1 => r.advantage = Zero
  <2> SUFFICES ASSUME n = 1 PROVE Minus(s, t) = Zero
    BY <1>9
  <2>1. t = One
    <3>1. 1 * 1 = 1 * n
      OBVIOUS
    <3> QED BY <1>3, <3>1, SameFraction, 1 \in Int, WholeIs DEF One
  <2> QED BY <1>5, <1>7, <2>1, Cancels
<1>11. r.wins <=> ~Less(r.advantage, Zero)
  BY <1>7, <1>9, Sign, LessLeq
<1>12. m.q = One => r.wins
  <2> SUFFICES ASSUME m.q = One PROVE Leq(t, s)
    BY <1>9
  <2>1. Worth(s, 1, 1)
    BY <1>1, <1>6, WholePower
  <2>2. 1 * 1 <= 1 * n
    OBVIOUS
  <2> QED BY <1>3, <2>1, <2>2, IsWorth, LeqWorth
<1>13. ASSUME Leq(SimilarityRecovery(n, m), One)
       PROVE  DegradeRecovery(SimilarityRecovery(n, m), m.q, n).degraded = ScatteredRecovery(n, m, m.q, n)
  <2>1. PICK S1, S2, U, V : Recovers(m, n, S1, S2, U, V)
    BY RecoversSo
  <2>2. SimilarityRecovery(n, m) = Simil(m, n)
    BY DEF SimilarityRecovery, Simil, Tri
  <2>3. Leq(Zero, SimilarityRecovery(n, m))
    BY <2>1, <2>2, IsCompared DEF Recovers
  <2>4. SurvivalOK(SimilarityRecovery(n, m))
    BY <1>13, <2>3 DEF SurvivalOK
  <2> QED BY <2>4 DEF DegradeRecovery, ScatteredRecovery
<1>14. ASSUME NEW i \in 1..n PROVE Leq(FactorCurve(m.q, n)[i + 1], FactorCurve(m.q, n)[i])
  <2>1. i \in 1..(n + 1) /\ i + 1 \in 1..(n + 1) /\ i - 1 \in Nat /\ (i + 1) - 1 = i /\ (i - 1) + 1 = i
    OBVIOUS
  <2>2. ~(i < 0) /\ ~(i - 1 < 0)
    OBVIOUS
  <2>3. FactorCurve(m.q, n)[i + 1] = Power(m.q, i) /\ FactorCurve(m.q, n)[i] = Power(m.q, i - 1)
    BY <1>1, <2>1, <2>2 DEF FactorCurve, ScatterFactor
  <2> QED BY <2>1, <2>3, PowerBelow
<1> QED BY <1>4, <1>5, <1>8, <1>9, <1>10, <1>11, <1>12, <1>13, <1>14
=============================================================================
