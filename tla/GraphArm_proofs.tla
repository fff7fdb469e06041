---------------------------- MODULE GraphArm_proofs ----------------------------
(***************************************************************************)
(* Proofs about GraphArm, for every corpus, every policy and any number of  *)
(* writes and retrieves.                                                    *)
(***************************************************************************)
EXTENDS GraphArm, FiniteSetTheorems, SequenceTheorems, WellFoundedInduction, TLAPS

-----------------------------------------------------------------------------
(* Induction and recursion, stated of sets of numbers.                       *)

LEMMA Least ==
  ASSUME NEW T \in SUBSET Nat, T # {}
  PROVE  \E x \in T : \A y \in T : x <= y
<1> DEFINE R == {ss \in Nat \X Nat : ss[1] < ss[2]}
<1>1. IsWellFoundedOn(R, Nat)
  BY NatLessThanWellFounded, Zenon DEF OpToRel
<1>2. \E x \in T : \A y \in T : ~ (<<y, x>> \in R)
  <2> HIDE DEF R
  <2> QED BY <1>1, WFMin
<1>3. PICK x \in T : \A y \in T : ~ (<<y, x>> \in R)
  BY <1>2
<1>4. \A y \in T : ~ (y < x)
  BY <1>3
<1> QED BY <1>4

LEMMA Induction ==
  ASSUME NEW S, 0 \in S, \A n \in Nat : n \in S => n + 1 \in S
  PROVE  Nat \subseteq S
<1> SUFFICES ASSUME NEW k \in Nat, k \notin S PROVE FALSE
  OBVIOUS
<1> DEFINE T == {n \in Nat : n \notin S}
<1>1. PICK x \in T : \A y \in T : x <= y
  <2>1. T \in SUBSET Nat /\ T # {}
    OBVIOUS
  <2> HIDE DEF T
  <2> QED BY <2>1, Least
<1>2. x # 0 /\ x \in Nat /\ x \notin S
  OBVIOUS
<1>3. x - 1 \in Nat
  BY <1>2
<1>4. x - 1 \in S
  BY <1>1, <1>2, <1>3
<1>5. (x - 1) + 1 \in S
  BY <1>3, <1>4
<1> QED BY <1>2, <1>5

\* f follows a recursion over the n numbers after m, from b by the step g.
Follows(f, m, n, T, b, g) ==
  /\ f \in [m..(m + n) -> T]
  /\ f[m] = b
  /\ \A i \in (m + 1)..(m + n) : f[i] = g[<<i, f[i - 1]>>]

\* Every such recursion can be followed.
LEMMA Recursion ==
  ASSUME NEW m \in Nat, NEW T, NEW b \in T, NEW g \in [Nat \X T -> T], NEW n \in Nat
  PROVE  \E f : Follows(f, m, n, T, b, g)
<1> DEFINE Solves(f, k) == f[m] = b /\ \A i \in (m + 1)..(m + k) : f[i] = g[<<i, f[i - 1]>>]
           S == {k \in Nat : \E f \in [m..(m + k) -> T] : Solves(f, k)}
<1>1. 0 \in S
  <2> DEFINE f == [i \in m..(m + 0) |-> b]
  <2>1. f \in [m..(m + 0) -> T] /\ f[m] = b /\ (m + 1)..(m + 0) = {}
    OBVIOUS
  <2>2. Solves(f, 0)
    BY <2>1
  <2> HIDE DEF f, Solves
  <2> QED BY <2>1, <2>2
<1>2. \A k \in Nat : k \in S => k + 1 \in S
  <2> SUFFICES ASSUME NEW k \in Nat, k \in S PROVE k + 1 \in S
    OBVIOUS
  <2>1. PICK f \in [m..(m + k) -> T] : f[m] = b /\ \A i \in (m + 1)..(m + k) : f[i] = g[<<i, f[i - 1]>>]
    OBVIOUS
  <2> DEFINE e == [i \in m..(m + (k + 1)) |-> IF i = m + (k + 1) THEN g[<<i, f[m + k]>>] ELSE f[i]]
  <2>2. g[<<m + (k + 1), f[m + k]>>] \in T
    <3>1. m + k \in m..(m + k) /\ m + (k + 1) \in Nat
      OBVIOUS
    <3>2. f[m + k] \in T
      BY <3>1
    <3> QED BY <3>1, <3>2
  <2>3. e \in [m..(m + (k + 1)) -> T]
    <3>1. \A i \in m..(m + (k + 1)) : i # m + (k + 1) => i \in m..(m + k)
      OBVIOUS
    <3>2. \A i \in m..(m + (k + 1)) : e[i] \in T
      BY <2>2, <3>1
    <3> QED BY <3>2
  <2>4. /\ e[m + (k + 1)] = g[<<m + (k + 1), f[m + k]>>]
        /\ \A i \in m..(m + k) : e[i] = f[i]
    OBVIOUS
  <2> HIDE DEF e
  <2>5. e[m] = b
    <3>1. m \in m..(m + k)
      OBVIOUS
    <3> QED BY <2>1, <2>4, <3>1
  <2>6. \A i \in (m + 1)..(m + (k + 1)) : e[i] = g[<<i, e[i - 1]>>]
    <3> SUFFICES ASSUME NEW i \in (m + 1)..(m + (k + 1)) PROVE e[i] = g[<<i, e[i - 1]>>]
      OBVIOUS
    <3>1. i - 1 \in m..(m + k) /\ (i = m + (k + 1) => i - 1 = m + k)
          /\ (i # m + (k + 1) => i \in (m + 1)..(m + k) /\ i \in m..(m + k))
      OBVIOUS
    <3>2. e[i - 1] = f[i - 1]
      BY <2>4, <3>1
    <3>3. CASE i = m + (k + 1)
      BY <2>4, <3>1, <3>2, <3>3
    <3>4. CASE i # m + (k + 1)
      BY <2>1, <2>4, <3>1, <3>2, <3>4
    <3> QED BY <3>3, <3>4
  <2>7. k + 1 \in Nat /\ Solves(e, k + 1)
    BY <2>5, <2>6
  <2> HIDE DEF Solves
  <2>8. \E h \in [m..(m + (k + 1)) -> T] : Solves(h, k + 1)
    BY <2>3, <2>7
  <2> QED BY <2>7, <2>8
<1> HIDE DEF S
<1>3. n \in S
  BY <1>1, <1>2, Induction
<1>4. \E f \in [m..(m + n) -> T] : Solves(f, n)
  BY <1>3 DEF S
<1> QED BY <1>4 DEF Follows

\* What such a recursion keeps, at every number.
LEMMA Kept ==
  ASSUME NEW m \in Nat, NEW T, NEW f, NEW n \in Nat, f[m] \in T,
         \A i \in (m + 1)..(m + n) : f[i - 1] \in T => f[i] \in T
  PROVE  \A i \in m..(m + n) : f[i] \in T
<1> DEFINE S == {k \in Nat : k <= n => f[m + k] \in T}
<1>1. 0 \in S
  OBVIOUS
<1>2. \A k \in Nat : k \in S => k + 1 \in S
  <2> SUFFICES ASSUME NEW k \in Nat, k \in S, k + 1 <= n PROVE f[m + (k + 1)] \in T
    OBVIOUS
  <2>1. f[m + k] \in T
    OBVIOUS
  <2>2. m + (k + 1) \in (m + 1)..(m + n) /\ (m + (k + 1)) - 1 = m + k
    OBVIOUS
  <2> QED BY <2>1, <2>2
<1> HIDE DEF S
<1>3. Nat \subseteq S
  BY <1>1, <1>2, Induction
<1>4. \A i \in m..(m + n) : i - m \in Nat /\ i - m <= n /\ m + (i - m) = i
  OBVIOUS
<1> QED BY <1>3, <1>4 DEF S

-----------------------------------------------------------------------------
(* The operators of the model.                                               *)

IsFlat(s, f) == f = [i \in 1..Len(s) |-> IF i = 1 THEN s[i] ELSE f[i - 1] \o s[i]]

LEMMA FlatExists ==
  ASSUME NEW S, NEW s \in Seq(Seq(S)), s # <<>>
  PROVE  \E f : IsFlat(s, f)
<1> DEFINE g == [p \in Nat \X Seq(S) |-> IF p[1] \in DOMAIN s THEN p[2] \o s[p[1]] ELSE p[2]]
           n == Len(s)
<1>1. n \in Nat /\ n >= 1 /\ DOMAIN s = 1..n /\ \A i \in 1..n : s[i] \in Seq(S)
  OBVIOUS
<1>2. g \in [Nat \X Seq(S) -> Seq(S)]
  <2>1. \A p \in Nat \X Seq(S) : (IF p[1] \in DOMAIN s THEN p[2] \o s[p[1]] ELSE p[2]) \in Seq(S)
    <3> SUFFICES ASSUME NEW i \in Nat, NEW t \in Seq(S)
                 PROVE  (IF i \in DOMAIN s THEN t \o s[i] ELSE t) \in Seq(S)
      OBVIOUS
    <3>1. i \in DOMAIN s => t \o s[i] \in Seq(S)
      BY <1>1, ConcatProperties
    <3> QED BY <3>1
  <2> QED BY <2>1
<1>3. ASSUME NEW i \in 1..n, NEW t \in Seq(S) PROVE g[<<i, t>>] = t \o s[i]
  <2>1. i \in Nat /\ i \in DOMAIN s
    BY <1>1
  <2>2. <<i, t>> \in Nat \X Seq(S) /\ <<i, t>>[1] = i /\ <<i, t>>[2] = t
    BY <2>1
  <2>3. g[<<i, t>>] = IF <<i, t>>[1] \in DOMAIN s THEN <<i, t>>[2] \o s[<<i, t>>[1]] ELSE <<i, t>>[2]
    BY <2>2, Zenon
  <2> HIDE DEF g, n
  <2> QED BY <2>1, <2>2, <2>3
<1> HIDE DEF g, n
<1>4. PICK f \in [1..(1 + (n - 1)) -> Seq(S)] :
        f[1] = s[1] /\ \A i \in (1 + 1)..(1 + (n - 1)) : f[i] = g[<<i, f[i - 1]>>]
  <2> DEFINE T == Seq(S)
             start == s[1]
             first == 1
             last == n - 1
  <2>1. first \in Nat /\ start \in T /\ g \in [Nat \X T -> T] /\ last \in Nat
    BY <1>1, <1>2
  <2> HIDE DEF T, start, first, last
  <2>2. PICK f : Follows(f, first, last, T, start, g)
    BY <2>1, Recursion
  <2> QED BY <2>2 DEF T, start, first, last, Follows
<1>5. f \in [1..n -> Seq(S)] /\ \A i \in 2..n : f[i] = g[<<i, f[i - 1]>>]
  <2>1. 1 + (n - 1) = n /\ 1 + 1 = 2
    BY <1>1
  <2> QED BY <1>4, <2>1
<1> DEFINE body(i) == IF i = 1 THEN s[i] ELSE f[i - 1] \o s[i]
<1>6. \A i \in 1..n : f[i] = body(i)
  <2> SUFFICES ASSUME NEW i \in 1..n, i # 1 PROVE f[i] = f[i - 1] \o s[i]
    BY <1>4
  <2>1. i \in 2..n /\ i - 1 \in 1..n
    BY <1>1
  <2>2. f[i - 1] \in Seq(S)
    BY <1>5, <2>1
  <2> QED BY <1>3, <1>5, <2>1, <2>2
<1> HIDE DEF body
<1>7. f = [i \in 1..n |-> body(i)]
  BY <1>5, <1>6
<1> QED BY <1>7 DEF IsFlat, body, n

\* Sequences with elements in a set make, put behind one another, one such.
LEMMA FlatType ==
  ASSUME NEW S, NEW s \in Seq(Seq(S))
  PROVE  FlattenSeq(s) \in Seq(S)
<1> DEFINE f == CHOOSE f : IsFlat(s, f)
           n == Len(s)
<1>1. FlattenSeq(s) = IF n = 0 THEN s ELSE f[n]
  BY DEF FlattenSeq, IsFlat
<1> HIDE DEF f
<1>2. n \in Nat /\ \A i \in 1..n : s[i] \in Seq(S)
  OBVIOUS
<1>3. CASE n = 0
  <2>1. s = <<>>
    BY <1>3
  <2>2. FlattenSeq(s) = <<>>
    BY <1>1, <1>3, <2>1
  <2> QED BY <2>2, EmptySeq
<1>4. CASE n # 0
  <2>1. IsFlat(s, f)
    <3>1. s # <<>>
      BY <1>4
    <3>2. \E h : IsFlat(s, h)
      BY <3>1, FlatExists
    <3> QED BY <3>2 DEF f
  <2> HIDE DEF n
  <2> DEFINE body(i) == IF i = 1 THEN s[i] ELSE f[i - 1] \o s[i]
  <2>2. f = [i \in 1..n |-> body(i)]
    BY <2>1 DEF IsFlat, n
  <2> HIDE DEF body
  <2>3. \A i \in 1..n : f[i] = body(i)
    BY <2>2
  <2>4. 1 \in 1..n /\ n - 1 \in Nat /\ n \in 1..n /\ 1 + (n - 1) = n
    BY <1>2, <1>4
  <2>5. f[1] \in Seq(S)
    BY <1>2, <2>3, <2>4 DEF body
  <2>6. \A i \in (1 + 1)..n : f[i - 1] \in Seq(S) => f[i] \in Seq(S)
    <3> SUFFICES ASSUME NEW i \in (1 + 1)..n, f[i - 1] \in Seq(S) PROVE f[i] \in Seq(S)
      OBVIOUS
    <3>1. i \in 1..n /\ i # 1
      BY <1>2
    <3>2. f[i] = f[i - 1] \o s[i]
      BY <2>3, <3>1 DEF body
    <3> QED BY <1>2, <3>1, <3>2, ConcatProperties
  <2>7. \A i \in (1 + 1)..(1 + (n - 1)) : f[i - 1] \in Seq(S) => f[i] \in Seq(S)
    BY <2>4, <2>6
  <2>8. \A i \in 1..(1 + (n - 1)) : f[i] \in Seq(S)
    BY <2>4, <2>5, <2>7, Kept
  <2>9. f[n] \in Seq(S)
    BY <2>4, <2>8
  <2> QED BY <1>1, <1>4, <2>9
<1> QED BY <1>3, <1>4

\* The form both uses take: what passes a test, in the order of a list.
LEMMA PickedType ==
  ASSUME NEW S, NEW n \in Nat, NEW p \in [1..n -> Seq(S)]
  PROVE  FlattenSeq(p) \in Seq(S)
<1>1. p \in Seq(Seq(S))
  OBVIOUS
<1> QED BY <1>1, FlatType

\* Sequences of n lists over S.
Lists(n, S) == [1..n -> Seq(S)]

\* Putting one more list behind: the recursion of FlattenSeq, from its end.
LEMMA FlatNext ==
  ASSUME NEW S, NEW n \in Nat, NEW p \in Lists(n + 1, S), NEW q \in Lists(n, S),
         \A i \in 1..n : q[i] = p[i]
  PROVE  FlattenSeq(p) = FlattenSeq(q) \o p[n + 1]
<1> p \in [1..(n + 1) -> Seq(S)] /\ q \in [1..n -> Seq(S)]
  BY DEF Lists
<1> DEFINE f == CHOOSE f : IsFlat(p, f)
           e == CHOOSE e : IsFlat(q, e)
<1>1. /\ p \in Seq(Seq(S)) /\ Len(p) = n + 1 /\ q \in Seq(Seq(S)) /\ Len(q) = n
      /\ n + 1 \in 1..(n + 1) /\ p[n + 1] \in Seq(S) /\ p # <<>>
  OBVIOUS
<1>2. FlattenSeq(p) = f[n + 1]
  <2>1. FlattenSeq(p) = IF Len(p) = 0 THEN p ELSE f[Len(p)]
    BY DEF FlattenSeq, IsFlat
  <2> HIDE DEF f
  <2> QED BY <1>1, <2>1
<1>3. FlattenSeq(q) = IF n = 0 THEN q ELSE e[n]
  <2>1. FlattenSeq(q) = IF Len(q) = 0 THEN q ELSE e[Len(q)]
    BY DEF FlattenSeq, IsFlat
  <2> HIDE DEF e
  <2> QED BY <1>1, <2>1
<1>4. IsFlat(p, f)
  <2>1. \E h : IsFlat(p, h)
    BY <1>1, FlatExists
  <2> QED BY <2>1
<1>5. n # 0 => IsFlat(q, e)
  <2> SUFFICES ASSUME n # 0 PROVE \E h : IsFlat(q, h)
    OBVIOUS
  <2>1. q # <<>>
    BY <1>1
  <2> QED BY <1>1, <2>1, FlatExists
<1> HIDE DEF f, e
<1> DEFINE F(i) == IF i = 1 THEN p[i] ELSE f[i - 1] \o p[i]
           E(i) == IF i = 1 THEN q[i] ELSE e[i - 1] \o q[i]
<1>6. f = [i \in 1..(n + 1) |-> F(i)]
  BY <1>1, <1>4 DEF IsFlat
<1>7. n # 0 => e = [i \in 1..n |-> E(i)]
  BY <1>1, <1>5 DEF IsFlat
<1> HIDE DEF F, E
<1>8. \A i \in 1..(n + 1) : f[i] = F(i)
  BY <1>6
<1>9. n # 0 => \A i \in 1..n : e[i] = E(i)
  BY <1>7
<1>10. ASSUME n # 0 PROVE f[n] = e[n]
  <2> DEFINE T == {k \in Nat : k + 1 <= n => f[k + 1] = e[k + 1]}
  <2>1. 0 \in T
    <3>1. 1 \in 1..n /\ 1 \in 1..(n + 1)
      BY <1>10
    <3> QED BY <1>8, <1>9, <1>10, <3>1 DEF F, E
  <2>2. ASSUME NEW k \in Nat, k \in T PROVE k + 1 \in T
    <3> SUFFICES ASSUME (k + 1) + 1 <= n PROVE f[(k + 1) + 1] = e[(k + 1) + 1]
      OBVIOUS
    <3> DEFINE i == (k + 1) + 1
    <3>1. i \in 1..n /\ i \in 1..(n + 1) /\ i # 1 /\ i - 1 = k + 1 /\ k + 1 <= n
      OBVIOUS
    <3>2. f[i - 1] = e[i - 1] /\ p[i] = q[i]
      BY <2>2, <3>1
    <3> HIDE DEF i
    <3>3. f[i] = f[i - 1] \o p[i] /\ e[i] = e[i - 1] \o q[i]
      BY <1>8, <1>9, <1>10, <3>1 DEF F, E
    <3> QED BY <3>2, <3>3 DEF i
  <2> HIDE DEF T
  <2>3. n - 1 \in Nat
    BY <1>10
  <2>4. n - 1 \in T
    BY <2>1, <2>2, <2>3, Induction
  <2>5. (n - 1) + 1 = n
    OBVIOUS
  <2> QED BY <2>4, <2>5 DEF T
<1>11. CASE n = 0
  <2>1. f[1] = p[1]
    BY <1>8, <1>11 DEF F
  <2>2. q = <<>>
    BY <1>1, <1>11
  <2>3. p[1] \in Seq(S)
    BY <1>11
  <2> QED BY <1>2, <1>3, <1>11, <2>1, <2>2, <2>3, ConcatEmptySeq
<1>12. CASE n # 0
  <2>1. n + 1 # 1 /\ (n + 1) - 1 = n
    BY <1>12
  <2>2. f[n + 1] = f[n] \o p[n + 1]
    BY <1>1, <1>8, <2>1 DEF F
  <2> QED BY <1>2, <1>3, <1>10, <1>12, <2>2
<1> QED BY <1>11, <1>12

LEMMA FlatNone ==
  ASSUME NEW p, p = <<>>
  PROVE  FlattenSeq(p) = <<>>
BY DEF FlattenSeq

\* Nothing is lost.
LEMMA FlatAll ==
  ASSUME NEW S, NEW n \in Nat, NEW p \in Lists(n, S), NEW i \in 1..n, NEW k \in DOMAIN p[i]
  PROVE  \E j \in DOMAIN FlattenSeq(p) : FlattenSeq(p)[j] = p[i][k]
<1> p \in [1..n -> Seq(S)]
  BY DEF Lists
<1> DEFINE upto(m) == [l \in 1..m |-> p[l]]
           found(m) == \E j \in DOMAIN FlattenSeq(upto(m)) : FlattenSeq(upto(m))[j] = p[i][k]
           T == {m \in Nat : i <= m /\ m <= n => found(m)}
<1>1. ASSUME NEW m \in Nat, i <= m + 1, m + 1 <= n, i <= m => found(m)
      PROVE  found(m + 1)
  <2> DEFINE a == upto(m)
             b == upto(m + 1)
             x == FlattenSeq(a)
             y == p[m + 1]
             z == FlattenSeq(b)
  <2>8. a \in Lists(m, S) /\ b \in Lists(m + 1, S)
    BY <1>1 DEF Lists
  <2>1. a \in [1..m -> Seq(S)] /\ b[m + 1] = y
        /\ (\A l \in 1..m : a[l] = b[l]) /\ y \in Seq(S)
    BY <1>1
  <2>2. i <= m => \E j \in DOMAIN x : x[j] = p[i][k]
    BY <1>1
  <2> SUFFICES \E j \in DOMAIN z : z[j] = p[i][k]
    OBVIOUS
  <2> HIDE DEF a, b, y
  <2>3. z = x \o b[m + 1] /\ x \in Seq(S)
    BY <2>1, <2>8, FlatNext, PickedType
  <2>4. z = x \o y
    BY <2>1, <2>3
  <2> HIDE DEF x, z
  <2>5. /\ Len(x) \in Nat /\ Len(y) \in Nat /\ DOMAIN x = 1..Len(x) /\ DOMAIN y = 1..Len(y)
        /\ DOMAIN z = 1..(Len(x) + Len(y))
        /\ \A j \in 1..(Len(x) + Len(y)) : z[j] = IF j <= Len(x) THEN x[j] ELSE y[j - Len(x)]
    BY <2>1, <2>3, <2>4
  <2>6. CASE i <= m
    <3>1. PICK j \in DOMAIN x : x[j] = p[i][k]
      BY <2>2, <2>6
    <3>2. j \in 1..(Len(x) + Len(y)) /\ j <= Len(x)
      BY <2>5
    <3>3. j \in DOMAIN z /\ z[j] = x[j]
      BY <2>5, <3>2
    <3> QED BY <3>1, <3>3
  <2>7. CASE i = m + 1
    <3>1. k \in DOMAIN y /\ y[k] = p[i][k]
      BY <2>7 DEF y
    <3>3. k \in 1..Len(y)
      BY <2>5, <3>1
    <3>4. /\ Len(x) + k \in 1..(Len(x) + Len(y)) /\ ~ (Len(x) + k <= Len(x))
          /\ (Len(x) + k) - Len(x) = k
      <4> DEFINE lx == Len(x)
                 ly == Len(y)
      <4>1. lx \in Nat /\ ly \in Nat /\ k \in 1..ly
        BY <2>5, <3>3
      <4> HIDE DEF lx, ly
      <4>2. lx + k \in 1..(lx + ly) /\ ~ (lx + k <= lx) /\ (lx + k) - lx = k
        BY <4>1
      <4> QED BY <4>2 DEF lx, ly
    <3>2. Len(x) + k \in DOMAIN z /\ z[Len(x) + k] = y[k]
      BY <2>5, <3>4
    <3> QED BY <3>1, <3>2
  <2> QED BY <1>1, <2>6, <2>7
<1> HIDE DEF found
<1>2. 0 \in T
  OBVIOUS
<1>3. ASSUME NEW m \in Nat, m \in T PROVE m + 1 \in T
  <2> SUFFICES ASSUME i <= m + 1, m + 1 <= n PROVE found(m + 1)
    OBVIOUS
  <2>1. i <= m => found(m)
    BY <1>3
  <2> QED BY <1>1, <2>1
<1> HIDE DEF T
<1>4. n \in T
  BY <1>2, <1>3, Induction
<1>5. found(n)
  BY <1>4 DEF T
<1>6. upto(n) = p
  OBVIOUS
<1> QED BY <1>5, <1>6 DEF found

\* f is what FlattenSeq makes of p, one list after another.
Gathers(f, S, n, p) ==
  /\ f \in [0..n -> Seq(S)]
  /\ f[0] = <<>> /\ f[n] = FlattenSeq(p)
  /\ \A m \in 1..n : f[m] = f[m - 1] \o p[m]

LEMMA FlatHistory ==
  ASSUME NEW S, NEW n \in Nat, NEW p \in Lists(n, S)
  PROVE  \E f : Gathers(f, S, n, p)
<1> p \in [1..n -> Seq(S)]
  BY DEF Lists
<1> DEFINE upto(m) == [l \in 1..m |-> p[l]]
           flat(m) == FlattenSeq(upto(m))
           f == [m \in 0..n |-> flat(m)]
<1>1. \A m \in 0..n : upto(m) \in [1..m -> Seq(S)] /\ m \in Nat
  OBVIOUS
<1>2. \A m \in 0..n : flat(m) \in Seq(S)
  <2> HIDE DEF upto
  <2> QED BY <1>1, PickedType
<1>3. upto(0) = <<>> /\ upto(n) = p
  OBVIOUS
<1>4. flat(0) = <<>> /\ flat(n) = FlattenSeq(p)
  <2>1. flat(0) = <<>>
    <3> HIDE DEF upto
    <3> QED BY <1>3, FlatNone
  <2> QED BY <1>3, <2>1
<1>5. ASSUME NEW m \in 1..n PROVE flat(m) = flat(m - 1) \o p[m]
  <2> DEFINE k == m - 1
             a == upto(k)
             b == upto(k + 1)
  <2>1. k \in Nat /\ k + 1 = m
        /\ (\A l \in 1..k : a[l] = b[l]) /\ b[k + 1] = p[m]
    OBVIOUS
  <2>4. a \in Lists(k, S) /\ b \in Lists(k + 1, S)
    BY DEF Lists
  <2> HIDE DEF a, b, k
  <2>2. FlattenSeq(b) = FlattenSeq(a) \o b[k + 1]
    BY <2>1, <2>4, FlatNext
  <2>3. FlattenSeq(b) = FlattenSeq(a) \o p[m]
    BY <2>1, <2>2
  <2> QED BY <2>1, <2>3 DEF a, b, k
<1> HIDE DEF flat
<1>6. f \in [0..n -> Seq(S)]
  BY <1>2
<1>7. f[0] = <<>> /\ f[n] = FlattenSeq(p)
  BY <1>4
<1>8. \A m \in 1..n : f[m] = f[m - 1] \o p[m]
  <2> SUFFICES ASSUME NEW m \in 1..n PROVE f[m] = f[m - 1] \o p[m]
    OBVIOUS
  <2>1. m \in 0..n /\ m - 1 \in 0..n
    OBVIOUS
  <2>2. f[m] = flat(m) /\ f[m - 1] = flat(m - 1)
    BY <2>1
  <2> HIDE DEF f
  <2> QED BY <1>5, <2>2
<1> HIDE DEF f
<1> QED BY <1>6, <1>7, <1>8 DEF Gathers

Grows(g, n, p) == g[0] = <<>> /\ \A m \in 1..n : g[m] = g[m - 1] \o p[m]

LEMMA FlatIs ==
  ASSUME NEW S, NEW n \in Nat, NEW p \in Lists(n, S), NEW g, Grows(g, n, p)
  PROVE  g[n] = FlattenSeq(p)
<1> g[0] = <<>> /\ \A m \in 1..n : g[m] = g[m - 1] \o p[m]
  BY DEF Grows
<1>1. PICK f : /\ f \in [0..n -> Seq(S)] /\ f[0] = <<>> /\ f[n] = FlattenSeq(p)
               /\ \A m \in 1..n : f[m] = f[m - 1] \o p[m]
  <2>1. PICK f : Gathers(f, S, n, p)
    BY FlatHistory
  <2> QED BY <2>1 DEF Gathers
<1> DEFINE T == {m \in Nat : m <= n => g[m] = f[m]}
<1>2. 0 \in T
  BY <1>1
<1>3. ASSUME NEW m \in Nat, m \in T PROVE m + 1 \in T
  <2> SUFFICES ASSUME m + 1 <= n PROVE g[m + 1] = f[m + 1]
    OBVIOUS
  <2>1. m + 1 \in 1..n /\ (m + 1) - 1 = m /\ g[m] = f[m]
    BY <1>3
  <2>2. g[m + 1] = g[(m + 1) - 1] \o p[m + 1]
    BY <2>1
  <2>3. f[m + 1] = f[(m + 1) - 1] \o p[m + 1]
    BY <1>1, <2>1
  <2> QED BY <2>1, <2>2, <2>3
<1> HIDE DEF T
<1>4. n \in T
  BY <1>2, <1>3, Induction
<1> QED BY <1>1, <1>4 DEF T

LEMMA ListIs ==
  ASSUME NEW T, NEW n \in Nat, NEW f \in [1..n -> T]
  PROVE  f \in Seq(T) /\ Len(f) = n /\ DOMAIN f = 1..n
OBVIOUS

LEMMA JoinIs ==
  ASSUME NEW T, NEW s \in Seq(T), NEW t \in Seq(T)
  PROVE  /\ s \o t \in Seq(T) /\ Len(s \o t) = Len(s) + Len(t)
         /\ \A i \in 1..(Len(s) + Len(t)) :
              (s \o t)[i] = IF i <= Len(s) THEN s[i] ELSE t[i - Len(s)]
OBVIOUS

\* The nodes of a list of pairs.
LEMMA OthersType ==
  ASSUME NEW S, NEW T, \A x \in S : x[2] \in T, NEW x \in Seq(S)
  PROVE  Others(x) \in Seq(T) /\ Len(Others(x)) = Len(x)
<1> DEFINE n == Len(x)
           h == Others(x)
<1>1. n \in Nat /\ DOMAIN x = 1..n /\ \A k \in 1..n : x[k] \in S
  OBVIOUS
<1>2. h = [k \in 1..n |-> x[k][2]]
  BY <1>1 DEF Others
<1>3. h \in [1..n -> T]
  BY <1>1, <1>2
<1> HIDE DEF n, h
<1>4. h \in Seq(T) /\ Len(h) = n
  BY <1>1, <1>3, ListIs
<1> QED BY <1>4 DEF n, h

LEMMA OthersJoin ==
  ASSUME NEW S, NEW T, \A x \in S : x[2] \in T, NEW x \in Seq(S), NEW y \in Seq(S)
  PROVE  Others(x \o y) = Others(x) \o Others(y)
<1> DEFINE a == Others(x \o y)
           c == Others(x)
           d == Others(y)
           b == c \o d
<1>1. /\ c \in Seq(T) /\ Len(c) = Len(x) /\ Len(x) \in Nat
      /\ d \in Seq(T) /\ Len(d) = Len(y) /\ Len(y) \in Nat
      /\ x \o y \in Seq(S) /\ Len(x \o y) = Len(x) + Len(y)
  <2>1. x \o y \in Seq(S) /\ Len(x \o y) = Len(x) + Len(y) /\ Len(x) \in Nat /\ Len(y) \in Nat
    OBVIOUS
  <2>2. c \in Seq(T) /\ Len(c) = Len(x)
    BY OthersType
  <2>3. d \in Seq(T) /\ Len(d) = Len(y)
    BY OthersType
  <2> QED BY <2>1, <2>2, <2>3
<1>2. a \in Seq(T) /\ Len(a) = Len(x) + Len(y)
  <2> DEFINE z == x \o y
  <2> HIDE DEF z
  <2>1. z \in Seq(S)
    BY <1>1 DEF z
  <2>2. Others(z) \in Seq(T) /\ Len(Others(z)) = Len(z)
    BY <2>1, OthersType
  <2> QED BY <1>1, <2>2 DEF z
<1>3. b \in Seq(T) /\ Len(b) = Len(x) + Len(y)
  <2> HIDE DEF c, d
  <2>1. c \o d \in Seq(T) /\ Len(c \o d) = Len(c) + Len(d)
    BY <1>1, JoinIs
  <2> QED BY <1>1, <2>1
<1>4. \A i \in 1..(Len(x) + Len(y)) : a[i] = b[i]
  <2> SUFFICES ASSUME NEW i \in 1..(Len(x) + Len(y)) PROVE a[i] = b[i]
    OBVIOUS
  <2>1. a[i] = (x \o y)[i][2]
    BY <1>1 DEF Others
  <2>2. CASE i <= Len(x)
    <3>1. i \in 1..Len(x) /\ (x \o y)[i] = x[i]
      BY <1>1, <2>2
    <3>2. b[i] = c[i]
      BY <1>1, <3>1
    <3>3. c[i] = x[i][2]
      BY <3>1 DEF Others
    <3> QED BY <2>1, <3>1, <3>2, <3>3
  <2>3. CASE ~ (i <= Len(x))
    <3>1. i - Len(x) \in 1..Len(y) /\ (x \o y)[i] = y[i - Len(x)]
      BY <1>1, <2>3
    <3>2. b[i] = d[i - Len(x)]
      <4> HIDE DEF c, d, a
      <4>1. i \in 1..(Len(c) + Len(d)) /\ ~ (i <= Len(c)) /\ Len(c) = Len(x)
        BY <1>1, <2>3
      <4>2. (c \o d)[i] = d[i - Len(c)]
        BY <1>1, <4>1, JoinIs
      <4> QED BY <4>1, <4>2
    <3>3. d[i - Len(x)] = y[i - Len(x)][2]
      BY <3>1 DEF Others
    <3> QED BY <2>1, <3>1, <3>2, <3>3
  <2> QED BY <2>2, <2>3
<1> HIDE DEF a, b, c, d
<1>5. a = b
  BY <1>2, <1>3, <1>4, SeqEqual
<1> QED BY <1>5 DEF a, b, c, d

\* The nodes of what a list of such lists makes.
LEMMA FlatOthers ==
  ASSUME NEW S, NEW T, \A x \in S : x[2] \in T, NEW n \in Nat,
         NEW p \in Lists(n, S), NEW q \in Lists(n, T),
         \A i \in 1..n : Others(p[i]) = q[i]
  PROVE  Others(FlattenSeq(p)) = FlattenSeq(q)
<1> p \in [1..n -> Seq(S)]
  BY DEF Lists
<1>1. PICK f : /\ f \in [0..n -> Seq(S)] /\ f[0] = <<>> /\ f[n] = FlattenSeq(p)
               /\ \A m \in 1..n : f[m] = f[m - 1] \o p[m]
  <2>1. PICK f : Gathers(f, S, n, p)
    BY FlatHistory
  <2> QED BY <2>1 DEF Gathers
<1> DEFINE g == [m \in 0..n |-> Others(f[m])]
<1>3. ASSUME NEW x \in Seq(S), NEW y \in Seq(S) PROVE Others(x \o y) = Others(x) \o Others(y)
  BY OthersJoin
<1>4. g[0] = <<>>
  <2>1. Others(<<>>) = <<>>
    BY DEF Others
  <2> QED BY <1>1, <2>1
<1>5. \A m \in 1..n : g[m] = g[m - 1] \o q[m]
  <2> SUFFICES ASSUME NEW m \in 1..n PROVE g[m] = g[m - 1] \o q[m]
    OBVIOUS
  <2>1. m \in 0..n /\ m - 1 \in 0..n
    OBVIOUS
  <2>3. f[m - 1] \in Seq(S) /\ p[m] \in Seq(S)
    BY <1>1, <2>1
  <2>4. g[m] = Others(f[m]) /\ g[m - 1] = Others(f[m - 1])
    BY <2>1
  <2>2. Others(f[m]) = Others(f[m - 1]) \o Others(p[m])
    BY <1>1, <1>3, <2>3
  <2> QED BY <2>2, <2>4
<1>6. g[n] = FlattenSeq(q)
  <2> HIDE DEF g
  <2>1. Grows(g, n, q)
    BY <1>4, <1>5 DEF Grows
  <2> QED BY <2>1, FlatIs
<1> QED BY <1>1, <1>6

\* A list read off by v, element by element; one more element.
Readers(E, T) == [E -> Seq(T)]
Read(v, x) == [j \in 1..Len(x) |-> v[x[j]]]
ReadsOn(v, x, l) == FlattenSeq(Read(v, x \o <<l>>)) = FlattenSeq(Read(v, x)) \o v[l]

LEMMA ReadNext ==
  ASSUME NEW E, NEW T, NEW v \in Readers(E, T), NEW x \in Seq(E), NEW l \in E
  PROVE  ReadsOn(v, x, l)
<1> v \in [E -> Seq(T)]
  BY DEF Readers
<1> DEFINE k == Len(x)
           y == x \o <<l>>
           a == [j \in 1..Len(x) |-> v[x[j]]]
           b == [j \in 1..Len(y) |-> v[y[j]]]
<1>1. k \in Nat /\ y \in Seq(E) /\ Len(y) = k + 1
      /\ y[k + 1] = l /\ \A i \in 1..k : y[i] = x[i]
  OBVIOUS
<1>2. b[k + 1] = v[l] /\ \A i \in 1..k : a[i] = b[i]
  <2> HIDE DEF y
  <2> QED BY <1>1
<1>3. a \in Lists(k, T) /\ b \in Lists(k + 1, T)
  <2>1. (\A i \in 1..k : x[i] \in E) /\ \A i \in 1..(k + 1) : y[i] \in E
    <3> HIDE DEF y
    <3> QED BY <1>1
  <2> HIDE DEF y
  <2> QED BY <1>1, <2>1 DEF Lists
<1> HIDE DEF a, b, k
<1>4. FlattenSeq(b) = FlattenSeq(a) \o b[k + 1]
  BY <1>1, <1>2, <1>3, FlatNext
<1> QED BY <1>2, <1>4 DEF a, b, y, Read, ReadsOn

\* A list thinned out, its elements changed: what is left, read off by v, reads
\* like the list, of which e reads nothing off what has gone.
Thins(p, r, e, d, K, v, n, E, T) ==
  /\ n \in Nat /\ d \in [1..n -> E] /\ v \in Readers(E, T)
  /\ p \in Lists(n, E) /\ \A i \in 1..n : p[i] = IF i \in K THEN <<d[i]>> ELSE <<>>
  /\ e \in Lists(n, T) /\ \A i \in 1..n : e[i] = IF i \in K THEN v[d[i]] ELSE <<>>
  /\ r \in Lists(Len(FlattenSeq(p)), T)
  /\ \A j \in 1..Len(FlattenSeq(p)) : r[j] = v[FlattenSeq(p)[j]]

LEMMA Thinned ==
  ASSUME NEW p, NEW r, NEW e, NEW d, NEW K, NEW v, NEW n, NEW E, NEW T,
         Thins(p, r, e, d, K, v, n, E, T)
  PROVE  FlattenSeq(r) = FlattenSeq(e)
<1> DEFINE m == Len(FlattenSeq(p))
<1> /\ n \in Nat /\ d \in [1..n -> E] /\ v \in Readers(E, T)
    /\ p \in Lists(n, E) /\ e \in Lists(n, T) /\ r \in Lists(m, T)
  BY DEF Thins
<1> /\ \A i \in 1..n : p[i] = IF i \in K THEN <<d[i]>> ELSE <<>>
    /\ \A i \in 1..n : e[i] = IF i \in K THEN v[d[i]] ELSE <<>>
    /\ \A j \in 1..m : r[j] = v[FlattenSeq(p)[j]]
  BY DEF Thins
<1> m \in Nat
  <2>1. FlattenSeq(p) \in Seq(E)
    BY PickedType DEF Lists
  <2> QED BY <2>1
<1> HIDE DEF m
<1> DEFINE read(x) == Read(v, x)
<1>5. ASSUME NEW x \in Seq(E), NEW l \in E
      PROVE  FlattenSeq(read(x \o <<l>>)) = FlattenSeq(read(x)) \o v[l]
  <2>1. ReadsOn(v, x, l)
    BY ReadNext
  <2> QED BY <2>1 DEF ReadsOn
<1> r \in [1..m -> Seq(T)]
  BY DEF Lists
<1>1. \A x \in Seq(E) : read(x) \in [1..Len(x) -> Seq(T)] /\ Len(x) \in Nat
  BY DEF Read, Readers
<1>2. PICK f : /\ f \in [0..n -> Seq(E)] /\ f[0] = <<>> /\ f[n] = FlattenSeq(p)
               /\ \A i \in 1..n : f[i] = f[i - 1] \o p[i]
  <2>1. PICK f : Gathers(f, E, n, p)
    BY FlatHistory
  <2> QED BY <2>1 DEF Gathers
<1> DEFINE g == [i \in 0..n |-> FlattenSeq(read(f[i]))]
<1>3. g[0] = <<>>
  <2>1. read(f[0]) = <<>>
    BY <1>2 DEF Read
  <2> HIDE DEF read
  <2>2. FlattenSeq(read(f[0])) = <<>>
    BY <2>1, FlatNone
  <2> QED BY <2>2
<1>8. n \in 0..n
  OBVIOUS
<1>9. g[n] = FlattenSeq(r)
  <2> DEFINE fs == FlattenSeq(p)
  <2>1. f[n] = fs /\ Len(fs) = m
    BY <1>2 DEF m
  <2>2. \A j \in 1..m : r[j] = v[fs[j]]
    OBVIOUS
  <2> HIDE DEF fs
  <2>3. read(fs) = r
    BY <2>1, <2>2 DEF Read
  <2> QED BY <1>8, <2>1, <2>3
<1> HIDE DEF read
<1>6. \A i \in 1..n : g[i] = g[i - 1] \o e[i]
  <2> SUFFICES ASSUME NEW i \in 1..n PROVE g[i] = g[i - 1] \o e[i]
    OBVIOUS
  <2>4. i \in 0..n /\ i - 1 \in 0..n
    OBVIOUS
  <2>1. f[i - 1] \in Seq(E) /\ d[i] \in E /\ f[i] = f[i - 1] \o p[i]
    <3> HIDE DEF g
    <3> QED BY <1>2, <2>4
  <2>5. g[i] = FlattenSeq(read(f[i])) /\ g[i - 1] = FlattenSeq(read(f[i - 1]))
    BY <2>4
  <2>2. CASE i \in K
    <3>1. p[i] = <<d[i]>> /\ e[i] = v[d[i]]
      BY <2>2
    <3>3. FlattenSeq(read(f[i - 1] \o <<d[i]>>)) = FlattenSeq(read(f[i - 1])) \o v[d[i]]
      BY <1>5, <2>1
    <3>2. FlattenSeq(read(f[i])) = FlattenSeq(read(f[i - 1])) \o v[d[i]]
      BY <2>1, <3>1, <3>3
    <3> QED BY <2>5, <3>1, <3>2
  <2>3. CASE i \notin K
    <3>1. p[i] = <<>> /\ e[i] = <<>>
      BY <2>3
    <3>2. f[i] = f[i - 1]
      BY <2>1, <3>1, ConcatEmptySeq
    <3>3. FlattenSeq(read(f[i - 1])) \in Seq(T)
      BY <1>1, <2>1, PickedType
    <3>4. g[i] = g[i - 1] /\ g[i - 1] \in Seq(T)
      BY <2>5, <3>2, <3>3
    <3> HIDE DEF g
    <3> QED BY <3>1, <3>4, ConcatEmptySeq
  <2> QED BY <2>2, <2>3
<1>7. g[n] = FlattenSeq(e)
  <2> HIDE DEF g
  <2>1. Grows(g, n, e)
    BY <1>3, <1>6 DEF Grows
  <2> QED BY <2>1, FlatIs
<1> QED BY <1>7, <1>9

LEMMA EndIs ==
  ASSUME NEW N, NEW y \in N, NEW i \in Nat
  PROVE  <<<<i, y>>>> \in Seq(Nat \X N) /\ Others(<<<<i, y>>>>) = <<y>>
<1> DEFINE one == <<i, y>>
<1>1. one \in Nat \X N /\ one[2] = y
  OBVIOUS
<1> HIDE DEF one
<1>2. <<one>> \in Seq(Nat \X N)
  BY <1>1
<1>3. Others(<<one>>) = [k \in 1..1 |-> <<one>>[k][2]]
  BY DEF Others
<1>4. \A k \in 1..1 : <<one>>[k][2] = y
  BY <1>1
<1>5. [k \in 1..1 |-> <<one>>[k][2]] = [k \in 1..1 |-> y]
  BY <1>4
<1>6. Others(<<one>>) = <<y>>
  BY <1>3, <1>5
<1> QED BY <1>2, <1>6 DEF one

\* p has the pairs, q the nodes, of the far ends at the positions of C.
Ends(p, q, far, C, n, N) ==
  /\ n \in Nat /\ far \in [1..n -> N]
  /\ DOMAIN p = 1..n /\ p = [i \in DOMAIN p |-> p[i]]
  /\ \A i \in 1..n : p[i] = IF i \in C THEN <<<<i, far[i]>>>> ELSE <<>>
  /\ q \in Lists(n, N)
  /\ \A i \in 1..n : q[i] = IF i \in C THEN <<far[i]>> ELSE <<>>

LEMMA EndsAre ==
  ASSUME NEW p, NEW q, NEW far, NEW C, NEW n, NEW N, Ends(p, q, far, C, n, N)
  PROVE  FlattenSeq(p) \in Seq(Nat \X N) /\ Others(FlattenSeq(p)) = FlattenSeq(q)
<1> /\ n \in Nat /\ far \in [1..n -> N] /\ q \in Lists(n, N)
    /\ DOMAIN p = 1..n /\ p = [i \in DOMAIN p |-> p[i]]
  BY DEF Ends
<1> /\ \A i \in 1..n : p[i] = IF i \in C THEN <<<<i, far[i]>>>> ELSE <<>>
    /\ \A i \in 1..n : q[i] = IF i \in C THEN <<far[i]>> ELSE <<>>
  BY DEF Ends
<1> DEFINE S == Nat \X N
<1>1. \A l \in S : l[2] \in N
  OBVIOUS
<1>2. \A i \in 1..n : p[i] \in Seq(S) /\ Others(p[i]) = q[i]
  <2> SUFFICES ASSUME NEW i \in 1..n PROVE p[i] \in Seq(S) /\ Others(p[i]) = q[i]
    OBVIOUS
  <2>1. CASE i \in C
    <3>1. i \in Nat /\ far[i] \in N
      OBVIOUS
    <3>2. <<<<i, far[i]>>>> \in Seq(S) /\ Others(<<<<i, far[i]>>>>) = <<far[i]>>
      BY <3>1, EndIs
    <3>3. p[i] = <<<<i, far[i]>>>> /\ q[i] = <<far[i]>>
      BY <2>1
    <3> QED BY <3>2, <3>3
  <2>2. CASE i \notin C
    <3>1. p[i] = <<>> /\ q[i] = <<>>
      BY <2>2
    <3>2. Others(<<>>) = <<>>
      BY DEF Others
    <3> QED BY <3>1, <3>2
  <2> QED BY <2>1, <2>2
<1> HIDE DEF S
<1>3. p \in [1..n -> Seq(S)]
  BY <1>2
<1>4. \A i \in 1..n : Others(p[i]) = q[i]
  BY <1>2
<1>5. FlattenSeq(p) \in Seq(S)
  BY <1>3, PickedType
<1>7. p \in Lists(n, S)
  BY <1>3 DEF Lists
<1>6. Others(FlattenSeq(p)) = FlattenSeq(q)
  BY <1>1, <1>4, <1>7, FlatOthers
<1> QED BY <1>5, <1>6 DEF S

\* The neighbours of x: the targets of the links that leave it, then the sources
\* of those that enter it.
Meets(ls, x, out, in, n, N) ==
  /\ n \in Nat /\ DOMAIN ls = 1..n
  /\ \A i \in 1..n : ls[i].source \in N /\ ls[i].target \in N
  /\ out \in Lists(n, N) /\ in \in Lists(n, N)
  /\ \A i \in 1..n : out[i] = IF ls[i].source = x THEN <<ls[i].target>> ELSE <<>>
  /\ \A i \in 1..n : in[i] = IF ls[i].target = x THEN <<ls[i].source>> ELSE <<>>

LEMMA NeighboursAre ==
  ASSUME NEW ls, NEW x, NEW out, NEW in, NEW n, NEW N, Meets(ls, x, out, in, n, N)
  PROVE  Others(Adjacent(ls, x)) = FlattenSeq(out) \o FlattenSeq(in)
<1> /\ n \in Nat /\ DOMAIN ls = 1..n
    /\ \A i \in 1..n : ls[i].source \in N /\ ls[i].target \in N
    /\ out \in Lists(n, N) /\ in \in Lists(n, N)
  BY DEF Meets
<1> /\ \A i \in 1..n : out[i] = IF ls[i].source = x THEN <<ls[i].target>> ELSE <<>>
    /\ \A i \in 1..n : in[i] = IF ls[i].target = x THEN <<ls[i].source>> ELSE <<>>
  BY DEF Meets
<1> DEFINE C == {i \in 1..n : ls[i].source = x}
           D == {i \in 1..n : ls[i].target = x}
           s == [i \in 1..n |-> ls[i].source]
           t == [i \in 1..n |-> ls[i].target]
           p == [i \in DOMAIN ls |-> IF ls[i].source = x THEN <<<<i, ls[i].target>>>> ELSE <<>>]
           q == [i \in DOMAIN ls |-> IF ls[i].target = x THEN <<<<i, ls[i].source>>>> ELSE <<>>]
           a == FlattenSeq(p)
           b == FlattenSeq(q)
           S == Nat \X N
<1>1. Adjacent(ls, x) = a \o b
  BY DEF Adjacent
<1>2. s \in [1..n -> N] /\ t \in [1..n -> N]
  OBVIOUS
<1>3. /\ DOMAIN p = 1..n /\ p = [i \in DOMAIN p |-> p[i]]
      /\ DOMAIN q = 1..n /\ q = [i \in DOMAIN q |-> q[i]]
  OBVIOUS
<1>4. \A i \in 1..n : p[i] = IF i \in C THEN <<<<i, t[i]>>>> ELSE <<>>
  OBVIOUS
<1>5. \A i \in 1..n : q[i] = IF i \in D THEN <<<<i, s[i]>>>> ELSE <<>>
  OBVIOUS
<1>6. \A i \in 1..n : out[i] = IF i \in C THEN <<t[i]>> ELSE <<>>
  OBVIOUS
<1>7. \A i \in 1..n : in[i] = IF i \in D THEN <<s[i]>> ELSE <<>>
  OBVIOUS
<1>8. \A l \in S : l[2] \in N
  OBVIOUS
<1> HIDE DEF C, D, s, t, p, q
<1>9. a \in Seq(S) /\ Others(a) = FlattenSeq(out)
  <2>1. Ends(p, out, t, C, n, N)
    BY <1>2, <1>3, <1>4, <1>6 DEF Ends
  <2> QED BY <2>1, EndsAre
<1>10. b \in Seq(S) /\ Others(b) = FlattenSeq(in)
  <2>1. Ends(q, in, s, D, n, N)
    BY <1>2, <1>3, <1>5, <1>7 DEF Ends
  <2> QED BY <2>1, EndsAre
<1> HIDE DEF a, b, S
<1>11. Others(a \o b) = Others(a) \o Others(b)
  BY <1>8, <1>9, <1>10, OthersJoin
<1> QED BY <1>1, <1>9, <1>10, <1>11

\* Links dropped and worn, but none that touches x, and no end changed: x has
\* the neighbours it had, in the same order.
Keeps(p, es, d, K, x, n, N, E) ==
  /\ n \in Nat /\ es \in [1..n -> E] /\ d \in [1..n -> E]
  /\ \A l \in E : l.source \in N /\ l.target \in N
  /\ \A i \in 1..n : d[i].source = es[i].source /\ d[i].target = es[i].target
  /\ \A i \in 1..n : es[i].source = x \/ es[i].target = x => i \in K
  /\ p \in Lists(n, E)
  /\ \A i \in 1..n : p[i] = IF i \in K THEN <<d[i]>> ELSE <<>>

LEMMA AdjacentKept ==
  ASSUME NEW p, NEW es, NEW d, NEW K, NEW x, NEW n, NEW N, NEW E, Keeps(p, es, d, K, x, n, N, E)
  PROVE  Others(Adjacent(FlattenSeq(p), x)) = Others(Adjacent(es, x))
<1> /\ n \in Nat /\ es \in [1..n -> E] /\ d \in [1..n -> E] /\ p \in Lists(n, E)
    /\ \A l \in E : l.source \in N /\ l.target \in N
  BY DEF Keeps
<1> /\ \A i \in 1..n : d[i].source = es[i].source /\ d[i].target = es[i].target
    /\ \A i \in 1..n : es[i].source = x \/ es[i].target = x => i \in K
    /\ \A i \in 1..n : p[i] = IF i \in K THEN <<d[i]>> ELSE <<>>
  BY DEF Keeps
<1> DEFINE fs == FlattenSeq(p)
           m == Len(fs)
           v == [l \in E |-> IF l.source = x THEN <<l.target>> ELSE <<>>]
           w == [l \in E |-> IF l.target = x THEN <<l.source>> ELSE <<>>]
           a == [i \in 1..n |-> v[es[i]]]
           b == [i \in 1..n |-> w[es[i]]]
           r == [j \in 1..m |-> v[fs[j]]]
           q == [j \in 1..m |-> w[fs[j]]]
<1>1. m \in Nat /\ fs \in [1..m -> E] /\ DOMAIN fs = 1..m
  <2>1. fs \in Seq(E)
    BY PickedType DEF Lists
  <2> HIDE DEF fs
  <2> QED BY <2>1
<1> HIDE DEF fs, m
<1>2. v \in Readers(E, N) /\ w \in Readers(E, N)
  <2>1. \A l \in E : (IF l.source = x THEN <<l.target>> ELSE <<>>) \in Seq(N)
    OBVIOUS
  <2>2. \A l \in E : (IF l.target = x THEN <<l.source>> ELSE <<>>) \in Seq(N)
    OBVIOUS
  <2> QED BY <2>1, <2>2 DEF Readers
<1>3. \A l \in E : v[l] = IF l.source = x THEN <<l.target>> ELSE <<>>
  OBVIOUS
<1>4. \A l \in E : w[l] = IF l.target = x THEN <<l.source>> ELSE <<>>
  OBVIOUS
<1> HIDE DEF v, w
<1>5. a \in Lists(n, N) /\ b \in Lists(n, N) /\ r \in Lists(m, N) /\ q \in Lists(m, N)
  BY <1>1, <1>2 DEF Lists, Readers
<1>6. /\ \A i \in 1..n : a[i] = v[es[i]] /\ b[i] = w[es[i]]
      /\ \A j \in 1..m : r[j] = v[fs[j]] /\ q[j] = w[fs[j]]
  OBVIOUS
<1> HIDE DEF a, b, r, q
<1>7. Others(Adjacent(es, x)) = FlattenSeq(a) \o FlattenSeq(b)
  <2>1. DOMAIN es = 1..n /\ \A i \in 1..n : es[i].source \in N /\ es[i].target \in N
    OBVIOUS
  <2>2. \A i \in 1..n : a[i] = IF es[i].source = x THEN <<es[i].target>> ELSE <<>>
    BY <1>3, <1>6
  <2>3. \A i \in 1..n : b[i] = IF es[i].target = x THEN <<es[i].source>> ELSE <<>>
    BY <1>4, <1>6
  <2>4. Meets(es, x, a, b, n, N)
    BY <1>5, <2>1, <2>2, <2>3 DEF Meets
  <2> QED BY <2>4, NeighboursAre
<1>8. Others(Adjacent(fs, x)) = FlattenSeq(r) \o FlattenSeq(q)
  <2>1. DOMAIN fs = 1..m /\ \A i \in 1..m : fs[i].source \in N /\ fs[i].target \in N
    BY <1>1
  <2>2. \A i \in 1..m : r[i] = IF fs[i].source = x THEN <<fs[i].target>> ELSE <<>>
    BY <1>1, <1>3, <1>6
  <2>3. \A i \in 1..m : q[i] = IF fs[i].target = x THEN <<fs[i].source>> ELSE <<>>
    BY <1>1, <1>4, <1>6
  <2>4. Meets(fs, x, r, q, m, N)
    BY <1>1, <1>5, <2>1, <2>2, <2>3 DEF Meets
  <2> QED BY <2>4, NeighboursAre
<1>9. \A i \in 1..n : a[i] = IF i \in K THEN v[d[i]] ELSE <<>>
  <2> SUFFICES ASSUME NEW i \in 1..n PROVE a[i] = IF i \in K THEN v[d[i]] ELSE <<>>
    OBVIOUS
  <2>1. es[i] \in E /\ d[i] \in E
    OBVIOUS
  <2>2. v[d[i]] = v[es[i]]
    BY <1>3, <2>1
  <2>3. i \notin K => v[es[i]] = <<>>
    <3>1. i \notin K => es[i].source # x
      OBVIOUS
    <3> QED BY <1>3, <2>1, <3>1
  <2> QED BY <1>6, <2>2, <2>3
<1>10. \A i \in 1..n : b[i] = IF i \in K THEN w[d[i]] ELSE <<>>
  <2> SUFFICES ASSUME NEW i \in 1..n PROVE b[i] = IF i \in K THEN w[d[i]] ELSE <<>>
    OBVIOUS
  <2>1. es[i] \in E /\ d[i] \in E
    OBVIOUS
  <2>2. w[d[i]] = w[es[i]]
    BY <1>4, <2>1
  <2>3. i \notin K => w[es[i]] = <<>>
    <3>1. i \notin K => es[i].target # x
      OBVIOUS
    <3> QED BY <1>4, <2>1, <3>1
  <2> QED BY <1>6, <2>2, <2>3
<1>11. Thins(p, r, a, d, K, v, n, E, N) /\ Thins(p, q, b, d, K, w, n, E, N)
  BY <1>2, <1>5, <1>6, <1>9, <1>10 DEF fs, m, Thins
<1>12. FlattenSeq(r) = FlattenSeq(a)
  BY <1>11, Thinned
<1>13. FlattenSeq(q) = FlattenSeq(b)
  BY <1>11, Thinned
<1> QED BY <1>7, <1>8, <1>12, <1>13 DEF fs

\* The form of the model's recursive functions, from b by the step g.
Recurs(f, n, T, b, g) ==
  /\ f \in [0..n -> T]
  /\ f[0] = b
  /\ \A k \in 1..n : f[k] = g[<<k, f[k - 1]>>]

LEMMA Recursive ==
  ASSUME NEW T, NEW b \in T, NEW g \in [Nat \X T -> T], NEW n \in Nat
  PROVE  \E f : Recurs(f, n, T, b, g)
<1> DEFINE first == 0
<1>1. first \in Nat
  OBVIOUS
<1> HIDE DEF first
<1>2. PICK f : Follows(f, first, n, T, b, g)
  BY <1>1, Recursion
<1>3. first + n = n /\ first + 1 = 1
  BY DEF first
<1>4. Recurs(f, n, T, b, g)
  BY <1>2, <1>3 DEF Follows, Recurs, first
<1> QED BY <1>4

IsMerged(s, t, f) == f = [k \in 0..Len(t) |-> IF k = 0 THEN s ELSE Put(f[k - 1], t[k])]

LEMMA PutType ==
  ASSUME NEW S, NEW list \in Seq(S), NEW x \in S
  PROVE  Put(list, x) \in Seq(S)
BY DEF Put

\* Merging lists over a set makes one.
LEMMA MergeType ==
  ASSUME NEW S, NEW s \in Seq(S), NEW t \in Seq(S)
  PROVE  Merge(s, t) \in Seq(S)
<1> DEFINE T == Seq(S)
           n == Len(t)
           g == [p \in Nat \X T |-> IF p[1] \in 1..n THEN Put(p[2], t[p[1]]) ELSE p[2]]
           f == CHOOSE f : IsMerged(s, t, f)
<1>1. n \in Nat /\ \A k \in 1..n : t[k] \in S
  OBVIOUS
<1>2. \A k \in 1..n, l \in T : Put(l, t[k]) \in T
  BY <1>1, PutType
<1> HIDE DEF n
<1>3. g \in [Nat \X T -> T]
  <2>1. \A p \in Nat \X T : (IF p[1] \in 1..n THEN Put(p[2], t[p[1]]) ELSE p[2]) \in T
    <3> SUFFICES ASSUME NEW k \in Nat, NEW l \in T
                 PROVE  (IF k \in 1..n THEN Put(l, t[k]) ELSE l) \in T
      OBVIOUS
    <3> QED BY <1>2
  <2> HIDE DEF T
  <2> QED BY <2>1
<1>4. ASSUME NEW k \in 1..n, NEW l \in T PROVE g[<<k, l>>] = Put(l, t[k])
  <2> HIDE DEF T, g
  <2>1. k \in Nat
    BY <1>1
  <2> QED BY <2>1 DEF g
<1> HIDE DEF g
<1>5. \E h : IsMerged(s, t, h)
  <2>1. s \in T
    OBVIOUS
  <2> HIDE DEF T
  <2>2. PICK h : Recurs(h, n, T, s, g)
    BY <1>1, <1>3, <2>1, Recursive
  <2>3. h \in [0..n -> T] /\ h[0] = s /\ \A k \in 1..n : h[k] = g[<<k, h[k - 1]>>]
    BY <2>2 DEF Recurs
  <2> DEFINE body(k) == IF k = 0 THEN s ELSE Put(h[k - 1], t[k])
  <2>4. \A k \in 0..n : h[k] = body(k)
    <3> SUFFICES ASSUME NEW k \in 0..n, k # 0 PROVE h[k] = Put(h[k - 1], t[k])
      BY <2>3
    <3>1. k \in 1..n /\ k - 1 \in 0..n
      BY <1>1
    <3>2. h[k - 1] \in T
      BY <2>3, <3>1
    <3> QED BY <1>4, <2>3, <3>1, <3>2
  <2> HIDE DEF body
  <2>5. h = [k \in 0..n |-> body(k)]
    BY <2>3, <2>4
  <2>6. IsMerged(s, t, h)
    BY <2>5 DEF IsMerged, body, n
  <2> QED BY <2>6
<1>6. IsMerged(s, t, f)
  BY <1>5
<1>7. Merge(s, t) = f[n]
  BY DEF Merge, IsMerged, n
<1> HIDE DEF f
<1> DEFINE body(k) == IF k = 0 THEN s ELSE Put(f[k - 1], t[k])
<1>8. f = [k \in 0..n |-> body(k)]
  BY <1>6 DEF IsMerged, n
<1> HIDE DEF body
<1>9. \A k \in 0..n : f[k] = body(k)
  BY <1>8
<1>10. f[0] \in T /\ \A k \in 1..n : f[k - 1] \in T => f[k] \in T
  <2>1. f[0] = s
    BY <1>1, <1>9 DEF body
  <2> HIDE DEF T
  <2>2. ASSUME NEW k \in 1..n, f[k - 1] \in T PROVE f[k] \in T
    <3>1. k \in 0..n /\ k # 0
      BY <1>1
    <3>2. f[k] = Put(f[k - 1], t[k])
      BY <1>9, <3>1 DEF body
    <3> QED BY <1>2, <2>2, <3>2
  <2> QED BY <2>1, <2>2 DEF T
<1> HIDE DEF T
<1>11. \A k \in 0..n : f[k] \in T
  <2>1. 0 + n = n /\ 0 + 1 = 1 /\ 0 \in Nat
    BY <1>1
  <2>2. \A k \in (0 + 1)..(0 + n) : f[k - 1] \in T => f[k] \in T
    BY <1>10, <2>1
  <2>3. \A k \in 0..(0 + n) : f[k] \in T
    BY <1>1, <1>10, <2>1, <2>2, Kept
  <2> QED BY <2>1, <2>3
<1>12. f[n] \in T
  BY <1>1, <1>11
<1> QED BY <1>7, <1>12 DEF T

\* A graph leads from its nodes to its nodes.
IsGraph(g) == \A x \in DOMAIN g : Others(g[x]) \in Seq(DOMAIN g)

\* The neighbours of a node, as a set and as a list.
LEMMA NeighboursRange ==
  ASSUME NEW g, NEW x
  PROVE  Neighbours(g, x) = {Others(g[x])[k] : k \in DOMAIN Others(g[x])}
BY DEF Neighbours, Others

LEMMA NeighboursIn ==
  ASSUME NEW g, IsGraph(g), NEW x \in DOMAIN g
  PROVE  /\ Neighbours(g, x) \subseteq DOMAIN g
         /\ Others(g[x]) \in Seq(Neighbours(g, x))
<1> DEFINE o == Others(g[x])
           N == {o[k] : k \in DOMAIN o}
<1>1. o \in Seq(DOMAIN g) /\ Neighbours(g, x) = N
  BY NeighboursRange DEF IsGraph
<1> HIDE DEF o
<1>2. N \subseteq DOMAIN g /\ o \in Seq(N)
  BY <1>1
<1> QED BY <1>1, <1>2 DEF o

\* The balls of a walk, as the recursion of the model and unfolded.
IsBalls(g, seeds, hops, f) ==
  f = [h \in 0..hops |-> IF h = 0 THEN seeds
                         ELSE f[h - 1] \cup (UNION {Neighbours(g, n) : n \in f[h - 1]})]

Expanding(ball, g, seeds, hops) ==
  /\ ball \in [0..hops -> SUBSET DOMAIN g]
  /\ ball[0] = seeds
  /\ \A h \in 1..hops : ball[h] = ball[h - 1] \cup (UNION {Neighbours(g, n) : n \in ball[h - 1]})

LEMMA BallsAre ==
  ASSUME NEW g, IsGraph(g), NEW seeds \in SUBSET DOMAIN g, NEW hops \in Nat
  PROVE  Expanding(Balls(g, seeds, hops), g, seeds, hops)
<1> DEFINE T == SUBSET DOMAIN g
           step(B) == B \cup (UNION {Neighbours(g, n) : n \in B})
           e == [p \in Nat \X T |-> step(p[2])]
           f == CHOOSE f : IsBalls(g, seeds, hops, f)
<1>1. \A B \in T : step(B) \in T
  BY NeighboursIn
<1> HIDE DEF T, step
<1>2. e \in [Nat \X T -> T]
  <2>1. \A p \in Nat \X T : step(p[2]) \in T
    BY <1>1
  <2> QED BY <2>1
<1> HIDE DEF e
<1>3. ASSUME NEW h \in Nat, NEW B \in T PROVE e[<<h, B>>] = step(B)
  BY DEF e
<1>4. \E h : IsBalls(g, seeds, hops, h)
  <2>1. seeds \in T
    BY DEF T
  <2>2. PICK b : Recurs(b, hops, T, seeds, e)
    BY <1>2, <2>1, Recursive
  <2>3. b \in [0..hops -> T] /\ b[0] = seeds /\ \A h \in 1..hops : b[h] = e[<<h, b[h - 1]>>]
    BY <2>2 DEF Recurs
  <2> DEFINE body(h) == IF h = 0 THEN seeds ELSE step(b[h - 1])
  <2>4. \A h \in 0..hops : b[h] = body(h)
    <3> SUFFICES ASSUME NEW h \in 0..hops, h # 0 PROVE b[h] = step(b[h - 1])
      BY <2>3
    <3>1. h \in 1..hops /\ h - 1 \in 0..hops /\ h \in Nat
      OBVIOUS
    <3>2. b[h - 1] \in T
      BY <2>3, <3>1
    <3> QED BY <1>3, <2>3, <3>1, <3>2
  <2> HIDE DEF body
  <2>5. b = [h \in 0..hops |-> body(h)]
    BY <2>3, <2>4
  <2>6. IsBalls(g, seeds, hops, b)
    BY <2>5 DEF IsBalls, body, step
  <2> QED BY <2>6
<1>5. IsBalls(g, seeds, hops, f)
  BY <1>4
<1>6. Balls(g, seeds, hops) = f
  BY DEF Balls, IsBalls
<1> HIDE DEF f
<1> DEFINE body(h) == IF h = 0 THEN seeds ELSE step(f[h - 1])
<1>7. f = [h \in 0..hops |-> body(h)]
  BY <1>5 DEF IsBalls, step
<1> HIDE DEF body
<1>8. \A h \in 0..hops : f[h] = body(h)
  BY <1>7
<1>9. f[0] = seeds /\ \A h \in 1..hops : f[h] = step(f[h - 1])
  <2>1. f[0] = seeds
    BY <1>8 DEF body
  <2>2. ASSUME NEW h \in 1..hops PROVE f[h] = step(f[h - 1])
    <3>1. h \in 0..hops /\ h # 0
      OBVIOUS
    <3> QED BY <1>8, <3>1 DEF body
  <2> QED BY <2>1, <2>2
<1>10. \A h \in 0..hops : f[h] \in T
  <2>1. 0 + hops = hops /\ 0 + 1 = 1 /\ 0 \in Nat /\ f[0] \in T
    BY <1>9 DEF T
  <2>2. \A h \in (0 + 1)..(0 + hops) : f[h - 1] \in T => f[h] \in T
    BY <1>1, <1>9, <2>1
  <2>3. \A h \in 0..(0 + hops) : f[h] \in T
    BY <2>1, <2>2, Kept
  <2> QED BY <2>1, <2>3
<1>11. f \in [0..hops -> T]
  BY <1>7, <1>10
<1> QED BY <1>6, <1>9, <1>11 DEF Expanding, T, step

\* The layers of a walk, as the recursion of the model and unfolded.
IsWalk(g, starts, hops, f) ==
  f = [h \in 0..hops |-> IF h = 0 THEN Merge(<<>>, Present(g, starts)) ELSE NextLayer(g, f[h - 1])]

Walking(w, g, starts, hops) ==
  /\ w \in [0..hops -> Seq(DOMAIN g)]
  /\ w[0] = Merge(<<>>, Present(g, starts))
  /\ \A h \in 1..hops : w[h] = NextLayer(g, w[h - 1])
  /\ w[hops] = WalkOrder(g, starts, hops)

\* The next layer lists neighbours of the last.
LEMMA LayerType ==
  ASSUME NEW g, IsGraph(g), NEW B \in SUBSET DOMAIN g, NEW list \in Seq(B)
  PROVE  NextLayer(g, list) \in Seq(B \cup (UNION {Neighbours(g, n) : n \in B}))
<1> DEFINE N == B \cup (UNION {Neighbours(g, n) : n \in B})
           n == Len(list)
           p == [i \in 1..n |-> Others(g[list[i]])]
<1>1. n \in Nat /\ DOMAIN list = 1..n /\ \A i \in 1..n : list[i] \in B
  OBVIOUS
<1>2. \A i \in 1..n : Others(g[list[i]]) \in Seq(N)
  <2> SUFFICES ASSUME NEW i \in 1..n PROVE Others(g[list[i]]) \in Seq(N)
    OBVIOUS
  <2> DEFINE x == list[i]
             o == Others(g[x])
             M == Neighbours(g, x)
  <2>1. x \in B /\ x \in DOMAIN g
    BY <1>1
  <2> HIDE DEF x
  <2>2. o \in Seq(M)
    BY <2>1, NeighboursIn
  <2>3. M \subseteq N
    BY <2>1
  <2> HIDE DEF o, M, N
  <2>4. o \in Seq(N)
    BY <2>2, <2>3
  <2> QED BY <2>4 DEF o, x
<1>3. AllNeighbours(g, list) = FlattenSeq(p)
  BY <1>1 DEF AllNeighbours
<1>4. p \in [1..n -> Seq(N)]
  <2> HIDE DEF N, n
  <2> QED BY <1>2
<1> HIDE DEF p, N, n
<1>5. FlattenSeq(p) \in Seq(N)
  BY <1>1, <1>4, PickedType
<1>6. list \in Seq(N)
  BY DEF N
<1>7. Merge(list, FlattenSeq(p)) \in Seq(N)
  BY <1>5, <1>6, MergeType
<1> QED BY <1>3, <1>7 DEF NextLayer, N

\* A walk from one seed starts at it, if it is a node.
LEMMA StartType ==
  ASSUME NEW g, NEW s
  PROVE  Merge(<<>>, Present(g, <<s>>)) \in Seq({s} \cap DOMAIN g)
<1> DEFINE S == {s} \cap DOMAIN g
           p == [i \in 1..1 |-> IF s \in DOMAIN g THEN <<s>> ELSE <<>>]
           one == 1
<1>1. Present(g, <<s>>) = FlattenSeq(p)
  <2>1. DOMAIN <<s>> = 1..1 /\ \A i \in 1..1 : <<s>>[i] = s
    OBVIOUS
  <2>2. [i \in DOMAIN <<s>> |-> IF <<s>>[i] \in DOMAIN g THEN <<<<s>>[i]>> ELSE <<>>] = p
    BY <2>1
  <2> HIDE DEF p
  <2> QED BY <2>2 DEF Present
<1>2. (IF s \in DOMAIN g THEN <<s>> ELSE <<>>) \in Seq(S)
  <2>1. CASE s \in DOMAIN g
    <3>1. s \in S
      BY <2>1
    <3> HIDE DEF S
    <3> QED BY <2>1, <3>1
  <2>2. CASE s \notin DOMAIN g
    BY <2>2
  <2> QED BY <2>1, <2>2
<1>3. p \in [1..one -> Seq(S)] /\ one \in Nat
  <2> HIDE DEF S
  <2> QED BY <1>2
<1> HIDE DEF p, S, one
<1>4. FlattenSeq(p) \in Seq(S)
  BY <1>3, PickedType
<1> DEFINE none == <<>>
<1>5. none \in Seq(S)
  OBVIOUS
<1> HIDE DEF none
<1>6. Merge(none, FlattenSeq(p)) \in Seq(S)
  BY <1>4, <1>5, MergeType
<1> QED BY <1>1, <1>6 DEF S, none

LEMMA WalkExists ==
  ASSUME NEW g, IsGraph(g), NEW s, NEW hops \in Nat
  PROVE  \E w : Walking(w, g, <<s>>, hops)
<1> DEFINE T == Seq(DOMAIN g)
           start == Merge(<<>>, Present(g, <<s>>))
           e == [p \in Nat \X T |-> NextLayer(g, p[2])]
           starts == <<s>>
           f == CHOOSE f : IsWalk(g, starts, hops, f)
<1>1. start \in T
  <2> DEFINE S == {s} \cap DOMAIN g
  <2>1. start \in Seq(S) /\ S \subseteq DOMAIN g
    BY StartType
  <2> HIDE DEF start, S
  <2> QED BY <2>1
<1>2. \A l \in T : NextLayer(g, l) \in T
  <2> SUFFICES ASSUME NEW l \in T PROVE NextLayer(g, l) \in T
    OBVIOUS
  <2> DEFINE B == DOMAIN g
             N == B \cup (UNION {Neighbours(g, n) : n \in B})
             y == NextLayer(g, l)
  <2>1. B \in SUBSET DOMAIN g /\ l \in Seq(B)
    OBVIOUS
  <2>2. N = B
    BY NeighboursIn
  <2>3. y \in Seq(N)
    <3> HIDE DEF B
    <3> QED BY <2>1, LayerType
  <2> HIDE DEF N, B, y
  <2>4. y \in Seq(B)
    BY <2>2, <2>3
  <2> QED BY <2>4 DEF B, y
<1> HIDE DEF T, start
<1>3. e \in [Nat \X T -> T]
  BY <1>2
<1> HIDE DEF e
<1>4. ASSUME NEW h \in Nat, NEW l \in T PROVE e[<<h, l>>] = NextLayer(g, l)
  BY DEF e
<1> HIDE DEF starts
<1>5. \E h : IsWalk(g, starts, hops, h)
  <2>2. PICK b : Recurs(b, hops, T, start, e)
    BY <1>1, <1>3, Recursive
  <2>3. b \in [0..hops -> T] /\ b[0] = start /\ \A h \in 1..hops : b[h] = e[<<h, b[h - 1]>>]
    BY <2>2 DEF Recurs
  <2> DEFINE body(h) == IF h = 0 THEN start ELSE NextLayer(g, b[h - 1])
  <2>4. \A h \in 0..hops : b[h] = body(h)
    <3> SUFFICES ASSUME NEW h \in 0..hops, h # 0 PROVE b[h] = NextLayer(g, b[h - 1])
      BY <2>3
    <3>1. h \in 1..hops /\ h - 1 \in 0..hops /\ h \in Nat
      OBVIOUS
    <3>2. b[h - 1] \in T
      BY <2>3, <3>1
    <3> QED BY <1>4, <2>3, <3>1, <3>2
  <2> HIDE DEF body
  <2>5. b = [h \in 0..hops |-> body(h)]
    BY <2>3, <2>4
  <2>6. IsWalk(g, starts, hops, b)
    BY <2>5 DEF IsWalk, body, start, starts
  <2> QED BY <2>6
<1>6. IsWalk(g, starts, hops, f)
  BY <1>5
<1>7. WalkOrder(g, starts, hops) = f[hops]
  BY DEF WalkOrder, IsWalk
<1> HIDE DEF f
<1> DEFINE body(h) == IF h = 0 THEN start ELSE NextLayer(g, f[h - 1])
<1>8. f = [h \in 0..hops |-> body(h)]
  BY <1>6 DEF IsWalk, start, starts
<1> HIDE DEF body
<1>9. \A h \in 0..hops : f[h] = body(h)
  BY <1>8
<1>10. f[0] = start /\ \A h \in 1..hops : f[h] = NextLayer(g, f[h - 1])
  <2>1. f[0] = start
    BY <1>9 DEF body
  <2>2. ASSUME NEW h \in 1..hops PROVE f[h] = NextLayer(g, f[h - 1])
    <3>1. h \in 0..hops /\ h # 0
      OBVIOUS
    <3> QED BY <1>9, <3>1 DEF body
  <2> QED BY <2>1, <2>2
<1>11. \A h \in 0..hops : f[h] \in T
  <2>1. 0 + hops = hops /\ 0 + 1 = 1 /\ 0 \in Nat /\ f[0] \in T
    BY <1>1, <1>10
  <2>2. \A h \in (0 + 1)..(0 + hops) : f[h - 1] \in T => f[h] \in T
    BY <1>2, <1>10, <2>1
  <2>3. \A h \in 0..(0 + hops) : f[h] \in T
    BY <2>1, <2>2, Kept
  <2> QED BY <2>1, <2>3
<1>12. f \in [0..hops -> T]
  BY <1>8, <1>11
<1>13. Walking(f, g, starts, hops)
  BY <1>7, <1>10, <1>12 DEF Walking, T, start, starts
<1> QED BY <1>13 DEF starts

\* Each layer of a walk lies in its ball.
LEMMA WalkInBall ==
  ASSUME NEW g, IsGraph(g), NEW s, NEW hops \in Nat, NEW w, Walking(w, g, <<s>>, hops),
         NEW ball, Expanding(ball, g, {s} \cap DOMAIN g, hops)
  PROVE  \A h \in 0..hops : w[h] \in Seq(ball[h])
<1> DEFINE T == {h \in Nat : h <= hops => w[h] \in Seq(ball[h])}
<1>1. /\ w[0] = Merge(<<>>, Present(g, <<s>>))
      /\ \A h \in 1..hops : w[h] = NextLayer(g, w[h - 1])
  BY DEF Walking
<1>2. /\ ball \in [0..hops -> SUBSET DOMAIN g] /\ ball[0] = {s} \cap DOMAIN g
      /\ \A h \in 1..hops : ball[h] = ball[h - 1] \cup (UNION {Neighbours(g, n) : n \in ball[h - 1]})
  BY DEF Expanding
<1>3. 0 \in T
  BY <1>1, <1>2, StartType
<1>4. ASSUME NEW h \in Nat, h \in T PROVE h + 1 \in T
  <2> SUFFICES ASSUME h + 1 <= hops PROVE w[h + 1] \in Seq(ball[h + 1])
    OBVIOUS
  <2> DEFINE B == ball[h]
             l == w[h]
             N == B \cup (UNION {Neighbours(g, n) : n \in B})
  <2>1. h + 1 \in 1..hops /\ (h + 1) - 1 = h /\ h \in 0..hops
    OBVIOUS
  <2>2. B \in SUBSET DOMAIN g /\ l \in Seq(B)
    BY <1>2, <1>4, <2>1
  <2>3. w[h + 1] = NextLayer(g, l) /\ ball[h + 1] = N
    BY <1>1, <1>2, <2>1
  <2> HIDE DEF B, l
  <2>4. NextLayer(g, l) \in Seq(N)
    BY <2>2, LayerType
  <2> QED BY <2>3, <2>4
<1> HIDE DEF T
<1>5. \A h \in Nat : h \in T
  BY <1>3, <1>4, Induction
<1> QED BY <1>5 DEF T

\* Two graphs a walk cannot tell apart: what it expands has the same neighbours
\* in the same order.
Alike(g, k, seeds, hops) ==
  /\ IsGraph(g) /\ IsGraph(k) /\ DOMAIN k = DOMAIN g
  /\ seeds \in SUBSET DOMAIN g /\ hops \in Nat /\ hops > 0
  /\ \A x \in Balls(g, seeds, hops)[hops - 1] : Others(k[x]) = Others(g[x])

\* The balls grow.
LEMMA BallsGrow ==
  ASSUME NEW g, NEW seeds, NEW hops \in Nat, NEW ball, Expanding(ball, g, seeds, hops),
         NEW m \in 0..hops
  PROVE  \A h \in 0..m : ball[h] \subseteq ball[m]
<1> DEFINE T == {h \in Nat : h <= m => ball[m - h] \subseteq ball[m]}
<1>1. \A h \in 1..hops : ball[h - 1] \subseteq ball[h]
  BY DEF Expanding
<1>2. 0 \in T
  OBVIOUS
<1>3. ASSUME NEW h \in Nat, h \in T PROVE h + 1 \in T
  <2> SUFFICES ASSUME h + 1 <= m PROVE ball[m - (h + 1)] \subseteq ball[m]
    OBVIOUS
  <2>1. m - h \in 1..hops /\ (m - h) - 1 = m - (h + 1) /\ h <= m
    OBVIOUS
  <2>2. ball[m - h] \subseteq ball[m]
    BY <1>3, <2>1
  <2>3. ball[m - (h + 1)] \subseteq ball[m - h]
    BY <1>1, <2>1
  <2> QED BY <2>2, <2>3
<1> HIDE DEF T
<1>4. \A h \in Nat : h \in T
  BY <1>2, <1>3, Induction
<1>5. ASSUME NEW h \in 0..m PROVE ball[h] \subseteq ball[m]
  <2>1. m - h \in Nat /\ m - h <= m /\ m - (m - h) = h
    OBVIOUS
  <2>2. m - h \in T
    BY <1>4, <2>1
  <2> QED BY <2>1, <2>2 DEF T
<1> QED BY <1>5

LEMMA SameBalls ==
  ASSUME NEW g, NEW k, NEW seeds, NEW hops, Alike(g, k, seeds, hops)
  PROVE  \A h \in 0..hops : Balls(k, seeds, hops)[h] = Balls(g, seeds, hops)[h]
<1> DEFINE a == Balls(g, seeds, hops)
           b == Balls(k, seeds, hops)
           T == {h \in Nat : h <= hops => b[h] = a[h]}
<1>1. /\ IsGraph(g) /\ IsGraph(k) /\ DOMAIN k = DOMAIN g
      /\ seeds \in SUBSET DOMAIN g /\ seeds \in SUBSET DOMAIN k /\ hops \in Nat /\ hops > 0
      /\ \A x \in a[hops - 1] : Others(k[x]) = Others(g[x])
  BY DEF Alike
<1> HIDE DEF a, b
<1>2. Expanding(a, g, seeds, hops) /\ Expanding(b, k, seeds, hops)
  BY <1>1, BallsAre DEF a, b
<1>3. /\ a[0] = seeds /\ b[0] = seeds
      /\ \A h \in 1..hops : a[h] = a[h - 1] \cup (UNION {Neighbours(g, n) : n \in a[h - 1]})
      /\ \A h \in 1..hops : b[h] = b[h - 1] \cup (UNION {Neighbours(k, n) : n \in b[h - 1]})
  BY <1>2 DEF Expanding
<1>4. \A h \in 0..(hops - 1) : a[h] \subseteq a[hops - 1]
  <2>1. hops - 1 \in 0..hops
    BY <1>1
  <2> QED BY <1>1, <1>2, <2>1, BallsGrow
<1>5. 0 \in T
  BY <1>3
<1>6. ASSUME NEW h \in Nat, h \in T PROVE h + 1 \in T
  <2> SUFFICES ASSUME h + 1 <= hops PROVE b[h + 1] = a[h + 1]
    OBVIOUS
  <2> DEFINE B == a[h]
  <2>1. h + 1 \in 1..hops /\ (h + 1) - 1 = h /\ h \in 0..(hops - 1)
    BY <1>1
  <2>2. b[h] = B
    BY <1>1, <1>6, <2>1
  <2>3. a[h + 1] = B \cup (UNION {Neighbours(g, n) : n \in B})
    BY <1>3, <2>1
  <2>4. b[h + 1] = B \cup (UNION {Neighbours(k, n) : n \in B})
    BY <1>3, <2>1, <2>2
  <2>5. \A n \in B : Neighbours(k, n) = Neighbours(g, n)
    <3> SUFFICES ASSUME NEW n \in B PROVE Neighbours(k, n) = Neighbours(g, n)
      OBVIOUS
    <3>1. Others(k[n]) = Others(g[n])
      BY <1>1, <1>4, <2>1
    <3> QED BY <3>1, NeighboursRange
  <2> HIDE DEF B
  <2> QED BY <2>3, <2>4, <2>5
<1> HIDE DEF T
<1>7. \A h \in Nat : h \in T
  BY <1>5, <1>6, Induction
<1> QED BY <1>1, <1>7 DEF T, a, b

LEMMA SameWalk ==
  ASSUME NEW g, NEW k, NEW s, NEW hops, Alike(g, k, {s} \cap DOMAIN g, hops)
  PROVE  WalkOrder(k, <<s>>, hops) = WalkOrder(g, <<s>>, hops)
<1> DEFINE seeds == {s} \cap DOMAIN g
           ball == Balls(g, seeds, hops)
<1>1. /\ IsGraph(g) /\ IsGraph(k) /\ DOMAIN k = DOMAIN g
      /\ seeds \in SUBSET DOMAIN g /\ hops \in Nat /\ hops > 0
      /\ \A x \in ball[hops - 1] : Others(k[x]) = Others(g[x])
  BY DEF Alike
<1> HIDE DEF ball
<1>2. Expanding(ball, g, seeds, hops)
  BY <1>1, BallsAre DEF ball
<1>3. PICK w : Walking(w, g, <<s>>, hops)
  BY <1>1, WalkExists
<1>4. PICK v : Walking(v, k, <<s>>, hops)
  BY <1>1, WalkExists
<1>5. \A h \in 0..hops : w[h] \in Seq(ball[h])
  BY <1>1, <1>2, <1>3, WalkInBall
<1>6. \A h \in 0..(hops - 1) : ball[h] \subseteq ball[hops - 1]
  <2>1. hops - 1 \in 0..hops
    BY <1>1
  <2> QED BY <1>1, <1>2, <2>1, BallsGrow
<1>7. /\ w[0] = Merge(<<>>, Present(g, <<s>>)) /\ v[0] = Merge(<<>>, Present(k, <<s>>))
      /\ \A h \in 1..hops : w[h] = NextLayer(g, w[h - 1])
      /\ \A h \in 1..hops : v[h] = NextLayer(k, v[h - 1])
      /\ w[hops] = WalkOrder(g, <<s>>, hops) /\ v[hops] = WalkOrder(k, <<s>>, hops)
  BY <1>3, <1>4 DEF Walking
<1> DEFINE T == {h \in Nat : h <= hops => v[h] = w[h]}
<1>8. 0 \in T
  <2>1. Present(k, <<s>>) = Present(g, <<s>>)
    BY <1>1 DEF Present
  <2> QED BY <1>7, <2>1
<1>9. ASSUME NEW h \in Nat, h \in T PROVE h + 1 \in T
  <2> SUFFICES ASSUME h + 1 <= hops PROVE v[h + 1] = w[h + 1]
    OBVIOUS
  <2> DEFINE l == w[h]
             B == ball[hops - 1]
  <2>1. h + 1 \in 1..hops /\ (h + 1) - 1 = h /\ h \in 0..hops /\ h \in 0..(hops - 1)
    BY <1>1
  <2>2. v[h] = l /\ w[h + 1] = NextLayer(g, l)
    BY <1>7, <1>9, <2>1
  <2>3. v[h + 1] = NextLayer(k, l)
    BY <1>7, <2>1, <2>2
  <2>4. \A i \in DOMAIN l : l[i] \in B
    <3> DEFINE C == ball[h]
    <3>1. l \in Seq(C) /\ C \subseteq B
      BY <1>5, <1>6, <2>1
    <3> HIDE DEF C, B, l
    <3> QED BY <3>1
  <2>5. \A i \in DOMAIN l : Others(k[l[i]]) = Others(g[l[i]])
    BY <1>1, <2>4
  <2> HIDE DEF l, B
  <2>6. AllNeighbours(k, l) = AllNeighbours(g, l)
    <3>1. [i \in DOMAIN l |-> Others(k[l[i]])] = [i \in DOMAIN l |-> Others(g[l[i]])]
      BY <2>5
    <3> QED BY <3>1 DEF AllNeighbours
  <2> QED BY <2>2, <2>3, <2>6 DEF NextLayer
<1> HIDE DEF T
<1>10. \A h \in Nat : h \in T
  BY <1>8, <1>9, Induction
<1>11. v[hops] = w[hops]
  BY <1>1, <1>10 DEF T
<1> QED BY <1>7, <1>11

-----------------------------------------------------------------------------
(* What a decay pass leaves of the answers.                                  *)

\* The operators of the model on a graph of nodes ns and a hop bound h, so that
\* they can be compared across a step.
ExpandsIn(ns, h, es, s) == Balls(GraphOf(ns, es), {s} \cap ns, h)[h - 1]
FollowsIn(ns, h, es, s, e) == es[e].source \in ExpandsIn(ns, h, es, s)
                              \/ es[e].target \in ExpandsIn(ns, h, es, s)
DecisionsIn(ns, h, es, s) ==
  {es[e].target : e \in {f \in DOMAIN es : es[f].type = "constrains" /\ FollowsIn(ns, h, es, s, f)}}
Picked(walk, decisions, s) ==
  FlattenSeq([i \in DOMAIN walk |->
    IF decisions = {} \/ walk[i] = s \/ walk[i] \in decisions THEN <<walk[i]>> ELSE <<>>])
FromSeedIn(ns, h, es, s) ==
  Picked(WalkOrder(GraphOf(ns, es), <<s>>, h), DecisionsIn(ns, h, es, s), s)
ContextIn(ns, h, es, seeds) ==
  Merge(<<>>, FlattenSeq([i \in DOMAIN seeds |-> FromSeedIn(ns, h, es, seeds[i])]))

\* A walk follows a link a number of times, and does if it expands one of its ends.
LEMMA FollowedMeans ==
  ASSUME NEW es, NEW seeds, NEW e, IsFiniteSet(DOMAIN seeds)
  PROVE  /\ Followed(es, seeds, e) \in Nat
         /\ Followed(es, seeds, e) > 0
              <=> \E i \in DOMAIN seeds : FollowsIn(nodes, Hops, es, seeds[i], e)
<1> DEFINE ends == (DOMAIN seeds) \X {"source", "target"}
           met == {f \in ends : es[e][f[2]] \in Expands(es, seeds[f[1]])}
<1>1. IsFiniteSet({"source", "target"})
  <2>1. IsFiniteSet({"source"})
    BY FS_Singleton
  <2>2. {"source", "target"} = {"source"} \cup {"target"}
    OBVIOUS
  <2> QED BY <2>1, <2>2, FS_AddElement
<1>2. IsFiniteSet(ends)
  BY <1>1, FS_Product
<1>3. met \in SUBSET ends
  OBVIOUS
<1>4. Followed(es, seeds, e) = Cardinality(met)
  BY Zenon DEF Followed
<1>5. met # {} <=> \E i \in DOMAIN seeds : FollowsIn(nodes, Hops, es, seeds[i], e)
  <2>1. \A s : Expands(es, s) = ExpandsIn(nodes, Hops, es, s)
    BY DEF Expands, ExpandsIn
  <2>2. met # {} <=> \E i \in DOMAIN seeds : \E a \in {"source", "target"} :
                       es[e][a] \in Expands(es, seeds[i])
    <3>1. ASSUME NEW f \in met
          PROVE  \E i \in DOMAIN seeds : \E a \in {"source", "target"} :
                   es[e][a] \in Expands(es, seeds[i])
      <4>1. f[1] \in DOMAIN seeds /\ f[2] \in {"source", "target"}
            /\ es[e][f[2]] \in Expands(es, seeds[f[1]])
        OBVIOUS
      <4> QED BY <4>1
    <3>2. ASSUME NEW i \in DOMAIN seeds, NEW a \in {"source", "target"},
                 es[e][a] \in Expands(es, seeds[i])
          PROVE  met # {}
      <4> DEFINE f == <<i, a>>
      <4>1. f \in ends /\ f[1] = i /\ f[2] = a
        OBVIOUS
      <4> HIDE DEF f, ends
      <4>2. f \in met
        BY <3>2, <4>1
      <4> QED BY <4>2
    <3> HIDE DEF met
    <3> QED BY <3>1, <3>2
  <2> HIDE DEF met
  <2>3. \A i \in DOMAIN seeds : (\E a \in {"source", "target"} : es[e][a] \in Expands(es, seeds[i]))
                                <=> FollowsIn(nodes, Hops, es, seeds[i], e)
    BY <2>1 DEF FollowsIn
  <2> QED BY <2>2, <2>3
<1> HIDE DEF met, ends
<1>6. IsFiniteSet(met)
  BY <1>2, <1>3, FS_Subset
<1>7. Cardinality(met) \in Nat /\ (Cardinality(met) = 0 <=> met = {})
  BY <1>6, FS_CardinalityType, FS_EmptySet
<1> QED BY <1>4, <1>5, <1>7

\* A list of links over the nodes ns makes a graph.
LEMMA LinksGraph ==
  ASSUME NEW N, NEW E, \A l \in E : l.source \in N /\ l.target \in N, NEW es \in Seq(E)
  PROVE  IsGraph(GraphOf(N, es)) /\ DOMAIN GraphOf(N, es) = N
<1> DEFINE g == GraphOf(N, es)
           n == Len(es)
<1>1. DOMAIN g = N /\ \A x \in N : g[x] = Adjacent(es, x)
  BY DEF GraphOf
<1>2. n \in Nat /\ DOMAIN es = 1..n /\ \A i \in 1..n : es[i].source \in N /\ es[i].target \in N
  OBVIOUS
<1> HIDE DEF n
<1>3. ASSUME NEW x \in N PROVE Others(Adjacent(es, x)) \in Seq(N)
  <2> DEFINE out == [i \in 1..n |-> IF es[i].source = x THEN <<es[i].target>> ELSE <<>>]
             in == [i \in 1..n |-> IF es[i].target = x THEN <<es[i].source>> ELSE <<>>]
             a == FlattenSeq(out)
             b == FlattenSeq(in)
  <2>1. \A i \in 1..n : (IF es[i].source = x THEN <<es[i].target>> ELSE <<>>) \in Seq(N)
    BY <1>2
  <2>2. \A i \in 1..n : (IF es[i].target = x THEN <<es[i].source>> ELSE <<>>) \in Seq(N)
    BY <1>2
  <2>3. out \in [1..n -> Seq(N)] /\ in \in [1..n -> Seq(N)]
    BY <2>1, <2>2
  <2>4. Meets(es, x, out, in, n, N)
    BY <1>2, <2>3 DEF Meets, Lists
  <2> HIDE DEF out, in
  <2>5. Others(Adjacent(es, x)) = a \o b
    BY <2>4, NeighboursAre
  <2>6. a \in Seq(N) /\ b \in Seq(N)
    BY <1>2, <2>3, PickedType
  <2> HIDE DEF a, b
  <2>7. a \o b \in Seq(N)
    BY <2>6, JoinIs
  <2> QED BY <2>5, <2>7
<1> HIDE DEF g
<1>4. IsGraph(g)
  BY <1>1, <1>3 DEF IsGraph
<1> QED BY <1>1, <1>4 DEF g

\* fs is what a pass leaves of the links es over the nodes N: those of K, worn
\* into d, which keeps their ends and types.
Wears(fs, es, d, K, n, N, E) ==
  /\ n \in Nat /\ es \in [1..n -> E] /\ d \in [1..n -> E]
  /\ \A l \in E : l.source \in N /\ l.target \in N
  /\ \A i \in 1..n : d[i].source = es[i].source /\ d[i].target = es[i].target
                     /\ d[i].type = es[i].type
  /\ \E p \in Lists(n, E) : /\ \A i \in 1..n : p[i] = IF i \in K THEN <<d[i]>> ELSE <<>>
                            /\ fs = FlattenSeq(p)

\* No link that the walk from s expands has gone.
Safe(es, K, n, N, h, s) == \A i \in 1..n : FollowsIn(N, h, es, s, i) => i \in K

LEMMA WornAlike ==
  ASSUME NEW fs, NEW es, NEW d, NEW K, NEW n, NEW N, NEW E, Wears(fs, es, d, K, n, N, E),
         NEW h \in Nat, h > 0, NEW s, Safe(es, K, n, N, h, s)
  PROVE  /\ ExpandsIn(N, h, fs, s) = ExpandsIn(N, h, es, s)
         /\ WalkOrder(GraphOf(N, fs), <<s>>, h) = WalkOrder(GraphOf(N, es), <<s>>, h)
<1> DEFINE g == GraphOf(N, es)
           k == GraphOf(N, fs)
           seeds == {s} \cap N
<1>1. /\ n \in Nat /\ es \in [1..n -> E] /\ d \in [1..n -> E]
      /\ \A l \in E : l.source \in N /\ l.target \in N
      /\ \A i \in 1..n : d[i].source = es[i].source /\ d[i].target = es[i].target
  BY DEF Wears
<1>2. PICK p \in Lists(n, E) : /\ \A i \in 1..n : p[i] = IF i \in K THEN <<d[i]>> ELSE <<>>
                               /\ fs = FlattenSeq(p)
  BY DEF Wears
<1>3. es \in Seq(E) /\ fs \in Seq(E)
  <2>1. es \in Seq(E)
    BY <1>1, ListIs
  <2>2. FlattenSeq(p) \in Seq(E)
    BY <1>1, PickedType DEF Lists
  <2> QED BY <1>2, <2>1, <2>2
<1>4. IsGraph(g) /\ DOMAIN g = N
  BY <1>1, <1>3, LinksGraph
<1>5. IsGraph(k) /\ DOMAIN k = N
  BY <1>1, <1>3, LinksGraph
<1>6. (\A x \in N : g[x] = Adjacent(es, x)) /\ \A x \in N : k[x] = Adjacent(fs, x)
  BY DEF GraphOf
<1>7. ASSUME NEW x \in Balls(g, seeds, h)[h - 1], x \in N PROVE Others(k[x]) = Others(g[x])
  <2>1. \A i \in 1..n : es[i].source = x \/ es[i].target = x => i \in K
    BY <1>7 DEF Safe, FollowsIn, ExpandsIn
  <2>2. \A i \in 1..n : p[i] = IF i \in K THEN <<d[i]>> ELSE <<>>
    BY <1>2
  <2> HIDE DEF g, k, seeds
  <2>3. Keeps(p, es, d, K, x, n, N, E)
    BY <1>1, <2>1, <2>2 DEF Keeps
  <2>4. Others(Adjacent(FlattenSeq(p), x)) = Others(Adjacent(es, x))
    BY <2>3, AdjacentKept
  <2> QED BY <1>2, <1>6, <1>7, <2>4
<1> HIDE DEF g, k, seeds
<1>8. seeds \in SUBSET N /\ seeds = {s} \cap DOMAIN g
  BY <1>4 DEF seeds
<1>9. Alike(g, k, seeds, h)
  <2> DEFINE ball == Balls(g, seeds, h)
  <2>1. seeds \in SUBSET DOMAIN g
    BY <1>4, <1>8
  <2>2. Expanding(ball, g, seeds, h)
    BY <1>4, <2>1, BallsAre
  <2> HIDE DEF ball
  <2>3. ball[h - 1] \subseteq N
    BY <1>4, <2>2 DEF Expanding
  <2>4. \A x \in ball[h - 1] : Others(k[x]) = Others(g[x])
    BY <1>7, <2>3 DEF ball
  <2> QED BY <1>4, <1>5, <2>1, <2>4 DEF Alike, ball
<1>10. Balls(k, seeds, h)[h - 1] = Balls(g, seeds, h)[h - 1]
  <2>1. h - 1 \in 0..h
    OBVIOUS
  <2>2. \A m \in 0..h : Balls(k, seeds, h)[m] = Balls(g, seeds, h)[m]
    BY <1>9, SameBalls
  <2> QED BY <2>1, <2>2
<1>11. WalkOrder(k, <<s>>, h) = WalkOrder(g, <<s>>, h)
  <2>1. Alike(g, k, {s} \cap DOMAIN g, h)
    BY <1>8, <1>9
  <2> QED BY <2>1, SameWalk
<1> QED BY <1>10, <1>11 DEF g, k, seeds, ExpandsIn

\* What is left are worn links, and every link kept is left.
LEMMA WornLeft ==
  ASSUME NEW fs, NEW es, NEW d, NEW K, NEW n, NEW N, NEW E, Wears(fs, es, d, K, n, N, E)
  PROVE  /\ DOMAIN es = 1..n
         /\ \A j \in DOMAIN fs : \E i \in 1..n : i \in K /\ fs[j] = d[i]
         /\ \A i \in 1..n : i \in K => \E j \in DOMAIN fs : fs[j] = d[i]
<1>1. /\ n \in Nat /\ es \in [1..n -> E] /\ d \in [1..n -> E]
  BY DEF Wears
<1>2. PICK p \in Lists(n, E) : /\ \A i \in 1..n : p[i] = IF i \in K THEN <<d[i]>> ELSE <<>>
                               /\ fs = FlattenSeq(p)
  BY DEF Wears
<1>3. ASSUME NEW j \in DOMAIN fs PROVE \E i \in 1..n : i \in K /\ fs[j] = d[i]
  <2> DEFINE S == {d[i] : i \in {m \in 1..n : m \in K}}
  <2>1. \A i \in 1..n : p[i] \in Seq(S)
    <3> SUFFICES ASSUME NEW i \in 1..n PROVE p[i] \in Seq(S)
      OBVIOUS
    <3>1. CASE i \in K
      <4>1. d[i] \in S /\ p[i] = <<d[i]>>
        BY <1>2, <3>1
      <4> HIDE DEF S
      <4> QED BY <4>1
    <3>2. CASE i \notin K
      <4>1. p[i] = <<>>
        BY <1>2, <3>2
      <4> HIDE DEF S
      <4> QED BY <4>1
    <3> QED BY <3>1, <3>2
  <2>2. p \in [1..n -> Seq(S)]
    <3>1. DOMAIN p = 1..n /\ p = [i \in DOMAIN p |-> p[i]]
      BY DEF Lists
    <3> HIDE DEF S
    <3> QED BY <2>1, <3>1
  <2> HIDE DEF S
  <2>3. FlattenSeq(p) \in Seq(S)
    BY <1>1, <2>2, PickedType
  <2>4. fs[j] \in S
    BY <1>2, <2>3
  <2> QED BY <2>4 DEF S
<1>4. ASSUME NEW i \in 1..n, i \in K PROVE \E j \in DOMAIN fs : fs[j] = d[i]
  <2> DEFINE one == 1
  <2>1. p[i] = <<d[i]>>
    BY <1>2, <1>4
  <2>2. one \in DOMAIN p[i] /\ p[i][one] = d[i]
    BY <2>1
  <2> HIDE DEF one
  <2>3. \E j \in DOMAIN FlattenSeq(p) : FlattenSeq(p)[j] = p[i][one]
    BY <1>1, <2>2, FlatAll
  <2> QED BY <1>2, <2>2, <2>3
<1> QED BY <1>1, <1>3, <1>4

\* The walk from a seed follows the same links, and so decides the same.
LEMMA WornDecides ==
  ASSUME NEW fs, NEW es, NEW d, NEW K, NEW n, NEW N, NEW E, Wears(fs, es, d, K, n, N, E),
         NEW h \in Nat, h > 0, NEW s, Safe(es, K, n, N, h, s)
  PROVE  FromSeedIn(N, h, fs, s) = FromSeedIn(N, h, es, s)
<1>1. ExpandsIn(N, h, fs, s) = ExpandsIn(N, h, es, s)
      /\ WalkOrder(GraphOf(N, fs), <<s>>, h) = WalkOrder(GraphOf(N, es), <<s>>, h)
  BY WornAlike
<1>2. /\ DOMAIN es = 1..n
      /\ \A j \in DOMAIN fs : \E i \in 1..n : i \in K /\ fs[j] = d[i]
      /\ \A i \in 1..n : i \in K => \E j \in DOMAIN fs : fs[j] = d[i]
  BY WornLeft
<1>3. \A i \in 1..n : d[i].source = es[i].source /\ d[i].target = es[i].target
                       /\ d[i].type = es[i].type
  BY DEF Wears
<1>4. ASSUME NEW j \in DOMAIN fs, fs[j].type = "constrains", FollowsIn(N, h, fs, s, j)
      PROVE  fs[j].target \in DecisionsIn(N, h, es, s)
  <2>1. PICK i \in 1..n : fs[j] = d[i]
    BY <1>2
  <2>2. FollowsIn(N, h, es, s, i)
    BY <1>1, <1>3, <1>4, <2>1 DEF FollowsIn
  <2>3. i \in DOMAIN es /\ es[i].type = "constrains" /\ es[i].target = fs[j].target
    BY <1>2, <1>3, <1>4, <2>1
  <2> QED BY <2>2, <2>3 DEF DecisionsIn
<1>5. ASSUME NEW i \in DOMAIN es, es[i].type = "constrains", FollowsIn(N, h, es, s, i)
      PROVE  es[i].target \in DecisionsIn(N, h, fs, s)
  <2>1. i \in 1..n /\ i \in K
    BY <1>2, <1>5 DEF Safe
  <2>2. PICK j \in DOMAIN fs : fs[j] = d[i]
    BY <1>2, <2>1
  <2>3. FollowsIn(N, h, fs, s, j)
    BY <1>1, <1>3, <1>5, <2>1, <2>2 DEF FollowsIn
  <2>4. fs[j].type = "constrains" /\ fs[j].target = es[i].target
    BY <1>3, <1>5, <2>1, <2>2
  <2> QED BY <2>3, <2>4 DEF DecisionsIn
<1>6. DecisionsIn(N, h, fs, s) = DecisionsIn(N, h, es, s)
  BY <1>4, <1>5 DEF DecisionsIn
<1> QED BY <1>1, <1>6 DEF FromSeedIn

LEMMA WornAnswers ==
  ASSUME NEW fs, NEW es, NEW d, NEW K, NEW n, NEW N, NEW E, Wears(fs, es, d, K, n, N, E),
         NEW h \in Nat, h > 0, NEW seeds,
         \A i \in DOMAIN seeds : Safe(es, K, n, N, h, seeds[i])
  PROVE  ContextIn(N, h, fs, seeds) = ContextIn(N, h, es, seeds)
<1>1. \A i \in DOMAIN seeds : FromSeedIn(N, h, fs, seeds[i]) = FromSeedIn(N, h, es, seeds[i])
  BY WornDecides
<1>2. [i \in DOMAIN seeds |-> FromSeedIn(N, h, fs, seeds[i])]
        = [i \in DOMAIN seeds |-> FromSeedIn(N, h, es, seeds[i])]
  BY <1>1
<1> QED BY <1>2 DEF ContextIn
IsFaded(n, c) == c = [t \in 0..n |-> IF t = 0 THEN Unit ELSE c[t - 1] \div 2]

\* A link that fades keeps the scale of confidence, and halves each time.
LEMMA Fading ==
  /\ FadedTimes[0] = Unit
  /\ \A t \in 0..MaxTick : FadedTimes[t] \in 0..Unit
  /\ \A t \in 0..(MaxTick - 1) : FadedTimes[t + 1] = FadedTimes[t] \div 2
<1> DEFINE c == FadedTimes
           g == [p \in Nat \X (0..Unit) |-> p[2] \div 2]
<1>1. MaxTick \in Nat /\ Unit \in Nat /\ 0 \in Nat /\ Unit \in 0..Unit
  BY GraphArmAssumption
<1>2. g \in [Nat \X (0..Unit) -> 0..Unit]
  <2>1. \A x \in 0..Unit : x \div 2 \in 0..Unit
    BY <1>1
  <2> QED BY <2>1
<1>3. \A i \in Nat, x \in 0..Unit : g[<<i, x>>] = x \div 2
  OBVIOUS
<1> HIDE DEF g
<1>4. \E f : IsFaded(MaxTick, f)
  <2>1. PICK f \in [0..(0 + MaxTick) -> 0..Unit] :
          f[0] = Unit /\ \A i \in (0 + 1)..(0 + MaxTick) : f[i] = g[<<i, f[i - 1]>>]
    <3> DEFINE T == 0..Unit
               start == Unit
               first == 0
               last == MaxTick
    <3>1. first \in Nat /\ start \in T /\ g \in [Nat \X T -> T] /\ last \in Nat
      BY <1>1, <1>2
    <3> HIDE DEF T, start, first, last
    <3>2. PICK f : Follows(f, first, last, T, start, g)
      BY <3>1, Recursion
    <3> QED BY <3>2 DEF T, start, first, last, Follows
  <2>2. 0 + MaxTick = MaxTick /\ 0 + 1 = 1
    BY <1>1
  <2>3. f \in [0..MaxTick -> 0..Unit] /\ \A i \in 1..MaxTick : f[i] = g[<<i, f[i - 1]>>]
    BY <2>1, <2>2
  <2> DEFINE body(t) == IF t = 0 THEN Unit ELSE f[t - 1] \div 2
  <2>4. \A t \in 0..MaxTick : f[t] = body(t)
    <3> SUFFICES ASSUME NEW t \in 0..MaxTick, t # 0 PROVE f[t] = f[t - 1] \div 2
      BY <2>1
    <3>1. t \in 1..MaxTick /\ t - 1 \in 0..MaxTick /\ t \in Nat
      BY <1>1
    <3>2. f[t - 1] \in 0..Unit
      BY <2>3, <3>1
    <3> QED BY <1>3, <2>3, <3>1, <3>2
  <2> HIDE DEF body
  <2>5. f = [t \in 0..MaxTick |-> body(t)]
    BY <2>3, <2>4
  <2>6. IsFaded(MaxTick, f)
    BY <2>5 DEF IsFaded, body
  <2> QED BY <2>6
<1>5. IsFaded(MaxTick, c)
  <2>1. c = CHOOSE f : IsFaded(MaxTick, f)
    BY DEF FadedTimes, IsFaded
  <2> HIDE DEF c
  <2> QED BY <1>4, <2>1
<1> DEFINE body(t) == IF t = 0 THEN Unit ELSE c[t - 1] \div 2
<1>6. c = [t \in 0..MaxTick |-> body(t)]
  BY <1>5 DEF IsFaded
<1> HIDE DEF c, body
<1>7. \A t \in 0..MaxTick : c[t] = body(t)
  BY <1>6
<1>8. c[0] = Unit
  BY <1>1, <1>7 DEF body
<1>9. \A t \in 0..(MaxTick - 1) : c[t + 1] = c[t] \div 2
  <2> SUFFICES ASSUME NEW t \in 0..(MaxTick - 1) PROVE c[t + 1] = c[t] \div 2
    OBVIOUS
  <2>1. t + 1 \in 0..MaxTick /\ t + 1 # 0 /\ (t + 1) - 1 = t
    BY <1>1
  <2> QED BY <1>7, <2>1 DEF body
<1>10. \A t \in 0..MaxTick : c[t] \in 0..Unit
  <2> DEFINE T == 0..Unit
  <2>1. \A i \in 1..MaxTick : c[i - 1] \in T => c[i] \in T
    <3> SUFFICES ASSUME NEW i \in 1..MaxTick, c[i - 1] \in 0..Unit PROVE c[i] \in 0..Unit
      OBVIOUS
    <3>1. i \in 0..MaxTick /\ i # 0
      BY <1>1
    <3>2. c[i] = c[i - 1] \div 2
      BY <1>7, <3>1 DEF body
    <3> QED BY <1>1, <3>2
  <2>2. 0 + MaxTick = MaxTick /\ 0 + 1 = 1 /\ c[0] \in T
    BY <1>1, <1>8
  <2> HIDE DEF T
  <2>3. \A i \in (0 + 1)..(0 + MaxTick) : c[i - 1] \in T => c[i] \in T
    BY <2>1, <2>2
  <2>4. \A i \in 0..(0 + MaxTick) : c[i] \in T
    BY <1>1, <2>2, <2>3, Kept
  <2> QED BY <2>2, <2>4 DEF T
<1> QED BY <1>8, <1>9, <1>10 DEF c

-----------------------------------------------------------------------------
(* The inductive invariant.                                                  *)

\* Everything a caller may write, and the types of its links.
Known == UNION {Range(corpus) : corpus \in Corpora}

Types == UNION {{Wanted(item)[i][2] : i \in DOMAIN Wanted(item)} : item \in Known}

\* The fields of a link over the nodes ns after t retrieves.
Fields(ns, t) ==
  [source : ns, target : ns, type : Types,
   confidence : 0..Unit, count : Nat, last : Never..(t - 1)]

\* Such a link, its usage counted: one never walked has faded t times.
Fair(e, t) ==
  /\ (e.count = 0) <=> (e.last = Never)
  /\ e.count = 0 => /\ e.confidence = FadedTimes[t]
                    /\ t > 0 => e.confidence >= PruneBelow

Links(ns, t) == {e \in Fields(ns, t) : Fair(e, t)}

\* What is written stays, and the first item written is a node for ever: so the
\* graph is built at most once, and nothing ticks before.
Built ==
  /\ items \in Seq(Known)
  /\ nodes \subseteq {items[i].id : i \in DOMAIN items}
  /\ items # <<>> => items[1].id \in nodes
  /\ items = <<>> => nodes = {} /\ edges = <<>> /\ tick = 0

\* What a retrieve finds.
Asked ==
  /\ config \in Configs
  /\ tick \in 0..MaxTick
  /\ \A q \in DOMAIN asked : IsFiniteSet(DOMAIN asked[q].seeds)

\* What the retrieves leave of the links.
Kempt ==
  /\ edges \in Seq(Links(nodes, tick))
  /\ faded \in BOOLEAN
  /\ config.staleAfter >= 2 => ~ faded

-----------------------------------------------------------------------------
(* What the actions do to the links.                                         *)

LEMMA WrittenType ==
  ASSUME NEW corpus \in Corpora
  PROVE  corpus \in Seq(Known)
<1>1. corpus \in Seq(Range(corpus)) /\ Range(corpus) \subseteq Known
  BY GraphArmAssumption DEF Known
<1> HIDE DEF Known
<1> QED BY <1>1

\* What an item names is a list.
LEMMA WantedType ==
  ASSUME NEW item \in Known
  PROVE  Len(Wanted(item)) \in Nat /\ DOMAIN Wanted(item) = 1..Len(Wanted(item))
<1> DEFINE one == <<item.constrains, "constrains">>
           S == Range(item.links) \cup {one}
<1>1. item.links \in Seq(Range(item.links))
  BY GraphArmAssumption DEF Known
<1>2. item.links \in Seq(S)
  BY <1>1
<1>3. <<one>> \in Seq(S) /\ <<>> \in Seq(S)
  <2>1. one \in S
    OBVIOUS
  <2> HIDE DEF one, S
  <2> QED BY <2>1
<1>4. Wanted(item) = (IF item.constrains = NoTarget THEN <<>> ELSE <<one>>) \o item.links
  BY Zenon DEF Wanted
<1> HIDE DEF one, S
<1>5. Wanted(item) \in Seq(S)
  BY <1>2, <1>3, <1>4, ConcatProperties
<1> QED BY <1>5

\* A new link, over the nodes it is built for.
LEMMA LinksType ==
  ASSUME NEW ns, NEW item \in Known, item.id \in ns
  PROVE  LinksOf(item, ns) \in Seq(Links(ns, 0))
<1> DEFINE w == Wanted(item)
           n == Len(w)
           out(i) == (\E j \in 1..i : Refused(w[j], ns)) \/ w[i][1] \notin ns
           part(i) == LET l == w[i] IN IF out(i) THEN <<>> ELSE <<Link(item.id, l[1], l[2])>>
           p == [i \in 1..n |-> part(i)]
<1>1. n \in Nat /\ DOMAIN w = 1..n
  BY WantedType
<1>2. \A i \in 1..n : part(i) \in Seq(Links(ns, 0))
  <2> SUFFICES ASSUME NEW i \in 1..n PROVE part(i) \in Seq(Links(ns, 0))
    OBVIOUS
  <2>1. w[i][2] \in Types
    BY <1>1 DEF Types
  <2> DEFINE l == Link(item.id, w[i][1], w[i][2])
  <2>2. CASE ~ out(i)
    <3>1. /\ l.source = item.id /\ l.target = w[i][1] /\ l.type = w[i][2]
          /\ l.confidence = Unit /\ l.count = 0 /\ l.last = Never
      BY DEF Link
    <3>2. l \in Fields(ns, 0)
      BY <2>1, <2>2, GraphArmAssumption DEF Link, Fields, Never
    <3>3. Fair(l, 0)
      BY <3>1, Fading DEF Fair
    <3>4. l \in Links(ns, 0)
      BY <3>2, <3>3 DEF Links
    <3>5. part(i) = <<l>>
      BY <2>2, Zenon
    <3> HIDE DEF l, part
    <3> QED BY <3>4, <3>5
  <2>3. CASE out(i)
    <3>1. part(i) = <<>>
      BY <2>3, Zenon
    <3> HIDE DEF part
    <3> QED BY <3>1
  <2> QED BY <2>2, <2>3
<1>3. LinksOf(item, ns) = FlattenSeq(p)
  BY <1>1, Zenon DEF LinksOf
<1> HIDE DEF part
<1>4. p \in [1..n -> Seq(Links(ns, 0))]
  BY <1>2
<1> HIDE DEF p, n
<1> QED BY <1>1, <1>3, <1>4, PickedType

\* What the usage of a retrieve and the decay pass after it leave of one link.
Passed(es, seeds, e) == Decayed(Tracked(es, seeds, e), tick + 1)

\* The ends and the type of a link stay; its usage is counted before it decays.
LEMMA PassForm ==
  ASSUME Asked, tick < MaxTick,
         NEW es, NEW seeds, IsFiniteSet(DOMAIN seeds), NEW e, es[e] \in Fields(nodes, tick)
  PROVE  /\ Passed(es, seeds, e) \in Fields(nodes, tick + 1)
         /\ Passed(es, seeds, e).source = es[e].source
         /\ Passed(es, seeds, e).target = es[e].target
         /\ Passed(es, seeds, e).type = es[e].type
         /\ Tracked(es, seeds, e).confidence = es[e].confidence
         /\ Tracked(es, seeds, e).count = es[e].count + Followed(es, seeds, e)
         /\ Tracked(es, seeds, e).last = IF Followed(es, seeds, e) > 0 THEN tick ELSE es[e].last
         /\ Passed(es, seeds, e).count = Tracked(es, seeds, e).count
         /\ Passed(es, seeds, e).last = Tracked(es, seeds, e).last
         /\ Tracked(es, seeds, e).count >= RestoreThreshold
              => Passed(es, seeds, e).confidence >= es[e].confidence
         /\ Tracked(es, seeds, e).count < RestoreThreshold
              => Passed(es, seeds, e).confidence
                   = IF IsStale(Tracked(es, seeds, e), tick + 1)
                     THEN es[e].confidence \div 2 ELSE es[e].confidence
<1> DEFINE l == es[e]
           n == Followed(es, seeds, e)
           u == Tracked(es, seeds, e)
           d == Passed(es, seeds, e)
<1>1. n \in Nat
  BY FollowedMeans
<1>2. /\ tick \in Nat /\ tick + 1 \in 0..MaxTick /\ Unit \in Nat /\ RestoreThreshold \in Nat
  BY GraphArmAssumption DEF Asked
<1>3. l \in Fields(nodes, tick)
  OBVIOUS
<1>4. u = [l EXCEPT !.count = @ + n, !.last = IF n > 0 THEN tick ELSE @]
  BY Zenon DEF Tracked
<1>5. d = Decayed(u, tick + 1)
  BY Zenon DEF Passed
<1> HIDE DEF l, n, u, d
<1>6. /\ l.source \in nodes /\ l.target \in nodes /\ l.type \in Types
      /\ l.confidence \in 0..Unit /\ l.count \in Nat /\ l.last \in Never..(tick - 1)
  BY <1>3 DEF Fields
<1>7. u \in Fields(nodes, tick + 1)
  <2>1. l.count + n \in Nat
    BY <1>1, <1>6
  <2>2. (IF n > 0 THEN tick ELSE l.last) \in Never..((tick + 1) - 1)
    BY <1>1, <1>2, <1>6 DEF Never
  <2>3. u = [source |-> l.source, target |-> l.target, type |-> l.type,
             confidence |-> l.confidence, count |-> l.count + n,
             last |-> IF n > 0 THEN tick ELSE l.last]
    BY <1>3, <1>4 DEF Fields
  <2> QED BY <1>6, <2>1, <2>2, <2>3 DEF Fields
<1>8. /\ u.source = l.source /\ u.target = l.target /\ u.type = l.type
      /\ u.confidence = l.confidence /\ u.count = l.count + n
      /\ u.last = IF n > 0 THEN tick ELSE l.last
  BY <1>3, <1>4 DEF Fields
<1> DEFINE raised == u.confidence + (3 * Unit) \div 8
<1>9. raised >= u.confidence /\ raised \in Nat
  BY <1>2, <1>6, <1>8
<1>10. /\ d \in Fields(nodes, tick + 1)
       /\ d.source = u.source /\ d.target = u.target /\ d.type = u.type
       /\ d.count = u.count /\ d.last = u.last
       /\ d.confidence = IF u.count >= RestoreThreshold
                         THEN IF raised > Unit THEN Unit ELSE raised
                         ELSE IF IsStale(u, tick + 1) THEN u.confidence \div 2 ELSE u.confidence
  <2>1. CASE u.count >= RestoreThreshold
    <3>1. d = [u EXCEPT !.confidence = IF raised > Unit THEN Unit ELSE raised]
      BY <1>5, <2>1 DEF Decayed
    <3>2. (IF raised > Unit THEN Unit ELSE raised) \in 0..Unit
      BY <1>2, <1>9
    <3> HIDE DEF raised
    <3> QED BY <1>7, <2>1, <3>1, <3>2 DEF Fields
  <2>2. CASE ~ (u.count >= RestoreThreshold) /\ IsStale(u, tick + 1)
    <3>1. d = [u EXCEPT !.confidence = u.confidence \div 2]
      BY <1>5, <2>2 DEF Decayed
    <3>2. u.confidence \div 2 \in 0..Unit
      BY <1>2, <1>6, <1>8
    <3> HIDE DEF raised
    <3> QED BY <1>7, <2>2, <3>1, <3>2 DEF Fields
  <2>3. CASE ~ (u.count >= RestoreThreshold) /\ ~ IsStale(u, tick + 1)
    <3>1. d = u
      BY <1>5, <2>3 DEF Decayed
    <3> HIDE DEF raised
    <3> QED BY <1>7, <2>3, <3>1
  <2> QED BY <2>1, <2>2, <2>3
<1> HIDE DEF raised
<1>11. u.count >= RestoreThreshold => d.confidence >= l.confidence
  BY <1>2, <1>6, <1>8, <1>9, <1>10
<1>12. u.count < RestoreThreshold
         => d.confidence = IF IsStale(u, tick + 1) THEN l.confidence \div 2 ELSE l.confidence
  <2>1. u.count \in Nat
    BY <1>1, <1>6, <1>8
  <2> QED BY <1>2, <1>8, <1>10, <2>1
<1> QED BY <1>8, <1>10, <1>11, <1>12 DEF l, n, u, d

\* One never walked has faded once more; with a tick of grace one just walked
\* has not faded.
LEMMA PassKeeps ==
  ASSUME RestoreThreshold > 0, Asked, tick < MaxTick,
         NEW es, NEW seeds, IsFiniteSet(DOMAIN seeds), NEW e, es[e] \in Links(nodes, tick)
  PROVE  /\ Keep(Passed(es, seeds, e)) => Passed(es, seeds, e) \in Links(nodes, tick + 1)
         /\ config.staleAfter >= 2 /\ Tracked(es, seeds, e).count > es[e].count
              => ~ (Passed(es, seeds, e).confidence < es[e].confidence)
<1> DEFINE l == es[e]
           n == Followed(es, seeds, e)
           u == Tracked(es, seeds, e)
           d == Passed(es, seeds, e)
<1>1. n \in Nat
  BY FollowedMeans
<1>2. /\ tick \in Nat /\ tick + 1 \in 0..MaxTick /\ tick \in 0..(MaxTick - 1)
      /\ Unit \in Nat /\ PruneBelow \in Nat /\ RestoreThreshold \in Nat /\ RestoreThreshold > 0
      /\ config.staleAfter \in Int
  BY GraphArmAssumption DEF Asked
<1>3. l \in Fields(nodes, tick) /\ Fair(l, tick)
  BY DEF Links
<1>4. l.confidence \in 0..Unit /\ l.count \in Nat /\ l.last \in Never..(tick - 1)
  BY <1>3 DEF Fields
<1>5. /\ d \in Fields(nodes, tick + 1)
      /\ u.confidence = l.confidence /\ u.count = l.count + n
      /\ u.last = IF n > 0 THEN tick ELSE l.last
      /\ d.count = u.count /\ d.last = u.last
      /\ u.count >= RestoreThreshold => d.confidence >= l.confidence
      /\ u.count < RestoreThreshold
           => d.confidence = IF IsStale(u, tick + 1) THEN l.confidence \div 2 ELSE l.confidence
  BY <1>3, PassForm
<1> HIDE DEF l, n, u, d
<1>6. (u.count = 0) <=> (u.last = Never)
  BY <1>1, <1>2, <1>3, <1>4, <1>5 DEF Fair, Never
<1>7. d.confidence \in 0..Unit /\ d.count \in Nat
  BY <1>5 DEF Fields
<1>8. d.count = 0 => d.confidence = FadedTimes[tick + 1]
  <2> SUFFICES ASSUME d.count = 0 PROVE d.confidence = FadedTimes[tick + 1]
    OBVIOUS
  <2>1. u.count = 0 /\ u.last = Never /\ l.count = 0
    BY <1>1, <1>4, <1>5, <1>6
  <2>2. u.count < RestoreThreshold /\ IsStale(u, tick + 1)
    BY <1>2, <2>1 DEF IsStale
  <2>3. d.confidence = l.confidence \div 2
    BY <1>5, <2>2
  <2>4. l.confidence = FadedTimes[tick]
    BY <1>3, <2>1 DEF Fair
  <2> QED BY <1>2, <2>3, <2>4, Fading
<1>9. Keep(d) => d \in Links(nodes, tick + 1)
  <2> SUFFICES ASSUME Keep(d) PROVE Fair(d, tick + 1)
    BY <1>5 DEF Links
  <2>1. d.count = 0 => d.confidence >= PruneBelow
    BY <1>2, <1>7 DEF Keep
  <2> QED BY <1>5, <1>6, <1>8, <2>1 DEF Fair
<1>10. config.staleAfter >= 2 /\ u.count > l.count => ~ (d.confidence < l.confidence)
  <2> SUFFICES ASSUME config.staleAfter >= 2, u.count > l.count
               PROVE  ~ (d.confidence < l.confidence)
    OBVIOUS
  <2>1. n > 0 /\ u.last = tick /\ u.count \in Nat
    BY <1>1, <1>4, <1>5
  <2>2. ~ IsStale(u, tick + 1)
    BY <1>2, <2>1 DEF IsStale, Never
  <2>3. u.count >= RestoreThreshold \/ u.count < RestoreThreshold
    BY <1>2, <2>1
  <2> QED BY <1>4, <1>5, <1>7, <2>2, <2>3
<1> QED BY <1>9, <1>10 DEF d, u, l

-----------------------------------------------------------------------------
(* The invariant is kept.                                                    *)

Inv == Built /\ Asked /\ Kempt

LEMMA InitInv == Init => Inv
<1> SUFFICES ASSUME Init PROVE Inv
  OBVIOUS
<1>1. Built
  BY DEF Init, Built
<1>2. Asked
  <2>1. DOMAIN asked = {} /\ tick \in 0..MaxTick
    BY GraphArmAssumption DEF Init
  <2> QED BY <2>1 DEF Init, Asked
<1>3. Kempt
  <2>1. edges \in Seq(Links(nodes, tick))
    BY DEF Init
  <2> QED BY <2>1 DEF Init, Kempt
<1> QED BY <1>1, <1>2, <1>3 DEF Inv

\* A write of the first items: from nothing, all links new.
LEMMA FirstWrite ==
  ASSUME Built, NEW corpus \in Corpora, Write(corpus), items = <<>>
  PROVE  Built' /\ tick' = 0 /\ edges' \in Seq(Links(nodes', 0))
<1> DEFINE all == ToAdd(corpus)
           n == Len(all)
           fresh(i) == all[i].id \notin nodes /\ \A j \in 1..(i - 1) : all[j].id # all[i].id
           added == {i \in DOMAIN all : \A j \in 1..i : fresh(j)}
<1>1. nodes = {} /\ edges = <<>> /\ tick = 0 /\ tick' = 0
  BY DEF Built, Write
<1>2. corpus \in Seq(Known) /\ all = corpus /\ items' = corpus
  BY WrittenType DEF ToAdd, Write
<1>3. nodes' = nodes \cup {all[i].id : i \in added}
  BY Zenon DEF Write
<1>4. edges' = IF added = DOMAIN all
               THEN edges \o AllLinks(all, nodes')
               ELSE edges
  BY Zenon DEF Write
<1>5. n \in Nat /\ DOMAIN all = 1..n /\ \A i \in 1..n : all[i] \in Known
  BY <1>2
<1>6. nodes' = {all[i].id : i \in added}
  BY <1>1, <1>3
<1>7. n # 0 => 1 \in added
  <2>1. fresh(1)
    <3>1. 1..(1 - 1) = {}
      OBVIOUS
    <3> QED BY <1>1, <3>1
  <2>2. \A j \in 1..1 : j = 1
    OBVIOUS
  <2> QED BY <1>5, <2>1, <2>2
<1>8. edges' \in Seq(Links(nodes', 0))
  <2>1. CASE added = DOMAIN all
    <3> DEFINE late(i) == \E j \in 1..(i - 1) : Refuses(all[j], nodes')
               p == [i \in 1..n |-> IF late(i) THEN <<>> ELSE LinksOf(all[i], nodes')]
    <3>1. p \in [1..n -> Seq(Links(nodes', 0))]
      <4> SUFFICES ASSUME NEW i \in 1..n PROVE LinksOf(all[i], nodes') \in Seq(Links(nodes', 0))
        <5>1. <<>> \in Seq(Links(nodes', 0))
          OBVIOUS
        <5> HIDE DEF late, all, added, n
        <5> QED BY <5>1
      <4>1. all[i].id \in nodes' /\ all[i] \in Known
        BY <1>5, <1>6, <2>1
      <4> HIDE DEF all, added, n
      <4> QED BY <4>1, LinksType
    <3>2. edges' = <<>> \o FlattenSeq(p)
      <4>1. AllLinks(all, nodes') = FlattenSeq(p)
        BY <1>5, Zenon DEF AllLinks
      <4> QED BY <1>1, <1>4, <2>1, <4>1
    <3> HIDE DEF p, all, added, n
    <3>3. FlattenSeq(p) \in Seq(Links(nodes', 0))
      BY <1>5, <3>1, PickedType
    <3> QED BY <3>2, <3>3
  <2>2. CASE added # DOMAIN all
    BY <1>1, <1>4, <2>2
  <2> QED BY <2>1, <2>2
<1>9. Built'
  <2>1. items' \in Seq(Known) /\ nodes' \subseteq {items'[i].id : i \in DOMAIN items'}
    BY <1>2, <1>6
  <2>2. items' # <<>> => items'[1].id \in nodes'
    BY <1>2, <1>6, <1>7
  <2>3. items' = <<>> => nodes' = {} /\ edges' = <<>> /\ tick' = 0
    <3> SUFFICES ASSUME items' = <<>> PROVE nodes' = {} /\ edges' = <<>>
      BY <1>1
    <3>1. all = <<>> /\ DOMAIN all = {}
      BY <1>2
    <3>2. added = {}
      BY <3>1
    <3>3. AllLinks(all, nodes') = <<>>
      BY <3>1 DEF AllLinks, FlattenSeq
    <3> HIDE DEF all, added, n
    <3> QED BY <1>1, <1>4, <1>6, <3>2, <3>3
  <2> QED BY <2>1, <2>2, <2>3 DEF Built
<1> QED BY <1>1, <1>8, <1>9

\* A later one: the first item is a node already, so nothing is added.
LEMMA LaterWrite ==
  ASSUME Built, NEW corpus \in Corpora, Write(corpus), items # <<>>
  PROVE  UNCHANGED <<nodes, edges>> /\ items' \in Seq(Known) /\ items' # <<>>
         /\ \A i \in DOMAIN items : i \in DOMAIN items' /\ items'[i] = items[i]
<1> DEFINE all == ToAdd(corpus)
           fresh(i) == all[i].id \notin nodes /\ \A j \in 1..(i - 1) : all[j].id # all[i].id
           added == {i \in DOMAIN all : \A j \in 1..i : fresh(j)}
<1>1. items \in Seq(Known) /\ items[1].id \in nodes
  BY DEF Built
<1>2. corpus \in Seq(Known) /\ items' = items \o corpus
  BY WrittenType DEF Write
<1>3. items' \in Seq(Known) /\ items' # <<>>
      /\ \A i \in DOMAIN items : i \in DOMAIN items' /\ items'[i] = items[i]
  BY <1>1, <1>2
<1>4. all = items' /\ 1 \in DOMAIN all /\ DOMAIN all \subseteq Nat /\ all[1].id \in nodes
  <2>1. all = items' /\ 1 \in DOMAIN items
    BY <1>1, <1>2 DEF ToAdd
  <2> QED BY <1>1, <1>3, <2>1
<1>5. added = {}
  <2> SUFFICES ASSUME NEW i \in added PROVE FALSE
    OBVIOUS
  <2>1. i \in Nat /\ i >= 1
    BY <1>3, <1>4
  <2>2. fresh(1)
    BY <2>1
  <2> QED BY <1>4, <2>2
<1>6. nodes' = nodes \cup {all[i].id : i \in added}
  BY Zenon DEF Write
<1>7. edges' = IF added = DOMAIN all
               THEN edges \o AllLinks(all, nodes')
               ELSE edges
  BY Zenon DEF Write
<1> HIDE DEF all, added
<1>8. nodes' = nodes /\ edges' = edges
  BY <1>4, <1>5, <1>6, <1>7
<1> QED BY <1>3, <1>8

LEMMA BuiltStep ==
  ASSUME Built, [Next]_vars
  PROVE  Built'
<1>1. CASE UNCHANGED vars
  BY <1>1 DEF vars, Built
<1>2. ASSUME NEW corpus \in Corpora, Write(corpus), items = <<>> PROVE Built'
  BY <1>2, FirstWrite
<1>3. ASSUME NEW corpus \in Corpora, Write(corpus), items # <<>> PROVE Built'
  <2>1. /\ UNCHANGED <<nodes, edges>> /\ items' \in Seq(Known) /\ items' # <<>>
        /\ \A i \in DOMAIN items : i \in DOMAIN items' /\ items'[i] = items[i]
    BY <1>3, LaterWrite
  <2>2. 1 \in DOMAIN items
    BY <1>3 DEF Built
  <2>3. items'[1].id \in nodes'
    BY <1>3, <2>1, <2>2 DEF Built
  <2>4. nodes' \subseteq {items'[i].id : i \in DOMAIN items'}
    BY <2>1 DEF Built
  <2> QED BY <2>1, <2>3, <2>4 DEF Built
<1>4. ASSUME NEW q \in Queries, Retrieve(q) PROVE Built'
  <2>1. UNCHANGED <<items, nodes>> /\ (items = <<>> => UNCHANGED <<tick, edges>>)
    BY <1>4, Zenon DEF Retrieve
  <2> QED BY <2>1 DEF Built
<1> QED BY <1>1, <1>2, <1>3, <1>4 DEF Next

\* The seeds of a ranking are finitely many.
LEMMA SeedsFinite ==
  ASSUME Built, Asked, NEW seeds \in SeedLists
  PROVE  IsFiniteSet(DOMAIN seeds)
<1> DEFINE k == IF config.seeds < Len(items) THEN config.seeds ELSE Len(items)
<1>1. k \in Int
  BY GraphArmAssumption DEF Built, Asked
<1>2. DOMAIN seeds = 1..k
  BY DEF SeedLists
<1> HIDE DEF k
<1>3. 1 \in Int
  OBVIOUS
<1> QED BY <1>1, <1>2, <1>3, FS_Interval

\* A retrieve, from the seeds it walks from.
Retrieves(q, seeds) ==
  /\ IsFiniteSet(DOMAIN seeds)
  /\ q \in DOMAIN asked => seeds = asked[q].seeds
  /\ asked' = IF q \in DOMAIN asked THEN asked
              ELSE [r \in DOMAIN asked \cup {q} |->
                      IF r = q THEN [seeds |-> seeds, context |-> Context(edges, seeds)]
                      ELSE asked[r]]
  /\ \/ /\ UseDecay /\ items # <<>>
        /\ tick < MaxTick
        /\ tick' = tick + 1
        /\ edges' = FlattenSeq([e \in DOMAIN edges |->
                      IF Keep(Passed(edges, seeds, e)) THEN <<Passed(edges, seeds, e)>> ELSE <<>>])
        /\ faded' = (faded \/ \E e \in DOMAIN edges :
                       /\ Tracked(edges, seeds, e).count > edges[e].count
                       /\ Passed(edges, seeds, e).confidence < edges[e].confidence)
     \/ /\ ~ (UseDecay /\ items # <<>>)
        /\ UNCHANGED <<tick, edges, faded>>
  /\ UNCHANGED <<config, items, nodes>>

LEMMA RetrieveMeans ==
  ASSUME Built, Asked, NEW q \in Queries, Retrieve(q)
  PROVE  \E seeds : Retrieves(q, seeds)
<1>1. PICK seeds \in IF q \in DOMAIN asked THEN {asked[q].seeds} ELSE SeedLists :
        /\ asked' = IF q \in DOMAIN asked THEN asked
                    ELSE [r \in DOMAIN asked \cup {q} |->
                            IF r = q THEN [seeds |-> seeds, context |-> Context(edges, seeds)]
                            ELSE asked[r]]
        /\ IF UseDecay /\ items # <<>>
           THEN LET tracked == [e \in DOMAIN edges |-> Tracked(edges, seeds, e)]
                    decayed == [e \in DOMAIN edges |-> Decayed(tracked[e], tick + 1)]
                IN  /\ tick < MaxTick
                    /\ tick' = tick + 1
                    /\ edges' = FlattenSeq([e \in DOMAIN edges |->
                                            IF Keep(decayed[e]) THEN <<decayed[e]>> ELSE <<>>])
                    /\ faded' = (faded \/ \E e \in DOMAIN edges :
                                   /\ tracked[e].count > edges[e].count
                                   /\ decayed[e].confidence < edges[e].confidence)
           ELSE UNCHANGED <<tick, edges, faded>>
  BY Zenon DEF Retrieve
<1>2. UNCHANGED <<config, items, nodes>>
  BY DEF Retrieve
<1>3. IsFiniteSet(DOMAIN seeds) /\ (q \in DOMAIN asked => seeds = asked[q].seeds)
  <2>1. CASE q \in DOMAIN asked
    BY <1>1, <2>1 DEF Asked
  <2>2. CASE q \notin DOMAIN asked
    BY <1>1, <2>2, SeedsFinite
  <2> QED BY <2>1, <2>2
<1>4. CASE UseDecay /\ items # <<>>
  <2>1. /\ tick < MaxTick
        /\ tick' = tick + 1
        /\ edges' = FlattenSeq([e \in DOMAIN edges |->
                      IF Keep(Passed(edges, seeds, e)) THEN <<Passed(edges, seeds, e)>> ELSE <<>>])
        /\ faded' = (faded \/ \E e \in DOMAIN edges :
                       /\ Tracked(edges, seeds, e).count > edges[e].count
                       /\ Passed(edges, seeds, e).confidence < edges[e].confidence)
    BY <1>1, <1>4 DEF Passed
  <2>2. Retrieves(q, seeds)
    BY <1>1, <1>2, <1>3, <1>4, <2>1 DEF Retrieves
  <2> QED BY <2>2
<1>5. CASE ~ (UseDecay /\ items # <<>>)
  <2>1. UNCHANGED <<tick, edges, faded>>
    BY <1>1, <1>5
  <2>2. Retrieves(q, seeds)
    BY <1>1, <1>2, <1>3, <1>5, <2>1 DEF Retrieves
  <2> QED BY <2>2
<1> QED BY <1>4, <1>5

LEMMA AskedStep ==
  ASSUME Built, Asked, [Next]_vars
  PROVE  Asked'
<1>1. CASE UNCHANGED vars
  BY <1>1 DEF vars, Asked
<1>2. ASSUME NEW corpus \in Corpora, Write(corpus) PROVE Asked'
  <2>1. asked' = <<>> /\ UNCHANGED <<config, tick>>
    BY <1>2 DEF Write
  <2>2. DOMAIN asked' = {}
    BY <2>1
  <2> QED BY <2>1, <2>2 DEF Asked
<1>3. ASSUME NEW q \in Queries, Retrieve(q) PROVE Asked'
  <2>1. PICK seeds : Retrieves(q, seeds)
    BY <1>3, RetrieveMeans
  <2>2. tick' \in 0..MaxTick
    BY <2>1, GraphArmAssumption DEF Retrieves, Asked
  <2>3. \A r \in DOMAIN asked' : IsFiniteSet(DOMAIN asked'[r].seeds)
    BY <2>1 DEF Retrieves, Asked
  <2> QED BY <2>1, <2>2, <2>3 DEF Retrieves, Asked
<1> QED BY <1>1, <1>2, <1>3 DEF Next

LEMMA WriteKempt ==
  ASSUME Inv, NEW corpus \in Corpora, Write(corpus)
  PROVE  Kempt'
<1>1. UNCHANGED <<config, tick, faded>>
  BY DEF Write
<1>2. edges' \in Seq(Links(nodes', tick'))
  <2>1. CASE items = <<>>
    BY <2>1, FirstWrite DEF Inv
  <2>2. CASE items # <<>>
    <3>1. UNCHANGED <<nodes, edges>>
      BY <2>2, LaterWrite DEF Inv
    <3> QED BY <1>1, <3>1 DEF Inv, Kempt
  <2> QED BY <2>1, <2>2
<1> QED BY <1>1, <1>2 DEF Inv, Kempt

\* The decay pass over all links.
LEMMA PassInv ==
  ASSUME RestoreThreshold > 0, Inv, NEW seeds, IsFiniteSet(DOMAIN seeds), tick < MaxTick,
         tick' = tick + 1, UNCHANGED <<config, nodes>>,
         edges' = FlattenSeq([e \in DOMAIN edges |->
                    IF Keep(Passed(edges, seeds, e)) THEN <<Passed(edges, seeds, e)>> ELSE <<>>]),
         faded' = (faded \/ \E e \in DOMAIN edges :
                     /\ Tracked(edges, seeds, e).count > edges[e].count
                     /\ Passed(edges, seeds, e).confidence < edges[e].confidence)
  PROVE  Kempt'
<1> DEFINE n == Len(edges)
           part(e) == IF Keep(Passed(edges, seeds, e)) THEN <<Passed(edges, seeds, e)>> ELSE <<>>
           p == [e \in 1..n |-> part(e)]
           now == Links(nodes', tick')
<1>1. n \in Nat /\ DOMAIN edges = 1..n /\ \A e \in 1..n : edges[e] \in Links(nodes, tick)
  BY DEF Inv, Kempt
<1>2. \A e \in 1..n :
        /\ Keep(Passed(edges, seeds, e)) => Passed(edges, seeds, e) \in now
        /\ config.staleAfter >= 2 /\ Tracked(edges, seeds, e).count > edges[e].count
             => ~ (Passed(edges, seeds, e).confidence < edges[e].confidence)
  BY <1>1, PassKeeps DEF Inv
<1> HIDE DEF now
<1>3. \A e \in 1..n : part(e) \in Seq(now)
  <2> SUFFICES ASSUME NEW e \in 1..n PROVE part(e) \in Seq(now)
    OBVIOUS
  <2>1. CASE Keep(Passed(edges, seeds, e))
    <3>1. part(e) = <<Passed(edges, seeds, e)>> /\ Passed(edges, seeds, e) \in now
      BY <1>2, <2>1
    <3> HIDE DEF part
    <3> QED BY <3>1
  <2>2. CASE ~ Keep(Passed(edges, seeds, e))
    <3>1. part(e) = <<>>
      BY <2>2
    <3> HIDE DEF part
    <3> QED BY <3>1
  <2> QED BY <2>1, <2>2
<1>4. edges' = FlattenSeq(p)
  BY <1>1, Zenon
<1> HIDE DEF part
<1>5. p \in [1..n -> Seq(now)]
  BY <1>3
<1>6. edges' \in Seq(now)
  <2> HIDE DEF p, n
  <2> QED BY <1>1, <1>4, <1>5, PickedType
<1>7. faded' \in BOOLEAN
  BY DEF Inv, Kempt
<1>8. config'.staleAfter >= 2 => ~ faded'
  <2> SUFFICES ASSUME config.staleAfter >= 2, faded' PROVE FALSE
    OBVIOUS
  <2>1. ~ faded
    BY DEF Inv, Kempt
  <2>2. PICK e \in DOMAIN edges :
          /\ Tracked(edges, seeds, e).count > edges[e].count
          /\ Passed(edges, seeds, e).confidence < edges[e].confidence
    BY <2>1
  <2>3. e \in 1..n
    BY <1>1
  <2> QED BY <1>2, <2>2, <2>3
<1> QED BY <1>6, <1>7, <1>8 DEF Kempt, now

LEMMA RetrieveKempt ==
  ASSUME RestoreThreshold > 0, Inv, NEW q \in Queries, Retrieve(q)
  PROVE  Kempt'
<1>1. PICK seeds : Retrieves(q, seeds)
  BY RetrieveMeans DEF Inv
<1>2. CASE UseDecay /\ items # <<>>
  BY <1>1, <1>2, PassInv DEF Retrieves
<1>3. CASE ~ (UseDecay /\ items # <<>>)
  BY <1>1, <1>3 DEF Retrieves, Inv, Kempt
<1> QED BY <1>2, <1>3

LEMMA NextInv ==
  ASSUME RestoreThreshold > 0, Inv, [Next]_vars
  PROVE  Inv'
<1>1. Built' /\ Asked'
  BY BuiltStep, AskedStep DEF Inv
<1>2. CASE Next
  BY <1>1, <1>2, WriteKempt, RetrieveKempt DEF Next, Inv
<1>3. CASE UNCHANGED vars
  BY <1>1, <1>3 DEF vars, Inv, Kempt
<1> QED BY <1>2, <1>3

-----------------------------------------------------------------------------
(* The answers stay.                                                         *)

\* The links of the arm under any policy.
Formed == edges \in Seq(Fields(nodes, tick))

\* The walks from these seeds have been counted on every link they follow.
Walked(ns, h, es, seeds) ==
  \A i \in DOMAIN seeds, e \in DOMAIN es : FollowsIn(ns, h, es, seeds[i], e) => es[e].count > 0

\* What was asked is answered as it was, by links that all have been walked.
Settled ==
  \A q \in DOMAIN asked :
    /\ ContextIn(nodes, Hops, edges, asked[q].seeds) = asked[q].context
    /\ UseDecay => Walked(nodes, Hops, edges, asked[q].seeds)

Sound == Built /\ Asked /\ Formed /\ Settled

\* The arm's answer is the one compared across a step.
LEMMA ContextMeans ==
  ASSUME NEW es, NEW seeds
  PROVE  Context(es, seeds) = ContextIn(nodes, Hops, es, seeds)
<1>1. ASSUME NEW s PROVE FromSeed(es, s) = FromSeedIn(nodes, Hops, es, s)
  <2> DEFINE one == <<s>>
             decisions == {es[e].target : e \in {f \in DOMAIN es :
                             es[f].type = "constrains" /\ Followed(es, one, f) > 0}}
             walk == WalkOrder(GraphOf(nodes, es), one, Hops)
  <2>1. IsFiniteSet(DOMAIN one)
    <3>1. DOMAIN one = 1..1 /\ 1 \in Int
      OBVIOUS
    <3> QED BY <3>1, FS_Interval
  <2>2. DOMAIN one = {1} /\ one[1] = s
    OBVIOUS
  <2> HIDE DEF one
  <2>3. \A f : Followed(es, one, f) > 0 <=> FollowsIn(nodes, Hops, es, s, f)
    <3> SUFFICES ASSUME NEW f
                 PROVE  Followed(es, one, f) > 0 <=> FollowsIn(nodes, Hops, es, s, f)
      OBVIOUS
    <3>1. Followed(es, one, f) > 0
            <=> \E i \in DOMAIN one : FollowsIn(nodes, Hops, es, one[i], f)
      BY <2>1, FollowedMeans
    <3> QED BY <2>2, <3>1
  <2>4. decisions = DecisionsIn(nodes, Hops, es, s)
    BY <2>3, Zenon DEF DecisionsIn
  <2>5. FromSeed(es, s) = Picked(walk, decisions, s)
    BY Zenon DEF FromSeed, Picked, one
  <2> QED BY <2>4, <2>5 DEF FromSeedIn, one
<1>2. [i \in DOMAIN seeds |-> FromSeed(es, seeds[i])]
        = [i \in DOMAIN seeds |-> FromSeedIn(nodes, Hops, es, seeds[i])]
  BY <1>1
<1> QED BY <1>2 DEF Context, ContextIn

LEMMA HopsType ==
  ASSUME Asked
  PROVE  Hops \in Nat /\ Hops > 0
<1>1. config.hops \in Int
  BY GraphArmAssumption DEF Asked
<1> QED BY <1>1 DEF Hops, Clamp, MAX_HOPS_LIMIT

\* A pass lets go of no link that the walks from these seeds follow, once they
\* have been counted on it: so they answer the same.
LEMMA PassSettles ==
  ASSUME Asked, Formed, tick < MaxTick, NEW seeds, IsFiniteSet(DOMAIN seeds),
         NEW fs, fs = FlattenSeq([e \in DOMAIN edges |->
           IF Keep(Passed(edges, seeds, e)) THEN <<Passed(edges, seeds, e)>> ELSE <<>>]),
         NEW others, \A i \in DOMAIN others, e \in DOMAIN edges :
           FollowsIn(nodes, Hops, edges, others[i], e) => Tracked(edges, seeds, e).count > 0
  PROVE  /\ ContextIn(nodes, Hops, fs, others) = ContextIn(nodes, Hops, edges, others)
         /\ Walked(nodes, Hops, fs, others)
<1> DEFINE n == Len(edges)
           E == Fields(nodes, tick + 1)
           d == [e \in 1..n |-> Passed(edges, seeds, e)]
           K == {e \in 1..n : Keep(d[e])}
           p == [e \in 1..n |-> IF e \in K THEN <<d[e]>> ELSE <<>>]
<1>1. n \in Nat /\ DOMAIN edges = 1..n /\ \A e \in 1..n : edges[e] \in Fields(nodes, tick)
  BY DEF Formed
<1>2. \A e \in 1..n :
        /\ d[e] \in E
        /\ d[e].source = edges[e].source /\ d[e].target = edges[e].target
        /\ d[e].type = edges[e].type /\ d[e].count = Tracked(edges, seeds, e).count
  <2> SUFFICES ASSUME NEW e \in 1..n
               PROVE  /\ d[e] \in E
                      /\ d[e].source = edges[e].source /\ d[e].target = edges[e].target
                      /\ d[e].type = edges[e].type /\ d[e].count = Tracked(edges, seeds, e).count
    OBVIOUS
  <2>1. d[e] = Passed(edges, seeds, e) /\ edges[e] \in Fields(nodes, tick)
    BY <1>1
  <2> HIDE DEF d
  <2> QED BY <2>1, PassForm
<1>3. \A e \in 1..n : edges[e] \in E
  <2>1. tick \in Nat /\ Never..(tick - 1) \subseteq Never..((tick + 1) - 1)
    BY GraphArmAssumption DEF Asked, Never
  <2> QED BY <1>1, <2>1 DEF Fields
<1>4. \A l \in E : l.source \in nodes /\ l.target \in nodes
  BY DEF Fields
<1>5. fs = FlattenSeq(p)
  <2>1. \A e \in DOMAIN edges :
          (IF Keep(Passed(edges, seeds, e)) THEN <<Passed(edges, seeds, e)>> ELSE <<>>) = p[e]
    BY <1>1
  <2>2. p = [e \in DOMAIN edges |-> p[e]]
    BY <1>1
  <2> HIDE DEF p
  <2> QED BY <2>1, <2>2
<1> HIDE DEF E
<1>6. /\ d \in [1..n -> E] /\ edges \in [1..n -> E]
  <2>1. edges \in [1..n -> E]
    BY <1>1, <1>3 DEF Formed
  <2> QED BY <1>2, <2>1
<1>7. \A i \in 1..n : p[i] = IF i \in K THEN <<d[i]>> ELSE <<>>
  OBVIOUS
<1>8. p \in Lists(n, E)
  <2>1. \A e \in 1..n : p[e] \in Seq(E)
    <3> SUFFICES ASSUME NEW e \in 1..n PROVE p[e] \in Seq(E)
      OBVIOUS
    <3>1. d[e] \in E
      BY <1>2
    <3>2. p[e] = <<d[e]>> \/ p[e] = <<>>
      BY <1>7
    <3> HIDE DEF p, d, K
    <3>3. <<d[e]>> \in Seq(E) /\ <<>> \in Seq(E)
      BY <3>1
    <3> QED BY <3>2, <3>3
  <2>2. p = [e \in 1..n |-> p[e]]
    OBVIOUS
  <2> HIDE DEF p, d, K
  <2> QED BY <2>1, <2>2 DEF Lists
<1>9. \A e \in 1..n : Tracked(edges, seeds, e).count > 0 => e \in K
  <2> SUFFICES ASSUME NEW e \in 1..n, Tracked(edges, seeds, e).count > 0 PROVE Keep(d[e])
    OBVIOUS
  <2>1. d[e].count > 0
    BY <1>2
  <2> HIDE DEF d
  <2> QED BY <2>1 DEF Keep
<1> HIDE DEF n, d, K, p
<1>10. Wears(fs, edges, d, K, n, nodes, E)
  BY <1>1, <1>2, <1>4, <1>5, <1>6, <1>7, <1>8 DEF Wears
<1>11. Hops \in Nat /\ Hops > 0
  BY HopsType
<1>12. \A i \in DOMAIN others : Safe(edges, K, n, nodes, Hops, others[i])
  BY <1>1, <1>9 DEF Safe
<1> DEFINE h == Hops
           N == nodes
           es == edges
<1>13. ContextIn(N, h, fs, others) = ContextIn(N, h, es, others)
  <2>1. h \in Nat /\ h > 0 /\ Wears(fs, es, d, K, n, N, E)
        /\ \A i \in DOMAIN others : Safe(es, K, n, N, h, others[i])
    BY <1>10, <1>11, <1>12
  <2> HIDE DEF h, N, es
  <2> QED BY <2>1, WornAnswers
<1>14. ASSUME NEW i \in DOMAIN others, NEW j \in DOMAIN fs, FollowsIn(nodes, Hops, fs, others[i], j)
       PROVE  fs[j].count > 0
  <2>1. PICK e \in 1..n : fs[j] = d[e]
    BY <1>10, WornLeft
  <2> DEFINE s == others[i]
  <2>2. ExpandsIn(N, h, fs, s) = ExpandsIn(N, h, es, s)
    <3>1. h \in Nat /\ h > 0 /\ Wears(fs, es, d, K, n, N, E) /\ Safe(es, K, n, N, h, s)
      BY <1>10, <1>11, <1>12
    <3> HIDE DEF h, N, es, s
    <3>2. ExpandsIn(N, h, fs, s) = ExpandsIn(N, h, es, s)
          /\ WalkOrder(GraphOf(N, fs), <<s>>, h) = WalkOrder(GraphOf(N, es), <<s>>, h)
      BY <3>1, WornAlike
    <3> QED BY <3>2
  <2>3. FollowsIn(nodes, Hops, edges, others[i], e)
    BY <1>2, <1>14, <2>1, <2>2 DEF FollowsIn
  <2>4. Tracked(edges, seeds, e).count > 0
    BY <1>1, <2>1, <2>3
  <2> QED BY <1>2, <2>1, <2>4
<1>15. Walked(nodes, Hops, fs, others)
  BY <1>14 DEF Walked
<1> QED BY <1>13, <1>15

\* The links that the walks of this retrieve follow are counted in it, those of
\* earlier ones were before.
LEMMA PassCounts ==
  ASSUME Asked, Formed, tick < MaxTick, NEW seeds, IsFiniteSet(DOMAIN seeds), NEW e \in DOMAIN edges
  PROVE  /\ edges[e].count > 0 => Tracked(edges, seeds, e).count > 0
         /\ \A i \in DOMAIN seeds :
              FollowsIn(nodes, Hops, edges, seeds[i], e) => Tracked(edges, seeds, e).count > 0
<1>1. edges[e] \in Fields(nodes, tick)
  BY DEF Formed
<1>2. edges[e].count \in Nat
  BY <1>1 DEF Fields
<1>3. Tracked(edges, seeds, e).count = edges[e].count + Followed(edges, seeds, e)
  BY <1>1, PassForm
<1>4. /\ Followed(edges, seeds, e) \in Nat
      /\ Followed(edges, seeds, e) > 0
           <=> \E i \in DOMAIN seeds : FollowsIn(nodes, Hops, edges, seeds[i], e)
  BY FollowedMeans
<1> QED BY <1>2, <1>3, <1>4

LEMMA InitSound == Init => Sound
<1> SUFFICES ASSUME Init PROVE Sound
  OBVIOUS
<1>1. Built /\ Asked
  BY InitInv DEF Inv
<1>2. edges = <<>> /\ DOMAIN asked = {}
  BY DEF Init
<1> QED BY <1>1, <1>2 DEF Sound, Formed, Settled

LEMMA FormedStep ==
  ASSUME Sound, [Next]_vars
  PROVE  Formed'
<1>1. CASE UNCHANGED vars
  BY <1>1 DEF vars, Sound, Formed
<1>2. ASSUME NEW corpus \in Corpora, Write(corpus), items = <<>> PROVE Formed'
  <2>1. tick' = 0 /\ edges' \in Seq(Links(nodes', 0))
    BY <1>2, FirstWrite DEF Sound
  <2>2. Links(nodes', 0) \subseteq Fields(nodes', 0)
    BY DEF Links
  <2>3. edges' \in Seq(Fields(nodes', 0))
    BY <2>1, <2>2
  <2> QED BY <2>1, <2>3 DEF Formed
<1>3. ASSUME NEW corpus \in Corpora, Write(corpus), items # <<>> PROVE Formed'
  <2>1. UNCHANGED <<nodes, edges, tick>>
    BY <1>3, LaterWrite DEF Sound, Write
  <2> QED BY <2>1 DEF Sound, Formed
<1>4. ASSUME NEW q \in Queries, Retrieve(q) PROVE Formed'
  <2>1. PICK seeds : Retrieves(q, seeds)
    BY <1>4, RetrieveMeans DEF Sound
  <2>2. CASE ~ (UseDecay /\ items # <<>>)
    BY <2>1, <2>2 DEF Retrieves, Sound, Formed
  <2>3. CASE UseDecay /\ items # <<>>
    <3> DEFINE n == Len(edges)
               part(e) == IF Keep(Passed(edges, seeds, e)) THEN <<Passed(edges, seeds, e)>> ELSE <<>>
               p == [e \in 1..n |-> part(e)]
               E == Fields(nodes, tick + 1)
    <3>1. n \in Nat /\ DOMAIN edges = 1..n /\ \A e \in 1..n : edges[e] \in Fields(nodes, tick)
      BY DEF Sound, Formed
    <3>2. tick' = tick + 1 /\ nodes' = nodes /\ tick < MaxTick /\ IsFiniteSet(DOMAIN seeds)
          /\ edges' = FlattenSeq(p)
      BY <2>1, <2>3, <3>1 DEF Retrieves
    <3>3. \A e \in 1..n : part(e) \in Seq(E)
      <4> SUFFICES ASSUME NEW e \in 1..n PROVE part(e) \in Seq(E)
        OBVIOUS
      <4>1. Passed(edges, seeds, e) \in E
        BY <3>1, <3>2, PassForm DEF Sound
      <4>2. part(e) = <<Passed(edges, seeds, e)>> \/ part(e) = <<>>
        BY Zenon
      <4> HIDE DEF part, E
      <4>3. <<Passed(edges, seeds, e)>> \in Seq(E) /\ <<>> \in Seq(E)
        BY <4>1
      <4> QED BY <4>2, <4>3
    <3> HIDE DEF part, E, n
    <3>4. p \in [1..n -> Seq(E)]
      BY <3>3
    <3> HIDE DEF p
    <3>5. FlattenSeq(p) \in Seq(E)
      BY <3>1, <3>4, PickedType
    <3> QED BY <3>2, <3>5 DEF Formed, E
  <2> QED BY <2>2, <2>3
<1> QED BY <1>1, <1>2, <1>3, <1>4 DEF Next

LEMMA SettledStep ==
  ASSUME Sound, [Next]_vars
  PROVE  Settled'
<1>1. CASE UNCHANGED vars
  BY <1>1 DEF vars, Sound, Settled, Hops
<1>2. ASSUME NEW corpus \in Corpora, Write(corpus) PROVE Settled'
  <2>1. DOMAIN asked' = {}
    BY <1>2 DEF Write
  <2> QED BY <2>1 DEF Settled
<1>3. ASSUME NEW q \in Queries, Retrieve(q) PROVE Settled'
  <2>1. PICK seeds : Retrieves(q, seeds)
    BY <1>3, RetrieveMeans DEF Sound
  <2>2. UNCHANGED <<config, items, nodes>> /\ Hops' = Hops
    BY <2>1 DEF Retrieves, Hops
  <2>3. ASSUME NEW r \in DOMAIN asked'
        PROVE  /\ ContextIn(nodes, Hops, edges, asked'[r].seeds) = asked'[r].context
               /\ asked'[r].seeds = seeds \/ (UseDecay => Walked(nodes, Hops, edges, asked'[r].seeds))
    <3>1. CASE q \notin DOMAIN asked /\ r = q
      <4>1. asked'[r] = [seeds |-> seeds, context |-> Context(edges, seeds)]
        BY <2>1, <3>1 DEF Retrieves
      <4>2. asked'[r].seeds = seeds /\ asked'[r].context = Context(edges, seeds)
        BY <4>1
      <4> QED BY <4>2, ContextMeans
    <3>2. CASE q \in DOMAIN asked \/ r # q
      <4>1. r \in DOMAIN asked /\ asked'[r] = asked[r]
        BY <2>1, <3>2 DEF Retrieves
      <4> QED BY <4>1 DEF Sound, Settled
    <3> QED BY <3>1, <3>2
  <2>4. CASE UseDecay /\ items # <<>>
    <3>1. /\ IsFiniteSet(DOMAIN seeds) /\ tick < MaxTick
          /\ edges' = FlattenSeq([e \in DOMAIN edges |->
               IF Keep(Passed(edges, seeds, e)) THEN <<Passed(edges, seeds, e)>> ELSE <<>>])
      BY <2>1, <2>4 DEF Retrieves
    <3>2. PICK fs : fs = edges'
      OBVIOUS
    <3>3. ASSUME NEW r \in DOMAIN asked'
          PROVE  /\ ContextIn(nodes, Hops, fs, asked'[r].seeds) = asked'[r].context
                 /\ Walked(nodes, Hops, fs, asked'[r].seeds)
      <4>1. PICK others : others = asked'[r].seeds
        OBVIOUS
      <4>2. \A i \in DOMAIN others, e \in DOMAIN edges :
              FollowsIn(nodes, Hops, edges, others[i], e) => Tracked(edges, seeds, e).count > 0
        <5>1. CASE others = seeds
          BY <3>1, <5>1, PassCounts DEF Sound
        <5>2. CASE Walked(nodes, Hops, edges, others)
          BY <3>1, <5>2, PassCounts DEF Sound, Walked
        <5> QED BY <2>3, <2>4, <4>1, <5>1, <5>2
      <4>3. /\ ContextIn(nodes, Hops, fs, others) = ContextIn(nodes, Hops, edges, others)
            /\ Walked(nodes, Hops, fs, others)
        BY <3>1, <3>2, <4>2, PassSettles DEF Sound
      <4> QED BY <2>3, <4>1, <4>3
    <3> QED BY <2>2, <3>2, <3>3 DEF Settled
  <2>5. CASE ~ (UseDecay /\ items # <<>>)
    <3>1. edges' = edges
      BY <2>1, <2>5 DEF Retrieves
    <3>2. \A s : UseDecay => Walked(nodes, Hops, edges, s)
      BY <2>5 DEF Sound, Built, Walked
    <3> QED BY <2>2, <2>3, <3>1, <3>2 DEF Settled
  <2> QED BY <2>4, <2>5
<1> QED BY <1>1, <1>2, <1>3 DEF Next

-----------------------------------------------------------------------------
(* The theorems.                                                             *)

LEMMA InvFades == Inv => FadesUnused
<1> SUFFICES ASSUME Inv PROVE FadesUnused
  OBVIOUS
<1>1. \A e \in DOMAIN edges : edges[e] \in Fields(nodes, tick) /\ Fair(edges[e], tick)
  BY DEF Inv, Kempt, Links
<1>2. TypeOK
  <2>1. nodes \subseteq {items[i].id : i \in DOMAIN items} /\ tick \in Nat /\ faded \in BOOLEAN
    BY DEF Inv, Built, Asked, Kempt
  <2>2. ASSUME NEW e \in DOMAIN edges
        PROVE  /\ edges[e].source \in nodes /\ edges[e].target \in nodes
               /\ edges[e].confidence \in 0..Unit
               /\ edges[e].last \in Never..(tick - 1)
               /\ (edges[e].count = 0) <=> (edges[e].last = Never)
    BY <1>1 DEF Fields, Fair
  <2> QED BY <2>1, <2>2 DEF TypeOK
<1>3. \A e \in DOMAIN edges :
        edges[e].count = 0 => /\ edges[e].confidence = FadedTimes[tick]
                              /\ tick > 0 => edges[e].confidence >= PruneBelow
  BY <1>1 DEF Fair
<1> QED BY <1>2, <1>3 DEF FadesUnused, Inv, Kempt

\* Under every policy that asks for some use before it restores a link, a link
\* no walk has followed has faded once for every retrieve and leaves once it is
\* below the bound, and with two ticks of grace no retrieve lowers a link it has
\* just followed (arm.py's retrieve, decay.py's apply_decay).
THEOREM UnusedFades == RestoreThreshold > 0 => (Spec => []FadesUnused)
<1> SUFFICES ASSUME RestoreThreshold > 0 PROVE Spec => []FadesUnused
  OBVIOUS
<1>1. Inv /\ [Next]_vars => Inv'
  BY NextInv
<1> QED BY InitInv, <1>1, InvFades, PTL DEF Spec

\* Under every policy, for all corpora: once the arm holds an item no write
\* changes its graph, because the first item is a node already and add_node
\* raises on it before any edge is added (arm.py's write).
THEOREM BuiltOnce == Spec => GraphBuiltOnce
<1>1. Init => Built
  BY InitInv DEF Inv
<1>2. Built /\ [Next]_vars => Built'
  BY BuiltStep
<1>3. Built /\ [Next]_vars => [items # <<>> /\ items' # items => UNCHANGED <<nodes, edges>>]_vars
  <2> SUFFICES ASSUME Built, Next, items # <<>>, items' # items PROVE UNCHANGED <<nodes, edges>>
    OBVIOUS
  <2>1. ASSUME NEW q \in Queries, Retrieve(q) PROVE FALSE
    BY <2>1, Zenon DEF Retrieve
  <2>2. ASSUME NEW corpus \in Corpora, Write(corpus) PROVE UNCHANGED <<nodes, edges>>
    BY <2>2, LaterWrite
  <2> QED BY <2>1, <2>2 DEF Next
<1> QED BY <1>1, <1>2, <1>3, PTL DEF Spec, GraphBuiltOnce

\* Under every policy, for all corpora, rankings and questions: a decay pass never
\* lets go of a link that the answer to an earlier question rests on, so the arm
\* answers it as it did the first time, until the next write (arm.py's retrieve
\* counts what it walks before apply_decay prunes what nothing has used).
THEOREM AnswersStable == Spec => []StableAnswers
<1>1. Sound /\ [Next]_vars => Sound'
  BY BuiltStep, AskedStep, FormedStep, SettledStep DEF Sound
<1>2. Sound => StableAnswers
  BY ContextMeans DEF Sound, Settled, StableAnswers
<1> QED BY InitSound, <1>1, <1>2, PTL DEF Spec

=============================================================================
