---------------------------- MODULE Commands_proofs ----------------------------
(***************************************************************************)
(* Proofs about Commands and the sweeps it runs, for every set of datasets, *)
(* arms and requests and any number of commands; and, at the end, about the *)
(* parallel sweep, for every list of jobs and any number of workers.        *)
(***************************************************************************)
EXTENDS Commands, SweepParallel, FiniteSetTheorems, SequenceTheorems, WellFoundedInduction, TLAPS

-----------------------------------------------------------------------------
(* Induction over sequences, stated of sets.                                 *)

LEMMA Least ==
  ASSUME NEW T \in SUBSET Nat, T # {}
  PROVE  \E x \in T : \A y \in T : x <= y
<1> DEFINE R == {ss \in Nat \X Nat : ss[1] < ss[2]}
<1>1. IsWellFoundedOn(R, Nat)
  BY NatLessThanWellFounded, Zenon DEF OpToRel
<1>2. \E x \in T : \A y \in T : ~ (<<y, x>> \in R)
  <2> HIDE DEF R
  <2> QED BY <1>1, WFMin
<1>3. PICK x \in T : \A y \in T : ~ (<<y, x>> \in R)
  BY <1>2
<1>4. \A y \in T : ~ (y < x)
  BY <1>3
<1> QED BY <1>4

\* What holds of the empty sequence, and of a sequence with one more element
\* whenever it holds of the sequence, holds of all.
LEMMA Growing ==
  ASSUME NEW S, NEW P, <<>> \in P, \A s \in Seq(S) : \A x \in S : s \in P => Append(s, x) \in P
  PROVE  Seq(S) \subseteq P
<1> DEFINE T == {n \in Nat : \E s \in Seq(S) : Len(s) = n /\ s \notin P}
<1> SUFFICES ASSUME NEW z \in Seq(S), z \notin P PROVE FALSE
  OBVIOUS
<1>1. PICK n \in T : \A m \in T : n <= m
  <2>1. T \in SUBSET Nat /\ T # {}
    BY LenProperties
  <2> HIDE DEF T
  <2> QED BY <2>1, Least
<1>2. PICK s \in Seq(S) : Len(s) = n /\ s \notin P
  OBVIOUS
<1>3. PICK t \in Seq(S), x \in S : s = Append(t, x)
  BY <1>2, SequenceEmptyOrAppend
<1>4. t \notin P
  BY <1>2, <1>3
<1>5. Len(t) \in Nat /\ Len(s) = Len(t) + 1
  BY <1>3
<1> QED BY <1>1, <1>2, <1>4, <1>5

-----------------------------------------------------------------------------
(* FlattenSeq                                                                *)

IsFlat(s, f) == f = [i \in 1..Len(s) |-> IF i = 1 THEN s[i] ELSE f[i - 1] \o s[i]]

LEMMA FlatValues ==
  ASSUME NEW s, NEW f, IsFlat(s, f)
  PROVE  \A i \in 1..Len(s) : f[i] = IF i = 1 THEN s[i] ELSE f[i - 1] \o s[i]
<1> DEFINE body(i) == IF i = 1 THEN s[i] ELSE f[i - 1] \o s[i]
<1>1. f = [i \in 1..Len(s) |-> body(i)]
  BY DEF IsFlat
<1> HIDE DEF body
<1>2. \A i \in 1..Len(s) : f[i] = body(i)
  BY <1>1
<1> QED BY <1>2 DEF body

\* The recursion of FlattenSeq has a solution.
LEMMA FlatExists ==
  ASSUME NEW S, NEW s \in Seq(S)
  PROVE  \E f : IsFlat(s, f)
<1> DEFINE P == {t \in Seq(S) : \E f : IsFlat(t, f)}
<1>1. <<>> \in P
  <2> DEFINE f == <<>>
  <2>1. f = [i \in 1..Len(<<>>) |-> IF i = 1 THEN <<>>[i] ELSE f[i - 1] \o <<>>[i]]
    OBVIOUS
  <2>2. IsFlat(<<>>, f)
    BY <2>1 DEF IsFlat
  <2> HIDE DEF f
  <2> QED BY <2>2
<1>2. ASSUME NEW t \in Seq(S), NEW x \in S, t \in P PROVE Append(t, x) \in P
  <2>1. PICK f : IsFlat(t, f)
    BY <1>2
  <2> DEFINE u == Append(t, x)
             n == Len(t)
             e == [i \in 1..(n + 1) |-> IF i = n + 1 THEN (IF n = 0 THEN x ELSE f[n] \o x) ELSE f[i]]
             body(i) == IF i = 1 THEN u[i] ELSE e[i - 1] \o u[i]
  <2>2. n \in Nat /\ Len(u) = n + 1 /\ u[n + 1] = x /\ \A i \in 1..n : u[i] = t[i]
    OBVIOUS
  <2>3. \A i \in 1..(n + 1) : e[i] = body(i)
    <3> SUFFICES ASSUME NEW i \in 1..(n + 1) PROVE e[i] = body(i)
      OBVIOUS
    <3> HIDE DEF u, n
    <3>1. CASE i = n + 1
      <4>1. e[i] = IF n = 0 THEN x ELSE f[n] \o x
        BY <2>2, <3>1
      <4>2. CASE n = 0
        BY <2>2, <3>1, <4>1, <4>2
      <4>3. CASE n # 0
        <5>1. n \in 1..(n + 1) /\ n # n + 1 /\ i - 1 = n /\ i # 1
          BY <2>2, <3>1, <4>3
        <5>2. e[n] = f[n]
          BY <5>1
        <5> HIDE DEF e
        <5> QED BY <2>2, <3>1, <4>1, <4>3, <5>1, <5>2
      <4> QED BY <4>2, <4>3
    <3>2. CASE i # n + 1
      <4>1. i \in 1..n /\ e[i] = f[i] /\ u[i] = t[i]
        BY <2>2, <3>2
      <4>2. f[i] = IF i = 1 THEN t[i] ELSE f[i - 1] \o t[i]
        BY <2>1, <4>1, FlatValues DEF n
      <4>3. CASE i = 1
        BY <4>1, <4>2, <4>3
      <4>4. CASE i # 1
        <5>1. i - 1 \in 1..(n + 1) /\ i - 1 # n + 1
          BY <2>2, <4>1, <4>4
        <5>2. e[i - 1] = f[i - 1]
          BY <5>1
        <5> HIDE DEF e
        <5> QED BY <4>1, <4>2, <4>4, <5>2
      <4> QED BY <4>3, <4>4
    <3> QED BY <3>1, <3>2
  <2>4. IsFlat(u, e)
    <3> DEFINE top(i) == IF i = n + 1 THEN (IF n = 0 THEN x ELSE f[n] \o x) ELSE f[i]
    <3>1. e = [i \in 1..(n + 1) |-> top(i)]
      OBVIOUS
    <3>2. \A i \in 1..(n + 1) : top(i) = body(i)
      BY <2>3, <3>1
    <3> HIDE DEF top, body, e
    <3>3. e = [i \in 1..(n + 1) |-> body(i)]
      BY <3>1, <3>2
    <3> QED BY <2>2, <3>3 DEF IsFlat, body
  <2> HIDE DEF e
  <2> QED BY <2>4
<1> HIDE DEF P
<1>3. s \in P
  BY <1>1, <1>2, Growing
<1> QED BY <1>3 DEF P

LEMMA FlatPrefix ==
  ASSUME NEW S, NEW t \in Seq(S), NEW y \in S, NEW f, IsFlat(Append(t, y), f)
  PROVE  IsFlat(t, [i \in 1..Len(t) |-> f[i]])
<1> DEFINE n == Len(t)
           e == [i \in 1..n |-> f[i]]
           body(i) == IF i = 1 THEN t[i] ELSE e[i - 1] \o t[i]
<1>1. n \in Nat /\ Len(Append(t, y)) = n + 1 /\ \A i \in 1..n : Append(t, y)[i] = t[i]
  OBVIOUS
<1>2. \A i \in 1..n : f[i] = body(i)
  <2> SUFFICES ASSUME NEW i \in 1..n PROVE f[i] = body(i)
    OBVIOUS
  <2> HIDE DEF n
  <2>1. \A j \in 1..Len(Append(t, y)) :
          f[j] = IF j = 1 THEN Append(t, y)[j] ELSE f[j - 1] \o Append(t, y)[j]
    BY FlatValues
  <2>2. f[i] = IF i = 1 THEN t[i] ELSE f[i - 1] \o t[i]
    <3>1. i \in 1..Len(Append(t, y)) /\ Append(t, y)[i] = t[i]
      BY <1>1
    <3> QED BY <2>1, <3>1
  <2>3. CASE i = 1
    BY <2>2, <2>3
  <2>4. CASE i # 1
    <3>1. i - 1 \in 1..n
      BY <1>1, <2>4
    <3>2. e[i - 1] = f[i - 1]
      BY <3>1
    <3> HIDE DEF e
    <3> QED BY <2>2, <2>4, <3>2
  <2> QED BY <2>3, <2>4
<1> HIDE DEF body
<1>3. e = [i \in 1..n |-> body(i)]
  BY <1>2
<1> HIDE DEF e
<1>4. IsFlat(t, e)
  BY <1>3 DEF IsFlat, body
<1> QED BY <1>4 DEF e

\* .. and only one.
LEMMA FlatUnique ==
  ASSUME NEW S, NEW s \in Seq(Seq(S)), NEW f, NEW g, IsFlat(s, f), IsFlat(s, g)
  PROVE  f = g /\ \A i \in 1..Len(s) : f[i] \in Seq(S)
<1> DEFINE P == {t \in Seq(Seq(S)) : \A u, v : IsFlat(t, u) /\ IsFlat(t, v) =>
                   u = v /\ \A i \in 1..Len(t) : u[i] \in Seq(S)}
<1>1. <<>> \in P
  <2>1. \A u, v : IsFlat(<<>>, u) /\ IsFlat(<<>>, v) => u = v
    BY DEF IsFlat
  <2> QED BY <2>1
<1>2. ASSUME NEW t \in Seq(Seq(S)), NEW y \in Seq(S), t \in P PROVE Append(t, y) \in P
  <2> SUFFICES ASSUME NEW u, NEW v, IsFlat(Append(t, y), u), IsFlat(Append(t, y), v)
               PROVE  u = v /\ \A i \in 1..Len(Append(t, y)) : u[i] \in Seq(S)
    OBVIOUS
  <2> DEFINE n == Len(t)
             uu == [i \in 1..n |-> u[i]]
             vv == [i \in 1..n |-> v[i]]
  <2>1. n \in Nat /\ Len(Append(t, y)) = n + 1 /\ Append(t, y)[n + 1] = y
    OBVIOUS
  <2>2. IsFlat(t, uu) /\ IsFlat(t, vv)
    BY FlatPrefix
  <2>3. uu = vv /\ \A i \in 1..n : uu[i] \in Seq(S)
    <3> HIDE DEF uu, vv
    <3> QED BY <1>2, <2>2
  <2>4. \A i \in 1..n : u[i] = v[i] /\ u[i] \in Seq(S)
    <3> SUFFICES ASSUME NEW i \in 1..n PROVE u[i] = v[i] /\ u[i] \in Seq(S)
      OBVIOUS
    <3>1. uu[i] = u[i] /\ vv[i] = v[i]
      OBVIOUS
    <3> HIDE DEF uu, vv
    <3> QED BY <2>3, <3>1
  <2> HIDE DEF n, uu, vv
  <2>5. /\ n + 1 \in 1..(n + 1) /\ (n + 1 = 1 <=> n = 0) /\ (n + 1) - 1 = n
        /\ n # 0 => n \in 1..n
    BY <2>1
  <2>6. /\ u[n + 1] = IF n + 1 = 1 THEN y ELSE u[n] \o y
        /\ v[n + 1] = IF n + 1 = 1 THEN y ELSE v[n] \o y
    <3>1. \A j \in 1..Len(Append(t, y)) :
            /\ u[j] = IF j = 1 THEN Append(t, y)[j] ELSE u[j - 1] \o Append(t, y)[j]
            /\ v[j] = IF j = 1 THEN Append(t, y)[j] ELSE v[j - 1] \o Append(t, y)[j]
      BY FlatValues
    <3>2. n + 1 \in 1..Len(Append(t, y))
      BY <2>1, <2>5
    <3>3. /\ u[n + 1] = IF n + 1 = 1 THEN y ELSE u[(n + 1) - 1] \o y
          /\ v[n + 1] = IF n + 1 = 1 THEN y ELSE v[(n + 1) - 1] \o y
      BY <2>1, <3>1, <3>2
    <3> QED BY <2>5, <3>3
  <2>7. u[n + 1] = v[n + 1] /\ u[n + 1] \in Seq(S)
    <3>1. CASE n = 0
      BY <2>5, <2>6, <3>1
    <3>2. CASE n # 0
      <4>1. u[n] = v[n] /\ u[n] \in Seq(S)
        BY <2>4, <2>5, <3>2
      <4>2. u[n] \o y \in Seq(S)
        BY <4>1, ConcatProperties
      <4> QED BY <2>5, <2>6, <3>2, <4>1, <4>2
    <3> QED BY <3>1, <3>2
  <2>8. \A i \in 1..(n + 1) : u[i] = v[i] /\ u[i] \in Seq(S)
    <3> SUFFICES ASSUME NEW i \in 1..(n + 1) PROVE u[i] = v[i] /\ u[i] \in Seq(S)
      OBVIOUS
    <3>1. i = n + 1 \/ i \in 1..n
      BY <2>1
    <3> QED BY <2>4, <2>7, <3>1
  <2>9. /\ u = [i \in 1..(n + 1) |-> u[i]]
        /\ v = [i \in 1..(n + 1) |-> v[i]]
    BY <2>1 DEF IsFlat
  <2> QED BY <2>1, <2>8, <2>9
<1> HIDE DEF P
<1>3. s \in P
  BY <1>1, <1>2, Growing
<1> QED BY <1>3 DEF P

LEMMA FlatAppend ==
  ASSUME NEW S, NEW s \in Seq(Seq(S)), NEW x \in Seq(S)
  PROVE  /\ FlattenSeq(<<>>) = <<>>
         /\ FlattenSeq(s) \in Seq(S)
         /\ FlattenSeq(Append(s, x)) = FlattenSeq(s) \o x
<1> DEFINE F(t) == CHOOSE f : IsFlat(t, f)
<1>1. \A t : FlattenSeq(t) = IF Len(t) = 0 THEN t ELSE F(t)[Len(t)]
  BY DEF FlattenSeq, IsFlat
<1>2. \A t \in Seq(Seq(S)) : IsFlat(t, F(t))
  <2> SUFFICES ASSUME NEW t \in Seq(Seq(S)) PROVE IsFlat(t, F(t))
    OBVIOUS
  <2>1. \E f : IsFlat(t, f)
    BY FlatExists
  <2> QED BY <2>1
<1> HIDE DEF F
<1>3. FlattenSeq(<<>>) = <<>>
  BY <1>1
<1> DEFINE n == Len(s)
           u == Append(s, x)
<1>4. n \in Nat /\ u \in Seq(Seq(S)) /\ Len(u) = n + 1 /\ u[n + 1] = x
  OBVIOUS
<1>5. IsFlat(s, F(s)) /\ IsFlat(u, F(u))
  BY <1>2, <1>4
<1>6. F(s) = [i \in 1..n |-> F(u)[i]]
  <2>1. IsFlat(s, [i \in 1..n |-> F(u)[i]])
    BY <1>5, FlatPrefix
  <2> DEFINE e == [i \in 1..n |-> F(u)[i]]
  <2> HIDE DEF e, n
  <2>2. IsFlat(s, e)
    BY <2>1 DEF e
  <2>3. F(s) = e
    BY <1>5, <2>2, FlatUnique
  <2> QED BY <2>3 DEF e
<1>7. \A i \in 1..n : F(s)[i] \in Seq(S)
  BY <1>5, FlatUnique
<1> HIDE DEF n, u
<1>8. FlattenSeq(s) \in Seq(S)
  <2>1. CASE n = 0
    <3>1. s = <<>>
      BY <2>1 DEF n
    <3>2. FlattenSeq(s) = <<>>
      BY <1>3, <3>1
    <3> QED BY <3>2, EmptySeq
  <2>2. CASE n # 0
    <3>1. n \in 1..n
      BY <1>4, <2>2
    <3> QED BY <1>1, <1>7, <2>2, <3>1 DEF n
  <2> QED BY <2>1, <2>2
<1>9. FlattenSeq(u) = FlattenSeq(s) \o x
  <2>1. n + 1 \in 1..(n + 1) /\ n + 1 # 0 /\ (n + 1) - 1 = n
    BY <1>4
  <2>2. FlattenSeq(u) = F(u)[n + 1]
    BY <1>1, <1>4, <2>1
  <2>3. F(u)[n + 1] = IF n + 1 = 1 THEN x ELSE F(u)[n] \o x
    BY <1>4, <1>5, <2>1, FlatValues
  <2>4. CASE n = 0
    <3>1. s = <<>>
      BY <2>4 DEF n
    <3>2. FlattenSeq(s) \o x = x
      BY <1>3, <3>1
    <3>3. n + 1 = 1
      BY <2>4
    <3> QED BY <2>2, <2>3, <3>2, <3>3
  <2>5. CASE n # 0
    <3>1. n \in 1..n /\ n + 1 # 1
      BY <1>4, <2>5
    <3>2. FlattenSeq(s) = F(s)[n]
      BY <1>1, <2>5 DEF n
    <3>3. F(s)[n] = F(u)[n]
      BY <1>6, <3>1
    <3> QED BY <2>2, <2>3, <3>1, <3>2, <3>3
  <2> QED BY <2>4, <2>5
<1> QED BY <1>3, <1>8, <1>9 DEF u

LEMMA Regroup ==
  ASSUME NEW S, NEW a \in Seq(S), NEW b \in Seq(S), NEW x \in Seq(S)
  PROVE  (a \o b) \o x = a \o (b \o x)
<1> DEFINE l == (a \o b) \o x
           r == a \o (b \o x)
           m == Len(a)
           n == Len(b)
           k == Len(x)
<1>1. m \in Nat /\ n \in Nat /\ k \in Nat
  OBVIOUS
<1>2. /\ a \o b \in Seq(S) /\ Len(a \o b) = m + n
      /\ \A i \in 1..(m + n) : (a \o b)[i] = IF i <= m THEN a[i] ELSE b[i - m]
  BY ConcatProperties
<1>3. /\ b \o x \in Seq(S) /\ Len(b \o x) = n + k
      /\ \A i \in 1..(n + k) : (b \o x)[i] = IF i <= n THEN b[i] ELSE x[i - n]
  BY ConcatProperties
<1>4. /\ l \in Seq(S) /\ Len(l) = (m + n) + k
      /\ \A i \in 1..((m + n) + k) : l[i] = IF i <= m + n THEN (a \o b)[i] ELSE x[i - (m + n)]
  BY <1>2, ConcatProperties
<1>5. /\ r \in Seq(S) /\ Len(r) = m + (n + k)
      /\ \A i \in 1..(m + (n + k)) : r[i] = IF i <= m THEN a[i] ELSE (b \o x)[i - m]
  BY <1>3, ConcatProperties
<1> HIDE DEF l, r, m, n, k
<1>6. \A i \in 1..((m + n) + k) : l[i] = r[i]
  <2> SUFFICES ASSUME NEW i \in 1..((m + n) + k) PROVE l[i] = r[i]
    OBVIOUS
  <2>1. i \in 1..(m + (n + k)) /\ i \in Nat
    BY <1>1
  <2>2. CASE i <= m
    <3>1. i \in 1..(m + n) /\ i <= m + n
      BY <1>1, <2>1, <2>2
    <3> QED BY <1>2, <1>4, <1>5, <2>1, <2>2, <3>1
  <2>3. CASE ~ (i <= m) /\ i <= m + n
    <3>1. i \in 1..(m + n) /\ i - m \in 1..(n + k) /\ i - m <= n
      BY <1>1, <2>1, <2>3
    <3> QED BY <1>2, <1>3, <1>4, <1>5, <2>1, <2>3, <3>1
  <2>4. CASE ~ (i <= m + n)
    <3>1. i - m \in 1..(n + k) /\ ~ (i - m <= n) /\ ~ (i <= m) /\ (i - m) - n = i - (m + n)
      BY <1>1, <2>1, <2>4
    <3> QED BY <1>3, <1>4, <1>5, <2>1, <2>4, <3>1
  <2> QED BY <1>1, <2>1, <2>2, <2>3, <2>4
<1>7. l = r
  <2>1. Len(l) = Len(r) /\ \A i \in 1..Len(l) : l[i] = r[i]
    BY <1>1, <1>4, <1>5, <1>6
  <2> QED BY <1>4, <1>5, <2>1, SeqEqual
<1> QED BY <1>7 DEF l, r

LEMMA FlatConcat ==
  ASSUME NEW S, NEW s \in Seq(Seq(S)), NEW t \in Seq(Seq(S))
  PROVE  FlattenSeq(s \o t) = FlattenSeq(s) \o FlattenSeq(t)
<1> DEFINE P == {u \in Seq(Seq(S)) : FlattenSeq(s \o u) = FlattenSeq(s) \o FlattenSeq(u)}
<1>1. <<>> \in P
  <2>1. FlattenSeq(<<>>) = <<>> /\ FlattenSeq(s) \in Seq(S)
    <3>1. <<>> \in Seq(S)
      BY EmptySeq
    <3> QED BY <3>1, FlatAppend
  <2>2. s \o <<>> = s /\ FlattenSeq(s) \o <<>> = FlattenSeq(s)
    BY <2>1, ConcatEmptySeq
  <2>3. FlattenSeq(s \o <<>>) = FlattenSeq(s) \o FlattenSeq(<<>>)
    BY <2>1, <2>2
  <2> QED BY <2>3, EmptySeq
<1>2. ASSUME NEW u \in Seq(Seq(S)), NEW x \in Seq(S), u \in P PROVE Append(u, x) \in P
  <2>1. /\ s \o Append(u, x) = Append(s \o u, x) /\ s \o u \in Seq(Seq(S))
        /\ Append(u, x) \in Seq(Seq(S))
    BY SMTT(30)
  <2>2. FlattenSeq(Append(s \o u, x)) = FlattenSeq(s \o u) \o x
    BY <2>1, FlatAppend
  <2>3. FlattenSeq(Append(u, x)) = FlattenSeq(u) \o x
    BY FlatAppend
  <2>4. FlattenSeq(s) \in Seq(S) /\ FlattenSeq(u) \in Seq(S)
    BY FlatAppend
  <2>5. (FlattenSeq(s) \o FlattenSeq(u)) \o x = FlattenSeq(s) \o (FlattenSeq(u) \o x)
    <3>1. \A y \in Seq(S) : \A z \in Seq(S) : (y \o z) \o x = y \o (z \o x)
      BY Regroup, SMTT(30)
    <3> QED BY <2>4, <3>1, Zenon
  <2>6. FlattenSeq(s \o u) = FlattenSeq(s) \o FlattenSeq(u)
    BY <1>2
  <2>7. FlattenSeq(s \o Append(u, x)) = FlattenSeq(s) \o FlattenSeq(Append(u, x))
    BY <2>1, <2>2, <2>3, <2>5, <2>6
  <2> QED BY <2>1, <2>7
<1> HIDE DEF P
<1>3. t \in P
  BY <1>1, <1>2, Growing
<1> QED BY <1>3 DEF P

LEMMA InConcat ==
  ASSUME NEW S, NEW s \in Seq(S), NEW t \in Seq(S)
  PROVE  /\ \A i \in DOMAIN s : i \in DOMAIN (s \o t) /\ (s \o t)[i] = s[i]
         /\ \A j \in DOMAIN t : Len(s) + j \in DOMAIN (s \o t) /\ (s \o t)[Len(s) + j] = t[j]
         /\ \A k \in DOMAIN (s \o t) : k \in DOMAIN s \/ (k - Len(s) \in DOMAIN t /\ (s \o t)[k] = t[k - Len(s)])
<1>1. Len(s) \in Nat /\ Len(t) \in Nat /\ DOMAIN s = 1..Len(s) /\ DOMAIN t = 1..Len(t)
  OBVIOUS
<1>2. /\ s \o t \in Seq(S) /\ Len(s \o t) = Len(s) + Len(t)
      /\ \A i \in 1..(Len(s) + Len(t)) : (s \o t)[i] = IF i <= Len(s) THEN s[i] ELSE t[i - Len(s)]
  BY ConcatProperties
<1>3. DOMAIN (s \o t) = 1..(Len(s) + Len(t))
  BY <1>2
<1> QED BY <1>1, <1>2, <1>3

LEMMA ConcatRange ==
  ASSUME NEW S, NEW s \in Seq(S), NEW t \in Seq(S)
  PROVE  Range(s \o t) = Range(s) \cup Range(t)
<1> DEFINE c == s \o t
<1>1. /\ \A i \in DOMAIN s : i \in DOMAIN c /\ c[i] = s[i]
      /\ \A j \in DOMAIN t : Len(s) + j \in DOMAIN c /\ c[Len(s) + j] = t[j]
      /\ \A k \in DOMAIN c : k \in DOMAIN s \/ (k - Len(s) \in DOMAIN t /\ c[k] = t[k - Len(s)])
  BY InConcat
<1> HIDE DEF c
<1>2. \A y \in Range(c) : y \in Range(s) \cup Range(t)
  BY <1>1 DEF Range
<1>3. \A y \in Range(s) : y \in Range(c)
  BY <1>1 DEF Range
<1>4. \A y \in Range(t) : y \in Range(c)
  BY <1>1 DEF Range
<1>5. Range(c) = Range(s) \cup Range(t)
  BY <1>2, <1>3, <1>4
<1> QED BY <1>5 DEF c

\* What a flattened sequence holds is what its parts hold.
LEMMA FlatRange ==
  ASSUME NEW S, NEW s \in Seq(Seq(S))
  PROVE  Range(FlattenSeq(s)) = UNION {Range(s[i]) : i \in DOMAIN s}
<1> DEFINE P == {u \in Seq(Seq(S)) : Range(FlattenSeq(u)) = UNION {Range(u[i]) : i \in DOMAIN u}}
<1>1. <<>> \in P
  <2>1. FlattenSeq(<<>>) = <<>>
    <3>1. <<>> \in Seq(S)
      BY EmptySeq
    <3> QED BY <3>1, FlatAppend
  <2> QED BY <2>1, EmptySeq DEF Range
<1>2. ASSUME NEW u \in Seq(Seq(S)), NEW x \in Seq(S), u \in P PROVE Append(u, x) \in P
  <2> DEFINE f == FlattenSeq(u)
  <2>1. FlattenSeq(Append(u, x)) = f \o x /\ f \in Seq(S)
    BY FlatAppend
  <2>2. Append(u, x) \in Seq(Seq(S)) /\ DOMAIN Append(u, x) = DOMAIN u \cup {Len(u) + 1}
        /\ Append(u, x)[Len(u) + 1] = x /\ \A i \in DOMAIN u : Append(u, x)[i] = u[i]
    OBVIOUS
  <2>3. Range(f) = UNION {Range(u[i]) : i \in DOMAIN u}
    BY <1>2
  <2> HIDE DEF f
  <2>4. Range(f \o x) = Range(f) \cup Range(x)
    BY <2>1, ConcatRange
  <2>5. UNION {Range(Append(u, x)[i]) : i \in DOMAIN Append(u, x)} = (UNION {Range(u[i]) : i \in DOMAIN u}) \cup Range(x)
    <3> DEFINE v == Append(u, x)
    <3>1. DOMAIN v = DOMAIN u \cup {Len(u) + 1} /\ v[Len(u) + 1] = x /\ \A i \in DOMAIN u : v[i] = u[i]
      BY <2>2
    <3> HIDE DEF v
    <3>2. \A i \in DOMAIN u : Range(v[i]) = Range(u[i])
      BY <3>1
    <3>3. Range(v[Len(u) + 1]) = Range(x)
      BY <3>1
    <3>4. UNION {Range(v[i]) : i \in DOMAIN v} = (UNION {Range(u[i]) : i \in DOMAIN u}) \cup Range(x)
      BY <3>1, <3>2, <3>3
    <3> QED BY <3>4 DEF v
  <2>6. Range(FlattenSeq(Append(u, x))) = UNION {Range(Append(u, x)[i]) : i \in DOMAIN Append(u, x)}
    BY <2>1, <2>3, <2>4, <2>5
  <2> QED BY <2>2, <2>6
<1> HIDE DEF P
<1>3. s \in P
  BY <1>1, <1>2, Growing
<1> QED BY <1>3 DEF P

\* .. each once, if no part holds anything twice and no two share anything.
LEMMA FlatDistinct ==
  ASSUME NEW S, NEW s \in Seq(Seq(S)), \A i \in DOMAIN s : IsInjective(s[i]),
         \A i, j \in DOMAIN s : i # j => Range(s[i]) \cap Range(s[j]) = {}
  PROVE  IsInjective(FlattenSeq(s))
<1> DEFINE Apart(u) == /\ \A i \in DOMAIN u : IsInjective(u[i])
                       /\ \A i, j \in DOMAIN u : i # j => Range(u[i]) \cap Range(u[j]) = {}
           P == {u \in Seq(Seq(S)) : Apart(u) => IsInjective(FlattenSeq(u))}
<1>1. <<>> \in P
  <2>1. FlattenSeq(<<>>) = <<>>
    <3>1. <<>> \in Seq(S)
      BY EmptySeq
    <3> QED BY <3>1, FlatAppend
  <2> QED BY <2>1, EmptySeq DEF IsInjective
<1>2. ASSUME NEW u \in Seq(Seq(S)), NEW x \in Seq(S), u \in P PROVE Append(u, x) \in P
  <2> SUFFICES ASSUME Apart(Append(u, x)) PROVE IsInjective(FlattenSeq(Append(u, x)))
    <3>1. Append(u, x) \in Seq(Seq(S))
      OBVIOUS
    <3> HIDE DEF Apart
    <3> QED BY <3>1
  <2> DEFINE f == FlattenSeq(u)
  <2>1. FlattenSeq(Append(u, x)) = f \o x /\ f \in Seq(S)
    BY FlatAppend
  <2>2. /\ DOMAIN Append(u, x) = DOMAIN u \cup {Len(u) + 1} /\ Len(u) + 1 \notin DOMAIN u
        /\ Append(u, x)[Len(u) + 1] = x /\ \A i \in DOMAIN u : Append(u, x)[i] = u[i]
    OBVIOUS
  <2>3. Apart(u) /\ IsInjective(x) /\ \A i \in DOMAIN u : Range(u[i]) \cap Range(x) = {}
    <3>1. \A i \in DOMAIN u : IsInjective(u[i])
      BY <2>2
    <3>2. \A i, j \in DOMAIN u : i # j => Range(u[i]) \cap Range(u[j]) = {}
      BY <2>2
    <3>3. IsInjective(x) /\ \A i \in DOMAIN u : Range(u[i]) \cap Range(x) = {}
      BY <2>2
    <3> QED BY <3>1, <3>2, <3>3
  <2>4. IsInjective(f)
    BY <1>2, <2>3
  <2>5. Range(f) \cap Range(x) = {}
    BY <2>3, FlatRange
  <2> HIDE DEF f
  <2>6. IsInjective(f \o x)
    <3> SUFFICES ASSUME NEW a \in DOMAIN (f \o x), NEW b \in DOMAIN (f \o x), (f \o x)[a] = (f \o x)[b]
                 PROVE  a = b
      BY DEF IsInjective
    <3>1. a \in Int /\ b \in Int /\ Len(f) \in Int
      <4>1. f \o x \in Seq(S)
        BY <2>1, ConcatProperties
      <4> QED BY <2>1, <4>1
    <3>2. a \in DOMAIN f \/ (a - Len(f) \in DOMAIN x /\ (f \o x)[a] = x[a - Len(f)])
      BY <2>1, InConcat
    <3>3. b \in DOMAIN f \/ (b - Len(f) \in DOMAIN x /\ (f \o x)[b] = x[b - Len(f)])
      BY <2>1, InConcat
    <3>4. \A i \in DOMAIN f : (f \o x)[i] = f[i]
      BY <2>1, InConcat
    <3>5. CASE a \in DOMAIN f /\ b \in DOMAIN f
      BY <2>4, <3>4, <3>5 DEF IsInjective
    <3>6. CASE a \in DOMAIN f /\ b \notin DOMAIN f
      BY <2>5, <3>3, <3>4, <3>6, ZenonT(30) DEF Range
    <3>7. CASE a \notin DOMAIN f /\ b \in DOMAIN f
      BY <2>5, <3>2, <3>4, <3>7, ZenonT(30) DEF Range
    <3>8. CASE a \notin DOMAIN f /\ b \notin DOMAIN f
      <4>1. x[a - Len(f)] = x[b - Len(f)]
        BY <3>2, <3>3, <3>8
      <4>2. a - Len(f) = b - Len(f)
        BY <2>3, <3>2, <3>3, <3>8, <4>1 DEF IsInjective
      <4> QED BY <3>1, <4>2
    <3> QED BY <3>5, <3>6, <3>7, <3>8
  <2> QED BY <2>1, <2>6
<1> HIDE DEF P
<1>3. s \in P
  BY <1>1, <1>2, Growing
<1>4. Apart(s)
  OBVIOUS
<1> HIDE DEF Apart
<1> QED BY <1>3, <1>4 DEF P

-----------------------------------------------------------------------------
(* The operators of the model.                                               *)

Models == {DefaultModel} \cup UNION {Range(r.models) : r \in Requests}
AllTasks == UNION {Range(Tasks[d]) : d \in Datasets}
Known == AllTasks \cup UNION {Prewritten[a] : a \in ArmNames}
Calls == [dataset : Datasets, arms : Seq(ArmNames), model : Models]
Records == [dataset : Datasets, arm : ArmNames, model : Models, task : AllTasks, saw : SUBSET Known]
AllCells == Datasets \X ArmNames \X Models

CellAt(c, i) == <<c.dataset, c.arms[i], c.model>>
CellIn(r) == <<r.dataset, r.arm, r.model>>

Made == Len(Plan(request)) - Len(todo)

LEMMA SeqFacts ==
  ASSUME NEW S, NEW s \in Seq(S), s # <<>>
  PROVE  /\ Len(s) \in Nat /\ Len(s) >= 1 /\ DOMAIN s = 1..Len(s)
         /\ Head(s) = s[1] /\ Head(s) \in S
         /\ Tail(s) \in Seq(S) /\ Len(Tail(s)) = Len(s) - 1
         /\ DOMAIN Tail(s) = 1..(Len(s) - 1)
         /\ \A k \in 1..(Len(s) - 1) : Tail(s)[k] = s[k + 1]
  OBVIOUS

LEMMA AppendFacts ==
  ASSUME NEW S, NEW s \in Seq(S), NEW x \in S
  PROVE  /\ Append(s, x) \in Seq(S) /\ Len(s) \in Nat /\ Len(Append(s, x)) = Len(s) + 1
         /\ DOMAIN s = 1..Len(s) /\ DOMAIN Append(s, x) = DOMAIN s \cup {Len(s) + 1}
         /\ Append(s, x)[Len(s) + 1] = x /\ \A i \in DOMAIN s : Append(s, x)[i] = s[i]
  OBVIOUS

LEMMA ListIsSeq ==
  ASSUME NEW S, NEW n \in Nat, NEW p \in [1..n -> S]
  PROVE  p \in Seq(S) /\ Len(p) = n /\ DOMAIN p = 1..n
  OBVIOUS

LEMMA Single ==
  ASSUME NEW S, NEW x \in S
  PROVE  /\ <<x>> \in Seq(S) /\ Range(<<x>>) = {x} /\ IsInjective(<<x>>) /\ <<x>> # <<>>
         /\ <<>> \in Seq(S) /\ Range(<<>>) = {} /\ IsInjective(<<>>)
<1>1. <<x>> \in Seq(S) /\ DOMAIN <<x>> = {1} /\ <<x>>[1] = x /\ <<x>> # <<>>
  OBVIOUS
<1>2. <<>> \in Seq(S) /\ DOMAIN <<>> = {}
  BY EmptySeq
<1> QED BY <1>1, <1>2 DEF Range, IsInjective

LEMMA PendingFacts ==
  ASSUME NEW c \in Calls
  PROVE  /\ Pending(c) \in Seq(ArmNames)
         /\ Range(Pending(c)) = {c.arms[i] : i \in {j \in DOMAIN c.arms : <<c.dataset, c.arms[j]>> \notin done}}
         /\ IsInjective(c.arms) => IsInjective(Pending(c))
<1> DEFINE p == [i \in DOMAIN c.arms |-> IF <<c.dataset, c.arms[i]>> \in done THEN <<>> ELSE <<c.arms[i]>>]
<1>1. c.arms \in Seq(ArmNames) /\ DOMAIN c.arms = 1..Len(c.arms) /\ Len(c.arms) \in Nat
      /\ \A i \in DOMAIN c.arms : c.arms[i] \in ArmNames
  BY DEF Calls
<1>2. \A i \in DOMAIN c.arms :
        /\ p[i] \in Seq(ArmNames) /\ IsInjective(p[i])
        /\ Range(p[i]) = IF <<c.dataset, c.arms[i]>> \in done THEN {} ELSE {c.arms[i]}
  <2> SUFFICES ASSUME NEW i \in DOMAIN c.arms
               PROVE  /\ p[i] \in Seq(ArmNames) /\ IsInjective(p[i])
                      /\ Range(p[i]) = IF <<c.dataset, c.arms[i]>> \in done THEN {} ELSE {c.arms[i]}
    OBVIOUS
  <2> DEFINE x == c.arms[i]
  <2>1. x \in ArmNames /\ p[i] = IF <<c.dataset, x>> \in done THEN <<>> ELSE <<x>>
    BY <1>1
  <2> HIDE DEF x, p
  <2>2. /\ <<x>> \in Seq(ArmNames) /\ Range(<<x>>) = {x} /\ IsInjective(<<x>>)
        /\ <<>> \in Seq(ArmNames) /\ Range(<<>>) = {} /\ IsInjective(<<>>)
    BY <2>1, Single
  <2>3. /\ p[i] \in Seq(ArmNames) /\ IsInjective(p[i])
        /\ Range(p[i]) = IF <<c.dataset, x>> \in done THEN {} ELSE {x}
    BY <2>1, <2>2
  <2> QED BY <2>3 DEF x
<1>3. DOMAIN p = DOMAIN c.arms
  OBVIOUS
<1>4. p \in Seq(Seq(ArmNames))
  <2>1. \A i \in 1..Len(c.arms) : p[i] \in Seq(ArmNames)
    BY <1>1, <1>2
  <2> DEFINE q(i) == IF <<c.dataset, c.arms[i]>> \in done THEN <<>> ELSE <<c.arms[i]>>
  <2>2. p = [i \in 1..Len(c.arms) |-> q(i)] /\ \A i \in 1..Len(c.arms) : q(i) \in Seq(ArmNames)
    BY <1>1, <2>1
  <2> HIDE DEF q, p
  <2>3. p \in [1..Len(c.arms) -> Seq(ArmNames)]
    BY <2>2
  <2> QED BY <1>1, <2>3, ListIsSeq
<1>5. Pending(c) = FlattenSeq(p)
  BY DEF Pending
<1> HIDE DEF p
<1>6. Pending(c) \in Seq(ArmNames)
  <2>1. <<>> \in Seq(ArmNames)
    BY EmptySeq
  <2>2. FlattenSeq(p) \in Seq(ArmNames)
    BY <1>4, <2>1, FlatAppend
  <2> QED BY <1>5, <2>2
<1>7. Range(Pending(c)) = {c.arms[i] : i \in {j \in DOMAIN c.arms : <<c.dataset, c.arms[j]>> \notin done}}
  <2>1. Range(FlattenSeq(p)) = UNION {Range(p[i]) : i \in DOMAIN p}
    BY <1>4, FlatRange
  <2> DEFINE kept == {j \in DOMAIN c.arms : <<c.dataset, c.arms[j]>> \notin done}
  <2>2. \A i \in DOMAIN p : Range(p[i]) = IF i \in kept THEN {c.arms[i]} ELSE {}
    BY <1>2, <1>3
  <2>3. kept \subseteq DOMAIN p
    BY <1>3
  <2> HIDE DEF kept
  <2>4. UNION {Range(p[i]) : i \in DOMAIN p} = {c.arms[i] : i \in kept}
    <3>1. \A x \in UNION {Range(p[i]) : i \in DOMAIN p} : x \in {c.arms[i] : i \in kept}
      BY <2>2
    <3>2. \A x \in {c.arms[i] : i \in kept} : x \in UNION {Range(p[i]) : i \in DOMAIN p}
      BY <2>2, <2>3
    <3> QED BY <3>1, <3>2
  <2> QED BY <1>5, <2>1, <2>4 DEF kept
<1>8. ASSUME IsInjective(c.arms) PROVE IsInjective(Pending(c))
  <2>1. \A i, j \in DOMAIN p : i # j => Range(p[i]) \cap Range(p[j]) = {}
    <3> SUFFICES ASSUME NEW i \in DOMAIN p, NEW j \in DOMAIN p, i # j
                 PROVE  Range(p[i]) \cap Range(p[j]) = {}
      OBVIOUS
    <3>1. c.arms[i] # c.arms[j]
      BY <1>3, <1>8 DEF IsInjective
    <3>2. Range(p[i]) \subseteq {c.arms[i]} /\ Range(p[j]) \subseteq {c.arms[j]}
      BY <1>2, <1>3
    <3> QED BY <3>1, <3>2
  <2>2. \A i \in DOMAIN p : IsInjective(p[i])
    BY <1>2, <1>3
  <2>3. IsInjective(FlattenSeq(p))
    BY <1>4, <2>1, <2>2, FlatDistinct
  <2> QED BY <1>5, <2>3
<1> QED BY <1>6, <1>7, <1>8

\* The parts TasksOf flattens.
Part(r, cell) == IF CellIn(r) = cell THEN <<r.task>> ELSE <<>>
Parts(s, cell) == [i \in DOMAIN s |-> Part(s[i], cell)]

LEMMA PartsType ==
  ASSUME NEW s \in Seq(Records), NEW cell
  PROVE  /\ Parts(s, cell) \in Seq(Seq(AllTasks)) /\ Len(Parts(s, cell)) = Len(s)
         /\ TasksOf(s, cell) = FlattenSeq(Parts(s, cell))
         /\ \A r \in Records : Part(r, cell) \in Seq(AllTasks)
<1>1. s \in [1..Len(s) -> Records] /\ DOMAIN s = 1..Len(s) /\ Len(s) \in Nat
  OBVIOUS
<1>2. \A r \in Records : Part(r, cell) \in Seq(AllTasks)
  <2> SUFFICES ASSUME NEW r \in Records PROVE Part(r, cell) \in Seq(AllTasks)
    OBVIOUS
  <2>1. r.task \in AllTasks
    BY DEF Records
  <2>2. <<r.task>> \in Seq(AllTasks) /\ <<>> \in Seq(AllTasks)
    BY <2>1, Single
  <2> QED BY <2>2 DEF Part
<1>3. \A i \in 1..Len(s) : Part(s[i], cell) \in Seq(AllTasks)
  BY <1>1, <1>2
<1>4. Parts(s, cell) = [i \in 1..Len(s) |-> Part(s[i], cell)]
  BY <1>1 DEF Parts
<1>5. Parts(s, cell) \in [1..Len(s) -> Seq(AllTasks)]
  BY <1>3, <1>4
<1>6. Parts(s, cell) \in Seq(Seq(AllTasks)) /\ Len(Parts(s, cell)) = Len(s)
  BY <1>1, <1>5, ListIsSeq
<1>7. TasksOf(s, cell) = FlattenSeq(Parts(s, cell))
  BY DEF TasksOf, Parts, Part, CellIn
<1> QED BY <1>2, <1>6, <1>7

LEMMA TasksAppend ==
  ASSUME NEW s \in Seq(Records), NEW r \in Records, NEW cell
  PROVE  /\ TasksOf(<<>>, cell) = <<>>
         /\ TasksOf(s, cell) \in Seq(AllTasks)
         /\ TasksOf(Append(s, r), cell) = TasksOf(s, cell) \o Part(r, cell)
<1>1. <<>> \in Seq(Records) /\ Append(s, r) \in Seq(Records)
  BY EmptySeq
<1>2. Parts(Append(s, r), cell) = Append(Parts(s, cell), Part(r, cell))
  <2>1. /\ Len(s) \in Nat /\ DOMAIN s = 1..Len(s)
        /\ DOMAIN Append(s, r) = 1..(Len(s) + 1)
        /\ Append(s, r)[Len(s) + 1] = r /\ \A i \in 1..Len(s) : Append(s, r)[i] = s[i]
    OBVIOUS
  <2>2. Parts(s, cell) \in Seq(Seq(AllTasks)) /\ Len(Parts(s, cell)) = Len(s) /\ Part(r, cell) \in Seq(AllTasks)
    BY PartsType
  <2>3. Parts(Append(s, r), cell) \in Seq(Seq(AllTasks)) /\ Len(Parts(Append(s, r), cell)) = Len(s) + 1
    <3> DEFINE t == Append(s, r)
    <3>1. t \in Seq(Records) /\ Len(t) = Len(s) + 1
      BY <1>1
    <3> HIDE DEF t
    <3>2. Parts(t, cell) \in Seq(Seq(AllTasks)) /\ Len(Parts(t, cell)) = Len(t)
      BY <3>1, PartsType
    <3> QED BY <3>1, <3>2 DEF t
  <2>4. \A i \in 1..Len(s) : Parts(s, cell)[i] = Part(s[i], cell)
    BY <2>1 DEF Parts
  <2>5. \A i \in 1..(Len(s) + 1) : Parts(Append(s, r), cell)[i] = Part(Append(s, r)[i], cell)
    BY <2>1 DEF Parts
  <2> DEFINE p == Parts(s, cell)
             u == Parts(Append(s, r), cell)
             x == Part(r, cell)
             n == Len(s)
  <2>6. \A i \in 1..n : u[i] = p[i]
    BY <2>1, <2>4, <2>5
  <2>7. u[n + 1] = x
    BY <2>1, <2>5
  <2> HIDE DEF p, u, x, n
  <2>8. u = Append(p, x)
    <3>1. n \in Nat /\ p \in Seq(Seq(AllTasks)) /\ u \in Seq(Seq(AllTasks)) /\ Len(p) = n /\ Len(u) = n + 1
          /\ x \in Seq(AllTasks)
      BY <2>1, <2>2, <2>3 DEF p, u, x, n
    <3> QED BY <2>6, <2>7, <3>1
  <2> QED BY <2>8 DEF p, u, x, n
<1>3. /\ TasksOf(s, cell) = FlattenSeq(Parts(s, cell))
      /\ TasksOf(Append(s, r), cell) = FlattenSeq(Parts(Append(s, r), cell))
      /\ TasksOf(<<>>, cell) = FlattenSeq(Parts(<<>>, cell))
      /\ Parts(s, cell) \in Seq(Seq(AllTasks)) /\ Part(r, cell) \in Seq(AllTasks)
  BY <1>1, PartsType
<1>4. /\ FlattenSeq(<<>>) = <<>> /\ FlattenSeq(Parts(s, cell)) \in Seq(AllTasks)
      /\ FlattenSeq(Append(Parts(s, cell), Part(r, cell))) = FlattenSeq(Parts(s, cell)) \o Part(r, cell)
  BY <1>3, FlatAppend
<1>5. Parts(<<>>, cell) = <<>>
  BY DEF Parts
<1> QED BY <1>2, <1>3, <1>4, <1>5

LEMMA TasksConcat ==
  ASSUME NEW s \in Seq(Records), NEW t \in Seq(Records), NEW cell
  PROVE  TasksOf(s \o t, cell) = TasksOf(s, cell) \o TasksOf(t, cell)
<1>1. s \o t \in Seq(Records)
  BY ConcatProperties
<1>2. Parts(s \o t, cell) = Parts(s, cell) \o Parts(t, cell)
  <2> DEFINE c == s \o t
             p == Parts(s, cell)
             q == Parts(t, cell)
             u == Parts(c, cell)
             m == Len(s)
             n == Len(t)
  <2>1. /\ m \in Nat /\ n \in Nat /\ DOMAIN s = 1..m /\ DOMAIN t = 1..n
        /\ Len(c) = m + n /\ DOMAIN c = 1..(m + n)
        /\ \A i \in 1..(m + n) : c[i] = IF i <= m THEN s[i] ELSE t[i - m]
    BY <1>1, ConcatProperties
  <2>2. /\ p \in Seq(Seq(AllTasks)) /\ Len(p) = m
        /\ q \in Seq(Seq(AllTasks)) /\ Len(q) = n
    BY PartsType
  <2>3. u \in Seq(Seq(AllTasks)) /\ Len(u) = m + n
    BY <1>1, <2>1, PartsType
  <2>4. /\ \A i \in 1..m : p[i] = Part(s[i], cell)
        /\ \A i \in 1..n : q[i] = Part(t[i], cell)
    BY <2>1 DEF Parts
  <2>5. \A i \in 1..(m + n) : u[i] = Part(c[i], cell)
    <3> HIDE DEF c
    <3> QED BY <2>1 DEF Parts
  <2> HIDE DEF c, p, q, u, m, n
  <2>6. \A i \in 1..(m + n) : u[i] = IF i <= m THEN p[i] ELSE q[i - m]
    <3> SUFFICES ASSUME NEW i \in 1..(m + n) PROVE u[i] = IF i <= m THEN p[i] ELSE q[i - m]
      OBVIOUS
    <3>1. CASE i <= m
      <4>1. i \in 1..m
        BY <2>1, <3>1
      <4> QED BY <2>1, <2>4, <2>5, <3>1, <4>1
    <3>2. CASE ~ (i <= m)
      <4>1. i - m \in 1..n
        BY <2>1, <3>2
      <4> QED BY <2>1, <2>4, <2>5, <3>2, <4>1
    <3> QED BY <3>1, <3>2
  <2>7. /\ p \o q \in Seq(Seq(AllTasks)) /\ Len(p \o q) = m + n
        /\ \A i \in 1..(m + n) : (p \o q)[i] = IF i <= m THEN p[i] ELSE q[i - m]
    BY <2>2, ConcatProperties
  <2>8. u = p \o q
    <3> DEFINE v == p \o q
    <3>1. v \in Seq(Seq(AllTasks)) /\ Len(v) = m + n /\ \A i \in 1..(m + n) : v[i] = u[i]
      BY <2>6, <2>7
    <3> HIDE DEF v
    <3>2. u = v
      BY <2>1, <2>3, <3>1
    <3> QED BY <3>2 DEF v
  <2> QED BY <2>8 DEF c, p, q, u
<1>3. Parts(s, cell) \in Seq(Seq(AllTasks)) /\ Parts(t, cell) \in Seq(Seq(AllTasks))
  BY PartsType
<1>4. FlattenSeq(Parts(s, cell) \o Parts(t, cell)) = FlattenSeq(Parts(s, cell)) \o FlattenSeq(Parts(t, cell))
  BY <1>3, FlatConcat
<1>5. /\ TasksOf(s, cell) = FlattenSeq(Parts(s, cell)) /\ TasksOf(t, cell) = FlattenSeq(Parts(t, cell))
      /\ TasksOf(s \o t, cell) = FlattenSeq(Parts(s \o t, cell))
  BY <1>1, PartsType
<1> QED BY <1>2, <1>4, <1>5

-----------------------------------------------------------------------------
(* The plans.                                                                *)

\* No list of a request names anything twice, nor does that of the ablation
\* arms; a sweep may name a dataset twice.
DistinctRequests ==
  /\ \A r \in Requests : /\ IsInjective(r.arms)
                         /\ r.driver = "config" => IsInjective(r.datasets) /\ IsInjective(r.models)
  /\ IsInjective(AblationArms)

ConfigCall(r, d, a, m) == [dataset |-> r.datasets[d], arms |-> <<r.arms[a]>>, model |-> r.models[m]]
Inner(r, d, a) == [m \in DOMAIN r.models |-> ConfigCall(r, d, a, m)]
Middles(r, d) == [a \in DOMAIN r.arms |-> Inner(r, d, a)]
Middle(r, d) == FlattenSeq(Middles(r, d))
Outers(r) == [d \in DOMAIN r.datasets |-> Middle(r, d)]

LEMMA RequestFacts ==
  ASSUME NEW r \in Requests
  PROVE  /\ DOMAIN r.datasets = 1..Len(r.datasets) /\ Len(r.datasets) \in Nat
         /\ \A d \in DOMAIN r.datasets : r.datasets[d] \in Datasets
         /\ DOMAIN r.arms = 1..Len(r.arms) /\ Len(r.arms) \in Nat
         /\ \A a \in DOMAIN r.arms : r.arms[a] \in ArmNames
         /\ DOMAIN r.models = 1..Len(r.models) /\ Len(r.models) \in Nat
         /\ \A m \in DOMAIN r.models : r.models[m] \in Models
         /\ r.arms \in Seq(ArmNames) /\ r.driver \in {"config", "sweep"}
<1>1. /\ r.datasets \in Seq(Datasets) /\ r.arms \in Seq(ArmNames) /\ r.models \in Seq(Range(r.models))
      /\ r.driver \in {"config", "sweep"}
  BY SweepsAssumption
<1>2. Range(r.models) \subseteq Models
  BY DEF Models
<1>3. DOMAIN r.models = 1..Len(r.models) /\ Len(r.models) \in Nat
      /\ \A m \in DOMAIN r.models : r.models[m] \in Range(r.models)
  BY <1>1
<1>4. \A m \in DOMAIN r.models : r.models[m] \in Models
  BY <1>2, <1>3
<1> QED BY <1>1, <1>3, <1>4

LEMMA InnerFacts ==
  ASSUME NEW r \in Requests, NEW d \in DOMAIN r.datasets, NEW a \in DOMAIN r.arms
  PROVE  /\ Inner(r, d, a) \in Seq(Calls)
         /\ \A c \in Range(Inner(r, d, a)) : c.dataset = r.datasets[d] /\ c.arms = <<r.arms[a]>>
         /\ IsInjective(r.models) => IsInjective(Inner(r, d, a))
<1>1. \A m \in DOMAIN r.models : ConfigCall(r, d, a, m) \in Calls
  <2> SUFFICES ASSUME NEW m \in DOMAIN r.models PROVE ConfigCall(r, d, a, m) \in Calls
    OBVIOUS
  <2>1. r.datasets[d] \in Datasets /\ r.arms[a] \in ArmNames /\ r.models[m] \in Models
    BY RequestFacts
  <2>2. <<r.arms[a]>> \in Seq(ArmNames)
    BY <2>1, Single
  <2> QED BY <2>1, <2>2 DEF ConfigCall, Calls
<1>2. DOMAIN r.models = 1..Len(r.models) /\ Len(r.models) \in Nat
  BY RequestFacts
<1>3. Inner(r, d, a) \in Seq(Calls)
  <2>1. Inner(r, d, a) \in [1..Len(r.models) -> Calls]
    BY <1>1, <1>2 DEF Inner
  <2> QED BY <1>2, <2>1, ListIsSeq
<1>4. \A c \in Range(Inner(r, d, a)) : c.dataset = r.datasets[d] /\ c.arms = <<r.arms[a]>>
  <2>1. \A m \in DOMAIN Inner(r, d, a) : Inner(r, d, a)[m] = ConfigCall(r, d, a, m)
    BY DEF Inner
  <2>2. \A m : ConfigCall(r, d, a, m).dataset = r.datasets[d] /\ ConfigCall(r, d, a, m).arms = <<r.arms[a]>>
    BY DEF ConfigCall
  <2> QED BY <2>1, <2>2 DEF Range
<1>5. ASSUME IsInjective(r.models) PROVE IsInjective(Inner(r, d, a))
  <2>1. /\ DOMAIN Inner(r, d, a) = DOMAIN r.models
        /\ \A m \in DOMAIN r.models : Inner(r, d, a)[m] = ConfigCall(r, d, a, m)
    BY DEF Inner
  <2>2. \A m : ConfigCall(r, d, a, m).model = r.models[m]
    BY DEF ConfigCall
  <2> QED BY <1>5, <2>1, <2>2 DEF IsInjective
<1> QED BY <1>3, <1>4, <1>5

LEMMA MiddleFacts ==
  ASSUME NEW r \in Requests, NEW d \in DOMAIN r.datasets
  PROVE  /\ Middle(r, d) \in Seq(Calls)
         /\ \A c \in Range(Middle(r, d)) : c.dataset = r.datasets[d] /\ \E a \in ArmNames : c.arms = <<a>>
         /\ IsInjective(r.models) /\ IsInjective(r.arms) => IsInjective(Middle(r, d))
<1> DEFINE p == Middles(r, d)
<1>1. /\ DOMAIN r.arms = 1..Len(r.arms) /\ Len(r.arms) \in Nat
      /\ \A a \in DOMAIN r.arms : r.arms[a] \in ArmNames
  BY RequestFacts
<1>2. DOMAIN p = DOMAIN r.arms /\ \A a \in DOMAIN r.arms : p[a] = Inner(r, d, a)
  BY DEF Middles
<1>3. p \in Seq(Seq(Calls))
  <2>1. \A a \in DOMAIN r.arms : Inner(r, d, a) \in Seq(Calls)
    BY InnerFacts
  <2>2. p \in [1..Len(r.arms) -> Seq(Calls)]
    BY <1>1, <2>1 DEF Middles
  <2> HIDE DEF p
  <2> QED BY <1>1, <2>2, ListIsSeq
<1>4. \A a \in DOMAIN p : \A c \in Range(p[a]) : c.dataset = r.datasets[d] /\ c.arms = <<r.arms[a]>>
  BY <1>2, InnerFacts
<1>5. Middle(r, d) = FlattenSeq(p)
  BY DEF Middle
<1> HIDE DEF p
<1>6. Middle(r, d) \in Seq(Calls)
  <2>1. <<>> \in Seq(Calls)
    BY EmptySeq
  <2>2. FlattenSeq(p) \in Seq(Calls)
    BY <1>3, <2>1, FlatAppend
  <2> QED BY <1>5, <2>2
<1>7. \A c \in Range(Middle(r, d)) : c.dataset = r.datasets[d] /\ \E a \in ArmNames : c.arms = <<a>>
  <2>1. Range(FlattenSeq(p)) = UNION {Range(p[a]) : a \in DOMAIN p}
    BY <1>3, FlatRange
  <2> SUFFICES ASSUME NEW c \in Range(Middle(r, d))
               PROVE  c.dataset = r.datasets[d] /\ \E a \in ArmNames : c.arms = <<a>>
    OBVIOUS
  <2>2. PICK a \in DOMAIN p : c \in Range(p[a])
    BY <1>5, <2>1
  <2>3. c.dataset = r.datasets[d] /\ c.arms = <<r.arms[a]>> /\ r.arms[a] \in ArmNames
    BY <1>1, <1>2, <1>4, <2>2
  <2> QED BY <2>3
<1>8. ASSUME IsInjective(r.models), IsInjective(r.arms) PROVE IsInjective(Middle(r, d))
  <2>1. \A a \in DOMAIN p : IsInjective(p[a])
    BY <1>2, <1>8, InnerFacts
  <2>2. \A a, b \in DOMAIN p : a # b => Range(p[a]) \cap Range(p[b]) = {}
    <3> SUFFICES ASSUME NEW a \in DOMAIN p, NEW b \in DOMAIN p, a # b, NEW c \in Range(p[a]), c \in Range(p[b])
                 PROVE  FALSE
      OBVIOUS
    <3>1. r.arms[a] # r.arms[b]
      BY <1>2, <1>8 DEF IsInjective
    <3>2. <<r.arms[a]>> = <<r.arms[b]>>
      BY <1>4
    <3> QED BY <3>1, <3>2
  <2>3. IsInjective(FlattenSeq(p))
    BY <1>3, <2>1, <2>2, FlatDistinct
  <2> QED BY <1>5, <2>3
<1> QED BY <1>6, <1>7, <1>8

LEMMA ConfigPlanFacts ==
  ASSUME NEW r \in Requests
  PROVE  /\ ConfigPlan(r) \in Seq(Calls)
         /\ \A c \in Range(ConfigPlan(r)) : \E a \in ArmNames : c.arms = <<a>>
         /\ IsInjective(r.datasets) /\ IsInjective(r.models) /\ IsInjective(r.arms) => IsInjective(ConfigPlan(r))
<1> DEFINE p == Outers(r)
<1>1. DOMAIN r.datasets = 1..Len(r.datasets) /\ Len(r.datasets) \in Nat
  BY RequestFacts
<1>2. DOMAIN p = DOMAIN r.datasets /\ \A d \in DOMAIN r.datasets : p[d] = Middle(r, d)
  BY DEF Outers
<1>3. p \in Seq(Seq(Calls))
  <2>1. \A d \in DOMAIN r.datasets : Middle(r, d) \in Seq(Calls)
    BY MiddleFacts
  <2>2. p \in [1..Len(r.datasets) -> Seq(Calls)]
    BY <1>1, <2>1 DEF Outers
  <2> HIDE DEF p
  <2> QED BY <1>1, <2>2, ListIsSeq
<1>4. \A d \in DOMAIN p : \A c \in Range(p[d]) : c.dataset = r.datasets[d] /\ \E a \in ArmNames : c.arms = <<a>>
  BY <1>2, MiddleFacts
<1>5. ConfigPlan(r) = FlattenSeq(p)
  BY DEF ConfigPlan, Outers, Middle, Middles, Inner, ConfigCall
<1> HIDE DEF p
<1>6. ConfigPlan(r) \in Seq(Calls)
  <2>1. <<>> \in Seq(Calls)
    BY EmptySeq
  <2>2. FlattenSeq(p) \in Seq(Calls)
    BY <1>3, <2>1, FlatAppend
  <2> QED BY <1>5, <2>2
<1>7. \A c \in Range(ConfigPlan(r)) : \E a \in ArmNames : c.arms = <<a>>
  <2>1. Range(FlattenSeq(p)) = UNION {Range(p[d]) : d \in DOMAIN p}
    BY <1>3, FlatRange
  <2> QED BY <1>4, <1>5, <2>1
<1>8. ASSUME IsInjective(r.datasets), IsInjective(r.models), IsInjective(r.arms) PROVE IsInjective(ConfigPlan(r))
  <2>1. \A d \in DOMAIN p : IsInjective(p[d])
    BY <1>2, <1>8, MiddleFacts
  <2>2. \A d, e \in DOMAIN p : d # e => Range(p[d]) \cap Range(p[e]) = {}
    <3> SUFFICES ASSUME NEW d \in DOMAIN p, NEW e \in DOMAIN p, d # e, NEW c \in Range(p[d]), c \in Range(p[e])
                 PROVE  FALSE
      OBVIOUS
    <3>1. r.datasets[d] # r.datasets[e]
      BY <1>2, <1>8 DEF IsInjective
    <3> QED BY <1>4, <3>1
  <2>3. IsInjective(FlattenSeq(p))
    BY <1>3, <2>1, <2>2, FlatDistinct
  <2> QED BY <1>5, <2>3
<1> QED BY <1>6, <1>7, <1>8

Pass(datasets, arms) ==
  [d \in DOMAIN datasets |-> [dataset |-> datasets[d], arms |-> arms, model |-> DefaultModel]]

LEMMA PassFacts ==
  ASSUME NEW datasets \in Seq(Datasets), NEW arms \in Seq(ArmNames)
  PROVE  /\ Pass(datasets, arms) \in Seq(Calls)
         /\ \A d \in DOMAIN Pass(datasets, arms) : /\ Pass(datasets, arms)[d].model = DefaultModel
                                                   /\ Pass(datasets, arms)[d].arms = arms
<1>1. DOMAIN datasets = 1..Len(datasets) /\ Len(datasets) \in Nat /\ \A d \in DOMAIN datasets : datasets[d] \in Datasets
  OBVIOUS
<1>2. DefaultModel \in Models
  BY DEF Models
<1>3. Pass(datasets, arms) \in [1..Len(datasets) -> Calls]
  BY <1>1, <1>2 DEF Pass, Calls
<1> QED BY <1>1, <1>3, ListIsSeq DEF Pass

LEMMA PlanFacts ==
  ASSUME NEW r \in Requests
  PROVE  /\ Plan(r) \in Seq(Calls)
         /\ r.driver = "config" => \A k \in DOMAIN Plan(r) : \E a \in ArmNames : Plan(r)[k].arms = <<a>>
         /\ r.driver = "sweep" => \A k \in DOMAIN Plan(r) : Plan(r)[k].model = DefaultModel
         /\ DistinctRequests =>
              /\ \A k \in DOMAIN Plan(r) : IsInjective(Plan(r)[k].arms)
              /\ r.driver = "config" =>
                   \A k, l \in DOMAIN Plan(r) : CellAt(Plan(r)[k], 1) = CellAt(Plan(r)[l], 1) => k = l
<1>1. r.driver = "config" \/ r.driver = "sweep"
  BY RequestFacts
<1>2. CASE r.driver = "config"
  <2> DEFINE p == Plan(r)
  <2>1. p = ConfigPlan(r)
    BY <1>2 DEF Plan
  <2> HIDE DEF p
  <2>2. p \in Seq(Calls) /\ \A c \in Range(p) : \E a \in ArmNames : c.arms = <<a>>
    BY <2>1, ConfigPlanFacts
  <2>3. \A k \in DOMAIN p : p[k] \in Calls /\ \E a \in ArmNames : p[k].arms = <<a>>
    BY <2>2 DEF Range
  <2>4. \A k \in DOMAIN p : IsInjective(p[k].arms)
    BY <2>3, Single
  <2>5. ASSUME DistinctRequests PROVE \A k, l \in DOMAIN p : CellAt(p[k], 1) = CellAt(p[l], 1) => k = l
    <3>1. IsInjective(p)
      BY <1>2, <2>1, <2>5, ConfigPlanFacts DEF DistinctRequests
    <3> SUFFICES ASSUME NEW k \in DOMAIN p, NEW l \in DOMAIN p, CellAt(p[k], 1) = CellAt(p[l], 1) PROVE k = l
      OBVIOUS
    <3>2. PICK a \in ArmNames : p[k].arms = <<a>>
      BY <2>3
    <3>3. PICK b \in ArmNames : p[l].arms = <<b>>
      BY <2>3
    <3>4. p[k].dataset = p[l].dataset /\ p[k].model = p[l].model /\ a = b
      BY <3>2, <3>3 DEF CellAt
    <3>5. p[k] \in Calls /\ p[l] \in Calls
      BY <2>3
    <3>6. p[k] = p[l]
      BY <3>2, <3>3, <3>4, <3>5 DEF Calls
    <3> QED BY <3>1, <3>6 DEF IsInjective
  <2> QED BY <1>2, <2>2, <2>3, <2>4, <2>5 DEF p
<1>3. CASE r.driver = "sweep"
  <2> DEFINE p == Pass(r.datasets, r.arms)
             q == Pass(AblationDatasets, AblationArms)
  <2>1. Plan(r) = p \o q
    BY <1>3 DEF Plan, SweepPlan, Pass
  <2>2. /\ r.datasets \in Seq(Datasets) /\ r.arms \in Seq(ArmNames)
        /\ AblationDatasets \in Seq(Datasets) /\ AblationArms \in Seq(ArmNames)
    BY SweepsAssumption
  <2>3. /\ p \in Seq(Calls) /\ \A d \in DOMAIN p : p[d].model = DefaultModel /\ p[d].arms = r.arms
        /\ q \in Seq(Calls) /\ \A d \in DOMAIN q : q[d].model = DefaultModel /\ q[d].arms = AblationArms
    BY <2>2, PassFacts
  <2> HIDE DEF p, q
  <2>4. p \o q \in Seq(Calls)
    BY <2>3, ConcatProperties
  <2>5. \A k \in DOMAIN (p \o q) : /\ (p \o q)[k].model = DefaultModel
                                   /\ (p \o q)[k].arms = r.arms \/ (p \o q)[k].arms = AblationArms
    <3>1. /\ \A i \in DOMAIN p : i \in DOMAIN (p \o q) /\ (p \o q)[i] = p[i]
          /\ \A k \in DOMAIN (p \o q) : k \in DOMAIN p \/ (k - Len(p) \in DOMAIN q /\ (p \o q)[k] = q[k - Len(p)])
      BY <2>3, InConcat
    <3> QED BY <2>3, <3>1
  <2>6. DistinctRequests => \A k \in DOMAIN (p \o q) : IsInjective((p \o q)[k].arms)
    BY <2>5 DEF DistinctRequests
  <2> QED BY <1>3, <2>1, <2>4, <2>5, <2>6
<1> QED BY <1>1, <1>2, <1>3

-----------------------------------------------------------------------------
(* The invariants.  Made calls of the plan are over; the first of the others *)
(* is the one that runs, if any does.                                         *)

Types ==
  /\ request \in Requests
  /\ todo \in Seq(Calls) /\ rows \in Seq(Records) /\ records \in Seq(Records)
  /\ call \in Calls \cup {NoCall}
  /\ stage \in {"build", "write", "retrieve", "attempt"}
  /\ outcome \in {"running", "returned", "raised", "killed"}
  /\ done \subseteq Datasets \X ArmNames
  /\ DOMAIN skipped \subseteq ArmNames
  /\ memory = Built /\ context \subseteq Known
  /\ holds \in [ArmNames \cup {Built} -> SUBSET Known]

Places ==
  /\ Len(todo) <= Len(Plan(request))
  /\ \A k \in DOMAIN todo : todo[k] = Plan(request)[Made + k]
  /\ outcome = "returned" => call = NoCall /\ todo = <<>>
  /\ request.driver = "config" => done = {}
  /\ request.driver = "sweep" => DOMAIN skipped = {}

Busy ==
  call # NoCall =>
    /\ todo # <<>>
    /\ call.dataset = Head(todo).dataset /\ call.model = Head(todo).model
    /\ call.arms = Pending(Head(todo))
    /\ armAt \in 1..(Len(call.arms) + 1) /\ taskAt \in DOMAIN Tasks[call.dataset]
    /\ armAt > Len(call.arms) => taskAt = 1
    /\ \A i \in DOMAIN records : \E k \in DOMAIN call.arms : CellIn(records[i]) = CellAt(call, k)

Own(a) == IF Kind[a] = "instance" THEN Prewritten[a] ELSE {}

Apart ==
  /\ \A a \in ArmNames : holds[a] = Prewritten[a]
  /\ MoreArms => /\ stage = "write" => holds[Built] = Own(Arm)
                 /\ stage = "retrieve" => holds[Built] = {Task} \cup Own(Arm)
                 /\ stage = "attempt" => context = {Task} \cup Own(Arm)
  /\ \A i \in DOMAIN records : records[i].saw = {records[i].task} \cup Own(records[i].arm)
  /\ \A i \in DOMAIN rows : rows[i].saw = {rows[i].task} \cup Own(rows[i].arm)

RowsInCells == \A i \in DOMAIN rows : CellIn(rows[i]) \in Cells

Core == Types /\ Places /\ Busy /\ Apart /\ RowsInCells

LEMMA TaskFacts ==
  ASSUME Types, Busy, call # NoCall
  PROVE  /\ call.dataset \in Datasets /\ call.model \in Models
         /\ call.arms \in Seq(ArmNames) /\ DOMAIN call.arms = 1..Len(call.arms) /\ Len(call.arms) \in Nat
         /\ \A i \in DOMAIN call.arms : call.arms[i] \in ArmNames
         /\ Tasks[call.dataset] \in Seq(AllTasks) /\ Len(Tasks[call.dataset]) \in Nat
         /\ Len(Tasks[call.dataset]) >= 1
         /\ armAt \in Nat /\ taskAt \in Nat /\ 1 <= taskAt /\ taskAt <= Len(Tasks[call.dataset])
         /\ Task \in AllTasks /\ Task \in Known
         /\ MoreArms => /\ armAt \in DOMAIN call.arms /\ Arm \in ArmNames /\ Own(Arm) \subseteq Known
                        /\ Prewritten[Arm] \subseteq Known
<1>1. call \in Calls
  BY DEF Types
<1>2. /\ call.dataset \in Datasets /\ call.model \in Models
      /\ call.arms \in Seq(ArmNames)
  BY <1>1 DEF Calls
<1>3. /\ DOMAIN call.arms = 1..Len(call.arms) /\ Len(call.arms) \in Nat
      /\ \A i \in DOMAIN call.arms : call.arms[i] \in ArmNames
  BY <1>2
<1>4. /\ Tasks[call.dataset] \in Seq(Range(Tasks[call.dataset])) /\ Tasks[call.dataset] # <<>>
      /\ Range(Tasks[call.dataset]) \subseteq AllTasks
  BY <1>2, BenchmarkAssumption DEF AllTasks
<1>5. Tasks[call.dataset] \in Seq(AllTasks) /\ Len(Tasks[call.dataset]) \in Nat /\ Len(Tasks[call.dataset]) >= 1
      /\ DOMAIN Tasks[call.dataset] = 1..Len(Tasks[call.dataset])
  <2> DEFINE t == Tasks[call.dataset]
             R == Range(t)
  <2>1. t \in Seq(R) /\ t # <<>> /\ R \subseteq AllTasks
    BY <1>4
  <2> HIDE DEF t, R
  <2>2. t \in Seq(AllTasks) /\ Len(t) \in Nat /\ Len(t) >= 1 /\ DOMAIN t = 1..Len(t)
    BY <2>1
  <2> QED BY <2>2 DEF t
<1>6. armAt \in 1..(Len(call.arms) + 1) /\ taskAt \in DOMAIN Tasks[call.dataset]
  BY DEF Busy
<1>7. /\ armAt \in Nat /\ taskAt \in Nat /\ 1 <= taskAt /\ taskAt <= Len(Tasks[call.dataset])
  BY <1>3, <1>5, <1>6
<1>8. Task \in AllTasks /\ Task \in Known
  BY <1>5, <1>6 DEF Task, Known
<1>9. MoreArms => /\ armAt \in DOMAIN call.arms /\ Arm \in ArmNames /\ Own(Arm) \subseteq Known
                  /\ Prewritten[Arm] \subseteq Known
  <2> SUFFICES ASSUME MoreArms
               PROVE  /\ armAt \in DOMAIN call.arms /\ Arm \in ArmNames /\ Own(Arm) \subseteq Known
                      /\ Prewritten[Arm] \subseteq Known
    OBVIOUS
  <2>1. armAt \in DOMAIN call.arms
    BY <1>3, <1>6 DEF MoreArms
  <2>2. Arm \in ArmNames
    BY <1>3, <2>1 DEF Arm
  <2> QED BY <2>1, <2>2 DEF Own, Known
<1> QED BY <1>2, <1>3, <1>5, <1>7, <1>8, <1>9

LEMMA Start == Init => Core
<1> SUFFICES ASSUME Init PROVE Core
  OBVIOUS
<1> USE DEF Init, BenchInit
<1>1. Plan(request) \in Seq(Calls)
  BY PlanFacts
<1>2. <<>> \in Seq(Records) /\ DOMAIN <<>> = {}
  BY EmptySeq
<1>3. holds \in [ArmNames \cup {Built} -> SUBSET Known] /\ \A a \in ArmNames : holds[a] = Prewritten[a]
  <2>1. \A a \in ArmNames : Prewritten[a] \subseteq Known /\ a # Built
    BY BenchmarkAssumption DEF Known
  <2> QED BY <2>1
<1>4. Types
  <2>1. DOMAIN skipped \subseteq ArmNames
    BY <1>2
  <2> QED BY <1>1, <1>2, <1>3, <2>1 DEF Types
<1>5. Places
  <2> DEFINE p == Plan(request)
  <2>1. p \in Seq(Calls) /\ todo = p
    BY <1>1
  <2> HIDE DEF p
  <2>2. Len(p) \in Nat /\ DOMAIN p = 1..Len(p)
    BY <2>1
  <2>3. Made = 0
    BY <2>1, <2>2 DEF Made, p
  <2>4. Len(todo) <= Len(p) /\ \A k \in DOMAIN todo : todo[k] = p[Made + k]
    BY <2>1, <2>2, <2>3
  <2> QED BY <1>2, <2>4 DEF Places, p
<1>6. Busy /\ Apart /\ RowsInCells
  BY <1>2, <1>3 DEF Busy, Apart, RowsInCells, MoreArms
<1> QED BY <1>4, <1>5, <1>6 DEF Core

LEMMA Stays == Core /\ UNCHANGED vars => Core'
<1> SUFFICES ASSUME Core, UNCHANGED vars PROVE Core'
  OBVIOUS
<1> USE DEF Core, vars, benchVars
<1>1. Types'
  BY DEF Types
<1>2. Places'
  BY DEF Places, Made
<1>3. Busy'
  BY DEF Busy, Pending
<1>4. Apart'
  BY DEF Apart, MoreArms, Task, Arm, Own
<1>5. RowsInCells'
  BY DEF RowsInCells, Cells
<1> QED BY <1>1, <1>2, <1>3, <1>4, <1>5

LEMMA StepCall ==
  ASSUME Core, Call
  PROVE  Core'
<1> USE DEF Core
<1> DEFINE c == Head(todo)
<1>1. /\ outcome = "running" /\ todo # <<>> /\ Pending(c) # <<>> /\ call = NoCall
      /\ call' = [dataset |-> c.dataset, arms |-> Pending(c), model |-> c.model]
      /\ armAt' = 1 /\ taskAt' = 1 /\ stage' = "build" /\ records' = <<>>
      /\ memory' = memory /\ holds' = holds /\ context' = context
      /\ request' = request /\ todo' = todo /\ done' = done /\ rows' = rows /\ skipped' = skipped
      /\ outcome' = outcome
  BY DEF Call, Begin
<1>2. c \in Calls
  BY <1>1, SeqFacts DEF Types
<1>3. Pending(c) \in Seq(ArmNames) /\ DOMAIN Pending(c) = 1..Len(Pending(c)) /\ Len(Pending(c)) \in Nat
      /\ Len(Pending(c)) >= 1
  <2> DEFINE p == Pending(c)
  <2>1. p \in Seq(ArmNames) /\ p # <<>>
    BY <1>1, <1>2, PendingFacts
  <2> HIDE DEF p
  <2>2. DOMAIN p = 1..Len(p) /\ Len(p) \in Nat /\ Len(p) >= 1
    BY <2>1
  <2> QED BY <2>1, <2>2 DEF p
<1>4. Pending(c)' = Pending(c) /\ c' = c
  BY <1>1 DEF Pending
<1>5. <<>> \in Seq(Records) /\ DOMAIN <<>> = {}
  BY EmptySeq
<1>6. c.dataset \in Datasets /\ c.model \in Models /\ 1 \in DOMAIN Tasks[c.dataset]
  <2>1. c.dataset \in Datasets /\ c.model \in Models
    BY <1>2 DEF Calls
  <2> DEFINE t == Tasks[c.dataset]
             R == Range(t)
  <2>2. t \in Seq(R) /\ t # <<>>
    BY <2>1, BenchmarkAssumption
  <2> HIDE DEF t, R
  <2>3. 1 \in DOMAIN t
    BY <2>2
  <2> QED BY <2>1, <2>3 DEF t
<1> HIDE DEF c
<1>7. call' \in Calls
  BY <1>1, <1>3, <1>6 DEF Calls
<1>8. Types'
  BY <1>1, <1>5, <1>7 DEF Types
<1>9. Places'
  BY <1>1 DEF Places, Made
<1>10. Busy'
  <2>1. todo' # <<>> /\ call'.dataset = c'.dataset /\ call'.model = c'.model /\ call'.arms = Pending(c)'
    BY <1>1, <1>4
  <2>2. armAt' \in 1..(Len(call'.arms) + 1) /\ taskAt' \in DOMAIN Tasks[call'.dataset] /\ taskAt' = 1
    BY <1>1, <1>3, <1>6
  <2>3. DOMAIN records' = {}
    BY <1>1, <1>5
  <2> QED BY <2>1, <2>2, <2>3 DEF Busy, c
<1>11. Apart'
  <2>1. DOMAIN records' = {}
    BY <1>1, <1>5
  <2> QED BY <1>1, <2>1 DEF Apart, Own
<1>12. RowsInCells'
  BY <1>1 DEF RowsInCells, Cells
<1> QED BY <1>8, <1>9, <1>10, <1>11, <1>12

\* The call at the head of todo is the first of the plan that is not over.
LEMMA HeadFacts ==
  ASSUME Types, Places, todo # <<>>
  PROVE  /\ Made \in Nat /\ Made + 1 \in DOMAIN Plan(request)
         /\ Head(todo) = Plan(request)[Made + 1] /\ Head(todo) \in Calls
<1> DEFINE p == Plan(request)
           m == Made
           c == Head(todo)
<1>1. /\ p \in Seq(Calls) /\ todo \in Seq(Calls) /\ Len(todo) <= Len(p) /\ m = Len(p) - Len(todo)
      /\ \A k \in DOMAIN todo : todo[k] = p[m + k]
  BY PlanFacts DEF Types, Places, Made
<1> HIDE DEF p, m, c
<1>2. Len(todo) \in Nat /\ Len(todo) >= 1 /\ DOMAIN todo = 1..Len(todo) /\ c = todo[1] /\ c \in Calls
  BY <1>1, SeqFacts DEF c
<1>3. Len(p) \in Nat /\ DOMAIN p = 1..Len(p)
  BY <1>1
<1>4. m \in Nat /\ m + 1 \in DOMAIN p /\ c = p[m + 1]
  BY <1>1, <1>2, <1>3
<1> QED BY <1>2, <1>4 DEF p, m, c

\* What a step that drops the first of todo leaves true of the places.
LEMMA Dropped ==
  ASSUME Types, Places, todo # <<>>, request' = request, todo' = Tail(todo)
  PROVE  /\ Made \in Nat /\ Made' = Made + 1 /\ Made + 1 \in DOMAIN Plan(request)
         /\ Head(todo) = Plan(request)[Made + 1] /\ Head(todo) \in Calls
         /\ todo' \in Seq(Calls) /\ Len(todo') <= Len(Plan(request)')
         /\ \A k \in DOMAIN todo' : todo'[k] = Plan(request)'[Made' + k]
<1> DEFINE p == Plan(request)
           m == Made
<1>1. /\ p \in Seq(Calls) /\ Plan(request)' = p
      /\ todo \in Seq(Calls) /\ Len(todo) <= Len(p) /\ \A k \in DOMAIN todo : todo[k] = p[m + k]
  BY PlanFacts DEF Types, Places
<1>2. m = Len(p) - Len(todo) /\ Made' = Len(p) - Len(Tail(todo))
  BY DEF Made
<1> HIDE DEF p, m
<1>3. /\ Len(todo) \in Nat /\ Len(todo) >= 1 /\ DOMAIN todo = 1..Len(todo)
      /\ Head(todo) = todo[1] /\ Head(todo) \in Calls /\ Tail(todo) \in Seq(Calls)
      /\ Len(Tail(todo)) = Len(todo) - 1 /\ DOMAIN Tail(todo) = 1..(Len(todo) - 1)
      /\ \A k \in 1..(Len(todo) - 1) : Tail(todo)[k] = todo[k + 1]
  BY <1>1, SeqFacts
<1>4. Len(p) \in Nat /\ DOMAIN p = 1..Len(p)
  BY <1>1
<1>5. m \in Nat /\ Made' = m + 1 /\ m + 1 \in DOMAIN p
  BY <1>1, <1>2, <1>3, <1>4
<1>6. Head(todo) = p[m + 1]
  BY <1>1, <1>3
<1>7. Len(Tail(todo)) <= Len(p)
  BY <1>1, <1>3, <1>4
<1>8. \A k \in DOMAIN Tail(todo) : Tail(todo)[k] = p[m + 1 + k]
  <2> SUFFICES ASSUME NEW k \in 1..(Len(todo) - 1) PROVE Tail(todo)[k] = p[m + 1 + k]
    BY <1>3
  <2>1. k + 1 \in DOMAIN todo /\ m + (k + 1) = m + 1 + k
    BY <1>3, <1>5
  <2> QED BY <1>1, <1>3, <2>1
<1> QED BY <1>1, <1>3, <1>5, <1>6, <1>7, <1>8 DEF p, m

LEMMA StepNothingPending ==
  ASSUME Core, NothingPending
  PROVE  Core'
<1> USE DEF Core
<1>1. /\ outcome = "running" /\ call = NoCall /\ todo # <<>> /\ todo' = Tail(todo)
      /\ UNCHANGED <<benchVars, request, done, rows, skipped, outcome>>
  BY DEF NothingPending
<1> USE DEF benchVars
<1>2. Types'
  BY <1>1, Dropped DEF Types
<1>3. Places'
  <2>1. Len(todo') <= Len(Plan(request)') /\ \A k \in DOMAIN todo' : todo'[k] = Plan(request)'[Made' + k]
    BY <1>1, Dropped
  <2> QED BY <1>1, <2>1 DEF Places
<1>4. Busy'
  BY <1>1 DEF Busy
<1>5. Apart'
  BY <1>1 DEF Apart, MoreArms
<1>6. RowsInCells'
  BY <1>1 DEF RowsInCells, Cells
<1> QED BY <1>2, <1>3, <1>4, <1>5, <1>6

LEMMA StepBuild ==
  ASSUME Core, Build, UNCHANGED <<request, todo, done, rows, skipped, outcome>>
  PROVE  Core'
<1> USE DEF Core
<1>1. /\ MoreArms /\ stage' = "write" /\ memory' = Built
      /\ holds' = [holds EXCEPT ![Built] = IF Kind[Arm] = "instance" THEN holds[Arm] ELSE {}]
      /\ call' = call /\ armAt' = armAt /\ taskAt' = taskAt /\ context' = context /\ records' = records
      /\ call # NoCall
  BY DEF Build, MoreArms
<1>2. Arm \in ArmNames /\ Own(Arm) \subseteq Known
  BY <1>1, TaskFacts
<1>3. holds \in [ArmNames \cup {Built} -> SUBSET Known] /\ \A a \in ArmNames : holds[a] = Prewritten[a] /\ a # Built
  BY BenchmarkAssumption DEF Types, Apart
<1>4. (IF Kind[Arm] = "instance" THEN holds[Arm] ELSE {}) = Own(Arm)
  BY <1>2, <1>3 DEF Own
<1>5. /\ holds' \in [ArmNames \cup {Built} -> SUBSET Known]
      /\ holds'[Built] = Own(Arm) /\ \A a \in ArmNames : holds'[a] = Prewritten[a]
  BY <1>1, <1>2, <1>3, <1>4
<1>6. Arm' = Arm /\ MoreArms' = MoreArms
  BY <1>1 DEF Arm, MoreArms
<1>7. Types'
  BY <1>1, <1>5 DEF Types
<1>8. Places'
  BY <1>1 DEF Places, Made
<1>9. Busy'
  BY <1>1 DEF Busy, Pending
<1>10. Apart'
  <2>1. \A a \in ArmNames : holds'[a] = Prewritten[a]
    BY <1>5
  <2>2. stage' = "write" /\ holds'[Built] = Own(Arm')
    BY <1>1, <1>5, <1>6
  <2> QED BY <1>1, <2>1, <2>2 DEF Apart, Own
<1>11. RowsInCells'
  BY <1>1 DEF RowsInCells, Cells
<1> QED BY <1>7, <1>8, <1>9, <1>10, <1>11

LEMMA StepWrite ==
  ASSUME Core, Write, UNCHANGED <<request, todo, done, rows, skipped, outcome>>
  PROVE  Core'
<1> USE DEF Core
<1>1. /\ MoreArms /\ stage = "write" /\ stage' = "retrieve" /\ memory' = memory /\ memory = Built
      /\ holds' = [holds EXCEPT ![memory] = @ \cup {Task}]
      /\ call' = call /\ armAt' = armAt /\ taskAt' = taskAt /\ context' = context /\ records' = records
      /\ call # NoCall
  BY DEF Write, MoreArms, Types
<1>2. Task \in Known
  BY <1>1, TaskFacts
<1>3. holds \in [ArmNames \cup {Built} -> SUBSET Known] /\ \A a \in ArmNames : holds[a] = Prewritten[a] /\ a # Built
  BY BenchmarkAssumption DEF Types, Apart
<1>4. holds[Built] = Own(Arm)
  BY <1>1 DEF Apart
<1>5. /\ holds' \in [ArmNames \cup {Built} -> SUBSET Known]
      /\ holds'[Built] = {Task} \cup Own(Arm) /\ \A a \in ArmNames : holds'[a] = Prewritten[a]
  BY <1>1, <1>2, <1>3, <1>4
<1>6. Arm' = Arm /\ Task' = Task /\ MoreArms' = MoreArms
  BY <1>1 DEF Arm, Task, MoreArms
<1>7. Types'
  BY <1>1, <1>5 DEF Types
<1>8. Places'
  BY <1>1 DEF Places, Made
<1>9. Busy'
  BY <1>1 DEF Busy, Pending
<1>10. Apart'
  <2>1. \A a \in ArmNames : holds'[a] = Prewritten[a]
    BY <1>5
  <2>2. stage' = "retrieve" /\ holds'[Built] = {Task'} \cup Own(Arm')
    BY <1>1, <1>5, <1>6
  <2> QED BY <1>1, <2>1, <2>2 DEF Apart, Own
<1>11. RowsInCells'
  BY <1>1 DEF RowsInCells, Cells
<1> QED BY <1>7, <1>8, <1>9, <1>10, <1>11

LEMMA StepRetrieve ==
  ASSUME Core, Retrieve, UNCHANGED <<request, todo, done, rows, skipped, outcome>>
  PROVE  Core'
<1> USE DEF Core
<1>1. /\ MoreArms /\ stage = "retrieve" /\ stage' = "attempt" /\ memory' = memory /\ memory = Built
      /\ context' = holds[memory] /\ holds' = holds
      /\ call' = call /\ armAt' = armAt /\ taskAt' = taskAt /\ records' = records
      /\ call # NoCall
  BY DEF Retrieve, MoreArms, Types
<1>2. context' = {Task} \cup Own(Arm)
  BY <1>1 DEF Apart
<1>3. context' \subseteq Known
  BY <1>1, <1>2, TaskFacts
<1>4. Arm' = Arm /\ Task' = Task /\ MoreArms' = MoreArms
  BY <1>1 DEF Arm, Task, MoreArms
<1>5. Types'
  BY <1>1, <1>3 DEF Types
<1>6. Places'
  BY <1>1 DEF Places, Made
<1>7. Busy'
  BY <1>1 DEF Busy, Pending
<1>8. Apart'
  <2>1. \A a \in ArmNames : holds'[a] = Prewritten[a]
    BY <1>1 DEF Apart
  <2>2. stage' = "attempt" /\ context' = {Task'} \cup Own(Arm')
    BY <1>1, <1>2, <1>4
  <2> QED BY <1>1, <2>1, <2>2 DEF Apart, Own
<1>9. RowsInCells'
  BY <1>1 DEF RowsInCells, Cells
<1> QED BY <1>5, <1>6, <1>7, <1>8, <1>9

\* The record Attempt appends.
Answer == [dataset |-> call.dataset, arm |-> Arm, model |-> call.model, task |-> Task, saw |-> context]

LEMMA AttemptFacts ==
  ASSUME Core, Attempt
  PROVE  /\ MoreArms /\ call # NoCall /\ call' = call /\ stage' = "build"
         /\ records' = Append(records, Answer) /\ Answer \in Records /\ records' \in Seq(Records)
         /\ memory' = memory /\ holds' = holds /\ context' = context
         /\ CellIn(Answer) = CellAt(call, armAt) /\ armAt \in DOMAIN call.arms
         /\ Answer.task = Task /\ Answer.saw = {Task} \cup Own(Arm) /\ Answer.arm = Arm
         /\ armAt \in Nat /\ taskAt \in Nat
         /\ \/ taskAt < Len(Tasks[call.dataset]) /\ taskAt' = taskAt + 1 /\ armAt' = armAt
            \/ taskAt = Len(Tasks[call.dataset]) /\ taskAt' = 1 /\ armAt' = armAt + 1
<1> USE DEF Core
<1>1. /\ MoreArms /\ stage = "attempt" /\ call # NoCall /\ call' = call /\ stage' = "build"
      /\ records' = Append(records, Answer) /\ memory' = memory /\ holds' = holds /\ context' = context
      /\ Advance
  BY DEF Attempt, MoreArms, Answer
<1>2. /\ call.dataset \in Datasets /\ call.model \in Models /\ Task \in AllTasks
      /\ armAt \in DOMAIN call.arms /\ Arm \in ArmNames
      /\ armAt \in Nat /\ taskAt \in Nat /\ taskAt <= Len(Tasks[call.dataset]) /\ Len(Tasks[call.dataset]) \in Nat
  BY <1>1, TaskFacts
<1>3. context = {Task} \cup Own(Arm) /\ context \subseteq Known
  BY <1>1 DEF Apart, Types
<1>4. Answer \in Records
  BY <1>2, <1>3 DEF Answer, Records
<1>5. records' \in Seq(Records)
  BY <1>1, <1>4, AppendFacts DEF Types
<1>6. /\ CellIn(Answer) = CellAt(call, armAt)
      /\ Answer.task = Task /\ Answer.saw = {Task} \cup Own(Arm) /\ Answer.arm = Arm
  BY <1>3 DEF CellIn, CellAt, Answer, Arm
<1>7. \/ taskAt < Len(Tasks[call.dataset]) /\ taskAt' = taskAt + 1 /\ armAt' = armAt
      \/ taskAt = Len(Tasks[call.dataset]) /\ taskAt' = 1 /\ armAt' = armAt + 1
  BY <1>1, <1>2 DEF Advance
<1> QED BY <1>1, <1>2, <1>4, <1>5, <1>6, <1>7

LEMMA StepAttempt ==
  ASSUME Core, Attempt, UNCHANGED <<request, todo, done, rows, skipped, outcome>>
  PROVE  Core'
<1> USE DEF Core
<1>1. /\ MoreArms /\ call # NoCall /\ call' = call /\ stage' = "build"
      /\ records' = Append(records, Answer) /\ Answer \in Records /\ records' \in Seq(Records)
      /\ memory' = memory /\ holds' = holds /\ context' = context
      /\ CellIn(Answer) = CellAt(call, armAt) /\ armAt \in DOMAIN call.arms
      /\ Answer.task = Task /\ Answer.saw = {Task} \cup Own(Arm) /\ Answer.arm = Arm
      /\ armAt \in Nat /\ taskAt \in Nat
      /\ \/ taskAt < Len(Tasks[call.dataset]) /\ taskAt' = taskAt + 1 /\ armAt' = armAt
         \/ taskAt = Len(Tasks[call.dataset]) /\ taskAt' = 1 /\ armAt' = armAt + 1
  BY AttemptFacts
<1>2. records \in Seq(Records) /\ Len(records) \in Nat
      /\ DOMAIN records' = DOMAIN records \cup {Len(records) + 1}
      /\ records'[Len(records) + 1] = Answer /\ \A i \in DOMAIN records : records'[i] = records[i]
  <2>1. records \in Seq(Records)
    BY DEF Types
  <2> QED BY <1>1, <2>1, AppendFacts
<1>3. /\ DOMAIN call.arms = 1..Len(call.arms) /\ Len(call.arms) \in Nat
      /\ Len(Tasks[call.dataset]) \in Nat /\ Len(Tasks[call.dataset]) >= 1 /\ 1 <= taskAt
      /\ DOMAIN Tasks[call.dataset] = 1..Len(Tasks[call.dataset])
  <2> DEFINE t == Tasks[call.dataset]
  <2>1. t \in Seq(AllTasks)
    BY <1>1, TaskFacts
  <2> HIDE DEF t
  <2>2. DOMAIN t = 1..Len(t)
    BY <2>1
  <2> QED BY <1>1, <2>2, TaskFacts DEF t
<1>4. Types'
  BY <1>1 DEF Types
<1>5. Places'
  BY <1>1 DEF Places, Made
<1>6. Busy'
  <2>1. todo' # <<>> /\ call'.dataset = Head(todo').dataset /\ call'.model = Head(todo').model
        /\ call'.arms = Pending(Head(todo))'
    BY <1>1 DEF Busy, Pending
  <2>2. /\ armAt' \in 1..(Len(call'.arms) + 1) /\ taskAt' \in DOMAIN Tasks[call'.dataset]
        /\ armAt' > Len(call'.arms) => taskAt' = 1
    BY <1>1, <1>3
  <2>3. \A i \in DOMAIN records' : \E k \in DOMAIN call'.arms : CellIn(records'[i]) = CellAt(call', k)
    <3>1. \A i \in DOMAIN records : \E k \in DOMAIN call.arms : CellIn(records[i]) = CellAt(call, k)
      BY <1>1 DEF Busy
    <3> QED BY <1>1, <1>2, <3>1
  <2> QED BY <2>1, <2>2, <2>3 DEF Busy
<1>7. Apart'
  <2>1. \A a \in ArmNames : holds'[a] = Prewritten[a]
    BY <1>1 DEF Apart
  <2>2. \A i \in DOMAIN records' : records'[i].saw = {records'[i].task} \cup Own(records'[i].arm)
    <3>1. \A i \in DOMAIN records : records[i].saw = {records[i].task} \cup Own(records[i].arm)
      BY DEF Apart
    <3> QED BY <1>1, <1>2, <3>1
  <2>3. \A i \in DOMAIN rows' : rows'[i].saw = {rows'[i].task} \cup Own(rows'[i].arm)
    BY DEF Apart
  <2> QED BY <1>1, <2>1, <2>2, <2>3 DEF Apart, Own
<1>8. RowsInCells'
  BY <1>1 DEF RowsInCells, Cells
<1> QED BY <1>4, <1>5, <1>6, <1>7, <1>8

\* The arms of the call that runs are arms of the first call of todo.
LEMMA CallFacts ==
  ASSUME Core, call # NoCall
  PROVE  /\ todo # <<>> /\ Head(todo) \in Calls /\ Made + 1 \in DOMAIN Plan(request)
         /\ Head(todo) = Plan(request)[Made + 1]
         /\ call.dataset = Head(todo).dataset /\ call.model = Head(todo).model
         /\ \A k \in DOMAIN call.arms :
              /\ \E j \in DOMAIN Head(todo).arms :
                   call.arms[k] = Head(todo).arms[j] /\ <<call.dataset, call.arms[k]>> \notin done
              /\ CellAt(call, k) \in Cells
<1> DEFINE c == Head(todo)
<1>1. /\ todo # <<>> /\ call.dataset = c.dataset /\ call.model = c.model
      /\ call.arms = Pending(c)
  BY DEF Core, Busy
<1>3. c \in Calls /\ Made + 1 \in DOMAIN Plan(request) /\ c = Plan(request)[Made + 1]
  BY <1>1, HeadFacts DEF Core
<1>4. Range(call.arms) = {c.arms[j] : j \in {i \in DOMAIN c.arms : <<c.dataset, c.arms[i]>> \notin done}}
  BY <1>1, <1>3, PendingFacts
<1>5. c \in Range(Plan(request))
  BY <1>3 DEF Range
<1> HIDE DEF c
<1>6. \A k \in DOMAIN call.arms : \E j \in DOMAIN c.arms :
        call.arms[k] = c.arms[j] /\ <<call.dataset, call.arms[k]>> \notin done
  <2>1. \A k \in DOMAIN call.arms : call.arms[k] \in Range(call.arms)
    BY DEF Range
  <2> QED BY <1>1, <1>4, <2>1
<1>7. \A k \in DOMAIN call.arms : CellAt(call, k) \in Cells
  <2> SUFFICES ASSUME NEW k \in DOMAIN call.arms PROVE CellAt(call, k) \in Cells
    OBVIOUS
  <2>1. PICK j \in DOMAIN c.arms : call.arms[k] = c.arms[j]
    BY <1>6
  <2>2. CellAt(call, k) = <<c.dataset, c.arms[j], c.model>>
    BY <1>1, <2>1 DEF CellAt
  <2>3. <<c.dataset, c.arms[j], c.model>> \in Cells
    BY <1>5, <2>1 DEF Cells
  <2> QED BY <2>2, <2>3
<1> QED BY <1>1, <1>3, <1>6, <1>7 DEF c

\* What an exception leaves, whoever catches it.
LEMMA Left == Leave => /\ call' = NoCall /\ ~ MoreArms'
                       /\ armAt' = armAt /\ taskAt' = taskAt /\ stage' = stage /\ memory' = memory
                       /\ holds' = holds /\ context' = context /\ records' = records
  BY DEF Leave, MoreArms

LEMMA StepExtend ==
  ASSUME Core, Extend
  PROVE  Core'
<1> USE DEF Core
<1>1. /\ call # NoCall /\ rows' = rows \o records /\ todo' = Tail(todo) /\ todo # <<>>
      /\ done' = IF request.driver = "sweep"
                 THEN done \cup {<<call.dataset, call.arms[i]>> : i \in DOMAIN call.arms}
                 ELSE done
      /\ request' = request /\ skipped' = skipped /\ outcome' = outcome
      /\ call' = NoCall /\ ~ MoreArms'
      /\ stage' = stage /\ memory' = memory /\ holds' = holds /\ context' = context /\ records' = records
  BY Left DEF Extend, Completed, Busy
<1>2. rows \in Seq(Records) /\ records \in Seq(Records)
  BY DEF Types
<1>3. /\ rows' \in Seq(Records)
      /\ \A i \in DOMAIN rows' : \/ \E j \in DOMAIN rows : rows'[i] = rows[j]
                                 \/ \E j \in DOMAIN records : rows'[i] = records[j]
  <2>1. rows \o records \in Seq(Records)
    BY <1>2, ConcatProperties
  <2>2. /\ \A i \in DOMAIN rows : (rows \o records)[i] = rows[i]
        /\ \A k \in DOMAIN (rows \o records) :
             k \in DOMAIN rows \/ (k - Len(rows) \in DOMAIN records /\ (rows \o records)[k] = records[k - Len(rows)])
    BY <1>2, InConcat
  <2> QED BY <1>1, <2>1, <2>2
<1>4. Types'
  <2>1. done' \subseteq Datasets \X ArmNames
    BY <1>1, TaskFacts DEF Types
  <2>2. todo' \in Seq(Calls)
    BY <1>1, Dropped
  <2> QED BY <1>1, <1>3, <2>1, <2>2 DEF Types
<1>5. Places'
  <2>1. Len(todo') <= Len(Plan(request)') /\ \A k \in DOMAIN todo' : todo'[k] = Plan(request)'[Made' + k]
    BY <1>1, Dropped
  <2>2. outcome # "returned"
    BY <1>1 DEF Places
  <2> QED BY <1>1, <2>1, <2>2 DEF Places
<1>6. Busy'
  BY <1>1 DEF Busy
<1>7. Apart'
  <2>1. /\ \A i \in DOMAIN records : records[i].saw = {records[i].task} \cup Own(records[i].arm)
        /\ \A i \in DOMAIN rows : rows[i].saw = {rows[i].task} \cup Own(rows[i].arm)
        /\ \A a \in ArmNames : holds[a] = Prewritten[a]
    BY DEF Apart
  <2>2. \A i \in DOMAIN rows' : rows'[i].saw = {rows'[i].task} \cup Own(rows'[i].arm)
    BY <1>3, <2>1
  <2> QED BY <1>1, <2>1, <2>2 DEF Apart
<1>8. RowsInCells'
  <2>1. Cells' = Cells
    BY <1>1 DEF Cells
  <2>2. \A i \in DOMAIN records : CellIn(records[i]) \in Cells
    <3>1. \A i \in DOMAIN records : \E k \in DOMAIN call.arms : CellIn(records[i]) = CellAt(call, k)
      BY <1>1 DEF Busy
    <3>2. \A k \in DOMAIN call.arms : CellAt(call, k) \in Cells
      BY <1>1, CallFacts
    <3> QED BY <3>1, <3>2
  <2>3. \A i \in DOMAIN rows : CellIn(rows[i]) \in Cells
    BY DEF RowsInCells
  <2> QED BY <1>3, <2>1, <2>2, <2>3 DEF RowsInCells
<1> QED BY <1>4, <1>5, <1>6, <1>7, <1>8

\* Skip and Abort are steps of a call: no error comes without one.
LEMMA SkipFacts ==
  ASSUME Core, Skip
  PROVE  /\ MoreArms /\ call # NoCall /\ todo # <<>> /\ request.driver = "config" /\ "unavailable" \in Errors
         /\ skipped' = [a \in DOMAIN skipped \cup {Arm} |->
                          IF a = Arm THEN <<call.dataset, call.model>> ELSE skipped[a]]
         /\ rows' = rows /\ todo' = Tail(todo)
         /\ request' = request /\ done' = done /\ outcome' = outcome
         /\ call' = NoCall /\ ~ MoreArms'
         /\ stage' = stage /\ memory' = memory /\ holds' = holds /\ context' = context /\ records' = records
<1>1. MoreArms /\ call # NoCall /\ todo # <<>>
  BY DEF Skip, Errors, MoreArms, Core, Busy
<1>2. rows' = rows
  <2>1. rows \in Seq(Records) /\ rows' = rows \o <<>>
    BY DEF Skip, Kept, Core, Types
  <2> QED BY <2>1, ConcatEmptySeq
<1> QED BY <1>1, <1>2, Left DEF Skip, Rest

LEMMA StepSkip ==
  ASSUME Core, Skip
  PROVE  Core'
<1> USE DEF Core
<1>1. /\ MoreArms /\ call # NoCall /\ todo # <<>> /\ request.driver = "config"
      /\ skipped' = [a \in DOMAIN skipped \cup {Arm} |->
                       IF a = Arm THEN <<call.dataset, call.model>> ELSE skipped[a]]
      /\ rows' = rows /\ todo' = Tail(todo)
      /\ request' = request /\ done' = done /\ outcome' = outcome
      /\ call' = NoCall /\ ~ MoreArms'
      /\ stage' = stage /\ memory' = memory /\ holds' = holds /\ context' = context /\ records' = records
  BY SkipFacts
<1>2. Types'
  <2>1. DOMAIN skipped' \subseteq ArmNames
    BY <1>1, TaskFacts DEF Types
  <2>2. todo' \in Seq(Calls)
    BY <1>1, Dropped
  <2> QED BY <1>1, <2>1, <2>2 DEF Types
<1>3. Places'
  <2>1. Len(todo') <= Len(Plan(request)') /\ \A k \in DOMAIN todo' : todo'[k] = Plan(request)'[Made' + k]
    BY <1>1, Dropped
  <2> QED BY <1>1, <2>1 DEF Places
<1>4. Busy'
  BY <1>1 DEF Busy
<1>5. Apart'
  BY <1>1 DEF Apart
<1>6. RowsInCells'
  BY <1>1 DEF RowsInCells, Cells
<1> QED BY <1>2, <1>3, <1>4, <1>5, <1>6

LEMMA StepAbort ==
  ASSUME Core, Abort
  PROVE  Core'
<1> USE DEF Core
<1>1. /\ outcome' = "raised" /\ UNCHANGED <<request, todo, done, rows, skipped>>
      /\ call' = NoCall /\ ~ MoreArms'
      /\ stage' = stage /\ memory' = memory /\ holds' = holds /\ context' = context /\ records' = records
  BY Left DEF Abort
<1>2. Types'
  BY <1>1 DEF Types
<1>3. Places'
  BY <1>1 DEF Places, Made
<1>4. Busy'
  BY <1>1 DEF Busy
<1>5. Apart'
  BY <1>1 DEF Apart
<1>6. RowsInCells'
  BY <1>1 DEF RowsInCells, Cells
<1> QED BY <1>2, <1>3, <1>4, <1>5, <1>6

LEMMA StepOutcome ==
  ASSUME Core, Return \/ Killed
  PROVE  Core'
<1> USE DEF Core, benchVars
<1>1. /\ outcome' = "killed" \/ (outcome' = "returned" /\ call = NoCall /\ todo = <<>>)
      /\ UNCHANGED <<benchVars, request, todo, done, rows, skipped>>
  BY DEF Return, Killed
<1>2. Types'
  BY <1>1 DEF Types
<1>3. Places'
  BY <1>1 DEF Places, Made
<1>4. Busy'
  BY <1>1 DEF Busy, Pending
<1>5. Apart'
  BY <1>1 DEF Apart, MoreArms, Task, Arm, Own
<1>6. RowsInCells'
  BY <1>1 DEF RowsInCells, Cells
<1> QED BY <1>2, <1>3, <1>4, <1>5, <1>6

\* The next command starts its sweep as the first one did.
LEMMA Afresh == Types /\ NextCommand => Init'
<1> SUFFICES ASSUME Types, NextCommand PROVE Init'
  OBVIOUS
<1>1. DOMAIN holds = ArmNames \cup {Built}
  BY DEF Types
<1> QED BY <1>1 DEF NextCommand, Init, BenchInit

LEMMA StepCore == Core /\ [CommandNext]_cliVars => Core'
<1>0. Init' => Core'
  BY Start, PTL
<1> SUFFICES ASSUME Core, [CommandNext]_cliVars PROVE Core'
  OBVIOUS
<1>1. CASE Call
  BY <1>1, StepCall
<1>2. CASE NothingPending
  BY <1>2, StepNothingPending
<1>3. CASE Benchmarking
  BY <1>3, StepBuild, StepWrite, StepRetrieve, StepAttempt DEF Benchmarking, BenchStep
<1>4. CASE Extend
  BY <1>4, StepExtend
<1>5. CASE Skip
  BY <1>5, StepSkip
<1>6. CASE Abort
  BY <1>6, StepAbort
<1>7. CASE Return \/ Killed
  BY <1>7, StepOutcome
<1>8. CASE NextCommand
  BY <1>0, <1>8, Afresh DEF Core
<1>9. CASE UNCHANGED vars
  BY <1>9, Stays
<1> QED BY <1>1, <1>2, <1>3, <1>4, <1>5, <1>6, <1>7, <1>8, <1>9
     DEF CommandNext, Sweeping, Sweep, OpenRows, WriteRow, CloseRows, OpenManifest, WriteManifest, NoMore, cliVars

-----------------------------------------------------------------------------
(* A task's corpus never leaks into another's.                                *)

\* Every row's answer was given over what its arm held when it was handed in
\* and the task's own corpus: nothing another task, another arm or an earlier
\* command wrote is ever in it (harness.py:165, runner.py:57).
THEOREM NothingLeaks == CommandSpec => []Isolated
<1>1. CommandInit => Core
  BY Start DEF CommandInit
<1>2. Core => Isolated
  BY DEF Core, Apart, Isolated, Own, Range
<1> QED BY <1>1, <1>2, StepCore, PTL DEF CommandSpec

\* What a cell of the results is made of: its arm, its dataset and its model
\* are those of a call the request stands for.
THEOREM OnlyWhatWasAsked == CommandSpec => []TypeOK
<1>1. CommandInit => Core
  BY Start DEF CommandInit
<1>2. Core => TypeOK
  <2> SUFFICES ASSUME Core PROVE TypeOK
    OBVIOUS
  <2>1. ASSUME call # NoCall
        PROVE  /\ call.dataset \in Datasets /\ Range(call.arms) \subseteq ArmNames
               /\ armAt \in 1..(Len(call.arms) + 1) /\ taskAt \in DOMAIN Tasks[call.dataset]
    <3>1. call.dataset \in Datasets /\ \A i \in DOMAIN call.arms : call.arms[i] \in ArmNames
      BY <2>1, TaskFacts DEF Core
    <3> QED BY <2>1, <3>1 DEF Core, Busy, Range
  <2>2. {<<r.dataset, r.arm, r.model>> : r \in Range(rows)} \subseteq Cells
    BY DEF Core, RowsInCells, CellIn, Range
  <2> QED BY <2>1, <2>2 DEF Core, Types, TypeOK
<1> QED BY <1>1, <1>2, StepCore, PTL DEF CommandSpec

-----------------------------------------------------------------------------
(* The two files.                                                             *)

Files ==
  /\ command \in Nat \ {0} /\ manifest \in Nat /\ lines \in Seq(Nat) /\ torn \in BOOLEAN
  /\ saving \in {"no", "rows", "manifest", "over"}
  /\ manifest <= command
  /\ \A i \in DOMAIN lines : manifest <= lines[i] /\ lines[i] <= command
  /\ \A i, j \in DOMAIN lines : lines[i] = lines[j]
  /\ saving = "no" => manifest < command
  /\ saving \in {"rows", "manifest"} => /\ manifest < command /\ ~ torn
                                        /\ \A i \in DOMAIN lines : lines[i] = command
  /\ saving = "rows" => Len(lines) <= Len(rows)
  /\ saving = "manifest" => Len(lines) = Len(rows)
  /\ manifest = command => /\ saving = "over" /\ ~ torn
                           /\ Len(lines) = Len(rows) /\ \A i \in DOMAIN lines : lines[i] = command

LEMMA FilesStart == CommandInit => Files
<1> SUFFICES ASSUME CommandInit PROVE Files
  OBVIOUS
<1>1. lines \in Seq(Nat) /\ DOMAIN lines = {}
  BY EmptySeq DEF CommandInit
<1>2. command = 1 /\ saving = "no" /\ torn = FALSE /\ manifest = 0
  BY DEF CommandInit
<1>3. \A i \in DOMAIN lines : FALSE
  BY <1>1
<1>4. lines \in Seq(Nat)
  BY <1>1
<1>5. command \in Nat \ {0} /\ manifest \in Nat /\ manifest < command /\ manifest <= command
  BY <1>2
<1>6. saving = "no" /\ manifest # command
  BY <1>2
<1>7. torn \in BOOLEAN
  BY <1>2, Zenon
<1> QED BY <1>3, <1>4, <1>5, <1>6, <1>7 DEF Files

LEMMA StepFiles == Core /\ Files /\ [CommandNext]_cliVars => Files'
<1> SUFFICES ASSUME Core, Files, [CommandNext]_cliVars PROVE Files'
  OBVIOUS
<1>0. Len(rows) \in Nat /\ rows \in Seq(Records)
  BY DEF Core, Types
<1>1. CASE Sweeping
  <2>1. saving = "no" /\ UNCHANGED <<command, saving, lines, torn, manifest>>
    BY <1>1 DEF Sweeping
  <2> QED BY <2>1 DEF Files
<1>2. CASE OpenRows
  <2>1. /\ saving = "no" /\ saving' = "rows" /\ lines' = <<>> /\ torn' = FALSE
        /\ rows' = rows /\ command' = command /\ manifest' = manifest
    BY <1>2 DEF OpenRows, Opened, vars
  <2>2. lines' \in Seq(Nat) /\ DOMAIN lines' = {} /\ Len(lines') = 0
    BY <2>1, EmptySeq
  <2>3. /\ saving = "no" /\ saving' = "rows" /\ torn' = FALSE
        /\ rows' = rows /\ command' = command /\ manifest' = manifest
    BY <2>1
  <2>4. \A i \in DOMAIN lines' : FALSE
    BY <2>2
  <2>5. lines' \in Seq(Nat) /\ Len(lines') <= Len(rows)
    BY <1>0, <2>2
  <2> QED BY <1>0, <2>3, <2>4, <2>5 DEF Files
<1>3. CASE WriteRow
  <2>1. /\ saving = "rows" /\ Len(lines) < Len(rows) /\ lines' = Append(lines, command)
        /\ rows' = rows /\ command' = command /\ saving' = saving /\ torn' = torn /\ manifest' = manifest
    BY <1>3 DEF WriteRow, vars
  <2>2. lines \in Seq(Nat) /\ command \in Nat
    BY DEF Files
  <2>3. /\ lines' \in Seq(Nat) /\ Len(lines) \in Nat /\ Len(lines') = Len(lines) + 1
        /\ DOMAIN lines' = DOMAIN lines \cup {Len(lines) + 1}
        /\ lines'[Len(lines) + 1] = command /\ \A i \in DOMAIN lines : lines'[i] = lines[i]
    BY <2>1, <2>2, AppendFacts
  <2>4. \A i \in DOMAIN lines' : lines'[i] = command
    BY <2>1, <2>3 DEF Files
  <2> QED BY <1>0, <2>1, <2>3, <2>4 DEF Files
<1>4. CASE CloseRows
  <2>1. /\ saving = "rows" /\ Len(lines) = Len(rows) /\ saving' = "over"
        /\ rows' = rows /\ command' = command /\ lines' = lines /\ torn' = torn /\ manifest' = manifest
    BY <1>4 DEF CloseRows, RowsWritten, vars
  <2> QED BY <1>0, <2>1 DEF Files
<1>5. CASE OpenManifest
  <2>1. /\ saving = "rows" /\ Len(lines) = Len(rows) /\ saving' = "manifest" /\ manifest' = 0
        /\ rows' = rows /\ command' = command /\ lines' = lines /\ torn' = torn
    BY <1>5 DEF OpenManifest, RowsWritten, vars
  <2>2. \A i \in DOMAIN lines : 0 <= lines[i]
    BY DEF Files
  <2> QED BY <1>0, <2>1, <2>2 DEF Files
<1>6. CASE WriteManifest
  <2>1. /\ saving = "manifest" /\ saving' = "over" /\ manifest' = command
        /\ rows' = rows /\ command' = command /\ lines' = lines /\ torn' = torn
    BY <1>6 DEF WriteManifest, vars
  <2>2. \A i \in DOMAIN lines : lines[i] = command
    BY <2>1 DEF Files
  <2> QED BY <1>0, <2>1, <2>2 DEF Files
<1>7. CASE Killed
  <2>1. /\ saving' = "over" /\ torn' \in IF saving = "rows" /\ ~RowsWritten THEN BOOLEAN ELSE {torn}
        /\ rows' = rows /\ command' = command /\ lines' = lines /\ manifest' = manifest
    BY <1>7 DEF Killed
  <2>2. torn' \in BOOLEAN /\ manifest = command => saving = "over" /\ torn' = torn
    BY <2>1 DEF Files
  <2> QED BY <1>0, <2>1, <2>2 DEF Files
<1>8. CASE NextCommand
  <2>1. /\ saving' = "no" /\ command' = command + 1 /\ rows' = <<>>
        /\ lines' = lines /\ torn' = torn /\ manifest' = manifest
    BY <1>8 DEF NextCommand
  <2>2. /\ command \in Nat \ {0} /\ manifest \in Nat /\ manifest <= command /\ lines \in Seq(Nat)
        /\ \A i \in DOMAIN lines : manifest <= lines[i] /\ lines[i] <= command /\ lines[i] \in Nat
    BY DEF Files
  <2>3. /\ command' \in Nat \ {0} /\ manifest' < command' /\ manifest' <= command'
        /\ \A i \in DOMAIN lines' : manifest' <= lines'[i] /\ lines'[i] <= command'
    BY <2>1, <2>2
  <2> QED BY <2>1, <2>3 DEF Files
<1>9. CASE NoMore \/ UNCHANGED cliVars
  BY <1>9 DEF NoMore, cliVars, vars, Files
<1> QED BY <1>1, <1>2, <1>3, <1>4, <1>5, <1>6, <1>7, <1>8, <1>9 DEF CommandNext

\* However a command ends, and wherever one is killed while it writes: the rows
\* on disk are of one command, the manifest beside them is of none later than
\* theirs, and one of the command that runs vouches for all of its rows.
THEOREM FilesVouch == CommandSpec => []FilesAgree
<1>1. CommandInit => Core /\ Files
  BY Start, FilesStart DEF CommandInit
<1>2. Core /\ Files => FilesAgree
  <2> SUFFICES ASSUME Core, Files PROVE FilesAgree
    OBVIOUS
  <2>1. lines \in Seq(Nat) /\ DOMAIN lines = 1..Len(lines) /\ Len(lines) \in Nat
        /\ \A i \in DOMAIN lines : lines[i] \in Nat
        /\ rows \in Seq(Records) /\ DOMAIN rows = 1..Len(rows)
    BY DEF Core, Types, Files
  <2>2. Cardinality(Range(lines)) <= 1
    <3>1. CASE DOMAIN lines = {}
      <4>1. Range(lines) = {}
        BY <3>1 DEF Range
      <4> QED BY <4>1, FS_EmptySet
    <3>2. CASE DOMAIN lines # {}
      <4>1. PICK i \in DOMAIN lines : TRUE
        BY <3>2
      <4>2. \A j \in DOMAIN lines : lines[j] = lines[i]
        BY DEF Files
      <4>3. Range(lines) = {lines[i]}
        BY <4>1, <4>2 DEF Range
      <4> QED BY <4>3, FS_Singleton
    <3> QED BY <3>1, <3>2
  <2>3. \A i \in DOMAIN lines : lines[i] >= manifest
    BY <2>1 DEF Files
  <2>4. ASSUME manifest = command PROVE lines = [i \in DOMAIN rows |-> command] /\ ~ torn
    <3>1. ~ torn /\ Len(lines) = Len(rows) /\ \A i \in DOMAIN lines : lines[i] = command
      BY <2>4 DEF Files
    <3>2. lines = [i \in DOMAIN lines |-> lines[i]]
      BY <2>1
    <3> QED BY <2>1, <3>1, <3>2
  <2> QED BY <2>2, <2>3, <2>4 DEF FilesAgree
<1>3. Core /\ Files /\ [CommandNext]_cliVars => (Core /\ Files)'
  BY StepCore, StepFiles
<1> QED BY <1>1, <1>2, <1>3, PTL DEF CommandSpec

-----------------------------------------------------------------------------
(* Whole cells.  What a call has recorded so far, and what the rows hold of   *)
(* each cell: under run_from_config by the place of its call in the plan,     *)
(* under run_sweep by what is done.                                           *)

Recorded ==
  call # NoCall =>
    /\ \A i \in DOMAIN call.arms :
         TasksOf(records, CellAt(call, i)) =
           IF i < armAt THEN Tasks[call.dataset]
           ELSE IF i = armAt THEN SubSeq(Tasks[call.dataset], 1, taskAt - 1) ELSE <<>>
    /\ \A c \in AllCells : (\A i \in DOMAIN call.arms : c # CellAt(call, i)) => TasksOf(records, c) = <<>>

ConfigRows ==
  request.driver = "config" =>
    /\ \A k \in DOMAIN Plan(request) :
         LET c == CellAt(Plan(request)[k], 1)
         IN  /\ k > Made => TasksOf(rows, c) = <<>>
             /\ k <= Made => \/ TasksOf(rows, c) = Tasks[c[1]]
                             \/ TasksOf(rows, c) = <<>> /\ ~ Works(c) /\ c[2] \in DOMAIN skipped
    /\ \A a \in DOMAIN skipped : \E k \in DOMAIN Plan(request) :
         LET c == CellAt(Plan(request)[k], 1)
         IN  k <= Made /\ c = <<skipped[a][1], a, skipped[a][2]>> /\ TasksOf(rows, c) = <<>>

SweepRows ==
  request.driver = "sweep" =>
    /\ \A d \in Datasets, a \in ArmNames :
         TasksOf(rows, <<d, a, DefaultModel>>) = IF <<d, a>> \in done THEN Tasks[d] ELSE <<>>
    /\ \A k \in DOMAIN Plan(request) :
         k <= Made => \A i \in DOMAIN Plan(request)[k].arms :
                        <<Plan(request)[k].dataset, Plan(request)[k].arms[i]>> \in done

Whole == Recorded /\ ConfigRows /\ SweepRows

LEMMA EmptyTasks ==
  ASSUME NEW s \in Seq(Records), NEW cell
  PROVE  /\ TasksOf(<<>>, cell) = <<>> /\ TasksOf(s, cell) \in Seq(AllTasks)
         /\ <<>> \o TasksOf(s, cell) = TasksOf(s, cell) /\ TasksOf(s, cell) \o <<>> = TasksOf(s, cell)
<1> DEFINE e == TasksOf(s, cell)
<1>1. Parts(s, cell) \in Seq(Seq(AllTasks)) /\ e = FlattenSeq(Parts(s, cell))
      /\ TasksOf(<<>>, cell) = FlattenSeq(Parts(<<>>, cell))
  <2>1. <<>> \in Seq(Records)
    BY EmptySeq
  <2> QED BY <2>1, PartsType
<1>2. Parts(<<>>, cell) = <<>>
  BY DEF Parts
<1> HIDE DEF e
<1>3. <<>> \in Seq(AllTasks) /\ FlattenSeq(<<>>) = <<>> /\ FlattenSeq(Parts(s, cell)) \in Seq(AllTasks)
  <2>1. <<>> \in Seq(AllTasks)
    BY EmptySeq
  <2> QED BY <1>1, <2>1, FlatAppend
<1>4. e \in Seq(AllTasks)
  BY <1>1, <1>3
<1>5. <<>> \o e = e /\ e \o <<>> = e
  BY <1>4, ConcatEmptySeq
<1> QED BY <1>1, <1>2, <1>3, <1>4, <1>5 DEF e

LEMMA WholeStart == Init => Whole
<1> SUFFICES ASSUME Init PROVE Whole
  OBVIOUS
<1> USE DEF Init, BenchInit
<1>1. \A cell : TasksOf(rows, cell) = <<>>
  <2>1. <<>> \in Seq(Records)
    BY EmptySeq
  <2> QED BY <2>1, EmptyTasks
<1>2. DOMAIN skipped = {}
  BY EmptySeq
<1>3. \A k \in DOMAIN Plan(request) : ~ (k <= Made)
  <2> DEFINE p == Plan(request)
  <2>1. p \in Seq(Calls) /\ Made = Len(p) - Len(p)
    BY PlanFacts DEF Made
  <2> HIDE DEF p
  <2>2. \A k \in DOMAIN p : ~ (k <= Made)
    BY <2>1
  <2> QED BY <2>2 DEF p
<1>4. Recorded
  BY DEF Recorded
<1>5. ConfigRows
  BY <1>1, <1>2, <1>3, Zenon DEF ConfigRows
<1>6. SweepRows
  <2>1. done = {}
    OBVIOUS
  <2> QED BY <1>1, <1>3, <2>1, Zenon DEF SweepRows
<1> QED BY <1>4, <1>5, <1>6 DEF Whole

LEMMA RowsStay ==
  ConfigRows /\ SweepRows /\ UNCHANGED <<request, todo, done, rows, skipped>> => (ConfigRows /\ SweepRows)'
  BY DEF ConfigRows, SweepRows, Made, Works

LEMMA RecordedStays == Recorded /\ UNCHANGED <<call, armAt, taskAt, records>> => Recorded'
  BY DEF Recorded

LEMMA RecordedOver == call' = NoCall => Recorded'
  BY DEF Recorded

\* The arms of a call differ.
LEMMA CallDistinct ==
  ASSUME DistinctRequests, Core, call # NoCall
  PROVE  \A i, j \in DOMAIN call.arms : CellAt(call, i) = CellAt(call, j) => i = j
<1>1. Head(todo) \in Calls /\ IsInjective(Head(todo).arms)
  BY CallFacts, PlanFacts DEF Core, Types
<1>2. IsInjective(call.arms)
  BY <1>1, PendingFacts DEF Core, Busy
<1> QED BY <1>2 DEF IsInjective, CellAt

LEMMA RecordedAttempt ==
  ASSUME DistinctRequests, Core, Recorded, Attempt
  PROVE  Recorded'
<1> DEFINE t == Tasks[call.dataset]
           before(i) == TasksOf(records, CellAt(call, i))
           after(i) == TasksOf(records', CellAt(call, i))
<1>1. /\ MoreArms /\ call # NoCall /\ call' = call
      /\ records' = Append(records, Answer) /\ Answer \in Records
      /\ CellIn(Answer) = CellAt(call, armAt) /\ armAt \in DOMAIN call.arms /\ Answer.task = Task
      /\ armAt \in Nat /\ taskAt \in Nat
      /\ \/ taskAt < Len(t) /\ taskAt' = taskAt + 1 /\ armAt' = armAt
         \/ taskAt = Len(t) /\ taskAt' = 1 /\ armAt' = armAt + 1
  BY AttemptFacts
<1>2. t \in Seq(AllTasks) /\ Len(t) \in Nat /\ 1 <= taskAt /\ taskAt <= Len(t) /\ t[taskAt] = Task
      /\ DOMAIN call.arms \subseteq Nat
  BY <1>1, TaskFacts DEF Core, Task
<1>3. \A cell : TasksOf(records', cell) = TasksOf(records, cell) \o Part(Answer, cell)
  BY <1>1, TasksAppend DEF Core, Types
<1>4. \A cell : cell # CellAt(call, armAt) => TasksOf(records', cell) = TasksOf(records, cell)
  <2> SUFFICES ASSUME NEW cell, cell # CellAt(call, armAt) PROVE TasksOf(records', cell) = TasksOf(records, cell)
    OBVIOUS
  <2>1. Part(Answer, cell) = <<>>
    BY <1>1 DEF Part
  <2>2. TasksOf(records, cell) \o <<>> = TasksOf(records, cell)
    BY EmptyTasks DEF Core, Types
  <2> QED BY <1>3, <2>1, <2>2
<1>5. \A i \in DOMAIN call.arms :
        before(i) = IF i < armAt THEN t ELSE IF i = armAt THEN SubSeq(t, 1, taskAt - 1) ELSE <<>>
  BY <1>1 DEF Recorded
<1>6. after(armAt) = SubSeq(t, 1, taskAt)
  <2>1. Part(Answer, CellAt(call, armAt)) = <<t[taskAt]>>
    BY <1>1, <1>2 DEF Part
  <2>2. before(armAt) = SubSeq(t, 1, taskAt - 1)
    BY <1>1, <1>5
  <2>3. after(armAt) = SubSeq(t, 1, taskAt - 1) \o <<t[taskAt]>>
    BY <1>3, <2>1, <2>2
  <2> HIDE DEF t, after, before
  <2>4. SubSeq(t, 1, taskAt - 1) \o <<t[taskAt]>> = SubSeq(t, 1, taskAt)
    BY <1>1, <1>2
  <2> QED BY <2>3, <2>4
<1>7. \A i \in DOMAIN call.arms : i # armAt => after(i) = before(i)
  BY <1>1, <1>4, CallDistinct
<1>8. \A i \in DOMAIN call.arms :
        after(i) = IF i < armAt' THEN t ELSE IF i = armAt' THEN SubSeq(t, 1, taskAt' - 1) ELSE <<>>
  <2> SUFFICES ASSUME NEW i \in DOMAIN call.arms
               PROVE  after(i) = IF i < armAt' THEN t ELSE IF i = armAt' THEN SubSeq(t, 1, taskAt' - 1) ELSE <<>>
    OBVIOUS
  <2> HIDE DEF t, after, before
  <2>0. i \in Nat
    BY <1>2
  <2>1. CASE taskAt < Len(t) /\ taskAt' = taskAt + 1 /\ armAt' = armAt
    <3>1. taskAt' - 1 = taskAt
      BY <1>1, <2>1
    <3>2. CASE i = armAt
      BY <1>1, <1>6, <2>1, <3>1, <3>2
    <3>3. CASE i # armAt
      <4>1. after(i) = IF i < armAt THEN t ELSE <<>>
        BY <1>5, <1>7, <3>3
      <4> QED BY <2>1, <3>3, <4>1
    <3> QED BY <3>2, <3>3
  <2>2. CASE taskAt = Len(t) /\ taskAt' = 1 /\ armAt' = armAt + 1
    <3>1. SubSeq(t, 1, taskAt) = t /\ SubSeq(t, 1, taskAt' - 1) = <<>>
      BY <1>2, <2>2
    <3>2. CASE i < armAt
      BY <1>1, <1>5, <1>7, <2>0, <2>2, <3>2
    <3>3. CASE i = armAt
      BY <1>1, <1>6, <2>2, <3>1, <3>3
    <3>4. CASE i > armAt
      <4>1. after(i) = <<>>
        BY <1>1, <1>5, <1>7, <2>0, <3>4
      <4>2. ~ (i < armAt')
        BY <1>1, <2>0, <2>2, <3>4
      <4> QED BY <3>1, <4>1, <4>2
    <3> QED BY <1>1, <2>0, <3>2, <3>3, <3>4
  <2> QED BY <1>1, <2>1, <2>2
<1>9. \A c \in AllCells : (\A i \in DOMAIN call.arms : c # CellAt(call, i)) => TasksOf(records', c) = <<>>
  BY <1>1, <1>4 DEF Recorded
<1> QED BY <1>1, <1>8, <1>9 DEF Recorded, CellAt

LEMMA RecordedCall ==
  ASSUME Core, Call
  PROVE  Recorded'
<1>1. records' = <<>> /\ armAt' = 1 /\ taskAt' = 1
  BY DEF Call, Begin
<1>2. \A cell : TasksOf(records', cell) = <<>>
  <2>1. <<>> \in Seq(Records)
    BY EmptySeq
  <2> QED BY <1>1, <2>1, EmptyTasks
<1>3. \A i \in DOMAIN call'.arms : i \in Nat /\ i >= 1
  <2> DEFINE c == Head(todo)
  <2>1. call'.arms = Pending(c) /\ todo # <<>>
    BY DEF Call, Begin
  <2>2. c \in Calls
    BY <2>1, SeqFacts DEF Core, Types
  <2> HIDE DEF c
  <2>3. call'.arms \in Seq(ArmNames)
    BY <2>1, <2>2, PendingFacts
  <2> QED BY <2>3
<1>4. ASSUME call' # NoCall
      PROVE  Len(Tasks[call'.dataset]) \in Nat /\ SubSeq(Tasks[call'.dataset], 1, 0) = <<>>
  <2>1. Core'
    BY StepCall
  <2> DEFINE t == Tasks[call'.dataset]
  <2>2. t \in Seq(Range(t))
    <3>1. call' \in Calls
      BY <1>4, <2>1 DEF Core, Types
    <3>2. call'.dataset \in Datasets
      BY <3>1 DEF Calls
    <3> QED BY <3>2, BenchmarkAssumption
  <2> DEFINE R == Range(t)
  <2>3. t \in Seq(R)
    BY <2>2
  <2> HIDE DEF t, R
  <2>4. SubSeq(t, 1, 0) = <<>> /\ Len(t) \in Nat
    BY <2>3
  <2> QED BY <2>4 DEF t
<1>5. ASSUME call' # NoCall, NEW i \in DOMAIN call'.arms
      PROVE  TasksOf(records', CellAt(call', i)) =
               IF i < armAt' THEN Tasks[call'.dataset]
               ELSE IF i = armAt' THEN SubSeq(Tasks[call'.dataset], 1, taskAt' - 1) ELSE <<>>
  <2>1. ~ (i < armAt') /\ taskAt' - 1 = 0
    BY <1>1, <1>3
  <2> QED BY <1>2, <1>4, <1>5, <2>1
<1> QED BY <1>2, <1>5 DEF Recorded, CellAt

\* Extend and Skip are over with the call at the head of todo, whose arms are
\* those of its place in the plan that were not done.
LEMMA PlaceFacts ==
  ASSUME DistinctRequests, Core, NEW k \in DOMAIN Plan(request), NEW i \in DOMAIN Plan(request)[k].arms
  PROVE  /\ CellAt(Plan(request)[k], i) \in AllCells /\ Plan(request)[k] \in Calls
         /\ Tasks[Plan(request)[k].dataset] # <<>> /\ <<>> # Tasks[Plan(request)[k].dataset]
         /\ Plan(request)[k].dataset \in Datasets /\ Plan(request)[k].arms[i] \in ArmNames
         /\ request.driver = "config" => i = 1
         /\ request.driver = "sweep" => Plan(request)[k].model = DefaultModel
<1> DEFINE c == Plan(request)[k]
<1>1. c \in Calls
  <2> DEFINE p == Plan(request)
  <2>1. p \in Seq(Calls) /\ k \in DOMAIN p
    BY PlanFacts DEF Core, Types
  <2> HIDE DEF p
  <2>2. p[k] \in Calls
    BY <2>1
  <2> QED BY <2>2 DEF p
<1>2. /\ request.driver = "config" => \E a \in ArmNames : c.arms = <<a>>
      /\ request.driver = "sweep" => c.model = DefaultModel
  BY PlanFacts DEF Core, Types
<1> HIDE DEF c
<1>3. c.dataset \in Datasets /\ c.arms \in Seq(ArmNames) /\ c.model \in Models
  BY <1>1 DEF Calls
<1>4. c.arms[i] \in ArmNames
  BY <1>3 DEF c
<1>5. Tasks[c.dataset] # <<>>
  BY <1>3, BenchmarkAssumption
<1>6. request.driver = "config" => i = 1
  <2> SUFFICES ASSUME request.driver = "config" PROVE i = 1
    OBVIOUS
  <2>1. PICK a \in ArmNames : c.arms = <<a>>
    BY <1>2
  <2> QED BY <2>1 DEF c
<1> QED BY <1>1, <1>2, <1>3, <1>4, <1>5, <1>6 DEF c, CellAt, AllCells

LEMMA ExtendFacts ==
  ASSUME Core, Recorded, Extend
  PROVE  /\ \A cell : TasksOf(rows', cell) = TasksOf(rows, cell) \o TasksOf(records, cell)
         /\ \A i \in DOMAIN call.arms : TasksOf(records, CellAt(call, i)) = Tasks[call.dataset]
         /\ \A cell \in AllCells : (\A i \in DOMAIN call.arms : cell # CellAt(call, i)) =>
              TasksOf(records, cell) = <<>> /\ TasksOf(rows', cell) = TasksOf(rows, cell)
         /\ \A cell, t : TasksOf(rows, cell) = <<>> /\ TasksOf(records, cell) = t => TasksOf(rows', cell) = t
<1>1. rows \in Seq(Records) /\ records \in Seq(Records)
  BY DEF Core, Types
<1>2. call # NoCall /\ ~ MoreArms /\ rows' = rows \o records
  BY DEF Extend, Completed
<1>3. \A cell : TasksOf(rows', cell) = TasksOf(rows, cell) \o TasksOf(records, cell)
  BY <1>1, <1>2, TasksConcat
<1>4. \A i \in DOMAIN call.arms : TasksOf(records, CellAt(call, i)) = Tasks[call.dataset]
  <2>1. \A i \in DOMAIN call.arms : i < armAt
    BY <1>2, TaskFacts DEF Core, MoreArms
  <2> QED BY <1>2, <2>1 DEF Recorded
<1>5. \A cell : <<>> \o TasksOf(records, cell) = TasksOf(records, cell) /\ TasksOf(rows, cell) \o <<>> = TasksOf(rows, cell)
  BY <1>1, EmptyTasks
<1>6. \A cell \in AllCells : (\A i \in DOMAIN call.arms : cell # CellAt(call, i)) => TasksOf(records, cell) = <<>>
  BY <1>2 DEF Recorded
<1>7. \A cell : TasksOf(records, cell) = <<>> => TasksOf(rows', cell) = TasksOf(rows, cell)
  BY <1>3, <1>5
<1>8. \A cell, t : TasksOf(rows, cell) = <<>> /\ TasksOf(records, cell) = t => TasksOf(rows', cell) = t
  BY <1>3, <1>5
<1> QED BY <1>3, <1>4, <1>6, <1>7, <1>8

\* The cell of place k under run_from_config.
At(k) == CellAt(Plan(request)[k], 1)

LEMMA ConfigFacts ==
  ASSUME DistinctRequests, Core, request.driver = "config"
  PROVE  /\ \A k, l \in DOMAIN Plan(request) : At(k) = At(l) => k = l
         /\ \A k \in DOMAIN Plan(request) : At(k) \in AllCells /\ 1 \in DOMAIN Plan(request)[k].arms
         /\ done = {}
         /\ call # NoCall => /\ \A i \in DOMAIN call.arms : CellAt(call, i) = At(Made + 1)
                             /\ DOMAIN call.arms # {}
         /\ todo # <<>> => Pending(Head(todo)) # <<>>
<1>0. request \in Requests /\ done = {}
  BY DEF Core, Types, Places
<1>1. \A k, l \in DOMAIN Plan(request) : At(k) = At(l) => k = l
  BY <1>0, PlanFacts DEF At
<1>2. \A k \in DOMAIN Plan(request) : 1 \in DOMAIN Plan(request)[k].arms
  <2> SUFFICES ASSUME NEW k \in DOMAIN Plan(request) PROVE 1 \in DOMAIN Plan(request)[k].arms
    OBVIOUS
  <2>1. PICK a \in ArmNames : Plan(request)[k].arms = <<a>>
    BY <1>0, PlanFacts
  <2> QED BY <2>1
<1>3. \A k \in DOMAIN Plan(request) : At(k) \in AllCells
  BY <1>2, PlaceFacts DEF At
<1>4. ASSUME todo # <<>> PROVE Pending(Head(todo)) # <<>> /\ DOMAIN Pending(Head(todo)) # {}
  <2> DEFINE c == Head(todo)
             k == Made + 1
  <2>1. c \in Calls /\ k \in DOMAIN Plan(request) /\ c = Plan(request)[k]
    BY <1>4, HeadFacts DEF Core
  <2>2. 1 \in DOMAIN c.arms
    BY <1>2, <2>1
  <2> HIDE DEF c, k
  <2>3. c.arms[1] \in Range(Pending(c))
    BY <1>0, <2>1, <2>2, PendingFacts
  <2>4. Range(<<>>) = {}
    BY Single
  <2> QED BY <2>3, <2>4 DEF c, Range
<1>5. ASSUME call # NoCall
      PROVE  (\A i \in DOMAIN call.arms : CellAt(call, i) = At(Made + 1)) /\ DOMAIN call.arms # {}
  <2> DEFINE k == Made + 1
  <2>1. /\ todo # <<>> /\ k \in DOMAIN Plan(request) /\ Head(todo) = Plan(request)[k]
        /\ call.dataset = Head(todo).dataset /\ call.model = Head(todo).model
        /\ \A i \in DOMAIN call.arms : \E j \in DOMAIN Head(todo).arms : call.arms[i] = Head(todo).arms[j]
    BY <1>5, CallFacts
  <2> HIDE DEF k
  <2>2. \A j \in DOMAIN Plan(request)[k].arms : j = 1
    BY <2>1, PlaceFacts
  <2>3. \A i \in DOMAIN call.arms : CellAt(call, i) = At(k)
    BY <2>1, <2>2 DEF At, CellAt
  <2>4. call.arms = Pending(Head(todo))
    BY <1>5 DEF Core, Busy
  <2> QED BY <1>4, <2>1, <2>3, <2>4 DEF k
<1> QED BY <1>0, <1>1, <1>2, <1>3, <1>4, <1>5

LEMMA ConfigExtend ==
  ASSUME DistinctRequests, Core, Recorded, ConfigRows, Extend
  PROVE  ConfigRows'
<1> SUFFICES ASSUME request'.driver = "config" PROVE ConfigRows'
  BY DEF ConfigRows
<1>1. /\ call # NoCall /\ todo # <<>> /\ todo' = Tail(todo) /\ request' = request /\ skipped' = skipped
      /\ request.driver = "config"
  BY DEF Extend, Completed, Core, Busy
<1> DEFINE n == Made
           plan == DOMAIN Plan(request)
<1>2. n \in Nat /\ Made' = n + 1 /\ n + 1 \in plan /\ plan \subseteq Nat
  <2>1. n \in Nat /\ Made' = n + 1 /\ n + 1 \in plan
    BY <1>1, Dropped DEF Core
  <2> DEFINE p == Plan(request)
  <2>2. p \in Seq(Calls)
    BY PlanFacts DEF Core, Types
  <2> HIDE DEF p
  <2>3. DOMAIN p \subseteq Nat
    BY <2>2
  <2> QED BY <2>1, <2>3 DEF p
<1>3. /\ \A k, l \in plan : At(k) = At(l) => k = l
      /\ \A k \in plan : At(k) \in AllCells
      /\ \A i \in DOMAIN call.arms : CellAt(call, i) = At(n + 1)
      /\ DOMAIN call.arms # {}
  BY <1>1, ConfigFacts
<1>4. TasksOf(records, At(n + 1)) = Tasks[call.dataset] /\ At(n + 1)[1] = call.dataset
  <2>1. PICK i \in DOMAIN call.arms : CellAt(call, i) = At(n + 1)
    BY <1>3
  <2>2. TasksOf(records, CellAt(call, i)) = Tasks[call.dataset]
    BY ExtendFacts
  <2>3. CellAt(call, i)[1] = call.dataset
    BY DEF CellAt
  <2> QED BY <2>1, <2>2, <2>3
<1>5. \A k \in plan : k # n + 1 => TasksOf(rows', At(k)) = TasksOf(rows, At(k))
  BY <1>2, <1>3, ExtendFacts
<1>6. /\ \A k \in plan : /\ k > n => TasksOf(rows, At(k)) = <<>>
                         /\ k <= n => \/ TasksOf(rows, At(k)) = Tasks[At(k)[1]]
                                      \/ TasksOf(rows, At(k)) = <<>> /\ ~ Works(At(k)) /\ At(k)[2] \in DOMAIN skipped
      /\ \A a \in DOMAIN skipped : \E k \in plan :
           k <= n /\ At(k) = <<skipped[a][1], a, skipped[a][2]>> /\ TasksOf(rows, At(k)) = <<>>
  BY <1>1 DEF ConfigRows, At
<1> HIDE DEF n, plan
<1>7. TasksOf(rows', At(n + 1)) = Tasks[At(n + 1)[1]]
  <2>1. n + 1 > n
    BY <1>2
  <2>2. TasksOf(rows, At(n + 1)) = <<>>
    BY <1>2, <1>6, <2>1
  <2> QED BY <1>4, <2>2, ExtendFacts
<1>8. \A k \in plan : /\ k > n + 1 => TasksOf(rows', At(k)) = <<>>
                      /\ k <= n + 1 => \/ TasksOf(rows', At(k)) = Tasks[At(k)[1]]
                                       \/ /\ TasksOf(rows', At(k)) = <<>>
                                          /\ ~ Works(At(k)) /\ At(k)[2] \in DOMAIN skipped
  <2> SUFFICES ASSUME NEW k \in plan
               PROVE  /\ k > n + 1 => TasksOf(rows', At(k)) = <<>>
                      /\ k <= n + 1 => \/ TasksOf(rows', At(k)) = Tasks[At(k)[1]]
                                       \/ /\ TasksOf(rows', At(k)) = <<>>
                                          /\ ~ Works(At(k)) /\ At(k)[2] \in DOMAIN skipped
    OBVIOUS
  <2>1. CASE k = n + 1
    BY <1>2, <1>7, <2>1
  <2>2. CASE k # n + 1
    <3>1. (k > n + 1 => k > n) /\ (k <= n + 1 => k <= n)
      BY <1>2, <2>2
    <3> QED BY <1>5, <1>6, <2>2, <3>1
  <2> QED BY <2>1, <2>2
<1>9. \A a \in DOMAIN skipped : \E k \in plan :
         k <= n + 1 /\ At(k) = <<skipped[a][1], a, skipped[a][2]>> /\ TasksOf(rows', At(k)) = <<>>
  <2> SUFFICES ASSUME NEW a \in DOMAIN skipped
               PROVE  \E k \in plan : /\ k <= n + 1 /\ At(k) = <<skipped[a][1], a, skipped[a][2]>>
                                      /\ TasksOf(rows', At(k)) = <<>>
    OBVIOUS
  <2>1. PICK k \in plan : k <= n /\ At(k) = <<skipped[a][1], a, skipped[a][2]>> /\ TasksOf(rows, At(k)) = <<>>
    BY <1>6
  <2>2. k # n + 1 /\ k <= n + 1
    BY <1>2, <2>1
  <2> QED BY <1>5, <2>1, <2>2
<1> QED BY <1>1, <1>2, <1>8, <1>9 DEF ConfigRows, At, Works, plan

LEMMA ConfigSkip ==
  ASSUME DistinctRequests, Core, ConfigRows, Skip
  PROVE  ConfigRows'
<1>1. /\ MoreArms /\ call # NoCall /\ todo # <<>> /\ todo' = Tail(todo) /\ request' = request /\ rows' = rows
      /\ skipped' = [a \in DOMAIN skipped \cup {Arm} |->
                       IF a = Arm THEN <<call.dataset, call.model>> ELSE skipped[a]]
      /\ request.driver = "config" /\ "unavailable" \in Errors
  BY SkipFacts
<1> DEFINE n == Made
           plan == DOMAIN Plan(request)
<1>2. n \in Nat /\ Made' = n + 1 /\ n + 1 \in plan /\ plan \subseteq Nat
  <2>1. n \in Nat /\ Made' = n + 1 /\ n + 1 \in plan
    BY <1>1, Dropped DEF Core
  <2> DEFINE p == Plan(request)
  <2>2. p \in Seq(Calls)
    BY PlanFacts DEF Core, Types
  <2> HIDE DEF p
  <2>3. DOMAIN p \subseteq Nat
    BY <2>2
  <2> QED BY <2>1, <2>3 DEF p
<1>3. At(n + 1) = <<call.dataset, Arm, call.model>>
  <2>1. armAt \in DOMAIN call.arms
    BY <1>1, TaskFacts DEF Core
  <2>2. CellAt(call, armAt) = At(n + 1)
    BY <1>1, <2>1, ConfigFacts
  <2> QED BY <2>2 DEF CellAt, Arm
<1>4. ~ Works(At(n + 1))
  <2>1. call.model \in NoBackend \/ Arm \in Missing \/ Arm \in Flaky
    BY <1>1 DEF Errors, CanBuild
  <2> QED BY <1>3, <2>1 DEF Works
<1>5. /\ \A k \in plan : /\ k > n => TasksOf(rows, At(k)) = <<>>
                         /\ k <= n => \/ TasksOf(rows, At(k)) = Tasks[At(k)[1]]
                                      \/ TasksOf(rows, At(k)) = <<>> /\ ~ Works(At(k)) /\ At(k)[2] \in DOMAIN skipped
      /\ \A a \in DOMAIN skipped : \E k \in plan :
           k <= n /\ At(k) = <<skipped[a][1], a, skipped[a][2]>> /\ TasksOf(rows, At(k)) = <<>>
  BY <1>1 DEF ConfigRows, At
<1> HIDE DEF n, plan
<1>6. TasksOf(rows, At(n + 1)) = <<>> /\ At(n + 1)[2] = Arm
  <2>1. n + 1 > n
    BY <1>2
  <2> QED BY <1>2, <1>3, <1>5, <2>1
<1>7. DOMAIN skipped' = DOMAIN skipped \cup {Arm} /\ skipped'[Arm] = <<call.dataset, call.model>>
      /\ \A a \in DOMAIN skipped : a # Arm => skipped'[a] = skipped[a]
  BY <1>1
<1>8. \A k \in plan : /\ k > n + 1 => TasksOf(rows, At(k)) = <<>>
                      /\ k <= n + 1 => \/ TasksOf(rows, At(k)) = Tasks[At(k)[1]]
                                       \/ /\ TasksOf(rows, At(k)) = <<>>
                                          /\ ~ Works(At(k)) /\ At(k)[2] \in DOMAIN skipped'
  <2> SUFFICES ASSUME NEW k \in plan
               PROVE  /\ k > n + 1 => TasksOf(rows, At(k)) = <<>>
                      /\ k <= n + 1 => \/ TasksOf(rows, At(k)) = Tasks[At(k)[1]]
                                       \/ /\ TasksOf(rows, At(k)) = <<>>
                                          /\ ~ Works(At(k)) /\ At(k)[2] \in DOMAIN skipped'
    OBVIOUS
  <2>1. CASE k = n + 1
    BY <1>2, <1>4, <1>6, <1>7, <2>1
  <2>2. CASE k # n + 1
    <3>1. (k > n + 1 => k > n) /\ (k <= n + 1 => k <= n)
      BY <1>2, <2>2
    <3> QED BY <1>5, <1>7, <2>2, <3>1
  <2> QED BY <2>1, <2>2
<1>9. \A a \in DOMAIN skipped' : \E k \in plan :
         k <= n + 1 /\ At(k) = <<skipped'[a][1], a, skipped'[a][2]>> /\ TasksOf(rows, At(k)) = <<>>
  <2> SUFFICES ASSUME NEW a \in DOMAIN skipped'
               PROVE  \E k \in plan : /\ k <= n + 1 /\ At(k) = <<skipped'[a][1], a, skipped'[a][2]>>
                                      /\ TasksOf(rows, At(k)) = <<>>
    OBVIOUS
  <2>1. CASE a = Arm
    <3>1. n + 1 <= n + 1 /\ At(n + 1) = <<skipped'[a][1], a, skipped'[a][2]>>
      BY <1>2, <1>3, <1>7, <2>1
    <3> QED BY <1>2, <1>6, <3>1
  <2>2. CASE a # Arm
    <3>1. a \in DOMAIN skipped /\ skipped'[a] = skipped[a]
      BY <1>7, <2>2
    <3>2. PICK k \in plan : k <= n /\ At(k) = <<skipped[a][1], a, skipped[a][2]>> /\ TasksOf(rows, At(k)) = <<>>
      BY <1>5, <3>1
    <3>3. k <= n + 1
      BY <1>2, <3>2
    <3> QED BY <3>1, <3>2, <3>3
  <2> QED BY <2>1, <2>2
<1> QED BY <1>1, <1>2, <1>8, <1>9 DEF ConfigRows, At, Works, plan

LEMMA SweepFacts ==
  ASSUME DistinctRequests, Core, request.driver = "sweep", todo # <<>>
  PROVE  /\ Head(todo) = Plan(request)[Made + 1] /\ Made + 1 \in DOMAIN Plan(request)
         /\ Head(todo) \in Calls /\ Head(todo).model = DefaultModel
         /\ \A i \in DOMAIN Head(todo).arms :
              \/ <<Head(todo).dataset, Head(todo).arms[i]>> \in done
              \/ Head(todo).arms[i] \in Range(Pending(Head(todo)))
<1>1. /\ Head(todo) = Plan(request)[Made + 1] /\ Made + 1 \in DOMAIN Plan(request) /\ Head(todo) \in Calls
  BY HeadFacts DEF Core
<1>2. Head(todo).model = DefaultModel
  BY <1>1, PlanFacts DEF Core, Types
<1> DEFINE c == Head(todo)
<1>3. c \in Calls
  BY <1>1
<1> HIDE DEF c
<1>4. \A i \in DOMAIN c.arms : <<c.dataset, c.arms[i]>> \in done \/ c.arms[i] \in Range(Pending(c))
  BY <1>3, PendingFacts
<1> QED BY <1>1, <1>2, <1>4 DEF c

LEMMA SweepNothing ==
  ASSUME DistinctRequests, Core, SweepRows, NothingPending
  PROVE  SweepRows'
<1> SUFFICES ASSUME request.driver = "sweep" PROVE SweepRows'
  BY DEF SweepRows, NothingPending
<1>1. /\ todo # <<>> /\ todo' = Tail(todo) /\ Pending(Head(todo)) = <<>>
      /\ request' = request /\ done' = done /\ rows' = rows
  BY DEF NothingPending
<1> DEFINE n == Made
<1>2. n \in Nat /\ Made' = n + 1
  BY <1>1, Dropped DEF Core
<1>3. \A i \in DOMAIN Plan(request)[n + 1].arms :
        <<Plan(request)[n + 1].dataset, Plan(request)[n + 1].arms[i]>> \in done
  <2>1. Range(<<>>) = {}
    BY Single
  <2> QED BY <1>1, <2>1, SweepFacts
<1>4. /\ \A d \in Datasets, a \in ArmNames :
           TasksOf(rows, <<d, a, DefaultModel>>) = IF <<d, a>> \in done THEN Tasks[d] ELSE <<>>
      /\ \A k \in DOMAIN Plan(request) :
           k <= n => \A i \in DOMAIN Plan(request)[k].arms :
                       <<Plan(request)[k].dataset, Plan(request)[k].arms[i]>> \in done
  BY DEF SweepRows
<1> HIDE DEF n
<1>5. \A k \in DOMAIN Plan(request) : k <= n + 1 => k <= n \/ k = n + 1
  <2> DEFINE p == Plan(request)
  <2>1. p \in Seq(Calls)
    BY PlanFacts DEF Core, Types
  <2> HIDE DEF p
  <2>2. \A k \in DOMAIN p : k \in Nat
    BY <2>1
  <2>3. \A k \in DOMAIN p : k <= n + 1 => k <= n \/ k = n + 1
    BY <1>2, <2>2
  <2> QED BY <2>3 DEF p
<1>6. \A k \in DOMAIN Plan(request) :
        k <= n + 1 => \A i \in DOMAIN Plan(request)[k].arms :
                        <<Plan(request)[k].dataset, Plan(request)[k].arms[i]>> \in done
  BY <1>3, <1>4, <1>5
<1> QED BY <1>1, <1>2, <1>4, <1>6 DEF SweepRows

LEMMA SweepExtend ==
  ASSUME DistinctRequests, Core, Recorded, SweepRows, Extend
  PROVE  SweepRows'
<1> SUFFICES ASSUME request.driver = "sweep" PROVE SweepRows'
  BY DEF SweepRows, Extend
<1> DEFINE new == {<<call.dataset, call.arms[i]>> : i \in DOMAIN call.arms}
           n == Made
<1>1. /\ call # NoCall /\ todo # <<>> /\ todo' = Tail(todo) /\ request' = request /\ done' = done \cup new
  BY DEF Extend, Completed, Core, Busy
<1>2. n \in Nat /\ Made' = n + 1
  BY <1>1, Dropped DEF Core
<1>3. /\ call.dataset = Head(todo).dataset /\ call.model = DefaultModel /\ call.arms = Pending(Head(todo))
      /\ \A i \in DOMAIN call.arms : <<call.dataset, call.arms[i]>> \notin done
  <2>1. Head(todo).model = DefaultModel
    BY <1>1, SweepFacts
  <2> QED BY <1>1, <2>1, CallFacts DEF Core, Busy
<1>4. /\ \A d \in Datasets, a \in ArmNames :
           TasksOf(rows, <<d, a, DefaultModel>>) = IF <<d, a>> \in done THEN Tasks[d] ELSE <<>>
      /\ \A k \in DOMAIN Plan(request) :
           k <= n => \A i \in DOMAIN Plan(request)[k].arms :
                       <<Plan(request)[k].dataset, Plan(request)[k].arms[i]>> \in done
  BY DEF SweepRows
<1>5. \A d \in Datasets, a \in ArmNames :
        TasksOf(rows', <<d, a, DefaultModel>>) = IF <<d, a>> \in done \cup new THEN Tasks[d] ELSE <<>>
  <2> SUFFICES ASSUME NEW d \in Datasets, NEW a \in ArmNames
               PROVE  TasksOf(rows', <<d, a, DefaultModel>>) = IF <<d, a>> \in done \cup new THEN Tasks[d] ELSE <<>>
    OBVIOUS
  <2>1. <<d, a, DefaultModel>> \in AllCells
    BY DEF AllCells, Models
  <2>2. CASE <<d, a>> \in new
    <3>1. PICK i \in DOMAIN call.arms : <<d, a>> = <<call.dataset, call.arms[i]>>
      BY <2>2
    <3>2. d = call.dataset /\ a = call.arms[i] /\ CellAt(call, i) = <<d, a, DefaultModel>> /\ <<d, a>> \notin done
      BY <1>3, <3>1 DEF CellAt
    <3>3. TasksOf(rows, <<d, a, DefaultModel>>) = <<>>
      BY <1>4, <3>2
    <3>4. TasksOf(records, <<d, a, DefaultModel>>) = Tasks[d]
      BY <3>2, ExtendFacts
    <3>5. TasksOf(rows', <<d, a, DefaultModel>>) = Tasks[d]
      BY <3>3, <3>4, ExtendFacts
    <3> QED BY <2>2, <3>5
  <2>3. CASE <<d, a>> \notin new
    <3>1. \A i \in DOMAIN call.arms : <<d, a, DefaultModel>> # CellAt(call, i)
      BY <2>3 DEF CellAt
    <3>2. TasksOf(rows', <<d, a, DefaultModel>>) = TasksOf(rows, <<d, a, DefaultModel>>)
      BY <2>1, <3>1, ExtendFacts
    <3> HIDE DEF new
    <3> QED BY <1>4, <2>3, <3>2
  <2> QED BY <2>2, <2>3
<1>6. \A i \in DOMAIN Plan(request)[n + 1].arms :
        <<Plan(request)[n + 1].dataset, Plan(request)[n + 1].arms[i]>> \in done \cup new
  BY <1>1, <1>3, SweepFacts DEF Range
<1> HIDE DEF n, new
<1>7. \A k \in DOMAIN Plan(request) : k <= n + 1 => k <= n \/ k = n + 1
  <2> DEFINE p == Plan(request)
  <2>1. p \in Seq(Calls)
    BY PlanFacts DEF Core, Types
  <2> HIDE DEF p
  <2>2. \A k \in DOMAIN p : k \in Nat
    BY <2>1
  <2>3. \A k \in DOMAIN p : k <= n + 1 => k <= n \/ k = n + 1
    BY <1>2, <2>2
  <2> QED BY <2>3 DEF p
<1>8. \A k \in DOMAIN Plan(request) :
        k <= n + 1 => \A i \in DOMAIN Plan(request)[k].arms :
                        <<Plan(request)[k].dataset, Plan(request)[k].arms[i]>> \in done \cup new
  BY <1>4, <1>6, <1>7
<1> QED BY <1>1, <1>2, <1>5, <1>8 DEF SweepRows

LEMMA StepWhole == DistinctRequests /\ Core /\ Whole /\ [CommandNext]_cliVars => Whole'
<1>0. Init' => Whole'
  BY WholeStart, PTL
<1> SUFFICES ASSUME DistinctRequests, Core, Whole, [CommandNext]_cliVars PROVE Whole'
  OBVIOUS
<1>1. CASE Call
  <2>1. UNCHANGED <<request, todo, done, rows, skipped>>
    BY <1>1 DEF Call
  <2> QED BY <1>1, <2>1, RecordedCall, RowsStay DEF Whole
<1>2. CASE NothingPending
  <2>1. Recorded'
    BY <1>2, RecordedStays DEF NothingPending, benchVars, Whole
  <2>2. request.driver # "config"
    BY <1>2, ConfigFacts DEF NothingPending
  <2>3. ConfigRows'
    BY <1>2, <2>2 DEF NothingPending, ConfigRows
  <2> QED BY <1>2, <2>1, <2>3, SweepNothing DEF Whole
<1>3. CASE Benchmarking
  <2>1. UNCHANGED <<request, todo, done, rows, skipped>>
    BY <1>3 DEF Benchmarking
  <2>2. CASE Attempt
    BY <2>1, <2>2, RecordedAttempt, RowsStay DEF Whole
  <2>3. CASE Build \/ Write \/ Retrieve
    <3>1. UNCHANGED <<call, armAt, taskAt, records>>
      BY <2>3 DEF Build, Write, Retrieve
    <3> QED BY <2>1, <3>1, RecordedStays, RowsStay DEF Whole
  <2> QED BY <1>3, <2>2, <2>3 DEF Benchmarking, BenchStep
<1>4. CASE Extend
  <2>1. Recorded'
    BY <1>4, RecordedOver DEF Extend, Leave
  <2> QED BY <1>4, <2>1, ConfigExtend, SweepExtend DEF Whole
<1>5. CASE Skip
  <2>1. Recorded'
    BY <1>5, RecordedOver, SkipFacts
  <2>2. SweepRows'
    BY <1>5, SkipFacts DEF SweepRows
  <2> QED BY <1>5, <2>1, <2>2, ConfigSkip DEF Whole
<1>6. CASE Abort
  BY <1>6, RecordedOver, RowsStay DEF Abort, Leave, Whole
<1>7. CASE Return \/ Killed
  BY <1>7, RecordedStays, RowsStay DEF Return, Killed, benchVars, Whole
<1>8. CASE NextCommand
  BY <1>0, <1>8, Afresh DEF Core
<1>9. CASE UNCHANGED vars
  BY <1>9, RecordedStays, RowsStay DEF vars, benchVars, Whole
<1> QED BY <1>1, <1>2, <1>3, <1>4, <1>5, <1>6, <1>7, <1>8, <1>9
     DEF CommandNext, Sweeping, Sweep, OpenRows, WriteRow, CloseRows, OpenManifest, WriteManifest, NoMore, cliVars

\* A cell of the request, at its place in the plan.
LEMMA CellFacts ==
  ASSUME NEW c \in Cells
  PROVE  \E k \in DOMAIN Plan(request) : \E i \in DOMAIN Plan(request)[k].arms : c = CellAt(Plan(request)[k], i)
  BY DEF Cells, CellAt, Range

LEMMA SweepCell ==
  ASSUME DistinctRequests, Core, Whole, request.driver = "sweep",
         NEW k \in DOMAIN Plan(request), NEW i \in DOMAIN Plan(request)[k].arms
  PROVE  TasksOf(rows, CellAt(Plan(request)[k], i)) =
           IF <<Plan(request)[k].dataset, Plan(request)[k].arms[i]>> \in done
           THEN Tasks[Plan(request)[k].dataset] ELSE <<>>
<1> DEFINE d == Plan(request)[k].dataset
           a == Plan(request)[k].arms[i]
<1>1. CellAt(Plan(request)[k], i) = <<d, a, DefaultModel>> /\ d \in Datasets /\ a \in ArmNames
  BY PlaceFacts DEF CellAt
<1> HIDE DEF d, a
<1>2. TasksOf(rows, <<d, a, DefaultModel>>) = IF <<d, a>> \in done THEN Tasks[d] ELSE <<>>
  BY <1>1 DEF Whole, SweepRows
<1> QED BY <1>1, <1>2 DEF d, a

LEMMA WholeCells ==
  ASSUME DistinctRequests, Core, Whole
  PROVE  \A c \in Cells : TasksOf(rows, c) \in {<<>>, Tasks[c[1]]}
<1> SUFFICES ASSUME NEW c \in Cells PROVE TasksOf(rows, c) \in {<<>>, Tasks[c[1]]}
  OBVIOUS
<1>1. PICK k \in DOMAIN Plan(request) : \E i \in DOMAIN Plan(request)[k].arms : c = CellAt(Plan(request)[k], i)
  BY CellFacts
<1>2. PICK i \in DOMAIN Plan(request)[k].arms : c = CellAt(Plan(request)[k], i)
  BY <1>1
<1>3. c[1] = Plan(request)[k].dataset
  BY <1>2 DEF CellAt
<1>4. CASE request.driver = "config"
  <2>1. i = 1
    BY <1>4, PlaceFacts
  <2>2. k \in Nat /\ Made \in Int
    <3> DEFINE p == Plan(request)
    <3>1. p \in Seq(Calls) /\ todo \in Seq(Calls) /\ Made = Len(p) - Len(todo) /\ k \in DOMAIN p
      BY PlanFacts DEF Core, Types, Made
    <3> HIDE DEF p
    <3> QED BY <3>1
  <2>3. k > Made \/ k <= Made
    BY <2>2
  <2> QED BY <1>2, <1>4, <2>1, <2>3 DEF Whole, ConfigRows
<1>5. CASE request.driver = "sweep"
  BY <1>2, <1>3, <1>5, SweepCell
<1>6. request.driver \in {"config", "sweep"}
  BY RequestFacts DEF Core, Types
<1> QED BY <1>4, <1>5, <1>6

LEMMA Yielded ==
  ASSUME DistinctRequests, Core, Whole
  PROVE  YieldsWhatRuns
<1>1. request.driver \in {"config", "sweep"}
  BY RequestFacts DEF Core, Types
<1>2. ASSUME outcome = "returned", NEW c \in Cells
      PROVE  TasksOf(rows, c) # <<>> \/ (~ Works(c) /\ c[2] \in DOMAIN skipped)
  <2>1. PICK k \in DOMAIN Plan(request) : \E i \in DOMAIN Plan(request)[k].arms : c = CellAt(Plan(request)[k], i)
    BY CellFacts
  <2>2. PICK i \in DOMAIN Plan(request)[k].arms : c = CellAt(Plan(request)[k], i)
    BY <2>1
  <2>3. k <= Made
    <3> DEFINE p == Plan(request)
    <3>1. p \in Seq(Calls) /\ todo = <<>> /\ Made = Len(p) - Len(todo) /\ k \in DOMAIN p
      BY <1>2, PlanFacts DEF Core, Types, Places, Made
    <3> HIDE DEF p
    <3>2. Made = Len(p)
      BY <3>1
    <3> QED BY <3>1, <3>2
  <2>4. c[1] = Plan(request)[k].dataset /\ Tasks[Plan(request)[k].dataset] # <<>>
    BY <2>2, PlaceFacts DEF CellAt
  <2>5. CASE request.driver = "config"
    <3>1. c = CellAt(Plan(request)[k], 1)
      BY <2>2, <2>5, PlaceFacts
    <3> QED BY <2>3, <2>4, <2>5, <3>1 DEF Whole, ConfigRows
  <2>6. CASE request.driver = "sweep"
    <3>1. <<Plan(request)[k].dataset, Plan(request)[k].arms[i]>> \in done
      BY <2>3, <2>6 DEF Whole, SweepRows
    <3> QED BY <2>2, <2>4, <2>6, <3>1, SweepCell
  <2> QED BY <1>1, <2>5, <2>6
<1>3. ASSUME NEW a \in DOMAIN skipped
      PROVE  TasksOf(rows, <<skipped[a][1], a, skipped[a][2]>>) = <<>>
  <2>1. request.driver = "config"
    BY <1>1, <1>3 DEF Core, Places
  <2> QED BY <1>3, <2>1 DEF Whole, ConfigRows
<1> QED BY <1>2, <1>3 DEF YieldsWhatRuns

\* A request that names nothing twice: at every moment of every sweep, and
\* whatever raises, a cell of the results holds its dataset's tasks once each and
\* in order, or nothing (harness.py:159, 262, 294).
THEOREM CellsComeWhole == DistinctRequests => (CommandSpec => []CellsWhole)
<1> SUFFICES ASSUME DistinctRequests PROVE CommandSpec => []CellsWhole
  OBVIOUS
<1>1. CommandInit => Core /\ Whole
  BY Start, WholeStart DEF CommandInit
<1>2. Core /\ Whole /\ [CommandNext]_cliVars => (Core /\ Whole)'
  BY StepCore, StepWhole
<1>3. Core /\ Whole /\ TypeOK => CellsWhole
  BY WholeCells DEF CellsWhole
<1> QED BY <1>1, <1>2, <1>3, OnlyWhatWasAsked, PTL DEF CommandSpec

\* Such a sweep, when it returns, has the rows of every cell that works, and the
\* rows or a recorded reason for every other; no reason is recorded of a cell
\* that has rows (harness.py:239, 262).
THEOREM WhatRunsIsYielded == DistinctRequests => (CommandSpec => []YieldsWhatRuns)
<1> SUFFICES ASSUME DistinctRequests PROVE CommandSpec => []YieldsWhatRuns
  OBVIOUS
<1>1. CommandInit => Core /\ Whole
  BY Start, WholeStart DEF CommandInit
<1>2. Core /\ Whole /\ [CommandNext]_cliVars => (Core /\ Whole)'
  BY StepCore, StepWhole
<1>3. Core /\ Whole => YieldsWhatRuns
  BY Yielded
<1> QED BY <1>1, <1>2, <1>3, PTL DEF CommandSpec

-----------------------------------------------------------------------------
(* The parallel sweep                                                        *)

\* What the types leave open: the rows main has are those of a prefix of the
\* jobs, a finished future tells how its job ended, and a verdict is grounded.
Prefix == \A k \in 1..Len(ordered) : ordered[k] = Jobs[k]

Truthful ==
  \A i \in Index : /\ future[i] = "done" => Jobs[i] \notin raising
                   /\ future[i] = "failed" => Jobs[i] \in raising

Grounded ==
  /\ verdict = "running" <=> main \in {"submitting", "collecting"}
  /\ verdict = "returned" => Len(ordered) = Len(Jobs)
  /\ verdict = "raised" => Len(ordered) < Len(Jobs) /\ Jobs[Len(ordered) + 1] \in raising

PoolInv == PoolTypeOK /\ Prefix /\ Truthful /\ Grounded

FutureStates == {"none", "pending", "running", "done", "failed", "cancelled", "broken"}

USE SweepParallelAssumption DEF Index, Workers

LEMMA PoolStart == PoolInit => PoolInv
<1> SUFFICES ASSUME PoolInit PROVE PoolInv
  OBVIOUS
<1>1. Len(Jobs) \in Nat
  OBVIOUS
<1>2. Len(ordered) = 0 /\ ordered \in Seq({Jobs[i] : i \in Index})
  BY DEF PoolInit
<1>3. /\ future \in [Index -> FutureStates]
      /\ worker \in [Workers -> 0..Len(Jobs)]
      /\ submitted \in 0..Len(Jobs)
  BY <1>1 DEF PoolInit, FutureStates
<1>5. broken \in BOOLEAN /\ main = "submitting" /\ verdict = "running"
  BY DEF PoolInit
<1>6. PoolTypeOK
  <2> HIDE SweepParallelAssumption DEF Index, Workers
  <2> QED BY <1>1, <1>2, <1>3, <1>5 DEF PoolTypeOK, FutureStates
<1>4. Prefix /\ Truthful /\ Grounded
  BY <1>2 DEF PoolInit, Prefix, Truthful, Grounded
<1> QED BY <1>6, <1>4 DEF PoolInv

LEMMA PoolStep == PoolInv /\ [PoolNext]_poolVars => PoolInv'
<1> SUFFICES ASSUME PoolInv, [PoolNext]_poolVars PROVE PoolInv'
  OBVIOUS
<1> USE DEF PoolInv, PoolTypeOK, Prefix, Truthful, Grounded
<1>1. CASE Submit
  BY <1>1 DEF Submit
<1>2. CASE SubmitRefused
  BY <1>2 DEF SubmitRefused
<1>3. CASE Submitted
  BY <1>3 DEF Submitted
<1>4. CASE Collect
  <2>1. Len(ordered) + 1 \in Index /\ future[Len(ordered) + 1] = "done"
        /\ ordered' = Append(ordered, Jobs[Len(ordered) + 1])
    BY <1>4 DEF Collect, Turn
  <2>2. UNCHANGED <<raising, submitted, future, worker, broken, main, verdict>> /\ main = "collecting"
    BY <1>4 DEF Collect
  <2>3. /\ ordered' \in Seq({Jobs[i] : i \in Index})
        /\ Len(ordered') = Len(ordered) + 1
        /\ \A k \in 1..Len(ordered') :
             ordered'[k] = IF k <= Len(ordered) THEN ordered[k] ELSE Jobs[Len(ordered) + 1]
    BY <2>1
  <2>4. Len(ordered') <= Len(Jobs) /\ Len(ordered) < Len(Jobs)
    BY <2>1, <2>3
  <2>5. PoolTypeOK'
    BY <2>2, <2>3, <2>4
  <2>6. Prefix'
    <3> SUFFICES ASSUME NEW k \in 1..Len(ordered') PROVE ordered'[k] = Jobs[k]
      OBVIOUS
    <3>1. Len(ordered) \in Nat /\ Len(ordered') = Len(ordered) + 1
      BY <2>3
    <3>2. ordered'[k] = IF k <= Len(ordered) THEN ordered[k] ELSE Jobs[Len(ordered) + 1]
      BY <2>3
    <3>3. Prefix
      OBVIOUS
    <3> HIDE SweepParallelAssumption DEF PoolInv, PoolTypeOK, Prefix, Truthful, Grounded
    <3>4. k <= Len(ordered) => k \in 1..Len(ordered)
      BY <3>1
    <3>5. k <= Len(ordered) \/ k = Len(ordered) + 1
      BY <3>1
    <3> QED BY <3>2, <3>3, <3>4, <3>5 DEF Prefix
  <2>7. Truthful'
    BY <2>2
  <2>8. Grounded'
    <3>1. verdict = "running" /\ verdict' = "running" /\ main' = "collecting"
      BY <2>2
    <3> QED BY <3>1 DEF Grounded
  <2> QED BY <2>5, <2>6, <2>7, <2>8
<1>5. CASE CollectRaises
  <2>1. Len(ordered) + 1 \in Index /\ future[Len(ordered) + 1] \in {"failed", "broken"}
        /\ verdict' = IF future[Len(ordered) + 1] = "failed" THEN "raised" ELSE "killed"
    <3> HIDE SweepParallelAssumption DEF PoolInv, PoolTypeOK, Prefix, Truthful, Grounded
    <3>1. PICK i \in Index : /\ i = Len(ordered) + 1 /\ future[i] \in {"failed", "broken"}
                             /\ verdict' = IF future[i] = "failed" THEN "raised" ELSE "killed"
      BY <1>5 DEF CollectRaises, Turn
    <3> QED BY <3>1
  <2>2. UNCHANGED <<raising, submitted, worker, broken, ordered>> /\ main' = "leaving"
        /\ \E last \in 0..Len(Jobs) : future' = Cancelled(last)
    BY <1>5 DEF CollectRaises
  <2>3. PICK last \in 0..Len(Jobs) : future' = Cancelled(last)
    BY <2>2
  <2>a. \A i \in Index : future'[i] = IF future[i] = "pending" /\ i > last THEN "cancelled" ELSE future[i]
    BY <2>3 DEF Cancelled
  <2>4. PoolTypeOK'
    <3>1. verdict' \in {"raised", "killed"}
      BY <2>1
    <3>2. future' \in [Index -> FutureStates]
      BY <2>3 DEF Cancelled, FutureStates
    <3> QED BY <2>2, <3>1, <3>2 DEF FutureStates
  <2>5. Prefix' /\ Truthful'
    BY <2>2, <2>a
  <2>6. Grounded'
    <3>1. Len(ordered) < Len(Jobs)
      BY <2>1
    <3>2. verdict' = "raised" => Jobs[Len(ordered) + 1] \in raising
      BY <2>1
    <3> QED BY <2>1, <2>2, <3>1, <3>2
  <2> QED BY <2>4, <2>5, <2>6
<1>6. CASE Collected
  BY <1>6 DEF Collected
<1>7. CASE LeavePool
  BY <1>7 DEF LeavePool
<1>8. ASSUME NEW w \in Workers, Take(w) PROVE PoolInv'
  BY <1>8 DEF Take
<1>9. ASSUME NEW w \in Workers, Finish(w) PROVE PoolInv'
  BY <1>9 DEF Finish
<1>10. CASE Die
  BY <1>10 DEF Die
<1>11. CASE UNCHANGED poolVars
  BY <1>11 DEF poolVars
<1> QED
  BY <1>1, <1>2, <1>3, <1>4, <1>5, <1>6, <1>7, <1>8, <1>9, <1>10, <1>11
  DEF PoolNext, Caller, Work, Over

\* Every reachable state of the call is well typed.
THEOREM PoolTypeCorrect == PoolSpec => []PoolTypeOK
<1>1. PoolInv => PoolTypeOK
  BY DEF PoolInv
<1> QED BY PoolStart, PoolStep, <1>1, PTL DEF PoolSpec

\* A job that is not submitted has no future.
Unsubmitted == \A i \in Index : i > submitted => future[i] = "none"

LEMMA InitOne == PoolInit => OneWorkerPerJob /\ Unsubmitted
BY DEF PoolInit, OneWorkerPerJob, Unfinished, Unsubmitted

LEMMA NextOne ==
  PoolInv /\ OneWorkerPerJob /\ Unsubmitted /\ [PoolNext]_poolVars => (OneWorkerPerJob /\ Unsubmitted)'
<1> SUFFICES ASSUME PoolInv, OneWorkerPerJob, Unsubmitted, [PoolNext]_poolVars
             PROVE  (OneWorkerPerJob /\ Unsubmitted)'
  OBVIOUS
<1>a. /\ submitted \in 0..Len(Jobs) /\ future \in [Index -> FutureStates]
      /\ worker \in [Workers -> 0..Len(Jobs)] /\ Len(Jobs) \in Nat
  BY DEF PoolInv, PoolTypeOK, FutureStates
<1>b. main = "over" => \A i \in Index : future[i] \notin {"pending", "running"}
  BY DEF OneWorkerPerJob, Unfinished
<1> DEFINE Alone(wk)   == \A v, w \in Workers : wk[v] = wk[w] /\ wk[v] # 0 => v = w
           Runs(f, wk) == \A i \in Index : f[i] = "running" <=> \E w \in Workers : wk[w] = i
<1>c. Alone(worker) /\ Runs(future, worker)
  BY DEF OneWorkerPerJob
<1>d. ASSUME Alone(worker'), Runs(future', worker'),
             main' = "over" => \A i \in Index : future'[i] \notin {"pending", "running"}
      PROVE  OneWorkerPerJob'
  BY <1>d DEF OneWorkerPerJob, Unfinished
<1>1. CASE Submit
  <2>1. /\ submitted + 1 \in Index /\ future[submitted + 1] = "none" /\ main' = "submitting"
        /\ worker' = worker /\ submitted' = submitted + 1
    BY <1>1, <1>a DEF Submit, Unsubmitted
  <2>2. \A i \in Index : future'[i] = IF i = submitted + 1 THEN "pending" ELSE future[i]
    BY <1>1, <1>a, <2>1 DEF Submit
  <2>3. Unsubmitted'
    <3> SUFFICES ASSUME NEW i \in Index, i > submitted' PROVE future'[i] = "none"
      BY DEF Unsubmitted
    <3>1. i > submitted /\ i # submitted + 1
      BY <1>a, <2>1
    <3> QED BY <3>1, <2>2 DEF Unsubmitted
  <2>4. Runs(future', worker')
    BY <1>c, <2>1, <2>2
  <2> QED BY <1>c, <1>d, <2>1, <2>3, <2>4
<1>2. CASE SubmitRefused \/ Submitted \/ Collect \/ Collected
  <2>1. UNCHANGED <<submitted, future, worker>> /\ main' # "over"
    BY <1>2, <1>c DEF SubmitRefused, Submitted, Collect, Collected
  <2> QED BY <1>c, <1>d, <2>1 DEF Unsubmitted
<1>3. CASE CollectRaises
  <2>1. UNCHANGED <<submitted, worker>> /\ main' = "leaving"
        /\ \E last \in 0..Len(Jobs) : future' = Cancelled(last)
    BY <1>3 DEF CollectRaises
  <2>2. \A i \in Index : /\ future[i] # "pending" => future'[i] = future[i]
                         /\ future[i] = "pending" => future'[i] \in {"pending", "cancelled"}
    BY <2>1, <1>a DEF Cancelled
  <2> QED BY <1>c, <1>d, <2>1, <2>2 DEF Unsubmitted
<1>4. CASE LeavePool
  <2>1. UNCHANGED <<submitted, future, worker>> /\ Unfinished = {}
    BY <1>4 DEF LeavePool, Quiet
  <2>2. \A i \in Index : future'[i] \notin {"pending", "running"}
    BY <2>1 DEF Unfinished
  <2> QED BY <1>c, <1>d, <2>1, <2>2 DEF Unsubmitted
<1>5. ASSUME NEW w \in Workers, Take(w) PROVE (OneWorkerPerJob /\ Unsubmitted)'
  <2>1. PICK i \in Index : /\ future[i] = "pending"
                           /\ worker' = [worker EXCEPT ![w] = i]
                           /\ future' = [future EXCEPT ![i] = "running"]
    BY <1>5 DEF Take
  <2>2. submitted' = submitted /\ main' = main /\ worker[w] = 0 /\ main # "over"
    BY <1>5, <1>b, <2>1 DEF Take
  <2>3. ~ (i > submitted)
    BY <2>1 DEF Unsubmitted
  <2>4. \A v \in Workers : worker'[v] = IF v = w THEN i ELSE worker[v]
    BY <1>a, <2>1
  <2>5. \A j \in Index : future'[j] = IF j = i THEN "running" ELSE future[j]
    BY <1>a, <2>1
  <2>6. \A v \in Workers : worker[v] # i
    BY <1>c, <2>1
  <2>7. Alone(worker')
    BY <1>c, <2>4, <2>6
  <2>8. Runs(future', worker')
    <3> SUFFICES ASSUME NEW j \in Index
                 PROVE  future'[j] = "running" <=> \E v \in Workers : worker'[v] = j
      OBVIOUS
    <3>1. CASE j = i
      BY <3>1, <2>4, <2>5
    <3>2. CASE j # i
      <4>1. j # 0 /\ worker[w] # j
        BY <2>2, <1>a
      <4>2. (\E v \in Workers : worker'[v] = j) <=> (\E v \in Workers : worker[v] = j)
        BY <3>2, <4>1, <2>4
      <4> QED BY <3>2, <4>2, <1>c, <2>5
    <3> QED BY <3>1, <3>2
  <2>9. Unsubmitted'
    BY <2>2, <2>3, <2>5 DEF Unsubmitted
  <2> QED BY <1>d, <2>2, <2>7, <2>8, <2>9
<1>6. ASSUME NEW w \in Workers, Finish(w) PROVE (OneWorkerPerJob /\ Unsubmitted)'
  <2>1. PICK i \in Index : i = worker[w]
    BY <1>6, <1>a DEF Finish
  <2>2. future[i] = "running"
    BY <1>c, <2>1
  <2>3. submitted' = submitted /\ main' = main /\ main # "over"
    BY <1>6, <1>b, <2>1, <2>2 DEF Finish
  <2>4. ~ (i > submitted)
    BY <2>2 DEF Unsubmitted
  <2>5. \A v \in Workers : worker'[v] = IF v = w THEN 0 ELSE worker[v]
    BY <1>6, <1>a DEF Finish
  <2>6. /\ \A j \in Index : j # i => future'[j] = future[j]
        /\ future'[i] \in {"failed", "done"}
    BY <1>6, <1>a, <2>1 DEF Finish
  <2>7. \A v \in Workers : worker[v] = i => v = w
    BY <1>c, <2>1
  <2>8. Alone(worker')
    BY <1>c, <2>5
  <2>9. Runs(future', worker')
    <3> SUFFICES ASSUME NEW j \in Index
                 PROVE  future'[j] = "running" <=> \E v \in Workers : worker'[v] = j
      OBVIOUS
    <3>1. CASE j = i
      BY <3>1, <2>5, <2>6, <2>7
    <3>2. CASE j # i
      <4>1. (\E v \in Workers : worker'[v] = j) <=> (\E v \in Workers : worker[v] = j)
        <5>1. j # 0 /\ worker[w] # j
          BY <3>2, <2>1, <1>a
        <5>2. \A v \in Workers : worker'[v] = j <=> worker[v] = j
          BY <5>1, <2>5
        <5> QED BY <5>2
      <4> QED BY <3>2, <4>1, <1>c, <2>6
    <3> QED BY <3>1, <3>2
  <2>10. Unsubmitted'
    BY <2>3, <2>4, <2>6 DEF Unsubmitted
  <2> QED BY <1>d, <2>3, <2>8, <2>9, <2>10
<1>7. CASE Die
  <2>1. UNCHANGED <<submitted, main>> /\ \A w \in Workers : worker'[w] = 0
    BY <1>7 DEF Die
  <2>2. \A i \in Index : future'[i] = IF future[i] \in {"pending", "running"} THEN "broken" ELSE future[i]
    BY <1>7, <1>a DEF Die, Unfinished
  <2>3. \A i \in Index : future'[i] \notin {"pending", "running"}
    BY <2>2
  <2>4. Alone(worker')
    BY <2>1
  <2>5. Runs(future', worker')
    <3>1. \A i \in Index : \A w \in Workers : worker'[w] # i
      BY <1>a, <2>1
    <3> QED BY <2>3, <3>1
  <2>6. Unsubmitted'
    BY <2>1, <2>2 DEF Unsubmitted
  <2> HIDE DEF Alone, Runs
  <2> QED BY <1>d, <2>3, <2>4, <2>5, <2>6
<1>8. CASE UNCHANGED poolVars
  BY <1>8, <1>b, <1>c, <1>d DEF poolVars, Unsubmitted
<1> QED
  BY <1>1, <1>2, <1>3, <1>4, <1>5, <1>6, <1>7, <1>8 DEF PoolNext, Caller, Work, Over

\* No job runs on two workers, a future runs exactly while a worker has its
\* job, and nothing is left to run when the call is over.
THEOREM NeverTwice == PoolSpec => []OneWorkerPerJob
<1> QED BY PoolStart, PoolStep, InitOne, NextOne, PTL DEF PoolSpec

-----------------------------------------------------------------------------
(* The serial loop                                                         *)

LEMMA InitSerial == PoolInit => Serial!Init
BY DEF PoolInit, Serial!Init

LEMMA NextSerial ==
  PoolInv /\ [PoolNext]_poolVars => [Serial!Next]_<<raising, ordered, IF main = "over" THEN verdict ELSE "running">>
<1> DEFINE svars == <<raising, ordered, IF main = "over" THEN verdict ELSE "running">>
<1> SUFFICES ASSUME PoolInv, [PoolNext]_poolVars PROVE [Serial!Next]_svars
  OBVIOUS
<1> USE DEF PoolInv, PoolTypeOK, Grounded
<1>1. CASE Collect
  <2>1. Len(ordered) + 1 \in Index /\ future[Len(ordered) + 1] = "done"
        /\ ordered' = Append(ordered, Jobs[Len(ordered) + 1])
    BY <1>1 DEF Collect, Turn
  <2>2. Jobs[Len(ordered) + 1] \notin raising
    BY <2>1 DEF Truthful
  <2>3. Serial!Run
    BY <1>1, <2>1, <2>2 DEF Collect, Serial!Run, Serial!Job
  <2> QED BY <2>3 DEF Serial!Next
<1>2. CASE LeavePool
  <2>1. CASE verdict = "returned"
    BY <1>2, <2>1 DEF LeavePool, Serial!Next, Serial!Return
  <2>2. CASE verdict = "raised"
    BY <1>2, <2>2 DEF LeavePool, Serial!Next, Serial!Raise, Serial!Job
  <2>3. CASE verdict = "killed"
    BY <1>2, <2>3 DEF LeavePool, Serial!Next, Serial!Killed
  <2> QED BY <1>2, <2>1, <2>2, <2>3 DEF LeavePool
<1>3. CASE Submit \/ SubmitRefused \/ Submitted \/ CollectRaises \/ Collected
  BY <1>3 DEF Submit, SubmitRefused, Submitted, CollectRaises, Collected
<1>4. CASE \E w \in Workers : Work(w)
  BY <1>4 DEF Work, Take, Finish
<1>5. CASE Die \/ Over \/ UNCHANGED poolVars
  BY <1>5 DEF Die, Over, poolVars
<1> QED BY <1>1, <1>2, <1>3, <1>4, <1>5 DEF PoolNext, Caller

\* For any number of workers, whichever job raises and whenever a worker dies,
\* the call behaves as the serial loop.
THEOREM ParallelIsSerial == PoolSpec => ImplementsSerial
<1> QED BY PoolStart, PoolStep, InitSerial, NextSerial, PTL DEF PoolSpec, ImplementsSerial, Serial!Spec
=============================================================================
