------------------------ MODULE RetrievalCache_proofs ------------------------
(***************************************************************************)
(* Proofs about RetrievalCache, for every set of items, batches, requests,  *)
(* every capacity and any number of calls.                                  *)
(***************************************************************************)
EXTENDS RetrievalCache, SequenceTheorems, TLAPS

\* move_to_end keeps the elements and their distinctness, and puts the key last.
LEMMA MoveToEndProperties ==
  ASSUME NEW S, NEW s \in Seq(S), NEW k \in Range(s), IsInjective(s)
  PROVE  \E i \in 1..Len(s) :
           /\ s[i] = k
           /\ MoveToEnd(s, k) = [j \in 1..Len(s) |->
                IF j < i THEN s[j] ELSE IF j < Len(s) THEN s[j + 1] ELSE k]
           /\ MoveToEnd(s, k) \in Seq(S)
           /\ Len(MoveToEnd(s, k)) = Len(s)
           /\ IsInjective(MoveToEnd(s, k))
           /\ Range(MoveToEnd(s, k)) = Range(s)
<1> DEFINE i == CHOOSE i \in 1..Len(s) : s[i] = k
           t == [j \in 1..Len(s) |->
                  IF j < i THEN s[j] ELSE IF j < Len(s) THEN s[j + 1] ELSE k]
<1>1. i \in 1..Len(s) /\ s[i] = k
  BY DEF Range
<1>2. MoveToEnd(s, k) = t
  BY DEF MoveToEnd
<1> HIDE DEF i
<1>3. t \in Seq(S) /\ Len(t) = Len(s)
  <2>1. \A j \in 1..Len(s) : t[j] \in S
    BY <1>1
  <2> QED BY <2>1
<1>4. IsInjective(t)
  BY <1>1 DEF IsInjective
<1>5. Range(t) = Range(s)
  <2>1. \A j \in 1..Len(s) : t[j] \in Range(s)
    BY <1>1 DEF Range
  <2>2. ASSUME NEW j \in 1..Len(s) PROVE \E m \in 1..Len(s) : t[m] = s[j]
    <3>1. CASE j < i
      BY <3>1, <1>1
    <3>2. CASE j = i
      <4>1. t[Len(s)] = s[j]
        BY <3>2, <1>1
      <4> QED BY <4>1
    <3>3. CASE j > i
      <4>1. t[j - 1] = s[j] /\ j - 1 \in 1..Len(s)
        BY <3>3, <1>1
      <4> QED BY <4>1
    <3> QED BY <3>1, <3>2, <3>3, <1>1
  <2>3. DOMAIN t = 1..Len(s) /\ DOMAIN s = 1..Len(s)
    OBVIOUS
  <2> QED BY <2>1, <2>2, <2>3 DEF Range
<1> HIDE DEF t
<1> QED BY <1>1, <1>2, <1>3, <1>4, <1>5 DEF t

\* Promoting a key keeps the sequence duplicate free and adds just that key.
LEMMA PromoteProperties ==
  ASSUME NEW S, NEW s \in Seq(S), NEW k \in S, IsInjective(s)
  PROVE  /\ Promote(s, k) \in Seq(S)
         /\ IsInjective(Promote(s, k))
         /\ Range(Promote(s, k)) = Range(s) \cup {k}
         /\ Len(Promote(s, k)) = IF k \in Range(s) THEN Len(s) ELSE Len(s) + 1
<1>1. CASE k \in Range(s)
  BY <1>1, MoveToEndProperties DEF Promote
<1>2. CASE k \notin Range(s)
  <2>1. Promote(s, k) = Append(s, k)
    BY <1>2 DEF Promote
  <2>2. IsInjective(Append(s, k))
    BY <1>2 DEF IsInjective, Range
  <2>3. Range(Append(s, k)) = Range(s) \cup {k}
    <3>1. \A j \in 1..Len(s) : Append(s, k)[j] = s[j]
      OBVIOUS
    <3>2. Append(s, k)[Len(s) + 1] = k
      OBVIOUS
    <3>3. DOMAIN Append(s, k) = 1..(Len(s) + 1) /\ DOMAIN s = 1..Len(s)
      OBVIOUS
    <3>4. Range(Append(s, k)) \subseteq Range(s) \cup {k}
      BY <3>1, <3>2, <3>3 DEF Range
    <3>5. Range(s) \cup {k} \subseteq Range(Append(s, k))
      BY <3>1, <3>2, <3>3 DEF Range
    <3> QED BY <3>4, <3>5
  <2> QED BY <1>2, <2>1, <2>2, <2>3
<1> QED BY <1>1, <1>2

\* The index of a key in a duplicate-free sequence decides what moves.
LEMMA PromoteAt ==
  ASSUME NEW S, NEW s \in Seq(S), IsInjective(s), NEW k
  PROVE  \A i, j \in 1..Len(s) : s[i] = k =>
           Promote(s, k)[j] = IF j < i THEN s[j]
                              ELSE IF j < Len(s) THEN s[j + 1] ELSE k
<1> SUFFICES ASSUME NEW i \in 1..Len(s), s[i] = k
             PROVE  \A j \in 1..Len(s) : Promote(s, k)[j] =
                      IF j < i THEN s[j] ELSE IF j < Len(s) THEN s[j + 1] ELSE k
  OBVIOUS
<1>1. k \in Range(s)
  BY DEF Range
<1>2. PICK m \in 1..Len(s) :
        /\ s[m] = k
        /\ MoveToEnd(s, k) = [j \in 1..Len(s) |->
             IF j < m THEN s[j] ELSE IF j < Len(s) THEN s[j + 1] ELSE k]
  BY <1>1, MoveToEndProperties
<1>3. m = i
  BY <1>2 DEF IsInjective
<1>4. Promote(s, k) = MoveToEnd(s, k)
  BY <1>1 DEF Promote
<1> QED BY <1>2, <1>3, <1>4

\* Evicting after promoting in the last keys L of s, when s has dropped some.
LEMMA LatestWhenLonger ==
  ASSUME NEW S, NEW s \in Seq(S), IsInjective(s), NEW k \in S,
         NEW L \in Seq(S), IsInjective(L), Len(L) = Capacity,
         NEW d \in Nat \ {0}, Len(s) = d + Capacity,
         \A j \in 1..Capacity : L[j] = s[d + j]
  PROVE  Resident(Promote(L, k)) = Latest(Promote(s, k), Capacity)
<1> DEFINE P == Promote(s, k)
           Q == Promote(L, k)
<1>0. Capacity \in Nat /\ Capacity > 0
  BY CacheAssumption
<1>1. /\ P \in Seq(S)
      /\ Len(P) = IF k \in Range(s) THEN Len(s) ELSE Len(s) + 1
  BY PromoteProperties
<1>2. /\ Q \in Seq(S)
      /\ Len(Q) = IF k \in Range(L) THEN Capacity ELSE Capacity + 1
  <2>1. Q \in Seq(S) /\ Len(Q) = IF k \in Range(L) THEN Len(L) ELSE Len(L) + 1
    BY ONLY IsInjective(L), PromoteProperties
  <2> QED BY <2>1
<1>P. \A i, j \in 1..Len(s) : s[i] = k =>
        P[j] = IF j < i THEN s[j] ELSE IF j < Len(s) THEN s[j + 1] ELSE k
  BY ONLY IsInjective(s), PromoteAt
<1>Q. \A i, j \in 1..Len(L) : L[i] = k =>
        Q[j] = IF j < i THEN L[j] ELSE IF j < Len(L) THEN L[j + 1] ELSE k
  BY ONLY IsInjective(L), PromoteAt
<1>3. CASE k \in Range(L)
  <2>1. PICK i \in 1..Len(L) : L[i] = k
    BY <1>3 DEF Range
  <2>2. s[d + i] = k /\ d + i \in 1..Len(s)
    BY <2>1, <1>0
  <2>3. \A j \in 1..Len(L) : Q[j] =
          IF j < i THEN L[j] ELSE IF j < Len(L) THEN L[j + 1] ELSE k
    BY <2>1, <1>Q
  <2>4. k \in Range(s)
    BY <2>2 DEF Range
  <2>5. \A j \in 1..Len(s) : P[j] =
          IF j < d + i THEN s[j] ELSE IF j < Len(s) THEN s[j + 1] ELSE k
    BY <2>2, <1>P
  <2> HIDE DEF P, Q
  <2>6. Resident(Q) = Q
    BY <1>2, <1>3, <1>0 DEF Resident
  <2>7. Latest(P, Capacity) = SubSeq(P, d + 1, d + Capacity)
    BY <1>1, <1>0, <2>4 DEF Latest
  <2>8. SubSeq(P, d + 1, d + Capacity) = [j \in 1..Capacity |-> P[d + j]]
    BY <1>1, <1>0, <2>4
  <2>9. \A j \in 1..Capacity : P[d + j] = Q[j]
    <3> SUFFICES ASSUME NEW j \in 1..Capacity PROVE P[d + j] = Q[j]
      OBVIOUS
    <3>1. /\ d + j \in 1..Len(s) /\ (d + j < d + i <=> j < i)
          /\ (d + j < Len(s) <=> j < Capacity)
      BY <2>1, <1>0
    <3>2. P[d + j] = IF j < i THEN s[d + j]
                     ELSE IF j < Capacity THEN s[(d + j) + 1] ELSE k
      BY <2>5, <3>1
    <3>3. (d + j) + 1 = d + (j + 1) /\ (j < Capacity => j + 1 \in 1..Capacity)
      BY <1>0
    <3>4. L[j] = s[d + j] /\ (j < Capacity => L[j + 1] = s[(d + j) + 1])
      BY <3>3
    <3>5. Q[j] = IF j < i THEN L[j] ELSE IF j < Capacity THEN L[j + 1] ELSE k
      BY <2>3
    <3> QED BY <3>2, <3>4, <3>5
  <2>10. Q = [j \in 1..Capacity |-> Q[j]]
    BY <1>2, <1>3
  <2>11. Resident(Q) = Latest(P, Capacity)
    <3>1. [j \in 1..Capacity |-> P[d + j]] = [j \in 1..Capacity |-> Q[j]]
      BY <2>9
    <3> QED BY <2>6, <2>7, <2>8, <2>10, <3>1
  <2> QED BY <2>11 DEF P, Q
<1>4. CASE k \notin Range(L)
  <2>1. Q = Append(L, k)
    BY <1>4 DEF Promote
  <2>2. \A j \in 1..Capacity : Q[j + 1] = IF j < Capacity THEN L[j + 1] ELSE k
    BY <2>1, <1>0
  <2> HIDE DEF Q
  <2>3. Resident(Q) = SubSeq(Q, 2, Capacity + 1)
    BY <1>2, <1>4, <1>0, TailIsSubSeq DEF Resident
  <2>4. SubSeq(Q, 2, Capacity + 1) = [j \in 1..Capacity |-> Q[j + 1]]
    BY <1>2, <1>4, <1>0
  <2>5. CASE k \in Range(s)
    <3>1. PICK i \in 1..Len(s) : s[i] = k
      BY <2>5 DEF Range
    <3>2. i <= d
      <4>1. ASSUME i > d PROVE FALSE
        <5>1. i - d \in 1..Len(L) /\ L[i - d] = k
          BY <4>1, <3>1, <1>0
        <5> QED BY <5>1, <1>4 DEF Range
      <4> QED BY <4>1
    <3>3. \A j \in 1..Len(s) : P[j] =
            IF j < i THEN s[j] ELSE IF j < Len(s) THEN s[j + 1] ELSE k
      BY <3>1, <1>P
    <3> HIDE DEF P
    <3>4. Latest(P, Capacity) = SubSeq(P, d + 1, d + Capacity)
      BY <1>1, <1>0, <2>5 DEF Latest
    <3>5. SubSeq(P, d + 1, d + Capacity) = [j \in 1..Capacity |-> P[d + j]]
      BY <1>1, <1>0, <2>5
    <3>6. \A j \in 1..Capacity : P[d + j] = Q[j + 1]
      <4> SUFFICES ASSUME NEW j \in 1..Capacity PROVE P[d + j] = Q[j + 1]
        OBVIOUS
      <4>1. d + j \in 1..Len(s) /\ ~ (d + j < i) /\ (d + j < Len(s) <=> j < Capacity)
        BY <3>1, <3>2, <1>0
      <4>2. P[d + j] = IF j < Capacity THEN s[(d + j) + 1] ELSE k
        BY <3>3, <4>1
      <4>3. (d + j) + 1 = d + (j + 1) /\ (j < Capacity => j + 1 \in 1..Capacity)
        BY <1>0
      <4>4. j < Capacity => L[j + 1] = s[(d + j) + 1]
        BY <4>3
      <4> QED BY <4>2, <4>4, <2>2
    <3>7. Resident(Q) = Latest(P, Capacity)
      <4>1. [j \in 1..Capacity |-> P[d + j]] = [j \in 1..Capacity |-> Q[j + 1]]
        BY <3>6
      <4> QED BY <2>3, <2>4, <3>4, <3>5, <4>1
    <3> QED BY <3>7 DEF P, Q
  <2>6. CASE k \notin Range(s)
    <3>1. P = Append(s, k)
      BY <2>6 DEF Promote
    <3> HIDE DEF P
    <3>2. \A j \in 1..Capacity : P[d + 1 + j] = Q[j + 1]
      <4>1. P[Len(s) + 1] = k /\ \A j \in 1..Len(s) : P[j] = s[j]
        BY <3>1
      <4> SUFFICES ASSUME NEW j \in 1..Capacity PROVE P[d + 1 + j] = Q[j + 1]
        OBVIOUS
      <4>2. CASE j = Capacity
        <5>1. d + 1 + j = Len(s) + 1
          BY <4>2, <1>0
        <5> QED BY <5>1, <4>1, <4>2, <2>2
      <4>3. CASE j # Capacity
        <5>1. j < Capacity /\ j + 1 \in 1..Capacity
          BY <4>3, <1>0
        <5>2. d + 1 + j = d + (j + 1) /\ d + (j + 1) \in 1..Len(s)
          BY <5>1, <1>0
        <5>3. P[d + (j + 1)] = L[j + 1]
          BY <5>1, <5>2, <4>1
        <5> QED BY <5>1, <5>2, <5>3, <2>2
      <4> QED BY <4>2, <4>3
    <3>3. Latest(P, Capacity) = SubSeq(P, d + 2, d + 1 + Capacity)
      BY <1>1, <1>0, <2>6 DEF Latest
    <3>4. SubSeq(P, d + 2, d + 1 + Capacity) = [j \in 1..Capacity |-> P[d + 1 + j]]
      BY <1>1, <1>0, <2>6
    <3>5. Resident(Q) = Latest(P, Capacity)
      <4>1. [j \in 1..Capacity |-> P[d + 1 + j]] = [j \in 1..Capacity |-> Q[j + 1]]
        BY <3>2
      <4> QED BY <2>3, <2>4, <3>3, <3>4, <4>1
    <3> QED BY <3>5 DEF P, Q
  <2> QED BY <2>5, <2>6
<1> QED BY <1>3, <1>4

\* Taking the latest elements keeps them distinct.
LEMMA LatestProperties ==
  ASSUME NEW S, NEW s \in Seq(S), IsInjective(s)
  PROVE  /\ Latest(s, Capacity) \in Seq(S)
         /\ Len(Latest(s, Capacity)) <= Capacity
         /\ IsInjective(Latest(s, Capacity))
         /\ Len(s) > Capacity =>
              /\ Len(Latest(s, Capacity)) = Capacity
              /\ \A j \in 1..Capacity :
                   Latest(s, Capacity)[j] = s[(Len(s) - Capacity) + j]
<1>0. Capacity \in Nat /\ Capacity > 0
  BY CacheAssumption
<1>1. CASE Len(s) <= Capacity
  BY <1>1, <1>0 DEF Latest
<1>2. CASE Len(s) > Capacity
  <2>1. PICK d \in Nat \ {0} : Len(s) = d + Capacity
    <3>1. Len(s) - Capacity \in Nat \ {0}
      BY <1>2, <1>0
    <3> QED BY <3>1, <1>0
  <2>2. Latest(s, Capacity) = SubSeq(s, d + 1, d + Capacity)
    BY <2>1, <1>0 DEF Latest
  <2>3. SubSeq(s, d + 1, d + Capacity) \in Seq(S)
    BY <2>1, <1>0
  <2>4. SubSeq(s, d + 1, d + Capacity) = [j \in 1..Capacity |-> s[d + j]]
    BY <2>1, <1>0
  <2>5. PICK L \in Seq(S) : L = Latest(s, Capacity)
    BY <2>2, <2>3
  <2>6. Len(L) = Capacity /\ \A j \in 1..Capacity : L[j] = s[d + j]
    BY <2>2, <2>4, <2>5, <1>0
  <2>7. \A j \in 1..Capacity : d + j \in 1..Len(s)
    BY <2>1, <1>0
  <2>8. IsInjective(L)
    <3> SUFFICES ASSUME NEW a \in 1..Capacity, NEW b \in 1..Capacity, L[a] = L[b]
                 PROVE  a = b
      BY <2>6 DEF IsInjective
    <3>1. d + a = d + b
      BY <2>6, <2>7 DEF IsInjective
    <3> QED BY <3>1, <1>0
  <2>9. Len(s) - Capacity = d
    BY <2>1, <1>0
  <2> QED BY <2>5, <2>6, <2>8, <2>9, <1>0
<1> QED BY <1>1, <1>2, <1>0

\* Evicting after promoting in the resident keys gives what promoting in the
\* whole history and then looking at its latest keys gives.
LEMMA LatestOfPromote ==
  ASSUME NEW S, NEW s \in Seq(S), NEW k \in S, IsInjective(s)
  PROVE  Resident(Promote(Latest(s, Capacity), k)) = Latest(Promote(s, k), Capacity)
<1>0. Capacity \in Nat /\ Capacity > 0
  BY CacheAssumption
<1>1. CASE Len(s) <= Capacity
  <2> DEFINE P == Promote(s, k)
  <2>1. Latest(s, Capacity) = s
    BY <1>1 DEF Latest
  <2>2. /\ P \in Seq(S)
        /\ Len(P) = IF k \in Range(s) THEN Len(s) ELSE Len(s) + 1
    BY PromoteProperties
  <2> HIDE DEF P
  <2>3. CASE Len(P) <= Capacity
    <3>1. Resident(P) = Latest(P, Capacity)
      BY <2>3, <2>2, <1>0 DEF Latest, Resident
    <3> QED BY <3>1, <2>1 DEF P
  <2>4. CASE Len(P) > Capacity
    <3>1. Len(P) = Capacity + 1
      BY <2>4, <2>2, <1>1, <1>0
    <3>2. Resident(P) = Tail(P) /\ Latest(P, Capacity) = SubSeq(P, 2, Len(P))
      BY <3>1, <2>2, <1>0 DEF Resident, Latest
    <3>3. Tail(P) = SubSeq(P, 2, Len(P))
      BY <3>1, <2>2, <1>0, TailIsSubSeq
    <3>4. Resident(P) = Latest(P, Capacity)
      BY <3>2, <3>3
    <3> QED BY <3>4, <2>1 DEF P
  <2> QED BY <2>3, <2>4, <2>2, <1>0
<1>2. CASE Len(s) > Capacity
  <2>1. PICK d \in Nat \ {0} : d = Len(s) - Capacity /\ Len(s) = d + Capacity
    <3>1. Len(s) - Capacity \in Nat \ {0}
      BY <1>2, <1>0
    <3> QED BY <3>1, <1>0
  <2>2. PICK L \in Seq(S) : L = Latest(s, Capacity)
    BY LatestProperties
  <2>3. IsInjective(L) /\ Len(L) = Capacity
    BY <1>2, <2>2, LatestProperties
  <2>4. \A j \in 1..Capacity : L[j] = s[d + j]
    BY <1>2, <2>1, <2>2, LatestProperties
  <2> QED BY <2>1, <2>2, <2>3, <2>4, LatestWhenLonger
<1> QED BY <1>1, <1>2, <1>0

\* Evicting keeps a sequence within the capacity and adds no key.
LEMMA ResidentProperties ==
  ASSUME NEW S, NEW s \in Seq(S), Len(s) <= Capacity + 1
  PROVE  /\ Resident(s) \in Seq(S)
         /\ Len(Resident(s)) <= Capacity
         /\ Range(Resident(s)) \subseteq Range(s)
<1>0. Capacity \in Nat /\ Capacity > 0
  BY CacheAssumption
<1>1. CASE Len(s) <= Capacity
  BY <1>1, <1>0 DEF Resident
<1>2. CASE Len(s) > Capacity
  <2>1. Resident(s) = Tail(s) /\ s # <<>>
    BY <1>2, <1>0 DEF Resident
  <2>2. /\ Tail(s) \in Seq(S)
        /\ Len(Tail(s)) = Len(s) - 1
        /\ \A j \in 1..Len(Tail(s)) : Tail(s)[j] = s[j + 1]
    BY <2>1, HeadTailProperties
  <2>3. Range(Tail(s)) \subseteq Range(s)
    BY <2>2 DEF Range
  <2> QED BY <1>2, <2>1, <2>2, <2>3, <1>0
<1> QED BY <1>1, <1>2, <1>0

------------------------------------------------------------------------------
\* The keys stay well typed, the mapping and the order agree, and the order is
\* the window on the history: neither part is inductive without the other,
\* because promoting in a sequence with a repeated key would lose one.
IInv == TypeOK /\ LruResident

\* The cache of a fresh arm.
LEMMA InitIInv == Init => IInv
<1> SUFFICES ASSUME Init PROVE IInv
  OBVIOUS
<1>1. Fingerprint(<<>>) \in Seq({i.id : i \in Items})
  BY DEF Fingerprint
<1>2. TypeOK
  BY <1>1, ArmAssumption, CacheAssumption DEF Init, TypeOK, Range, Answers, Written
<1>3. LruResident
  BY CacheAssumption DEF Init, LruResident, Latest, IsInjective
<1> QED BY <1>2, <1>3 DEF IInv

\* A shuffle of items is a sequence of as many items, and the generator it
\* leaves is one.
LEMMA ShuffledType ==
  ASSUME NEW a, NEW c \in Seq(Items), Len(c) <= MaxItems, NEW g \in Generators
  PROVE  Shuffled(a, c, g) \in Seq(Items) /\ Advanced(a, c, g) \in Generators
<1>1. CASE Shuffles(a, c)
  <2> DEFINE n == Len(c)
  <2>1. n \in 2..MaxItems
    BY <1>1, ArmAssumption DEF Shuffles
  <2>2. /\ Shuffle[<<g, n>>].next \in Generators
        /\ Shuffle[<<g, n>>].order \in [1..n -> 1..n]
    BY <2>1, ArmAssumption
  <2>3. PICK p \in [1..n -> 1..n] : p = Shuffle[<<g, n>>].order
    BY <2>2
  <2>4. Shuffled(a, c, g) = [i \in 1..n |-> c[p[i]]]
    BY <1>1, <2>3 DEF Shuffled
  <2>5. [i \in 1..n |-> c[p[i]]] \in Seq(Items)
    BY <2>1
  <2> QED BY <1>1, <2>2, <2>4, <2>5 DEF Advanced
<1>2. CASE ~ Shuffles(a, c)
  BY <1>2 DEF Shuffled, Advanced
<1> QED BY <1>1, <1>2

\* What is packed is a sequence of ids.
LEMMA PackedType ==
  ASSUME NEW c \in Seq(Items), NEW budget \in Int
  PROVE  Packed(c, budget) \in Seq({i.id : i \in Items})
<1> DEFINE n == IF budget < 0 THEN 0 ELSE IF budget < Len(c) THEN budget ELSE Len(c)
<1>1. n \in Nat /\ {j \in 1..Len(c) : j <= budget} = 1..n
  OBVIOUS
<1>2. \A i \in 1..n : c[i].id \in {x.id : x \in Items}
  OBVIOUS
<1> HIDE DEF n
<1> DEFINE S == {x.id : x \in Items}
           p == [i \in 1..n |-> c[i].id]
<1>3. Packed(c, budget) = p
  BY <1>1 DEF Packed
<1>4. p \in [1..n -> S]
  BY <1>2
<1> HIDE DEF S, p
<1>5. p \in Seq(S)
  BY <1>1, <1>4
<1> QED BY <1>3, <1>5 DEF S

\* What a retrieve returns, cached or not, is a context.
LEMMA AnswerType ==
  ASSUME NEW a, NEW c \in Seq(Items), Len(c) <= MaxItems, NEW g \in Generators,
         NEW r \in Requests
  PROVE  /\ Ranking(a, c, g, r) \in Contexts
         /\ Advanced(a, c, g) \in Generators
         /\ \A v \in Contexts : Returned(r, v) \in Answers
         /\ Written \in Answers /\ Raised \in Answers
<1>1. Packed(Shuffled(a, c, g), r.budget) \in Seq({i.id : i \in Items})
  BY ShuffledType, PackedType, ArmAssumption
<1>2. Ranking(a, c, g, r) \in Contexts
  BY <1>1 DEF Ranking, Contexts
<1>3. \A v \in Contexts : Returned(r, v) \in Answers
  BY DEF Returned, Answers
<1>4. Written \in Answers /\ Raised \in Answers
  BY DEF Answers
<1> QED BY <1>2, <1>3, <1>4, ShuffledType

\* Serving a key extends the history and keeps the order its window.
LEMMA ServeIInv ==
  ASSUME TypeOK, LruResident, NEW r \in Requests,
         recent' = Promote(recent, Key(r)),
         order' = Resident(Promote(order, Key(r)))
  PROVE  /\ Key(r) \in Keys
         /\ order' \in Seq(Keys) /\ recent' \in Seq(Keys)
         /\ Len(order') <= Capacity
         /\ Range(order') \subseteq Range(order) \cup {Key(r)}
         /\ LruResident'
<1>0. Capacity \in Nat /\ Capacity > 0
  BY CacheAssumption
<1>1. /\ Key(r) \in Keys /\ order \in Seq(Keys) /\ recent \in Seq(Keys)
      /\ Len(order) <= Capacity
      /\ IsInjective(recent) /\ order = Latest(recent, Capacity)
  BY DEF TypeOK, LruResident, Key, Keys
<1>2. IsInjective(order)
  BY <1>1, LatestProperties
<1>3. /\ recent' \in Seq(Keys)
      /\ IsInjective(recent')
  BY <1>1, PromoteProperties
<1> DEFINE P == Promote(order, Key(r))
<1>4. /\ P \in Seq(Keys)
      /\ Range(P) = Range(order) \cup {Key(r)}
      /\ Len(P) <= Capacity + 1
  <2>1. /\ P \in Seq(Keys)
        /\ Range(P) = Range(order) \cup {Key(r)}
        /\ Len(P) = IF Key(r) \in Range(order) THEN Len(order) ELSE Len(order) + 1
    <3>1. Key(r) \in Keys /\ order \in Seq(Keys)
      BY <1>1
    <3> QED BY ONLY <3>1, <1>2, PromoteProperties
  <2> HIDE DEF P
  <2> QED BY <2>1, <1>0, <1>1
<1> HIDE DEF P
<1>5. order' = Resident(P)
  BY DEF P
<1>6. /\ order' \in Seq(Keys)
      /\ Len(order') <= Capacity
      /\ Range(order') \subseteq Range(P)
  BY <1>4, <1>5, ResidentProperties
<1>7. order' = Latest(recent', Capacity)
  BY <1>1, LatestOfPromote
<1> QED BY <1>1, <1>3, <1>4, <1>6, <1>7 DEF LruResident

\* Every operation keeps the types and the recency order.
LEMMA StepIInv == IInv /\ [Next]_vars => IInv'
<1> SUFFICES ASSUME IInv, [Next]_vars PROVE IInv'
  OBVIOUS
<1> USE DEF IInv
<1>1. ASSUME NEW batch \in Batches, Write(batch) PROVE IInv'
  <2>1. batch \in Seq(Items)
    BY ArmAssumption
  <2>2. Fingerprint(batch) \in Seq({x.id : x \in Items})
    <3>1. \A m \in 1..Len(batch) : batch[m].id \in {x.id : x \in Items}
      BY <2>1
    <3> QED BY <3>1, <2>1 DEF Fingerprint
  <2>3. corpus' \in Seq(Items) /\ answer' \in Answers /\ bareAnswer' \in Answers
    BY <1>1, <2>1 DEF Write, Clear, TypeOK, Answers
  <2>4. TypeOK'
    BY <1>1, <2>2, <2>3, CacheAssumption DEF Write, Clear, TypeOK, Range
  <2>5. LruResident'
    BY <1>1, CacheAssumption DEF Write, Clear, LruResident, Latest, IsInjective
  <2> QED BY <2>4, <2>5
<1>2. ASSUME NEW batch \in Batches, WriteRaises(batch) PROVE IInv'
  <2>1. batch \in Seq(Items)
    BY ArmAssumption
  <2>2. TypeOK'
    BY <1>2, <2>1 DEF WriteRaises, TypeOK, Answers
  <2>3. LruResident'
    BY <1>2 DEF WriteRaises, LruResident
  <2> QED BY <2>2, <2>3
<1> DEFINE BareType == bareRng' \in Generators /\ bareAnswer' \in Answers
<1>3. ASSUME NEW r \in Requests, Retrieve(r) PROVE BareType
  BY <1>3, AnswerType DEF Retrieve, TypeOK
<1>4. ASSUME NEW r \in Requests, Retrieve(r), Hit(r) PROVE IInv'
  <2>1. BareType
    BY <1>3, <1>4
  <2>2. IsInjective(order)
    BY LatestProperties DEF TypeOK, LruResident
  <2>3. Key(r) \in Range(order) /\ Key(r) \in Keys
    BY <1>4 DEF Hit, TypeOK, Key, Keys
  <2>4. order' = Resident(Promote(order, Key(r))) /\ Range(order') = Range(order)
    <3>1. order' = Promote(order, Key(r)) /\ order \in Seq(Keys) /\ Len(order) <= Capacity
      BY <1>4 DEF Hit, TypeOK
    <3>2. /\ order' \in Seq(Keys) /\ Range(order') = Range(order) \cup {Key(r)}
          /\ Len(order') = IF Key(r) \in Range(order) THEN Len(order) ELSE Len(order) + 1
      BY <2>2, <2>3, <3>1, PromoteProperties
    <3>3. Resident(order') = order'
      BY <2>3, <3>1, <3>2, CacheAssumption DEF Resident
    <3> QED BY <2>3, <3>1, <3>2, <3>3
  <2>5. recent' = Promote(recent, Key(r))
    BY <1>4 DEF Hit
  <2>6. cached[Key(r)] \in Contexts
    BY <1>4 DEF Hit, TypeOK
  <2>7. answer' \in Answers
    BY <1>4, <2>6, AnswerType DEF Hit, TypeOK
  <2>8. /\ order' \in Seq(Keys) /\ recent' \in Seq(Keys)
        /\ Len(order') <= Capacity
        /\ LruResident'
    BY <2>4, <2>5, ServeIInv
  <2>9. DOMAIN cached' = Range(order') /\ \A k \in DOMAIN cached' : cached'[k] \in Contexts
    BY <1>4, <2>4 DEF Hit, TypeOK
  <2>10. TypeOK'
    BY <1>4, <2>1, <2>7, <2>8, <2>9 DEF Hit, TypeOK
  <2> QED BY <2>8, <2>10
<1>5. ASSUME NEW r \in Requests, Retrieve(r), Miss(r) PROVE IInv'
  <2>1. BareType
    BY <1>3, <1>5
  <2>2. /\ order' = Resident(Promote(order, Key(r)))
        /\ recent' = Promote(recent, Key(r))
    BY <1>5 DEF Miss
  <2>3. /\ order' \in Seq(Keys) /\ recent' \in Seq(Keys)
        /\ Len(order') <= Capacity
        /\ Range(order') \subseteq Range(order) \cup {Key(r)}
        /\ LruResident'
    BY <2>2, ServeIInv
  <2>4. Ranking(arm, corpus, rng, r) \in Contexts /\ rng' \in Generators
    BY <1>5, AnswerType DEF Miss, TypeOK
  <2>5. cached' = [k \in Range(order') |->
                     IF k = Key(r) THEN Ranking(arm, corpus, rng, r) ELSE cached[k]]
    BY <1>5 DEF Miss
  <2>6. /\ DOMAIN cached' = Range(order')
        /\ \A k \in DOMAIN cached' : cached'[k] \in Contexts
    BY <2>3, <2>4, <2>5 DEF TypeOK
  <2>7. answer' \in Answers
    BY <1>5, <2>4, AnswerType DEF Miss, TypeOK
  <2> QED BY <1>5, <2>1, <2>3, <2>4, <2>6, <2>7 DEF Miss, TypeOK
<1>6. ASSUME NEW r \in Requests, Retrieve(r), MissRaises(r) PROVE IInv'
  <2>1. BareType
    BY <1>3, <1>6
  <2>2. rng' \in Generators /\ answer' \in Answers
    BY <1>6, AnswerType DEF MissRaises, TypeOK
  <2>3. TypeOK'
    BY <1>6, <2>1, <2>2 DEF MissRaises, TypeOK
  <2>4. LruResident'
    BY <1>6 DEF MissRaises, LruResident
  <2> QED BY <2>3, <2>4
<1>7. CASE UNCHANGED vars
  BY <1>7 DEF vars, history, TypeOK, LruResident
<1> QED BY <1>1, <1>2, <1>4, <1>5, <1>6, <1>7 DEF Next, Retrieve

\* Every reachable state is well typed, and the cache is within its capacity.
THEOREM TypeCorrect == Spec => []TypeOK
<1>1. IInv => TypeOK
  BY DEF IInv
<1> QED BY <1>1, InitIInv, StepIInv, PTL DEF Spec

\* retrieve's bookkeeping keeps exactly the Capacity most recently served keys,
\* whatever is written, raised or evicted in between.
THEOREM LruIsWindow == Spec => []LruResident
<1>1. IInv => LruResident
  BY DEF IInv
<1> QED BY <1>1, InitIInv, StepIInv, PTL DEF Spec

------------------------------------------------------------------------------
\* Over a pure arm the resident answers are current, none of them belongs to a
\* request the arm would refuse, and the cache shows the arm's own answer.
Transparent ==
  /\ CacheCoherent
  /\ \A k \in DOMAIN cached : ~ Raises(arm, corpus, k[2])
  /\ rng = Seed /\ bareRng = Seed

LEMMA InitTransparent == Init => Transparent
BY DEF Init, Transparent, CacheCoherent

\* The instance's names for what both modules take from ArmModel.
LEMMA SameModel ==
  /\ Bare!Written = Written /\ Bare!Raised = Raised
  /\ \A a : Bare!RejectsRewrite(a) <=> RejectsRewrite(a)
  /\ \A a, c, r : Bare!Raises(a, c, r) <=> Raises(a, c, r)
  /\ \A a, c, g : Bare!Advanced(a, c, g) = Advanced(a, c, g)
  /\ \A a, c, g, r : Bare!Ranking(a, c, g, r) = Ranking(a, c, g, r)
  /\ \A r, v : Bare!Returned(r, v) = Returned(r, v)
BY DEF Written, Bare!Written, Raised, Bare!Raised, RejectsRewrite,
       Bare!RejectsRewrite, Raises, Bare!Raises, Advanced, Bare!Advanced,
       Shuffles, Bare!Shuffles, StatefulRetrieve, Bare!StatefulRetrieve,
       Shuffled, Bare!Shuffled, Packed, Bare!Packed, Ranking, Bare!Ranking,
       Returned, Bare!Returned

\* One step: the invariant holds again, and the step is one of the bare arm.
LEMMA StepTransparent ==
  ASSUME PureArm(arm), IInv, IInv', Transparent, [Next]_vars
  PROVE  Transparent' /\ [Bare!Next]_(Bare!armVars)
<1> USE DEF Bare!armVars
<1>1. ~ StatefulRetrieve(arm) /\ ~ RejectsRewrite(arm)
  BY DEF PureArm
<1>2. rng = Seed /\ bareRng = Seed /\ \A c, g : Advanced(arm, c, g) = g
  BY <1>1 DEF Transparent, Advanced, Shuffles
<1>3. ASSUME NEW batch \in Batches, Write(batch)
      PROVE  Transparent' /\ Bare!Next
  <2>1. Transparent'
    BY <1>2, <1>3 DEF Write, Clear, Transparent, CacheCoherent
  <2>2. Bare!Write(batch)
    BY <1>1, <1>3, SameModel DEF Write, Clear, Bare!Write
  <2> QED BY <2>1, <2>2 DEF Bare!Next
<1>4. ASSUME NEW batch \in Batches, WriteRaises(batch) PROVE FALSE
  BY <1>1, <1>4 DEF WriteRaises
<1>5. ASSUME NEW r \in Requests, Retrieve(r), Hit(r)
      PROVE  Transparent' /\ Bare!Next
  <2>1. Key(r)[2] = r
    BY DEF Key
  <2>2. ~ Raises(arm, corpus, r) /\ cached[Key(r)] = Ranking(arm, corpus, Seed, r)
    BY <1>2, <1>5, <2>1 DEF Hit, Transparent, CacheCoherent
  <2>3. /\ answer' = Returned(r, Ranking(arm, corpus, Seed, r))
        /\ UNCHANGED <<arm, corpus, rng, fingerprint, cached>>
    BY <1>5, <2>2 DEF Hit
  <2>4. bareRng' = Seed
    BY <1>2, <1>5 DEF Retrieve
  <2>5. Transparent'
    BY <1>2, <2>3, <2>4 DEF Transparent, CacheCoherent
  <2>6. Bare!Retrieve(r)
    BY <1>2, <2>2, <2>3, <2>4, SameModel DEF Bare!Retrieve
  <2> QED BY <2>5, <2>6 DEF Bare!Next
<1>6. ASSUME NEW r \in Requests, Retrieve(r), Miss(r)
      PROVE  Transparent' /\ Bare!Next
  <2>1. Key(r)[1] = fingerprint /\ Key(r)[2] = r
    BY DEF Key
  <2>2. /\ ~ Raises(arm, corpus, r)
        /\ answer' = Returned(r, Ranking(arm, corpus, Seed, r))
        /\ cached' = [k \in Range(order') |->
                        IF k = Key(r) THEN Ranking(arm, corpus, Seed, r) ELSE cached[k]]
        /\ rng' = Seed /\ UNCHANGED <<arm, corpus, fingerprint>>
    BY <1>2, <1>6 DEF Miss
  <2>3. bareRng' = Seed
    BY <1>2, <1>6 DEF Retrieve
  <2>4. Range(order') \subseteq Range(order) \cup {Key(r)}
    BY <1>6, ServeIInv DEF Miss, IInv
  <2>5. \A k \in DOMAIN cached' : k # Key(r) => k \in DOMAIN cached
    BY <2>2, <2>4 DEF IInv, TypeOK
  <2>6. \A k \in DOMAIN cached' :
           /\ k[1] = fingerprint /\ cached'[k] = Ranking(arm, corpus, Seed, k[2])
           /\ ~ Raises(arm, corpus, k[2])
    BY <1>2, <2>1, <2>2, <2>5 DEF Transparent, CacheCoherent
  <2>7. Transparent'
    BY <2>2, <2>3, <2>6 DEF Transparent, CacheCoherent
  <2>8. Bare!Retrieve(r)
    BY <1>2, <2>2, <2>3, SameModel DEF Bare!Retrieve
  <2> QED BY <2>7, <2>8 DEF Bare!Next
<1>7. ASSUME NEW r \in Requests, Retrieve(r), MissRaises(r)
      PROVE  Transparent' /\ Bare!Next
  <2>1. /\ Raises(arm, corpus, r) /\ answer' = Raised /\ rng' = Seed
        /\ UNCHANGED <<arm, corpus, fingerprint, cached>>
    BY <1>2, <1>7 DEF MissRaises
  <2>2. bareRng' = Seed
    BY <1>2, <1>7 DEF Retrieve
  <2>3. Transparent'
    BY <2>1, <2>2, <1>2 DEF Transparent, CacheCoherent
  <2>4. Bare!Retrieve(r)
    BY <1>2, <2>1, <2>2, SameModel DEF Bare!Retrieve
  <2> QED BY <2>3, <2>4 DEF Bare!Next
<1>8. CASE UNCHANGED vars
  BY <1>8 DEF vars, history, Transparent, CacheCoherent
<1> QED BY <1>3, <1>4, <1>5, <1>6, <1>7, <1>8 DEF Next, Retrieve

\* No step changes the arm a cache wraps.
LEMMA SameArm == [Next]_vars => arm' = arm
BY DEF Next, Retrieve, Write, WriteRaises, Hit, Miss, MissRaises, vars

\* The two conclusions of StepTransparent for a cache over any arm.
LEMMA StepIfPure ==
  ASSUME IInv, IInv', PureArm(arm) => Transparent, [Next]_vars
  PROVE  /\ (PureArm(arm) => Transparent)'
         /\ [PureArm(arm) => Bare!Next]_(Bare!armVars)
<1>1. PureArm(arm)' <=> PureArm(arm)
  BY SameArm DEF PureArm, StatefulRetrieve, RejectsRewrite
<1>2. CASE PureArm(arm)
  BY <1>2, StepTransparent
<1>3. CASE ~ PureArm(arm)
  BY <1>1, <1>3
<1> QED BY <1>2, <1>3

\* Over a pure arm, a resident answer is always the arm's current one.
THEOREM CoherentOverPureArm == Spec => []CacheCoherent
<1>1. (PureArm(arm) => Transparent) => CacheCoherent
  BY DEF Transparent, CacheCoherent
<1>2. Init => (PureArm(arm) => Transparent)
  BY InitTransparent
<1>3. IInv /\ IInv' /\ (PureArm(arm) => Transparent) /\ [Next]_vars
        => (PureArm(arm) => Transparent)'
  BY StepIfPure
<1> QED BY <1>1, <1>2, <1>3, InitIInv, StepIInv, PTL DEF Spec

\* "it never alters retrieval semantics": over a pure arm, every step of the
\* cache is a step of the arm on its own.
THEOREM CacheImplementsArm == Spec => ImplementsArm
<1>1. Init => Bare!Init /\ (PureArm(arm) => Transparent)
  BY SameModel, InitTransparent DEF Init, Bare!Init
<1>2. IInv /\ IInv' /\ (PureArm(arm) => Transparent) /\ [Next]_vars
        => /\ (PureArm(arm) => Transparent)'
           /\ [PureArm(arm) => Bare!Next]_(Bare!armVars)
  BY StepIfPure
<1> QED BY <1>1, <1>2, InitIInv, StepIInv, PTL DEF Spec, ImplementsArm
==============================================================================
