-------------------------- MODULE Traversal_proofs --------------------------
(***************************************************************************)
(* Proofs about Traversal, for every graph, every list of start ids and any *)
(* bounds on hops and nodes, and about the TypedGraph it walks, for any     *)
(* ids, any relationship types and edge lists of any length.                *)
(***************************************************************************)
EXTENDS Traversal, TypedGraph, FiniteSetTheorems, SequenceTheorems, WellFoundedInduction, TLAPS

-----------------------------------------------------------------------------
(* Induction, stated of sets of numbers.                                     *)

LEMMA Least ==
  ASSUME NEW T \in SUBSET Nat, T # {}
  PROVE  \E x \in T : \A y \in T : x <= y
<1> DEFINE R == {ss \in Nat \X Nat : ss[1] < ss[2]}
<1>1. IsWellFoundedOn(R, Nat)
  BY NatLessThanWellFounded, Zenon DEF OpToRel
<1>2. \E x \in T : \A y \in T : ~ (<<y, x>> \in R)
  <2> HIDE DEF R
  <2> QED BY <1>1, WFMin
<1>3. PICK x \in T : \A y \in T : ~ (<<y, x>> \in R)
  BY <1>2
<1>4. \A y \in T : ~ (y < x)
  BY <1>3
<1> QED BY <1>4

LEMMA Induction ==
  ASSUME NEW S, 0 \in S, \A n \in Nat : n \in S => n + 1 \in S
  PROVE  Nat \subseteq S
<1> SUFFICES ASSUME NEW k \in Nat, k \notin S PROVE FALSE
  OBVIOUS
<1> DEFINE T == {n \in Nat : n \notin S}
<1>1. PICK x \in T : \A y \in T : x <= y
  <2>1. T \in SUBSET Nat /\ T # {}
    OBVIOUS
  <2> HIDE DEF T
  <2> QED BY <2>1, Least
<1>2. x # 0 /\ x \in Nat /\ x \notin S
  OBVIOUS
<1>3. x - 1 \in Nat
  BY <1>2
<1>4. x - 1 \in S
  BY <1>1, <1>2, <1>3
<1>5. (x - 1) + 1 \in S
  BY <1>3, <1>4
<1> QED BY <1>2, <1>5

-----------------------------------------------------------------------------
(* The balls.                                                                *)

Reached(g, B) == B \cup UNION {Neighbours(g, n) : n \in B}
IsBalls(g, seeds, hops, f) ==
  f = [h \in 0..hops |-> IF h = 0 THEN seeds ELSE f[h - 1] \cup UNION {Neighbours(g, n) : n \in f[h - 1]}]

\* The recursion has a solution.
LEMMA BallsExist ==
  ASSUME NEW g, NEW seeds, NEW hops \in Nat
  PROVE  \E f : IsBalls(g, seeds, hops, f)
<1> DEFINE S == {k \in Nat : \E f : IsBalls(g, seeds, k, f)}
<1>1. 0 \in S
  <2> DEFINE f == [h \in 0..0 |-> seeds]
  <2>1. IsBalls(g, seeds, 0, f)
    BY DEF IsBalls
  <2> QED BY <2>1
<1>2. \A k \in Nat : k \in S => k + 1 \in S
  <2> SUFFICES ASSUME NEW k \in Nat, k \in S PROVE \E f : IsBalls(g, seeds, k + 1, f)
    OBVIOUS
  <2>1. PICK f : IsBalls(g, seeds, k, f)
    OBVIOUS
  <2> DEFINE e == [h \in 0..(k + 1) |-> IF h = k + 1 THEN Reached(g, f[k]) ELSE f[h]]
  <2>2. \A h \in 0..k : f[h] = IF h = 0 THEN seeds ELSE f[h - 1] \cup UNION {Neighbours(g, n) : n \in f[h - 1]}
    <3> DEFINE body(h) == IF h = 0 THEN seeds ELSE f[h - 1] \cup UNION {Neighbours(g, n) : n \in f[h - 1]}
    <3>1. f = [h \in 0..k |-> body(h)]
      BY <2>1 DEF IsBalls
    <3> HIDE DEF body
    <3>2. \A h \in 0..k : f[h] = body(h)
      BY <3>1
    <3> QED BY <3>2 DEF body
  <2>3. \A h \in 0..(k + 1) : e[h] = IF h = 0 THEN seeds ELSE e[h - 1] \cup UNION {Neighbours(g, n) : n \in e[h - 1]}
    <3> SUFFICES ASSUME NEW h \in 0..(k + 1)
                 PROVE  e[h] = IF h = 0 THEN seeds ELSE e[h - 1] \cup UNION {Neighbours(g, n) : n \in e[h - 1]}
      OBVIOUS
    <3>1. CASE h = 0
      <4>1. 0 \in 0..k /\ 0 \in 0..(k + 1) /\ 0 # k + 1
        OBVIOUS
      <4>2. f[0] = seeds
        BY <2>2, <4>1
      <4>3. e[0] = f[0]
        BY <4>1
      <4> QED BY <3>1, <4>2, <4>3
    <3>2. CASE h # 0
      <4>1. h - 1 \in 0..k /\ e[h - 1] = f[h - 1]
        BY <3>2
      <4>2. e[h] = Reached(g, f[h - 1])
        <5>1. CASE h = k + 1
          BY <5>1
        <5>2. CASE h # k + 1
          <6>1. h \in 0..k /\ e[h] = f[h]
            BY <5>2
          <6> QED BY <2>2, <3>2, <6>1 DEF Reached
        <5> QED BY <5>1, <5>2
      <4> HIDE DEF e
      <4> QED BY <3>2, <4>1, <4>2 DEF Reached
    <3> QED BY <3>1, <3>2
  <2>4. IsBalls(g, seeds, k + 1, e)
    <3> DEFINE body(h) == IF h = 0 THEN seeds ELSE e[h - 1] \cup UNION {Neighbours(g, n) : n \in e[h - 1]}
               top(h) == IF h = k + 1 THEN Reached(g, f[k]) ELSE f[h]
    <3>1. e = [h \in 0..(k + 1) |-> top(h)]
      OBVIOUS
    <3>2. \A h \in 0..(k + 1) : e[h] = body(h)
      BY <2>3
    <3>3. \A h \in 0..(k + 1) : top(h) = body(h)
      BY <3>1, <3>2
    <3> HIDE DEF body, top, e
    <3>4. e = [h \in 0..(k + 1) |-> body(h)]
      BY <3>1, <3>3
    <3> QED BY <3>4 DEF IsBalls, body
  <2> QED BY <2>4
<1> HIDE DEF S
<1>3. hops \in S
  BY <1>1, <1>2, Induction
<1> QED BY <1>3 DEF S

LEMMA BallsUnfold ==
  ASSUME NEW g, NEW seeds, NEW hops \in Nat
  PROVE  /\ Balls(g, seeds, hops)[0] = seeds
         /\ \A h \in 0..(hops - 1) : Balls(g, seeds, hops)[h + 1] = Reached(g, Balls(g, seeds, hops)[h])
<1> DEFINE b == Balls(g, seeds, hops)
<1>1. b = CHOOSE f : IsBalls(g, seeds, hops, f)
  BY DEF Balls, IsBalls
<1>2. IsBalls(g, seeds, hops, b)
  <2>1. \E f : IsBalls(g, seeds, hops, f)
    BY BallsExist
  <2> HIDE DEF b
  <2> QED BY <1>1, <2>1
<1> DEFINE body(h) == IF h = 0 THEN seeds ELSE b[h - 1] \cup UNION {Neighbours(g, n) : n \in b[h - 1]}
<1>3. b = [h \in 0..hops |-> body(h)]
  BY <1>2 DEF IsBalls
<1> HIDE DEF b, body
<1>4. \A h \in 0..hops : b[h] = body(h)
  BY <1>3
<1>5. b[0] = seeds
  <2>1. 0 \in 0..hops
    OBVIOUS
  <2> QED BY <1>4, <2>1 DEF body
<1>6. ASSUME NEW h \in 0..(hops - 1) PROVE b[h + 1] = Reached(g, b[h])
  <2>1. h + 1 \in 0..hops /\ h + 1 # 0 /\ (h + 1) - 1 = h
    OBVIOUS
  <2> QED BY <1>4, <2>1 DEF body, Reached
<1> QED BY <1>5, <1>6 DEF b

-----------------------------------------------------------------------------
(* The invariant.                                                            *)

Nodes == DOMAIN graph
Popped == Len(ordered) - Len(queue)
Looked == Len(graph[current]) - Len(rest)

Typ ==
  /\ graph \in Graphs /\ limits \in Limits /\ starts \in Starts
  /\ seeded \in 0..Len(starts)
  /\ Discovered \subseteq Nodes /\ depth \in [Discovered -> 0..Hops]
  /\ ordered \in Seq(Nodes) /\ queue \in Seq(Nodes)
  /\ truncated \in BOOLEAN
  /\ current # None => /\ rest \in Seq(Range(graph[current])) /\ Len(rest) <= Len(graph[current])
                       /\ \A k \in 1..Len(rest) : rest[k] = graph[current][Looked + k]

\* The discovered nodes are listed once each; the queue is the end of the list,
\* and the node being expanded is the last one before it.
Listing ==
  /\ \A i \in 1..Len(ordered) : ordered[i] \in Discovered
  /\ \A i, j \in 1..Len(ordered) : ordered[i] = ordered[j] => i = j
  /\ \A n \in Discovered : \E i \in 1..Len(ordered) : ordered[i] = n
  /\ Len(queue) <= Len(ordered)
  /\ \A i \in 1..Len(queue) : queue[i] = ordered[Popped + i]
  /\ current # None => Popped > 0 /\ current = ordered[Popped] /\ depth[current] < Hops

\* Nearest first; what is not a seed was met from a node taken out of the queue.
Layers ==
  /\ \A i, j \in 1..Len(ordered) : i < j => depth[ordered[i]] <= depth[ordered[j]]
  /\ \A i \in 1..Len(ordered) :
       depth[ordered[i]] > 0 => \E j \in 1..Popped : depth[ordered[i]] = depth[ordered[j]] + 1

\* The seeds come first, all of them.
Seeding ==
  /\ seeded < Len(starts) =>
       current = None /\ Popped = 0 /\ ~truncated /\ \A n \in Discovered : depth[n] = 0
  /\ \A i \in 1..seeded : starts[i] \in Nodes => starts[i] \in Discovered

Distances ==
  \A n \in Discovered :
    /\ n \in Ball[depth[n]] /\ \A h \in 0..(depth[n] - 1) : n \notin Ball[h]
    /\ depth[n] > 0 => Ball[depth[n] - 1] \subseteq Discovered

Budget ==
  /\ truncated => Full /\ Ball[Hops] \ Discovered # {}
  /\ IsFiniteSet(Discovered)
  /\ Cardinality(Discovered) <= MaxNodes \/ \A n \in Discovered : depth[n] = 0

\* Unless the budget has bound, a node taken out of the queue has had all its
\* neighbours discovered, but for those not looked at yet.
Waiting(i, k) == current # None /\ i = Popped /\ k > Looked
Complete ==
  ~ truncated =>
    \A i \in 1..Popped : depth[ordered[i]] < Hops =>
      \A k \in DOMAIN graph[ordered[i]] : graph[ordered[i]][k][2] \in Discovered \/ Waiting(i, k)

Inv == Typ /\ Listing /\ Layers /\ Seeding /\ Distances /\ Budget /\ Complete

-----------------------------------------------------------------------------
(* What the graph and the bounds are.                                        *)

LEMMA HopsType == limits \in Limits => Hops \in Nat /\ Hops >= 1 /\ MaxNodes \in Nat
<1> SUFFICES ASSUME limits \in Limits PROVE Hops \in Nat /\ Hops >= 1 /\ MaxNodes \in Nat
  OBVIOUS
<1>1. limits.hops \in Int /\ limits.nodes \in Nat
  BY TraversalAssumption
<1> QED BY <1>1 DEF Hops, MaxNodes, Clamp, MAX_HOPS_LIMIT

LEMMA GraphFacts ==
  ASSUME graph \in Graphs
  PROVE  /\ None \notin Nodes
         /\ \A n \in Nodes : /\ graph[n] \in Seq(Range(graph[n])) /\ Len(graph[n]) \in Nat
                             /\ DOMAIN graph[n] = 1..Len(graph[n])
                             /\ \A k \in DOMAIN graph[n] : graph[n][k][2] \in Nodes
<1>1. IsGraph(graph)
  BY TraversalAssumption
<1>2. \A n \in Nodes : graph[n] \in Seq(Range(graph[n]))
  BY <1>1 DEF IsGraph, Nodes
<1>3. \A n \in Nodes : Len(graph[n]) \in Nat /\ DOMAIN graph[n] = 1..Len(graph[n])
  BY <1>2
<1> QED BY <1>1, <1>2, <1>3 DEF IsGraph, Nodes

LEMMA BallFacts ==
  ASSUME graph \in Graphs, limits \in Limits
  PROVE  /\ Ball[0] = Seeds
         /\ \A h \in 0..(Hops - 1) :
              /\ Ball[h] \subseteq Ball[h + 1]
              /\ \A x : x \in Ball[h + 1] => \/ x \in Ball[h]
                                             \/ \E m \in Ball[h] : \E k \in DOMAIN graph[m] : x = graph[m][k][2]
              /\ \A m \in Ball[h] : \A k \in DOMAIN graph[m] : graph[m][k][2] \in Ball[h + 1]
<1>1. Hops \in Nat
  BY HopsType
<1>2. Ball[0] = Seeds /\ \A h \in 0..(Hops - 1) : Ball[h + 1] = Reached(graph, Ball[h])
  BY <1>1, BallsUnfold DEF Ball
<1> SUFFICES ASSUME NEW h \in 0..(Hops - 1)
             PROVE  /\ Ball[h] \subseteq Ball[h + 1]
                    /\ \A x : x \in Ball[h + 1] => \/ x \in Ball[h]
                                                   \/ \E m \in Ball[h] : \E k \in DOMAIN graph[m] : x = graph[m][k][2]
                    /\ \A m \in Ball[h] : \A k \in DOMAIN graph[m] : graph[m][k][2] \in Ball[h + 1]
  BY <1>2
<1>3. Ball[h + 1] = Reached(graph, Ball[h])
  BY <1>2
<1> DEFINE B == Ball[h]
<1> HIDE DEF B
<1>4. B \subseteq Reached(graph, B)
  BY DEF Reached
<1>5. \A m \in B : \A k \in DOMAIN graph[m] : graph[m][k][2] \in Reached(graph, B)
  BY DEF Reached, Neighbours
<1>6. ASSUME NEW x \in Reached(graph, B), x \notin B
      PROVE  \E m \in B : \E k \in DOMAIN graph[m] : x = graph[m][k][2]
  <2>1. x \in UNION {Neighbours(graph, n) : n \in B}
    BY <1>6 DEF Reached
  <2>2. PICK m \in B : x \in Neighbours(graph, m)
    BY <2>1
  <2> QED BY <2>2 DEF Neighbours
<1> QED BY <1>3, <1>4, <1>5, <1>6 DEF B

LEMMA BallMono ==
  ASSUME graph \in Graphs, limits \in Limits, NEW i \in 0..Hops, NEW j \in 0..Hops, i <= j
  PROVE  Ball[i] \subseteq Ball[j]
<1>1. Hops \in Nat
  BY HopsType
<1> DEFINE S == {k \in Nat : i + k <= Hops => Ball[i] \subseteq Ball[i + k]}
<1>2. 0 \in S
  BY <1>1
<1>3. \A k \in Nat : k \in S => k + 1 \in S
  <2> SUFFICES ASSUME NEW k \in Nat, k \in S PROVE k + 1 \in S
    BY Zenon
  <2>1. ASSUME i + (k + 1) <= Hops PROVE Ball[i] \subseteq Ball[i + (k + 1)]
    <3>1. i + k \in 0..(Hops - 1) /\ i + (k + 1) = (i + k) + 1 /\ Ball[i] \subseteq Ball[i + k]
      BY <1>1, <2>1
    <3>2. Ball[i + k] \subseteq Ball[(i + k) + 1]
      BY <3>1, BallFacts
    <3> QED BY <3>1, <3>2
  <2> QED BY <2>1
<1> HIDE DEF S
<1>4. j - i \in S
  <2>1. j - i \in Nat
    BY <1>1
  <2> QED BY <1>2, <1>3, <2>1, Induction
<1>5. i + (j - i) = j
  BY <1>1
<1> QED BY <1>1, <1>4, <1>5 DEF S

\* If every discovered node nearer than k has had its neighbours discovered,
\* then everything within k hops of the seeds is discovered.
LEMMA Closed ==
  ASSUME Typ, Seeding, Distances, seeded = Len(starts), NEW k \in 0..Hops,
         \A m \in Discovered : depth[m] < k => \A l \in DOMAIN graph[m] : graph[m][l][2] \in Discovered
  PROVE  Ball[k] \subseteq Discovered
<1>1. Hops \in Nat /\ k \in Nat /\ graph \in Graphs /\ limits \in Limits
  BY HopsType DEF Typ
<1> DEFINE S == {h \in Nat : h <= k => Ball[h] \subseteq Discovered}
<1>2. 0 \in S
  <2>1. starts \in Seq(Range(starts)) /\ DOMAIN starts = 1..Len(starts)
    BY TraversalAssumption DEF Typ
  <2>2. Seeds \subseteq Discovered
    BY <2>1 DEF Seeds, Seeding, Nodes
  <2> QED BY <1>1, <2>2, BallFacts
<1>3. ASSUME NEW h \in Nat, h <= k => Ball[h] \subseteq Discovered, h + 1 <= k
      PROVE  Ball[h + 1] \subseteq Discovered
  <2> SUFFICES ASSUME NEW x \in Ball[h + 1] PROVE x \in Discovered
    OBVIOUS
  <2>1. h \in 0..(Hops - 1) /\ Ball[h] \subseteq Discovered
    BY <1>1, <1>3
  <2>2. CASE x \in Ball[h]
    BY <2>1, <2>2
  <2>3. CASE \E m \in Ball[h] : \E l \in DOMAIN graph[m] : x = graph[m][l][2]
    <3>1. PICK m \in Ball[h] : \E l \in DOMAIN graph[m] : x = graph[m][l][2]
      BY <2>3
    <3>2. m \in Discovered /\ depth[m] \in Nat
      BY <1>1, <2>1 DEF Typ
    <3>3. depth[m] <= h
      BY <3>1, <3>2 DEF Distances
    <3> QED BY <1>1, <1>3, <3>1, <3>2, <3>3
  <2> QED BY <1>1, <2>1, <2>2, <2>3, BallFacts
<1>4. \A h \in Nat : h \in S => h + 1 \in S
  BY <1>3
<1> HIDE DEF S
<1>5. k \in S
  BY <1>1, <1>2, <1>4, Induction
<1> QED BY <1>1, <1>5 DEF S

-----------------------------------------------------------------------------
(* Discovering a node.                                                       *)

LEMMA CallKept ==
  ASSUME UNCHANGED <<graph, limits, starts>>
  PROVE  Nodes' = Nodes /\ Hops' = Hops /\ MaxNodes' = MaxNodes /\ Ball' = Ball
BY DEF Nodes, Hops, MaxNodes, Ball, Seeds

LEMMA InitInv == Init => Inv
<1> SUFFICES ASSUME Init PROVE Inv
  OBVIOUS
<1>1. /\ graph \in Graphs /\ limits \in Limits /\ starts \in Starts /\ seeded = 0
      /\ depth = <<>> /\ ordered = <<>> /\ queue = <<>> /\ current = None /\ ~ truncated
  BY DEF Init
<1>2. Discovered = {} /\ Len(ordered) = 0 /\ Popped = 0 /\ 1..0 = {}
  BY <1>1 DEF Discovered, Popped
<1>3. Len(starts) \in Nat
  BY <1>1, TraversalAssumption
<1>4. depth \in [Discovered -> 0..Hops]
  BY <1>1, <1>2
<1>5. Typ
  <2>1. ordered \in Seq(Nodes) /\ queue \in Seq(Nodes)
    BY <1>1
  <2>2. seeded \in 0..Len(starts)
    BY <1>1, <1>3
  <2>3. truncated \in BOOLEAN
    BY DEF Init
  <2> QED BY <1>1, <1>2, <1>4, <2>1, <2>2, <2>3, Zenon DEF Typ
<1>6. Listing /\ Layers /\ Seeding
  BY <1>1, <1>2 DEF Listing, Layers, Seeding
<1>7. Distances /\ Complete
  BY <1>1, <1>2 DEF Distances, Complete
<1>8. Budget
  BY <1>1, <1>2, FS_EmptySet DEF Budget
<1> QED BY <1>5, <1>6, <1>7, <1>8 DEF Inv

LEMMA Discovery ==
  ASSUME Typ, Listing, NEW n \in Nodes, n \notin Discovered, NEW d \in 0..Hops, Discover(n, d)
  PROVE  /\ Discovered' = Discovered \cup {n} /\ depth' \in [Discovered' -> 0..Hops]
         /\ depth'[n] = d /\ \A m \in Discovered : depth'[m] = depth[m]
         /\ ordered' \in Seq(Nodes) /\ queue' \in Seq(Nodes)
         /\ Len(ordered) \in Nat /\ Len(queue) \in Nat
         /\ Len(ordered') = Len(ordered) + 1 /\ ordered'[Len(ordered) + 1] = n
         /\ \A i \in 1..Len(ordered) : ordered'[i] = ordered[i]
         /\ Len(queue') = Len(queue) + 1 /\ queue'[Len(queue) + 1] = n
         /\ \A i \in 1..Len(queue) : queue'[i] = queue[i]
         /\ Popped' = Popped
<1>1. /\ depth' = [m \in Discovered \cup {n} |-> IF m = n THEN d ELSE depth[m]]
      /\ ordered' = Append(ordered, n) /\ queue' = Append(queue, n)
  BY DEF Discover
<1>2. Discovered' = Discovered \cup {n}
  BY <1>1 DEF Discovered
<1>3. depth' \in [Discovered' -> 0..Hops] /\ depth'[n] = d /\ \A m \in Discovered : depth'[m] = depth[m]
  BY <1>1, <1>2 DEF Typ
<1>4. /\ ordered' \in Seq(Nodes) /\ Len(ordered) \in Nat
      /\ Len(ordered') = Len(ordered) + 1 /\ ordered'[Len(ordered) + 1] = n
      /\ \A i \in 1..Len(ordered) : ordered'[i] = ordered[i]
  BY <1>1 DEF Typ
<1>5. /\ queue' \in Seq(Nodes) /\ Len(queue) \in Nat
      /\ Len(queue') = Len(queue) + 1 /\ queue'[Len(queue) + 1] = n
      /\ \A i \in 1..Len(queue) : queue'[i] = queue[i]
  BY <1>1 DEF Typ
<1>6. Popped' = Popped
  BY <1>4, <1>5 DEF Popped
<1> QED BY <1>2, <1>3, <1>4, <1>5, <1>6

LEMMA DiscoveryListed ==
  ASSUME Typ, Listing, Layers, NEW n \in Nodes, n \notin Discovered, NEW d \in 0..Hops, Discover(n, d),
         UNCHANGED <<graph, limits, starts, current>>,
         \A i \in 1..Len(ordered) : depth[ordered[i]] <= d,
         d > 0 => \E j \in 1..Popped : d = depth[ordered[j]] + 1
  PROVE  Listing' /\ Layers'
<1> DEFINE L == Len(ordered)
           Q == Len(queue)
<1>1. /\ Discovered' = Discovered \cup {n}
      /\ depth'[n] = d /\ \A m \in Discovered : depth'[m] = depth[m]
      /\ L \in Nat /\ Q \in Nat
      /\ Len(ordered') = L + 1 /\ ordered'[L + 1] = n
      /\ \A i \in 1..L : ordered'[i] = ordered[i]
      /\ Len(queue') = Q + 1 /\ queue'[Q + 1] = n
      /\ \A i \in 1..Q : queue'[i] = queue[i]
      /\ Popped' = Popped
  BY Discovery
<1>2. \A i \in 1..L : ordered[i] \in Discovered
  BY DEF Listing
<1>3. Popped = L - Q /\ Q <= L
  BY DEF Popped, Listing
<1>4. Hops' = Hops /\ Popped \in Nat
  BY <1>1, <1>3, CallKept
<1> HIDE DEF L, Q
<1>5. 1..(L + 1) = (1..L) \cup {L + 1} /\ 1..(Q + 1) = (1..Q) \cup {Q + 1}
  BY <1>1
<1>6. \A i \in 1..Len(ordered') : ordered'[i] \in Discovered'
  BY <1>1, <1>2, <1>5
<1>7. \A i, j \in 1..Len(ordered') : ordered'[i] = ordered'[j] => i = j
  BY <1>1, <1>2, <1>5 DEF Listing, L
<1>8. \A m \in Discovered' : \E i \in 1..Len(ordered') : ordered'[i] = m
  <2>1. ASSUME NEW m \in Discovered PROVE \E i \in 1..Len(ordered') : ordered'[i] = m
    <3>1. PICK i \in 1..L : ordered[i] = m
      BY DEF Listing, L
    <3> QED BY <1>1, <1>5, <3>1
  <2>2. L + 1 \in 1..Len(ordered') /\ ordered'[L + 1] = n
    BY <1>1
  <2> QED BY <1>1, <2>1, <2>2
<1>9. Len(queue') <= Len(ordered') /\ \A i \in 1..Len(queue') : queue'[i] = ordered'[Popped' + i]
  <2>1. \A i \in 1..Q : queue[i] = ordered[Popped + i]
    BY DEF Listing, Q
  <2>2. \A i \in 1..Q : Popped + i \in 1..L
    BY <1>1, <1>3
  <2>3. \A i \in 1..Q : queue'[i] = ordered'[Popped' + i]
    BY <1>1, <2>1, <2>2
  <2>4. Popped' + (Q + 1) = L + 1
    BY <1>1, <1>3
  <2> QED BY <1>1, <1>3, <1>5, <2>3, <2>4
<1>10. ASSUME current' # None
       PROVE  Popped' > 0 /\ current' = ordered'[Popped'] /\ depth'[current'] < Hops'
  <2>1. Popped > 0 /\ current = ordered[Popped] /\ depth[current] < Hops
    BY <1>10 DEF Listing
  <2>2. Popped \in 1..L
    BY <1>1, <1>3, <1>4, <2>1
  <2>3. current \in Discovered
    BY <1>2, <2>1, <2>2
  <2>4. current' = current
    OBVIOUS
  <2>5. depth'[current] = depth[current] /\ ordered'[Popped'] = current
    BY <1>1, <2>1, <2>2, <2>3
  <2> QED BY <1>1, <1>4, <2>1, <2>4, <2>5
<1>11. Listing'
  BY <1>6, <1>7, <1>8, <1>9, <1>10 DEF Listing
<1>12. \A i \in 1..L : depth'[ordered'[i]] = depth[ordered[i]]
  BY <1>1, <1>2
<1>13. depth'[ordered'[L + 1]] = d
  BY <1>1
<1>14. ASSUME NEW i \in 1..Len(ordered'), NEW j \in 1..Len(ordered'), i < j
       PROVE  depth'[ordered'[i]] <= depth'[ordered'[j]]
  <2>1. i \in 1..L
    BY <1>1, <1>14
  <2>2. CASE j \in 1..L
    BY <1>12, <1>14, <2>1, <2>2 DEF Layers, L
  <2>3. CASE j = L + 1
    BY <1>12, <1>13, <2>1, <2>3 DEF L
  <2> QED BY <1>1, <1>5, <2>2, <2>3
<1>15. ASSUME NEW i \in 1..Len(ordered'), depth'[ordered'[i]] > 0
       PROVE  \E j \in 1..Popped' : depth'[ordered'[i]] = depth'[ordered'[j]] + 1
  <2>1. \A j \in 1..Popped : j \in 1..L
    BY <1>1, <1>3
  <2>2. \E j \in 1..Popped : depth'[ordered'[i]] = depth[ordered[j]] + 1
    <3>1. CASE i \in 1..L
      BY <1>12, <1>15, <3>1 DEF Layers, L
    <3>2. CASE i = L + 1
      BY <1>13, <1>15, <3>2
    <3> QED BY <1>1, <1>5, <3>1, <3>2
  <2> QED BY <1>1, <1>12, <2>1, <2>2
<1> QED BY <1>11, <1>14, <1>15 DEF Layers

LEMMA DiscoveryDistances ==
  ASSUME Typ, Listing, Distances, NEW n \in Nodes, n \notin Discovered, NEW d \in 0..Hops, Discover(n, d),
         UNCHANGED <<graph, limits, starts>>,
         n \in Ball[d], \A h \in 0..(d - 1) : n \notin Ball[h],
         d > 0 => Ball[d - 1] \subseteq Discovered
  PROVE  Distances'
<1>1. /\ Discovered' = Discovered \cup {n}
      /\ depth'[n] = d /\ \A m \in Discovered : depth'[m] = depth[m]
  BY Discovery
<1>2. Ball' = Ball
  BY CallKept
<1> SUFFICES ASSUME NEW m \in Discovered'
             PROVE  /\ m \in Ball[depth'[m]] /\ \A h \in 0..(depth'[m] - 1) : m \notin Ball[h]
                    /\ depth'[m] > 0 => Ball[depth'[m] - 1] \subseteq Discovered'
  BY <1>2 DEF Distances
<1>3. CASE m = n
  BY <1>1, <1>3
<1>4. CASE m # n
  BY <1>1, <1>4 DEF Distances
<1> QED BY <1>3, <1>4

-----------------------------------------------------------------------------
(* The steps.                                                                *)

LEMMA SeedInv == Inv /\ Seed => Inv'
<1> SUFFICES ASSUME Inv, Seed PROVE Inv'
  OBVIOUS
<1> USE DEF Inv
<1>1. /\ seeded < Len(starts) /\ seeded' = seeded + 1
      /\ UNCHANGED <<graph, limits, starts, current, rest, followed, truncated>>
  BY DEF Seed
<1>2. current = None /\ Popped = 0 /\ ~ truncated /\ \A n \in Discovered : depth[n] = 0
  BY <1>1 DEF Seeding
<1>3. Nodes' = Nodes /\ Hops' = Hops /\ MaxNodes' = MaxNodes /\ Ball' = Ball
  BY <1>1, CallKept
<1>4. seeded' \in 0..Len(starts) /\ Hops \in Nat /\ 0 \in 0..Hops /\ graph \in Graphs /\ limits \in Limits
  BY <1>1, HopsType DEF Typ
<1>5. Complete'
  <2>1. Popped' = 0
    <3>1. CASE UNCHANGED <<depth, ordered, queue>>
      BY <1>2, <3>1 DEF Popped
    <3>2. CASE starts[seeded'] \in Nodes \ Discovered /\ Discover(starts[seeded'], 0)
      BY <1>2, <1>4, <3>2, Discovery
    <3> QED BY <3>1, <3>2 DEF Seed, Nodes
  <2> QED BY <2>1 DEF Complete
<1>6. CASE starts[seeded'] \in Nodes \ Discovered /\ Discover(starts[seeded'], 0)
  <2>1. PICK n \in Nodes : n = starts[seeded'] /\ n \notin Discovered /\ Discover(n, 0)
    BY <1>6
  <2>2. /\ Discovered' = Discovered \cup {n} /\ depth' \in [Discovered' -> 0..Hops]
        /\ depth'[n] = 0 /\ \A m \in Discovered : depth'[m] = depth[m]
        /\ ordered' \in Seq(Nodes) /\ queue' \in Seq(Nodes) /\ Popped' = Popped
    BY <1>4, <2>1, Discovery
  <2>3. Typ'
    BY <1>1, <1>2, <1>3, <1>4, <2>1, <2>2 DEF Typ
  <2>4. Listing' /\ Layers'
    <3>1. \A i \in 1..Len(ordered) : depth[ordered[i]] <= 0
      BY <1>2 DEF Listing
    <3> QED BY <1>1, <1>4, <2>1, <3>1, DiscoveryListed
  <2>5. Seeding'
    <3>1. \A i \in 1..seeded' : i \in 1..seeded \/ i = seeded'
      BY <1>1, <1>4 DEF Typ
    <3>2. \A i \in 1..seeded' : starts[i] \in Nodes => starts[i] \in Discovered'
      BY <2>1, <2>2, <3>1 DEF Seeding
    <3> QED BY <1>1, <1>2, <1>3, <2>2, <3>2 DEF Seeding
  <2>6. Distances'
    <3>1. starts \in Seq(Range(starts)) /\ seeded' \in 1..Len(starts) /\ DOMAIN starts = 1..Len(starts)
      BY <1>1, <1>4, TraversalAssumption DEF Typ
    <3>2. n \in Seeds
      BY <2>1, <3>1 DEF Seeds, Nodes
    <3>3. n \in Ball[0]
      BY <1>4, <3>2, BallFacts
    <3> QED BY <1>1, <1>4, <2>1, <3>3, DiscoveryDistances
  <2>7. Budget'
    <3>1. \A m \in Discovered' : depth'[m] = 0
      BY <1>2, <2>2
    <3>2. IsFiniteSet(Discovered')
      BY <2>2, FS_AddElement DEF Budget
    <3> QED BY <1>1, <1>2, <3>1, <3>2 DEF Budget
  <2> QED BY <1>5, <2>3, <2>4, <2>5, <2>6, <2>7
<1>7. CASE starts[seeded'] \notin Nodes \ Discovered /\ UNCHANGED <<depth, ordered, queue>>
  <2>1. Discovered' = Discovered /\ Popped' = Popped
    BY <1>7 DEF Discovered, Popped
  <2>2. Typ'
    BY <1>1, <1>2, <1>3, <1>4, <1>7, <2>1 DEF Typ
  <2>3. Listing' /\ Layers'
    BY <1>1, <1>2, <1>3, <1>7, <2>1 DEF Listing, Layers
  <2>4. Seeding'
    <3>1. \A i \in 1..seeded' : i \in 1..seeded \/ i = seeded'
      BY <1>1, <1>4 DEF Typ
    <3>2. \A i \in 1..seeded' : starts[i] \in Nodes => starts[i] \in Discovered'
      BY <1>7, <2>1, <3>1 DEF Seeding
    <3> QED BY <1>1, <1>2, <1>3, <1>7, <2>1, <3>2 DEF Seeding
  <2>5. Distances' /\ Budget'
    BY <1>1, <1>2, <1>3, <1>7, <2>1 DEF Distances, Budget, Full
  <2> QED BY <1>5, <2>2, <2>3, <2>4, <2>5
<1> QED BY <1>6, <1>7 DEF Seed, Nodes

\* Taking a node out of the queue moves the boundary in the list by one.
LEMMA PopInv == Inv /\ Pop => Inv'
<1> SUFFICES ASSUME Inv, Pop PROVE Inv'
  OBVIOUS
<1> USE DEF Inv
<1> DEFINE L == Len(ordered)
           Q == Len(queue)
           n == Head(queue)
<1>1. /\ seeded = Len(starts) /\ current = None /\ queue # <<>> /\ queue' = Tail(queue)
      /\ UNCHANGED <<graph, limits, starts, seeded, depth, ordered, followed, truncated>>
  BY DEF Pop, Left
<1>2. Nodes' = Nodes /\ Hops' = Hops /\ MaxNodes' = MaxNodes /\ Ball' = Ball /\ Discovered' = Discovered
  BY <1>1, CallKept DEF Discovered
<1>3. L \in Nat /\ Q \in Nat /\ Q > 0 /\ Q <= L /\ Popped = L - Q
  BY <1>1 DEF Typ, Listing, Popped
<1>4. queue' \in Seq(Nodes) /\ Len(queue') = Q - 1 /\ \A i \in 1..(Q - 1) : queue'[i] = queue[i + 1]
  BY <1>1 DEF Typ
<1>5. n = queue[1]
  BY <1>1 DEF Typ
<1>6. Popped' = Popped + 1 /\ Popped \in Nat /\ Popped + 1 \in 1..L
  BY <1>1, <1>3, <1>4 DEF Popped
<1>7. n = ordered[Popped + 1] /\ n \in Discovered /\ n \in Nodes
  <2>1. n = ordered[Popped + 1]
    BY <1>3, <1>5 DEF Listing
  <2>2. ordered[Popped + 1] \in Discovered /\ Discovered \subseteq Nodes
    BY <1>6 DEF Listing, Typ
  <2> QED BY <2>1, <2>2
<1>8. graph \in Graphs /\ limits \in Limits /\ Hops \in Nat
  BY HopsType DEF Typ
<1>9. IF depth[n] < Hops THEN current' = n /\ rest' = graph[n] ELSE UNCHANGED <<current, rest>>
  BY DEF Pop, WithinHops
<1>10. current' # None => current' = n /\ depth[n] < Hops /\ rest' = graph[n]
  BY <1>1, <1>9
<1> HIDE DEF n
<1>11. current' # None => Looked' = 0
  <2> SUFFICES ASSUME current' # None PROVE Len(graph'[current']) - Len(rest') = 0
    BY DEF Looked
  <2>1. Len(graph[n]) \in Nat
    BY <1>7, <1>8, GraphFacts
  <2> QED BY <1>1, <1>10, <2>1
<1>12. Typ'
  <2>1. ASSUME current' # None
        PROVE  /\ rest' \in Seq(Range(graph[current'])) /\ Len(rest') <= Len(graph[current'])
               /\ \A k \in 1..Len(rest') : rest'[k] = graph[current'][Looked' + k]
    <3>1. current' = n /\ rest' = graph[n] /\ Looked' = 0
      BY <1>10, <1>11, <2>1
    <3>2. graph[n] \in Seq(Range(graph[n])) /\ Len(graph[n]) \in Nat
      BY <1>7, <1>8, GraphFacts
    <3> QED BY <3>1, <3>2
  <2> QED BY <1>1, <1>2, <1>4, <2>1 DEF Typ
<1>13. Listing'
  <2>1. Len(queue') <= Len(ordered)
    BY <1>3, <1>4
  <2>2. ASSUME NEW i \in 1..Len(queue') PROVE queue'[i] = ordered[Popped' + i]
    <3>1. i + 1 \in 1..Q /\ i \in 1..(Q - 1) /\ Popped' + i = Popped + (i + 1)
      BY <1>3, <1>4, <1>6, <2>2
    <3> QED BY <1>4, <3>1 DEF Listing
  <2>3. current' # None => Popped' > 0 /\ current' = ordered[Popped'] /\ depth[current'] < Hops
    BY <1>6, <1>7, <1>10
  <2> QED BY <1>1, <1>2, <2>1, <2>2, <2>3 DEF Listing
<1>14. Layers'
  <2>1. \A j \in 1..Popped : j \in 1..Popped'
    BY <1>6
  <2> QED BY <1>1, <2>1 DEF Layers
<1>15. Seeding' /\ Distances' /\ Budget'
  <2>1. ~ (seeded < Len(starts))
    BY <1>1 DEF Typ
  <2> QED BY <1>1, <1>2, <2>1 DEF Seeding, Distances, Budget, Full
<1>16. Complete'
  <2> SUFFICES ASSUME ~ truncated, NEW i \in 1..Popped', depth[ordered[i]] < Hops, NEW k \in DOMAIN graph[ordered[i]]
               PROVE  graph[ordered[i]][k][2] \in Discovered \/ Waiting(i, k)'
    BY <1>1, <1>2 DEF Complete
  <2>1. CASE i \in 1..Popped
    BY <1>1, <2>1 DEF Complete, Waiting
  <2>2. CASE i = Popped + 1
    <3>1. ordered[i] = n /\ current' = n /\ Looked' = 0
      BY <1>7, <1>8, <1>9, <1>11, <2>2, GraphFacts
    <3>2. n # None /\ k \in 1..Len(graph[n]) /\ Len(graph[n]) \in Nat
      BY <1>7, <1>8, <3>1, GraphFacts
    <3>3. k > 0
      BY <3>2
    <3> QED BY <1>6, <2>2, <3>1, <3>2, <3>3 DEF Waiting
  <2> QED BY <1>6, <2>1, <2>2
<1> QED BY <1>12, <1>13, <1>14, <1>15, <1>16

LEMMA ExpandedInv == Inv /\ Expanded => Inv'
<1> SUFFICES ASSUME Inv, Expanded PROVE Inv'
  OBVIOUS
<1> USE DEF Inv
<1>1. /\ current # None /\ rest = <<>> /\ current' = None
      /\ UNCHANGED <<graph, limits, starts, seeded, depth, ordered, queue, rest, followed, truncated>>
  BY DEF Expanded
<1>2. Nodes' = Nodes /\ Hops' = Hops /\ MaxNodes' = MaxNodes /\ Ball' = Ball /\ Discovered' = Discovered
      /\ Popped' = Popped
  BY <1>1, CallKept DEF Discovered, Popped
<1>3. Typ' /\ Listing' /\ Layers' /\ Seeding' /\ Distances' /\ Budget'
  BY <1>1, <1>2 DEF Typ, Listing, Layers, Seeding, Distances, Budget, Full
<1>4. Complete'
  <2> SUFFICES ASSUME ~ truncated, NEW i \in 1..Popped, depth[ordered[i]] < Hops, NEW k \in DOMAIN graph[ordered[i]]
               PROVE  graph[ordered[i]][k][2] \in Discovered
    BY <1>1, <1>2 DEF Complete
  <2>1. graph[ordered[i]][k][2] \in Discovered \/ Waiting(i, k)
    BY DEF Complete
  <2>2. CASE Waiting(i, k)
    <3>1. ordered[i] = current /\ k > Looked
      BY <2>2 DEF Waiting, Listing
    <3>2. current \in Nodes
      <4>1. Popped > 0 /\ current = ordered[Popped] /\ Popped <= Len(ordered) /\ Popped \in Int
        BY <1>1 DEF Listing, Popped, Typ
      <4>2. Len(ordered) \in Nat
        BY DEF Typ
      <4> QED BY <4>1, <4>2 DEF Typ
    <3>3. Len(graph[current]) \in Nat /\ k \in 1..Len(graph[current])
      BY <3>1, <3>2, GraphFacts DEF Typ
    <3>4. Looked = Len(graph[current])
      BY <1>1, <3>3 DEF Looked
    <3> QED BY <3>1, <3>3, <3>4
  <2> QED BY <2>1, <2>2
<1> QED BY <1>3, <1>4

\* While a node is expanded, everything as near as it is discovered already,
\* unless the budget has bound.
LEMMA NearerFound ==
  ASSUME Inv, current # None, ~ truncated
  PROVE  /\ current \in Discovered /\ current \in Nodes /\ depth[current] \in 0..(Hops - 1)
         /\ Ball[depth[current]] \subseteq Discovered
<1> USE DEF Inv
<1>1. Len(ordered) \in Nat /\ Len(queue) \in Nat /\ Hops \in Nat
  BY HopsType DEF Typ
<1>2. Popped \in 1..Len(ordered) /\ current = ordered[Popped] /\ depth[current] < Hops
  BY <1>1 DEF Listing, Popped
<1>3. current \in Discovered /\ current \in Nodes /\ depth[current] \in Nat
  BY <1>1, <1>2 DEF Listing, Typ
<1>4. depth[current] \in 0..(Hops - 1) /\ depth[current] \in 0..Hops
  BY <1>1, <1>2, <1>3
<1>5. seeded = Len(starts)
  <2>1. seeded <= Len(starts) /\ seeded \in Nat /\ Len(starts) \in Nat /\ ~ (seeded < Len(starts))
    <3>1. starts \in Seq(Range(starts))
      BY TraversalAssumption DEF Typ
    <3> QED BY <3>1 DEF Seeding, Typ
  <2> QED BY <2>1
<1>6. ASSUME NEW m \in Discovered, depth[m] < depth[current], NEW l \in DOMAIN graph[m]
      PROVE  graph[m][l][2] \in Discovered
  <2>1. PICK i \in 1..Len(ordered) : ordered[i] = m
    BY DEF Listing
  <2>2. depth[m] \in Nat
    BY <1>1 DEF Typ
  <2>3. i < Popped
    <3> SUFFICES ASSUME i >= Popped PROVE FALSE
      BY <1>1, <1>2
    <3>1. CASE i = Popped
      BY <1>2, <1>3, <1>6, <2>1, <2>2, <3>1
    <3>2. CASE i > Popped
      <4>1. depth[ordered[Popped]] <= depth[ordered[i]]
        BY <1>2, <3>2 DEF Layers
      <4> QED BY <1>2, <1>3, <1>6, <2>1, <2>2, <4>1
    <3> QED BY <1>1, <1>2, <3>1, <3>2
  <2>4. depth[ordered[i]] < Hops /\ i \in 1..Popped /\ i # Popped
    BY <1>1, <1>2, <1>3, <1>6, <2>1, <2>2, <2>3
  <2> QED BY <2>1, <2>4 DEF Complete, Waiting
<1>7. Ball[depth[current]] \subseteq Discovered
  BY <1>4, <1>5, <1>6, Closed
<1> QED BY <1>3, <1>4, <1>7

\* A neighbour of the node that is expanded.
LEMMA NeighbourFacts ==
  ASSUME Inv, current # None, rest # <<>>
  PROVE  /\ current \in Discovered /\ current \in Nodes
         /\ depth[current] \in 0..(Hops - 1) /\ Hops \in Nat
         /\ Looked + 1 \in DOMAIN graph[current] /\ Looked \in Nat
         /\ Head(rest) = graph[current][Looked + 1] /\ Head(rest)[2] \in Nodes
         /\ Head(rest)[2] \in Ball[depth[current] + 1]
<1> USE DEF Inv
<1>1. Len(ordered) \in Nat /\ Len(queue) \in Nat /\ Hops \in Nat /\ graph \in Graphs /\ limits \in Limits
  BY HopsType DEF Typ
<1>2. Popped \in 1..Len(ordered) /\ current = ordered[Popped] /\ depth[current] < Hops
  BY <1>1 DEF Listing, Popped
<1>3. current \in Discovered /\ current \in Nodes /\ depth[current] \in Nat
  BY <1>1, <1>2 DEF Listing, Typ
<1>4. Len(graph[current]) \in Nat /\ DOMAIN graph[current] = 1..Len(graph[current])
  BY <1>1, <1>3, GraphFacts
<1>5. Len(rest) \in Nat /\ Len(rest) > 0 /\ Len(rest) <= Len(graph[current]) /\ Head(rest) = rest[1]
  BY DEF Typ
<1>6. Looked + 1 \in 1..Len(graph[current]) /\ Looked \in Nat
  BY <1>4, <1>5 DEF Looked
<1>7. Head(rest) = graph[current][Looked + 1]
  BY <1>5 DEF Typ
<1>8. depth[current] \in 0..(Hops - 1)
  BY <1>1, <1>2, <1>3
<1>9. current \in Ball[depth[current]]
  BY <1>3 DEF Distances
<1>10. graph[current][Looked + 1][2] \in Ball[depth[current] + 1]
  BY <1>1, <1>4, <1>6, <1>8, <1>9, BallFacts
<1>11. graph[current][Looked + 1][2] \in Nodes
  BY <1>1, <1>3, <1>4, <1>6, GraphFacts
<1> QED BY <1>1, <1>3, <1>4, <1>6, <1>7, <1>8, <1>10, <1>11

LEMMA FollowInv == Inv /\ Follow => Inv'
<1> SUFFICES ASSUME Inv, Follow PROVE Inv'
  OBVIOUS
<1> USE DEF Inv
<1> DEFINE n == Head(rest)[2]
           d == depth[current] + 1
<1>1. /\ current # None /\ rest # <<>> /\ rest' = Tail(rest)
      /\ UNCHANGED <<graph, limits, starts, seeded, current>>
  BY DEF Follow
<1>2. Nodes' = Nodes /\ Hops' = Hops /\ MaxNodes' = MaxNodes /\ Ball' = Ball
  BY <1>1, CallKept
<1>3. /\ current \in Discovered /\ current \in Nodes
      /\ depth[current] \in 0..(Hops - 1) /\ Hops \in Nat
      /\ Looked + 1 \in DOMAIN graph[current] /\ Looked \in Nat
      /\ Head(rest) = graph[current][Looked + 1] /\ n \in Nodes /\ n \in Ball[d]
  BY <1>1, NeighbourFacts
<1>4. \/ n \in Discovered /\ UNCHANGED <<depth, ordered, queue, truncated>>
      \/ n \notin Discovered /\ Full /\ truncated' = TRUE /\ UNCHANGED <<depth, ordered, queue>>
      \/ n \notin Discovered /\ ~ Full /\ Discover(n, d) /\ UNCHANGED truncated
  BY DEF Follow, NextDepth
<1>5. graph \in Graphs /\ limits \in Limits
  BY DEF Typ
<1>6. Len(graph[current]) \in Nat /\ DOMAIN graph[current] = 1..Len(graph[current])
  BY <1>3, <1>5, GraphFacts
<1> DEFINE C == graph[current]
<1>7. /\ rest' \in Seq(Range(C)) /\ Len(rest') <= Len(C) /\ Looked' = Looked + 1
      /\ \A k \in 1..Len(rest') : rest'[k] = C[Looked' + k]
  <2>1. /\ rest \in Seq(Range(C)) /\ Len(rest) <= Len(C) /\ Looked = Len(C) - Len(rest)
        /\ \A k \in 1..Len(rest) : rest[k] = C[Looked + k]
    BY <1>1 DEF Typ, Looked
  <2> HIDE DEF C
  <2>2. /\ Len(rest) \in Nat /\ Len(rest) > 0 /\ rest' \in Seq(Range(C)) /\ Len(rest') = Len(rest) - 1
        /\ \A k \in 1..(Len(rest) - 1) : rest'[k] = rest[k + 1]
    BY <1>1, <2>1
  <2>3. Looked' = Len(C) - Len(rest')
    BY <1>1 DEF Looked, C
  <2>4. Looked' = Looked + 1 /\ Len(rest') <= Len(C)
    BY <1>6, <2>1, <2>2, <2>3 DEF C
  <2>5. ASSUME NEW k \in 1..Len(rest') PROVE rest'[k] = C[Looked' + k]
    <3>1. k + 1 \in 1..Len(rest) /\ k \in 1..(Len(rest) - 1) /\ Looked' + k = Looked + (k + 1)
      BY <1>3, <2>2, <2>4
    <3> QED BY <2>1, <2>2, <3>1
  <2> QED BY <2>2, <2>4, <2>5
<1> HIDE DEF C
<1>8. n = C[Looked + 1][2]
  BY <1>3 DEF C
\* A neighbour that was waiting and waits no more has been discovered.
<1>9. ASSUME ~ truncated, Discovered \subseteq Discovered', n \in Discovered', Popped' = Popped,
             UNCHANGED ordered \/ Discover(n, d), \A m \in Discovered : depth'[m] = depth[m],
             \A i \in 1..Popped : ordered[i] \in Discovered /\ ordered'[i] = ordered[i]
      PROVE  Complete'
  <2> SUFFICES ASSUME NEW i \in 1..Popped, depth'[ordered'[i]] < Hops, NEW k \in DOMAIN graph[ordered'[i]]
               PROVE  graph[ordered'[i]][k][2] \in Discovered' \/ Waiting(i, k)'
    BY <1>1, <1>2, <1>9 DEF Complete
  <2>1. ordered'[i] = ordered[i] /\ depth[ordered[i]] < Hops /\ k \in DOMAIN graph[ordered[i]]
    BY <1>9
  <2>2. graph[ordered[i]][k][2] \in Discovered \/ Waiting(i, k)
    BY <1>9, <2>1 DEF Complete
  <2>3. CASE Waiting(i, k)
    <3>1. i = Popped /\ k > Looked /\ ordered[i] = current /\ k \in 1..Len(C)
      BY <1>6, <2>1, <2>3 DEF Waiting, Listing, C
    <3>2. CASE k = Looked + 1
      BY <1>8, <1>9, <2>1, <3>1, <3>2 DEF C
    <3>3. CASE k # Looked + 1
      <4>1. k > Looked'
        BY <1>3, <1>7, <3>1, <3>3
      <4> QED BY <1>1, <1>9, <3>1, <4>1 DEF Waiting
    <3> QED BY <3>2, <3>3
  <2> QED BY <1>9, <2>1, <2>2, <2>3
<1>10. Len(ordered) \in Nat /\ Len(queue) \in Nat /\ Popped \in 1..Len(ordered) /\ current = ordered[Popped]
  BY <1>1 DEF Typ, Listing, Popped
<1>11. \A i \in 1..Popped : i \in 1..Len(ordered) /\ ordered[i] \in Discovered
  BY <1>10 DEF Listing
<1>12. CASE UNCHANGED <<depth, ordered, queue>>
  <2>1. Discovered' = Discovered /\ Popped' = Popped
    BY <1>12 DEF Discovered, Popped
  <2>2. truncated' \in BOOLEAN
    BY <1>4 DEF Typ, Discover
  <2>3. Typ'
    BY <1>1, <1>2, <1>7, <1>12, <2>1, <2>2 DEF Typ, C
  <2>4. Listing' /\ Layers' /\ Distances'
    BY <1>1, <1>2, <1>12, <2>1 DEF Listing, Layers, Distances
  <2>5. Seeding'
    BY <1>1, <1>2, <1>12, <2>1 DEF Seeding
  <2>6. CASE UNCHANGED truncated
    <3>1. n \in Discovered \/ truncated
      <4>1. CASE n \notin Discovered /\ Discover(n, d)
        <5>1. Discovered' = Discovered \cup {n}
          BY <4>1 DEF Discover, Discovered
        <5> QED BY <2>1, <4>1, <5>1
      <4> QED BY <1>4, <2>6, <4>1
    <3>2. Complete'
      <4>1. CASE truncated
        BY <2>6, <4>1 DEF Complete
      <4>2. CASE ~ truncated
        BY <1>9, <1>11, <1>12, <2>1, <3>1, <4>2
      <4> QED BY <4>1, <4>2
    <3>3. Budget'
      BY <1>1, <1>2, <1>12, <2>1, <2>6 DEF Budget, Full
    <3> QED BY <2>3, <2>4, <2>5, <3>2, <3>3
  <2>7. CASE n \notin Discovered /\ Full /\ truncated' = TRUE
    <3>1. d \in 0..Hops
      BY <1>3
    <3>2. n \in Ball[Hops]
      <4>1. Ball[d] \subseteq Ball[Hops]
        BY <1>3, <1>5, <3>1, BallMono
      <4> QED BY <1>3, <4>1
    <3>3. Budget'
      BY <1>1, <1>2, <1>12, <2>1, <2>7, <3>2 DEF Budget, Full
    <3>4. Complete'
      BY <2>7 DEF Complete
    <3> QED BY <2>3, <2>4, <2>5, <3>3, <3>4
  <2> QED BY <1>4, <2>6, <2>7
<1>13. CASE n \notin Discovered /\ ~ Full /\ Discover(n, d) /\ UNCHANGED truncated
  <2>1. ~ truncated
    BY <1>13 DEF Budget
  <2>2. d \in 0..Hops /\ d > 0 /\ d - 1 = depth[current]
    BY <1>3
  <2>3. Ball[d - 1] \subseteq Discovered
    BY <1>1, <2>1, <2>2, NearerFound
  <2>4. PICK m \in Nodes : m = n
    BY <1>3
  <2>5. PICK e \in 0..Hops : e = d
    BY <2>2
  <2>6. Discover(m, e) /\ m \notin Discovered
    BY <1>13, <2>4, <2>5
  <2>7. /\ Discovered' = Discovered \cup {m} /\ depth' \in [Discovered' -> 0..Hops]
        /\ depth'[m] = e /\ \A x \in Discovered : depth'[x] = depth[x]
        /\ ordered' \in Seq(Nodes) /\ queue' \in Seq(Nodes)
        /\ \A i \in 1..Len(ordered) : ordered'[i] = ordered[i]
        /\ Popped' = Popped
    BY <2>6, Discovery
  <2>8. Typ'
    BY <1>1, <1>2, <1>7, <1>13, <2>7 DEF Typ, C
  <2>9. \A i \in 1..Len(ordered) : depth[ordered[i]] <= e
    <3> SUFFICES ASSUME NEW i \in 1..Len(ordered) PROVE depth[ordered[i]] <= e
      OBVIOUS
    <3>1. depth[ordered[i]] \in Nat /\ \A j \in 1..Popped : depth[ordered[j]] \in Nat
      BY <1>3, <1>11 DEF Listing, Typ
    <3>2. \A j \in 1..Popped : depth[ordered[j]] <= depth[current]
      <4> SUFFICES ASSUME NEW j \in 1..Popped PROVE depth[ordered[j]] <= depth[current]
        OBVIOUS
      <4>1. CASE j = Popped
        BY <1>10, <3>1, <4>1
      <4>2. CASE j # Popped
        BY <1>10, <1>11, <4>2 DEF Layers
      <4> QED BY <4>1, <4>2
    <3>3. CASE depth[ordered[i]] = 0
      BY <2>5, <3>3
    <3>4. CASE depth[ordered[i]] > 0
      <4>1. PICK j \in 1..Popped : depth[ordered[i]] = depth[ordered[j]] + 1
        BY <3>4 DEF Layers
      <4>2. depth[ordered[j]] \in Nat /\ depth[ordered[j]] <= depth[current]
        BY <3>1, <3>2
      <4>3. e = depth[current] + 1 /\ depth[current] \in Nat
        BY <1>3, <2>5
      <4> HIDE DEF d
      <4> QED BY <3>1, <4>1, <4>2, <4>3
    <3> QED BY <3>1, <3>3, <3>4
  <2>10. \E j \in 1..Popped : e = depth[ordered[j]] + 1
    BY <1>10, <2>5
  <2>11. Listing' /\ Layers'
    BY <1>1, <2>6, <2>9, <2>10, DiscoveryListed
  <2>12. Seeding'
    BY <1>1, <1>2, <2>1, <2>7 DEF Seeding
  <2>13. Distances'
    <3>1. m \in Ball[e] /\ (e > 0 => Ball[e - 1] \subseteq Discovered)
      BY <1>3, <2>3, <2>4, <2>5
    <3>2. \A h \in 0..(e - 1) : m \notin Ball[h]
      <4> SUFFICES ASSUME NEW h \in 0..(e - 1) PROVE Ball[h] \subseteq Discovered
        BY <2>6
      <4>1. h \in 0..Hops /\ e - 1 \in 0..Hops /\ h <= e - 1
        BY <1>3, <2>2, <2>5
      <4>2. Ball[h] \subseteq Ball[e - 1]
        BY <1>5, <4>1, BallMono
      <4> QED BY <2>3, <2>5, <4>2
    <3> QED BY <1>1, <2>6, <3>1, <3>2, DiscoveryDistances
  <2>14. Budget'
    <3>1. IsFiniteSet(Discovered) /\ Cardinality(Discovered) < MaxNodes /\ MaxNodes \in Nat
          /\ Cardinality(Discovered) \in Nat
      BY <1>5, <1>13, HopsType, FS_CardinalityType DEF Budget, Full
    <3>2. IsFiniteSet(Discovered') /\ Cardinality(Discovered') = Cardinality(Discovered) + 1
      BY <2>6, <2>7, <3>1, FS_AddElement
    <3> QED BY <1>2, <1>13, <2>1, <3>1, <3>2 DEF Budget
  <2>15. Complete'
    BY <1>9, <1>11, <1>13, <2>1, <2>4, <2>7
  <2> QED BY <2>8, <2>11, <2>12, <2>13, <2>14, <2>15
<1> QED BY <1>4, <1>12, <1>13

LEMMA NextInv == Inv /\ [Next]_vars => Inv'
<1>1. Inv /\ UNCHANGED vars => Inv'
  <2> SUFFICES ASSUME Inv, UNCHANGED vars PROVE Inv'
    OBVIOUS
  <2>1. /\ UNCHANGED <<graph, limits, starts, seeded, depth, ordered, queue, current, rest, truncated>>
        /\ Nodes' = Nodes /\ Hops' = Hops /\ MaxNodes' = MaxNodes /\ Ball' = Ball
        /\ Discovered' = Discovered /\ Popped' = Popped /\ Looked' = Looked /\ (Full' <=> Full)
    BY DEF vars, Nodes, Hops, MaxNodes, Ball, Seeds, Discovered, Popped, Looked, Full
  <2>2. (Typ /\ Listing /\ Layers /\ Seeding)'
    BY <2>1 DEF Inv, Typ, Listing, Layers, Seeding
  <2>3. (Distances /\ Budget /\ Complete)'
    BY <2>1 DEF Inv, Distances, Budget, Complete, Waiting
  <2> QED BY <2>2, <2>3 DEF Inv
<1> QED BY <1>1, SeedInv, PopInv, FollowInv, ExpandedInv DEF Next

LEMMA CountUpTo ==
  ASSUME NEW n \in Nat
  PROVE  IsFiniteSet(1..n) /\ Cardinality(1..n) = n
<1>1. IsFiniteSet(1..n) /\ Cardinality(1..n) = IF 1 > n THEN 0 ELSE (n - 1) + 1
  BY FS_Interval
<1> QED BY <1>1

-----------------------------------------------------------------------------
\* At every moment the walk is breadth-first: nearest first, each node once, at
\* its distance from the seeds, whatever the graph, and whether or not the
\* budget has cut the walk short.
THEOREM WalkIsBreadthFirst == Spec => []BreadthFirst
<1>1. Inv => BreadthFirst
  <2> SUFFICES ASSUME Inv PROVE BreadthFirst
    OBVIOUS
  <2> USE DEF Inv
  <2>1. Len(ordered) \in Nat /\ Len(queue) \in Nat /\ DOMAIN ordered = 1..Len(ordered)
        /\ DOMAIN queue = 1..Len(queue) /\ Hops \in Nat
    BY HopsType DEF Typ
  <2>2. Popped \in 0..Len(ordered) /\ Popped = Len(ordered) - Len(queue)
    BY <2>1 DEF Listing, Popped
  <2>3. TypeOK
    <3>1. IsGraph(graph)
      BY TraversalAssumption DEF Typ
    <3>2. \A i \in DOMAIN queue : queue[i] \in Discovered
      <4> SUFFICES ASSUME NEW i \in 1..Len(queue) PROVE queue[i] \in Discovered
        BY <2>1
      <4>1. Popped + i \in 1..Len(ordered)
        BY <2>1, <2>2
      <4> QED BY <4>1 DEF Listing
    <3>3. current \in Discovered \cup {None}
      <4>1. current # None => Popped \in 1..Len(ordered) /\ current = ordered[Popped]
        BY <2>1, <2>2 DEF Listing
      <4> QED BY <4>1 DEF Listing
    <3> QED BY <3>1, <3>2, <3>3 DEF TypeOK, Typ, Nodes
  <2>4. {ordered[i] : i \in DOMAIN ordered} = Discovered
    BY <2>1 DEF Listing
  <2>5. Len(ordered) = Cardinality(Discovered)
    <3>1. ordered \in [1..Len(ordered) -> Discovered]
      <4>1. ordered = [i \in 1..Len(ordered) |-> ordered[i]]
        BY <2>1 DEF Typ
      <4>2. \A i \in 1..Len(ordered) : ordered[i] \in Discovered
        BY DEF Listing
      <4> QED BY <4>1, <4>2
    <3>2. \A i, j \in 1..Len(ordered) : ordered[i] = ordered[j] => i = j
      BY DEF Listing
    <3>3. \A n \in Discovered : \E i \in 1..Len(ordered) : ordered[i] = n
      BY DEF Listing
    <3>4. ordered \in Bijection(1..Len(ordered), Discovered)
      BY <3>1, <3>2, <3>3 DEF Bijection, Injection, Surjection, IsInjective
    <3>5. ExistsBijection(1..Len(ordered), Discovered)
      BY <3>4 DEF ExistsBijection
    <3>6. IsFiniteSet(1..Len(ordered)) /\ Cardinality(1..Len(ordered)) = Len(ordered)
      BY <2>1, CountUpTo
    <3> QED BY <3>5, <3>6, FS_Bijection
  <2>6. queue = SubSeq(ordered, Len(ordered) - Len(queue) + 1, Len(ordered))
    <3> DEFINE q == SubSeq(ordered, Popped + 1, Len(ordered))
    <3>1. q = [i \in 1..Len(queue) |-> ordered[Popped + i]]
      <4>1. q = [i \in 1..((Len(ordered) - (Popped + 1)) + 1) |-> ordered[(i + (Popped + 1)) - 1]]
        BY <2>1, <2>2 DEF Typ
      <4>2. (Len(ordered) - (Popped + 1)) + 1 = Len(queue)
        BY <2>1, <2>2
      <4>3. \A i \in 1..Len(queue) : (i + (Popped + 1)) - 1 = Popped + i
        BY <2>1, <2>2
      <4> QED BY <4>1, <4>2, <4>3
    <3>2. queue = [i \in 1..Len(queue) |-> queue[i]]
      BY <2>1 DEF Typ
    <3>3. \A i \in 1..Len(queue) : queue[i] = ordered[Popped + i]
      BY DEF Listing
    <3> HIDE DEF q
    <3>4. queue = q
      BY <3>1, <3>2, <3>3
    <3> QED BY <2>2, <3>4 DEF q
  <2>7. \A i, j \in DOMAIN ordered : i < j => depth[ordered[i]] <= depth[ordered[j]]
    BY <2>1 DEF Layers
  <2> QED BY <2>3, <2>4, <2>5, <2>6, <2>7 DEF BreadthFirst, Distances
<1> QED BY InitInv, NextInv, <1>1, PTL DEF Spec

-----------------------------------------------------------------------------
(* What a walk that has returned has found.                                  *)

\* Then every node has been taken out of the queue.
LEMMA AllPopped ==
  ASSUME Inv, Returned
  PROVE  /\ Len(ordered) \in Nat /\ Popped = Len(ordered) /\ current = None /\ seeded = Len(starts)
         /\ Hops \in Nat /\ Hops >= 1 /\ graph \in Graphs /\ limits \in Limits
<1>1. Len(ordered) \in Nat /\ Len(queue) = 0 /\ queue = <<>> /\ current = None /\ seeded = Len(starts)
  BY DEF Returned, Inv, Typ
<1>2. Popped = Len(ordered)
  BY <1>1 DEF Popped
<1> QED BY <1>1, <1>2, HopsType DEF Inv, Typ

LEMMA ReachFound ==
  ASSUME Inv, Returned, ~ truncated
  PROVE  Discovered = Ball[Hops]
<1>1. /\ Len(ordered) \in Nat /\ Popped = Len(ordered) /\ current = None /\ seeded = Len(starts)
      /\ Hops \in Nat /\ graph \in Graphs /\ limits \in Limits
  BY AllPopped
<1>2. ASSUME NEW m \in Discovered, depth[m] < Hops, NEW l \in DOMAIN graph[m]
      PROVE  graph[m][l][2] \in Discovered
  <2>1. PICK i \in 1..Popped : ordered[i] = m
    BY <1>1 DEF Inv, Listing
  <2> QED BY <1>1, <1>2, <2>1 DEF Inv, Complete, Waiting
<1>3. Hops \in 0..Hops
  BY <1>1
<1>4. Ball[Hops] \subseteq Discovered
  BY <1>1, <1>2, <1>3, Closed DEF Inv
<1>5. ASSUME NEW n \in Discovered PROVE n \in Ball[Hops]
  <2>1. depth[n] \in 0..Hops /\ n \in Ball[depth[n]]
    BY DEF Inv, Typ, Distances
  <2>2. depth[n] <= Hops
    BY <1>1, <2>1
  <2>3. Ball[depth[n]] \subseteq Ball[Hops]
    BY <1>1, <1>3, <2>1, <2>2, BallMono
  <2> QED BY <2>1, <2>3
<1> QED BY <1>4, <1>5

\* The walk finds everything within its hop bound, or says that it was cut
\* short, and then it used its budget up, something within reach is missing, and
\* nothing missing is nearer than what it found.
THEOREM WalkFindsReach == Spec => []FindsReach
<1>1. Inv => FindsReach
  <2> SUFFICES ASSUME Inv, Returned PROVE FindsReach
    BY DEF FindsReach
  <2>1. CASE ~ truncated
    BY <2>1, ReachFound DEF FindsReach
  <2>2. CASE truncated
    <3>1. Cardinality(Discovered) >= MaxNodes /\ Ball[Hops] \ Discovered # {} /\ IsFiniteSet(Discovered)
      BY <2>2 DEF Inv, Budget, Full
    <3>2. \A n \in Discovered : depth[n] > 0 => Ball[depth[n] - 1] \subseteq Discovered
      BY DEF Inv, Distances
    <3>3. Cardinality(Discovered) \in Nat /\ MaxNodes \in Nat
      BY <3>1, FS_CardinalityType, HopsType DEF Inv, Typ
    <3>4. CASE Cardinality(Discovered) <= MaxNodes
      BY <2>2, <3>1, <3>2, <3>3, <3>4 DEF FindsReach
    <3>5. CASE \A n \in Discovered : depth[n] = 0
      <4>1. Ball[0] = Seeds /\ seeded = Len(starts)
        BY AllPopped, BallFacts
      <4>2. Discovered \subseteq Seeds
        BY <3>5, <4>1 DEF Inv, Distances
      <4>3. Seeds \subseteq Discovered
        <5>1. starts \in Seq(Range(starts)) /\ DOMAIN starts = 1..Len(starts)
          BY TraversalAssumption DEF Inv, Typ
        <5> QED BY <4>1, <5>1 DEF Inv, Seeds, Seeding, Nodes
      <4>4. Discovered = Seeds
        BY <4>2, <4>3
      <4>5. Cardinality(Discovered) = MaxNodes \/ (Cardinality(Seeds) > MaxNodes /\ Discovered = Seeds)
        BY <3>1, <3>3, <4>4
      <4> QED BY <2>2, <3>1, <3>2, <4>5 DEF FindsReach
    <3> QED BY <3>4, <3>5 DEF Inv, Budget
  <2> QED BY <2>1, <2>2
<1> QED BY InitInv, NextInv, <1>1, PTL DEF Spec

-----------------------------------------------------------------------------
(* How often it has followed each edge.                                      *)

EdgesOf == UNION {{graph[n][k][1] : k \in DOMAIN graph[n]} : n \in Nodes}

\* The neighbour at position k of the node at position i has been looked at,
\* along the edge e.
Met(i, k, e) ==
  /\ depth[ordered[i]] < Hops
  /\ k \in DOMAIN graph[ordered[i]] /\ graph[ordered[i]][k][1] = e
  /\ ~ Waiting(i, k)

Walked(e) == {p \in Nodes \X Nat : \E i \in 1..Popped : p[1] = ordered[i] /\ Met(i, p[2], e)}

Times(e) == {i \in DOMAIN followed : followed[i] = e}

\* An edge is followed as often as it has been met.
Counted ==
  /\ followed \in Seq(EdgesOf)
  /\ \A e : IsFiniteSet(Walked(e)) /\ Cardinality(Times(e)) = Cardinality(Walked(e))

LEMMA WalkedKept ==
  ASSUME UNCHANGED <<graph, followed>>, \A e : Walked(e)' = Walked(e), Counted
  PROVE  Counted'
<1>1. EdgesOf' = EdgesOf /\ \A e : Times(e)' = Times(e)
  BY DEF EdgesOf, Nodes, Times
<1> QED BY <1>1 DEF Counted

LEMMA PositionFacts ==
  ASSUME Inv
  PROVE  /\ Len(ordered) \in Nat /\ Len(queue) \in Nat /\ Hops \in Nat /\ Popped \in Nat
         /\ \A i \in 1..Popped : /\ i \in 1..Len(ordered) /\ ordered[i] \in Discovered
                                 /\ ordered[i] \in Nodes
         /\ graph \in Graphs
<1>1. Len(ordered) \in Nat /\ Len(queue) \in Nat /\ Hops \in Nat /\ graph \in Graphs
  BY HopsType DEF Inv, Typ
<1>2. Len(queue) <= Len(ordered)
  BY DEF Inv, Listing
<1>3. Popped \in 0..Len(ordered)
  BY <1>1, <1>2 DEF Popped
<1>4. \A i \in 1..Popped : i \in 1..Len(ordered)
  BY <1>1, <1>3
<1> QED BY <1>1, <1>3, <1>4 DEF Inv, Typ, Listing

\* The neighbour that is looked at, and what stays as it was.
LEMMA FollowFacts ==
  ASSUME Inv, Follow
  PROVE  /\ Looked' = Looked + 1 /\ Popped' = Popped
         /\ \A i \in 1..Popped : ordered'[i] = ordered[i] /\ depth'[ordered[i]] = depth[ordered[i]]
<1> DEFINE C == graph[current]
           n == Head(rest)[2]
           d == depth[current] + 1
<1>1. /\ current # None /\ rest # <<>> /\ rest' = Tail(rest)
      /\ UNCHANGED <<graph, limits, starts, seeded, current>>
  BY DEF Follow
<1>2. /\ current \in Nodes /\ depth[current] \in 0..(Hops - 1) /\ Hops \in Nat
      /\ Looked \in Nat /\ n \in Nodes
  BY <1>1, NeighbourFacts
<1>3. /\ Len(ordered) \in Nat /\ graph \in Graphs
      /\ \A i \in 1..Popped : i \in 1..Len(ordered) /\ ordered[i] \in Discovered
  BY PositionFacts
<1>5. Len(C) \in Nat
  BY <1>2, <1>3, GraphFacts
<1>7. Looked' = Looked + 1
  <2>1. rest \in Seq(Range(C))
    BY <1>1 DEF Inv, Typ
  <2> HIDE DEF C
  <2>2. Len(rest) \in Nat /\ Len(rest') = Len(rest) - 1
    BY <1>1, <2>1
  <2> QED BY <1>1, <1>5, <2>2 DEF Looked, C
<1> HIDE DEF C
<1>8. /\ Popped' = Popped
      /\ \A i \in 1..Popped : ordered'[i] = ordered[i] /\ depth'[ordered[i]] = depth[ordered[i]]
  <2>1. \/ UNCHANGED <<depth, ordered, queue>>
        \/ n \notin Discovered /\ Discover(n, d)
    BY DEF Follow, NextDepth
  <2>2. CASE UNCHANGED <<depth, ordered, queue>>
    BY <2>2 DEF Popped
  <2>3. CASE n \notin Discovered /\ Discover(n, d)
    <3>1. PICK m \in Nodes : m = n
      BY <1>2
    <3>2. PICK e \in 0..Hops : e = d
      BY <1>2
    <3>3. m \notin Discovered /\ Discover(m, e)
      BY <2>3, <3>1, <3>2
    <3> HIDE DEF n, d
    <3> QED BY <1>3, <3>3, Discovery DEF Inv
  <2> QED BY <2>1, <2>2, <2>3
<1> QED BY <1>7, <1>8

LEMMA InitCounted == Init => Counted
<1> SUFFICES ASSUME Init PROVE Counted
  OBVIOUS
<1>1. followed = <<>> /\ Popped = 0
  BY DEF Init, Popped
<1>2. \A e : Times(e) = {} /\ Walked(e) = {}
  BY <1>1 DEF Times, Walked
<1>3. followed \in Seq(EdgesOf)
  BY <1>1
<1> QED BY <1>2, <1>3, FS_EmptySet DEF Counted

LEMMA SeedCounted == Inv /\ Counted /\ Seed => Counted'
<1> SUFFICES ASSUME Inv, Counted, Seed PROVE Counted'
  OBVIOUS
<1>1. seeded < Len(starts) /\ UNCHANGED <<graph, limits, starts, current, rest, followed, truncated>>
  BY DEF Seed
<1>2. Popped = 0
  BY <1>1 DEF Inv, Seeding
<1>3. Popped' = 0
  <2>1. CASE UNCHANGED <<depth, ordered, queue>>
    BY <1>2, <2>1 DEF Popped
  <2>2. CASE starts[seeded'] \in Nodes \ Discovered /\ Discover(starts[seeded'], 0)
    <3>1. 0 \in 0..Hops
      BY HopsType DEF Inv, Typ
    <3> QED BY <1>2, <2>2, <3>1, Discovery DEF Inv
  <2> QED BY <2>1, <2>2 DEF Seed, Nodes
<1>4. \A e : Walked(e) = {} /\ Walked(e)' = {}
  BY <1>2, <1>3 DEF Walked
<1> QED BY <1>1, <1>4, WalkedKept

\* A node taken out of the queue waits with all its neighbours.
LEMMA PopCounted == Inv /\ Counted /\ Pop => Counted'
<1> SUFFICES ASSUME Inv, Counted, Pop PROVE Counted'
  OBVIOUS
<1> DEFINE n == Head(queue)
<1>1. /\ current = None /\ queue # <<>> /\ queue' = Tail(queue)
      /\ UNCHANGED <<graph, limits, starts, seeded, depth, ordered, followed, truncated>>
      /\ IF depth[n] < Hops THEN current' = n /\ rest' = graph[n] ELSE UNCHANGED <<current, rest>>
  BY DEF Pop, Left, WithinHops
<1>2. /\ Len(ordered) \in Nat /\ Len(queue) \in Nat /\ Popped \in Nat /\ graph \in Graphs
      /\ \A i \in 1..Popped : ordered[i] \in Nodes
  BY PositionFacts
<1>3. Popped' = Popped + 1 /\ Nodes' = Nodes /\ Hops' = Hops
  <2>1. Len(queue') = Len(queue) - 1
    BY <1>1 DEF Inv, Typ
  <2> QED BY <1>1, <1>2, <2>1 DEF Popped, Nodes, Hops
<1>4. n = ordered[Popped + 1]
  <2>1. 1 \in 1..Len(queue) /\ n = queue[1]
    BY <1>1 DEF Inv, Typ
  <2> QED BY <2>1 DEF Inv, Listing
<1>5. n \in Nodes /\ n # None
  <2>1. n \in Nodes
    BY <1>1 DEF Inv, Typ
  <2> QED BY <1>2, <2>1, GraphFacts
<1> HIDE DEF n
<1>6. ASSUME NEW i \in 1..Popped, NEW k, NEW e
      PROVE  Met(i, k, e)' <=> Met(i, k, e)
  <2>1. ~ Waiting(i, k) /\ ~ Waiting(i, k)'
    BY <1>1, <1>2, <1>3 DEF Waiting
  <2> QED BY <1>1, <1>3, <2>1 DEF Met
<1>7. ASSUME NEW j, j = Popped', NEW k, NEW e, Met(j, k, e)'
      PROVE  FALSE
  <2>1. depth[n] < Hops /\ k \in DOMAIN graph[n] /\ ~ Waiting(j, k)'
    BY <1>1, <1>3, <1>4, <1>7 DEF Met
  <2>2. current' = n /\ rest' = graph[n] /\ Len(graph[n]) \in Nat /\ k \in 1..Len(graph[n])
    BY <1>1, <1>2, <1>5, <2>1, GraphFacts
  <2>3. Looked' = 0
    BY <1>1, <2>2 DEF Looked
  <2>4. k > 0
    BY <2>2
  <2> QED BY <1>5, <1>7, <2>1, <2>2, <2>3, <2>4 DEF Waiting
<1>8. ASSUME NEW e PROVE Walked(e)' = Walked(e)
  <2>1. 1..Popped' = (1..Popped) \cup {Popped'}
    BY <1>2, <1>3
  <2>2. ASSUME NEW p PROVE (\E i \in 1..Popped' : p[1] = ordered'[i] /\ Met(i, p[2], e)')
                           <=> (\E i \in 1..Popped : p[1] = ordered[i] /\ Met(i, p[2], e))
    BY <1>1, <1>6, <1>7, <2>1
  <2> QED BY <1>3, <2>2 DEF Walked
<1> QED BY <1>1, <1>8, WalkedKept

LEMMA ExpandedCounted == Inv /\ Counted /\ Expanded => Counted'
<1> SUFFICES ASSUME Inv, Counted, Expanded PROVE Counted'
  OBVIOUS
<1>1. /\ current # None /\ rest = <<>> /\ current' = None
      /\ UNCHANGED <<graph, limits, starts, seeded, depth, ordered, queue, rest, followed, truncated>>
  BY DEF Expanded
<1>2. Popped' = Popped /\ Nodes' = Nodes /\ Hops' = Hops
  BY <1>1 DEF Popped, Nodes, Hops
<1>3. /\ \A i \in 1..Popped : ordered[i] \in Nodes
      /\ graph \in Graphs
  BY PositionFacts
<1>4. ASSUME NEW i \in 1..Popped, NEW k, NEW e
      PROVE  Met(i, k, e)' <=> Met(i, k, e)
  <2>1. ~ Waiting(i, k)'
    BY <1>1 DEF Waiting
  <2>2. ASSUME Waiting(i, k), k \in DOMAIN graph[ordered[i]] PROVE FALSE
    <3>1. ordered[i] = current /\ k > Looked
      BY <2>2 DEF Waiting, Inv, Listing
    <3>2. Len(graph[current]) \in Nat /\ k \in 1..Len(graph[current])
      BY <1>3, <2>2, <3>1, GraphFacts
    <3>3. Looked = Len(graph[current])
      BY <1>1, <3>2 DEF Looked
    <3> QED BY <3>1, <3>2, <3>3
  <2> QED BY <1>1, <1>2, <2>1, <2>2 DEF Met
<1>5. ASSUME NEW e PROVE Walked(e)' = Walked(e)
  BY <1>1, <1>2, <1>4 DEF Walked
<1> QED BY <1>1, <1>5, WalkedKept

\* The neighbour that is looked at no longer waits, and its edge is followed.
LEMMA FollowCounted == Inv /\ Counted /\ Follow => Counted'
<1> SUFFICES ASSUME Inv, Counted, Follow PROVE Counted'
  OBVIOUS
<1> DEFINE C == graph[current]
           x == C[Looked + 1][1]
           n == Head(rest)[2]
           d == depth[current] + 1
<1>1. /\ current # None /\ rest # <<>> /\ rest' = Tail(rest)
      /\ UNCHANGED <<graph, limits, starts, seeded, current>>
      /\ followed' = Append(followed, Head(rest)[1])
  BY DEF Follow, FollowEdge
<1>2. /\ current \in Discovered /\ current \in Nodes
      /\ depth[current] \in 0..(Hops - 1) /\ Hops \in Nat
      /\ Looked + 1 \in DOMAIN C /\ Looked \in Nat
      /\ Head(rest) = C[Looked + 1] /\ n \in Nodes
  BY <1>1, NeighbourFacts
<1>3. /\ Len(ordered) \in Nat /\ Len(queue) \in Nat /\ Popped \in Nat /\ graph \in Graphs
      /\ \A i \in 1..Popped : i \in 1..Len(ordered) /\ ordered[i] \in Discovered /\ ordered[i] \in Nodes
  BY PositionFacts
<1>4. Popped \in 1..Popped /\ current = ordered[Popped]
  BY <1>1, <1>3 DEF Inv, Listing
<1>5. Len(C) \in Nat /\ DOMAIN C = 1..Len(C)
  BY <1>2, <1>3, GraphFacts
<1>6. Nodes' = Nodes /\ Hops' = Hops
  BY <1>1 DEF Nodes, Hops
<1>7. /\ Looked' = Looked + 1 /\ Popped' = Popped
      /\ \A i \in 1..Popped : ordered'[i] = ordered[i] /\ depth'[ordered[i]] = depth[ordered[i]]
  BY FollowFacts
<1> HIDE DEF C, x
<1>9. ASSUME NEW i \in 1..Popped, NEW k \in Nat, NEW e
      PROVE  Met(i, k, e)' <=> Met(i, k, e) \/ (i = Popped /\ k = Looked + 1 /\ x = e)
  <2>1. CASE i # Popped
    BY <1>1, <1>6, <1>7, <2>1 DEF Met, Waiting
  <2>2. CASE i = Popped
    <3>1. ordered[i] = current /\ ordered'[i] = current /\ depth[current] < Hops /\ depth'[current] < Hops
      BY <1>2, <1>3, <1>4, <1>7, <2>2
    <3>2. Waiting(i, k) <=> k > Looked
      BY <1>1, <2>2 DEF Waiting
    <3>3. Waiting(i, k)' <=> k > Looked + 1
      BY <1>1, <1>7, <2>2 DEF Waiting
    <3>4. Met(i, k, e) <=> k \in DOMAIN C /\ C[k][1] = e /\ ~ (k > Looked)
      BY <3>1, <3>2 DEF Met, C
    <3>5. Met(i, k, e)' <=> k \in DOMAIN C /\ C[k][1] = e /\ ~ (k > Looked + 1)
      BY <1>1, <1>6, <3>1, <3>3 DEF Met, C
    <3>6. CASE k = Looked + 1
      BY <1>2, <2>2, <3>4, <3>5, <3>6 DEF x
    <3>7. CASE k # Looked + 1
      BY <1>2, <3>4, <3>5, <3>7
    <3> QED BY <3>6, <3>7
  <2> QED BY <2>1, <2>2
<1> DEFINE new == <<current, Looked + 1>>
<1>10. new \in Nodes \X Nat /\ new[1] = current /\ new[2] = Looked + 1
  BY <1>2
<1>11. ASSUME NEW e, new \in Walked(e) PROVE FALSE
  <2>1. PICK i \in 1..Popped : current = ordered[i] /\ Met(i, Looked + 1, e)
    BY <1>10, <1>11 DEF Walked
  <2>2. i = Popped
    BY <1>3, <1>4, <2>1 DEF Inv, Listing
  <2>3. Waiting(i, Looked + 1)
    BY <1>1, <1>2, <2>2 DEF Waiting
  <2> QED BY <2>1, <2>3 DEF Met
<1> HIDE DEF new
<1>12. ASSUME NEW e PROVE Walked(e)' = IF x = e THEN Walked(e) \cup {new} ELSE Walked(e)
  <2>1. ASSUME NEW p \in Nodes \X Nat
        PROVE  (\E i \in 1..Popped' : p[1] = ordered'[i] /\ Met(i, p[2], e)')
               <=> (\E i \in 1..Popped : p[1] = ordered[i] /\ Met(i, p[2], e)) \/ (x = e /\ p = new)
    <3>1. p = new <=> p[1] = ordered[Popped] /\ p[2] = Looked + 1
      BY <1>4, <1>10 DEF new
    <3>2. p[2] \in Nat
      OBVIOUS
    <3>3. \A i \in 1..Popped : Met(i, p[2], e)' <=> Met(i, p[2], e) \/ (i = Popped /\ p[2] = Looked + 1 /\ x = e)
      BY <1>9, <3>2
    <3> QED BY <1>4, <1>7, <3>1, <3>3
  <2>2. Walked(e)' = {p \in Nodes \X Nat : \E i \in 1..Popped' : p[1] = ordered'[i] /\ Met(i, p[2], e)'}
    BY <1>6 DEF Walked
  <2>3. Walked(e) = {p \in Nodes \X Nat : \E i \in 1..Popped : p[1] = ordered[i] /\ Met(i, p[2], e)}
    BY DEF Walked
  <2> QED BY <1>10, <2>1, <2>2, <2>3
<1>13. x \in EdgesOf /\ EdgesOf' = EdgesOf
  BY <1>1, <1>2, <1>6 DEF EdgesOf, x, C
<1>14. followed' = Append(followed, x)
  BY <1>1, <1>2 DEF x
<1>15. /\ followed' \in Seq(EdgesOf') /\ Len(followed) \in Nat /\ Len(followed') = Len(followed) + 1
       /\ DOMAIN followed = 1..Len(followed) /\ DOMAIN followed' = 1..(Len(followed) + 1)
       /\ followed'[Len(followed) + 1] = x /\ \A i \in 1..Len(followed) : followed'[i] = followed[i]
  BY <1>13, <1>14 DEF Counted
<1>16. ASSUME NEW e PROVE Times(e)' = IF x = e THEN Times(e) \cup {Len(followed) + 1} ELSE Times(e)
  BY <1>15 DEF Times
<1>17. ASSUME NEW e PROVE IsFiniteSet(Times(e)) /\ Len(followed) + 1 \notin Times(e)
  <2>1. IsFiniteSet(1..Len(followed)) /\ Times(e) \subseteq 1..Len(followed)
    BY <1>15, CountUpTo DEF Times
  <2>2. Len(followed) + 1 \notin 1..Len(followed)
    BY <1>15
  <2> QED BY <2>1, <2>2, FS_Subset
<1>18. ASSUME NEW e PROVE IsFiniteSet(Walked(e)') /\ Cardinality(Times(e)') = Cardinality(Walked(e)')
  <2>1. IsFiniteSet(Walked(e)) /\ Cardinality(Times(e)) = Cardinality(Walked(e))
    BY DEF Counted
  <2>2. CASE x # e
    BY <1>12, <1>16, <2>1, <2>2
  <2>3. CASE x = e
    <3>1. IsFiniteSet(Walked(e) \cup {new}) /\ Cardinality(Walked(e) \cup {new}) = Cardinality(Walked(e)) + 1
      BY <1>11, <2>1, FS_AddElement
    <3>2. Cardinality(Times(e) \cup {Len(followed) + 1}) = Cardinality(Times(e)) + 1
      BY <1>17, FS_AddElement
    <3> QED BY <1>12, <1>16, <2>1, <2>3, <3>1, <3>2
  <2> QED BY <2>2, <2>3
<1> QED BY <1>15, <1>18 DEF Counted

\* Each edge has been followed once from every end of it that the walk expanded.
THEOREM WalkCountsUses == Spec => []CountsUses
<1>1. Inv /\ Counted /\ [Next]_vars => Counted'
  <2>1. ASSUME Counted, UNCHANGED vars PROVE Counted'
    <3>1. /\ UNCHANGED <<graph, depth, ordered, current, followed>>
          /\ Nodes' = Nodes /\ Hops' = Hops /\ Popped' = Popped /\ Looked' = Looked
      BY <2>1 DEF vars, Nodes, Hops, Popped, Looked
    <3>2. ASSUME NEW i, NEW k, NEW e PROVE Met(i, k, e)' <=> Met(i, k, e)
      BY <3>1 DEF Met, Waiting
    <3>3. ASSUME NEW e PROVE Walked(e)' = Walked(e)
      BY <3>1, <3>2 DEF Walked
    <3> QED BY <2>1, <3>1, <3>3, WalkedKept
  <2> QED BY <2>1, SeedCounted, PopCounted, FollowCounted, ExpandedCounted DEF Next
<1>2. Inv /\ Counted => CountsUses
  <2> SUFFICES ASSUME Inv, Counted, Returned, ~ truncated,
                      NEW e \in UNION {{graph[n][i][1] : i \in DOMAIN graph[n]} : n \in DOMAIN graph}
               PROVE  Cardinality({i \in DOMAIN followed : followed[i] = e}) = Uses(graph, Seeds, Hops, e)
    BY DEF CountsUses
  <2> DEFINE expanded == Ball[Hops - 1]
             ends(n) == {<<n, i>> : i \in {j \in DOMAIN graph[n] : graph[n][j][1] = e}}
  <2>1. /\ Len(ordered) \in Nat /\ Popped = Len(ordered) /\ current = None
        /\ Hops \in Nat /\ Hops >= 1 /\ graph \in Graphs /\ limits \in Limits
    BY AllPopped
  <2>2. Discovered = Ball[Hops]
    BY ReachFound
  <2>3. expanded = {n \in Discovered : depth[n] < Hops}
    <3>1. Hops - 1 \in 0..Hops /\ Hops \in 0..Hops /\ (Hops - 1) + 1 = Hops
      BY <2>1
    <3>2. Ball[Hops - 1] \subseteq Ball[Hops]
      BY <2>1, <3>1, BallMono
    <3>3. ASSUME NEW n \in Discovered, depth[n] < Hops PROVE n \in Ball[Hops - 1]
      <4>1. depth[n] \in 0..Hops /\ depth[n] <= Hops - 1 /\ n \in Ball[depth[n]]
        BY <2>1, <3>3 DEF Inv, Typ, Distances
      <4>2. Ball[depth[n]] \subseteq Ball[Hops - 1]
        BY <2>1, <3>1, <4>1, BallMono
      <4> QED BY <4>1, <4>2
    <3>4. ASSUME NEW n \in Ball[Hops - 1] PROVE n \in Discovered /\ depth[n] < Hops
      <4>1. n \in Discovered
        BY <2>2, <3>2
      <4>2. depth[n] \in 0..Hops /\ \A h \in 0..(depth[n] - 1) : n \notin Ball[h]
        BY <4>1 DEF Inv, Typ, Distances
      <4>3. depth[n] # Hops
        <5> SUFFICES ASSUME depth[n] = Hops PROVE FALSE
          OBVIOUS
        <5>1. Hops - 1 \in 0..(depth[n] - 1)
          BY <2>1
        <5> QED BY <4>2, <5>1
      <4> QED BY <2>1, <4>1, <4>2, <4>3
    <3> QED BY <3>3, <3>4
  <2> HIDE DEF expanded
  <2>4. Walked(e) = UNION {ends(n) : n \in expanded}
    <3>1. ASSUME NEW n \in Nodes, NEW k \in Nat
          PROVE  (\E i \in 1..Popped : n = ordered[i] /\ Met(i, k, e)) <=> n \in expanded /\ <<n, k>> \in ends(n)
      <4>1. \A i \in 1..Popped : ~ Waiting(i, k)
        BY <2>1 DEF Waiting
      <4>2. <<n, k>> \in ends(n) <=> k \in DOMAIN graph[n] /\ graph[n][k][1] = e
        OBVIOUS
      <4>3. n \in Discovered <=> \E i \in 1..Popped : n = ordered[i]
        BY <2>1 DEF Inv, Listing
      <4> QED BY <2>3, <4>1, <4>2, <4>3 DEF Met
    <3>2. ASSUME NEW n \in expanded PROVE n \in Nodes /\ \A p \in ends(n) : p \in Nodes \X Nat /\ p[1] = n /\ p = <<n, p[2]>>
      <4>1. n \in Nodes
        BY <2>3 DEF Inv, Typ
      <4>2. \A k \in DOMAIN graph[n] : k \in Nat
        BY <2>1, <4>1, GraphFacts
      <4> QED BY <4>1, <4>2
    <3>3. ASSUME NEW p \in Walked(e) PROVE p \in UNION {ends(n) : n \in expanded}
      <4>1. p \in Nodes \X Nat /\ \E i \in 1..Popped : p[1] = ordered[i] /\ Met(i, p[2], e)
        BY DEF Walked
      <4>2. p[1] \in Nodes /\ p[2] \in Nat /\ p = <<p[1], p[2]>>
        BY <4>1
      <4> HIDE DEF ends
      <4> QED BY <3>1, <4>1, <4>2
    <3>4. ASSUME NEW n \in expanded, NEW p \in ends(n) PROVE p \in Walked(e)
      <4>1. n \in Nodes /\ p \in Nodes \X Nat /\ p[1] = n /\ p = <<n, p[2]>> /\ p[2] \in Nat
        BY <3>2
      <4> HIDE DEF ends
      <4>2. \E i \in 1..Popped : n = ordered[i] /\ Met(i, p[2], e)
        BY <3>1, <3>4, <4>1
      <4> QED BY <4>1, <4>2 DEF Walked
    <3> HIDE DEF ends
    <3> QED BY <3>3, <3>4
  <2>5. Uses(graph, Seeds, Hops, e) = Cardinality(UNION {ends(n) : n \in expanded})
    <3>1. Seeds \cap DOMAIN graph = Seeds
      BY DEF Seeds
    <3>2. Balls(graph, Seeds \cap DOMAIN graph, Hops)[Hops - 1] = expanded
      BY <3>1 DEF Ball, expanded
    <3> QED BY <3>2, Zenon DEF Uses
  <2>6. Cardinality(Times(e)) = Cardinality(Walked(e))
    BY DEF Counted
  <2> HIDE DEF ends
  <2> QED BY <2>4, <2>5, <2>6 DEF Times
<1> QED BY InitInv, NextInv, InitCounted, <1>1, <1>2, PTL DEF Spec

-----------------------------------------------------------------------------
(* Lists: recursion over them, putting lists behind one another, merging.    *)

\* f follows a recursion over the n numbers after m, from b by the step g.
Follows(f, m, n, T, b, g) ==
  /\ f \in [m..(m + n) -> T]
  /\ f[m] = b
  /\ \A i \in (m + 1)..(m + n) : f[i] = g[<<i, f[i - 1]>>]

\* Every such recursion can be followed.
LEMMA Recursion ==
  ASSUME NEW m \in Nat, NEW T, NEW b \in T, NEW g \in [Nat \X T -> T], NEW n \in Nat
  PROVE  \E f : Follows(f, m, n, T, b, g)
<1> DEFINE Solves(f, k) == f[m] = b /\ \A i \in (m + 1)..(m + k) : f[i] = g[<<i, f[i - 1]>>]
           S == {k \in Nat : \E f \in [m..(m + k) -> T] : Solves(f, k)}
<1>1. 0 \in S
  <2> DEFINE f == [i \in m..(m + 0) |-> b]
  <2>1. f \in [m..(m + 0) -> T] /\ f[m] = b /\ (m + 1)..(m + 0) = {}
    OBVIOUS
  <2>2. Solves(f, 0)
    BY <2>1
  <2> HIDE DEF f, Solves
  <2> QED BY <2>1, <2>2
<1>2. \A k \in Nat : k \in S => k + 1 \in S
  <2> SUFFICES ASSUME NEW k \in Nat, k \in S PROVE k + 1 \in S
    OBVIOUS
  <2>1. PICK f \in [m..(m + k) -> T] : f[m] = b /\ \A i \in (m + 1)..(m + k) : f[i] = g[<<i, f[i - 1]>>]
    OBVIOUS
  <2> DEFINE e == [i \in m..(m + (k + 1)) |-> IF i = m + (k + 1) THEN g[<<i, f[m + k]>>] ELSE f[i]]
  <2>2. g[<<m + (k + 1), f[m + k]>>] \in T
    <3>1. m + k \in m..(m + k) /\ m + (k + 1) \in Nat
      OBVIOUS
    <3>2. f[m + k] \in T
      BY <3>1
    <3> QED BY <3>1, <3>2
  <2>3. e \in [m..(m + (k + 1)) -> T]
    <3>1. \A i \in m..(m + (k + 1)) : i # m + (k + 1) => i \in m..(m + k)
      OBVIOUS
    <3>2. \A i \in m..(m + (k + 1)) : e[i] \in T
      BY <2>2, <3>1
    <3> QED BY <3>2
  <2>4. /\ e[m + (k + 1)] = g[<<m + (k + 1), f[m + k]>>]
        /\ \A i \in m..(m + k) : e[i] = f[i]
    OBVIOUS
  <2> HIDE DEF e
  <2>5. e[m] = b
    <3>1. m \in m..(m + k)
      OBVIOUS
    <3> QED BY <2>1, <2>4, <3>1
  <2>6. \A i \in (m + 1)..(m + (k + 1)) : e[i] = g[<<i, e[i - 1]>>]
    <3> SUFFICES ASSUME NEW i \in (m + 1)..(m + (k + 1)) PROVE e[i] = g[<<i, e[i - 1]>>]
      OBVIOUS
    <3>1. i - 1 \in m..(m + k) /\ (i = m + (k + 1) => i - 1 = m + k)
          /\ (i # m + (k + 1) => i \in (m + 1)..(m + k) /\ i \in m..(m + k))
      OBVIOUS
    <3>2. e[i - 1] = f[i - 1]
      BY <2>4, <3>1
    <3>3. CASE i = m + (k + 1)
      BY <2>4, <3>1, <3>2, <3>3
    <3>4. CASE i # m + (k + 1)
      BY <2>1, <2>4, <3>1, <3>2, <3>4
    <3> QED BY <3>3, <3>4
  <2>7. k + 1 \in Nat /\ Solves(e, k + 1)
    BY <2>5, <2>6
  <2> HIDE DEF Solves
  <2>8. \E h \in [m..(m + (k + 1)) -> T] : Solves(h, k + 1)
    BY <2>3, <2>7
  <2> QED BY <2>7, <2>8
<1> HIDE DEF S
<1>3. n \in S
  BY <1>1, <1>2, Induction
<1>4. \E f \in [m..(m + n) -> T] : Solves(f, n)
  BY <1>3 DEF S
<1> QED BY <1>4 DEF Follows

\* What such a recursion keeps, at every number.
LEMMA Kept ==
  ASSUME NEW m \in Nat, NEW T, NEW f, NEW n \in Nat, f[m] \in T,
         \A i \in (m + 1)..(m + n) : f[i - 1] \in T => f[i] \in T
  PROVE  \A i \in m..(m + n) : f[i] \in T
<1> DEFINE S == {k \in Nat : k <= n => f[m + k] \in T}
<1>1. 0 \in S
  OBVIOUS
<1>2. \A k \in Nat : k \in S => k + 1 \in S
  <2> SUFFICES ASSUME NEW k \in Nat, k \in S, k + 1 <= n PROVE f[m + (k + 1)] \in T
    OBVIOUS
  <2>1. f[m + k] \in T
    OBVIOUS
  <2>2. m + (k + 1) \in (m + 1)..(m + n) /\ (m + (k + 1)) - 1 = m + k
    OBVIOUS
  <2> QED BY <2>1, <2>2
<1> HIDE DEF S
<1>3. Nat \subseteq S
  BY <1>1, <1>2, Induction
<1>4. \A i \in m..(m + n) : i - m \in Nat /\ i - m <= n /\ m + (i - m) = i
  OBVIOUS
<1> QED BY <1>3, <1>4 DEF S

\* The form of the model's recursive functions, from b by the step g.
Recurs(f, n, T, b, g) ==
  /\ f \in [0..n -> T]
  /\ f[0] = b
  /\ \A k \in 1..n : f[k] = g[<<k, f[k - 1]>>]

LEMMA Recursive ==
  ASSUME NEW T, NEW b \in T, NEW g \in [Nat \X T -> T], NEW n \in Nat
  PROVE  \E f : Recurs(f, n, T, b, g)
<1> DEFINE first == 0
<1>1. first \in Nat
  OBVIOUS
<1> HIDE DEF first
<1>2. PICK f : Follows(f, first, n, T, b, g)
  BY <1>1, Recursion
<1>3. first + n = n /\ first + 1 = 1
  BY DEF first
<1>4. Recurs(f, n, T, b, g)
  BY <1>2, <1>3 DEF Follows, Recurs, first
<1> QED BY <1>4

IsFlat(s, f) == f = [i \in 1..Len(s) |-> IF i = 1 THEN s[i] ELSE f[i - 1] \o s[i]]

LEMMA FlatExists ==
  ASSUME NEW S, NEW s \in Seq(Seq(S)), s # <<>>
  PROVE  \E f : IsFlat(s, f)
<1> DEFINE g == [p \in Nat \X Seq(S) |-> IF p[1] \in DOMAIN s THEN p[2] \o s[p[1]] ELSE p[2]]
           n == Len(s)
<1>1. n \in Nat /\ n >= 1 /\ DOMAIN s = 1..n /\ \A i \in 1..n : s[i] \in Seq(S)
  OBVIOUS
<1>2. g \in [Nat \X Seq(S) -> Seq(S)]
  <2>1. \A p \in Nat \X Seq(S) : (IF p[1] \in DOMAIN s THEN p[2] \o s[p[1]] ELSE p[2]) \in Seq(S)
    <3> SUFFICES ASSUME NEW i \in Nat, NEW t \in Seq(S)
                 PROVE  (IF i \in DOMAIN s THEN t \o s[i] ELSE t) \in Seq(S)
      OBVIOUS
    <3>1. i \in DOMAIN s => t \o s[i] \in Seq(S)
      BY <1>1, ConcatProperties
    <3> QED BY <3>1
  <2> QED BY <2>1
<1>3. ASSUME NEW i \in 1..n, NEW t \in Seq(S) PROVE g[<<i, t>>] = t \o s[i]
  <2>1. i \in Nat /\ i \in DOMAIN s
    BY <1>1
  <2>2. <<i, t>> \in Nat \X Seq(S) /\ <<i, t>>[1] = i /\ <<i, t>>[2] = t
    BY <2>1
  <2>3. g[<<i, t>>] = IF <<i, t>>[1] \in DOMAIN s THEN <<i, t>>[2] \o s[<<i, t>>[1]] ELSE <<i, t>>[2]
    BY <2>2, Zenon
  <2> HIDE DEF g, n
  <2> QED BY <2>1, <2>2, <2>3
<1> HIDE DEF g, n
<1>4. PICK f \in [1..(1 + (n - 1)) -> Seq(S)] :
        f[1] = s[1] /\ \A i \in (1 + 1)..(1 + (n - 1)) : f[i] = g[<<i, f[i - 1]>>]
  <2> DEFINE T == Seq(S)
             start == s[1]
             first == 1
             last == n - 1
  <2>1. first \in Nat /\ start \in T /\ g \in [Nat \X T -> T] /\ last \in Nat
    BY <1>1, <1>2
  <2> HIDE DEF T, start, first, last
  <2>2. PICK f : Follows(f, first, last, T, start, g)
    BY <2>1, Recursion
  <2> QED BY <2>2 DEF T, start, first, last, Follows
<1>5. f \in [1..n -> Seq(S)] /\ \A i \in 2..n : f[i] = g[<<i, f[i - 1]>>]
  <2>1. 1 + (n - 1) = n /\ 1 + 1 = 2
    BY <1>1
  <2> QED BY <1>4, <2>1
<1> DEFINE body(i) == IF i = 1 THEN s[i] ELSE f[i - 1] \o s[i]
<1>6. \A i \in 1..n : f[i] = body(i)
  <2> SUFFICES ASSUME NEW i \in 1..n, i # 1 PROVE f[i] = f[i - 1] \o s[i]
    BY <1>4
  <2>1. i \in 2..n /\ i - 1 \in 1..n
    BY <1>1
  <2>2. f[i - 1] \in Seq(S)
    BY <1>5, <2>1
  <2> QED BY <1>3, <1>5, <2>1, <2>2
<1> HIDE DEF body
<1>7. f = [i \in 1..n |-> body(i)]
  BY <1>5, <1>6
<1> QED BY <1>7 DEF IsFlat, body, n

\* Sequences with elements in a set make, put behind one another, one such.
LEMMA FlatType ==
  ASSUME NEW S, NEW s \in Seq(Seq(S))
  PROVE  FlattenSeq(s) \in Seq(S)
<1> DEFINE f == CHOOSE f : IsFlat(s, f)
           n == Len(s)
<1>1. FlattenSeq(s) = IF n = 0 THEN s ELSE f[n]
  BY DEF FlattenSeq, IsFlat
<1> HIDE DEF f
<1>2. n \in Nat /\ \A i \in 1..n : s[i] \in Seq(S)
  OBVIOUS
<1>3. CASE n = 0
  <2>1. s = <<>>
    BY <1>3
  <2>2. FlattenSeq(s) = <<>>
    BY <1>1, <1>3, <2>1
  <2> QED BY <2>2, EmptySeq
<1>4. CASE n # 0
  <2>1. IsFlat(s, f)
    <3>1. s # <<>>
      BY <1>4
    <3>2. \E h : IsFlat(s, h)
      BY <3>1, FlatExists
    <3> QED BY <3>2 DEF f
  <2> HIDE DEF n
  <2> DEFINE body(i) == IF i = 1 THEN s[i] ELSE f[i - 1] \o s[i]
  <2>2. f = [i \in 1..n |-> body(i)]
    BY <2>1 DEF IsFlat, n
  <2> HIDE DEF body
  <2>3. \A i \in 1..n : f[i] = body(i)
    BY <2>2
  <2>4. 1 \in 1..n /\ n - 1 \in Nat /\ n \in 1..n /\ 1 + (n - 1) = n
    BY <1>2, <1>4
  <2>5. f[1] \in Seq(S)
    BY <1>2, <2>3, <2>4 DEF body
  <2>6. \A i \in (1 + 1)..n : f[i - 1] \in Seq(S) => f[i] \in Seq(S)
    <3> SUFFICES ASSUME NEW i \in (1 + 1)..n, f[i - 1] \in Seq(S) PROVE f[i] \in Seq(S)
      OBVIOUS
    <3>1. i \in 1..n /\ i # 1
      BY <1>2
    <3>2. f[i] = f[i - 1] \o s[i]
      BY <2>3, <3>1 DEF body
    <3> QED BY <1>2, <3>1, <3>2, ConcatProperties
  <2>7. \A i \in (1 + 1)..(1 + (n - 1)) : f[i - 1] \in Seq(S) => f[i] \in Seq(S)
    BY <2>4, <2>6
  <2>8. \A i \in 1..(1 + (n - 1)) : f[i] \in Seq(S)
    BY <2>4, <2>5, <2>7, Kept
  <2>9. f[n] \in Seq(S)
    BY <2>4, <2>8
  <2> QED BY <1>1, <1>4, <2>9
<1> QED BY <1>3, <1>4

\* The form both uses take: what passes a test, in the order of a list.
LEMMA PickedType ==
  ASSUME NEW S, NEW n \in Nat, NEW p \in [1..n -> Seq(S)]
  PROVE  FlattenSeq(p) \in Seq(S)
<1>1. p \in Seq(Seq(S))
  OBVIOUS
<1> QED BY <1>1, FlatType

\* Sequences of n lists over S.
Lists(n, S) == [1..n -> Seq(S)]

\* Putting one more list behind: the recursion of FlattenSeq, from its end.
LEMMA FlatNext ==
  ASSUME NEW S, NEW n \in Nat, NEW p \in Lists(n + 1, S), NEW q \in Lists(n, S),
         \A i \in 1..n : q[i] = p[i]
  PROVE  FlattenSeq(p) = FlattenSeq(q) \o p[n + 1]
<1> p \in [1..(n + 1) -> Seq(S)] /\ q \in [1..n -> Seq(S)]
  BY DEF Lists
<1> DEFINE f == CHOOSE f : IsFlat(p, f)
           e == CHOOSE e : IsFlat(q, e)
<1>1. /\ p \in Seq(Seq(S)) /\ Len(p) = n + 1 /\ q \in Seq(Seq(S)) /\ Len(q) = n
      /\ n + 1 \in 1..(n + 1) /\ p[n + 1] \in Seq(S) /\ p # <<>>
  OBVIOUS
<1>2. FlattenSeq(p) = f[n + 1]
  <2>1. FlattenSeq(p) = IF Len(p) = 0 THEN p ELSE f[Len(p)]
    BY DEF FlattenSeq, IsFlat
  <2> HIDE DEF f
  <2> QED BY <1>1, <2>1
<1>3. FlattenSeq(q) = IF n = 0 THEN q ELSE e[n]
  <2>1. FlattenSeq(q) = IF Len(q) = 0 THEN q ELSE e[Len(q)]
    BY DEF FlattenSeq, IsFlat
  <2> HIDE DEF e
  <2> QED BY <1>1, <2>1
<1>4. IsFlat(p, f)
  <2>1. \E h : IsFlat(p, h)
    BY <1>1, FlatExists
  <2> QED BY <2>1
<1>5. n # 0 => IsFlat(q, e)
  <2> SUFFICES ASSUME n # 0 PROVE \E h : IsFlat(q, h)
    OBVIOUS
  <2>1. q # <<>>
    BY <1>1
  <2> QED BY <1>1, <2>1, FlatExists
<1> HIDE DEF f, e
<1> DEFINE F(i) == IF i = 1 THEN p[i] ELSE f[i - 1] \o p[i]
           E(i) == IF i = 1 THEN q[i] ELSE e[i - 1] \o q[i]
<1>6. f = [i \in 1..(n + 1) |-> F(i)]
  BY <1>1, <1>4 DEF IsFlat
<1>7. n # 0 => e = [i \in 1..n |-> E(i)]
  BY <1>1, <1>5 DEF IsFlat
<1> HIDE DEF F, E
<1>8. \A i \in 1..(n + 1) : f[i] = F(i)
  BY <1>6
<1>9. n # 0 => \A i \in 1..n : e[i] = E(i)
  BY <1>7
<1>10. ASSUME n # 0 PROVE f[n] = e[n]
  <2> DEFINE T == {k \in Nat : k + 1 <= n => f[k + 1] = e[k + 1]}
  <2>1. 0 \in T
    <3>1. 1 \in 1..n /\ 1 \in 1..(n + 1)
      BY <1>10
    <3> QED BY <1>8, <1>9, <1>10, <3>1 DEF F, E
  <2>2. ASSUME NEW k \in Nat, k \in T PROVE k + 1 \in T
    <3> SUFFICES ASSUME (k + 1) + 1 <= n PROVE f[(k + 1) + 1] = e[(k + 1) + 1]
      OBVIOUS
    <3> DEFINE i == (k + 1) + 1
    <3>1. i \in 1..n /\ i \in 1..(n + 1) /\ i # 1 /\ i - 1 = k + 1 /\ k + 1 <= n
      OBVIOUS
    <3>2. f[i - 1] = e[i - 1] /\ p[i] = q[i]
      BY <2>2, <3>1
    <3> HIDE DEF i
    <3>3. f[i] = f[i - 1] \o p[i] /\ e[i] = e[i - 1] \o q[i]
      BY <1>8, <1>9, <1>10, <3>1 DEF F, E
    <3> QED BY <3>2, <3>3 DEF i
  <2> HIDE DEF T
  <2>3. n - 1 \in Nat
    BY <1>10
  <2>4. n - 1 \in T
    BY <2>1, <2>2, <2>3, Induction
  <2>5. (n - 1) + 1 = n
    OBVIOUS
  <2> QED BY <2>4, <2>5 DEF T
<1>11. CASE n = 0
  <2>1. f[1] = p[1]
    BY <1>8, <1>11 DEF F
  <2>2. q = <<>>
    BY <1>1, <1>11
  <2>3. p[1] \in Seq(S)
    BY <1>11
  <2> QED BY <1>2, <1>3, <1>11, <2>1, <2>2, <2>3, ConcatEmptySeq
<1>12. CASE n # 0
  <2>1. n + 1 # 1 /\ (n + 1) - 1 = n
    BY <1>12
  <2>2. f[n + 1] = f[n] \o p[n + 1]
    BY <1>1, <1>8, <2>1 DEF F
  <2> QED BY <1>2, <1>3, <1>10, <1>12, <2>2
<1> QED BY <1>11, <1>12

LEMMA FlatNone ==
  ASSUME NEW p, p = <<>>
  PROVE  FlattenSeq(p) = <<>>
BY DEF FlattenSeq

\* f is what FlattenSeq makes of p, one list after another.
Gathers(f, S, n, p) ==
  /\ f \in [0..n -> Seq(S)]
  /\ f[0] = <<>> /\ f[n] = FlattenSeq(p)
  /\ \A m \in 1..n : f[m] = f[m - 1] \o p[m]

LEMMA FlatHistory ==
  ASSUME NEW S, NEW n \in Nat, NEW p \in Lists(n, S)
  PROVE  \E f : Gathers(f, S, n, p)
<1> p \in [1..n -> Seq(S)]
  BY DEF Lists
<1> DEFINE upto(m) == [l \in 1..m |-> p[l]]
           flat(m) == FlattenSeq(upto(m))
           f == [m \in 0..n |-> flat(m)]
<1>1. \A m \in 0..n : upto(m) \in [1..m -> Seq(S)] /\ m \in Nat
  OBVIOUS
<1>2. \A m \in 0..n : flat(m) \in Seq(S)
  <2> HIDE DEF upto
  <2> QED BY <1>1, PickedType
<1>3. upto(0) = <<>> /\ upto(n) = p
  OBVIOUS
<1>4. flat(0) = <<>> /\ flat(n) = FlattenSeq(p)
  <2>1. flat(0) = <<>>
    <3> HIDE DEF upto
    <3> QED BY <1>3, FlatNone
  <2> QED BY <1>3, <2>1
<1>5. ASSUME NEW m \in 1..n PROVE flat(m) = flat(m - 1) \o p[m]
  <2> DEFINE k == m - 1
             a == upto(k)
             b == upto(k + 1)
  <2>1. k \in Nat /\ k + 1 = m
        /\ (\A l \in 1..k : a[l] = b[l]) /\ b[k + 1] = p[m]
    OBVIOUS
  <2>4. a \in Lists(k, S) /\ b \in Lists(k + 1, S)
    BY DEF Lists
  <2> HIDE DEF a, b, k
  <2>2. FlattenSeq(b) = FlattenSeq(a) \o b[k + 1]
    BY <2>1, <2>4, FlatNext
  <2>3. FlattenSeq(b) = FlattenSeq(a) \o p[m]
    BY <2>1, <2>2
  <2> QED BY <2>1, <2>3 DEF a, b, k
<1> HIDE DEF flat
<1>6. f \in [0..n -> Seq(S)]
  BY <1>2
<1>7. f[0] = <<>> /\ f[n] = FlattenSeq(p)
  BY <1>4
<1>8. \A m \in 1..n : f[m] = f[m - 1] \o p[m]
  <2> SUFFICES ASSUME NEW m \in 1..n PROVE f[m] = f[m - 1] \o p[m]
    OBVIOUS
  <2>1. m \in 0..n /\ m - 1 \in 0..n
    OBVIOUS
  <2>2. f[m] = flat(m) /\ f[m - 1] = flat(m - 1)
    BY <2>1
  <2> HIDE DEF f
  <2> QED BY <1>5, <2>2
<1> HIDE DEF f
<1> QED BY <1>6, <1>7, <1>8 DEF Gathers

LEMMA ListIs ==
  ASSUME NEW T, NEW n \in Nat, NEW f \in [1..n -> T]
  PROVE  f \in Seq(T) /\ Len(f) = n /\ DOMAIN f = 1..n
OBVIOUS

LEMMA JoinIs ==
  ASSUME NEW T, NEW s \in Seq(T), NEW t \in Seq(T)
  PROVE  /\ s \o t \in Seq(T) /\ Len(s \o t) = Len(s) + Len(t)
         /\ \A i \in 1..(Len(s) + Len(t)) :
              (s \o t)[i] = IF i <= Len(s) THEN s[i] ELSE t[i - Len(s)]
OBVIOUS

IsMerged(s, t, f) == f = [k \in 0..Len(t) |-> IF k = 0 THEN s ELSE Put(f[k - 1], t[k])]

LEMMA PutType ==
  ASSUME NEW S, NEW list \in Seq(S), NEW x \in S
  PROVE  Put(list, x) \in Seq(S)
BY DEF Put

\* f is what Merge makes of s and t, one element of t after another.
Merges(f, S, s, t) ==
  /\ f \in [0..Len(t) -> Seq(S)]
  /\ f[0] = s /\ f[Len(t)] = Merge(s, t)
  /\ \A k \in 1..Len(t) : f[k] = Put(f[k - 1], t[k])

LEMMA MergeHistory ==
  ASSUME NEW S, NEW s \in Seq(S), NEW t \in Seq(S)
  PROVE  \E f : Merges(f, S, s, t)
<1> DEFINE T == Seq(S)
           n == Len(t)
           g == [p \in Nat \X T |-> IF p[1] \in 1..n THEN Put(p[2], t[p[1]]) ELSE p[2]]
           f == CHOOSE f : IsMerged(s, t, f)
<1>1. n \in Nat /\ \A k \in 1..n : t[k] \in S
  OBVIOUS
<1>2. \A k \in 1..n, l \in T : Put(l, t[k]) \in T
  BY <1>1, PutType
<1> HIDE DEF n
<1>3. g \in [Nat \X T -> T]
  <2>1. \A p \in Nat \X T : (IF p[1] \in 1..n THEN Put(p[2], t[p[1]]) ELSE p[2]) \in T
    <3> SUFFICES ASSUME NEW k \in Nat, NEW l \in T
                 PROVE  (IF k \in 1..n THEN Put(l, t[k]) ELSE l) \in T
      OBVIOUS
    <3> QED BY <1>2
  <2> HIDE DEF T
  <2> QED BY <2>1
<1>4. ASSUME NEW k \in 1..n, NEW l \in T PROVE g[<<k, l>>] = Put(l, t[k])
  <2> HIDE DEF T, g
  <2>1. k \in Nat
    BY <1>1
  <2> QED BY <2>1 DEF g
<1> HIDE DEF g
<1>5. \E h : IsMerged(s, t, h)
  <2>1. s \in T
    OBVIOUS
  <2> HIDE DEF T
  <2>2. PICK h : Recurs(h, n, T, s, g)
    BY <1>1, <1>3, <2>1, Recursive
  <2>3. h \in [0..n -> T] /\ h[0] = s /\ \A k \in 1..n : h[k] = g[<<k, h[k - 1]>>]
    BY <2>2 DEF Recurs
  <2> DEFINE body(k) == IF k = 0 THEN s ELSE Put(h[k - 1], t[k])
  <2>4. \A k \in 0..n : h[k] = body(k)
    <3> SUFFICES ASSUME NEW k \in 0..n, k # 0 PROVE h[k] = Put(h[k - 1], t[k])
      BY <2>3
    <3>1. k \in 1..n /\ k - 1 \in 0..n
      BY <1>1
    <3>2. h[k - 1] \in T
      BY <2>3, <3>1
    <3> QED BY <1>4, <2>3, <3>1, <3>2
  <2> HIDE DEF body
  <2>5. h = [k \in 0..n |-> body(k)]
    BY <2>3, <2>4
  <2>6. IsMerged(s, t, h)
    BY <2>5 DEF IsMerged, body, n
  <2> QED BY <2>6
<1>6. IsMerged(s, t, f)
  BY <1>5
<1>7. Merge(s, t) = f[n]
  BY DEF Merge, IsMerged, n
<1> HIDE DEF f
<1> DEFINE body(k) == IF k = 0 THEN s ELSE Put(f[k - 1], t[k])
<1>8. f = [k \in 0..n |-> body(k)]
  BY <1>6 DEF IsMerged, n
<1> HIDE DEF body
<1>9. \A k \in 0..n : f[k] = body(k)
  BY <1>8
<1>10. f[0] \in T /\ \A k \in 1..n : f[k - 1] \in T => f[k] \in T
  <2>1. f[0] = s
    BY <1>1, <1>9 DEF body
  <2> HIDE DEF T
  <2>2. ASSUME NEW k \in 1..n, f[k - 1] \in T PROVE f[k] \in T
    <3>1. k \in 0..n /\ k # 0
      BY <1>1
    <3>2. f[k] = Put(f[k - 1], t[k])
      BY <1>9, <3>1 DEF body
    <3> QED BY <1>2, <2>2, <3>2
  <2> QED BY <2>1, <2>2 DEF T
<1> HIDE DEF T
<1>11. \A k \in 0..n : f[k] \in T
  <2>1. 0 + n = n /\ 0 + 1 = 1 /\ 0 \in Nat
    BY <1>1
  <2>2. \A k \in (0 + 1)..(0 + n) : f[k - 1] \in T => f[k] \in T
    BY <1>10, <2>1
  <2>3. \A k \in 0..(0 + n) : f[k] \in T
    BY <1>1, <1>10, <2>1, <2>2, Kept
  <2> QED BY <2>1, <2>3
<1>12. f[0] = s /\ \A k \in 1..n : f[k] = Put(f[k - 1], t[k])
  <2>1. 0 \in 0..n /\ \A k \in 1..n : k \in 0..n /\ k # 0
    BY <1>1
  <2> QED BY <1>9, <2>1 DEF body
<1>13. f \in [0..n -> T]
  BY <1>8, <1>11
<1>14. Merges(f, S, s, t)
  BY <1>7, <1>12, <1>13 DEF Merges, T, n
<1> QED BY <1>14

\* Whatever puts the elements of t behind s one after another makes Merge(s, t).
Putting(e, s, t) == e[0] = s /\ \A k \in 1..Len(t) : e[k] = Put(e[k - 1], t[k])

LEMMA MergeIs ==
  ASSUME NEW S, NEW s \in Seq(S), NEW t \in Seq(S), NEW e, Putting(e, s, t)
  PROVE  e[Len(t)] = Merge(s, t) /\ Merge(s, t) \in Seq(S)
<1> DEFINE n == Len(t)
<1>1. n \in Nat /\ e[0] = s /\ \A k \in 1..n : e[k] = Put(e[k - 1], t[k])
  BY DEF Putting
<1>2. PICK f : /\ f \in [0..n -> Seq(S)] /\ f[0] = s /\ f[n] = Merge(s, t)
               /\ \A k \in 1..n : f[k] = Put(f[k - 1], t[k])
  <2>1. PICK f : Merges(f, S, s, t)
    BY MergeHistory
  <2> QED BY <2>1 DEF Merges
<1> HIDE DEF n
<1> DEFINE T == {m \in Nat : m <= n => e[m] = f[m]}
<1>3. 0 \in T
  BY <1>1, <1>2
<1>4. ASSUME NEW m \in Nat, m \in T PROVE m + 1 \in T
  <2> SUFFICES ASSUME m + 1 <= n PROVE e[m + 1] = f[m + 1]
    OBVIOUS
  <2>1. m + 1 \in 1..n /\ (m + 1) - 1 = m /\ e[m] = f[m]
    BY <1>1, <1>4
  <2>2. e[m + 1] = Put(e[(m + 1) - 1], t[m + 1])
    BY <1>1, <2>1
  <2>3. f[m + 1] = Put(f[(m + 1) - 1], t[m + 1])
    BY <1>2, <2>1
  <2> QED BY <2>1, <2>2, <2>3
<1> HIDE DEF T
<1>5. n \in T
  BY <1>1, <1>3, <1>4, Induction
<1>6. e[n] = f[n] /\ f[n] \in Seq(S)
  BY <1>1, <1>2, <1>5 DEF T
<1> QED BY <1>2, <1>6 DEF n

LEMMA MergeNone ==
  ASSUME NEW S, NEW s \in Seq(S)
  PROVE  Merge(s, <<>>) = s
<1> DEFINE none == <<>>
           e == [k \in 0..0 |-> s]
<1>1. none \in Seq(S) /\ Len(none) = 0
  OBVIOUS
<1>2. e[0] = s
  OBVIOUS
<1> HIDE DEF none, e
<1>3. Putting(e, s, none)
  <2>1. 1..Len(none) = {}
    BY <1>1
  <2> QED BY <1>2, <2>1 DEF Putting
<1>4. e[Len(none)] = Merge(s, none)
  BY <1>1, <1>3, MergeIs
<1> QED BY <1>1, <1>2, <1>4 DEF none

\* Merging a list and then another is merging both.
LEMMA MergeJoin ==
  ASSUME NEW S, NEW s \in Seq(S), NEW t \in Seq(S), NEW u \in Seq(S)
  PROVE  Merge(s, t \o u) = Merge(Merge(s, t), u)
<1> DEFINE n == Len(t)
           m == Len(u)
           y == Merge(s, t)
           z == t \o u
<1>1. n \in Nat /\ m \in Nat
  OBVIOUS
<1>2. /\ z \in Seq(S) /\ Len(z) = n + m
      /\ \A i \in 1..(n + m) : z[i] = IF i <= n THEN t[i] ELSE u[i - n]
  BY JoinIs
<1>3. PICK a : /\ a \in [0..n -> Seq(S)] /\ a[0] = s /\ a[n] = y
               /\ \A k \in 1..n : a[k] = Put(a[k - 1], t[k])
  <2>1. PICK a : Merges(a, S, s, t)
    BY MergeHistory
  <2> QED BY <2>1 DEF Merges
<1>4. y \in Seq(S)
  BY <1>1, <1>3
<1>5. PICK b : /\ b[0] = y /\ b[m] = Merge(y, u)
               /\ \A k \in 1..m : b[k] = Put(b[k - 1], u[k])
  <2> HIDE DEF y
  <2>1. PICK b : Merges(b, S, y, u)
    BY <1>4, MergeHistory
  <2> QED BY <2>1 DEF Merges
<1> HIDE DEF n, m, y, z
<1> DEFINE e == [k \in 0..(n + m) |-> IF k <= n THEN a[k] ELSE b[k - n]]
<1>6. \A k \in 0..n : e[k] = a[k]
  BY <1>1
<1>7. \A k \in 0..m : e[n + k] = b[k]
  <2> SUFFICES ASSUME NEW k \in 0..m PROVE e[n + k] = b[k]
    OBVIOUS
  <2>1. n + k \in 0..(n + m) /\ (n + k) - n = k
    BY <1>1
  <2>2. CASE k = 0
    BY <1>1, <1>3, <1>5, <2>1, <2>2
  <2>3. CASE k # 0
    <3>1. ~ (n + k <= n)
      BY <1>1, <2>3
    <3> QED BY <2>1, <3>1
  <2> QED BY <2>2, <2>3
<1> HIDE DEF e
<1>8. Putting(e, s, z)
  <2>1. e[0] = s
    BY <1>1, <1>3, <1>6
  <2>2. ASSUME NEW k \in 1..(n + m) PROVE e[k] = Put(e[k - 1], z[k])
    <3>1. CASE k <= n
      <4>1. k \in 1..n /\ k \in 0..n /\ k - 1 \in 0..n
        BY <1>1, <3>1
      <4>2. e[k] = a[k] /\ e[k - 1] = a[k - 1] /\ z[k] = t[k]
        BY <1>2, <1>6, <3>1, <4>1
      <4> QED BY <1>3, <4>1, <4>2
    <3>2. CASE ~ (k <= n)
      <4> DEFINE l == k - n
      <4>1. l \in 1..m /\ l \in 0..m /\ l - 1 \in 0..m /\ n + l = k /\ n + (l - 1) = k - 1
        BY <1>1, <3>2
      <4>2. z[k] = u[l]
        BY <1>2, <3>2
      <4> HIDE DEF l
      <4>3. e[n + l] = b[l] /\ e[n + (l - 1)] = b[l - 1]
        BY <1>7, <4>1
      <4> QED BY <1>5, <4>1, <4>2, <4>3
    <3> QED BY <3>1, <3>2
  <2> QED BY <1>2, <2>1, <2>2 DEF Putting
<1>9. e[Len(z)] = Merge(s, z)
  BY <1>2, <1>8, MergeIs
<1>10. e[n + m] = b[m]
  BY <1>1, <1>7
<1> QED BY <1>2, <1>5, <1>9, <1>10 DEF y, z

\* Merging one element is putting it.
LEMMA MergeOne ==
  ASSUME NEW S, NEW s \in Seq(S), NEW x \in S
  PROVE  Merge(s, <<x>>) = Put(s, x)
<1> DEFINE t == <<x>>
           e == [k \in 0..1 |-> IF k = 0 THEN s ELSE Put(s, x)]
<1>1. t \in Seq(S) /\ Len(t) = 1 /\ t[1] = x
  OBVIOUS
<1>2. e[0] = s /\ e[1] = Put(s, x)
  OBVIOUS
<1> HIDE DEF t, e
<1>3. Putting(e, s, t)
  <2>1. \A k \in 1..Len(t) : k = 1
    BY <1>1
  <2> QED BY <1>1, <1>2, <2>1 DEF Putting
<1>4. e[Len(t)] = Merge(s, t)
  BY <1>1, <1>3, MergeIs
<1> QED BY <1>1, <1>2, <1>4 DEF t

LEMMA MergeNext ==
  ASSUME NEW S, NEW s \in Seq(S), NEW t \in Seq(S), NEW x \in S
  PROVE  Merge(s, Append(t, x)) = Put(Merge(s, t), x)
<1> DEFINE y == Merge(s, t)
           one == <<x>>
<1>1. Append(t, x) = t \o one /\ one \in Seq(S)
  OBVIOUS
<1>2. y \in Seq(S)
  <2>1. PICK f : Merges(f, S, s, t)
    BY MergeHistory
  <2> QED BY <2>1 DEF Merges
<1> HIDE DEF one
<1>3. Merge(s, t \o one) = Merge(y, one)
  BY <1>1, MergeJoin
<1> HIDE DEF y
<1>4. Merge(y, one) = Put(y, x)
  BY <1>2, MergeOne DEF one
<1> QED BY <1>1, <1>3, <1>4 DEF y

\* A list takes nothing from another one it has all elements of.
LEMMA MergeSame ==
  ASSUME NEW S, NEW s \in Seq(S), NEW t \in Seq(S), \A k \in 1..Len(t) : Contains(s, t[k])
  PROVE  Merge(s, t) = s
<1> DEFINE n == Len(t)
           e == [k \in 0..n |-> s]
<1>1. n \in Nat
  OBVIOUS
<1>2. \A k \in 0..n : e[k] = s
  OBVIOUS
<1> HIDE DEF n, e
<1>3. Putting(e, s, t)
  <2>1. ASSUME NEW k \in 1..n PROVE e[k] = Put(e[k - 1], t[k])
    <3>1. k \in 0..n /\ k - 1 \in 0..n
      BY <1>1
    <3>2. Put(s, t[k]) = s
      BY DEF Put, n
    <3> QED BY <1>2, <3>1, <3>2
  <2>2. 0 \in 0..n
    BY <1>1
  <2> QED BY <1>2, <2>1, <2>2 DEF Putting, n
<1>4. e[n] = Merge(s, t)
  BY <1>3, MergeIs DEF n
<1>5. n \in 0..n
  BY <1>1
<1> QED BY <1>2, <1>4, <1>5

\* Merging lists one by one is merging what they make behind one another.
Joining(c, n, s, p) == c[0] = s /\ \A i \in 1..n : c[i] = Merge(c[i - 1], p[i])

LEMMA MergeAll ==
  ASSUME NEW S, NEW s \in Seq(S), NEW n \in Nat, NEW p \in Lists(n, S), NEW c, Joining(c, n, s, p)
  PROVE  c[n] = Merge(s, FlattenSeq(p))
<1> c[0] = s /\ \A i \in 1..n : c[i] = Merge(c[i - 1], p[i])
  BY DEF Joining
<1>1. PICK f : /\ f \in [0..n -> Seq(S)] /\ f[0] = <<>> /\ f[n] = FlattenSeq(p)
               /\ \A m \in 1..n : f[m] = f[m - 1] \o p[m]
  <2>1. PICK f : Gathers(f, S, n, p)
    BY FlatHistory
  <2> QED BY <2>1 DEF Gathers
<1> DEFINE T == {m \in Nat : m <= n => c[m] = Merge(s, f[m])}
<1>2. 0 \in T
  <2>1. Merge(s, <<>>) = s
    BY MergeNone
  <2> QED BY <1>1, <2>1
<1>3. ASSUME NEW m \in Nat, m \in T PROVE m + 1 \in T
  <2> SUFFICES ASSUME m + 1 <= n PROVE c[m + 1] = Merge(s, f[m + 1])
    OBVIOUS
  <2> DEFINE a == f[m]
             b == p[m + 1]
  <2>1. m + 1 \in 1..n /\ (m + 1) - 1 = m /\ m \in 0..n /\ c[m] = Merge(s, a)
    BY <1>3
  <2>2. c[m + 1] = Merge(c[m], b)
    <3>1. c[m + 1] = Merge(c[(m + 1) - 1], p[m + 1])
      BY <2>1
    <3> QED BY <2>1, <3>1
  <2>3. f[m + 1] = a \o b
    <3>1. f[m + 1] = f[(m + 1) - 1] \o p[m + 1]
      BY <1>1, <2>1
    <3> QED BY <2>1, <3>1
  <2>4. a \in Seq(S) /\ b \in Seq(S)
    BY <1>1, <2>1 DEF Lists
  <2> HIDE DEF a, b
  <2>5. Merge(s, a \o b) = Merge(Merge(s, a), b)
    BY <2>4, MergeJoin
  <2> QED BY <2>1, <2>2, <2>3, <2>5
<1> HIDE DEF T
<1>4. n \in T
  BY <1>2, <1>3, Induction
<1> QED BY <1>1, <1>4 DEF T

-----------------------------------------------------------------------------
(* The order of the nodes.                                                   *)

\* The list o is made of b by merging the lists of tk into it one after another,
\* len[i] nodes long after the i-th; what the i-th adds lies one further than
\* the i-th node of the list.
Builds(len, o, dp, P, tk, b) ==
  /\ len \in [0..P -> 0..Len(o)] /\ len[P] = Len(o)
  /\ \A i, j \in 0..P : i <= j => len[i] <= len[j]
  /\ \A j \in 1..len[0] : dp[o[j]] = 0
  /\ \A i \in 1..P : \A j \in (len[i - 1] + 1)..len[i] : dp[o[j]] = dp[o[i]] + 1
  /\ SubSeq(o, 1, len[0]) = b
  /\ \A i \in 1..P : SubSeq(o, 1, len[i]) = Merge(SubSeq(o, 1, len[i - 1]), tk[i])

LEMMA WholeIs ==
  ASSUME NEW S, NEW o \in Seq(S)
  PROVE  SubSeq(o, 1, Len(o)) = o
<1>1. /\ SubSeq(o, 1, Len(o)) \in Seq(S) /\ Len(SubSeq(o, 1, Len(o))) = Len(o)
      /\ \A i \in 1..Len(o) : SubSeq(o, 1, Len(o))[i] = o[i]
  OBVIOUS
<1> DEFINE z == SubSeq(o, 1, Len(o))
<1> HIDE DEF z
<1>2. z \in Seq(S) /\ Len(z) = Len(o) /\ \A i \in 1..Len(o) : z[i] = o[i]
  BY <1>1 DEF z
<1>3. z = o
  BY <1>2, SeqEqual
<1> QED BY <1>3 DEF z

\* A list that only grows keeps its beginnings.
LEMMA StartStays ==
  ASSUME NEW S, NEW o \in Seq(S), NEW x \in S, NEW k \in 0..Len(o)
  PROVE  /\ SubSeq(Append(o, x), 1, k) = SubSeq(o, 1, k) /\ SubSeq(o, 1, k) \in Seq(S)
<1> DEFINE y == SubSeq(Append(o, x), 1, k)
           z == SubSeq(o, 1, k)
<1>1. /\ y \in Seq(S) /\ Len(y) = k /\ z \in Seq(S) /\ Len(z) = k
      /\ \A i \in 1..k : y[i] = z[i]
  OBVIOUS
<1> HIDE DEF y, z
<1>2. y = z
  BY <1>1, SeqEqual
<1> QED BY <1>1, <1>2 DEF y, z

LEMMA BuildsFirst ==
  ASSUME NEW S, NEW o \in Seq(S), NEW dp, \A j \in 1..Len(o) : dp[o[j]] = 0, NEW tk
  PROVE  \E len : Builds(len, o, dp, 0, tk, o)
<1> DEFINE len == [i \in 0..0 |-> Len(o)]
<1>1. Len(o) \in Nat /\ 1..0 = {} /\ SubSeq(o, 1, Len(o)) = o
  BY WholeIs
<1>2. len \in [0..0 -> 0..Len(o)] /\ len[0] = Len(o)
  BY <1>1
<1> HIDE DEF len
<1>3. \A i, j \in 0..0 : i <= j => len[i] <= len[j]
  BY <1>1, <1>2
<1>4. Builds(len, o, dp, 0, tk, o)
  BY <1>1, <1>2, <1>3 DEF Builds
<1> QED BY <1>4

\* Another node, of which nothing has been merged yet.
Extends(tk2, tk, P, x) == (\A i \in 1..P : tk2[i] = tk[i]) /\ tk2[P + 1] = x

LEMMA BuildsNode ==
  ASSUME NEW S, NEW o \in Seq(S), NEW dp, NEW P \in Nat, NEW tk, NEW b, NEW len, Builds(len, o, dp, P, tk, b),
         NEW tk2, Extends(tk2, tk, P, <<>>)
  PROVE  \E l : Builds(l, o, dp, P + 1, tk2, b)
<1> DEFINE n == Len(o)
           l == [i \in 0..(P + 1) |-> IF i <= P THEN len[i] ELSE n]
           none == <<>>
<1>1. /\ n \in Nat /\ len \in [0..P -> 0..n] /\ len[P] = n
      /\ \A i, j \in 0..P : i <= j => len[i] <= len[j]
      /\ \A j \in 1..len[0] : dp[o[j]] = 0
      /\ \A i \in 1..P : \A j \in (len[i - 1] + 1)..len[i] : dp[o[j]] = dp[o[i]] + 1
      /\ SubSeq(o, 1, len[0]) = b
      /\ \A i \in 1..P : SubSeq(o, 1, len[i]) = Merge(SubSeq(o, 1, len[i - 1]), tk[i])
  BY DEF Builds
<1>2. (\A i \in 1..P : tk2[i] = tk[i]) /\ tk2[P + 1] = none
  BY DEF Extends
<1>3. SubSeq(o, 1, n) = o /\ Merge(o, none) = o
  BY WholeIs, MergeNone
<1> HIDE DEF n, none
<1>4. (\A i \in 0..P : l[i] = len[i]) /\ l[P + 1] = n
  OBVIOUS
<1>5. l \in [0..(P + 1) -> 0..n]
  BY <1>1
<1> HIDE DEF l
<1>6. \A i \in 0..(P + 1) : i \in 0..P \/ i = P + 1
  OBVIOUS
<1>7. \A i, j \in 0..(P + 1) : i <= j => l[i] <= l[j]
  <2> SUFFICES ASSUME NEW i \in 0..(P + 1), NEW j \in 0..(P + 1), i <= j PROVE l[i] <= l[j]
    OBVIOUS
  <2>1. CASE j = P + 1
    BY <1>1, <1>4, <1>5, <2>1
  <2>2. CASE j \in 0..P
    <3>1. i \in 0..P
      BY <2>2
    <3> QED BY <1>1, <1>4, <2>2, <3>1
  <2> QED BY <1>6, <2>1, <2>2
<1>8. 0 \in 0..P /\ l[0] = len[0] /\ l[P] = n
  BY <1>1, <1>4
<1>9. ASSUME NEW i \in 1..(P + 1)
      PROVE  /\ \A j \in (l[i - 1] + 1)..l[i] : dp[o[j]] = dp[o[i]] + 1
             /\ SubSeq(o, 1, l[i]) = Merge(SubSeq(o, 1, l[i - 1]), tk2[i])
  <2>1. CASE i = P + 1
    <3>1. l[i] = n /\ i - 1 = P /\ l[i - 1] = n
      BY <1>4, <1>8, <2>1
    <3>2. (n + 1)..n = {}
      BY <1>1
    <3> QED BY <1>2, <1>3, <2>1, <3>1, <3>2
  <2>2. CASE i \in 1..P
    <3>1. i \in 0..P /\ i - 1 \in 0..P
      BY <2>2
    <3>2. l[i] = len[i] /\ l[i - 1] = len[i - 1] /\ tk2[i] = tk[i]
      BY <1>2, <1>4, <2>2, <3>1
    <3> QED BY <1>1, <2>2, <3>2
  <2>3. i = P + 1 \/ i \in 1..P
    OBVIOUS
  <2> QED BY <2>1, <2>2, <2>3
<1>10. Builds(l, o, dp, P + 1, tk2, b)
  BY <1>1, <1>4, <1>5, <1>7, <1>8, <1>9 DEF Builds, n
<1> QED BY <1>10

\* One more neighbour of the last node, listed already or not.
Lengthens(tk2, tk, P, x) == (\A i \in 1..(P - 1) : tk2[i] = tk[i]) /\ tk2[P] = Append(tk[P], x)

LEMMA BuildsKnown ==
  ASSUME NEW S, NEW o \in Seq(S), NEW dp, NEW P \in Nat, P > 0, NEW tk, tk[P] \in Seq(S), NEW b,
         NEW len, Builds(len, o, dp, P, tk, b),
         NEW x \in S, Contains(o, x), NEW tk2, Lengthens(tk2, tk, P, x)
  PROVE  Builds(len, o, dp, P, tk2, b)
<1>1. /\ len \in [0..P -> 0..Len(o)] /\ len[P] = Len(o)
      /\ \A i \in 1..P : SubSeq(o, 1, len[i]) = Merge(SubSeq(o, 1, len[i - 1]), tk[i])
  BY DEF Builds
<1>2. (\A i \in 1..(P - 1) : tk2[i] = tk[i]) /\ tk2[P] = Append(tk[P], x)
  BY DEF Lengthens
<1> DEFINE s == SubSeq(o, 1, len[P - 1])
           t == tk[P]
<1>3. SubSeq(o, 1, Len(o)) = o
  BY WholeIs
<1>4. s \in Seq(S)
  <2>1. len[P - 1] \in 0..Len(o)
    BY <1>1
  <2> QED BY <2>1, StartStays
<1>5. o = Merge(s, t)
  <2>1. P \in 1..P
    OBVIOUS
  <2> QED BY <1>1, <1>3, <2>1
<1>6. t \in Seq(S)
  OBVIOUS
<1> HIDE DEF s, t
<1>7. Merge(s, Append(t, x)) = Put(o, x)
  BY <1>4, <1>5, <1>6, MergeNext
<1>8. Put(o, x) = o
  BY DEF Put
<1>9. SubSeq(o, 1, len[P]) = Merge(SubSeq(o, 1, len[P - 1]), tk2[P])
  BY <1>1, <1>2, <1>3, <1>7, <1>8 DEF s, t
<1>10. \A i \in 1..P : SubSeq(o, 1, len[i]) = Merge(SubSeq(o, 1, len[i - 1]), tk2[i])
  <2> SUFFICES ASSUME NEW i \in 1..P PROVE SubSeq(o, 1, len[i]) = Merge(SubSeq(o, 1, len[i - 1]), tk2[i])
    OBVIOUS
  <2>1. CASE i = P
    BY <1>9, <2>1
  <2>2. CASE i # P
    <3>1. i \in 1..(P - 1)
      BY <2>2
    <3> QED BY <1>1, <1>2, <3>1
  <2> QED BY <2>1, <2>2
<1> QED BY <1>10 DEF Builds

LEMMA BuildsNew ==
  ASSUME NEW S, NEW o \in Seq(S), NEW dp, NEW P \in 1..Len(o), NEW tk, tk[P] \in Seq(S), NEW b,
         NEW len, Builds(len, o, dp, P, tk, b),
         NEW x \in S, ~ Contains(o, x), NEW tk2, Lengthens(tk2, tk, P, x),
         NEW dq, \A j \in 1..Len(o) : dq[o[j]] = dp[o[j]], dq[x] = dp[o[P]] + 1
  PROVE  \E l : Builds(l, Append(o, x), dq, P, tk2, b)
<1> DEFINE n == Len(o)
           y == Append(o, x)
           l == [i \in 0..P |-> IF i = P THEN n + 1 ELSE len[i]]
<1>1. /\ n \in Nat /\ len \in [0..P -> 0..n] /\ len[P] = n
      /\ \A i, j \in 0..P : i <= j => len[i] <= len[j]
      /\ \A j \in 1..len[0] : dp[o[j]] = 0
      /\ \A i \in 1..P : \A j \in (len[i - 1] + 1)..len[i] : dp[o[j]] = dp[o[i]] + 1
      /\ SubSeq(o, 1, len[0]) = b
      /\ \A i \in 1..P : SubSeq(o, 1, len[i]) = Merge(SubSeq(o, 1, len[i - 1]), tk[i])
  BY DEF Builds
<1>2. (\A i \in 1..(P - 1) : tk2[i] = tk[i]) /\ tk2[P] = Append(tk[P], x)
  BY DEF Lengthens
<1>3. P \in Nat /\ P > 0 /\ P <= n
  OBVIOUS
<1>4. /\ y \in Seq(S) /\ Len(y) = n + 1 /\ y[n + 1] = x
      /\ \A j \in 1..n : y[j] = o[j]
  OBVIOUS
<1>5. SubSeq(o, 1, n) = o /\ SubSeq(y, 1, n + 1) = y
  BY <1>4, WholeIs
<1>6. \A k \in 0..n : SubSeq(y, 1, k) = SubSeq(o, 1, k) /\ SubSeq(o, 1, k) \in Seq(S)
  BY StartStays
<1> DEFINE s == SubSeq(o, 1, len[P - 1])
           t == tk[P]
<1>7. s \in Seq(S) /\ t \in Seq(S) /\ o = Merge(s, t)
  <2>1. len[P - 1] \in 0..n /\ P \in 1..P
    BY <1>1, <1>3
  <2> QED BY <1>1, <1>5, <1>6, <2>1
<1>8. Merge(s, Append(t, x)) = Put(Merge(s, t), x)
  <2> HIDE DEF s, t
  <2> QED BY <1>7, MergeNext
<1>9. Put(o, x) = y
  BY DEF Put
<1> HIDE DEF n, y
<1>20. n \in Nat
  BY <1>1
<1>10. (\A i \in 0..(P - 1) : l[i] = len[i]) /\ l[P] = n + 1
  BY <1>3
<1>11. l \in [0..P -> 0..(n + 1)]
  BY <1>1
<1> HIDE DEF l
<1>12. \A i \in 0..P : i \in 0..(P - 1) \/ i = P
  BY <1>3
<1>13. \A i, j \in 0..P : i <= j => l[i] <= l[j]
  <2> SUFFICES ASSUME NEW i \in 0..P, NEW j \in 0..P, i <= j PROVE l[i] <= l[j]
    OBVIOUS
  <2>1. CASE j = P
    BY <1>1, <1>10, <1>11, <2>1
  <2>2. CASE j \in 0..(P - 1)
    <3>1. i \in 0..(P - 1)
      BY <1>3, <2>2
    <3> QED BY <1>1, <1>10, <2>2, <3>1
  <2> QED BY <1>12, <2>1, <2>2
<1>14. l[0] = len[0] /\ 0 \in 0..P /\ len[0] \in 0..n
  BY <1>1, <1>3, <1>10
<1>15. \A j \in 1..l[0] : dq[y[j]] = 0
  <2>1. \A j \in 1..len[0] : j \in 1..n
    BY <1>14, <1>20
  <2>2. \A j \in 1..n : dq[y[j]] = dp[o[j]]
    BY <1>4 DEF n
  <2> QED BY <1>1, <1>14, <2>1, <2>2
<1>16. SubSeq(y, 1, l[0]) = b
  BY <1>1, <1>6, <1>14
<1>17. ASSUME NEW i \in 1..P
       PROVE  \A j \in (l[i - 1] + 1)..l[i] : dq[y[j]] = dq[y[i]] + 1
  <2> SUFFICES ASSUME NEW j \in (l[i - 1] + 1)..l[i] PROVE dq[y[j]] = dq[y[i]] + 1
    OBVIOUS
  <2>1. i \in 1..n /\ dq[y[i]] = dp[o[i]] /\ i - 1 \in 0..(P - 1) /\ l[i - 1] = len[i - 1] /\ len[i - 1] \in 0..n
    <3>1. i \in 1..n /\ i - 1 \in 0..(P - 1) /\ i - 1 \in 0..P
      BY <1>3, <1>20
    <3>2. dq[y[i]] = dp[o[i]]
      BY <1>4, <3>1 DEF n
    <3> QED BY <1>1, <1>10, <3>1, <3>2
  <2>2. CASE i # P \/ j # n + 1
    <3>1. j \in (len[i - 1] + 1)..len[i] /\ j \in 1..n
      <4>1. CASE i # P
        <5>1. i \in 0..(P - 1) /\ i \in 0..P
          BY <1>3, <4>1
        <5>2. l[i] = len[i] /\ len[i] \in 0..n
          BY <1>1, <1>10, <5>1
        <5> QED BY <1>20, <2>1, <5>2
      <4>2. CASE i = P
        <5>1. l[i] = n + 1 /\ len[i] = n /\ j # n + 1
          BY <1>1, <1>10, <2>2, <4>2
        <5> QED BY <1>20, <2>1, <5>1
      <4> QED BY <4>1, <4>2
    <3>2. dp[o[j]] = dp[o[i]] + 1
      BY <1>1, <3>1
    <3> QED BY <1>4, <2>1, <3>1, <3>2 DEF n
  <2>3. CASE i = P /\ j = n + 1
    BY <1>4, <2>1, <2>3
  <2> QED BY <2>2, <2>3
<1>18. ASSUME NEW i \in 1..P
       PROVE  SubSeq(y, 1, l[i]) = Merge(SubSeq(y, 1, l[i - 1]), tk2[i])
  <2>1. i - 1 \in 0..(P - 1) /\ l[i - 1] = len[i - 1] /\ len[i - 1] \in 0..n
    BY <1>1, <1>3, <1>10
  <2>2. SubSeq(y, 1, l[i - 1]) = SubSeq(o, 1, len[i - 1])
    BY <1>6, <2>1
  <2>3. CASE i = P
    BY <1>2, <1>5, <1>7, <1>8, <1>9, <1>10, <2>2, <2>3
  <2>4. CASE i # P
    <3>1. i \in 1..(P - 1) /\ i \in 0..(P - 1) /\ i \in 0..P
      BY <1>3, <2>4
    <3>2. l[i] = len[i] /\ len[i] \in 0..n /\ tk2[i] = tk[i]
      BY <1>1, <1>2, <1>10, <3>1
    <3> QED BY <1>1, <1>6, <2>2, <3>2
  <2> QED BY <2>3, <2>4
<1>19. Builds(l, y, dq, P, tk2, b)
  BY <1>4, <1>10, <1>11, <1>13, <1>15, <1>16, <1>17, <1>18 DEF Builds
<1> QED BY <1>19 DEF y

\* The first q nodes of the list o are those nearer than h.
Cut(h, q, o, dp) == q \in 0..Len(o) /\ \A i \in 1..Len(o) : i <= q <=> dp[o[i]] < h

\* The list of a walk that has looked at every neighbour it may look at.
Complies(o, S, len, dp, tk, b, H, g) ==
  /\ Builds(len, o, dp, Len(o), tk, b)
  /\ \A i \in 1..Len(o) : dp[o[i]] \in 0..H
  /\ \A i \in 1..Len(o) : tk[i] = IF dp[o[i]] < H THEN Others(g[o[i]]) ELSE <<>>
  /\ \A x \in S : Others(g[x]) \in Seq(S)
  /\ \A i \in 1..Len(o) : dp[o[i]] < H =>
       \A k \in 1..Len(Others(g[o[i]])) :
         \E j \in 1..Len(o) : o[j] = Others(g[o[i]])[k] /\ dp[o[j]] <= dp[o[i]] + 1

LEMMA CutOnce ==
  ASSUME NEW S, NEW o \in Seq(S), NEW dp, NEW h, NEW p, NEW q, Cut(h, p, o, dp), Cut(h, q, o, dp)
  PROVE  p = q
<1>1. Len(o) \in Nat
  OBVIOUS
<1>2. p \in 0..Len(o) /\ q \in 0..Len(o) /\ \A i \in 1..Len(o) : i <= p <=> i <= q
  BY DEF Cut
<1>3. p # 0 => p \in 1..Len(o) /\ p <= p
  BY <1>1, <1>2
<1>4. q # 0 => q \in 1..Len(o) /\ q <= q
  BY <1>1, <1>2
<1>5. p # 0 => p <= q
  BY <1>2, <1>3
<1>6. q # 0 => q <= p
  BY <1>2, <1>4
<1> QED BY <1>1, <1>2, <1>5, <1>6

\* Every node was put there at the start or by some node of the list.
LEMMA Placed ==
  ASSUME NEW n \in Nat, NEW len \in [0..n -> 0..n], len[n] = n, NEW j \in 1..n
  PROVE  j <= len[0] \/ \E i \in 1..n : len[i - 1] < j /\ j <= len[i]
<1> DEFINE T == {i \in 0..n : j <= len[i]}
<1>1. T \in SUBSET Nat /\ T # {}
  <2>1. n \in T
    OBVIOUS
  <2> QED BY <2>1
<1>2. PICK i \in T : \A y \in T : i <= y
  <2> HIDE DEF T
  <2> QED BY <1>1, Least
<1>3. i \in 0..n /\ j <= len[i]
  OBVIOUS
<1>4. CASE i = 0
  BY <1>3, <1>4
<1>5. CASE i # 0
  <2>1. i \in 1..n /\ i - 1 \in 0..n /\ ~ (i <= i - 1)
    BY <1>3, <1>5
  <2>2. i - 1 \notin T
    BY <1>2, <2>1
  <2>3. ~ (j <= len[i - 1]) /\ len[i - 1] \in 0..n
    BY <2>1, <2>2
  <2> QED BY <1>3, <2>1, <2>3
<1> QED BY <1>4, <1>5

\* What the nodes nearer than h have put there is what is nearer than h + 1.
LEMMA CutNext ==
  ASSUME NEW S, NEW o \in Seq(S), NEW len, NEW dp, NEW tk, NEW b, NEW H \in Nat, NEW g,
         Complies(o, S, len, dp, tk, b, H, g), NEW h \in Nat, NEW q, Cut(h, q, o, dp)
  PROVE  Cut(h + 1, len[q], o, dp)
<1> DEFINE n == Len(o)
<1>1. /\ n \in Nat /\ len \in [0..n -> 0..n] /\ len[n] = n
      /\ \A i, j \in 0..n : i <= j => len[i] <= len[j]
      /\ \A j \in 1..len[0] : dp[o[j]] = 0
      /\ \A i \in 1..n : \A j \in (len[i - 1] + 1)..len[i] : dp[o[j]] = dp[o[i]] + 1
      /\ \A i \in 1..n : dp[o[i]] \in 0..H
  BY DEF Complies, Builds
<1>2. q \in 0..n /\ \A i \in 1..n : i <= q <=> dp[o[i]] < h
  BY DEF Cut
<1>3. len[q] \in 0..n /\ len[0] \in 0..n /\ len[0] <= len[q]
  <2> HIDE DEF n
  <2> QED BY <1>1, <1>2
<1> SUFFICES ASSUME NEW j \in 1..n PROVE j <= len[q] <=> dp[o[j]] < h + 1
  BY <1>3 DEF Cut
<1> HIDE DEF n
<1>7. n \in Nat
  BY <1>1
<1>4. CASE j <= len[0]
  <2>1. j \in 1..len[0] /\ j <= len[q]
    BY <1>3, <1>4, <1>7
  <2>2. dp[o[j]] = 0
    BY <1>1, <2>1
  <2> QED BY <2>1, <2>2
<1>5. ASSUME NEW i \in 1..n, len[i - 1] < j, j <= len[i] PROVE j <= len[q] <=> dp[o[j]] < h + 1
  <2>1. i \in 0..n /\ i - 1 \in 0..n /\ len[i] \in 0..n /\ len[i - 1] \in 0..n /\ n \in Nat
    BY <1>1
  <2>2. j \in (len[i - 1] + 1)..len[i]
    BY <1>5, <2>1
  <2>3. dp[o[j]] = dp[o[i]] + 1 /\ dp[o[i]] \in 0..H
    BY <1>1, <2>2
  <2>4. i <= q <=> dp[o[i]] < h
    BY <1>2
  <2>5. CASE i <= q
    <3>1. len[i] <= len[q]
      BY <1>1, <1>2, <2>1, <2>5
    <3>2. j <= len[q]
      BY <1>3, <1>5, <2>1, <3>1
    <3> QED BY <2>3, <2>4, <2>5, <3>2
  <2>6. CASE ~ (i <= q)
    <3>1. q <= i - 1
      BY <1>2, <2>1, <2>6
    <3>2. len[q] <= len[i - 1]
      BY <1>1, <1>2, <2>1, <3>1
    <3>3. ~ (j <= len[q])
      BY <1>3, <1>5, <2>1, <3>2
    <3> QED BY <2>3, <2>4, <2>6, <3>3
  <2> QED BY <2>5, <2>6
<1>6. j <= len[0] \/ \E i \in 1..n : len[i - 1] < j /\ j <= len[i]
  BY <1>1, Placed
<1> QED BY <1>4, <1>5, <1>6

LEMMA CutExists ==
  ASSUME NEW S, NEW o \in Seq(S), NEW len, NEW dp, NEW tk, NEW b, NEW H \in Nat, NEW g,
         Complies(o, S, len, dp, tk, b, H, g)
  PROVE  Cut(0, 0, o, dp) /\ \A h \in Nat : \E q : Cut(h, q, o, dp)
<1> DEFINE T == {h \in Nat : \E q : Cut(h, q, o, dp)}
<1>1. Cut(0, 0, o, dp)
  <2>1. Len(o) \in Nat /\ \A i \in 1..Len(o) : dp[o[i]] \in 0..H
    BY DEF Complies
  <2> QED BY <2>1 DEF Cut
<1>2. 0 \in T
  BY <1>1
<1>3. ASSUME NEW h \in Nat, h \in T PROVE h + 1 \in T
  <2>1. PICK q : Cut(h, q, o, dp)
    BY <1>3
  <2>2. Cut(h + 1, len[q], o, dp)
    BY <2>1, CutNext
  <2> QED BY <2>2
<1> HIDE DEF T
<1>4. Nat \subseteq T
  BY <1>2, <1>3, Induction
<1> QED BY <1>1, <1>4 DEF T

\* From the nodes within h hops the next layer leads to those within h + 1: of
\* the nodes listed, those nearer than h add nothing, since what they lead to is
\* there, and the others add what they did when they were taken out of the queue.
LEMMA CutLayer ==
  ASSUME NEW S, NEW o \in Seq(S), NEW len, NEW dp, NEW tk, NEW b, NEW H \in Nat, NEW g,
         Complies(o, S, len, dp, tk, b, H, g), NEW h \in Nat, h < H, NEW q, Cut(h, q, o, dp)
  PROVE  NextLayer(g, SubSeq(o, 1, len[q])) = SubSeq(o, 1, len[len[q]])
<1> DEFINE n == Len(o)
           r == len[q]
           s == SubSeq(o, 1, r)
           p == [i \in 1..r |-> Others(g[o[i]])]
           c == [i \in 0..r |-> IF i <= q THEN s ELSE SubSeq(o, 1, len[i])]
<1>1. /\ n \in Nat /\ len \in [0..n -> 0..n]
      /\ \A i \in 1..n : SubSeq(o, 1, len[i]) = Merge(SubSeq(o, 1, len[i - 1]), tk[i])
      /\ \A i \in 1..n : dp[o[i]] \in 0..H
      /\ \A i \in 1..n : tk[i] = IF dp[o[i]] < H THEN Others(g[o[i]]) ELSE <<>>
      /\ \A x \in S : Others(g[x]) \in Seq(S)
  BY DEF Complies, Builds
<1>2. /\ q \in 0..n /\ \A i \in 1..n : i <= q <=> dp[o[i]] < h
      /\ r \in 0..n /\ \A i \in 1..n : i <= r <=> dp[o[i]] < h + 1
  BY CutNext DEF Cut
<1>3. /\ s \in Seq(S) /\ Len(s) = r /\ \A i \in 1..r : s[i] = o[i]
      /\ \A i \in 1..n : o[i] \in S
  <2>1. \A i \in 1..n : o[i] \in S
    OBVIOUS
  <2>2. r \in 0..Len(o)
    BY <1>2
  <2> HIDE DEF r
  <2> QED BY <2>1, <2>2
<1>4. \A i \in 1..n : dp[o[i]] < H =>
        \A k \in 1..Len(Others(g[o[i]])) :
          \E j \in 1..n : o[j] = Others(g[o[i]])[k] /\ dp[o[j]] <= dp[o[i]] + 1
  BY DEF Complies
<1>5. q <= r
  <2>1. CASE q = 0
    BY <1>2, <2>1
  <2>2. CASE q # 0
    <3>1. q \in 1..n /\ q <= q /\ dp[o[q]] \in 0..H
      BY <1>1, <1>2, <2>2
    <3>2. dp[o[q]] < h
      BY <1>2, <3>1
    <3>3. dp[o[q]] < h + 1
      BY <3>1, <3>2
    <3> QED BY <1>2, <3>1, <3>3
  <2> QED BY <2>1, <2>2
<1>6. AllNeighbours(g, s) = FlattenSeq(p)
  <2>1. DOMAIN s = 1..r
    BY <1>3
  <2>2. [i \in DOMAIN s |-> Others(g[s[i]])] = p
    BY <1>3, <2>1
  <2> HIDE DEF s, p
  <2> QED BY <2>2 DEF AllNeighbours
<1> HIDE DEF n, s
<1>16. n \in Nat /\ r \in 0..n
  BY <1>1, <1>2
<1>7. \A i \in 1..r : i \in 1..n /\ o[i] \in S /\ p[i] = Others(g[o[i]]) /\ p[i] \in Seq(S)
  <2> SUFFICES ASSUME NEW i \in 1..r
               PROVE  i \in 1..n /\ o[i] \in S /\ p[i] = Others(g[o[i]]) /\ p[i] \in Seq(S)
    OBVIOUS
  <2>1. p[i] = Others(g[o[i]])
    OBVIOUS
  <2> HIDE DEF p, r
  <2>2. i \in 1..n
    BY <1>16
  <2>3. o[i] \in S
    BY <1>3, <2>2
  <2> QED BY <1>1, <2>1, <2>2, <2>3
<1>8. p \in Lists(r, S) /\ r \in Nat
  <2>1. r \in Nat /\ p = [i \in 1..r |-> Others(g[o[i]])]
    BY <1>16
  <2>2. \A i \in 1..r : Others(g[o[i]]) \in Seq(S)
    BY <1>7
  <2> HIDE DEF p, r
  <2> QED BY <2>1, <2>2 DEF Lists
<1>9. c[0] = s
  <2>1. 0 \in 0..r /\ 0 <= q
    BY <1>2, <1>8
  <2> QED BY <2>1
<1>10. \A i \in 0..r : /\ i <= q => c[i] = s
                       /\ ~ (i <= q) => c[i] = SubSeq(o, 1, len[i])
  OBVIOUS
<1>11. c[r] = SubSeq(o, 1, len[r])
  <2>1. r \in 0..r
    BY <1>8
  <2>2. CASE r <= q
    <3>1. r = q
      BY <1>2, <1>5, <2>2
    <3>2. SubSeq(o, 1, len[r]) = s
      BY <3>1 DEF s
    <3> QED BY <1>10, <2>1, <2>2, <3>2
  <2>3. CASE ~ (r <= q)
    BY <1>10, <2>1, <2>3
  <2> QED BY <2>2, <2>3
<1>12. SubSeq(o, 1, len[q]) = s
  BY DEF s
<1> HIDE DEF c, p, r
<1>13. ASSUME NEW i \in 1..r PROVE c[i] = Merge(c[i - 1], p[i])
  <2>1. i \in 1..n /\ i \in 0..r /\ i - 1 \in 0..r /\ p[i] = Others(g[o[i]]) /\ p[i] \in Seq(S)
        /\ dp[o[i]] \in 0..H /\ dp[o[i]] < h + 1
    <3>1. i \in 1..n /\ i \in 0..r /\ i - 1 \in 0..r /\ p[i] = Others(g[o[i]]) /\ p[i] \in Seq(S)
      BY <1>7, <1>8
    <3>2. i <= r
      OBVIOUS
    <3> QED BY <1>1, <1>2, <3>1, <3>2
  <2>2. CASE i <= q
    <3>1. i - 1 <= q
      BY <1>2, <2>1, <2>2
    <3>2. c[i] = s /\ c[i - 1] = s
      BY <1>10, <2>1, <2>2, <3>1
    <3>3. ASSUME NEW k \in 1..Len(p[i]) PROVE Contains(s, p[i][k])
      <4>1. dp[o[i]] < h /\ dp[o[i]] < H
        BY <1>2, <2>1, <2>2
      <4>2. PICK j \in 1..n : o[j] = p[i][k] /\ dp[o[j]] <= dp[o[i]] + 1
        <5>1. k \in 1..Len(Others(g[o[i]])) /\ p[i][k] = Others(g[o[i]])[k]
          BY <2>1
        <5> QED BY <1>4, <2>1, <4>1, <5>1
      <4>3. dp[o[j]] \in 0..H /\ dp[o[i]] \in 0..H
        BY <1>1, <2>1
      <4> DEFINE x == dp[o[i]]
                 y == dp[o[j]]
      <4>7. x \in Nat /\ y \in Nat /\ x < h /\ y <= x + 1
        BY <4>1, <4>2, <4>3
      <4> HIDE DEF x, y
      <4>8. y < h + 1
        BY <4>7
      <4>4. dp[o[j]] < h + 1
        BY <4>8 DEF y
      <4>5. j <= r
        BY <1>2, <4>4
      <4>6. j \in 1..r /\ j \in 1..Len(s) /\ s[j] = o[j]
        BY <1>3, <1>8, <4>5
      <4> QED BY <4>2, <4>6 DEF Contains
    <3> DEFINE t == p[i]
    <3>4. t \in Seq(S) /\ \A k \in 1..Len(t) : Contains(s, t[k])
      BY <2>1, <3>3
    <3> HIDE DEF t
    <3>5. Merge(s, t) = s
      BY <1>3, <3>4, MergeSame
    <3> QED BY <3>2, <3>5 DEF t
  <2>3. CASE ~ (i <= q)
    <3>1. c[i] = SubSeq(o, 1, len[i])
      BY <1>10, <2>1, <2>3
    <3>2. c[i - 1] = SubSeq(o, 1, len[i - 1])
      <4>1. CASE i - 1 <= q
        <5>1. i - 1 = q
          BY <1>2, <2>1, <2>3, <4>1
        <5> QED BY <1>10, <1>12, <2>1, <4>1, <5>1
      <4>2. CASE ~ (i - 1 <= q)
        BY <1>10, <2>1, <4>2
      <4> QED BY <4>1, <4>2
    <3>3. dp[o[i]] < H
      BY <2>1
    <3>4. tk[i] = p[i]
      BY <1>1, <2>1, <3>3
    <3> QED BY <1>1, <2>1, <3>1, <3>2, <3>4
  <2> QED BY <2>2, <2>3
<1>14. Joining(c, r, s, p)
  BY <1>9, <1>13 DEF Joining
<1>15. c[r] = Merge(s, FlattenSeq(p))
  BY <1>3, <1>8, <1>14, MergeAll
<1> QED BY <1>6, <1>11, <1>15 DEF NextLayer, s, r

\* The recursion of WalkOrder.
IsWalk(g, st, H, w) ==
  w = [h \in 0..H |-> IF h = 0 THEN Merge(<<>>, Present(g, st)) ELSE NextLayer(g, w[h - 1])]

LEMMA WalkIs ==
  ASSUME NEW S, NEW o \in Seq(S), NEW len, NEW dp, NEW tk, NEW H \in Nat, NEW g, NEW st,
         Complies(o, S, len, dp, tk, Merge(<<>>, Present(g, st)), H, g)
  PROVE  WalkOrder(g, st, H) = o
<1> DEFINE n == Len(o)
           b == Merge(<<>>, Present(g, st))
           cut(h) == CHOOSE q : Cut(h, q, o, dp)
           list(h) == SubSeq(o, 1, len[cut(h)])
           w == [h \in 0..H |-> list(h)]
           f == CHOOSE f : IsWalk(g, st, H, f)
<1>1. Cut(0, 0, o, dp) /\ \A h \in Nat : Cut(h, cut(h), o, dp)
  <2>1. Cut(0, 0, o, dp) /\ \A h \in Nat : \E q : Cut(h, q, o, dp)
    <3> HIDE DEF cut
    <3>1. Complies(o, S, len, dp, tk, b, H, g)
      OBVIOUS
    <3> HIDE DEF b
    <3> QED BY <3>1, CutExists
  <2> QED BY <2>1
<1> HIDE DEF cut
<1>2. n \in Nat /\ len \in [0..n -> 0..n] /\ len[n] = n /\ SubSeq(o, 1, len[0]) = b
      /\ \A i \in 1..n : dp[o[i]] \in 0..H
  BY DEF Complies, Builds
<1>3. cut(0) = 0
  <2>1. Cut(0, cut(0), o, dp)
    BY <1>1
  <2> QED BY <1>1, <2>1, CutOnce
<1>4. ASSUME NEW h \in Nat PROVE cut(h + 1) = len[cut(h)]
  <2> DEFINE q == cut(h)
             r == cut(h + 1)
             k == h + 1
             bb == b
  <2>1. Cut(h, q, o, dp) /\ Cut(k, r, o, dp) /\ Complies(o, S, len, dp, tk, bb, H, g) /\ k = h + 1
    <3>1. h + 1 \in Nat
      OBVIOUS
    <3>2. Cut(h, cut(h), o, dp) /\ Cut(h + 1, cut(h + 1), o, dp)
      BY <1>1, <3>1
    <3> QED BY <3>2
  <2> HIDE DEF q, r, bb, k
  <2>2. Cut(h + 1, len[q], o, dp)
    BY <2>1, CutNext
  <2>3. Cut(k, len[q], o, dp)
    BY <2>1, <2>2
  <2>4. r = len[q]
    BY <2>1, <2>3, CutOnce
  <2> QED BY <2>4 DEF q, r, k
<1>5. list(0) = b
  BY <1>2, <1>3
<1>6. ASSUME NEW h \in Nat, h < H PROVE list(h + 1) = NextLayer(g, list(h))
  <2> DEFINE q == cut(h)
             bb == b
  <2>1. Cut(h, q, o, dp) /\ Complies(o, S, len, dp, tk, bb, H, g)
    BY <1>1
  <2>2. list(h + 1) = SubSeq(o, 1, len[len[q]]) /\ list(h) = SubSeq(o, 1, len[q])
    BY <1>4
  <2> HIDE DEF q, bb, list
  <2>3. NextLayer(g, SubSeq(o, 1, len[q])) = SubSeq(o, 1, len[len[q]])
    BY <1>6, <2>1, CutLayer
  <2> QED BY <2>2, <2>3
<1>7. list(H) = o
  <2>1. Cut(H + 1, cut(H + 1), o, dp) /\ cut(H + 1) = len[cut(H)]
    BY <1>1, <1>4
  <2> DEFINE r == len[cut(H)]
  <2>2. r \in 0..n /\ \A i \in 1..n : i <= r <=> dp[o[i]] < H + 1
    BY <2>1 DEF Cut
  <2> HIDE DEF r, n
  <2>3. n # 0 => n \in 1..n /\ dp[o[n]] \in 0..H
    BY <1>2
  <2>4. n # 0 => n <= r
    BY <2>2, <2>3
  <2>5. r = n
    BY <1>2, <2>2, <2>4
  <2>6. SubSeq(o, 1, Len(o)) = o
    BY WholeIs
  <2> QED BY <2>5, <2>6 DEF r, n
<1> HIDE DEF list, b
<1>8. IsWalk(g, st, H, w)
  <2> DEFINE body(h) == IF h = 0 THEN b ELSE NextLayer(g, w[h - 1])
  <2>1. \A h \in 0..H : list(h) = body(h)
    <3> SUFFICES ASSUME NEW h \in 0..H PROVE list(h) = body(h)
      OBVIOUS
    <3>1. CASE h = 0
      BY <1>5, <3>1
    <3>2. CASE h # 0
      <4>1. h - 1 \in Nat /\ h - 1 < H /\ (h - 1) + 1 = h /\ h - 1 \in 0..H
        BY <3>2
      <4>2. list((h - 1) + 1) = NextLayer(g, list(h - 1))
        BY <1>6, <4>1
      <4>3. w[h - 1] = list(h - 1)
        BY <4>1
      <4> QED BY <3>2, <4>1, <4>2, <4>3
    <3> QED BY <3>1, <3>2
  <2>2. w = [h \in 0..H |-> list(h)]
    OBVIOUS
  <2> HIDE DEF body, w
  <2>3. w = [h \in 0..H |-> body(h)]
    BY <2>1, <2>2
  <2> QED BY <2>3 DEF IsWalk, body, b
<1>9. IsWalk(g, st, H, f)
  <2> HIDE DEF w
  <2> QED BY <1>8
<1>10. WalkOrder(g, st, H) = f[H]
  BY DEF WalkOrder, IsWalk
<1> HIDE DEF f
<1> DEFINE body(h) == IF h = 0 THEN b ELSE NextLayer(g, f[h - 1])
<1>11. f = [h \in 0..H |-> body(h)]
  BY <1>9 DEF IsWalk, b
<1> HIDE DEF body
<1>12. \A h \in 0..H : f[h] = body(h)
  BY <1>11
<1> DEFINE T == {h \in Nat : h <= H => f[h] = list(h)}
<1>13. 0 \in T
  <2>1. 0 \in 0..H
    OBVIOUS
  <2> QED BY <1>5, <1>12, <2>1 DEF body
<1>14. ASSUME NEW h \in Nat, h \in T PROVE h + 1 \in T
  <2> SUFFICES ASSUME h + 1 <= H PROVE f[h + 1] = list(h + 1)
    OBVIOUS
  <2>1. h + 1 \in 0..H /\ h + 1 # 0 /\ (h + 1) - 1 = h /\ h < H /\ f[h] = list(h)
    BY <1>14
  <2>2. f[h + 1] = NextLayer(g, f[h])
    <3>1. f[h + 1] = NextLayer(g, f[(h + 1) - 1])
      BY <1>12, <2>1 DEF body
    <3> QED BY <2>1, <3>1
  <2> QED BY <1>6, <2>1, <2>2
<1> HIDE DEF T
<1>15. H \in T
  BY <1>13, <1>14, Induction
<1>16. f[H] = list(H)
  BY <1>15 DEF T
<1> QED BY <1>7, <1>10, <1>16

-----------------------------------------------------------------------------
(* What the walk's list is made of.                                          *)

LEMMA PrefixNext ==
  ASSUME NEW S, NEW s \in Seq(S), NEW k \in Nat, k < Len(s)
  PROVE  /\ SubSeq(s, 1, k) \in Seq(S) /\ SubSeq(s, 1, 0) = <<>>
         /\ SubSeq(s, 1, k + 1) = Append(SubSeq(s, 1, k), s[k + 1])
<1> DEFINE y == SubSeq(s, 1, k + 1)
           z == SubSeq(s, 1, k)
           x == s[k + 1]
           a == Append(z, x)
<1>1. z \in Seq(S) /\ Len(z) = k /\ \A i \in 1..k : z[i] = s[i]
  OBVIOUS
<1>2. y \in Seq(S) /\ Len(y) = k + 1 /\ \A i \in 1..(k + 1) : y[i] = s[i]
  OBVIOUS
<1>3. x \in S
  OBVIOUS
<1> HIDE DEF x, z, y
<1>4. /\ a \in Seq(S) /\ Len(a) = k + 1 /\ a[k + 1] = x
      /\ \A i \in 1..k : a[i] = z[i]
  BY <1>1, <1>3
<1> HIDE DEF a
<1>5. ASSUME NEW i \in 1..(k + 1) PROVE y[i] = a[i]
  <2>1. CASE i = k + 1
    BY <1>2, <1>4, <2>1 DEF x
  <2>2. CASE i # k + 1
    <3>1. i \in 1..k
      BY <2>2
    <3> QED BY <1>1, <1>2, <1>4, <3>1
  <2> QED BY <2>1, <2>2
<1>6. y = a
  BY <1>2, <1>4, <1>5, SeqEqual
<1>7. SubSeq(s, 1, 0) = <<>>
  OBVIOUS
<1> QED BY <1>1, <1>6, <1>7 DEF y, z, x, a

\* What a start id adds to those of the graph.
StartOf(g, x) == IF x \in DOMAIN g THEN <<x>> ELSE <<>>

LEMMA StartType ==
  ASSUME NEW g, NEW x
  PROVE  StartOf(g, x) \in Seq(DOMAIN g)
<1> DEFINE T == DOMAIN g
           none == <<>>
           one == <<x>>
<1>1. none \in Seq(T)
  OBVIOUS
<1>2. x \in T => one \in Seq(T)
  <2> HIDE DEF T
  <2> QED OBVIOUS
<1>3. StartOf(g, x) = IF x \in T THEN one ELSE none
  BY DEF StartOf
<1> HIDE DEF T, one, none
<1> QED BY <1>1, <1>2, <1>3 DEF T

LEMMA PresentType ==
  ASSUME NEW g, NEW R, NEW st \in Seq(R)
  PROVE  Present(g, st) \in Seq(DOMAIN g)
<1> DEFINE n == Len(st)
           T == DOMAIN g
           p == [i \in 1..n |-> StartOf(g, st[i])]
<1>1. n \in Nat /\ DOMAIN st = 1..n
  OBVIOUS
<1>2. Present(g, st) = FlattenSeq(p)
  BY <1>1 DEF Present, StartOf
<1> HIDE DEF n
<1>3. p \in [1..n -> Seq(T)]
  BY StartType
<1> HIDE DEF p, T
<1>4. FlattenSeq(p) \in Seq(T)
  BY <1>1, <1>3, PickedType
<1> QED BY <1>2, <1>4 DEF T

LEMMA PresentNext ==
  ASSUME NEW g, NEW R, NEW st \in Seq(R), NEW k \in Nat, k < Len(st)
  PROVE  Present(g, SubSeq(st, 1, k + 1)) = Present(g, SubSeq(st, 1, k)) \o StartOf(g, st[k + 1])
<1> DEFINE T == DOMAIN g
           y == SubSeq(st, 1, k + 1)
           z == SubSeq(st, 1, k)
           p == [i \in 1..(k + 1) |-> StartOf(g, y[i])]
           q == [i \in 1..k |-> StartOf(g, z[i])]
<1>1. /\ DOMAIN y = 1..(k + 1) /\ DOMAIN z = 1..k
      /\ \A i \in 1..k : z[i] = y[i]
      /\ y[k + 1] = st[k + 1]
  OBVIOUS
<1> HIDE DEF y, z
<1>2. Present(g, y) = FlattenSeq(p) /\ Present(g, z) = FlattenSeq(q)
  BY <1>1 DEF Present, StartOf
<1>3. p \in Lists(k + 1, T) /\ q \in Lists(k, T)
  BY StartType DEF Lists
<1>4. \A i \in 1..k : q[i] = p[i]
  BY <1>1
<1>5. p[k + 1] = StartOf(g, st[k + 1])
  <2>1. k + 1 \in 1..(k + 1)
    OBVIOUS
  <2> QED BY <1>1, <2>1
<1> HIDE DEF p, q, T
<1>6. FlattenSeq(p) = FlattenSeq(q) \o p[k + 1]
  BY <1>3, <1>4, FlatNext
<1> QED BY <1>2, <1>5, <1>6 DEF y, z

LEMMA PresentFirst ==
  ASSUME NEW g, NEW st, st = <<>>
  PROVE  Present(g, st) = <<>>
<1> DEFINE p == [i \in DOMAIN st |-> IF st[i] \in DOMAIN g THEN <<st[i]>> ELSE <<>>]
<1>1. p = <<>>
  OBVIOUS
<1> HIDE DEF p
<1>2. FlattenSeq(p) = <<>>
  BY <1>1, FlatNone
<1> QED BY <1>2 DEF Present, p

LEMMA OthersFacts ==
  ASSUME graph \in Graphs, NEW n \in Nodes
  PROVE  /\ Others(graph[n]) \in Seq(Nodes) /\ Len(Others(graph[n])) = Len(graph[n])
         /\ Len(graph[n]) \in Nat
         /\ \A k \in 1..Len(graph[n]) : Others(graph[n])[k] = graph[n][k][2]
<1> DEFINE C == graph[n]
           m == Len(C)
           f == [k \in 1..m |-> C[k][2]]
<1>1. m \in Nat /\ DOMAIN C = 1..m /\ \A k \in 1..m : C[k][2] \in Nodes
  BY GraphFacts
<1>2. Others(C) = f
  BY <1>1 DEF Others
<1> HIDE DEF C, m
<1>3. f \in [1..m -> Nodes] /\ \A k \in 1..m : f[k] = C[k][2]
  BY <1>1
<1> HIDE DEF f
<1>4. f \in Seq(Nodes) /\ Len(f) = m
  BY <1>1, <1>3, ListIs
<1> QED BY <1>1, <1>2, <1>3, <1>4 DEF C, m

\* What the node at position i has had merged into the list.
Taken(i) ==
  IF depth[ordered[i]] < Hops
  THEN IF current # None /\ i = Popped
       THEN SubSeq(Others(graph[current]), 1, Looked) ELSE Others(graph[ordered[i]])
  ELSE <<>>

Merged == [i \in 1..Popped |-> Taken(i)]
Began == Merge(<<>>, Present(graph, SubSeq(starts, 1, seeded)))

\* The list is the starts looked at, and behind them what each node taken out of
\* the queue has led to, in the order they were taken out.
InOrder == ~ truncated => \E len : Builds(len, ordered, depth, Popped, Merged, Began)

LEMMA StartsFacts ==
  ASSUME Inv
  PROVE  starts \in Seq(Range(starts)) /\ Len(starts) \in Nat /\ seeded \in Nat /\ seeded <= Len(starts)
<1>1. starts \in Seq(Range(starts))
  BY TraversalAssumption DEF Inv, Typ
<1> DEFINE R == Range(starts)
<1> HIDE DEF R
<1>2. starts \in Seq(R)
  BY <1>1 DEF R
<1>3. Len(starts) \in Nat
  BY <1>2
<1> QED BY <1>1, <1>3 DEF Inv, Typ

LEMMA NoneMerged ==
  ASSUME NEW T
  PROVE  <<>> \in Seq(T)
OBVIOUS

LEMMA BeganType ==
  ASSUME Inv
  PROVE  Present(graph, SubSeq(starts, 1, seeded)) \in Seq(Nodes)
<1> DEFINE R == Range(starts)
           y == SubSeq(starts, 1, seeded)
<1>1. starts \in Seq(R) /\ seeded \in Nat /\ seeded <= Len(starts) /\ Len(starts) \in Nat
  BY StartsFacts
<1> HIDE DEF R
<1>2. y \in Seq(R)
  BY <1>1
<1> HIDE DEF y
<1>3. Present(graph, y) \in Seq(DOMAIN graph)
  BY <1>2, PresentType
<1> QED BY <1>3 DEF Nodes, y

LEMMA InitInOrder == Init => InOrder
<1> SUFFICES ASSUME Init PROVE InOrder
  OBVIOUS
<1>1. ordered = <<>> /\ Popped = 0 /\ seeded = 0 /\ starts \in Starts
  BY DEF Init, Popped
<1>2. starts \in Seq(Range(starts))
  BY <1>1, TraversalAssumption
<1>3. SubSeq(starts, 1, seeded) = <<>>
  <2> DEFINE R == Range(starts)
  <2>1. starts \in Seq(R)
    BY <1>2
  <2> HIDE DEF R
  <2> QED BY <1>1, <2>1
<1>4. Present(graph, SubSeq(starts, 1, seeded)) = <<>>
  BY <1>3, PresentFirst
<1>5. Began = ordered
  <2> DEFINE none == <<>>
  <2>1. none \in Seq({})
    BY NoneMerged
  <2>2. Merge(none, <<>>) = none
    <3> HIDE DEF none
    <3> QED BY <2>1, MergeNone
  <2> QED BY <1>1, <1>4, <2>2 DEF Began
<1>6. ordered \in Seq({}) /\ \A j \in 1..Len(ordered) : depth[ordered[j]] = 0
  BY <1>1
<1>7. \E len : Builds(len, ordered, depth, 0, Merged, ordered)
  BY <1>6, BuildsFirst
<1> QED BY <1>1, <1>5, <1>7 DEF InOrder

\* A start id that is new is put behind those before it.
LEMMA SeedInOrder == Inv /\ InOrder /\ Seed => InOrder'
<1> SUFFICES ASSUME Inv, InOrder, Seed, ~ truncated'
             PROVE  \E len : Builds(len, ordered', depth', Popped', Merged', Began')
  BY DEF InOrder
<1> DEFINE x == starts[seeded + 1]
           P == Present(graph, SubSeq(starts, 1, seeded))
           u == StartOf(graph, x)
<1>1. /\ seeded < Len(starts) /\ seeded' = seeded + 1
      /\ UNCHANGED <<graph, limits, starts, current, rest, followed, truncated>>
  BY DEF Seed
<1>2. Popped = 0 /\ \A n \in Discovered : depth[n] = 0
  BY <1>1 DEF Inv, Seeding
<1>3. /\ Hops \in Nat /\ 0 \in 0..Hops /\ ordered \in Seq(Nodes)
      /\ \A i \in 1..Len(ordered) : ordered[i] \in Discovered
      /\ \A n \in Discovered : \E i \in 1..Len(ordered) : ordered[i] = n
  BY HopsType DEF Inv, Typ, Listing
<1>4. ordered = Began
  <2>1. PICK len : Builds(len, ordered, depth, 0, Merged, Began)
    BY <1>1, <1>2 DEF InOrder
  <2>2. len[0] = Len(ordered) /\ SubSeq(ordered, 1, len[0]) = Began
    BY <2>1 DEF Builds
  <2>3. SubSeq(ordered, 1, Len(ordered)) = ordered
    BY <1>3, WholeIs
  <2> QED BY <2>2, <2>3
<1>5. P \in Seq(Nodes) /\ u \in Seq(Nodes)
  BY BeganType, StartType DEF Nodes
<1>6. Began' = Merge(<<>>, P \o u)
  <2> DEFINE R == Range(starts)
  <2>1. starts \in Seq(R) /\ seeded \in Nat
    BY StartsFacts
  <2> HIDE DEF R
  <2>2. Present(graph, SubSeq(starts, 1, seeded + 1)) = P \o u
    BY <1>1, <2>1, PresentNext
  <2> HIDE DEF P, u
  <2> QED BY <1>1, <2>2 DEF Began
<1>7. Began' = Merge(ordered, u)
  <2> DEFINE none == <<>>
  <2>1. none \in Seq(Nodes)
    BY NoneMerged
  <2>2. Began = Merge(none, P)
    BY DEF Began
  <2> HIDE DEF P, u
  <2>3. Began' = Merge(none, P \o u)
    BY <1>6
  <2> HIDE DEF none
  <2>4. Merge(none, P \o u) = Merge(Merge(none, P), u)
    BY <1>5, <2>1, MergeJoin
  <2> QED BY <1>4, <2>2, <2>3, <2>4
<1>8. ordered' = Began'
  <2>1. CASE x \notin Nodes
    <3>1. u = <<>> /\ ordered' = ordered
      BY <1>1, <2>1 DEF Seed, StartOf, Nodes
    <3>2. Merge(ordered, <<>>) = ordered
      BY <1>3, MergeNone
    <3> QED BY <1>7, <3>1, <3>2
  <2>2. CASE x \in Nodes
    <3>1. u = <<x>>
      BY <2>2 DEF StartOf, Nodes
    <3> HIDE DEF u, x
    <3>2. Merge(ordered, <<x>>) = Put(ordered, x)
      BY <1>3, <2>2, MergeOne
    <3>3. Contains(ordered, x) <=> x \in Discovered
      BY <1>3 DEF Contains
    <3>4. ordered' = IF x \in Discovered THEN ordered ELSE Append(ordered, x)
      BY <1>1, <2>2 DEF Seed, Discover, x, Nodes
    <3> QED BY <1>7, <3>1, <3>2, <3>3, <3>4 DEF Put
  <2> QED BY <2>1, <2>2
<1>9. /\ Popped' = 0 /\ ordered' \in Seq(Nodes)
      /\ \A j \in 1..Len(ordered') : depth'[ordered'[j]] = 0
  <2>1. CASE UNCHANGED <<depth, ordered, queue>>
    BY <1>2, <1>3, <2>1 DEF Popped
  <2>2. CASE x \in Nodes \ Discovered /\ Discover(x, 0)
    <3>1. PICK n \in Nodes : n = x
      BY <2>2
    <3>2. n \notin Discovered /\ Discover(n, 0)
      BY <2>2, <3>1
    <3>3. /\ depth'[n] = 0 /\ \A m \in Discovered : depth'[m] = depth[m]
          /\ ordered' \in Seq(Nodes)
          /\ Len(ordered) \in Nat
          /\ Len(ordered') = Len(ordered) + 1 /\ ordered'[Len(ordered) + 1] = n
          /\ \A i \in 1..Len(ordered) : ordered'[i] = ordered[i]
          /\ Popped' = Popped
      BY <1>3, <3>2, Discovery DEF Inv
    <3>4. ASSUME NEW j \in 1..Len(ordered') PROVE depth'[ordered'[j]] = 0
      <4>1. CASE j = Len(ordered) + 1
        BY <3>3, <4>1
      <4>2. CASE j # Len(ordered) + 1
        <5>1. j \in 1..Len(ordered)
          BY <3>3, <4>2
        <5>2. ordered'[j] = ordered[j] /\ ordered[j] \in Discovered
          BY <1>3, <3>3, <5>1
        <5> QED BY <1>2, <3>3, <5>2
      <4> QED BY <4>1, <4>2
    <3> QED BY <1>2, <3>3, <3>4
  <2>3. starts[seeded'] = x
    BY <1>1
  <2> QED BY <2>1, <2>2, <2>3 DEF Seed, Nodes
<1>10. PICK o \in Seq(Nodes) : o = ordered'
  BY <1>9
<1>11. PICK dp : dp = depth'
  OBVIOUS
<1>12. PICK tk : tk = Merged'
  OBVIOUS
<1>13. \E len : Builds(len, o, dp, 0, tk, o)
  <2>1. \A j \in 1..Len(o) : dp[o[j]] = 0
    BY <1>9, <1>10, <1>11
  <2> QED BY <2>1, BuildsFirst
<1> QED BY <1>8, <1>9, <1>10, <1>11, <1>12, <1>13

\* A node taken out of the queue has led to nothing yet.
LEMMA PopInOrder == Inv /\ InOrder /\ Pop => InOrder'
<1> SUFFICES ASSUME Inv, InOrder, Pop, ~ truncated'
             PROVE  \E len : Builds(len, ordered', depth', Popped', Merged', Began')
  BY DEF InOrder
<1> DEFINE n == Head(queue)
<1>1. /\ current = None /\ queue # <<>> /\ queue' = Tail(queue)
      /\ UNCHANGED <<graph, limits, starts, seeded, depth, ordered, followed, truncated>>
      /\ IF depth[n] < Hops THEN current' = n /\ rest' = graph[n] ELSE UNCHANGED <<current, rest>>
  BY DEF Pop, Left, WithinHops
<1>2. /\ Len(ordered) \in Nat /\ Len(queue) \in Nat /\ Popped \in Nat /\ graph \in Graphs
  BY PositionFacts
<1>3. Popped' = Popped + 1 /\ Nodes' = Nodes /\ Hops' = Hops /\ Began' = Began
  <2>1. Len(queue') = Len(queue) - 1
    BY <1>1 DEF Inv, Typ
  <2> QED BY <1>1, <1>2, <2>1 DEF Popped, Nodes, Hops, Began
<1>4. n = ordered[Popped + 1]
  <2>1. 1 \in 1..Len(queue) /\ n = queue[1]
    BY <1>1 DEF Inv, Typ
  <2> QED BY <2>1 DEF Inv, Listing
<1>5. n \in Nodes
  BY <1>1 DEF Inv, Typ
<1> HIDE DEF n
<1>6. ASSUME NEW i \in 1..Popped PROVE Taken(i)' = Taken(i)
  <2>1. i # Popped'
    BY <1>2, <1>3
  <2> QED BY <1>1, <1>3, <2>1 DEF Taken
<1>7. ASSUME NEW j, j = Popped' PROVE Taken(j)' = <<>>
  <2>1. ordered'[j] = n
    BY <1>1, <1>3, <1>4, <1>7
  <2>2. CASE ~ (depth[n] < Hops)
    BY <1>1, <1>3, <2>1, <2>2 DEF Taken
  <2>3. CASE depth[n] < Hops
    <3>1. current' = n /\ n # None /\ rest' = graph[n] /\ Len(graph[n]) \in Nat
      BY <1>1, <1>2, <1>5, <2>3, GraphFacts
    <3>2. Looked' = 0
      BY <1>1, <3>1 DEF Looked
    <3>3. Taken(j)' = SubSeq(Others(graph[n]), 1, 0)
      BY <1>1, <1>3, <1>7, <2>1, <2>3, <3>1, <3>2 DEF Taken
    <3>4. Others(graph[n]) \in Seq(Nodes)
      BY <1>2, <1>5, OthersFacts
    <3> DEFINE s == Others(graph[n])
    <3> HIDE DEF s
    <3>5. s \in Seq(Nodes) => SubSeq(s, 1, 0) = <<>>
      OBVIOUS
    <3> QED BY <3>3, <3>4, <3>5 DEF s
  <2> QED BY <2>2, <2>3
<1>8. PICK tk : tk = Merged'
  OBVIOUS
<1>9. Extends(tk, Merged, Popped, <<>>)
  <2>1. \A i \in 1..Popped : tk[i] = Merged[i]
    <3> SUFFICES ASSUME NEW i \in 1..Popped PROVE tk[i] = Merged[i]
      OBVIOUS
    <3>1. i \in 1..Popped'
      BY <1>2, <1>3
    <3> QED BY <1>6, <1>8, <3>1 DEF Merged
  <2>2. tk[Popped + 1] = <<>>
    <3>1. PICK j : j = Popped'
      OBVIOUS
    <3>2. j \in 1..Popped' /\ Taken(j)' = <<>>
      BY <1>2, <1>3, <1>7, <3>1
    <3> QED BY <1>3, <1>8, <3>1, <3>2 DEF Merged
  <2> QED BY <2>1, <2>2 DEF Extends
<1>10. PICK len : Builds(len, ordered, depth, Popped, Merged, Began)
  BY <1>1 DEF InOrder
<1>11. ordered \in Seq(Nodes)
  BY DEF Inv, Typ
<1>12. \E l : Builds(l, ordered, depth, Popped + 1, tk, Began)
  <2> DEFINE old == Merged
             b == Began
             P == Popped
  <2>1. Builds(len, ordered, depth, P, old, b) /\ Extends(tk, old, P, <<>>) /\ P \in Nat
    BY <1>2, <1>9, <1>10
  <2> HIDE DEF old, b, P
  <2>2. \E l : Builds(l, ordered, depth, P + 1, tk, b)
    BY <1>11, <2>1, BuildsNode
  <2> QED BY <2>2 DEF P, b
<1> QED BY <1>1, <1>3, <1>8, <1>12

\* A node left behind has had all its neighbours merged.
LEMMA ExpandedInOrder == Inv /\ InOrder /\ Expanded => InOrder'
<1> SUFFICES ASSUME Inv, InOrder, Expanded, ~ truncated'
             PROVE  \E len : Builds(len, ordered', depth', Popped', Merged', Began')
  BY DEF InOrder
<1>1. /\ current # None /\ rest = <<>> /\ current' = None
      /\ UNCHANGED <<graph, limits, starts, seeded, depth, ordered, queue, rest, followed, truncated>>
  BY DEF Expanded
<1>2. Popped' = Popped /\ Nodes' = Nodes /\ Hops' = Hops /\ Began' = Began
  BY <1>1 DEF Popped, Nodes, Hops, Began
<1>3. /\ \A i \in 1..Popped : ordered[i] \in Nodes
      /\ graph \in Graphs
  BY PositionFacts
<1>4. ASSUME NEW i \in 1..Popped PROVE Taken(i)' = Taken(i)
  <2>1. CASE i # Popped
    BY <1>1, <1>2, <2>1 DEF Taken
  <2>2. CASE i = Popped
    <3>1. ordered[i] = current /\ current \in Nodes
      BY <1>1, <1>3, <2>2 DEF Inv, Listing
    <3> DEFINE s == Others(graph[current])
    <3>2. s \in Seq(Nodes) /\ Len(s) = Len(graph[current]) /\ Len(graph[current]) \in Nat
      BY <1>3, <3>1, OthersFacts
    <3>3. Looked = Len(s)
      BY <1>1, <3>2 DEF Looked
    <3>4. SubSeq(s, 1, Looked) = s
      <4> HIDE DEF s
      <4> QED BY <3>2, <3>3, WholeIs
    <3> QED BY <1>1, <1>2, <3>1, <3>4 DEF Taken
  <2> QED BY <2>1, <2>2
<1>5. Merged' = Merged
  BY <1>2, <1>4 DEF Merged
<1> QED BY <1>1, <1>2, <1>5 DEF InOrder

\* A neighbour is put behind the list, if it is not there yet.
LEMMA FollowInOrder == Inv /\ InOrder /\ Follow => InOrder'
<1> SUFFICES ASSUME Inv, InOrder, Follow, ~ truncated'
             PROVE  \E len : Builds(len, ordered', depth', Popped', Merged', Began')
  BY DEF InOrder
<1> DEFINE n == Head(rest)[2]
           d == depth[current] + 1
<1>0. PICK P \in Nat : P = Popped
  BY PositionFacts
<1>1. /\ current # None /\ rest # <<>>
      /\ UNCHANGED <<graph, limits, starts, seeded, current>>
  BY DEF Follow
<1>2. /\ current \in Nodes /\ depth[current] \in 0..(Hops - 1) /\ Hops \in Nat
      /\ Looked + 1 \in DOMAIN graph[current] /\ Looked \in Nat
      /\ Head(rest) = graph[current][Looked + 1] /\ n \in Nodes
  BY <1>1, NeighbourFacts
<1>3. /\ Len(ordered) \in Nat /\ P \in Nat /\ graph \in Graphs /\ ordered \in Seq(Nodes)
      /\ \A i \in 1..P : i \in 1..Len(ordered)
      /\ \A i \in 1..Len(ordered) : ordered[i] \in Discovered
      /\ \A m \in Discovered : \E i \in 1..Len(ordered) : ordered[i] = m
  BY <1>0, PositionFacts DEF Inv, Typ, Listing
<1>4. P > 0 /\ current = ordered[P] /\ P \in 1..P /\ P \in 1..Len(ordered)
  BY <1>0, <1>1, <1>3 DEF Inv, Listing
<1>5. /\ Looked' = Looked + 1 /\ Popped' = P
      /\ \A i \in 1..P : ordered'[i] = ordered[i] /\ depth'[ordered[i]] = depth[ordered[i]]
  BY <1>0, FollowFacts
<1>6. Nodes' = Nodes /\ Hops' = Hops /\ Began' = Began
  BY <1>1 DEF Nodes, Hops, Began
<1> DEFINE s == Others(graph[current])
<1>7. /\ s \in Seq(Nodes) /\ Len(s) = Len(graph[current]) /\ Looked < Len(s) /\ s[Looked + 1] = n
  <2>1. /\ s \in Seq(Nodes) /\ Len(s) = Len(graph[current])
        /\ \A k \in 1..Len(graph[current]) : s[k] = graph[current][k][2]
    BY <1>2, <1>3, OthersFacts
  <2>2. Looked + 1 \in 1..Len(graph[current]) /\ Len(graph[current]) \in Nat
    BY <1>2, <1>3, GraphFacts
  <2> HIDE DEF s
  <2>3. Looked < Len(s)
    BY <1>2, <2>1, <2>2
  <2> QED BY <1>2, <2>1, <2>2, <2>3
<1> HIDE DEF s, n, d
<1>8. SubSeq(s, 1, Looked) \in Seq(Nodes) /\ SubSeq(s, 1, Looked + 1) = Append(SubSeq(s, 1, Looked), n)
  BY <1>2, <1>7, PrefixNext
<1>9. Taken(P) = SubSeq(s, 1, Looked) /\ Taken(P)' = SubSeq(s, 1, Looked + 1)
  <2>1. depth[ordered[P]] < Hops /\ depth'[ordered'[P]] < Hops
    BY <1>2, <1>4, <1>5
  <2>2. Taken(P) = SubSeq(s, 1, Looked)
    BY <1>0, <1>1, <2>1 DEF Taken, s
  <2>3. Hops' = Hops /\ current' # None /\ graph' = graph /\ current' = current
    BY <1>1, <1>6
  <2>4. Taken(P)' = SubSeq(Others(graph'[current']), 1, Looked')
    BY <1>5, <2>1, <2>3 DEF Taken
  <2> QED BY <1>5, <2>2, <2>3, <2>4 DEF s
<1>10. ASSUME NEW i \in 1..(P - 1) PROVE Taken(i)' = Taken(i)
  <2>1. i \in 1..P /\ i # Popped /\ i # Popped'
    BY <1>0, <1>3, <1>5
  <2> QED BY <1>1, <1>5, <1>6, <2>1 DEF Taken
<1>11. PICK tk : tk = Merged'
  OBVIOUS
<1>12. /\ Lengthens(tk, Merged, P, n) /\ Merged[P] \in Seq(Nodes)
  <2>1. \A i \in 1..P : tk[i] = Taken(i)' /\ Merged[i] = Taken(i)
    BY <1>0, <1>5, <1>11 DEF Merged
  <2>2. \A i \in 1..(P - 1) : tk[i] = Merged[i]
    <3> SUFFICES ASSUME NEW i \in 1..(P - 1) PROVE tk[i] = Merged[i]
      OBVIOUS
    <3>1. i \in 1..P
      OBVIOUS
    <3> QED BY <1>10, <2>1, <3>1
  <2>3. tk[P] = Append(Merged[P], n) /\ Merged[P] \in Seq(Nodes)
    BY <1>4, <1>8, <1>9, <2>1
  <2> QED BY <2>2, <2>3 DEF Lengthens
<1>13. /\ ~ truncated
       /\ \/ n \in Discovered /\ UNCHANGED <<depth, ordered>>
          \/ n \notin Discovered /\ Discover(n, d)
  BY DEF Follow, NextDepth, n, d, Inv, Typ
<1>14. PICK len : Builds(len, ordered, depth, P, Merged, Began)
  BY <1>0, <1>13 DEF InOrder
<1> DEFINE old == Merged
           b == Began
           o == ordered
           dp == depth
<1>15. /\ Builds(len, o, dp, P, old, b) /\ Lengthens(tk, old, P, n) /\ old[P] \in Seq(Nodes)
       /\ o \in Seq(Nodes) /\ n \in Nodes /\ P \in Nat /\ P > 0 /\ P \in 1..Len(o)
  BY <1>2, <1>3, <1>4, <1>12, <1>14
<1>16. Contains(o, n) <=> n \in Discovered
  BY <1>3 DEF Contains
<1>17. CASE n \in Discovered /\ UNCHANGED <<depth, ordered>>
  <2>1. Contains(o, n)
    BY <1>16, <1>17
  <2> HIDE DEF old, b, o, dp
  <2>2. Builds(len, o, dp, P, tk, b)
    BY <1>15, <2>1, BuildsKnown
  <2>3. Builds(len, ordered, depth, P, tk, Began)
    BY <2>2 DEF o, dp, b
  <2> QED BY <1>5, <1>6, <1>11, <1>17, <2>3
<1>18. CASE n \notin Discovered /\ Discover(n, d)
  <2>1. PICK m \in Nodes : m = n
    BY <1>2
  <2>2. PICK e \in 0..Hops : e = d
    BY <1>2 DEF d
  <2>3. m \notin Discovered /\ Discover(m, e)
    BY <1>18, <2>1, <2>2
  <2>4. /\ depth'[m] = e /\ \A x \in Discovered : depth'[x] = depth[x]
    BY <1>3, <2>3, Discovery DEF Inv
  <2>5. PICK dq : dq = depth'
    OBVIOUS
  <2>6. /\ \A j \in 1..Len(o) : dq[o[j]] = dp[o[j]]
        /\ dq[n] = dp[o[P]] + 1
    BY <1>3, <1>4, <2>1, <2>2, <2>4, <2>5 DEF d
  <2>7. ~ Contains(o, n)
    BY <1>16, <1>18
  <2>8. ordered' = Append(o, n)
    BY <1>18 DEF Discover
  <2> HIDE DEF old, b, o, dp
  <2>9. \E l : Builds(l, Append(o, n), dq, P, tk, b)
    BY <1>15, <2>6, <2>7, BuildsNew
  <2>10. \E l : Builds(l, ordered', dq, P, tk, Began)
    BY <2>8, <2>9 DEF b
  <2> QED BY <1>5, <1>6, <1>11, <2>5, <2>10
<1> QED BY <1>13, <1>17, <1>18

\* Stuttering included.
LEMMA NextInOrder == Inv /\ InOrder /\ [Next]_vars => InOrder'
<1>1. ASSUME InOrder, UNCHANGED vars PROVE InOrder'
  <2>1. /\ UNCHANGED <<graph, starts, seeded, depth, ordered, current, truncated>>
        /\ Hops' = Hops /\ Popped' = Popped /\ Looked' = Looked
    BY <1>1 DEF vars, Hops, Popped, Looked
  <2>2. \A i \in 1..Popped : Taken(i)' = Taken(i)
    BY <2>1 DEF Taken
  <2>3. Merged' = Merged /\ Began' = Began
    BY <2>1, <2>2 DEF Merged, Began
  <2> QED BY <1>1, <2>1, <2>3 DEF InOrder
<1> QED BY <1>1, SeedInOrder, PopInOrder, FollowInOrder, ExpandedInOrder DEF Next

\* When the walk has returned it has looked at every neighbour within its bound.
LEMMA AllMerged ==
  ASSUME Inv, InOrder, Returned, ~ truncated
  PROVE  \E len : Complies(ordered, Nodes, len, depth, Merged, Merge(<<>>, Present(graph, starts)), Hops, graph)
<1>1. /\ Len(ordered) \in Nat /\ Popped = Len(ordered) /\ current = None /\ seeded = Len(starts)
      /\ Hops \in Nat /\ graph \in Graphs /\ limits \in Limits
  BY AllPopped
<1>2. Began = Merge(<<>>, Present(graph, starts))
  <2> DEFINE R == Range(starts)
  <2>1. starts \in Seq(R)
    BY StartsFacts
  <2> HIDE DEF R
  <2>2. SubSeq(starts, 1, seeded) = starts
    BY <1>1, <2>1, WholeIs
  <2> QED BY <2>2 DEF Began
<1>3. PICK len : Builds(len, ordered, depth, Len(ordered), Merged, Began)
  BY <1>1 DEF InOrder
<1>4. \A i \in 1..Len(ordered) : ordered[i] \in Discovered /\ depth[ordered[i]] \in 0..Hops /\ ordered[i] \in Nodes
  BY DEF Inv, Typ, Listing
<1>5. \A i \in 1..Len(ordered) : Merged[i] = IF depth[ordered[i]] < Hops THEN Others(graph[ordered[i]]) ELSE <<>>
  BY <1>1 DEF Merged, Taken
<1>6. \A x \in Nodes : Others(graph[x]) \in Seq(Nodes)
  BY <1>1, OthersFacts
<1>7. ASSUME NEW i \in 1..Len(ordered), depth[ordered[i]] < Hops, NEW k \in 1..Len(Others(graph[ordered[i]]))
      PROVE  \E j \in 1..Len(ordered) : /\ ordered[j] = Others(graph[ordered[i]])[k]
                                        /\ depth[ordered[j]] <= depth[ordered[i]] + 1
  <2> DEFINE n == ordered[i]
             y == graph[n][k][2]
  <2>1. /\ n \in Nodes /\ k \in 1..Len(graph[n]) /\ Others(graph[n])[k] = y /\ DOMAIN graph[n] = 1..Len(graph[n])
    BY <1>1, <1>4, OthersFacts, GraphFacts
  <2>2. y \in Discovered
    BY <1>1, <1>7, <2>1 DEF Inv, Complete, Waiting
  <2>3. PICK j \in 1..Len(ordered) : ordered[j] = y
    BY <2>2 DEF Inv, Listing
  <2>4. depth[n] \in 0..(Hops - 1) /\ n \in Ball[depth[n]]
    BY <1>1, <1>4, <1>7 DEF Inv, Distances
  <2>5. y \in Ball[depth[n] + 1]
    BY <1>1, <2>1, <2>4, BallFacts
  <2>6. depth[y] <= depth[n] + 1
    <3> SUFFICES ASSUME ~ (depth[y] <= depth[n] + 1) PROVE FALSE
      OBVIOUS
    <3>1. depth[y] \in 0..Hops
      BY <1>4, <2>3
    <3>2. depth[n] + 1 \in 0..(depth[y] - 1)
      <4> DEFINE a == depth[n]
                 c == depth[y]
      <4>1. a \in 0..(Hops - 1) /\ c \in 0..Hops /\ ~ (c <= a + 1) /\ Hops \in Nat
        BY <1>1, <2>4, <3>1
      <4> HIDE DEF a, c
      <4>2. a + 1 \in 0..(c - 1)
        BY <4>1
      <4> QED BY <4>2 DEF a, c
    <3> QED BY <2>2, <2>5, <3>2 DEF Inv, Distances
  <2> QED BY <2>1, <2>3, <2>6
<1>8. Complies(ordered, Nodes, len, depth, Merged, Began, Hops, graph)
  BY <1>3, <1>4, <1>5, <1>6, <1>7 DEF Complies
<1> QED BY <1>2, <1>8

\* A walk that was not cut short has listed the nodes layer after layer, each
\* layer in the order the one before leads to it.
THEOREM WalkInOrder == Spec => []ComputesWalk
<1>1. Inv /\ InOrder => (Returned /\ ~ truncated => ordered = WalkOrder(graph, starts, Hops))
  <2> SUFFICES ASSUME Inv, InOrder, Returned, ~ truncated PROVE ordered = WalkOrder(graph, starts, Hops)
    OBVIOUS
  <2>1. PICK len : Complies(ordered, Nodes, len, depth, Merged, Merge(<<>>, Present(graph, starts)), Hops, graph)
    BY AllMerged
  <2>2. ordered \in Seq(Nodes) /\ Hops \in Nat
    BY HopsType DEF Inv, Typ
  <2> DEFINE S == Nodes
             o == ordered
             tk == Merged
             H == Hops
  <2>3. /\ Complies(o, S, len, depth, tk, Merge(<<>>, Present(graph, starts)), H, graph)
        /\ o \in Seq(S) /\ H \in Nat
    BY <2>1, <2>2
  <2> HIDE DEF S, o, tk, H
  <2>4. WalkOrder(graph, starts, H) = o
    BY <2>3, WalkIs
  <2> QED BY <2>4 DEF o, H
<1>2. FindsReach /\ CountsUses /\ (Returned /\ ~ truncated => ordered = WalkOrder(graph, starts, Hops))
      => ComputesWalk
  BY DEF ComputesWalk
<1> QED BY InitInv, NextInv, InitInOrder, NextInOrder, WalkFindsReach, WalkCountsUses, <1>1, <1>2, PTL DEF Spec

-----------------------------------------------------------------------------
(* The graph store.                                                          *)

StoreInv == StoreTypeOK /\ NoDanglingEdge /\ IndexAgrees

\* Appending the largest position keeps a position list exact.
LEMMA PositionsAppend ==
  ASSUME NEW p \in Seq(Nat), NEW S, NEW x \in Nat,
         Positions(p, S), \A y \in S : y \in Nat /\ y < x
  PROVE  Positions(Append(p, x), S \cup {x})
<1> DEFINE q == Append(p, x)
<1>1. /\ Len(q) = Len(p) + 1 /\ DOMAIN q = 1..(Len(p) + 1) /\ DOMAIN p = 1..Len(p)
      /\ \A i \in DOMAIN p : q[i] = p[i]
      /\ q[Len(p) + 1] = x
  OBVIOUS
<1>2. \A i \in DOMAIN p : p[i] \in S /\ p[i] < x
  BY DEF Positions
<1> HIDE DEF q
<1>3. \A i \in DOMAIN q : q[i] \in S \cup {x}
  BY <1>1, <1>2
<1>4. \A y \in S \cup {x} : \E i \in DOMAIN q : q[i] = y
  <2> SUFFICES ASSUME NEW y \in S \cup {x} PROVE \E i \in DOMAIN q : q[i] = y
    OBVIOUS
  <2>1. CASE y = x
    BY <1>1, <2>1
  <2>2. CASE y \in S
    <3>1. PICK i \in DOMAIN p : p[i] = y
      BY <2>2 DEF Positions
    <3> QED BY <1>1, <3>1
  <2> QED BY <2>1, <2>2
<1>5. \A i, j \in DOMAIN q : i < j => q[i] < q[j]
  BY <1>1, <1>2 DEF Positions
<1> QED BY <1>3, <1>4, <1>5 DEF Positions, q

\* What AppendEdge does to the edge list and to one index.
Side(e, end) == IF end = "out" THEN e.source ELSE e.target
Indexed(idx, list, e, end) == [idx EXCEPT ![Side(e, end)] = Append(@, Len(Append(list, e)))]
At(list, end, n) == {i \in DOMAIN list : Side(list[i], end) = n}

LEMMA AppendOneSide ==
  ASSUME NEW list \in Seq(Edges), NEW e \in Edges, NEW N, NEW end \in {"out", "in"},
         NEW idx \in [N -> Seq(Nat)], Side(e, end) \in N,
         \A n \in N : Positions(idx[n], At(list, end, n))
  PROVE  /\ Indexed(idx, list, e, end) \in [N -> Seq(Nat)]
         /\ \A n \in N : Positions(Indexed(idx, list, e, end)[n], At(Append(list, e), end, n))
<1> DEFINE list2 == Append(list, e)
           L     == Len(list)
           idx2  == Indexed(idx, list, e, end)
<1>1. /\ L \in Nat /\ Len(list2) = L + 1 /\ DOMAIN list = 1..L /\ DOMAIN list2 = 1..(L + 1)
      /\ \A i \in 1..L : list2[i] = list[i]
      /\ list2[L + 1] = e
  OBVIOUS
<1> HIDE DEF list2, L
<1>2. \A n \in N : idx2[n] = IF n = Side(e, end) THEN Append(idx[n], L + 1) ELSE idx[n]
  BY <1>1 DEF list2, Indexed
<1>3. idx2 \in [N -> Seq(Nat)]
  BY <1>1 DEF list2, Indexed
<1> HIDE DEF idx2
<1>4. ASSUME NEW n \in N PROVE Positions(idx2[n], At(list2, end, n))
  <2>1. CASE n = Side(e, end)
    <3>1. At(list2, end, n) = At(list, end, n) \cup {L + 1}
      BY <1>1, <2>1 DEF At
    <3>2. \A y \in At(list, end, n) : y \in Nat /\ y < L + 1
      BY <1>1 DEF At
    <3>3. idx[n] \in Seq(Nat) /\ Positions(idx[n], At(list, end, n))
      OBVIOUS
    <3>4. idx2[n] = Append(idx[n], L + 1)
      BY <1>2, <2>1
    <3>5. Positions(Append(idx[n], L + 1), At(list, end, n) \cup {L + 1})
      <4>1. L + 1 \in Nat
        BY <1>1
      <4> QED BY <3>2, <3>3, <4>1, PositionsAppend
    <3> QED BY <3>1, <3>4, <3>5
  <2>2. CASE n # Side(e, end)
    <3>1. At(list2, end, n) = At(list, end, n)
      BY <1>1, <2>2 DEF At
    <3>2. idx2[n] = idx[n]
      BY <1>2, <2>2
    <3>3. Positions(idx[n], At(list, end, n))
      OBVIOUS
    <3> QED BY <3>1, <3>2, <3>3
  <2> QED BY <2>1, <2>2
<1> QED BY <1>3, <1>4 DEF list2, idx2

\* The statements add_edge and prune_edges share keep both indices exact.
LEMMA AppendEdgeKeeps ==
  ASSUME StoreInv, NEW e \in Edges, HasEndpoints(e), AppendEdge(e), nodes' = nodes
  PROVE  /\ edges' \in Seq(Edges) /\ Len(edges') = Len(edges) + 1
         /\ out' \in [nodes' -> Seq(Nat)] /\ in' \in [nodes' -> Seq(Nat)]
         /\ \A i \in DOMAIN edges' : edges'[i].source \in nodes' /\ edges'[i].target \in nodes'
         /\ IndexAgrees'
<1>1. /\ edges \in Seq(Edges) /\ out \in [nodes -> Seq(Nat)] /\ in \in [nodes -> Seq(Nat)]
      /\ edges' = Append(edges, e)
      /\ \A i \in DOMAIN edges : edges[i].source \in nodes /\ edges[i].target \in nodes
  BY DEF StoreInv, StoreTypeOK, NoDanglingEdge, AppendEdge
<1>2. /\ edges' \in Seq(Edges) /\ Len(edges') = Len(edges) + 1
      /\ DOMAIN edges' = 1..(Len(edges) + 1) /\ DOMAIN edges = 1..Len(edges)
      /\ \A i \in 1..Len(edges) : edges'[i] = edges[i]
      /\ edges'[Len(edges) + 1] = e
  BY <1>1
<1>3. \A i \in DOMAIN edges' : edges'[i].source \in nodes' /\ edges'[i].target \in nodes'
  BY <1>1, <1>2 DEF HasEndpoints
<1>4. out' = Indexed(out, edges, e, "out") /\ in' = Indexed(in, edges, e, "in")
  BY DEF AppendEdge, Side, Indexed
<1>5. Side(e, "out") \in nodes /\ Side(e, "in") \in nodes
  BY DEF HasEndpoints, Side
<1>6. \A n \in nodes :
        /\ Positions(out[n], At(edges, "out", n))
        /\ Positions(in[n], At(edges, "in", n))
  BY DEF StoreInv, IndexAgrees, Side, At
<1>7. /\ out' \in [nodes -> Seq(Nat)]
      /\ \A n \in nodes : Positions(out'[n], At(Append(edges, e), "out", n))
  BY <1>1, <1>4, <1>5, <1>6, AppendOneSide
<1>8. /\ in' \in [nodes -> Seq(Nat)]
      /\ \A n \in nodes : Positions(in'[n], At(Append(edges, e), "in", n))
  BY <1>1, <1>4, <1>5, <1>6, AppendOneSide
<1>9. IndexAgrees'
  BY <1>1, <1>7, <1>8 DEF IndexAgrees, Side, At
<1> QED BY <1>2, <1>3, <1>7, <1>8, <1>9

-----------------------------------------------------------------------------
LEMMA StoreInitInv == StoreInit => StoreInv
<1> SUFFICES ASSUME StoreInit PROVE StoreInv
  OBVIOUS
<1>1. nodes = {} /\ edges = <<>> /\ out = <<>> /\ in = <<>> /\ survivors = <<>> /\ asked = 0 /\ pruning = "no"
  BY DEF StoreInit
<1>2. <<>> \in Seq(Edges) /\ <<>> \in [{} -> Seq(Nat)] /\ Len(<<>>) = 0 /\ DOMAIN <<>> = {}
  OBVIOUS
<1>3. StoreTypeOK
  BY <1>1, <1>2 DEF StoreTypeOK
<1>4. NoDanglingEdge /\ IndexAgrees
  BY <1>1, <1>2 DEF NoDanglingEdge, IndexAgrees
<1> QED BY <1>3, <1>4 DEF StoreInv

LEMMA StoreNextInv == StoreInv /\ [StoreNext]_storeVars => StoreInv'
<1> SUFFICES ASSUME StoreInv, [StoreNext]_storeVars PROVE StoreInv'
  OBVIOUS
<1>a. /\ nodes \subseteq Ids
      /\ edges \in Seq(Edges) /\ survivors \in Seq(Edges)
      /\ out \in [nodes -> Seq(Nat)] /\ in \in [nodes -> Seq(Nat)]
      /\ asked \in Nat /\ (pruning # "rebuilding" => asked <= Len(edges))
      /\ pruning \in {"no", "asking", "rebuilding"}
      /\ \A i \in DOMAIN edges : edges[i].source \in nodes /\ edges[i].target \in nodes
      /\ \A i \in DOMAIN survivors : survivors[i].source \in nodes /\ survivors[i].target \in nodes
      /\ IndexAgrees
  BY DEF StoreInv, StoreTypeOK, NoDanglingEdge
<1>b. ASSUME nodes' \subseteq Ids, edges' \in Seq(Edges), survivors' \in Seq(Edges),
             out' \in [nodes' -> Seq(Nat)], in' \in [nodes' -> Seq(Nat)],
             asked' \in Nat, pruning' # "rebuilding" => asked' <= Len(edges'),
             pruning' \in {"no", "asking", "rebuilding"},
             \A i \in DOMAIN edges' : edges'[i].source \in nodes' /\ edges'[i].target \in nodes',
             \A i \in DOMAIN survivors' : survivors'[i].source \in nodes' /\ survivors'[i].target \in nodes',
             IndexAgrees'
      PROVE  StoreInv'
  BY <1>b DEF StoreInv, StoreTypeOK, NoDanglingEdge
<1>1. ASSUME NEW n \in Ids, AddNode(n) PROVE StoreInv'
  <2>1. /\ n \notin nodes /\ nodes' = nodes \cup {n} /\ UNCHANGED <<edges, survivors, asked, pruning>>
        /\ out' = With(out, n, <<>>) /\ in' = With(in, n, <<>>)
    BY <1>1 DEF AddNode
  <2>2. <<>> \in Seq(Nat)
    OBVIOUS
  <2>3. /\ out' \in [nodes' -> Seq(Nat)] /\ in' \in [nodes' -> Seq(Nat)]
        /\ out'[n] = <<>> /\ in'[n] = <<>>
        /\ \A m \in nodes : out'[m] = out[m] /\ in'[m] = in[m]
    BY <1>a, <2>1, <2>2 DEF With
  <2>4. /\ {i \in DOMAIN edges : edges[i].source = n} = {}
        /\ {i \in DOMAIN edges : edges[i].target = n} = {}
    BY <1>a, <2>1
  <2>5. Positions(<<>>, {})
    BY DEF Positions
  <2>6. IndexAgrees'
    <3> SUFFICES ASSUME NEW m \in nodes'
                 PROVE  /\ Positions(out'[m], {i \in DOMAIN edges' : edges'[i].source = m})
                        /\ Positions(in'[m], {i \in DOMAIN edges' : edges'[i].target = m})
      BY DEF IndexAgrees
    <3>1. CASE m = n
      BY <2>1, <2>3, <2>4, <2>5, <3>1
    <3>2. CASE m # n
      <4>1. /\ Positions(out[m], {i \in DOMAIN edges : edges[i].source = m})
            /\ Positions(in[m], {i \in DOMAIN edges : edges[i].target = m})
        BY <1>a, <2>1, <3>2 DEF IndexAgrees
      <4> QED BY <2>1, <2>3, <3>2, <4>1
    <3> QED BY <3>1, <3>2
  <2> QED BY <1>a, <1>b, <2>1, <2>3, <2>6
<1>2. ASSUME NEW e \in Edges, AddEdge(e) PROVE StoreInv'
  <2>1. HasEndpoints(e) /\ AppendEdge(e) /\ UNCHANGED <<nodes, survivors, asked, pruning>>
    BY <1>2 DEF AddEdge
  <2>2. /\ edges' \in Seq(Edges) /\ Len(edges') = Len(edges) + 1
        /\ out' \in [nodes' -> Seq(Nat)] /\ in' \in [nodes' -> Seq(Nat)]
        /\ \A i \in DOMAIN edges' : edges'[i].source \in nodes' /\ edges'[i].target \in nodes'
        /\ IndexAgrees'
    BY <2>1, AppendEdgeKeeps
  <2>3. Len(edges) \in Nat
    BY <1>a
  <2>4. pruning' # "rebuilding" => asked' <= Len(edges')
    BY <1>a, <2>1, <2>2, <2>3
  <2> QED BY <1>a, <1>b, <2>1, <2>2, <2>4
<1>3. CASE Prune \/ Drop \/ KeepRaises \/ PruneDone
  <2>1. UNCHANGED <<nodes, edges, out, in>>
    BY <1>3 DEF Prune, Drop, KeepRaises, PruneDone
  <2>2. survivors' \in {survivors, <<>>} /\ survivors' \in Seq(Edges)
    <3>1. survivors' \in {survivors, <<>>}
      BY <1>3 DEF Prune, Drop, KeepRaises, PruneDone
    <3>2. <<>> \in Seq(Edges)
      OBVIOUS
    <3>3. survivors \in Seq(Edges)
      BY <1>a
    <3> QED BY <3>1, <3>2, <3>3, Zenon
  <2>3. /\ asked' \in Nat /\ asked' <= Len(edges')
        /\ pruning' \in {"no", "asking", "rebuilding"}
    BY <1>3, <1>a, <2>1 DEF Prune, Drop, KeepRaises, PruneDone, Asking
  <2>4. \A i \in DOMAIN survivors' : survivors'[i].source \in nodes' /\ survivors'[i].target \in nodes'
    BY <1>a, <2>1, <2>2
  <2>5. IndexAgrees'
    BY <1>a, <2>1 DEF IndexAgrees
  <2> QED BY <1>a, <1>b, <2>1, <2>2, <2>3, <2>4, <2>5
<1>4. CASE Keep
  <2>1. /\ UNCHANGED <<nodes, edges, out, in, pruning>> /\ asked' = asked + 1 /\ asked < Len(edges)
        /\ survivors' = Append(survivors, edges[asked + 1])
    BY <1>4 DEF Keep, Asking
  <2>2. asked + 1 \in DOMAIN edges /\ edges[asked + 1] \in Edges /\ Len(edges) \in Nat
    BY <1>a, <2>1
  <2>3. survivors' \in Seq(Edges)
    BY <1>a, <2>1, <2>2
  <2>4. \A i \in DOMAIN survivors' : \/ i \in DOMAIN survivors /\ survivors'[i] = survivors[i]
                                     \/ survivors'[i] = edges[asked + 1]
    BY <1>a, <2>1, <2>2
  <2>5. \A i \in DOMAIN survivors' : survivors'[i].source \in nodes' /\ survivors'[i].target \in nodes'
    BY <1>a, <2>1, <2>2, <2>4
  <2>6. asked' \in Nat /\ asked' <= Len(edges')
    BY <1>a, <2>1, <2>2
  <2>7. IndexAgrees'
    BY <1>a, <2>1 DEF IndexAgrees
  <2> QED BY <1>a, <1>b, <2>1, <2>3, <2>5, <2>6, <2>7
<1>5. CASE Rebuild
  <2>1. /\ edges' = <<>> /\ UNCHANGED <<nodes, survivors, asked>> /\ pruning' = "rebuilding"
        /\ out' = [n \in nodes |-> <<>>] /\ in' = [n \in nodes |-> <<>>]
    BY <1>5 DEF Rebuild, EmptyIndices
  <2>2. /\ edges' \in Seq(Edges) /\ DOMAIN edges' = {}
        /\ out' \in [nodes' -> Seq(Nat)] /\ in' \in [nodes' -> Seq(Nat)]
    BY <2>1
  <2>3. Positions(<<>>, {})
    BY DEF Positions
  <2>4. IndexAgrees'
    BY <2>1, <2>2, <2>3 DEF IndexAgrees
  <2> QED BY <1>a, <1>b, <2>1, <2>2, <2>4
<1>6. CASE Restore
  <2>1. /\ AppendEdge(Head(survivors)) /\ survivors' = Tail(survivors)
        /\ survivors # <<>> /\ UNCHANGED <<nodes, asked, pruning>> /\ pruning = "rebuilding"
    BY <1>6 DEF Restore
  <2>2. /\ Head(survivors) = survivors[1] /\ 1 \in DOMAIN survivors /\ survivors[1] \in Edges
        /\ survivors' \in Seq(Edges)
        /\ \A i \in DOMAIN survivors' : i + 1 \in DOMAIN survivors /\ survivors'[i] = survivors[i + 1]
    BY <1>a, <2>1
  <2>3. HasEndpoints(Head(survivors))
    BY <1>a, <2>2 DEF HasEndpoints
  <2>4. /\ edges' \in Seq(Edges)
        /\ out' \in [nodes' -> Seq(Nat)] /\ in' \in [nodes' -> Seq(Nat)]
        /\ \A i \in DOMAIN edges' : edges'[i].source \in nodes' /\ edges'[i].target \in nodes'
        /\ IndexAgrees'
    BY <2>1, <2>2, <2>3, AppendEdgeKeeps
  <2>5. \A i \in DOMAIN survivors' : survivors'[i].source \in nodes' /\ survivors'[i].target \in nodes'
    BY <1>a, <2>1, <2>2
  <2> QED BY <1>a, <1>b, <2>1, <2>2, <2>4, <2>5
<1>7. CASE UNCHANGED storeVars
  BY <1>7 DEF storeVars, StoreInv, StoreTypeOK, NoDanglingEdge, IndexAgrees
<1> QED BY <1>1, <1>2, <1>3, <1>4, <1>5, <1>6, <1>7 DEF StoreNext

\* The store is well typed in every reachable state: every position an adjacency
\* list holds is that of an edge, and a prune asks about edges there are
\* (store.py's add_edge and prune_edges).
THEOREM StoreTypeCorrect == StoreSpec => []StoreTypeOK
<1>1. StoreInv => StoreTypeOK
  BY DEF StoreInv
<1> QED BY StoreInitInv, StoreNextInv, <1>1, PTL DEF StoreSpec

\* No edge of the graph or of a prune under way dangles, and the adjacency
\* indices list exactly each node's edges, in every reachable state: whatever
\* the callback keeps, drops or raises on.
THEOREM IndexExact == StoreSpec => []IndexAgrees
<1>1. StoreInv => IndexAgrees
  BY DEF StoreInv
<1> QED BY StoreInitInv, StoreNextInv, <1>1, PTL DEF StoreSpec

\* No edge of the graph, nor one a prune has still to put back, ends at an id that
\* is not a node (store.py:116, 118).
THEOREM NothingDangles == StoreSpec => []NoDanglingEdge
<1>1. StoreInv => NoDanglingEdge
  BY DEF StoreInv
<1> QED BY StoreInitInv, StoreNextInv, <1>1, PTL DEF StoreSpec
=============================================================================
