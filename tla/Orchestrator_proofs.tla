------------------------- MODULE Orchestrator_proofs -------------------------
(***************************************************************************)
(* Proofs about Orchestrator, for any datasets, any number of seeds, of     *)
(* workers (none included) and of rows, and whichever children fail.        *)
(***************************************************************************)
EXTENDS Orchestrator, FiniteSetTheorems, SequenceTheorems, TLAPS

Result == [shard : Index, err : BOOLEAN]

\* Types, with the counters left wide.
Typ ==
  /\ main \in {"adding", "starting", "receiving", "exited"}
  /\ next \in 1..(N + 1) /\ wg \in Int /\ sem \in Int /\ failed \in Nat
  /\ pc \in [Index -> Labels] /\ err \in [Index -> BOOLEAN]
  /\ results \in Seq(Result) /\ printed \in Seq(Result)
  /\ closed \in BOOLEAN /\ closer \in {"none", "waiting", "closing", "ended"}

\* How far main is decides which goroutines exist and whether there is a closer.
Flow ==
  /\ main = "starting" => next <= N
  /\ \A i \in Index : pc[i] = "none" <=> i >= next
  /\ closer # "none" <=> main \in {"receiving", "exited"}
  /\ closer # "none" => next = N + 1
  /\ closed <=> closer = "ended"

\* The wait group counts the goroutines that were added and have not ended,
\* the semaphore those between acquiring and releasing.
Active == {i \in Index : (i < next \/ (i = next /\ main = "starting")) /\ pc[i] # "ended"}
Inside == {i \in Index : pc[i] \in {"opening", "running", "sending", "releasing"}}

Counts == wg = Cardinality(Active) /\ sem = Cardinality(Inside)

\* What follows from the counts at the steps that test them.
Tested == sem <= Workers /\ (closer \in {"closing", "ended"} => Active = {})

LEMMA NamedLength == Len(Named) \in Nat /\ DOMAIN Named = 1..Len(Named)
<1> DEFINE kept == {i \in DOMAIN Datasets : Datasets[i] # Blank}
<1>1. kept \subseteq 1..Len(Datasets) /\ Len(Datasets) \in Nat
  BY OrchestratorAssumption
<1>2. IsFiniteSet(1..Len(Datasets))
  BY <1>1, FS_Interval
<1>3. IsFiniteSet(kept)
  BY <1>1, <1>2, FS_Subset
<1>4. Cardinality(kept) \in Nat
  BY <1>3, FS_CardinalityType
<1> HIDE DEF kept
<1>5. DOMAIN Named = 1..Cardinality(kept)
  BY DEF Named, kept
<1>6. Len(Named) = Cardinality(kept)
  BY <1>4, <1>5
<1> QED BY <1>4, <1>5, <1>6

LEMMA NIsNat == N \in Nat
<1>1. Len(Named) \in Nat /\ Seeds \in Nat
  BY NamedLength, OrchestratorAssumption
<1>2. Len(Named) * Seeds \in Nat
  BY <1>1
<1> QED BY <1>2 DEF N

LEMMA IndexFinite ==
  ASSUME NEW S, S \subseteq Index
  PROVE  IsFiniteSet(S) /\ Cardinality(S) \in Nat /\ Cardinality(S) <= N
<1>1. IsFiniteSet(Index) /\ Cardinality(Index) = N
  BY NIsNat, FS_Interval DEF Index
<1>2. IsFiniteSet(S) /\ Cardinality(S) <= N
  BY <1>1, FS_Subset
<1> QED BY <1>2, FS_CardinalityType

-----------------------------------------------------------------------------
\* What a goroutine's step does to all but the files and the rows.
Others(i) ==
  \/ /\ pc[i] = "acquiring" /\ sem < Workers /\ Goto(i, "opening")
     /\ sem' = sem + 1 /\ UNCHANGED <<wg, err, results>>
  \/ pc[i] = "opening" /\ Goto(i, "running") /\ UNCHANGED <<wg, sem, err, results>>
  \/ UNCHANGED <<pc, wg, sem, err, results>>
  \/ /\ pc[i] \in {"opening", "running"} /\ Goto(i, "sending")
     /\ (err' = err \/ err' = [err EXCEPT ![i] = TRUE]) /\ UNCHANGED <<wg, sem, results>>
  \/ /\ pc[i] = "sending" /\ Goto(i, "releasing")
     /\ results' = Append(results, [shard |-> i, err |-> err[i]]) /\ UNCHANGED <<wg, sem, err>>
  \/ /\ pc[i] = "releasing" /\ Goto(i, "finishing")
     /\ sem' = sem - 1 /\ UNCHANGED <<wg, err, results>>
  \/ /\ pc[i] = "finishing" /\ Goto(i, "ended")
     /\ wg' = wg - 1 /\ UNCHANGED <<sem, err, results>>

LEMMA GoroutineStep ==
  ASSUME NEW i \in Index, Goroutine(i)
  PROVE  Others(i) /\ UNCHANGED <<main, next, closed, closer, printed, failed>>
<1> USE DEF Others, Then
<1>1. CASE Acquire(i)
  BY <1>1 DEF Acquire, Slot
<1>2. CASE Open(i)
  BY <1>2 DEF Open
<1>3. CASE WriteRow(i)
  BY <1>3 DEF WriteRow
<1>4. CASE ChildEnds(i)
  BY <1>4 DEF ChildEnds
<1>5. CASE ChildFails(i)
  BY <1>5 DEF ChildFails
<1>6. CASE Send(i)
  BY <1>6 DEF Send
<1>7. CASE Release(i)
  BY <1>7 DEF Release, Freed
<1>8. CASE Done(i)
  BY <1>8 DEF Done
<1> QED BY <1>1, <1>2, <1>3, <1>4, <1>5, <1>6, <1>7, <1>8 DEF Goroutine

LEMMA InitTyp == Init => Typ /\ Flow
<1> SUFFICES ASSUME Init PROVE Typ /\ Flow
  OBVIOUS
<1>1. next = 1 /\ next \in 1..(N + 1)
  BY NIsNat DEF Init
<1>2. pc \in [Index -> Labels] /\ err \in [Index -> BOOLEAN] /\ \A i \in Index : pc[i] = "none"
  BY DEF Init, Labels
<1>3. \A i \in Index : i >= next
  BY <1>1, NIsNat DEF Index
<1>4. results \in Seq(Result) /\ printed \in Seq(Result)
  BY DEF Init
<1>5. Typ
  <2>1. main = "adding" /\ closer = "none" /\ closed \in BOOLEAN
    BY DEF Init
  <2>2. wg \in Int /\ sem \in Int /\ failed \in Nat
    BY DEF Init
  <2>3. next \in 1..(N + 1)
    BY <1>1
  <2> QED BY <1>2, <1>4, <2>1, <2>2, <2>3 DEF Typ
<1>6. Flow
  BY <1>2, <1>3 DEF Init, Flow
<1> QED BY <1>5, <1>6

LEMMA NextTyp == Typ /\ Flow /\ [Next]_vars => (Typ /\ Flow)'
<1> SUFFICES ASSUME Typ, Flow, [Next]_vars PROVE Typ' /\ Flow'
  OBVIOUS
<1> USE NIsNat
<1>1. CASE Add
  BY <1>1 DEF Add, Typ, Flow
<1>2. CASE Start
  <2>1. /\ main = "starting" /\ next <= N /\ next \in Index /\ next' = next + 1 /\ main' = "adding"
        /\ UNCHANGED <<wg, err, sem, results, closed, closer, printed, failed>>
        /\ pc' = [pc EXCEPT ![next] = "acquiring"]
    BY <1>2 DEF Start, Typ, Flow, Index
  <2>2. \A i \in Index : pc'[i] = IF i = next THEN "acquiring" ELSE pc[i]
    BY <2>1 DEF Typ
  <2>3. pc' \in [Index -> Labels]
    BY <2>1 DEF Typ, Labels
  <2>4. Typ'
    BY <2>1, <2>3 DEF Typ
  <2>5. \A i \in Index : pc'[i] = "none" <=> i >= next'
    BY <2>1, <2>2 DEF Typ, Flow, Index
  <2> QED BY <2>1, <2>4, <2>5 DEF Flow
<1>3. CASE StartCloser
  BY <1>3 DEF StartCloser, Typ, Flow
<1>4. CASE Receive
  <2>1. /\ results # <<>> /\ printed' = Append(printed, Head(results)) /\ results' = Tail(results)
        /\ failed' = failed + Count(Head(results))
        /\ UNCHANGED <<main, next, wg, pc, err, sem, closed, closer>>
    BY <1>4 DEF Receive
  <2>2. Head(results) \in Result /\ results' \in Seq(Result) /\ Count(Head(results)) \in Nat
    BY <2>1 DEF Typ, Count
  <2> QED BY <2>1, <2>2 DEF Typ, Flow
<1>5. CASE Exit
  BY <1>5 DEF Exit, Typ, Flow
<1>6. CASE Wait \/ Close
  <2>1. /\ closer \in {"waiting", "closing"} /\ closer' \in {"closing", "ended"}
        /\ closed' \in BOOLEAN /\ (closed' <=> closer' = "ended")
        /\ UNCHANGED <<main, next, wg, pc, err, sem, results, printed, failed>>
    <3>1. CASE Wait
      BY <3>1 DEF Wait, Typ, Flow
    <3>2. CASE Close
      BY <3>2 DEF Close
    <3> QED BY <1>6, <3>1, <3>2
  <2>2. Typ'
    BY <2>1 DEF Typ
  <2>3. Flow'
    BY <2>1 DEF Flow
  <2> QED BY <2>2, <2>3
<1>7. ASSUME NEW i \in Index, Goroutine(i) PROVE Typ' /\ Flow'
  <2>1. Others(i) /\ UNCHANGED <<main, next, closed, closer, printed, failed>>
    BY <1>7, GoroutineStep
  <2>2. \/ pc' = pc
        \/ pc[i] \notin {"none", "ended"} /\ \E l \in Labels \ {"none"} : pc' = [pc EXCEPT ![i] = l]
    BY <2>1 DEF Others, Goto, Labels
  <2>3. pc' \in [Index -> Labels] /\ \A j \in Index : pc'[j] = "none" <=> pc[j] = "none"
    BY <2>2 DEF Typ
  <2>4. err' \in [Index -> BOOLEAN]
    BY <2>1 DEF Others, Typ
  <2>5. results' \in Seq(Result)
    <3>1. results \in Seq(Result) /\ [shard |-> i, err |-> err[i]] \in Result
      BY DEF Typ, Result
    <3> QED BY <2>1, <3>1 DEF Others
  <2>6. wg' \in Int /\ sem' \in Int
    BY <2>1 DEF Others, Typ
  <2> QED BY <2>1, <2>3, <2>4, <2>5, <2>6 DEF Typ, Flow
<1>8. CASE UNCHANGED vars
  BY <1>8 DEF vars, Typ, Flow
<1> QED BY <1>1, <1>2, <1>3, <1>4, <1>5, <1>6, <1>7, <1>8 DEF Next, Main, Closer, Gone

-----------------------------------------------------------------------------
LEMMA InitCounts == Init => Counts /\ Tested
<1> SUFFICES ASSUME Init PROVE Counts /\ Tested
  OBVIOUS
<1>1. next = 1 /\ main = "adding" /\ \A i \in Index : pc[i] = "none"
  BY DEF Init
<1>2. \A i \in Index : ~ (i < 1)
  BY NIsNat DEF Index
<1>3. Active = {} /\ Inside = {}
  BY <1>1, <1>2 DEF Active, Inside
<1>4. wg = 0 /\ sem = 0 /\ closer = "none" /\ Workers \in Nat
  BY OrchestratorAssumption DEF Init
<1> QED BY <1>3, <1>4, FS_EmptySet DEF Counts, Tested

\* The counts follow the sets that a step leaves alone, adds to or takes from.
LEMMA CountsStep ==
  ASSUME Typ, Counts,
         \/ Active' = Active /\ wg' = wg
         \/ \E i \in Index : i \notin Active /\ Active' = Active \cup {i} /\ wg' = wg + 1
         \/ \E i \in Index : i \in Active /\ Active' = Active \ {i} /\ wg' = wg - 1,
         \/ Inside' = Inside /\ sem' = sem
         \/ \E i \in Index : i \notin Inside /\ Inside' = Inside \cup {i} /\ sem' = sem + 1
         \/ \E i \in Index : i \in Inside /\ Inside' = Inside \ {i} /\ sem' = sem - 1
  PROVE  Counts'
<1>1. IsFiniteSet(Active) /\ IsFiniteSet(Inside)
  <2>1. Active \subseteq Index /\ Inside \subseteq Index
    BY DEF Active, Inside
  <2> QED BY <2>1, IndexFinite
<1>2. wg = Cardinality(Active) /\ sem = Cardinality(Inside)
  BY DEF Counts
<1>3. wg' = Cardinality(Active')
  BY <1>1, <1>2, FS_AddElement, FS_RemoveElement
<1>4. sem' = Cardinality(Inside')
  BY <1>1, <1>2, FS_AddElement, FS_RemoveElement
<1> QED BY <1>3, <1>4 DEF Counts

LEMMA NextCounts == Typ /\ Flow /\ Counts /\ Tested /\ [Next]_vars => (Counts /\ Tested)'
<1> SUFFICES ASSUME Typ, Flow, Counts, Tested, [Next]_vars PROVE Counts' /\ Tested'
  OBVIOUS
<1> USE NIsNat
<1>a. /\ Index = 1..N /\ next \in 1..(N + 1) /\ pc \in [Index -> Labels]
      /\ \A i \in Index : pc[i] = "none" <=> i >= next
  BY DEF Typ, Flow, Index
<1>1. CASE Add
  <2>1. /\ main = "adding" /\ next <= N /\ wg' = wg + 1 /\ main' = "starting"
        /\ UNCHANGED <<next, pc, sem, closer>>
    BY <1>1 DEF Add
  <2>2. next \in Index /\ pc[next] = "none" /\ next \notin Active
    BY <1>a, <2>1 DEF Active
  <2>3. Active' = Active \cup {next} /\ Inside' = Inside
    BY <1>a, <2>1, <2>2 DEF Active, Inside
  <2>4. Counts'
    BY <2>1, <2>2, <2>3, CountsStep
  <2> QED BY <2>1, <2>4 DEF Tested, Flow
<1>2. CASE Start
  <2>1. /\ main = "starting" /\ next <= N /\ next' = next + 1 /\ main' = "adding"
        /\ UNCHANGED <<wg, sem, closer>> /\ pc' = [pc EXCEPT ![next] = "acquiring"]
    BY <1>2 DEF Start, Flow
  <2>2. next \in Index /\ \A i \in Index : pc'[i] = IF i = next THEN "acquiring" ELSE pc[i]
    BY <1>a, <2>1
  <2>3. pc[next] = "none"
    BY <1>a, <2>2
  <2>4. Active' = Active
    BY <1>a, <2>1, <2>2, <2>3 DEF Active
  <2>5. Inside' = Inside
    BY <2>2, <2>3 DEF Inside
  <2>6. Counts'
    BY <2>1, <2>4, <2>5, CountsStep
  <2> QED BY <2>1, <2>6 DEF Tested, Flow
<1>3. CASE StartCloser \/ Receive \/ Exit \/ Close \/ Gone
  <2>1. UNCHANGED <<next, wg, pc, sem>> /\ main # "starting" /\ main' # "starting"
    BY <1>3 DEF StartCloser, Receive, Exit, Close, Gone, vars, Flow
  <2>2. closer' \in {"closing", "ended"} => closer \in {"closing", "ended"}
    BY <1>3 DEF StartCloser, Receive, Exit, Close, Gone, vars
  <2>3. Active' = Active /\ Inside' = Inside
    BY <2>1 DEF Active, Inside
  <2>4. Counts'
    BY <2>1, <2>3, CountsStep
  <2> QED BY <2>1, <2>2, <2>3, <2>4 DEF Tested
<1>4. CASE Wait
  <2>1. UNCHANGED <<main, next, wg, pc, sem>> /\ wg = 0
    BY <1>4 DEF Wait, AllDone
  <2>2. Active' = Active /\ Inside' = Inside
    BY <2>1 DEF Active, Inside
  <2>3. Active \subseteq Index
    BY DEF Active
  <2>4. IsFiniteSet(Active) /\ Cardinality(Active) = 0
    BY <2>1, <2>3, IndexFinite DEF Counts
  <2>5. Active = {}
    BY <2>4, FS_EmptySet
  <2>6. Counts'
    BY <2>1, <2>2, CountsStep
  <2> QED BY <2>1, <2>2, <2>5, <2>6 DEF Tested
<1>5. ASSUME NEW i \in Index, Goroutine(i) PROVE Counts' /\ Tested'
  <2>1. Others(i) /\ UNCHANGED <<main, next, closer>>
    BY <1>5, GoroutineStep
  <2> DEFINE moves(l) == \A j \in Index : pc'[j] = IF j = i THEN l ELSE pc[j]
  <2>2. ASSUME NEW l, Goto(i, l) PROVE moves(l)
    BY <2>2, <1>a DEF Goto
  <2>3. CASE pc[i] = "acquiring" /\ sem < Workers /\ Goto(i, "opening") /\ sem' = sem + 1 /\ wg' = wg
    <3>1. moves("opening")
      BY <2>2, <2>3
    <3>2. Active' = Active
      BY <2>1, <2>3, <3>1 DEF Active
    <3>3. i \notin Inside /\ Inside' = Inside \cup {i}
      BY <2>3, <3>1 DEF Inside
    <3>4. Counts'
      BY <2>3, <3>2, <3>3, CountsStep
    <3>5. sem' <= Workers
      BY <2>3, OrchestratorAssumption DEF Typ
    <3> QED BY <2>1, <3>2, <3>4, <3>5 DEF Tested
  <2>4. CASE pc[i] = "releasing" /\ Goto(i, "finishing") /\ sem' = sem - 1 /\ wg' = wg
    <3>1. moves("finishing")
      BY <2>2, <2>4
    <3>2. Active' = Active
      BY <2>1, <2>4, <3>1 DEF Active
    <3>3. i \in Inside /\ Inside' = Inside \ {i}
      BY <2>4, <3>1 DEF Inside
    <3>4. Counts'
      BY <2>4, <3>2, <3>3, CountsStep
    <3>5. sem' <= Workers
      BY <2>4, OrchestratorAssumption DEF Typ, Tested
    <3> QED BY <2>1, <3>2, <3>4, <3>5 DEF Tested
  <2>5. CASE pc[i] = "finishing" /\ Goto(i, "ended") /\ wg' = wg - 1 /\ sem' = sem
    <3>1. moves("ended")
      BY <2>2, <2>5
    <3>2. i < next
      BY <1>a, <2>5
    <3>3. i \in Active /\ Active' = Active \ {i}
      BY <2>1, <2>5, <3>1, <3>2 DEF Active
    <3>4. Inside' = Inside
      BY <2>5, <3>1 DEF Inside
    <3>5. Counts'
      BY <2>5, <3>3, <3>4, CountsStep
    <3> QED BY <2>1, <2>5, <3>3, <3>5 DEF Tested
  <2>6. CASE /\ UNCHANGED <<wg, sem>>
             /\ \/ pc' = pc
                \/ /\ pc[i] \in {"opening", "running", "sending"}
                   /\ \E l \in {"running", "sending", "releasing"} : Goto(i, l)
    <3>1. \/ pc' = pc
          \/ /\ pc[i] \in {"opening", "running", "sending"}
             /\ \E l \in {"running", "sending", "releasing"} : moves(l)
      BY <2>2, <2>6
    <3>2. Active' = Active
      BY <2>1, <3>1 DEF Active
    <3>3. Inside' = Inside
      BY <3>1 DEF Inside
    <3>4. Counts'
      BY <2>6, <3>2, <3>3, CountsStep
    <3> QED BY <2>1, <2>6, <3>2, <3>4 DEF Tested
  <2> QED BY <2>1, <2>3, <2>4, <2>5, <2>6 DEF Others
<1>6. CASE UNCHANGED vars
  BY <1>6 DEF vars, Counts, Tested, Active, Inside
<1> QED BY <1>1, <1>2, <1>3, <1>4, <1>5, <1>6 DEF Next, Main, Closer

\* Never more children than workers: those in a child hold a slot each.
THEOREM SlotsBound == Spec => []BoundedConcurrency
<1>1. Typ /\ Counts /\ Tested => BoundedConcurrency
  <2> SUFFICES ASSUME Typ, Counts, Tested PROVE BoundedConcurrency
    OBVIOUS
  <2> DEFINE busy == {i \in Index : pc[i] \in {"opening", "running"}}
  <2>1. busy \subseteq Inside /\ Inside \subseteq Index
    BY DEF Inside
  <2>2. IsFiniteSet(Inside) /\ Cardinality(Inside) \in Nat
    BY <2>1, IndexFinite
  <2>3. IsFiniteSet(busy) /\ Cardinality(busy) \in Nat
    BY <2>1, IndexFinite
  <2>4. Cardinality(busy) <= Cardinality(Inside)
    BY <2>1, <2>2, FS_Subset
  <2>5. Cardinality(Inside) <= Workers /\ Workers \in Nat
    BY OrchestratorAssumption DEF Counts, Tested
  <2> QED BY <2>2, <2>3, <2>4, <2>5 DEF BoundedConcurrency
<1> QED BY InitTyp, NextTyp, InitCounts, NextCounts, <1>1, PTL DEF Spec

\* No goroutine sends on the closed channel: it is closed once the wait group
\* has counted every goroutine out.
THEOREM SendsBeforeClose == Spec => []NoSendOnClosed
<1>1. Typ /\ Flow /\ Tested => NoSendOnClosed
  <2> SUFFICES ASSUME Typ, Flow, Tested, closed, NEW i \in Index PROVE pc[i] = "ended"
    BY DEF NoSendOnClosed
  <2>1. Active = {} /\ next = N + 1
    BY DEF Flow, Tested
  <2>2. i < next
    BY <2>1, NIsNat DEF Index
  <2> QED BY <2>1, <2>2 DEF Active
<1> QED BY InitTyp, NextTyp, InitCounts, NextCounts, <1>1, PTL DEF Spec

-----------------------------------------------------------------------------
(* What main has been told: the results it has printed and those on their   *)
(* way, one for each goroutine that has sent.                               *)

Told == printed \o results
Sent(i) == pc[i] \in {"releasing", "finishing", "ended"}

Reports ==
  /\ \A i \in Index : Sent(i) => \E j \in 1..Len(Told) : Told[j] = [shard |-> i, err |-> err[i]]
  /\ \A j \in 1..Len(Told) : Sent(Told[j].shard) /\ Told[j].err = err[Told[j].shard]
  /\ \A j, k \in 1..Len(Told) : Told[j].shard = Told[k].shard => j = k

Tallied ==
  /\ failed > 0 <=> \E j \in 1..Len(printed) : printed[j].err
  /\ main = "exited" => closed /\ results = <<>> /\ (status = 1 <=> failed > 0)

LEMMA InitReports == Init => Reports /\ Tallied
<1> SUFFICES ASSUME Init PROVE Reports /\ Tallied
  OBVIOUS
<1>1. printed = <<>> /\ results = <<>> /\ failed = 0 /\ main = "adding" /\ \A i \in Index : pc[i] = "none"
  BY DEF Init
<1>2. Len(Told) = 0 /\ Len(printed) = 0
  BY <1>1 DEF Told
<1>3. Reports
  BY <1>1, <1>2 DEF Reports, Sent
<1> QED BY <1>1, <1>2, <1>3 DEF Tallied

\* A step that tells main nothing new, and no goroutine sends.
LEMMA ReportsKept ==
  ASSUME Typ, Reports, Told' = Told, \A i \in Index : Sent(i)' <=> Sent(i),
         \A i \in Index : Sent(i) => err'[i] = err[i]
  PROVE  Reports'
<1>1. \A j \in 1..Len(Told) : Told[j].shard \in Index
  <2>1. Told \in Seq(Result)
    BY ConcatProperties DEF Typ, Told
  <2>2. \A j \in 1..Len(Told) : Told[j] \in Result
    BY <2>1
  <2> QED BY <2>2 DEF Result
<1>2. \A i \in Index : Sent(i)' => \E j \in 1..Len(Told') : Told'[j] = [shard |-> i, err |-> err'[i]]
  BY DEF Reports
<1>3. \A j \in 1..Len(Told') : Sent(Told[j].shard)' /\ Told[j].err = err'[Told[j].shard]
  <2> SUFFICES ASSUME NEW j \in 1..Len(Told)
               PROVE  Sent(Told[j].shard)' /\ Told[j].err = err'[Told[j].shard]
    OBVIOUS
  <2>1. Told[j].shard \in Index /\ Sent(Told[j].shard) /\ Told[j].err = err[Told[j].shard]
    BY <1>1 DEF Reports
  <2>2. PICK i \in Index : i = Told[j].shard
    BY <2>1
  <2>3. Sent(i)' /\ err'[i] = err[i]
    BY <2>1, <2>2
  <2>4. pc'[Told[j].shard] = pc'[i]
    BY <2>2
  <2> QED BY <2>1, <2>2, <2>3, <2>4 DEF Sent
<1>4. \A j, k \in 1..Len(Told') : Told'[j].shard = Told'[k].shard => j = k
  BY DEF Reports
<1> QED BY <1>2, <1>3, <1>4 DEF Reports, Sent

LEMMA NextReports == Typ /\ Flow /\ Reports /\ Tallied /\ [Next]_vars => (Reports /\ Tallied)'
<1> SUFFICES ASSUME Typ, Flow, Reports, Tallied, [Next]_vars PROVE Reports' /\ Tallied'
  OBVIOUS
<1>a. /\ printed \in Seq(Result) /\ results \in Seq(Result) /\ failed \in Nat
      /\ pc \in [Index -> Labels] /\ err \in [Index -> BOOLEAN]
  BY DEF Typ
<1>1. CASE Add \/ StartCloser \/ Wait \/ Close
  <2>1. UNCHANGED <<pc, err, printed, results, failed>> /\ main' # "exited"
    <3>1. CASE Add \/ StartCloser
      BY <3>1 DEF Add, StartCloser
    <3>2. CASE Wait \/ Close
      <4>1. UNCHANGED <<main, pc, err, printed, results, failed>> /\ closer \in {"waiting", "closing"}
        BY <3>2 DEF Wait, Close
      <4>2. ~ closed
        BY <4>1 DEF Flow
      <4>3. main # "exited"
        BY <4>2 DEF Tallied
      <4> QED BY <4>1, <4>3
    <3> QED BY <1>1, <3>1, <3>2
  <2>2. Reports'
    BY <2>1, ReportsKept DEF Told, Sent
  <2> QED BY <2>1, <2>2 DEF Tallied
<1>2. CASE Start
  <2>1. UNCHANGED <<err, printed, results, failed>> /\ main' = "adding"
        /\ next <= N /\ pc' = [pc EXCEPT ![next] = "acquiring"]
    BY <1>2 DEF Start, Flow
  <2>2. next \in Index /\ pc[next] = "none"
    BY <2>1, NIsNat DEF Typ, Flow, Index
  <2>3. \A i \in Index : Sent(i)' <=> Sent(i)
    BY <1>a, <2>1, <2>2 DEF Sent
  <2>4. Reports'
    BY <2>1, <2>3, ReportsKept DEF Told
  <2> QED BY <2>1, <2>4 DEF Tallied
<1>3. CASE Receive
  <2>1. /\ results # <<>> /\ printed' = Append(printed, Head(results)) /\ results' = Tail(results)
        /\ failed' = failed + Count(Head(results)) /\ UNCHANGED <<pc, err>> /\ main' # "exited"
    BY <1>3 DEF Receive
  <2>2. Head(results) \in Result
    BY <1>a, <2>1
  <2>3. Told' = Told
    BY <1>a, <2>1 DEF Told
  <2>4. Reports'
    BY <2>1, <2>3, ReportsKept DEF Sent
  <2>5. /\ Len(printed') = Len(printed) + 1 /\ printed'[Len(printed) + 1] = Head(results)
        /\ \A j \in 1..Len(printed) : printed'[j] = printed[j]
        /\ Len(printed) \in Nat
    BY <1>a, <2>1, <2>2
  <2>6. Head(results).err \in BOOLEAN
    BY <2>2 DEF Result
  <2>7. failed' > 0 <=> failed > 0 \/ Head(results).err
    BY <1>a, <2>1, <2>6 DEF Count
  <2>8. (\E j \in 1..Len(printed') : printed'[j].err) <=> (\E j \in 1..Len(printed) : printed[j].err) \/ Head(results).err
    <3>1. 1..Len(printed') = (1..Len(printed)) \cup {Len(printed) + 1}
      BY <2>5
    <3> QED BY <2>5, <3>1, Zenon
  <2>9. failed > 0 <=> \E j \in 1..Len(printed) : printed[j].err
    BY DEF Tallied
  <2>10. failed' > 0 <=> \E j \in 1..Len(printed') : printed'[j].err
    BY <2>7, <2>8, <2>9, Zenon
  <2> QED BY <2>1, <2>4, <2>10 DEF Tallied
<1>4. CASE Exit
  <2>1. /\ UNCHANGED <<pc, err, printed, results, failed, closed>> /\ closed /\ results = <<>>
        /\ status' = IF failed > 0 THEN 1 ELSE 0
    BY <1>4 DEF Exit, Drained
  <2>2. Reports'
    BY <2>1, ReportsKept DEF Told, Sent
  <2> QED BY <2>1, <2>2 DEF Tallied
<1>5. ASSUME NEW i \in Index, main # "exited", Goroutine(i) PROVE Reports' /\ Tallied'
  <2>1. Others(i) /\ UNCHANGED <<main, next, closed, closer, printed, failed>>
    BY <1>5, GoroutineStep
  <2>2. Tallied'
    BY <1>5, <2>1 DEF Tallied
  <2>3. ASSUME NEW l, Goto(i, l) PROVE \A j \in Index : pc'[j] = IF j = i THEN l ELSE pc[j]
    BY <2>3, <1>a DEF Goto
  <2>4. CASE /\ UNCHANGED results
             /\ \/ UNCHANGED pc
                \/ \E l \in {"opening", "running", "sending"} :
                     pc[i] \in {"acquiring", "opening", "running"} /\ Goto(i, l)
                \/ \E l \in {"finishing", "ended"} : pc[i] \in {"releasing", "finishing"} /\ Goto(i, l)
             /\ \/ UNCHANGED err
                \/ pc[i] \in {"opening", "running"} /\ err' = [err EXCEPT ![i] = TRUE]
    <3>1. \A j \in Index : Sent(j)' <=> Sent(j)
      BY <2>3, <2>4 DEF Sent
    <3>2. \A j \in Index : Sent(j) => err'[j] = err[j]
      BY <1>a, <2>4 DEF Sent
    <3>3. Told' = Told
      BY <2>1, <2>4 DEF Told
    <3> QED BY <2>2, <3>1, <3>2, <3>3, ReportsKept
  <2>5. CASE /\ pc[i] = "sending" /\ Goto(i, "releasing") /\ UNCHANGED err
             /\ results' = Append(results, [shard |-> i, err |-> err[i]])
    <3> DEFINE r == [shard |-> i, err |-> err[i]]
    <3>1. r \in Result
      BY <1>a DEF Result
    <3>2. /\ Told \in Seq(Result) /\ Len(Told) \in Nat
          /\ Told' = Append(Told, r)
      BY <1>a, <2>1, <2>5, <3>1 DEF Told
    <3>3. /\ Len(Told') = Len(Told) + 1 /\ Told'[Len(Told) + 1] = r
          /\ \A j \in 1..Len(Told) : Told'[j] = Told[j] /\ Told[j].shard \in Index
      <4> HIDE DEF r
      <4>1. \A j \in 1..Len(Told) : Told[j] \in Result
        BY <3>2
      <4>2. \A j \in 1..Len(Told) : Told[j].shard \in Index
        BY <4>1 DEF Result
      <4>3. /\ Len(Append(Told, r)) = Len(Told) + 1 /\ Append(Told, r)[Len(Told) + 1] = r
            /\ \A j \in 1..Len(Told) : Append(Told, r)[j] = Told[j]
        BY <3>1, <3>2, AppendProperties
      <4> QED BY <3>2, <4>2, <4>3
    <3> HIDE DEF r
    <3>4. ~ Sent(i) /\ Sent(i)' /\ \A j \in Index : j # i => (Sent(j)' <=> Sent(j))
      BY <2>3, <2>5 DEF Sent
    <3>5. r.shard = i /\ r.err = err[i]
      BY DEF r
    <3>6. \A j \in 1..Len(Told) : /\ Told[j].shard # i /\ Sent(Told[j].shard)
                                  /\ Told[j].err = err[Told[j].shard]
      BY <3>4 DEF Reports
    <3>7. \A j \in Index : Sent(j)' => \E k \in 1..Len(Told') : Told'[k] = [shard |-> j, err |-> err'[j]]
      <4> SUFFICES ASSUME NEW j \in Index, Sent(j)'
                   PROVE  \E k \in 1..Len(Told') : Told'[k] = [shard |-> j, err |-> err'[j]]
        OBVIOUS
      <4>1. CASE j = i
        BY <2>5, <3>2, <3>3, <4>1 DEF r
      <4>2. CASE j # i
        <5>1. PICK k \in 1..Len(Told) : Told[k] = [shard |-> j, err |-> err[j]]
          BY <3>4, <4>2 DEF Reports
        <5>2. k \in 1..Len(Told') /\ Told'[k] = Told[k]
          BY <3>2, <3>3
        <5> QED BY <2>5, <5>1, <5>2
      <4> QED BY <4>1, <4>2
    <3>8. \A k \in 1..Len(Told') : /\ pc'[Told'[k].shard] \in {"releasing", "finishing", "ended"}
                                   /\ Told'[k].err = err'[Told'[k].shard]
      <4> SUFFICES ASSUME NEW k \in 1..Len(Told')
                   PROVE  /\ pc'[Told'[k].shard] \in {"releasing", "finishing", "ended"}
                          /\ Told'[k].err = err'[Told'[k].shard]
        OBVIOUS
      <4>1. CASE k = Len(Told) + 1
        BY <2>5, <3>3, <3>4, <3>5, <4>1 DEF Sent
      <4>2. CASE k # Len(Told) + 1
        <5>1. k \in 1..Len(Told)
          BY <3>2, <3>3, <4>2
        <5>2. Told'[k] = Told[k] /\ Told[k].shard \in Index /\ Told[k].shard # i
              /\ Sent(Told[k].shard) /\ Told[k].err = err[Told[k].shard]
          BY <3>3, <3>6, <5>1
        <5>3. PICK j \in Index : j = Told[k].shard
          BY <5>2
        <5>4. Sent(j)'
          BY <3>4, <5>2, <5>3
        <5> QED BY <2>5, <5>2, <5>3, <5>4 DEF Sent
      <4> QED BY <4>1, <4>2
    <3>9. \A j, k \in 1..Len(Told') : Told'[j].shard = Told'[k].shard => j = k
      <4> SUFFICES ASSUME NEW j \in 1..Len(Told'), NEW k \in 1..Len(Told'),
                          Told'[j].shard = Told'[k].shard
                   PROVE  j = k
        OBVIOUS
      <4>1. CASE j \in 1..Len(Told) /\ k \in 1..Len(Told)
        BY <3>3, <4>1 DEF Reports
      <4>2. CASE ~ (j \in 1..Len(Told)) /\ ~ (k \in 1..Len(Told))
        BY <3>2, <3>3, <4>2
      <4>3. CASE j \in 1..Len(Told) /\ ~ (k \in 1..Len(Told))
        <5>1. k = Len(Told) + 1
          BY <3>2, <3>3, <4>3
        <5> QED BY <3>3, <3>5, <3>6, <4>3, <5>1
      <4>4. CASE ~ (j \in 1..Len(Told)) /\ k \in 1..Len(Told)
        <5>1. j = Len(Told) + 1
          BY <3>2, <3>3, <4>4
        <5> QED BY <3>3, <3>5, <3>6, <4>4, <5>1
      <4> QED BY <4>1, <4>2, <4>3, <4>4
    <3> QED BY <2>2, <3>7, <3>8, <3>9 DEF Reports, Sent
  <2> QED BY <2>1, <2>4, <2>5 DEF Others
<1>6. CASE UNCHANGED vars
  <2>1. UNCHANGED <<main, pc, err, printed, results, failed, closed, status>>
    BY <1>6 DEF vars
  <2>2. Reports'
    BY <2>1, ReportsKept DEF Told, Sent
  <2> QED BY <2>1, <2>2 DEF Tallied
<1> QED BY <1>1, <1>2, <1>3, <1>4, <1>5, <1>6 DEF Next, Main, Closer, Gone

\* When the program exits it has reported every shard once, and its status
\* says whether some child failed.
THEOREM ExitReportsAll == Spec => []ExitTellsAll
<1>1. Typ /\ Flow /\ Tested /\ Reports /\ Tallied => ExitTellsAll
  <2> SUFFICES ASSUME Typ, Flow, Tested, Reports, Tallied, main = "exited"
               PROVE  /\ Len(printed) = N
                      /\ \A i \in Index : \E j \in 1..N : printed[j] = [shard |-> i, err |-> err[i]]
                      /\ (status = 1) <=> (\E i \in Index : err[i])
    BY DEF ExitTellsAll
  <2>1. closed /\ results = <<>> /\ (status = 1 <=> \E j \in 1..Len(printed) : printed[j].err)
    BY DEF Tallied
  <2>2. \A i \in Index : Sent(i)
    <3>1. Active = {} /\ next = N + 1
      BY <2>1 DEF Flow, Tested
    <3>2. \A i \in Index : i < next
      BY <3>1, NIsNat DEF Index
    <3> QED BY <3>1, <3>2 DEF Active, Sent
  <2>3. printed \in Seq(Result) /\ Len(printed) \in Nat /\ Told = printed
    BY <2>1 DEF Typ, Told
  <2>4. \A i \in Index : \E j \in 1..Len(printed) : printed[j] = [shard |-> i, err |-> err[i]]
    BY <2>2, <2>3 DEF Reports
  <2>5. \A j \in 1..Len(printed) : printed[j].shard \in Index /\ printed[j].err = err[printed[j].shard]
    <3>1. \A j \in 1..Len(printed) : printed[j] \in Result
      BY <2>3
    <3> QED BY <2>3, <3>1 DEF Reports, Result
  <2>6. Len(printed) = N
    <3> DEFINE f == [j \in 1..Len(printed) |-> printed[j].shard]
    <3>1. f \in [1..Len(printed) -> Index]
      BY <2>5
    <3>2. \A j, k \in 1..Len(printed) : f[j] = f[k] => j = k
      BY <2>3 DEF Reports
    <3>3. \A i \in Index : \E j \in 1..Len(printed) : f[j] = i
      <4> SUFFICES ASSUME NEW i \in Index PROVE \E j \in 1..Len(printed) : f[j] = i
        OBVIOUS
      <4>1. PICK j \in 1..Len(printed) : printed[j] = [shard |-> i, err |-> err[i]]
        BY <2>4
      <4>2. printed[j].shard = i
        BY <4>1
      <4>3. f[j] = i
        BY <4>2
      <4> QED BY <4>3
    <3> HIDE DEF f
    <3>4. f \in Bijection(1..Len(printed), Index)
      BY <3>1, <3>2, <3>3 DEF Bijection, Injection, Surjection, IsInjective
    <3>5. ExistsBijection(1..Len(printed), Index)
      BY <3>4 DEF ExistsBijection
    <3>6. IsFiniteSet(1..Len(printed)) /\ Cardinality(1..Len(printed)) = Len(printed)
      BY <2>3, FS_Interval
    <3>7. Cardinality(Index) = N
      BY NIsNat, FS_Interval DEF Index
    <3> QED BY <3>5, <3>6, <3>7, FS_Bijection
  <2>7. (\E j \in 1..Len(printed) : printed[j].err) <=> (\E i \in Index : err[i])
    <3>1. ASSUME NEW j \in 1..Len(printed), printed[j].err PROVE \E i \in Index : err[i]
      BY <2>5, <3>1
    <3>2. ASSUME NEW i \in Index, err[i] PROVE \E j \in 1..Len(printed) : printed[j].err
      <4>1. PICK j \in 1..Len(printed) : printed[j] = [shard |-> i, err |-> err[i]]
        BY <2>4
      <4>2. printed[j].err = err[i]
        BY <4>1
      <4> QED BY <3>2, <4>2
    <3> QED BY <3>1, <3>2
  <2> QED BY <2>1, <2>4, <2>6, <2>7
<1> QED
  BY InitTyp, NextTyp, InitCounts, NextCounts, InitReports, NextReports, <1>1, PTL DEF Spec

-----------------------------------------------------------------------------
(* The files.  Distinct shards have distinct files as long as no dataset is  *)
(* named twice: then what a child has written stays as it left it.           *)

DistinctNames == \A j, k \in DOMAIN Named : Named[j] = Named[k] => j = k

\* What quotient and remainder are to each other, for any divisor.
LEMMA DivMod ==
  ASSUME NEW s \in Nat, s > 0, NEW x \in Nat
  PROVE  x = s * (x \div s) + (x % s) /\ x % s \in 0..(s - 1) /\ x \div s \in Nat
OBVIOUS

LEMMA DivBound ==
  ASSUME NEW s \in Nat, s > 0, NEW x \in Nat, NEW n \in Nat, x < n * s
  PROVE  x \div s < n
<1>1. x = s * (x \div s) + (x % s) /\ x % s \in Nat /\ x \div s \in Nat
  BY DivMod
<1> SUFFICES ASSUME n <= x \div s PROVE FALSE
  BY <1>1
<1>2. PICK k \in Nat : x \div s = n + k
  <2>1. x \div s - n \in Nat
    BY <1>1
  <2> QED BY <1>1, <2>1
<1>3. s * (n + k) = s * n + s * k /\ s * k >= 0
  OBVIOUS
<1> QED BY <1>1, <1>2, <1>3

\* A position is told by its dataset and its seed.
LEMMA ShardsDistinct ==
  ASSUME DistinctNames, NEW i \in Index, NEW k \in Index, Shards[i] = Shards[k]
  PROVE  i = k
<1> DEFINE ds(x) == ((x - 1) \div Seeds) + 1
<1>1. Seeds \in Nat /\ N = Len(Named) * Seeds /\ Len(Named) \in Nat /\ Seeds > 0
  <2>1. Seeds \in Nat /\ N = Len(Named) * Seeds
    BY OrchestratorAssumption DEF N
  <2>2. Len(Named) \in Nat
    BY NamedLength
  <2>3. N > 0
    BY NIsNat DEF Index
  <2> QED BY <2>1, <2>2, <2>3
<1>2. i - 1 \in Nat /\ k - 1 \in Nat /\ i - 1 < Len(Named) * Seeds /\ k - 1 < Len(Named) * Seeds
  BY <1>1, NIsNat DEF Index
<1>3. ds(i) \in 1..Len(Named) /\ ds(k) \in 1..Len(Named)
  <2>1. (i - 1) \div Seeds \in Nat /\ (k - 1) \div Seeds \in Nat
    BY <1>1, <1>2, DivMod
  <2>2. (i - 1) \div Seeds < Len(Named) /\ (k - 1) \div Seeds < Len(Named)
    BY <1>1, <1>2, DivBound
  <2> QED BY <1>1, <2>1, <2>2
<1>4. Named[ds(i)] = Named[ds(k)] /\ (i - 1) % Seeds = (k - 1) % Seeds
  BY <1>1 DEF Shards, N, Index
<1>5. DOMAIN Named = 1..Len(Named)
  BY NamedLength
<1>6. ds(i) = ds(k)
  BY <1>3, <1>4, <1>5 DEF DistinctNames
<1>7. (i - 1) \div Seeds = (k - 1) \div Seeds
  <2>1. (i - 1) \div Seeds \in Nat /\ (k - 1) \div Seeds \in Nat
    BY <1>1, <1>2, DivMod
  <2> QED BY <1>6, <2>1
<1>8. i - 1 = k - 1
  BY <1>1, <1>2, <1>4, <1>7, DivMod
<1> QED BY <1>8 DEF Index

LEMMA ShardsPaths == \A i \in Index : Shards[i] \in Paths
<1>1. DOMAIN Shards = Index
  BY DEF Shards, Index, N
<1> QED BY <1>1 DEF Paths, Range

\* What a shard's file holds at each stage of its child.
Stored(i) ==
  /\ pc[i] \in {"none", "acquiring", "opening"} => wrote[i] = 0
  /\ pc[i] = "running" => files[Shards[i]] = 1..wrote[i]
  /\ Sent(i) \/ pc[i] = "sending" => err[i] \/ files[Shards[i]] = 1..Rows

Stores ==
  /\ wrote \in [Index -> 0..Rows] /\ files \in [Paths -> SUBSET (1..Rows)]
  /\ status \in {0, 1}

Kept == \A i \in Index : Stored(i)

LEMMA InitStores == Init => Stores /\ Kept
<1> SUFFICES ASSUME Init PROVE Stores /\ Kept
  OBVIOUS
<1>1. Rows \in Nat
  BY OrchestratorAssumption
<1>2. Stores
  BY <1>1 DEF Init, Stores
<1>3. \A i \in Index : pc[i] = "none" /\ wrote[i] = 0
  BY DEF Init
<1> QED BY <1>2, <1>3 DEF Kept, Stored, Sent

\* What a goroutine's step does to its own file and rows.
Writes(i) ==
  \/ /\ pc[i] \in {"acquiring", "releasing", "finishing", "sending"} /\ UNCHANGED <<wrote, files, err>>
     /\ \E l \in {"opening", "finishing", "ended", "releasing"} :
          Goto(i, l) /\ (pc[i] = "acquiring" <=> l = "opening")
  \/ /\ pc[i] = "opening" /\ Goto(i, "running") /\ files' = [files EXCEPT ![Shards[i]] = {}]
     /\ UNCHANGED <<wrote, err>>
  \/ /\ pc[i] = "running" /\ wrote[i] < Rows /\ wrote' = [wrote EXCEPT ![i] = @ + 1]
     /\ files' = [files EXCEPT ![Shards[i]] = @ \cup {wrote[i] + 1}] /\ UNCHANGED <<pc, err>>
  \/ pc[i] = "running" /\ wrote[i] = Rows /\ Goto(i, "sending") /\ UNCHANGED <<wrote, files, err>>
  \/ /\ pc[i] \in {"opening", "running"} /\ Goto(i, "sending") /\ err' = [err EXCEPT ![i] = TRUE]
     /\ UNCHANGED <<wrote, files>>

LEMMA GoroutineWrites ==
  ASSUME NEW i \in Index, Goroutine(i)
  PROVE  Writes(i) /\ UNCHANGED status
<1> USE DEF Writes, Then
<1>1. CASE Acquire(i)
  BY <1>1 DEF Acquire
<1>2. CASE Open(i)
  BY <1>2 DEF Open, Target
<1>3. CASE WriteRow(i)
  BY <1>3 DEF WriteRow, Target
<1>4. CASE ChildEnds(i)
  BY <1>4 DEF ChildEnds
<1>5. CASE ChildFails(i)
  BY <1>5 DEF ChildFails
<1>6. CASE Send(i)
  BY <1>6 DEF Send
<1>7. CASE Release(i)
  BY <1>7 DEF Release
<1>8. CASE Done(i)
  BY <1>8 DEF Done
<1> QED BY <1>1, <1>2, <1>3, <1>4, <1>5, <1>6, <1>7, <1>8 DEF Goroutine

\* Steps of main and of the closer touch neither files nor rows.
LEMMA MainWritesNothing ==
  ASSUME Main \/ Closer \/ UNCHANGED vars, Typ, Flow, Stores
  PROVE  /\ UNCHANGED <<wrote, err, files>> /\ status' \in {0, 1}
         /\ \/ UNCHANGED pc
            \/ next \in Index /\ pc[next] = "none" /\ pc' = [pc EXCEPT ![next] = "acquiring"]
<1>1. CASE Add \/ StartCloser
  BY <1>1 DEF Add, StartCloser, Stores
<1>2. CASE Start
  BY <1>2, NIsNat DEF Start, Typ, Flow, Stores, Index
<1>3. CASE Receive
  BY <1>3 DEF Receive, Stores
<1>4. CASE Exit
  BY <1>4 DEF Exit
<1>5. CASE Wait \/ Close
  BY <1>5 DEF Wait, Close, Stores
<1>6. CASE UNCHANGED vars
  BY <1>6 DEF vars, Stores
<1> QED BY <1>1, <1>2, <1>3, <1>4, <1>5, <1>6 DEF Main, Closer

LEMMA NextStores == Typ /\ Flow /\ Stores /\ [Next]_vars => Stores'
<1> SUFFICES ASSUME Typ, Flow, Stores, [Next]_vars PROVE Stores'
  OBVIOUS
<1>1. CASE Main \/ Closer \/ UNCHANGED vars
  BY <1>1, MainWritesNothing DEF Stores
<1>2. ASSUME NEW i \in Index, Goroutine(i) PROVE Stores'
  <2>1. Writes(i) /\ UNCHANGED status
    BY <1>2, GoroutineWrites
  <2>2. Rows \in Nat /\ Shards[i] \in Paths
    BY OrchestratorAssumption, ShardsPaths
  <2>3. CASE pc[i] = "running" /\ wrote[i] < Rows /\ wrote' = [wrote EXCEPT ![i] = @ + 1]
             /\ files' = [files EXCEPT ![Shards[i]] = @ \cup {wrote[i] + 1}]
    <3>1. wrote[i] \in 0..Rows /\ wrote[i] + 1 \in 1..Rows
      BY <2>2, <2>3 DEF Stores
    <3>2. wrote' \in [Index -> 0..Rows]
      BY <2>2, <2>3, <3>1 DEF Stores
    <3>3. files[Shards[i]] \cup {wrote[i] + 1} \in SUBSET (1..Rows)
      BY <2>2, <3>1 DEF Stores
    <3>4. files' \in [Paths -> SUBSET (1..Rows)]
      BY <2>2, <2>3, <3>3 DEF Stores
    <3> QED BY <2>1, <3>2, <3>4 DEF Stores
  <2>4. CASE UNCHANGED wrote /\ (UNCHANGED files \/ files' = [files EXCEPT ![Shards[i]] = {}])
    BY <2>1, <2>4 DEF Stores
  <2> QED BY <2>1, <2>3, <2>4 DEF Writes
<1> QED BY <1>1, <1>2 DEF Next, Gone

\* A child leaves the other shards' files alone.
LEMMA NextKept == DistinctNames /\ Typ /\ Flow /\ Stores /\ Kept /\ [Next]_vars => Kept'
<1> SUFFICES ASSUME DistinctNames, Typ, Flow, Stores, Kept, [Next]_vars PROVE Kept'
  OBVIOUS
<1>a. pc \in [Index -> Labels] /\ wrote \in [Index -> 0..Rows] /\ err \in [Index -> BOOLEAN]
      /\ files \in [Paths -> SUBSET (1..Rows)] /\ Rows \in Nat
  BY OrchestratorAssumption DEF Typ, Stores
<1>1. CASE Main \/ Closer \/ UNCHANGED vars
  <2>1. /\ UNCHANGED <<wrote, err, files>>
        /\ \/ UNCHANGED pc
           \/ next \in Index /\ pc[next] = "none" /\ pc' = [pc EXCEPT ![next] = "acquiring"]
    BY <1>1, MainWritesNothing
  <2> SUFFICES ASSUME NEW i \in Index PROVE Stored(i)'
    BY DEF Kept
  <2>2. Stored(i)
    BY DEF Kept
  <2>3. pc'[i] = pc[i] \/ (pc[i] = "none" /\ pc'[i] = "acquiring")
    BY <1>a, <2>1
  <2> QED BY <2>1, <2>2, <2>3 DEF Stored, Sent
<1>2. ASSUME NEW i \in Index, Goroutine(i) PROVE Kept'
  <2>1. Writes(i)
    BY <1>2, GoroutineWrites
  <2>2. Shards[i] \in Paths
    BY ShardsPaths
  <2>3. ASSUME NEW l, Goto(i, l) PROVE pc'[i] = l /\ \A j \in Index : j # i => pc'[j] = pc[j]
    BY <1>a, <2>3 DEF Goto
  <2>4. ASSUME NEW j \in Index, j # i PROVE Stored(j)'
    <3>1. Shards[j] # Shards[i] /\ Shards[j] \in Paths
      BY <2>4, ShardsDistinct, ShardsPaths
    <3>2. files'[Shards[j]] = files[Shards[j]]
      BY <1>a, <2>1, <2>2, <3>1 DEF Writes
    <3>3. pc'[j] = pc[j] /\ wrote'[j] = wrote[j] /\ err'[j] = err[j]
      BY <1>a, <2>1, <2>3, <2>4 DEF Writes
    <3>4. Stored(j)
      BY DEF Kept
    <3> QED BY <3>2, <3>3, <3>4 DEF Stored, Sent
  <2>5. Stored(i)'
    <3>1. Stored(i)
      BY DEF Kept
    <3>2. CASE pc[i] \in {"acquiring", "releasing", "finishing", "sending"} /\ UNCHANGED <<wrote, files, err>>
               /\ \E l \in {"opening", "finishing", "ended", "releasing"} :
                    Goto(i, l) /\ (pc[i] = "acquiring" <=> l = "opening")
      <4>1. pc'[i] \in {"opening", "finishing", "ended", "releasing"} /\ (pc[i] = "acquiring" <=> pc'[i] = "opening")
        BY <2>3, <3>2
      <4> QED BY <3>1, <3>2, <4>1 DEF Stored, Sent
    <3>3. CASE pc[i] = "opening" /\ Goto(i, "running") /\ files' = [files EXCEPT ![Shards[i]] = {}]
               /\ UNCHANGED <<wrote, err>>
      <4>1. pc'[i] = "running" /\ files'[Shards[i]] = {} /\ wrote'[i] = 0
        BY <1>a, <2>2, <2>3, <3>1, <3>3 DEF Stored
      <4>2. 1..0 = {}
        OBVIOUS
      <4> QED BY <4>1, <4>2 DEF Stored, Sent
    <3>4. CASE /\ pc[i] = "running" /\ wrote[i] < Rows /\ wrote' = [wrote EXCEPT ![i] = @ + 1]
               /\ files' = [files EXCEPT ![Shards[i]] = @ \cup {wrote[i] + 1}] /\ UNCHANGED <<pc, err>>
      <4>1. pc'[i] = "running" /\ wrote'[i] = wrote[i] + 1 /\ wrote[i] \in Nat
        BY <1>a, <3>4
      <4>2. files'[Shards[i]] = (1..wrote[i]) \cup {wrote[i] + 1}
        BY <1>a, <2>2, <3>1, <3>4 DEF Stored
      <4>3. (1..wrote[i]) \cup {wrote[i] + 1} = 1..(wrote[i] + 1)
        BY <4>1
      <4> QED BY <4>1, <4>2, <4>3 DEF Stored, Sent
    <3>5. CASE pc[i] = "running" /\ wrote[i] = Rows /\ Goto(i, "sending") /\ UNCHANGED <<wrote, files, err>>
      BY <2>3, <3>1, <3>5 DEF Stored, Sent
    <3>6. CASE /\ pc[i] \in {"opening", "running"} /\ Goto(i, "sending") /\ err' = [err EXCEPT ![i] = TRUE]
               /\ UNCHANGED <<wrote, files>>
      <4>1. pc'[i] = "sending" /\ err'[i]
        BY <1>a, <2>3, <3>6
      <4> QED BY <4>1 DEF Stored, Sent
    <3> QED BY <2>1, <3>2, <3>3, <3>4, <3>5, <3>6 DEF Writes
  <2> QED BY <2>4, <2>5 DEF Kept
<1> QED BY <1>1, <1>2 DEF Next, Gone

-----------------------------------------------------------------------------
(* The counters' bounds.                                                     *)

\* No more failures than results received.
Bounded == failed <= Len(printed)

LEMMA InitBounded == Init => Bounded
BY DEF Init, Bounded

LEMMA NextBounded == Typ /\ Bounded /\ [Next]_vars => Bounded'
<1> SUFFICES ASSUME Typ, Bounded, [Next]_vars PROVE Bounded'
  OBVIOUS
<1>1. CASE Receive
  <2>1. printed' = Append(printed, Head(results)) /\ failed' = failed + Count(Head(results))
        /\ Head(results) \in Result
    BY <1>1 DEF Receive, Typ
  <2>2. Len(printed') = Len(printed) + 1 /\ Len(printed) \in Nat
    BY <2>1 DEF Typ
  <2>3. Count(Head(results)) \in {0, 1} /\ failed \in Nat
    BY DEF Count, Typ
  <2> QED BY <2>1, <2>2, <2>3 DEF Bounded
<1>2. CASE UNCHANGED <<failed, printed>>
  BY <1>2 DEF Bounded
<1>3. Add \/ Start \/ StartCloser \/ Exit \/ Closer \/ UNCHANGED vars => UNCHANGED <<failed, printed>>
  BY DEF Add, Start, StartCloser, Exit, Closer, Wait, Close, vars
<1>4. \A i \in Index : Goroutine(i) => UNCHANGED <<failed, printed>>
  BY GoroutineStep
<1> QED BY <1>1, <1>2, <1>3, <1>4 DEF Next, Main, Gone

LEMMA CountUpTo ==
  ASSUME NEW n \in Nat
  PROVE  IsFiniteSet(1..n) /\ Cardinality(1..n) = n
<1>1. 1 \in Int /\ n \in Int
  OBVIOUS
<1>2. IsFiniteSet(1..n) /\ Cardinality(1..n) = IF 1 > n THEN 0 ELSE n - 1 + 1
  BY <1>1, FS_Interval
<1> QED BY <1>2

LEMMA PrintedBound ==
  ASSUME Typ, Reports
  PROVE  Len(printed) \in Nat /\ Len(printed) <= N
<1> DEFINE f == [j \in 1..Len(printed) |-> printed[j].shard]
<1>1. printed \in Seq(Result) /\ results \in Seq(Result) /\ Len(printed) \in Nat /\ Len(results) \in Nat
  BY DEF Typ
<1>2. Len(Told) = Len(printed) + Len(results) /\ \A j \in 1..Len(printed) : Told[j] = printed[j]
  BY <1>1, ConcatProperties DEF Told
<1>3. \A j \in 1..Len(printed) : printed[j] \in Result
  BY <1>1
<1>4. f \in [1..Len(printed) -> Index]
  BY <1>3 DEF Result
<1>5. \A j, k \in 1..Len(printed) : f[j] = f[k] => j = k
  <2> SUFFICES ASSUME NEW j \in 1..Len(printed), NEW k \in 1..Len(printed), f[j] = f[k] PROVE j = k
    OBVIOUS
  <2>1. j \in 1..Len(Told) /\ k \in 1..Len(Told)
    BY <1>1, <1>2
  <2>2. Told[j].shard = Told[k].shard
    BY <1>2
  <2> QED BY <2>1, <2>2 DEF Reports
<1> HIDE DEF f
<1>6. f \in Injection(1..Len(printed), Index)
  BY <1>4, <1>5 DEF Injection, IsInjective
<1>7. /\ IsFiniteSet(Index) /\ Cardinality(Index) = N
      /\ IsFiniteSet(1..Len(printed)) /\ Cardinality(1..Len(printed)) = Len(printed)
  <2>1. IsFiniteSet(Index) /\ Cardinality(Index) = N
    BY NIsNat, FS_Interval DEF Index
  <2>2. Len(printed) \in Nat
    BY <1>1
  <2>3. IsFiniteSet(1..Len(printed)) /\ Cardinality(1..Len(printed)) = Len(printed)
    BY <2>2, CountUpTo
  <2> QED BY <2>1, <2>3
<1>8. Cardinality(1..Len(printed)) <= Cardinality(Index)
  BY <1>6, <1>7, FS_Injection
<1> QED BY <1>1, <1>7, <1>8

\* Every counter stays in its range: the wait group never goes negative (in Go
\* a panic), the semaphore neither, and the failures are never more than the shards.
THEOREM TypeCorrect == Spec => []TypeOK
<1>1. Typ /\ Flow /\ Counts /\ Tested /\ Reports /\ Stores /\ Bounded => TypeOK
  <2> SUFFICES ASSUME Typ, Flow, Counts, Tested, Reports, Stores, Bounded PROVE TypeOK
    OBVIOUS
  <2>1. wg \in 0..N
    <3>1. Active \subseteq Index
      BY DEF Active
    <3> QED BY <3>1, IndexFinite, NIsNat DEF Counts
  <2>2. sem \in 0..Workers
    <3>1. Inside \subseteq Index
      BY DEF Inside
    <3> QED BY <3>1, IndexFinite, OrchestratorAssumption DEF Counts, Tested
  <2>3. failed \in 0..N
    BY PrintedBound, NIsNat DEF Bounded, Typ
  <2> QED BY <2>1, <2>2, <2>3 DEF Typ, Stores, TypeOK, Result
<1> QED BY InitTyp, NextTyp, InitCounts, NextCounts, InitReports, NextReports, InitStores, NextStores,
           InitBounded, NextBounded, <1>1, PTL DEF Spec

\* If no dataset is named twice, a shard that was reported ok has all its rows
\* in its file from then on, whatever the other children do.  (With a name
\* given twice two children write one file.)
THEOREM OkFilesWhole == DistinctNames => (Spec => []OkMeansWhole)
<1> SUFFICES ASSUME DistinctNames PROVE Spec => []OkMeansWhole
  OBVIOUS
<1>1. Typ /\ Reports /\ Kept /\ TypeOK => OkMeansWhole
  <2> SUFFICES ASSUME Typ, Reports, Kept, TypeOK, NEW j \in DOMAIN printed, ~ printed[j].err
               PROVE  files[Shards[printed[j].shard]] = 1..Rows
    BY DEF OkMeansWhole
  <2>1. printed \in Seq(Result) /\ results \in Seq(Result) /\ j \in 1..Len(printed)
    BY DEF Typ
  <2>2. Told[j] = printed[j] /\ j \in 1..Len(Told)
    BY <2>1, ConcatProperties DEF Told
  <2>3. printed[j] \in Result
    BY <2>1
  <2>4. printed[j].shard \in Index
    BY <2>3 DEF Result
  <2>5. Sent(printed[j].shard) /\ printed[j].err = err[printed[j].shard]
    BY <2>2 DEF Reports
  <2>6. PICK i \in Index : i = printed[j].shard
    BY <2>4
  <2>7. Stored(i)
    BY DEF Kept
  <2> QED BY <2>5, <2>6, <2>7 DEF Stored
<1>2. Typ /\ Flow /\ Stores /\ Kept /\ [Next]_vars => Kept'
  BY NextKept
<1> QED BY InitTyp, NextTyp, InitCounts, NextCounts, InitReports, NextReports, InitStores, NextStores,
           <1>2, <1>1, TypeCorrect, PTL DEF Spec
=============================================================================
