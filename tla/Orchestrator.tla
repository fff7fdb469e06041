---------------------------- MODULE Orchestrator ----------------------------
(***************************************************************************)
(* orchestrator/main.go: one `membench run` per (dataset, seed), at most   *)
(* Workers of them at a time.  The main goroutine starts one goroutine per *)
(* shard, a closer waits for the wait group and closes the results         *)
(* channel, and main ranges over that channel until it is closed and       *)
(* drained.  A shard's goroutine takes a slot of the semaphore, runs the   *)
(* child process, sends its result, and then its deferred calls give the   *)
(* slot back and mark the wait group.                                      *)
(*                                                                         *)
(* The child is seen through what it does to the shard's JSONL file        *)
(* (harness.save_rows): it truncates the file, writes Rows rows one after  *)
(* the other, and may fail at any point.                                   *)
(***************************************************************************)
EXTENDS Integers, Sequences, FiniteSets, SequencesExt

CONSTANTS Datasets,   \* the names of -datasets, in order, blanks included
          Blank,      \* a name that is empty once trimmed
          Seeds,      \* -seeds
          Workers,    \* -workers
          Rows        \* rows a child writes

ASSUME OrchestratorAssumption ==
  /\ Datasets \in Seq(Range(Datasets))
  /\ Seeds \in Nat
  /\ Workers \in Nat
  /\ Rows \in Nat \ {0}

\* The names that are left once the blank ones are skipped, in order.
Named ==
  LET kept == {i \in DOMAIN Datasets : Datasets[i] # Blank}
      nth(k) == CHOOSE i \in kept : Cardinality({j \in kept : j <= i}) = k
  IN  [k \in 1..Cardinality(kept) |-> Datasets[nth(k)]]

\* Datasets outermost, the seeds 0 .. Seeds - 1 under each.
Shards == [i \in 1..(Len(Named) * Seeds) |->
             [dataset |-> Named[((i - 1) \div Seeds) + 1], seed |-> (i - 1) % Seeds]]

N     == Len(Named) * Seeds
Index == 1..N

\* A shard's output file is named after its dataset and its seed.
Paths == Range(Shards)

VARIABLES main,      \* where main is: "adding", "starting", "receiving", "exited"
          next,      \* the shard main's loop is at
          wg,        \* the wait group's counter
          pc,        \* where each shard's goroutine is
          wrote,     \* rows its child has written
          err,       \* did cmd.Run return an error
          sem,       \* slots of the semaphore in use
          results,   \* the results channel's buffer
          closed,    \* has it been closed
          closer,    \* where the closing goroutine is
          printed,   \* the results main has received, in order
          failed,    \* how many of them were failures
          status,    \* the exit status
          files      \* the rows each output file holds, by position

vars == <<main, next, wg, pc, wrote, err, sem, results, closed, closer,
          printed, failed, status, files>>

Init ==
  /\ main = "adding" /\ next = 1
  /\ wg = 0
  /\ pc = [i \in Index |-> "none"]
  /\ wrote = [i \in Index |-> 0]
  /\ err = [i \in Index |-> FALSE]
  /\ sem = 0
  /\ results = <<>> /\ closed = FALSE
  /\ closer = "none"
  /\ printed = <<>> /\ failed = 0 /\ status = 0
  /\ files = [p \in Paths |-> {}]

-----------------------------------------------------------------------------
(* The main goroutine                                                      *)

Add ==
  /\ main = "adding" /\ next <= N
  /\ wg' = wg + 1
  /\ main' = "starting"
  /\ UNCHANGED <<next, pc, wrote, err, sem, results, closed, closer, printed, failed, status, files>>

Start ==
  /\ main = "starting"
  /\ pc' = [pc EXCEPT ![next] = "acquiring"]
  /\ next' = next + 1
  /\ main' = "adding"
  /\ UNCHANGED <<wg, wrote, err, sem, results, closed, closer, printed, failed, status, files>>

StartCloser ==
  /\ main = "adding" /\ next > N
  /\ closer' = "waiting"
  /\ main' = "receiving"
  /\ UNCHANGED <<next, wg, pc, wrote, err, sem, results, closed, printed, failed, status, files>>

Count(r) == IF r.err THEN 1 ELSE 0

Receive ==
  /\ main = "receiving" /\ results # <<>>
  /\ printed' = Append(printed, Head(results))
  /\ failed' = failed + Count(Head(results))
  /\ results' = Tail(results)
  /\ UNCHANGED <<main, next, wg, pc, wrote, err, sem, closed, closer, status, files>>

\* Slip: main stops as soon as the channel is closed.
DrainedSlip == closed
Drained == closed /\ results = <<>>

Exit ==
  /\ main = "receiving" /\ Drained
  /\ status' = IF failed > 0 THEN 1 ELSE 0
  /\ main' = "exited"
  /\ UNCHANGED <<next, wg, pc, wrote, err, sem, results, closed, closer, printed, failed, files>>

-----------------------------------------------------------------------------
(* The closer                                                              *)

AllDone == wg = 0

Wait ==
  /\ closer = "waiting" /\ AllDone
  /\ closer' = "closing"
  /\ UNCHANGED <<main, next, wg, pc, wrote, err, sem, results, closed, printed, failed, status, files>>

Close ==
  /\ closer = "closing"
  /\ closed' = TRUE
  /\ closer' = "ended"
  /\ UNCHANGED <<main, next, wg, pc, wrote, err, sem, results, printed, failed, status, files>>

-----------------------------------------------------------------------------
(* A shard's goroutine and its child                                       *)

\* What follows each step: the result is sent in the body, the slot and the
\* wait group are given back by the deferred calls, the last deferred first.
\* Slip: the wait group is marked before the result is sent.
ThenSlip == [acquiring |-> "opening", running |-> "finishing", finishing |-> "sending",
             sending |-> "releasing", releasing |-> "ended"]
Then == [acquiring |-> "opening", running |-> "sending", sending |-> "releasing",
         releasing |-> "finishing", finishing |-> "ended"]

Goto(i, l) == pc' = [pc EXCEPT ![i] = l]

\* Slip: the semaphore has one slot too many.
SlotSlip == sem <= Workers
Slot == sem < Workers

Acquire(i) ==
  /\ pc[i] = "acquiring" /\ Slot
  /\ sem' = sem + 1
  /\ Goto(i, Then["acquiring"])
  /\ UNCHANGED <<main, next, wg, wrote, err, results, closed, closer, printed, failed, status, files>>

\* Slip: every seed of a dataset writes the same file.
TargetSlip(i) == CHOOSE p \in Paths : p.dataset = Shards[i].dataset
Target(i) == Shards[i]

\* The child opens its output for writing, which empties it.
Open(i) ==
  /\ pc[i] = "opening"
  /\ files' = [files EXCEPT ![Target(i)] = {}]
  /\ Goto(i, "running")
  /\ UNCHANGED <<main, next, wg, wrote, err, sem, results, closed, closer, printed, failed, status>>

WriteRow(i) ==
  /\ pc[i] = "running" /\ wrote[i] < Rows
  /\ wrote' = [wrote EXCEPT ![i] = @ + 1]
  /\ files' = [files EXCEPT ![Target(i)] = @ \cup {wrote[i] + 1}]
  /\ UNCHANGED <<main, next, wg, pc, err, sem, results, closed, closer, printed, failed, status>>

ChildEnds(i) ==
  /\ pc[i] = "running" /\ wrote[i] = Rows
  /\ Goto(i, Then["running"])
  /\ UNCHANGED <<main, next, wg, wrote, err, sem, results, closed, closer, printed, failed, status, files>>

\* It cannot be started, raises, or is killed.
ChildFails(i) ==
  /\ pc[i] \in {"opening", "running"}
  /\ err' = [err EXCEPT ![i] = TRUE]
  /\ Goto(i, Then["running"])
  /\ UNCHANGED <<main, next, wg, wrote, sem, results, closed, closer, printed, failed, status, files>>

\* The buffer holds one result per shard, so the send never blocks.
Send(i) ==
  /\ pc[i] = "sending" /\ Len(results) < N
  /\ results' = Append(results, [shard |-> i, err |-> err[i]])
  /\ Goto(i, Then["sending"])
  /\ UNCHANGED <<main, next, wg, wrote, err, sem, closed, closer, printed, failed, status, files>>

\* Slip: the slot is not given back.
FreedSlip == sem
Freed == sem - 1

Release(i) ==
  /\ pc[i] = "releasing"
  /\ sem' = Freed
  /\ Goto(i, Then["releasing"])
  /\ UNCHANGED <<main, next, wg, wrote, err, results, closed, closer, printed, failed, status, files>>

Done(i) ==
  /\ pc[i] = "finishing"
  /\ wg' = wg - 1
  /\ Goto(i, Then["finishing"])
  /\ UNCHANGED <<main, next, wrote, err, sem, results, closed, closer, printed, failed, status, files>>

Goroutine(i) ==
  \/ Acquire(i) \/ Open(i) \/ WriteRow(i) \/ ChildEnds(i) \/ ChildFails(i)
  \/ Send(i) \/ Release(i) \/ Done(i)

Main   == Add \/ Start \/ StartCloser \/ Receive \/ Exit
Closer == Wait \/ Close

\* The process is gone.
Gone == main = "exited" /\ UNCHANGED vars

Next == Main \/ Closer \/ (main # "exited" /\ \E i \in Index : Goroutine(i)) \/ Gone

\* The Go scheduler starves no runnable goroutine, and a child that keeps
\* running ends by itself or is killed.
Fairness == WF_vars(Main) /\ WF_vars(Closer) /\ \A i \in Index : WF_vars(main # "exited" /\ Goroutine(i))

Spec == Init /\ [][Next]_vars /\ Fairness

-----------------------------------------------------------------------------
(* What the orchestrator promises                                          *)

Labels == {"none", "acquiring", "opening", "running", "sending", "releasing", "finishing", "ended"}

TypeOK ==
  /\ main \in {"adding", "starting", "receiving", "exited"}
  /\ next \in 1..(N + 1) /\ wg \in 0..N /\ sem \in 0..Workers /\ failed \in 0..N
  /\ pc \in [Index -> Labels] /\ wrote \in [Index -> 0..Rows] /\ err \in [Index -> BOOLEAN]
  /\ results \in Seq([shard : Index, err : BOOLEAN])
  /\ printed \in Seq([shard : Index, err : BOOLEAN])
  /\ closed \in BOOLEAN /\ closer \in {"none", "waiting", "closing", "ended"}
  /\ status \in {0, 1}
  /\ files \in [Paths -> SUBSET (1..Rows)]

\* Never more child processes alive than workers (main.go:39 "concurrent
\* workers"), whichever goroutines the scheduler lets through the semaphore.
BoundedConcurrency ==
  Cardinality({i \in Index : pc[i] \in {"opening", "running"}}) <= Workers

\* No goroutine can still send once the channel is closed (main.go:78, 82):
\* in Go that send is a panic.
NoSendOnClosed ==
  closed => \A i \in Index : pc[i] \in {"releasing", "finishing", "ended"}

\* When the program exits it has reported every shard once, and its status
\* says whether some child failed (main.go:85-97).
ExitTellsAll ==
  main = "exited" =>
    /\ Len(printed) = N
    /\ \A i \in Index : \E j \in 1..N : printed[j] = [shard |-> i, err |-> err[i]]
    /\ (status = 1) <=> (\E i \in Index : err[i])

\* A shard reported "ok" has its rows in its file, all of them, from then on,
\* whatever its neighbours do (main.go:4 "each (dataset, seed) shard is an
\* independent `membench run`").
OkMeansWhole ==
  /\ TypeOK
  /\ \A j \in DOMAIN printed :
       ~printed[j].err => files[Shards[printed[j].shard]] = 1..Rows

\* The sweep ends: every shard gets a slot, the channel is closed and main
\* returns (main.go:6 "waits for all of them").
Finishes == <>(main = "exited")
=============================================================================
