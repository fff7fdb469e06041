---------------------------- MODULE SweepParallel ----------------------------
(***************************************************************************)
(* run_sweep_parallel (analysis/sweep_parallel.py): one job per dataset and *)
(* arm, submitted in order to a ProcessPoolExecutor, the results taken from *)
(* executor.map in the same order.                                          *)
(*                                                                          *)
(* The executor is modelled from its documentation: map submits every job   *)
(* first and then yields the futures' results in submission order; jobs go   *)
(* to the workers through a queue one longer than there are workers; when a *)
(* result raises, the futures not yet in that queue are cancelled; leaving  *)
(* the with block waits for the rest; a worker process that dies breaks the *)
(* pool, and every unfinished future with it.                               *)
(***************************************************************************)
EXTENDS Naturals, Sequences, FiniteSets

CONSTANTS
  Jobs,      \* the jobs, dataset-major
  Raisings,  \* sets of jobs whose run raises; one is picked
  MaxWorkers \* worker processes

ASSUME SweepParallelAssumption ==
  /\ Jobs \in Seq({Jobs[i] : i \in DOMAIN Jobs})
  /\ \A R \in Raisings : R \subseteq {Jobs[i] : i \in DOMAIN Jobs}
  /\ MaxWorkers \in Nat \ {0}

Index   == 1..Len(Jobs)
Workers == 1..MaxWorkers

VARIABLES
  raising,    \* the jobs whose run raises
  submitted,  \* jobs submitted
  future,     \* job |-> "none", "pending", "running", "done", "failed",
              \* "cancelled", "broken"
  worker,     \* worker |-> the job it runs, or 0
  broken,     \* has a worker died
  ordered,    \* the jobs whose rows main has
  main,       \* "submitting", "collecting", "leaving", "over"
  verdict     \* how the call ends: "running" until known

poolVars == <<raising, submitted, future, worker, broken, ordered, main, verdict>>

PoolInit ==
  /\ raising \in Raisings
  /\ submitted = 0
  /\ future = [i \in Index |-> "none"]
  /\ worker = [w \in Workers |-> 0]
  /\ broken = FALSE
  /\ ordered = <<>>
  /\ main = "submitting" /\ verdict = "running"

Unfinished == {i \in Index : future[i] \in {"pending", "running"}}

-----------------------------------------------------------------------------
(* The calling process.  Without jobs the code returns before it makes a   *)
(* pool; here the same steps lead there.                                   *)

Submit ==
  /\ main = "submitting" /\ submitted < Len(Jobs) /\ ~ broken
  /\ submitted' = submitted + 1
  /\ future' = [future EXCEPT ![submitted'] = "pending"]
  /\ UNCHANGED <<raising, worker, broken, ordered, main, verdict>>

\* A broken pool takes no more jobs.
SubmitRefused ==
  /\ main = "submitting" /\ submitted < Len(Jobs) /\ broken
  /\ main' = "leaving" /\ verdict' = "killed"
  /\ UNCHANGED <<raising, submitted, future, worker, broken, ordered>>

Submitted ==
  /\ main = "submitting" /\ submitted = Len(Jobs)
  /\ main' = "collecting"
  /\ UNCHANGED <<raising, submitted, future, worker, broken, ordered, verdict>>

\* Slip: results are taken as they complete.
TurnSlip(i) == \A k \in DOMAIN ordered : ordered[k] # Jobs[i]

\* Slip: results already taken are taken again.
TurnSlip2(i) == i <= Len(ordered) + 1

\* Results are taken in submission order.
Turn(i) == i = Len(ordered) + 1

Collect ==
  /\ main = "collecting"
  /\ \E i \in Index : /\ Turn(i) /\ future[i] = "done"
                      /\ ordered' = Append(ordered, Jobs[i])
  /\ UNCHANGED <<raising, submitted, future, worker, broken, main, verdict>>

\* The first pending jobs may be in the workers' queue: up to what it holds.
Queued(last) == Cardinality({i \in 1..last : future[i] = "pending"}) <= MaxWorkers + 1

\* Once those up to the last-th are in the queue only the others are cancelled.
Cancelled(last) ==
  [i \in Index |-> IF future[i] = "pending" /\ i > last THEN "cancelled" ELSE future[i]]

CollectRaises ==
  /\ main = "collecting"
  /\ \E i \in Index :
       /\ Turn(i) /\ future[i] \in {"failed", "broken"}
       /\ verdict' = IF future[i] = "failed" THEN "raised" ELSE "killed"
  /\ \E last \in 0..Len(Jobs) : Queued(last) /\ future' = Cancelled(last)
  /\ main' = "leaving"
  /\ UNCHANGED <<raising, submitted, worker, broken, ordered>>

Collected ==
  /\ main = "collecting" /\ Len(ordered) = Len(Jobs)
  /\ verdict' = "returned" /\ main' = "leaving"
  /\ UNCHANGED <<raising, submitted, future, worker, broken, ordered>>

\* Slip: jobs that were cancelled are waited for.
QuietSlip2 == \A i \in Index : future[i] \in {"done", "failed", "broken"}

\* Slip: the with block is left without waiting.
QuietSlip == TRUE
Quiet == Unfinished = {}

LeavePool ==
  /\ main = "leaving" /\ Quiet
  /\ main' = "over"
  /\ UNCHANGED <<raising, submitted, future, worker, broken, ordered, verdict>>

-----------------------------------------------------------------------------
(* The worker processes                                                    *)

Take(w) ==
  /\ ~ broken /\ worker[w] = 0
  /\ \E i \in Index :
       /\ future[i] = "pending" /\ \A j \in 1..(i - 1) : future[j] # "pending"
       /\ worker' = [worker EXCEPT ![w] = i]
       /\ future' = [future EXCEPT ![i] = "running"]
  /\ UNCHANGED <<raising, submitted, broken, ordered, main, verdict>>

Finish(w) ==
  /\ ~ broken /\ worker[w] # 0
  /\ future' = [future EXCEPT ![worker[w]] = IF Jobs[worker[w]] \in raising THEN "failed" ELSE "done"]
  /\ worker' = [worker EXCEPT ![w] = 0]
  /\ UNCHANGED <<raising, submitted, broken, ordered, main, verdict>>

Die ==
  /\ ~ broken /\ \E w \in Workers : worker[w] # 0
  /\ broken' = TRUE
  /\ future' = [i \in Index |-> IF i \in Unfinished THEN "broken" ELSE future[i]]
  /\ worker' = [w \in Workers |-> 0]
  /\ UNCHANGED <<raising, submitted, ordered, main, verdict>>

Caller == Submit \/ SubmitRefused \/ Submitted \/ Collect \/ CollectRaises \/ Collected \/ LeavePool
Work(w) == Take(w) \/ Finish(w)

Over == main = "over" /\ UNCHANGED poolVars

PoolNext == Caller \/ (\E w \in Workers : Work(w)) \/ Die \/ Over

\* The caller and the workers are processes of their own, and a job ends.
PoolSpec == PoolInit /\ [][PoolNext]_poolVars /\ WF_poolVars(Caller) /\ \A w \in Workers : WF_poolVars(Work(w))

-----------------------------------------------------------------------------
PoolTypeOK ==
  /\ submitted \in 0..Len(Jobs)
  /\ future \in [Index -> {"none", "pending", "running", "done", "failed", "cancelled", "broken"}]
  /\ worker \in [Workers -> 0..Len(Jobs)]
  /\ broken \in BOOLEAN
  /\ ordered \in Seq({Jobs[i] : i \in Index}) /\ Len(ordered) <= Len(Jobs)
  /\ main \in {"submitting", "collecting", "leaving", "over"}
  /\ verdict \in {"running", "returned", "raised", "killed"}

\* No job runs on two workers, and none is left running or waiting when the
\* call is over (sweep_parallel.py:206, the with block).
OneWorkerPerJob ==
  /\ \A v, w \in Workers : worker[v] = worker[w] /\ worker[v] # 0 => v = w
  /\ \A i \in Index : future[i] = "running" <=> \E w \in Workers : worker[w] = i
  /\ main = "over" => Unfinished = {}

\* "same rows in the same order" as the serial loop, for any number of workers
\* (sweep_parallel.py:133), and the exception of the same job, whichever job
\* fails first.
Serial == INSTANCE SerialSweep WITH
  rows <- ordered, outcome <- IF main = "over" THEN verdict ELSE "running"

ImplementsSerial == Serial!Spec

\* The call ends, also when a job raises or a worker dies.
Ends == <>(main = "over")
==============================================================================
