------------------------------- MODULE Sweeps -------------------------------
(***************************************************************************)
(* The two sequential sweeps of harness.py over run_benchmark.             *)
(*                                                                         *)
(* run_from_config makes one call per dataset, arm and model, and records  *)
(* an arm that raises RuntimeError or NotImplementedError as skipped.      *)
(* run_sweep makes one call per dataset for DEFAULT_ARMS, then one per     *)
(* ablation dataset for ABLATION_ARMS, leaving out what is already done.   *)
(***************************************************************************)
EXTENDS Benchmark

CONSTANTS
  Requests,          \* the calls a user may make: records of a driver ("config"
                     \* or "sweep"), datasets, arms and models
  DefaultModel,      \* what run_benchmark runs against by default
  AblationDatasets, AblationArms

ASSUME SweepsAssumption ==
  /\ \A r \in Requests : /\ r.driver \in {"config", "sweep"}
                          /\ r.datasets \in Seq(Datasets) /\ r.arms \in Seq(ArmNames)
                          /\ r.models \in Seq(Range(r.models))
  /\ AblationDatasets \in Seq(Datasets) /\ AblationArms \in Seq(ArmNames)

VARIABLES
  request,   \* what was asked for; a sweep's arms are DEFAULT_ARMS
  todo,      \* the run_benchmark calls still to make
  done,      \* run_sweep: the (dataset, arm) pairs it has run
  rows,      \* the rows so far
  skipped,   \* run_from_config: arm |-> the last reason
  outcome    \* "running", "returned", "raised"; "killed" by Commands

vars == <<benchVars, request, todo, done, rows, skipped, outcome>>

\* The calls in the order of the loops, datasets outermost, models innermost.
ConfigPlan(r) ==
  FlattenSeq([d \in DOMAIN r.datasets |->
    FlattenSeq([a \in DOMAIN r.arms |->
      [m \in DOMAIN r.models |->
        [dataset |-> r.datasets[d], arms |-> <<r.arms[a]>>, model |-> r.models[m]]]])])

SweepPlan(r) ==
  LET pass(datasets, arms) ==
        [d \in DOMAIN datasets |-> [dataset |-> datasets[d], arms |-> arms, model |-> DefaultModel]]
  IN  pass(r.datasets, r.arms) \o pass(AblationDatasets, AblationArms)

Plan(r) == IF r.driver = "config" THEN ConfigPlan(r) ELSE SweepPlan(r)

Init ==
  /\ BenchInit
  /\ request \in Requests
  /\ todo = Plan(request)
  /\ done = {} /\ rows = <<>>
  /\ skipped = <<>>
  /\ outcome = "running"

\* Slip: the second pass is not filtered.
PendingSlip(c) == c.arms

\* The arms of a call that run_sweep has not run on its dataset yet.
Pending(c) ==
  FlattenSeq([i \in DOMAIN c.arms |->
    IF <<c.dataset, c.arms[i]>> \in done THEN <<>> ELSE <<c.arms[i]>>])

Call ==
  /\ outcome = "running" /\ todo # <<>>
  /\ Pending(Head(todo)) # <<>>
  /\ Begin(Head(todo).dataset, Pending(Head(todo)), Head(todo).model)
  /\ UNCHANGED <<request, todo, done, rows, skipped, outcome>>

NothingPending ==
  /\ outcome = "running" /\ call = NoCall /\ todo # <<>>
  /\ Pending(Head(todo)) = <<>>
  /\ todo' = Tail(todo)
  /\ UNCHANGED <<benchVars, request, done, rows, skipped, outcome>>

Benchmarking ==
  /\ BenchStep
  /\ UNCHANGED <<request, todo, done, rows, skipped, outcome>>

Kept == <<>>

Extend ==
  /\ Completed
  /\ rows' = rows \o records
  /\ done' = IF request.driver = "sweep"
             THEN done \cup {<<call.dataset, call.arms[i]>> : i \in DOMAIN call.arms}
             ELSE done
  /\ todo' = Tail(todo)
  /\ Leave
  /\ UNCHANGED <<request, skipped, outcome>>

\* Slip: the rest of a skipped arm's calls is dropped.
RestSlip(s) == SelectSeq(Tail(s), LAMBDA c : c.arms # Head(s).arms)
Rest(s) == Tail(s)

\* except (RuntimeError, NotImplementedError)
Skip ==
  /\ "unavailable" \in Errors /\ request.driver = "config"
  /\ skipped' = [a \in DOMAIN skipped \cup {Arm} |->
                   IF a = Arm THEN <<call.dataset, call.model>> ELSE skipped[a]]
  /\ rows' = rows \o Kept
  /\ todo' = Rest(todo)
  /\ Leave
  /\ UNCHANGED <<request, done, outcome>>

Abort ==
  /\ \E e \in Errors : e = "other" \/ request.driver = "sweep"
  /\ outcome' = "raised"
  /\ Leave
  /\ UNCHANGED <<request, todo, done, rows, skipped>>

Return ==
  /\ outcome = "running" /\ call = NoCall /\ todo = <<>>
  /\ outcome' = "returned"
  /\ UNCHANGED <<benchVars, request, todo, done, rows, skipped>>

Sweep == Call \/ NothingPending \/ Benchmarking \/ Extend \/ Skip \/ Abort \/ Return

-----------------------------------------------------------------------------
\* The cells a request stands for.
Cells ==
  UNION {{<<c.dataset, c.arms[i], c.model>> : i \in DOMAIN c.arms} : c \in Range(Plan(request))}

\* The tasks of a cell's rows, in the order of the rows.
TasksOf(rs, cell) ==
  FlattenSeq([i \in DOMAIN rs |->
    IF <<rs[i].dataset, rs[i].arm, rs[i].model>> = cell THEN <<rs[i].task>> ELSE <<>>])

TypeOK ==
  /\ call # NoCall => /\ call.dataset \in Datasets /\ Range(call.arms) \subseteq ArmNames
                      /\ armAt \in 1..(Len(call.arms) + 1)
                      /\ taskAt \in DOMAIN Tasks[call.dataset]
  /\ stage \in {"build", "write", "retrieve", "attempt"}
  /\ outcome \in {"running", "returned", "raised", "killed"}
  /\ DOMAIN skipped \subseteq ArmNames
  /\ {<<r.dataset, r.arm, r.model>> : r \in Range(rows)} \subseteq Cells

\* No task's corpus leaks into another's (harness.py:165 "one task's corpus must
\* never leak into another"): each answer was given over what the arm held when
\* it was handed in and the task's own corpus, nothing else.
Isolated ==
  \A r \in Range(rows) :
    r.saw = {r.task} \cup (IF Kind[r.arm] = "instance" THEN Prewritten[r.arm] ELSE {})

\* A cell is in the results whole, with its tasks once and in order, or not at
\* all: a call that raises half way, or a pass that repeats an arm, leaves no
\* partial or double cell behind.
CellsWhole ==
  /\ TypeOK
  /\ \A c \in Cells : TasksOf(rows, c) \in {<<>>, Tasks[c[1]]}

\* "a partial environment still yields the arms it can run" (harness.py:239): in
\* a sweep that returns, every cell whose arm and model work has its rows, and
\* every other one has them or its arm is recorded as skipped; and the reason
\* recorded is that of a cell without rows.
Works(c) == c[2] \notin Missing \cup Flaky /\ c[3] \notin NoBackend

YieldsWhatRuns ==
  /\ outcome = "returned" =>
       \A c \in Cells : TasksOf(rows, c) # <<>> \/ (~ Works(c) /\ c[2] \in DOMAIN skipped)
  /\ \A a \in DOMAIN skipped : TasksOf(rows, <<skipped[a][1], a, skipped[a][2]>>) = <<>>
=============================================================================
