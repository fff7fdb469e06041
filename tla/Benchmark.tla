------------------------------ MODULE Benchmark ------------------------------
(***************************************************************************)
(* run_benchmark (harness.py) and the run_task calls it makes               *)
(* (agents/runner.py): for every arm and every task, build an arm, write    *)
(* the task's corpus, retrieve once, call the model, keep the record.       *)
(*                                                                          *)
(* An arm is a registry name, a ready instance that is deep-copied for each *)
(* task, or a factory.  What an object holds is the set of tasks whose      *)
(* corpora were written into it.  Building an arm or a model client, and    *)
(* running an arm, may raise; the callers tell RuntimeError and             *)
(* NotImplementedError ("unavailable") from everything else ("other").      *)
(***************************************************************************)
EXTENDS Integers, Sequences, FiniteSets, SequencesExt

CONSTANTS
  Tasks,       \* dataset |-> the sequence of its tasks
  Kind,        \* arm |-> "name", "instance" or "factory"
  Prewritten,  \* arm |-> the tasks a ready instance already holds
  Missing,     \* arms whose construction raises RuntimeError
  NoBackend,   \* models without a client
  Flaky        \* arms that may raise while they run

Datasets == DOMAIN Tasks
ArmNames == DOMAIN Kind

NoCall == [dataset |-> "none", arms |-> <<>>, model |-> "none"]

\* The object built for the task at hand, as opposed to a caller's own instance.
Built == "built"

ASSUME BenchmarkAssumption ==
  /\ Built \notin ArmNames
  /\ \A d \in Datasets : Tasks[d] \in Seq(Range(Tasks[d])) /\ Tasks[d] # <<>>
  /\ \A a \in ArmNames : Kind[a] \in {"name", "instance", "factory"}
  /\ DOMAIN Prewritten = ArmNames
  /\ Missing \subseteq ArmNames /\ Flaky \subseteq ArmNames

VARIABLES
  call,      \* the arguments of the call that runs, or NoCall
  armAt,     \* position of the arm
  taskAt,    \* position of the task
  stage,     \* "build", "write", "retrieve", "attempt"
  memory,    \* the object the task runs on
  holds,     \* object |-> the tasks written into it
  context,   \* what the retrieve saw
  records    \* the records of this call

benchVars == <<call, armAt, taskAt, stage, memory, holds, context, records>>

BenchInit ==
  /\ call = NoCall
  /\ armAt = 1 /\ taskAt = 1 /\ stage = "build"
  /\ memory = Built
  /\ holds = [o \in ArmNames \cup {Built} |-> IF o = Built THEN {} ELSE Prewritten[o]]
  /\ context = {} /\ records = <<>>

Arm  == call.arms[armAt]
Task == Tasks[call.dataset][taskAt]
MoreArms == call # NoCall /\ armAt <= Len(call.arms)

Begin(dataset, arms, model) ==
  /\ call = NoCall
  /\ call' = [dataset |-> dataset, arms |-> arms, model |-> model]
  /\ armAt' = 1 /\ taskAt' = 1 /\ stage' = "build"
  /\ records' = <<>>
  /\ UNCHANGED <<memory, holds, context>>

\* The client is made first, then the arm.
CanBuild == call.model \notin NoBackend /\ Arm \notin Missing

\* Slip: the ready instance itself, not a copy.
BuildSlip ==
  /\ MoreArms /\ stage = "build" /\ CanBuild
  /\ memory' = IF Kind[Arm] = "instance" THEN Arm ELSE Built
  /\ holds' = IF Kind[Arm] = "instance" THEN holds ELSE [holds EXCEPT ![Built] = {}]
  /\ stage' = "write"
  /\ UNCHANGED <<call, armAt, taskAt, context, records>>

Build ==
  /\ MoreArms /\ stage = "build" /\ CanBuild
  /\ memory' = Built
  /\ holds' = [holds EXCEPT ![Built] = IF Kind[Arm] = "instance" THEN holds[Arm] ELSE {}]
  /\ stage' = "write"
  /\ UNCHANGED <<call, armAt, taskAt, context, records>>

Write ==
  /\ MoreArms /\ stage = "write"
  /\ holds' = [holds EXCEPT ![memory] = @ \cup {Task}]
  /\ stage' = "retrieve"
  /\ UNCHANGED <<call, armAt, taskAt, memory, context, records>>

Retrieve ==
  /\ MoreArms /\ stage = "retrieve"
  /\ context' = holds[memory]
  /\ stage' = "attempt"
  /\ UNCHANGED <<call, armAt, taskAt, memory, holds, records>>

\* The next task, or the first task of the next arm.
Advance ==
  IF taskAt < Len(Tasks[call.dataset])
  THEN taskAt' = taskAt + 1 /\ UNCHANGED armAt
  ELSE taskAt' = 1 /\ armAt' = armAt + 1

\* One attempt: the harness passes no correctness predicate, so the runner
\* never retries.
Attempt ==
  /\ MoreArms /\ stage = "attempt"
  /\ records' = Append(records, [dataset |-> call.dataset, arm |-> Arm, model |-> call.model,
                                 task |-> Task, saw |-> context])
  /\ Advance
  /\ stage' = "build"
  /\ UNCHANGED <<call, memory, holds, context>>

BenchStep == Build \/ Write \/ Retrieve \/ Attempt

\* The exceptions the step at hand may raise instead.
Errors ==
  IF ~ MoreArms THEN {}
  ELSE IF stage = "build" THEN IF CanBuild THEN {} ELSE {"unavailable"}
  ELSE IF Arm \in Flaky THEN {"unavailable", "other"} ELSE {}

\* The call is over, by return or by exception; its caller goes on.
Leave ==
  /\ call' = NoCall
  /\ UNCHANGED <<armAt, taskAt, stage, memory, holds, context, records>>

Completed == call # NoCall /\ ~ MoreArms
==============================================================================
