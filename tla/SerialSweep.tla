----------------------------- MODULE SerialSweep -----------------------------
(***************************************************************************)
(* What a sweep over a list of (dataset, arm) jobs promises, as the serial  *)
(* loop of harness.run_benchmark gives it: the jobs' rows in the order of   *)
(* the list, up to the first job that raises.  The processes may be killed  *)
(* at any time.  A job stands for its rows.                                 *)
(***************************************************************************)
EXTENDS Naturals, Sequences

CONSTANT
  Jobs      \* the jobs in order; one may be repeated

VARIABLES
  raising,  \* the jobs whose run raises
  rows,     \* the jobs whose rows are in
  outcome   \* "running", "returned", "raised", "killed"

Init == raising \subseteq {Jobs[i] : i \in DOMAIN Jobs} /\ rows = <<>> /\ outcome = "running"

Job == Jobs[Len(rows) + 1]

Run ==
  /\ outcome = "running" /\ Len(rows) < Len(Jobs) /\ Job \notin raising
  /\ rows' = Append(rows, Job)
  /\ UNCHANGED <<raising, outcome>>

Raise ==
  /\ outcome = "running" /\ Len(rows) < Len(Jobs) /\ Job \in raising
  /\ outcome' = "raised"
  /\ UNCHANGED <<raising, rows>>

Return ==
  /\ outcome = "running" /\ Len(rows) = Len(Jobs)
  /\ outcome' = "returned"
  /\ UNCHANGED <<raising, rows>>

Killed ==
  /\ outcome = "running"
  /\ outcome' = "killed"
  /\ UNCHANGED <<raising, rows>>

Next == Run \/ Raise \/ Return \/ Killed

Spec == Init /\ [][Next]_<<raising, rows, outcome>>
==============================================================================
