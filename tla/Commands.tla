------------------------------ MODULE Commands -------------------------------
(***************************************************************************)
(* The commands of cli.py that sweep and save, one after another over the  *)
(* same directory: "sweep-config" writes rows.jsonl and then manifest.json,*)
(* "sweep" only rows.jsonl.  Nothing is saved before a sweep returns, a    *)
(* file is emptied when it is opened, and the process may be killed at any *)
(* time, in the middle of a line too.  A line of rows.jsonl stands here    *)
(* for the command that wrote it.                                          *)
(***************************************************************************)
EXTENDS Sweeps

CONSTANT MaxCommands   \* bound on the commands given

VARIABLES
  command,    \* the number of the command that runs
  saving,     \* "no", "rows", "manifest" (the file that is open), "over"
  lines,      \* rows.jsonl: the command of each line
  torn,       \* whether rows.jsonl ends within a line
  manifest    \* manifest.json: the command it is of, 0 while there is none

cliVars == <<vars, command, saving, lines, torn, manifest>>

CommandInit ==
  /\ Init
  /\ command = 1 /\ saving = "no"
  /\ lines = <<>> /\ torn = FALSE /\ manifest = 0

Sweeping ==
  /\ saving = "no"
  /\ Sweep
  /\ UNCHANGED <<command, saving, lines, torn, manifest>>

\* Slip: rows.jsonl is opened to append.
OpenedSlip == lines
Opened == <<>>

OpenRows ==
  /\ saving = "no" /\ outcome = "returned"
  /\ saving' = "rows" /\ lines' = Opened /\ torn' = FALSE
  /\ UNCHANGED <<vars, command, manifest>>

RowsWritten == Len(lines) = Len(rows)

WriteRow ==
  /\ saving = "rows" /\ Len(lines) < Len(rows)
  /\ lines' = Append(lines, command)
  /\ UNCHANGED <<vars, command, saving, torn, manifest>>

CloseRows ==
  /\ saving = "rows" /\ RowsWritten /\ request.driver = "sweep"
  /\ saving' = "over"
  /\ UNCHANGED <<vars, command, lines, torn, manifest>>

OpenManifest ==
  /\ saving = "rows" /\ RowsWritten /\ request.driver = "config"
  /\ saving' = "manifest" /\ manifest' = 0
  /\ UNCHANGED <<vars, command, lines, torn>>

WriteManifest ==
  /\ saving = "manifest"
  /\ saving' = "over" /\ manifest' = command
  /\ UNCHANGED <<vars, command, lines, torn>>

\* What was being written of a line may be there.
Killed ==
  /\ saving \in {"rows", "manifest"} \/ outcome = "running"
  /\ outcome' = "killed" /\ saving' = "over"
  /\ torn' \in IF saving = "rows" /\ ~RowsWritten THEN BOOLEAN ELSE {torn}
  /\ UNCHANGED <<benchVars, request, todo, done, rows, skipped, command, lines, manifest>>

NextCommand ==
  /\ saving = "over" \/ outcome = "raised"
  /\ command < MaxCommands
  /\ command' = command + 1 /\ saving' = "no"
  /\ request' \in Requests /\ todo' = Plan(request')
  /\ done' = {} /\ rows' = <<>> /\ skipped' = <<>> /\ outcome' = "running"
  /\ call' = NoCall /\ armAt' = 1 /\ taskAt' = 1 /\ stage' = "build" /\ memory' = Built
  /\ holds' = [o \in DOMAIN holds |-> IF o = Built THEN {} ELSE Prewritten[o]]
  /\ context' = {} /\ records' = <<>>
  /\ UNCHANGED <<lines, torn, manifest>>

NoMore ==
  /\ saving = "over" \/ outcome = "raised"
  /\ command = MaxCommands
  /\ UNCHANGED cliVars

CommandNext ==
  \/ Sweeping \/ OpenRows \/ WriteRow \/ CloseRows \/ OpenManifest \/ WriteManifest
  \/ Killed \/ NextCommand \/ NoMore

CommandSpec == CommandInit /\ [][CommandNext]_cliVars

-----------------------------------------------------------------------------
\* rows.jsonl never mixes two commands' rows, and the manifest beside it is
\* never ahead of it (cli.py writes the rows first): one of the command that
\* runs certifies that its rows are all there, and one of an earlier command
\* lies beside rows no older than itself, whenever a process was killed.
FilesAgree ==
  /\ Cardinality(Range(lines)) <= 1
  /\ \A i \in DOMAIN lines : lines[i] >= manifest
  /\ manifest = command => lines = [i \in DOMAIN rows |-> command] /\ ~torn
=============================================================================
