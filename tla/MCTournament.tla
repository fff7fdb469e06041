---------------------------- MODULE MCTournament ----------------------------
(* Two layers and the store on one task, the store on a second; a retrying  *)
(* task run with and without a predicate, caps below one.                   *)
EXTENDS Tournament

Session(layer, task, maxTurns) ==
  [fn |-> "run_session", policy |-> "single_shot", judged |-> FALSE, maxAttempts |-> 1,
   maxTurns |-> maxTurns, model |-> 1, task |-> task, layer |-> layer]
Task(judged, maxAttempts) ==
  [fn |-> "run_task", policy |-> "retry_until_correct", judged |-> judged,
   maxAttempts |-> maxAttempts, maxTurns |-> 0, model |-> 2, task |-> 1, layer |-> 1]

MCCalls ==
  {Session(1, 1, 2), Session(2, 1, 2), Session(3, 1, 1), Session(2, 2, 1), Session(3, 2, 0),
   Task(TRUE, 2), Task(TRUE, -1), Task(FALSE, 2)}

MCResponses == {[input |-> 0, output |-> 0, good |-> FALSE], [input |-> 1, output |-> 1, good |-> TRUE]}
MCRates == <<12, None>>
MCPrices == <<[input |-> 1, output |-> 5], [input |-> 5, output |-> 15]>>
=============================================================================
