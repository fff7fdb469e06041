---------------------------- MODULE AgentSession ----------------------------
(***************************************************************************)
(* One call of agents/runner.py's run_task or of agents/session.py's       *)
(* run_session.  run_task writes the corpus, retrieves once and asks the   *)
(* model once, or again until the answer is judged correct.  run_session   *)
(* makes its first turn through run_task and then talks on until the task  *)
(* resolves or the turns run out.                                          *)
(*                                                                         *)
(* A response is its token counts, its price and what the caller's         *)
(* predicate will say of its text; the arm, the client and the predicate   *)
(* may raise.                                                              *)
(***************************************************************************)
EXTENDS Fractions

CONSTANTS Calls,       \* the calls that are made
          Responses,   \* what a model may answer
          Prices,      \* each model's dollars per million tokens [input, output], or None
          Rates        \* each model's blended rate for a whole session, or None

\* run_session makes its first turn with the policy "single_shot", whatever the
\* configuration's is, and token counts and prices are not negative.
ASSUME AgentSessionAssumption ==
  /\ \A c \in Calls :
       /\ c.fn \in {"run_task", "run_session"} /\ c.maxAttempts \in Int /\ c.maxTurns \in Int
       /\ c.fn = "run_session" => c.policy = "single_shot"
       /\ Prices[c.model] # None => Prices[c.model].input \in Nat /\ Prices[c.model].output \in Nat
       /\ Rates[c.model] # None => Rates[c.model] \in Nat
  /\ \A r \in Responses : r.input \in Nat /\ r.output \in Nat /\ r.good \in BOOLEAN

VARIABLES call,     \* the call in progress
          pc,       \* how far it is
          writes,   \* how often the arm was given the corpus
          billed,   \* every response the model was paid for, in order
          records,  \* run_task's attempt records
          turns     \* run_session's ledger

callVars == <<call, pc, writes, billed, records, turns>>

Start(c) ==
  /\ call = c /\ pc = "called"
  /\ writes = 0 /\ billed = <<>> /\ records = <<>> /\ turns = <<>>

-----------------------------------------------------------------------------
(* run_task                                                                *)

PriceDollars(model, input, output) ==
  IF Prices[model] = None THEN Raised
  ELSE Frac(input * Prices[model].input + output * Prices[model].output, 1000000)

\* A response of the model that is called, with the price it is billed at.
Billing(r) ==
  [input |-> r.input, output |-> r.output, good |-> r.good,
   dollars |-> PriceDollars(call.model, r.input, r.output)]

\* An unknown policy never gets here (RunConfig refuses it), and without a
\* predicate the first attempt is the last one.
Retrying == call.policy = "retry_until_correct" /\ call.judged
MaxAttempts == IF Retrying THEN call.maxAttempts ELSE 1

\* run_session refuses a cap below one before it touches the arm.
Refuse ==
  /\ pc = "called" /\ call.fn = "run_session" /\ call.maxTurns < 1
  /\ pc' = "raised"
  /\ UNCHANGED <<call, writes, billed, records, turns>>

Write ==
  /\ pc = "called" /\ (call.fn = "run_session" => call.maxTurns >= 1)
  /\ writes' = writes + 1
  /\ pc' \in {"retrieving", "raised"}
  /\ UNCHANGED <<call, billed, records, turns>>

Retrieve ==
  /\ pc = "retrieving"
  /\ pc' \in {"attempting", "raised"}
  /\ UNCHANGED <<call, writes, billed, records, turns>>

LastAttempt(r) == ~Retrying \/ r.good

Attempt ==
  /\ pc = "attempting" /\ Len(records) < MaxAttempts /\ Prices[call.model] # None
  /\ \E r \in Responses :
       /\ billed' = Append(billed, Billing(r))
       /\ records' = Append(records, [attempt |-> Len(records) + 1, response |-> Billing(r)])
       /\ pc' = IF LastAttempt(r) THEN "attempted" ELSE "attempting"
  /\ UNCHANGED <<call, writes, turns>>

\* Slip: the last attempt of the range is missed.
SpentSlip == Len(records) > MaxAttempts
Spent == Len(records) >= MaxAttempts

Exhausted ==
  /\ pc = "attempting" /\ Spent
  /\ pc' = "attempted"
  /\ UNCHANGED <<call, writes, billed, records, turns>>

\* The client or the predicate raises: what was paid for is lost.
Break ==
  /\ \/ pc \in {"attempting", "turning"}
     \/ pc = "attempted" /\ (call.fn = "run_task" => Retrying)
  /\ pc' = "raised"
  /\ UNCHANGED <<call, writes, billed, records, turns>>

ReturnRecords ==
  /\ pc = "attempted" /\ call.fn = "run_task"
  /\ pc' = "returned"
  /\ UNCHANGED <<call, writes, billed, records, turns>>

-----------------------------------------------------------------------------
(* run_session                                                             *)

FromResponse(i, r) ==
  [turn |-> i, prompt |-> r.input, completion |-> r.output, resolved |-> r.good,
   dollars |-> r.dollars]

\* A turn of which only the total was published.
FromTotal(i, total, resolved) ==
  [turn |-> i, prompt |-> total, completion |-> 0, resolved |-> resolved, dollars |-> Zero]

TurnOK(t) == t.turn >= 1 /\ t.prompt >= 0 /\ t.completion >= 0 /\ Leq(Zero, t.dollars)
TotalTokens(t) == t.prompt + t.completion

FirstTurn ==
  /\ pc = "attempted" /\ call.fn = "run_session"
  /\ turns' = <<FromResponse(1, Head(records).response)>>
  /\ pc' = "turning"
  /\ UNCHANGED <<call, writes, billed, records>>

\* Slip: the loop asks once more than it may.
MoreSlip == ~Last(turns).resolved /\ Len(turns) <= call.maxTurns
More == ~Last(turns).resolved /\ Len(turns) < call.maxTurns

FollowUp ==
  /\ pc = "turning" /\ More
  /\ \E r \in Responses :
       /\ billed' = Append(billed, Billing(r))
       /\ turns' = Append(turns, FromResponse(Len(turns) + 1, Billing(r)))
  /\ UNCHANGED <<call, pc, writes, records>>

\* What Session's constructor accepts: turns counted from one without a gap,
\* and nothing after a resolved one.
SessionAccepts(ts) ==
  \A i \in DOMAIN ts : TurnOK(ts[i]) /\ ts[i].turn = i /\ (i < Len(ts) => ~ts[i].resolved)

Conclude ==
  /\ pc = "turning" /\ ~More
  /\ pc' = IF SessionAccepts(turns) THEN "returned" ELSE "raised"
  /\ UNCHANGED <<call, writes, billed, records, turns>>

Advance ==
  \/ Refuse \/ Write \/ Retrieve
  \/ Attempt \/ Exhausted \/ ReturnRecords
  \/ FirstTurn \/ FollowUp \/ Conclude

-----------------------------------------------------------------------------
(* What a Session tells of its turns                                       *)

SessionTokens(ts) == Sum([i \in DOMAIN ts |-> TotalTokens(ts[i])])
PromptTokens(ts) == Sum([i \in DOMAIN ts |-> ts[i].prompt])
CompletionTokens(ts) == Sum([i \in DOMAIN ts |-> ts[i].completion])
ReportedDollars(ts) == Total([i \in DOMAIN ts |-> ts[i].dollars])
Resolved(ts) == \E i \in DOMAIN ts : ts[i].resolved

ConvergenceTurn(ts) ==
  LET first == SelectInSeq(ts, LAMBDA t : t.resolved)
  IN  IF first = 0 THEN None ELSE ts[first].turn

CumulativeTokens(ts) ==
  FoldLeft(LAMBDA totals, t :
             Append(totals, TotalTokens(t) + IF totals = <<>> THEN 0 ELSE Last(totals)), <<>>, ts)

SessionBlendedCost(model, tokens) ==
  IF tokens < 0 \/ Rates[model] = None THEN Raised ELSE Frac(tokens * Rates[model], 1000000)

CumulativeDollars(ts, model) ==
  [i \in DOMAIN ts |-> SessionBlendedCost(model, CumulativeTokens(ts)[i])]

\* The columns of a session's row.
AsRow(ts) ==
  [turns |-> Len(ts), tokens |-> SessionTokens(ts), resolved |-> Resolved(ts),
   perTurn |-> [i \in DOMAIN ts |-> TotalTokens(ts[i])], convergence |-> ConvergenceTurn(ts)]

\* Both of session.py, over a resolution in per cent.
TokensPerPoint(tokens, pct) ==
  IF Less(Zero, pct) /\ Leq(pct, Whole(100)) THEN Over(tokens, pct) ELSE Raised

PointsPerToken(pct, tokens) ==
  IF Less(Zero, tokens) /\ Leq(Zero, pct)
    THEN Over(Times(Whole(100000), pct), tokens) ELSE Raised
=============================================================================
