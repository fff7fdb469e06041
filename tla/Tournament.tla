----------------------------- MODULE Tournament -----------------------------
(***************************************************************************)
(* analysis/token_economics.py: which context layer spends fewer tokens    *)
(* per session, over a collection of session records                       *)
(* [model, task, layer, tokens, resolved], a name being a number, its      *)
(* place in alphabetical order; and the sweep behind it: the calls of      *)
(* AgentSession one after the other, in any order, and the tournament over *)
(* the sessions that returned.  run_task calls run beside them and are not *)
(* recorded.                                                               *)
(***************************************************************************)
EXTENDS AgentSession

CONSTANT BriefLayer   \* DEFAULT_BRIEF_LAYER

EfficiencyScale == 10000000

\* What the tournament's calls may return: the matchups, the tallies, the table.
Layers   == {c.layer : c \in Calls}
Matchups == [model : Int, task : Int, competitor : Layers, brief : Nat, other : Nat]
Tallies  == [wins : Nat, losses : Nat, ties : Nat]
Rows     == [sessions : Nat, rate : Fraction, tokens : Fraction,
             perPoint : Fraction \cup {None}, efficiency : Fraction]

\* Names are ordered, and an exception is none of the values that are returned.
ASSUME TournamentAssumption ==
  /\ \A c \in Calls : c.model \in Int /\ c.task \in Int /\ c.layer \in Int
  /\ Raised \notin Seq(Matchups)
  /\ \A L \in SUBSET Layers :
       Raised \notin [L -> Rows] \cup [overall : Tallies, byCompetitor : [L -> Tallies]]

Cell(s) == <<s.model, s.task>>

Duplicated(sessions) ==
  \E i, j \in DOMAIN sessions :
    i < j /\ Cell(sessions[i]) = Cell(sessions[j]) /\ sessions[i].layer = sessions[j].layer

Competes(s) == s.layer # BriefLayer

NoBaseline(sessions) ==
  \E s \in Range(sessions) :
    Competes(s) /\ ~ \E b \in Range(sessions) : Cell(b) = Cell(s) /\ ~Competes(b)

Before(m, n) ==
  \/ m.model < n.model
  \/ m.model = n.model /\ m.task < n.task
  \/ m.model = n.model /\ m.task = n.task /\ m.competitor < n.competitor

\* Slip: a competitor is paired with the store's session on any task.
PairsSlip(sessions) ==
  {p \in Range(sessions) \X Range(sessions) :
     p[1].model = p[2].model /\ ~Competes(p[1]) /\ Competes(p[2])}
Pairs(sessions) ==
  {p \in Range(sessions) \X Range(sessions) :
     Cell(p[1]) = Cell(p[2]) /\ ~Competes(p[1]) /\ Competes(p[2])}

\* The matchups of S in order.
InOrder(S) ==
  CHOOSE s \in [1..Cardinality(S) -> S] : \A i, j \in DOMAIN s : i < j => Before(s[i], s[j])

BuildMatchups(sessions) ==
  IF Duplicated(sessions) \/ NoBaseline(sessions) THEN Raised
  ELSE InOrder({[model |-> p[1].model, task |-> p[1].task, competitor |-> p[2].layer,
                 brief |-> p[1].tokens, other |-> p[2].tokens] : p \in Pairs(sessions)})

Outcome(m) ==
  IF m.brief < m.other THEN "brief_cheaper"
  ELSE IF m.brief > m.other THEN "competitor_cheaper" ELSE "tie"

\* The outcomes of the matchups at the indices I.
TallyAt(ms, I) ==
  LET count(o) == Cardinality({i \in I : Outcome(ms[i]) = o})
  IN  [wins |-> count("brief_cheaper"), losses |-> count("competitor_cheaper"),
       ties |-> count("tie")]
Tally(ms) == TallyAt(ms, DOMAIN ms)

Matches(w) == w.wins + w.losses + w.ties
WinShare(w)  == IF Matches(w) = 0 THEN Raised ELSE Frac(w.wins, Matches(w))
LossShare(w) == IF Matches(w) = 0 THEN Raised ELSE Frac(w.losses, Matches(w))

TallyByCompetitor(ms) ==
  [c \in {ms[i].competitor : i \in DOMAIN ms} |->
     TallyAt(ms, {i \in DOMAIN ms : ms[i].competitor = c})]

SummarizeTournament(sessions) ==
  LET ms == BuildMatchups(sessions)
  IN  IF ms = Raised THEN Raised
      ELSE [overall |-> Tally(ms), byCompetitor |-> TallyByCompetitor(ms)]

MatchupCount(models, tasks, competitors) ==
  IF models < 0 \/ tasks < 0 \/ competitors < 0 THEN Raised
  ELSE models * tasks * competitors

-----------------------------------------------------------------------------
(* Quality against cost, one row per layer                                 *)

TokensPerResolvedPoint(rate, tokens) ==
  IF Less(Zero, rate) /\ Leq(rate, One) /\ Leq(Zero, tokens)
    THEN Over(tokens, Times(rate, Whole(100))) ELSE Raised

EfficiencyScore(rate, tokens, scale) ==
  IF Leq(Zero, rate) /\ Leq(rate, One) /\ Less(Zero, tokens)
    THEN Over(Times(Whole(scale), rate), tokens) ELSE Raised

EconomicsOf(sessions, layer) ==
  LET mine == {i \in DOMAIN sessions : sessions[i].layer = layer}
      rate == Frac(Cardinality({i \in mine : sessions[i].resolved}), Cardinality(mine))
      mean == Frac(MapThenSumSet(LAMBDA i : sessions[i].tokens, mine), Cardinality(mine))
  IN  [sessions |-> Cardinality(mine), rate |-> rate, tokens |-> mean,
       perPoint |-> IF rate = Zero THEN None ELSE TokensPerResolvedPoint(rate, mean),
       efficiency |-> EfficiencyScore(rate, mean, EfficiencyScale)]

\* One layer whose score raises takes the whole table with it.
EconomicsBySystem(sessions) ==
  LET table == [l \in {s.layer : s \in Range(sessions)} |-> EconomicsOf(sessions, l)]
  IN  IF \E l \in DOMAIN table : table[l].efficiency = Raised THEN Raised ELSE table

-----------------------------------------------------------------------------
(* The sweep                                                               *)

VARIABLES todo,       \* the calls not made yet
          sessions    \* the records of the sessions that returned

vars == <<callVars, todo, sessions>>

Init ==
  \E c \in Calls : Start(c) /\ todo = Calls \ {c} /\ sessions = <<>>

\* The SessionRecord of a session that returned.
RecordOf ==
  [model |-> call.model, task |-> call.task, layer |-> call.layer,
   tokens |-> AsRow(turns).tokens, resolved |-> AsRow(turns).resolved]

Collect ==
  /\ pc \in {"returned", "raised"}
  /\ sessions' = IF pc = "returned" /\ call.fn = "run_session"
                  THEN Append(sessions, RecordOf) ELSE sessions
  /\ pc' = "collected"
  /\ UNCHANGED <<call, writes, billed, records, turns, todo>>

NextCall ==
  /\ pc = "collected"
  /\ \E c \in todo :
       /\ todo' = todo \ {c}
       /\ call' = c /\ pc' = "called"
       /\ writes' = 0 /\ billed' = <<>> /\ records' = <<>> /\ turns' = <<>>
  /\ UNCHANGED sessions

Go ==
  \/ Advance /\ UNCHANGED <<todo, sessions>>
  \/ Collect \/ NextCall

Next == Go \/ (Break /\ UNCHANGED <<todo, sessions>>)

\* One thread: a call that is under way goes on by itself, and the sweep goes
\* on to the next.  Nobody has to raise.
Spec == Init /\ [][Next]_vars /\ WF_vars(Go)

-----------------------------------------------------------------------------
(* What the ledgers promise                                                *)

Billed == Sum([i \in DOMAIN billed |-> billed[i].input + billed[i].output])
GoodAt == {i \in DOMAIN billed : billed[i].good}

\* Whatever the model answers and whoever raises: the corpus is written at
\* most once per call; run_task stops at the first answer judged correct and
\* at its cap, and never asks twice without a predicate (runner.py "If
\* omitted there, the runner makes a single attempt"); the ledger
\* run_session builds is always one its Session accepts, its tokens and
\* dollars are the ones billed, it converges exactly where the first good
\* answer came, and its row is the same from published totals (session.py
\* "invariant to how the split is imputed").
CallsAccounted ==
  /\ writes <= 1
  /\ call.fn = "run_task" /\ pc = "returned" =>
       /\ [i \in DOMAIN records |-> records[i].response] = billed
       /\ \A i \in DOMAIN records : records[i].attempt = i
       /\ Len(records) <= Max({MaxAttempts, 0})
       /\ ~Retrying => Len(records) = 1
       /\ Retrying =>
            IF GoodAt = {} THEN Len(records) = Max({MaxAttempts, 0}) ELSE GoodAt = {Len(records)}
  /\ call.fn = "run_session" /\ pc # "called" =>
       SessionAccepts(turns) /\ Len(turns) <= Max({call.maxTurns, 0})
  /\ call.fn = "run_session" /\ pc = "returned" =>
       /\ SessionTokens(turns) = Billed
       /\ PromptTokens(turns) + CompletionTokens(turns) = Billed
       /\ ReportedDollars(turns) = Total([i \in DOMAIN billed |-> billed[i].dollars])
       /\ ConvergenceTurn(turns) = IF GoodAt = {} THEN None ELSE Min(GoodAt)
       /\ GoodAt = {} => Len(turns) = call.maxTurns
       /\ LET totals == [i \in DOMAIN turns |->
                           FromTotal(i, TotalTokens(turns[i]), turns[i].resolved)]
          IN  AsRow(totals) = AsRow(turns)
       /\ LET spent == CumulativeDollars(turns, call.model)
          IN  /\ Last(CumulativeTokens(turns)) = Billed
              /\ Last(spent) = SessionBlendedCost(call.model, Billed)
              /\ Raised \notin Range(spent) => \A i \in 2..Len(turns) : Leq(spent[i - 1], spent[i])

Cells == {<<s.model, s.task>> : s \in Range(sessions)}
Competitors == {s.layer : s \in {t \in Range(sessions) : Competes(t)}}

\* The two columns of the economics table are reciprocal up to the scale, and
\* session.py's pair, over per cent, says the same as token_economics.py's.
EconomicsAgree ==
  LET table == EconomicsBySystem(sessions)
  IN  /\ table = Raised <=> \E l \in {s.layer : s \in Range(sessions)} :
                               \A s \in Range(sessions) : s.layer = l => s.tokens = 0
      /\ table # Raised => \A l \in DOMAIN table :
           LET row == table[l]
               pct == Times(row.rate, Whole(100))
           IN  /\ row.efficiency = PointsPerToken(pct, row.tokens)
               /\ row.perPoint = None <=> row.efficiency = Zero
               /\ row.perPoint # None =>
                    /\ row.perPoint = TokensPerPoint(row.tokens, pct)
                    /\ Times(row.efficiency, row.perPoint) = Whole(EfficiencyScale \div 100)

\* The tournament is zero-sum and does not depend on the order in which the
\* sessions ended (token_economics.py "reproducible regardless of input
\* ordering"): every competitor's wins, losses and ties add up to the
\* overall ones, a full sweep has a matchup for every cell and competitor,
\* and a competitor without the store's session is refused, not skipped; and
\* the economics table over the same sessions is consistent.
TournamentBalances ==
  EconomicsAgree /\
  LET t == SummarizeTournament(sessions)
      by(f) == MapThenSumSet(LAMBDA c : t.byCompetitor[c][f], DOMAIN t.byCompetitor)
  IN  /\ BuildMatchups(Reverse(sessions)) = BuildMatchups(sessions)
      /\ t = Raised <=> Duplicated(sessions) \/ NoBaseline(sessions)
      /\ t # Raised =>
           /\ \A f \in {"wins", "losses", "ties"} : by(f) = t.overall[f]
           /\ Matches(t.overall) = Cardinality({s \in Range(sessions) : Competes(s)})
           /\ (\A cell \in Cells, l \in Competitors \cup {BriefLayer} :
                  \E s \in Range(sessions) : Cell(s) = cell /\ s.layer = l) =>
                Matches(t.overall) = MatchupCount(1, Cardinality(Cells), Cardinality(Competitors))
           /\ Matches(t.overall) > 0 =>
                Leq(Plus(WinShare(t.overall), LossShare(t.overall)), One)

\* Every call ends and the sweep runs out of calls: no session talks on for
\* ever, whatever the predicate says.
SweepEnds == <>[](todo = {} /\ pc = "collected")
=============================================================================
