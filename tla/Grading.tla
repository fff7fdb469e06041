------------------------------ MODULE Grading -------------------------------
(***************************************************************************)
(* From an answer to a grade: the rule and the judges of edits             *)
(* (metrics/compliance.py, correctness.py, judge.py), answers to questions *)
(* (answer_scoring.py), test suites (resolution.py), chains of corrections *)
(* (supersession.py) and what an answer cost (cost.py).                    *)
(*                                                                         *)
(* A text is the set of forms it holds: <<name, "bare">> or <<name,        *)
(* "call">>.  A decision is [id, forms]; an edit is [forms, ids, tone],    *)
(* the ids being those it quotes.  A word that occurs in another by        *)
(* accident is left out, and so is Wilson's interval.                      *)
(***************************************************************************)
EXTENDS Fractions

CONSTANT PlainNames   \* names that are identifiers only when called

Bare(forms) == {<<f[1], "bare">> : f \in {g \in forms : g[2] = "call"}}
Occurring(forms) == forms \cup Bare(forms)

DecisionKeywords(forms) ==
  {f \in forms : f[2] = "call" \/ f[1] \notin PlainNames} \cup Bare(forms)

\* The rule's and the stub judge's test of one decision; corpus is the
\* function from ids to decisions.
TextOf(corpus, id) == IF id \in DOMAIN corpus THEN corpus[id].forms ELSE {}
Asserted(edit, corpus, id) ==
  LET keywords == DecisionKeywords(TextOf(corpus, id))
  IN  IF keywords # {} THEN keywords \cap Occurring(edit.forms) # {} ELSE id \in edit.ids

Share(part, whole) == IF whole = 0 THEN One ELSE Frac(part, whole)

ScoreCompliance(edit, governing, corpus) ==
  LET honored == SelectSeq(governing, LAMBDA id : Asserted(edit, corpus, id))
  IN  [total |-> Len(governing), honored |-> Len(honored), ids |-> honored,
       rate |-> Share(Len(honored), Len(governing))]

ScoreCorrectness(edit, compliance) ==
  CASE edit.tone = "empty" -> [mergeReady |-> FALSE, reason |-> "empty"]
    [] edit.tone = "refusal" -> [mergeReady |-> FALSE, reason |-> "refusal"]
    [] OTHER -> [mergeReady |-> compliance.rate = One,
                 reason |-> IF compliance.rate = One THEN "ok" ELSE compliance.total - compliance.honored]

-----------------------------------------------------------------------------
(* Judges                                                                  *)

Verdict(id, honored, confidence) ==
  IF Leq(Zero, confidence) /\ Leq(confidence, One)
  THEN [id |-> id, honored |-> honored, confidence |-> confidence] ELSE Raised

Honored(verdicts) == Len(SelectSeq(verdicts, LAMBDA v : v.honored))
Rate(verdicts) == Share(Honored(verdicts), Len(verdicts))
Compliant(verdicts) == \A v \in Range(verdicts) : v.honored

\* Slip: the decision's own words count as the change that enforces it.
GradeDecisionSlip(edit, corpus, id, requireEnforcement) ==
  Asserted(edit, corpus, id) /\ (requireEnforcement => DecisionKeywords(edit.forms) # {})

\* To count as enforced, an answer names something the decision does not.
GradeDecision(edit, corpus, id, requireEnforcement) ==
  /\ Asserted(edit, corpus, id)
  /\ requireEnforcement =>
       DecisionKeywords(edit.forms) \ DecisionKeywords(TextOf(corpus, id)) # {}

\* The stub's confidence is a hash in [4/5, 1]; its low end stands for all.
StubGrade(edit, governing, corpus, requireEnforcement) ==
  [i \in DOMAIN governing |->
     Verdict(governing[i], GradeDecision(edit, corpus, governing[i], requireEnforcement), Frac(4, 5))]

AgreementRate(judge, rule) ==
  LET count(P(_)) == Cardinality({i \in DOMAIN judge : P(i)})
      agree == count(LAMBDA i : judge[i] = rule[i])
  IN  IF Len(judge) # Len(rule) THEN Raised
      ELSE [agree |-> agree, total |-> Len(judge), rate |-> Share(agree, Len(judge)),
            judgeStricter |-> count(LAMBDA i : rule[i] /\ ~judge[i]),
            ruleStricter |-> count(LAMBDA i : judge[i] /\ ~rule[i])]

\* Cases are [edit, governing]; the rule's event is a rate of one.
JudgeVsRuleAgreement(cases, corpus, requireEnforcement) ==
  AgreementRate(
    [i \in DOMAIN cases |-> Compliant(StubGrade(cases[i].edit, cases[i].governing, corpus, requireEnforcement))],
    [i \in DOMAIN cases |-> ScoreCompliance(cases[i].edit, cases[i].governing, corpus).rate = One])

\* A reply is [spans, says]: the balanced braces it holds in order of their
\* opening, each "garbage" or a payload, and the words outside.
ExtractJsonObject(spans) ==
  LET parsed == SelectSeq(spans, LAMBDA s : s.json)
  IN  IF parsed = <<>> THEN None ELSE parsed[1]

CoerceConfidence(value) == IF value = None THEN One ELSE Higher(Zero, Lower(value, One))

\* Any value but a false one counts as honored.
ParseVerdict(reply, id) ==
  LET payload == ExtractJsonObject(reply.spans)
  IN  IF payload # None /\ payload.honored # None
      THEN Verdict(id, payload.honored # "false", CoerceConfidence(payload.confidence))
      ELSE CASE reply.says \in {"not honor", "violat"} -> Verdict(id, FALSE, Frac(1, 2))
             [] reply.says = "honor" -> Verdict(id, TRUE, Frac(1, 2))
             [] OTHER -> Verdict(id, FALSE, Zero)

LLMGrade(replies, governing) == [i \in DOMAIN governing |-> ParseVerdict(replies[i], governing[i])]

-----------------------------------------------------------------------------
(* Answers to questions: a text is its words in order, "the" an article    *)
(* and "," punctuation, in any case.                                       *)

NormalizeAnswer(words) == SelectSeq(words, LAMBDA w : w \notin {"the", ","})
AnswerTokens(words) == NormalizeAnswer(words)
AnswerExactMatch(prediction, gold) == NormalizeAnswer(prediction) = NormalizeAnswer(gold)

Occurrences(s, w) == Len(SelectSeq(s, LAMBDA v : v = w))
Harmonic(p, r) == IF Plus(p, r) = Zero THEN Zero ELSE Over(Times(Whole(2), Times(p, r)), Plus(p, r))

Shared(p, g) == MapThenSumSet(LAMBDA w : Min({Occurrences(p, w), Occurrences(g, w)}), Range(p))

TokenF1(prediction, gold) ==
  LET p == AnswerTokens(prediction)
      g == AnswerTokens(gold)
  IN  IF p = <<>> \/ g = <<>> THEN (IF p = g THEN One ELSE Zero)
      ELSE Harmonic(Frac(Shared(p, g), Len(p)), Frac(Shared(p, g), Len(g)))

FactF1(predicted, gold) ==
  LET facts(s) == {NormalizeAnswer(f) : f \in Range(s)} \ {<<>>}
      p == facts(predicted)
      g == facts(gold)
      hits == Cardinality(p \cap g)
      rate(of) == IF of = {} THEN Zero ELSE Frac(hits, Cardinality(of))
  IN  IF p = {} /\ g = {} THEN [precision |-> One, recall |-> One, f1 |-> One, hits |-> 0]
      ELSE [precision |-> rate(p), recall |-> rate(g), f1 |-> Harmonic(rate(p), rate(g)), hits |-> hits]

TokenOverlapJudge(prediction, gold, threshold) ==
  IF Less(threshold, Zero) \/ Less(One, threshold) THEN Raised
  ELSE IF AnswerExactMatch(prediction, gold) THEN [correct |-> TRUE, score |-> One]
  ELSE LET f1 == TokenF1(prediction, gold) IN [correct |-> Leq(threshold, f1), score |-> f1]

LLMJudgeAccuracy(records, threshold) ==
  LET correct == SelectSeq(records, LAMBDA r : TokenOverlapJudge(r[1], r[2], threshold).correct)
  IN  IF records = <<>> THEN Raised
      ELSE [accuracy |-> Frac(Len(correct), Len(records)), correct |-> Len(correct)]

-----------------------------------------------------------------------------
(* Test suites: results maps the tests that ran to their status.           *)

Unmet(required, results) ==
  SelectSeq(required, LAMBDA t : t \notin DOMAIN results \/ results[t] # "PASSED")

ResolveInstance(failToPass, passToPass, results) ==
  LET unmet == Unmet(failToPass, results) \o Unmet(passToPass, results)
  IN  IF failToPass = <<>> THEN Raised ELSE [resolved |-> unmet = <<>>, unmet |-> unmet]

ResolutionRate(resolutions) ==
  IF resolutions = <<>> THEN Raised
  ELSE Frac(Len(SelectSeq(resolutions, LAMBDA r : r.resolved)), Len(resolutions))

-----------------------------------------------------------------------------
(* Chains of corrections: [chain, supersedes, applied].                    *)

CaseOK(c) ==
  /\ c.chain # <<>> /\ IsInjective(c.chain)
  /\ \A e \in Range(c.supersedes) : e[1] # e[2] /\ {e[1], e[2]} \subseteq Range(c.chain)

Live(c) == SelectSeq(c.chain, LAMBDA d : \A e \in Range(c.supersedes) : e[2] # d)
CurrentDecision(c) == IF Len(Live(c)) = 1 THEN Live(c)[1] ELSE Raised

\* Items are [id, edges], an edge <<target, label>>.
CaseFromItems(items, applied, label) ==
  LET edgesOf(item) == LET at == SelectSeq(item.edges, LAMBDA e : e[2] = label)
                       IN  [i \in DOMAIN at |-> <<item.id, at[i][1]>>]
      c == [chain |-> [i \in DOMAIN items |-> items[i].id], applied |-> applied,
            supersedes |-> FoldLeft(LAMBDA s, item : s \o edgesOf(item), <<>>, items)]
  IN  IF CaseOK(c) THEN c ELSE Raised

Current(c) == c.applied # None /\ c.applied = CurrentDecision(c)
SupersessionRate(cases) ==
  IF cases = <<>> THEN Zero
  ELSE IF \E c \in Range(cases) : c.applied # None /\ CurrentDecision(c) = Raised THEN Raised
  ELSE Frac(Len(SelectSeq(cases, Current)), Len(cases))

ScoreSupersession(cases) ==
  [total |-> Len(cases), rate |-> SupersessionRate(cases),
   chance |-> IF cases = <<>> THEN Zero ELSE Mean([i \in DOMAIN cases |-> Frac(1, Len(cases[i].chain))])]

-----------------------------------------------------------------------------
(* Attempts are [tokens, dollars, correct].                                *)

ScoreCostToCorrect(attempts) ==
  LET right == {i \in DOMAIN attempts : attempts[i].correct}
      counted == IF right = {} THEN attempts ELSE SubSeq(attempts, 1, Min(right))
  IN  IF attempts = <<>> THEN Raised
      ELSE [attempts |-> Len(attempts), resolved |-> right # {},
            iterations |-> IF right = {} THEN None ELSE Min(right),
            tokens |-> Sum([i \in DOMAIN counted |-> counted[i].tokens]),
            dollars |-> Sum([i \in DOMAIN counted |-> counted[i].dollars])]

ReturnOnTokens(correct, tokens) == IF tokens <= 0 THEN Raised ELSE Frac(1000 * correct, tokens)
CostPerCorrect(dollars, correct) ==
  IF dollars < 0 THEN Raised ELSE IF correct <= 0 THEN Infinity ELSE Frac(dollars, correct)
=============================================================================
