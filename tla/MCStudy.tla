------------------------------ MODULE MCStudy -------------------------------
(* Fractions with small denominators, so that TLC's integers suffice. *)
EXTENDS Evaluation

MCModels ==
  {[s0 |-> s0, rho |-> rho, q |-> q, tau |-> tau] :
     s0 \in {One, Half, Frac(3, 2)}, rho \in {Half, One}, q \in {Half, Frac(3, 4), One},
     tau \in {Zero, Frac(1, 16), Frac(1, 8), Half}}

Ratings == {1, 2, None}
Shares == {Zero, Half, One}

Grades == {Zero, One, Whole(2)}

\* An entry decision, one that follows from it, and one that its words do not
\* tell from prose.
MCDecisions == 1 :> [forms |-> {<<"a", "call">>}] @@ 2 :> [forms |-> {<<"b", "bare">>}]
MCTasks == [build |-> [coding |-> TRUE, corpus |-> MCDecisions],
            recall |-> [coding |-> FALSE, corpus |-> MCDecisions]]

\* An arm's answer to a task at a depth, having retrieved some of what governs
\* it; the second model is not a Claude.
MCRecords ==
  {[task |-> t, dataset |-> IF t = "build" THEN "dcbench" ELSE "synthetic", arm |-> a, depth |-> d,
    model |-> IF a = "vector" /\ d = 2 /\ o = "bad" THEN "other" ELSE "claude", spec |-> "stripped",
    governing |-> IF d = 1 THEN <<1>> ELSE <<1, 2>>,
    edit |-> [forms |-> IF o = "bad" THEN {} ELSE {<<"a", "call">>},
              ids |-> IF o = "good" THEN {2} ELSE {}, tone |-> "work"],
    retrieved |-> CASE o = "good" -> <<2, 1>> [] o = "half" -> <<1>> [] o = "bad" -> <<3>>,
    input |-> d, output |-> IF o = "good" THEN 1 ELSE 2, dollars |-> One] :
     <<t, a, o>> \in {<<"build", "brief", "good">>, <<"build", "brief", "bad">>, <<"build", "none", "bad">>,
                      <<"recall", "vector", "half">>, <<"build", "vector", "bad">>},
     d \in 1..2}

MCAreas == <<[slug |-> "x", words |-> 3], [slug |-> "y", words |-> 2], [slug |-> "z", words |-> 4]>>
MCRelations == <<"derived_from", "implements">>
MCRates == {Zero, Half, One}
MCBudgets == 0..5
MCCells == <<"none", 1>> :> "full_spec" @@ <<"brief", 2>> :> "stripped"
MCArmNames == <<"brief", "none", "vector">>

MCAlphabet ==
  [theory |-> {0},
   pvalues |-> {Zero, Frac(1, 10), Frac(1, 4), Half, One},
   answers |-> {0, 1},
   pairs |-> {0, 1} \X {0, 1},
   residuals |-> {Whole(i) : i \in 0..3},
   curve |-> ({1, 2, 4} \X Shares) \ {<<2, Half>>, <<4, Half>>},
   samples |-> {1, 2} \X {Whole(i) : i \in 0..2},
   studies |-> {Zero, One, Whole(3)} \X {One, Whole(2)},
   design |-> {Zero, One},
   raters |-> Ratings \X Ratings \X Ratings,
   labels |-> (1..3) \X (1..3),
   forecasts |-> [p : {Zero, Half, Frac(3, 4), One}, y : {0, 1}],
   packing |-> 0..3,
   fusion |-> Grades \X Grades,
   mmr |-> Grades \X (0..2),
   tree |-> Grades \X {1, 2},
   links |-> {[source |-> e[1], target |-> e[2], weight |-> IF e[1] < e[2] THEN 1 ELSE 2] :
                 e \in {p \in (1..3) \X (1..3) : p[1] # p[2] \/ p[1] = 1}},
   ranking |-> 1..4,
   edits |-> [edit : [forms : SUBSET {<<"a", "call">>, <<"a", "bare">>, <<"b", "call">>},
                      ids : SUBSET {2}, tone : {"work"}],
              governing : {<<1>>, <<1, 2>>}],
   replies |-> {[json |-> FALSE]} \cup
               [json : {TRUE}, honored : {None, "true", "false", "maybe"}, confidence : {None, Half, Whole(2), Whole(-1)}],
   questions |-> {"prediction", "gold"} \X {"the", "a", "b"},
   tests |-> {"fail to pass", "pass to pass"} \X {"PASSED", "FAILED", "not run"},
   attempts |-> [tokens : 1..2, dollars : {1}, correct : BOOLEAN],
   corrections |-> {p \in (1..3) \X (1..3) : p[1] # p[2]},
   tasks |-> {0},
   conversations |-> [kind : {"said", "cited"}, line : {<<1, 1>>, <<2, 1>>, <<2, 2>>, <<3, 1>>, <<3>>}],
   instances |-> {[repo |-> r, name |-> n, doc |-> l[1], depth |-> l[2]] :
                     r \in {"django", "pytest"}, n \in {<<1>>, <<2>>},
                     l \in {<<FALSE, 1>>, <<FALSE, 2>>, <<TRUE, 3>>}},
   records |-> MCRecords,
   points |-> [accuracy : Grades, cost : Grades]]
MCLength ==
  [theory |-> 3, pvalues |-> 3, answers |-> 4, pairs |-> 5, residuals |-> 4, curve |-> 4,
   samples |-> 4, studies |-> 3, design |-> 8, raters |-> 2, labels |-> 3, forecasts |-> 3,
   packing |-> 4, fusion |-> 3, mmr |-> 3, tree |-> 3, links |-> 3, ranking |-> 4, edits |-> 2,
   replies |-> 2, questions |-> 4, tests |-> 3, attempts |-> 4, corrections |-> 3, tasks |-> 4, conversations |-> 4, instances |-> 3,
   records |-> 3, points |-> 3]
MCSubjects == DOMAIN MCAlphabet
MCLevels == {Frac(1, 10), Frac(1, 4), Half}
MCAlpha == Frac(3, 5)
MCConfidence == Frac(1, 3)
MCNullMeans == {Half, Frac(1, 4)}
=============================================================================
