----------------------------- MODULE Evaluation ------------------------------
(***************************************************************************)
(* The evaluation as the package's pure code sees it: scores become a      *)
(* ranking, a ranking a context, an answer a grade, graded rows tables;    *)
(* and the tasks all of it runs on are generated.  Each is recomputed on   *)
(* whatever sample has arrived.                                            *)
(***************************************************************************)
EXTENDS Study

CONSTANTS
  Budgets, Rates,        \* token budgets; thresholds, restart and decay rates
  Decisions,             \* the corpus the edits are judged by, by id
  PlainNames,            \* see Grading
  Tasks,                 \* the tasks of the records, by name
  ArmNames, BriefArms, Claude, Strippable, AblationDatasets, AblationCells,  \* see Tables
  Areas, Relations, Fillers                                                  \* see Datasets

Rk == INSTANCE Ranking
Gr == INSTANCE Grading
Da == INSTANCE Datasets
Ta == INSTANCE Tables
Dg == INSTANCE JavaReference
Tr == INSTANCE Trends
W  == INSTANCE GraphWalk

Positions == [i \in DOMAIN seen |-> i]
IsOrderOf(s, S) == Range(s) = S /\ IsInjective(s)
At(s, x) == CHOOSE i \in DOMAIN s : s[i] = x
Before(s, x, y) == At(s, x) < At(s, y)
Given(P(_)) == SelectSeq(seen, P)

-----------------------------------------------------------------------------
(* Rankings                                                                *)

\* The arms pack the longest start of the ranking that fits, and no less with
\* more; the Java reference packs that and perhaps more, the same in its order.
PackingSound ==
  About("packing") => \A b \in Budgets :
    LET packed == Rk!PackToBudget(Positions, seen, b)
        java == Dg!Pack(Positions, seen, b)
        canonical == Dg!CanonicalOrder(Positions, seen)
        cost(s) == Sum([i \in DOMAIN s |-> seen[s[i]]])
    IN  /\ IsPrefix(packed, Positions) /\ cost(packed) <= b
        /\ Len(packed) < Len(seen) => cost(packed) + seen[Len(packed) + 1] > b
        /\ \A c \in Budgets : c >= b => IsPrefix(packed, Rk!PackToBudget(Positions, seen, c))
        /\ IsPrefix(packed, java.ids) /\ java.used = cost(java.ids) /\ java.used <= b
        /\ Dg!Pack(canonical, seen, b).ids = Rk!PackToBudget(canonical, seen, b)

KeepsOrder(order, better(_, _)) ==
  \A i, j \in Range(order) : better(i, j) => Before(order, i, j)

\* Reranking reorders the first candidates, and no others.
Reranked(order, first, lexical) ==
  /\ IsOrderOf(order, Range(first))
  /\ KeepsOrder(order, LAMBDA i, j : Before(first, i, j) /\ Leq(lexical[j], lexical[i]))

Fused(fused, lexical, dense) ==
  \A i, j \in DOMAIN seen : Leq(lexical[j], lexical[i]) /\ Leq(dense[j], dense[i]) => Leq(fused[j], fused[i])

FusedHybrid(hybrid, byWords, byMeaning) ==
  /\ IsOrderOf(hybrid, DOMAIN seen)
  /\ KeepsOrder(hybrid, LAMBDA i, j : Before(byWords, i, j) /\ Before(byMeaning, i, j))

FusionHolds(lexical, dense, byWords, byMeaning) ==
  /\ FusedHybrid(Rk!HybridRetrieve(Positions, byWords, byMeaning, 1), byWords, byMeaning)
  /\ \A n \in DOMAIN seen :
       Reranked(Rk!RerankRetrieve(byMeaning, n, {1, 2}, [i \in DOMAIN seen |-> 1..lexical[i][1]]),
                SubSeq(byMeaning, 1, n), lexical)
  /\ \A method \in {"combsum", "combmnz", "combanz"} :
       /\ Rk!FuseScores(<<[i \in DOMAIN seen |-> Plus(Times(Whole(3), lexical[i]), One)], dense>>, method)
            = Rk!FuseScores(<<lexical, dense>>, method)
       /\ IsOrderOf(Rk!FusionRetrieve(Positions, lexical, dense, method), DOMAIN seen)
       /\ method # "combanz" => Fused(Rk!FuseScores(<<lexical, dense>>, method), lexical, dense)

FusionOf(lexical, dense) ==
  FusionHolds(lexical, dense, Rk!BestFirst(Positions, lexical), Rk!BestFirst(Positions, dense))

\* Fusing keeps every item once and what both rankings agree on, and only the
\* shape of the scores matters; combanz alone may turn an agreement round.
FusionSound ==
  About("fusion") => FusionOf([i \in DOMAIN seen |-> seen[i][1]], [i \in DOMAIN seen |-> seen[i][2]])

\* Greedy selection takes every item once, only stops sooner when fewer are
\* wanted, is the plain ranking when relevance is all, and never opens with
\* anything but the most relevant.
DiversitySound ==
  About("mmr") =>
    LET relevance == [i \in DOMAIN seen |-> seen[i][1]]
        apart(i, j) == Magnitude(seen[i][2] - seen[j][2])
        alike == [p \in (DOMAIN seen) \X (DOMAIN seen) |-> Frac(Max({0, 2 - apart(p[1], p[2])}), 2)]
        plain == Rk!BestFirst(Positions, relevance)
    IN  \A lambda \in Rates :
          LET order == Rk!MMROrder(relevance, alike, lambda, None)
          IN  /\ IsOrderOf(order, DOMAIN seen)
              /\ \A k \in DOMAIN seen : Rk!MMROrder(relevance, alike, lambda, k) = SubSeq(order, 1, k)
              /\ lambda = One => order = plain
              /\ lambda # Zero => order[1] = plain[1]
              \* Of two items alike in place the less relevant never comes first.
              /\ \A i, j \in DOMAIN seen :
                   apart(i, j) = 0 /\ Less(relevance[j], relevance[i]) /\ lambda # Zero => Before(order, i, j)

\* Ranking leaves and summaries together lists every leaf once, each cluster's
\* best first, and a leaf passes a better one only behind its own summary.
TreeSound ==
  About("tree") =>
    LET sims == [i \in DOMAIN seen |-> seen[i][1]]
        clusters == SetToSeq({seen[i][2] : i \in DOMAIN seen})
        members == [c \in DOMAIN clusters |-> SelectSeq(Positions, LAMBDA i : seen[i][2] = clusters[c])]
    IN  \A summaries \in [DOMAIN clusters -> Rates] :
          LET order == Rk!OrderedItemIndices(sims, members, summaries)
          IN  /\ IsOrderOf(order, DOMAIN seen)
              /\ \A i, j \in DOMAIN seen :
                   Before(order, i, j) /\ Less(sims[i], sims[j]) =>
                     /\ seen[i][2] # seen[j][2]
                     /\ Less(sims[j], summaries[At(clusters, seen[i][2])])

Three == <<1, 2, 3>>
Weighted == [i \in DOMAIN seen |-> [seen[i] EXCEPT !.weight = Whole(seen[i].weight)]]
Out(edges) == [u \in 1..3 |-> LET out == SelectSeq(edges, LAMBDA e : e.source = u)
                              IN  [i \in DOMAIN out |-> <<i, out[i].target>>]]
Both == W!GraphOf(1..3, seen)

\* The walk of a random surfer loses no mass, is exactly where links lead in as
\* many steps, stays once it stays, and with certain restarts never leaves.
PageRankHolds(r, next, balls) ==
  /\ Total(r.mass) = One /\ \A v \in 1..3 : Leq(Zero, r.mass[v])
  /\ r.converged => next = r
  /\ {v \in 1..3 : r.mass[v] # Zero} = balls

PageRankFrom(matrix, restart, held) ==
  \A alpha \in {Frac(1, 4), One} : \A k \in 1..2 :
    PageRankHolds(Rk!PersonalizedPageRank(matrix, restart, alpha, k),
                  Rk!PersonalizedPageRank(matrix, restart, alpha, k + 1),
                  IF alpha = One THEN held ELSE W!Balls(Out(seen), held, k)[k])

PageRankSound ==
  \A sims \in {<<One, Zero, Zero>>, <<Zero, One, One>>, <<Zero, Whole(-1), Zero>>} :
    PageRankFrom(Rk!TransitionMatrix(3, Weighted), Rk!RestartDistribution(sims),
                 IF One \in Range(sims) THEN {v \in 1..3 : sims[v] = One} ELSE 1..3)

\* Activation reaches what links reach in as many hops, either way along them,
\* only grows, and a threshold only prunes it.
Activated(hops, decay, threshold) == Rk!SpreadActivation(1..3, Weighted, 1 :> One, decay, hops, threshold)

SpreadingHolds(found, further, pruned, ball) ==
  /\ DOMAIN found = ball
  /\ \A v \in DOMAIN found : Leq(found[v], further[v]) /\ (v \in DOMAIN pruned => Leq(pruned[v], found[v]))
  /\ IsOrderOf(Rk!ActivatedRetrieve(Three, found), DOMAIN found)

SpreadingSound ==
  \A hops \in 0..2 : \A decay \in {Zero, Frac(1, 2)} :
    SpreadingHolds(Activated(hops, decay, Zero), Activated(hops + 1, decay, Zero), Activated(hops, decay, One),
                   IF decay = Zero THEN {1} ELSE W!Balls(Both, {1}, hops)[hops])

\* What the walk misses never passes what it finds and is more similar.
RankFusionSound ==
  \A hops \in 1..2 :
    LET order == Rk!RankFusionRetrieve(Three, Both, Three, 1, hops, 1)
        reached == Range(Rk!GraphHopRanking(Both, Three, 1, hops))
    IN  /\ IsOrderOf(order, 1..3) /\ order[1] = 1
        /\ \A i \in reached, j \in (1..3) \ reached : i < j => Before(order, i, j)

LinksSound == About("links") => PageRankSound /\ SpreadingSound /\ RankFusionSound

\* The same hits counted in every measure, and moving a hit, or a better grade,
\* one place up never lowers one.
MeasuresSound ==
  About("ranking") => \A gold \in {{1, 2}, {1}, {}} :
    LET items == Rk!Dedup(seen)
        n == Len(items)
        grade(id) == IF id \in gold THEN 3 - id ELSE 0
        grades(s) == [i \in DOMAIN s |-> grade(s[i])]
        err(s) == Rk!ExpectedReciprocalRank(grades(s), 2)
        rbp(s) == Rk!RankBiasedPrecision(grades(s), Frac(1, 2))
        raised(i) == [items EXCEPT ![i] = items[i + 1], ![i + 1] = items[i]]
        score == Rk!ScoreRetrieval(seen, SetToSeq(gold), None)
        right == Rk!Hits(items, gold)
    IN  /\ \A k \in 1..4 :
             Times(Rk!PrecisionAtK(seen, gold, k), Whole(Min({k, n}))) =
               IF gold = {} THEN Zero ELSE Times(Rk!RecallAtK(seen, gold, k), Whole(Cardinality(gold)))
        /\ gold # {} => /\ score.chain <=> score.recall = One
                        /\ Times(score.ap, Whole(Cardinality(gold)))
                             = Times(Rk!GradedPrecision(grades(items)), Whole(right))
                        /\ Rk!RPrecision(grades(items), Cardinality(gold))
                             = Rk!RecallAtK(seen, gold, Cardinality(gold))
        /\ Leq(score.ap, score.recall) /\ (score.mrr = Zero <=> right = 0)
        /\ Leq(err(items), One) /\ Leq(rbp(items), Whole(2))
        /\ \A i \in 1..(n - 1) :
             grade(items[i]) < grade(items[i + 1]) =>
               /\ Less(err(items), err(raised(i))) /\ Less(rbp(items), rbp(raised(i)))
               /\ Leq(Rk!AveragePrecision(items, gold), Rk!AveragePrecision(raised(i), gold))
               /\ Leq(Rk!ReciprocalRank(items, gold), Rk!ReciprocalRank(raised(i), gold))
               /\ LET mean == Rk!MeanAveragePrecision(<<grades(items), grades(raised(i))>>)
                  IN  /\ Leq(Rk!GradedPrecision(grades(items)), mean)
                      /\ Leq(mean, Rk!GradedPrecision(grades(raised(i))))

\* retrieval/*.py, metrics/retrieval.py, ir_extra.py: no arm loses, repeats or
\* invents an item, and every measure counts the same hits.
RankingSound ==
  PackingSound /\ FusionSound /\ DiversitySound /\ TreeSound /\ LinksSound /\ MeasuresSound
-----------------------------------------------------------------------------
(* Grades                                                                  *)

\* Without its guard the stub judge is the rule; with it the judge is only ever
\* stricter, never fooled by a decision's own text; and saying more never turns
\* a decision honored into one that is not.
EditsSound ==
  About("edits") =>
    LET loose == Gr!JudgeVsRuleAgreement(seen, Decisions, FALSE)
        strict == Gr!JudgeVsRuleAgreement(seen, Decisions, TRUE)
        rate(c) == Gr!ScoreCompliance(c.edit, c.governing, Decisions).rate
        copied(id) == [forms |-> Decisions[id].forms, ids |-> {}, tone |-> "work"]
        more(c, d) == [c EXCEPT !.edit.forms = @ \cup d.edit.forms, !.edit.ids = @ \cup d.edit.ids]
    IN  /\ loose.rate = One
        /\ strict.ruleStricter = 0 /\ strict.agree + strict.judgeStricter = strict.total
        /\ \A id \in DOMAIN Decisions : ~Gr!GradeDecision(copied(id), Decisions, id, TRUE)
        /\ \A c, d \in Range(seen) :
             /\ Leq(rate(c), rate(more(c, d)))
             /\ LET judged(e) == Gr!StubGrade(e, c.governing, Decisions, TRUE)
                IN  Leq(Gr!Rate(judged(c.edit)), Gr!Rate(judged(more(c, d).edit)))

\* The first object with a verdict decides whatever is written around it, words
\* decide only without one, and a confidence is never out of range.
RepliesSound ==
  About("replies") => \A says \in {"nothing", "honor", "not honor"} :
    LET parse(spans) == Gr!ParseVerdict([spans |-> spans, says |-> says], 1)
        verdict == parse(seen)
        objects == Given(LAMBDA s : s.json)
        panel == Gr!LLMGrade(<<[spans |-> seen, says |-> says], [spans |-> objects, says |-> says]>>, <<1, 1>>)
    IN  /\ Gr!Rate(panel) = (IF verdict.honored THEN One ELSE Zero)
        /\ verdict # Raised /\ Leq(Zero, verdict.confidence) /\ Leq(verdict.confidence, One)
        /\ verdict = parse(objects)
        /\ objects # <<>> => verdict = parse(<<objects[1]>>)
        /\ objects = <<>> => (verdict.honored <=> says = "honor")

\* F1 cares neither for the order of words nor for which side is the answer, is
\* one for the same words alone, and no threshold fails an exact answer.
AnswersSound ==
  About("questions") =>
    LET words(side) == LET of == Given(LAMBDA x : x[1] = side) IN [i \in DOMAIN of |-> of[i][2]]
        p == words("prediction")
        g == words("gold")
        same == \A w \in {"a", "b"} : Gr!Occurrences(p, w) = Gr!Occurrences(g, w)
        facts(s) == [i \in DOMAIN s |-> <<s[i]>>]
        forth == Gr!FactF1(facts(p), facts(g))
        back == Gr!FactF1(facts(g), facts(p))
    IN  /\ Gr!TokenF1(p, g) = Gr!TokenF1(g, p) /\ Gr!TokenF1(p, Reverse(g)) = Gr!TokenF1(p, g)
        /\ Leq(Zero, Gr!TokenF1(p, g)) /\ Leq(Gr!TokenF1(p, g), One)
        /\ Gr!TokenF1(p, g) = One <=> same
        /\ forth.precision = back.recall /\ forth.recall = back.precision /\ forth.f1 = back.f1
        /\ \A t, u \in Rates :
             LET judged(x) == Gr!TokenOverlapJudge(p, g, x) IN
             /\ Gr!AnswerExactMatch(p, g) => judged(t).correct /\ Gr!TokenF1(p, g) = One
             /\ Leq(t, u) /\ judged(u).correct => judged(t).correct
             /\ Gr!LLMJudgeAccuracy(<<<<p, g>>, <<g, p>>>>, t).accuracy =
                  (IF judged(t).correct THEN One ELSE Zero)

\* A test that did not run is not a test passed: of a run cut short, what it
\* says resolved the whole run says too.
ResolutionSound ==
  About("tests") =>
    LET ids(suite) == SelectSeq(Positions, LAMBDA i : seen[i][1] = suite)
        ran == {i \in DOMAIN seen : seen[i][2] # "not run"}
        resolve(part) == Gr!ResolveInstance(ids("fail to pass"), ids("pass to pass"), [i \in part |-> seen[i][2]])
    IN  IF ids("fail to pass") = <<>> THEN resolve(ran) = Raised
        ELSE \A part \in SUBSET ran :
               /\ resolve(part).resolved => resolve(ran).resolved /\ part = DOMAIN seen
               /\ Gr!ResolutionRate(<<resolve(part), resolve(ran)>>) # Frac(1, 2) <=>
                    resolve(part).resolved = resolve(ran).resolved

\* What follows the first correct attempt costs nothing, and a failed one is
\* paid for: a longer history never costs less.
AttemptsSound ==
  About("attempts") =>
    LET cost(n) == Gr!ScoreCostToCorrect(SubSeq(seen, 1, n))
        whole == cost(Len(seen))
    IN  \A n \in DOMAIN seen :
          /\ cost(n).tokens <= whole.tokens
          /\ cost(n).resolved => whole.resolved /\ whole.iterations = cost(n).iterations
                                 /\ whole.tokens = cost(n).tokens /\ whole.dollars = cost(n).dollars
          /\ ~cost(n).resolved => cost(n).tokens = Sum([i \in 1..n |-> seen[i].tokens])
          /\ LET right == IF cost(n).resolved THEN 1 ELSE 0
                 later == IF whole.resolved THEN 1 ELSE 0
             IN  /\ right = later => Leq(Gr!ReturnOnTokens(later, whole.tokens), Gr!ReturnOnTokens(right, cost(n).tokens))
                 /\ Gr!CostPerCorrect(cost(n).dollars, right) = Infinity <=> ~cost(n).resolved
                 /\ right = 1 => Gr!CostPerCorrect(cost(n).dollars, right) = Gr!CostPerCorrect(whole.dollars, later)

Supersedes(i) == [source |-> seen[i][1], target |-> seen[i][2], type |-> "supersedes", confidence |-> One]
ThreeNodes == FoldLeft(Dg!AddNode, Dg!EmptyGraph, Three)
Corrections == Dg!AddEdges(ThreeNodes, [i \in DOMAIN seen |-> Supersedes(i)])

\* One decision that nothing corrects is where the Java reference and the
\* query end up from everywhere, unless they go round; picking blindly is right
\* as often as chance; and going round ends in an error, at a loop.
CorrectionsAgree ==
  About("corrections") /\ IsInjective(seen) =>
    LET chain(applied) == [chain |-> Three, supersedes |-> seen, applied |-> applied]
        current == Gr!CurrentDecision(chain(None))
        end(id) == Dg!ResolveCurrent(Corrections, id, One)
        heads(id) == Dg!SupersessionHeads(Corrections, id)
        newer == [u \in 1..3 |-> LET over == SelectSeq(seen, LAMBDA e : e[2] = u)
                                 IN  [i \in DOMAIN over |-> <<i, over[i][1]>>]]
        loops(id) == id \in UNION {W!Balls(newer, {v}, 3)[3] : v \in W!Neighbours(newer, id)}
        score == Gr!ScoreSupersession([i \in 1..3 |-> chain(i)])
    IN  /\ current # Raised => score.rate = score.chance
        /\ \A id \in 1..3 :
             /\ end(id) # Raised => end(id) \in heads(id)
             /\ current # Raised /\ end(id) # Raised => end(id) = current /\ heads(id) = {current}
             /\ end(id) = Raised => \E n \in W!Balls(newer, {id}, 3)[3] : loops(n)
             /\ heads(id) = {} => end(id) = Raised

\* metrics/*.py: no grade depends on what it must not, and none can be had by
\* copying, by writing around it, by leaving tests out or by trying on.
GradingSound ==
  EditsSound /\ RepliesSound /\ AnswersSound /\ ResolutionSound /\ AttemptsSound /\ CorrectionsAgree

-----------------------------------------------------------------------------
(* Tasks: as many observations as the chain is deep.                       *)

TaskOK(task, hops, direction) ==
  LET items == task.corpus
      item(id) == CHOOSE x \in Range(items) : x.id = id
      ids == {x.id : x \in Range(items)}
      onto == [id \in ids |-> LET es == item(id).edges IN [i \in DOMAIN es |-> <<i, es[i][1]>>]]
      from == items[IF direction = "down" THEN 1 ELSE hops + 1].id
      to == items[IF direction = "down" THEN hops + 1 ELSE 1].id
      ball == W!Balls(onto, {from}, hops)
  IN  /\ task # Raised
      /\ \A x \in Range(items) : \A e \in Range(x.edges) : e[1] \in ids \ {x.id}
      /\ to \in ball[hops] /\ (hops > 0 => to \notin ball[hops - 1])
      /\ direction = "down" => /\ task.governing = to
                               /\ \A i, j \in 1..(hops + 1) : i < j /\ items[i].area = items[j].area =>
                                    items[i].words >= items[j].words
      \* No link leads from one chain into another.
      /\ Cardinality(ball[hops]) = hops + 1

Depth == Len(seen)

\* A conversation is lines said and lines cited by the questions about it; a
\* line's last number also stands for how many sentences its paragraph has.
Said == LET said == Given(LAMBDA x : x.kind = "said") IN [i \in DOMAIN said |-> said[i].line]
Cited == LET cited == Given(LAMBDA x : x.kind = "cited") IN [i \in DOMAIN cited |-> cited[i].line]

Keys(tasks) == {t.id : t \in Range(tasks)}
Cites(task, gold) == IsOrderOf(task.governing, gold)
Locomo(said, cited) ==
  <<[id |-> 1, conversation |-> [s \in {Head(l) : l \in Range(said)} |-> SelectSeq(said, LAMBDA l : Head(l) = s)],
     qa |-> <<[category |-> 5, evidence |-> cited], [category |-> 1, evidence |-> <<>>],
              [category |-> 2, evidence |-> cited]>>]>>

\* A question loads exactly when all it cites was said, once and legibly; it is
\* as deep as the two of its lines furthest apart are, and the lines keep their order.
LocomoSound(said, cited, tasks, keys) ==
  /\ tasks = Raised <=> cited # <<>> /\ \/ ~(Range(cited) \subseteq Range(said))
                                        \/ ~IsInjective(said)
                                        \/ \E l \in Range(cited) : Len(l) = 1
  /\ tasks # Raised =>
       /\ Keys(tasks) = keys
       /\ \A t \in Range(tasks) :
            LET pairs == {Da!LoadLocomoTasks(Locomo(said, <<c, d>>), None)[1].depth : c, d \in Range(cited)}
                ids == [i \in DOMAIN t.corpus |-> t.corpus[i].id]
            IN  /\ Cites(t, Range(cited)) /\ IsOrderOf(ids, Range(said)) /\ t.depth = Max(pairs)
                /\ t.depth >= Cardinality({Head(l) : l \in Range(cited)})
                /\ \A i, j \in DOMAIN ids : i < j =>
                     \/ Head(ids[i]) < Head(ids[j])
                     \/ Head(ids[i]) = Head(ids[j]) /\ Before(said, ids[i], ids[j])

\* The same lines as paragraphs: as many hops as paragraphs, and never more than
\* the sessions they span.
HotpotqaSound(said, cited, records, locomo) ==
  LET tasks == Da!LoadHotpotqaTasks(records, None)
  IN  /\ tasks # Raised =>
           /\ IsInjective([i \in DOMAIN said |-> Head(said[i])]) /\ Keys(tasks) = Da!HotpotqaGoldAnswers(records)
           /\ Cites(tasks[1], Range(records[1].supporting))
           /\ Range(tasks[1].governing) \subseteq Da!Ids(tasks[1].corpus)
           /\ tasks[1].depth = Max({1, Cardinality({item.area : item \in
                {x \in Range(tasks[1].corpus) : Contains(tasks[1].governing, x.id)}})})
           /\ cited # <<>> /\ locomo # Raised => tasks[1].depth <= locomo[1].depth
      /\ tasks = Raised <=> \/ ~IsInjective([i \in DOMAIN said |-> Head(said[i])])
                            \/ \E f \in Range(records[1].supporting) :
                                 \A i \in DOMAIN said : Head(said[i]) # f[1] \/ Last(said[i]) <= f[2]
      /\ Da!LoadHotpotqaTasks(records, {"hard"}) = <<>> /\ Da!LoadHotpotqaTasks(records, {"deep"}) = Raised

\* The same sessions: what was said earlier is recalled from further, and one
\* more session puts everything one further away.
DmrSound(examples, longer) ==
  LET tasks == Da!LoadDmrTasks(examples)
      later == Da!LoadDmrTasks(longer)
  IN  tasks # Raised =>
        /\ Keys(tasks) = Da!DmrGoldAnswers(examples)
        /\ \A i, j \in DOMAIN tasks :
             /\ tasks[i].governing[1] \in Da!Ids(tasks[i].corpus)
             /\ tasks[i].depth < tasks[j].depth <=>
                  Before(examples[i].sessions, examples[j].gold, examples[i].gold)
             /\ later[i].depth = tasks[i].depth + 1 /\ later[i].depth <= Len(later[i].corpus)

\* Asking for one kind of question changes none of the tasks, and adds none.
LongmemevalSound(questions, tasks) ==
  /\ tasks # Raised =>
       /\ Keys(tasks) = Da!LongmemevalGoldAnswers(questions)
       /\ \A type \in Da!ALLOWED_QUESTION_TYPES :
            Da!LoadLongmemevalTasks(questions, {type}) =
              SelectSeq(tasks, LAMBDA t : \E q \in Range(questions) : q.type = type /\ t.id[2] = q.id)
  /\ Da!LoadLongmemevalTasks(questions, {"single-session"}) = Raised

Examples(sessions, golds) == [i \in DOMAIN golds |-> [id |-> i, gold |-> golds[i], sessions |-> sessions]]
ConversationsSound ==
  About("conversations") =>
    LET sessions == [i \in DOMAIN Said |-> Head(Said[i])]
        golds == [i \in DOMAIN Cited |-> Head(Cited[i])]
        questions == [i \in DOMAIN golds |->
                        [id |-> i, sessions |-> sessions, gold |-> golds, depth |-> i,
                         type |-> IF golds[i] = 1 THEN "temporal-reasoning"
                                  ELSE IF golds[i] = 2 THEN "knowledge-update" ELSE "multi-session"]]
        locomo == Da!LoadLocomoTasks(Locomo(Said, Cited), None)
        records == <<[id |-> 1, level |-> "easy",
                      supporting |-> [i \in DOMAIN Cited |-> <<Head(Cited[i]), Last(Cited[i]) - 1>>],
                      context |-> [i \in DOMAIN Said |-> [title |-> Head(Said[i]), sentences |-> Last(Said[i])]]]>>
    IN  /\ LocomoSound(Said, Cited, locomo, Da!LocomoGoldAnswers(Locomo(Said, Cited)))
        /\ locomo # Raised => /\ Da!LoadLocomoTasks(Locomo(Said, Cited), {2}) = locomo
                              /\ Da!LoadLocomoTasks(Locomo(Said, Cited), {1, 5}) = <<>>
        /\ HotpotqaSound(Said, Cited, records, locomo)
        /\ DmrSound(Examples(sessions, golds), Examples(Append(sessions, 0), golds))
        /\ Da!LoadDmrTasks(Examples(sessions, golds)) = Raised <=>
             golds # <<>> /\ (~IsInjective(sessions) \/ ~(Range(golds) \subseteq Range(sessions)))
        /\ LongmemevalSound(questions, Da!LoadLongmemevalTasks(questions, None))

\* An instance is of a definition in a repository, documented or not, and its
\* depth is certified; another benchmark's labels are not its own.
Labels(dataset) ==
  [i \in 1..(2 * Len(seen)) |-> IF i <= Len(seen) THEN [dataset |-> dataset, task |-> i, depth |-> seen[i].depth]
                                ELSE [dataset |-> "other", task |-> i - Len(seen), depth |-> 3]]
Instances == [i \in DOMAIN seen |-> [id |-> i, repo |-> seen[i].repo, name |-> seen[i].name, doc |-> seen[i].doc]]
Definitions == Da!Distinct([i \in DOMAIN seen |-> seen[i].name])
Gotchas == [i \in DOMAIN seen |-> [id |-> i, gotchas |-> [j \in 1..i |-> seen[j].name]]]

SpecAt(depth) == IF depth = 1 THEN "full" ELSE "stripped"

\* A task is loaded to no depth it is not certified for, what governs it is in
\* its corpus and in the query only when nothing is stripped, and every link of
\* the corpus leads somewhere in it.
LoadedSound(tasks, depth, number(_)) ==
  /\ {number(t) : t \in Range(tasks)} = {i \in DOMAIN seen : seen[i].depth >= depth}
  /\ \A t \in Range(tasks) :
       /\ Range(t.governing) \subseteq Da!Ids(t.corpus) /\ IsInjective(t.governing)
       /\ t.stated = IF depth = 1 THEN t.governing ELSE <<>>
       /\ \A item \in Range(t.corpus) : \A e \in Range(item.edges) : depth = 3 /\ e[1] \in Da!Ids(t.corpus) \ {item.id}

\* Asking for some tasks changes nothing about them, the corpus included.
LoadingCommutes(load(_), number(_)) ==
  \A some \in SUBSET DOMAIN seen : load(some) = SelectSeq(load(None), LAMBDA t : number(t) \in some)

InstancesSound ==
  About("instances") =>
    /\ \A d \in 1..3 :
         LET swe(ids) == Da!LoadSwebenchTasks(Instances, Labels("swebench"), SpecAt(d), d, ids)
             dc(ids) == Da!LoadDcbenchTasks(Definitions, Gotchas, Labels("dcbench"), SpecAt(d), d, ids)
         IN  /\ LoadedSound(swe(None), d, LAMBDA t : t.id) /\ LoadingCommutes(swe, LAMBDA t : t.id)
             /\ LoadedSound(dc(None), d, LAMBDA t : t.id[2]) /\ LoadingCommutes(dc, LAMBDA t : t.id[2])
             /\ \A t \in Range(swe(None)) : \A item \in Range(t.corpus) : item.area = seen[t.id].repo
    /\ \A spec \in {"full", "stripped"} : \A d \in 0..4 : spec # SpecAt(d) \/ d \notin 1..3 =>
         /\ Da!LoadSwebenchTasks(Instances, Labels("swebench"), spec, d, None) = Raised
         /\ Da!LoadDcbenchTasks(Definitions, Gotchas, Labels("dcbench"), spec, d, None) = Raised

\* datasets/*.py, however the shuffles fall: a task is well formed, its decision is exactly as
\* many typed hops away as it says and never likelier to be found by the words
\* of the query than what leads there from its own area; a scattered chain leaves its area; the
\* newest of a chain of corrections is the one in force.
GeneratedSound ==
  About("tasks") => \A stray \in 0..1 :
    /\ \A t \in Da!LoadSyntheticTasks(Depth, 1, stray) : TaskOK(t, Depth, "down")
    /\ \A t \in Da!GenerateDepthChainTasks(Depth, 1, stray) : TaskOK(t, Depth, "down")
    /\ \A scatter \in 0..2 : \A t \in Da!GenerateScatterTasks(Depth, scatter, 1, stray) :
         /\ TaskOK(t, Depth, "down")
         /\ Cardinality({t.corpus[i].area : i \in 1..(Depth + 1)}) = Min({scatter, Depth}) + 1
    /\ \A t \in Da!GenerateSupersessionTasks(Depth, 2, stray) :
         LET versions == [i \in 1..Depth |-> t.corpus[i].id]
             c == Gr!CaseFromItems(SubSeq(t.corpus, 1, Depth), t.governing, "supersedes")
             g == Dg!AddSupersessionChain([nodes |-> Range(versions), edges |-> <<>>], One, versions)
         IN  /\ TaskOK(t, Depth - 1, "up")
             /\ Gr!Current(c) /\ Dg!ResolveCurrent(g, versions[1], One) = t.governing
    /\ \E t \in Da!GenerateDepthChainTasks(Depth, 1, stray) :
         LET g == [i \in {x.id : x \in Range(t.corpus)} |->
                     LET es == (CHOOSE x \in Range(t.corpus) : x.id = i).edges
                     IN  [k \in DOMAIN es |-> <<k, es[k][1]>>]]
             walk == W!WalkOrder(g, <<t.corpus[1].id>>, W!Clamp(Depth))
         IN  t.governing \in Range(walk) <=> Depth <= W!MAX_HOPS_LIMIT

\* datasets/*.py: what is generated is as deep as it says, and what is loaded
\* is all there, as deep as the place of its evidence makes it, and the same
\* whatever else is asked for.
DatasetsSound == GeneratedSound /\ ConversationsSound /\ InstancesSound

-----------------------------------------------------------------------------
(* Tables                                                                  *)

\* Every row of the kind a table is of is in one of its cells, once.
Complete(table, rows, Key(_), Value(_)) ==
  Total([i \in DOMAIN rows |-> Value(rows[i])]) =
    Total([k \in 1..Cardinality(DOMAIN table) |->
             LET key == SetToSeq(DOMAIN table)[k]
             IN  Times(table[key], Whole(Len(SelectSeq(rows, LAMBDA r : Key(r) = key))))])

Cell(r) == <<r.arm, r.depth>>
Compliance(r) == r.compliance
Claudes(rows) == SelectSeq(rows, LAMBDA r : r.model \in Claude)
Counted(rows) == SelectSeq(rows, LAMBDA r : r.model \in Claude /\ r.dataset \in Strippable)
OfArm(rows, a) == SelectSeq(rows, LAMBDA r : r.arm = a)

TablesComplete(rows) ==
  /\ Complete(Ta!DepthCrossoverTable(rows), Counted(rows), Cell, LAMBDA r : Ta!Indicator(r.chain))
  /\ Complete(Ta!CompetitorMatrix(rows, <<>>).measured, rows, LAMBDA r : r.arm, Compliance)
  /\ Complete(Ta!HeadlineTable(rows), Claudes(rows), LAMBDA r : <<r.dataset, r.arm>>, Compliance)
  /\ Complete(Ta!AblationTable(rows),
              SelectSeq(Claudes(rows), LAMBDA r : r.dataset \in AblationDatasets /\ Cell(r) \in DOMAIN AblationCells),
              LAMBDA r : AblationCells[Cell(r)], Compliance)
  /\ \A a \in Range(ArmNames) :
       Complete(Ta!RobustnessTable(rows, a), OfArm(rows, a), LAMBDA r : <<r.dataset, r.model>>, Compliance)

SplitHolds(split, depths, allCounted) ==
  \A k \in DOMAIN split :
    /\ split[k].kappa # None => split[k].pComply = split[k].observed
    /\ allCounted => Leq(depths[k], split[k].pRet)

\* Against one task, some arm has no regret and none more than having no memory.
RegretOnOneTask(regret) ==
  /\ \E a \in DOMAIN regret : regret[a].regret = Zero
  /\ \A a \in DOMAIN regret : "none" \in DOMAIN regret /\ regret["none"].regret # Zero =>
       Leq(regret[a].regret, regret["none"].regret)
RegretHolds(regret, rows) ==
  IF IsInjective([i \in DOMAIN rows |-> <<Ta!DefaultTaskKey(rows[i]), rows[i].arm>>])
  THEN /\ \A a \in DOMAIN regret : Leq(Zero, regret[a].regret) /\ Leq(regret[a].regret, One)
       /\ Cardinality({Ta!DefaultTaskKey(r) : r \in Range(rows)}) = 1 => RegretOnOneTask(regret)
  ELSE regret = Raised

AreaOf(curve) == IF Len(curve.depths) = 1 THEN curve.values[1] ELSE Tr!AreaUnderDepthCurve(curve, FALSE)
CurveOf(its) == Tr!DepthValueCurve([i \in DOMAIN its |-> <<its[i].depth, Ta!Indicator(its[i].chain)>>])

ReportHolds(report, depths, others) ==
  report # Raised /\ (\A a \in others : <<a, report.deepest>> \in DOMAIN depths) =>
    \A a \in others : Leq(depths[a, report.deepest], report.best.value)

DepthsHold(depths, rows) ==
  /\ SplitHolds(Ta!FactorizeRows(rows), depths, Counted(rows) = rows)
  /\ ReportHolds(Ta!GenerateReport(rows), depths, {k[1] : k \in DOMAIN depths} \ (BriefArms \cup {"none"}))

RowsHold(rows) ==
  /\ TablesComplete(rows)
  /\ DepthsHold(Ta!DepthCrossoverTable(rows), rows)
  /\ RegretHolds(Ta!RegretByArm(rows, "none"), rows)
  /\ (Ta!GenerateReport(rows) = Raised) = (Counted(rows) = <<>>)
  /\ \E p \in Range(Ta!ParetoFrontier(Ta!FromScoredRows(rows))) :
       p.accuracy = Highest({r.compliance : r \in Range(rows)})
  /\ Ta!FrontierCommand(rows).audc = [a \in {r.arm : r \in Range(rows)} |-> AreaOf(CurveOf(OfArm(rows, a)))]

\* Rows of records: recovering and complying multiply up to what was seen
\* unless nothing was retrieved, a whole chain is wholly recalled, regret is
\* relative to the best and to none of memory on the same task, two answers of
\* an arm to one task are refused, and the command's areas are the metric's.
RowsSound == About("records") => RowsHold(Ta!ScoreRecords(seen, Tasks))

\* Three computations of one frontier agree, every point is behind some point
\* of it, and its volume is the area its points dominate together.
FrontierSound ==
  About("points") =>
    LET front == Ta!ParetoFrontier(seen)
        pairs == [i \in DOMAIN seen |-> <<seen[i].accuracy, seen[i].cost>>]
        indexes == Ta!FrontierIndexes(pairs)
        arms == Ta!FrontierArms(Positions, seen)
        worst == [accuracy |-> Zero, cost |-> Whole(3)]
        dominated == {s \in (0..2) \X (0..2) :
                        \E p \in Range(seen) : Less(Whole(s[1]), p.accuracy) /\ Leq(p.cost, Whole(s[2]))}
    IN  /\ front = [i \in DOMAIN indexes |-> seen[indexes[i]]]
        /\ Range(arms) = Range(indexes) /\ IsInjective(arms)
        /\ \A i, j \in DOMAIN arms : i < j =>
             Leq(seen[arms[i]].cost, seen[arms[j]].cost) /\ Leq(seen[arms[i]].accuracy, seen[arms[j]].accuracy)
        /\ \A p \in Range(Ta!DominatedSet(seen)) : \E q \in Range(front) : Ta!Dominates(q, p)
        /\ Ta!Hypervolume(seen, worst) = Whole(Cardinality(dominated))

\* The Java reference's walk is the query's, and both are the shortest way along
\* the links they trust.
WalkAgrees ==
  About("links") =>
    LET edge(e) == [source |-> e.source, target |-> e.target, type |-> "constrains",
                    confidence |-> Frac(e.weight, 2)]
        g == Dg!AddEdges(ThreeNodes, [i \in DOMAIN seen |-> edge(seen[i])])
    IN  g # Raised => \A start \in 1..3, hops \in 0..3, trust \in {Zero, One} :
          LET walk == Dg!Traverse(g, start, hops, trust)
              rows == Dg!WalkRows(g, start, hops, trust)
              trusted == Out(SelectSeq(g.edges, LAMBDA e : Leq(trust, e.confidence)))
              ball == W!Balls(trusted, {start}, hops)
          IN  /\ walk.order = W!WalkOrder(trusted, <<start>>, hops)
              /\ DOMAIN walk.depth = {r[1] : r \in rows}
              /\ \A n \in DOMAIN walk.depth :
                   /\ walk.depth[n] = Min({h \in 0..hops : n \in ball[h]})
                   /\ walk.depth[n] = Min({r[2] : r \in {x \in rows : x[1] = n}})

\* analysis/*.py, metrics/*.py, cli.py and the references: numbers that are
\* computed in more than one place are the same numbers.
TablesSound == RowsSound /\ FrontierSound /\ WalkAgrees
=============================================================================
