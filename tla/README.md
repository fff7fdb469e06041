# A verification project for BriefBench (Depth-not-Length)

TLA+ modules that model the stateful and concurrent parts of the repository and
the combinatorial algorithms of its rankings, metrics, statistics and theory, TLC
configurations that check them on small instances, and theorems about them
proved with TLAPS for every value of the constants.

1. [The system](#1-the-system)
2. [Modules and the code they model](#2-modules-and-the-code-they-model)
3. [Runs, bounds and what they show](#3-runs-bounds-and-what-they-show)
4. [Fairness](#4-fairness)
5. [Proofs](#5-proofs)
6. [Where the code and its documentation disagree](#6-where-the-code-and-its-documentation-disagree)
7. [What is not modelled, and the plan](#7-what-is-not-modelled-and-the-plan)
8. [Conventions](#8-conventions)

## 1. The system

BriefBench (the Python package `membench`, under `src/src/membench`) compares
*memory arms*. An arm is given a corpus of items (`write`), answers a query with
as much context as fits a token budget (`retrieve`), and a model's answer on
that context is scored. The harness runs every arm on every task of a dataset,
the sweeps run the harness over datasets, arms and models, and the analysis reads
the rows they leave. Around the package stand a Go orchestrator that starts one
benchmark process per dataset and seed, a Go simulation of the paper's depth
model, native kernels, and reference implementations in Java, C#, R and SQL.

### Inventory

| Component | State it keeps | Operations | Hard part | What makes it correct |
|---|---|---|---|---|
| Memory arms (`retrieval/base.py`, `controls.py`, `bm25.py`, ..) | the items written so far; for some a generator or a graph | `write`, `retrieve` | `retrieve` of some arms changes the arm | an arm answers from everything written, in the ranking's order, within the budget |
| Retrieval cache (`retrieval/cache.py`) | an ordered mapping of answers, the digest of the last corpus, counters, the wrapped arm | `write`, `retrieve` | stale entries; eviction order; the arm raising in the middle | an answer is the arm's own; the resident keys are the most recently served |
| Typed graph (`retrieval/graph/store.py`) | nodes, an edge list, two adjacency indices of list positions | `add_node`, `add_edge`, `prune_edges` | a prune renumbers the list the indices point into; its callback may raise | indices exact, no dangling edge |
| Traversal (`retrieval/graph/traversal.py`) | a queue, depths, the order of discovery, the links followed | `traverse` | cycles, the hop clamp, the node budget hit half way | each node once, nearest first, at its shortest depth; truncation reported exactly |
| Graph arm and decay (`retrieval/graph/arm.py`, `decay.py`) | items, graph, clock, usage of every link | `write`, `retrieve` with its decay pass | answers must not change under a decay that runs inside `retrieve` | unused links fade, used links stay, answers are stable |
| Runner and harness (`agents/runner.py`, `agents/combos.py`, `harness.py`) | the arm under test, the rows so far | `run_task`, `run_benchmark`, `run_sweep`, `run_from_config` | an exception in the middle of a cell; the same cell asked for twice; an arm instance shared between tasks | no corpus leaks from task to task; a cell is whole or absent |
| Parallel sweep (`analysis/sweep_parallel.py`) | the pool's futures, the rows in order | `run_sweep_parallel` | jobs finish in any order, raise, or die with their process | the rows and the exception of the serial loop |
| Orchestrator (`orchestrator/main.go`) | semaphore, wait group, results channel, one goroutine per shard, one output file per shard | one process run | closing a channel others send on; the order of deferred calls; a failed child among good ones | bounded concurrency, every shard reported once, the exit status, whole files |
| Depth simulation (`orchestrator/depthsim`) | partial counts of the workers | `SimulatePRet`, `EmpiricalCrossover` | a slice shared by goroutines; trials that do not divide evenly | the count does not depend on the number of workers |
| Sessions (`agents/session.py`, `agents/runner.py`) | a ledger of turns | `run_task` with its retry loop, `run_session` | stop at the first resolved turn or the cap; the arm, the client or the predicate raising half way | the ledger is contiguous, resolution absorbs, what was billed is what is recorded |
| Token economics (`analysis/token_economics.py`) | none: functions of session records | matchups, win rates, economics table | sessions that end in any order, a missing baseline, a layer without tokens | zero-sum and independent of the order |
| Commands (`cli.py`, `manifest.py`) | `rows.jsonl` and `manifest.json` in one directory | `sweep`, `sweep-config`, `frontier` | two files written one after the other, a kill in between | a manifest never certifies rows that are not there |
| Ranking and fusion arms (`retrieval/fusion.py`, `hybrid.py`, `mmr.py`, `ppr.py`, ..) | items; matrices built from them | score, fuse, rank, pack | ties, empty inputs, items without links, fixed points | best first within the budget; a fusion respects what all its parts agree on |
| Generated datasets (`datasets/*_synth.py`, `synthetic.py`, `depth_chain.py`) | none | generate | links, relations and areas indexed by hop | a task is as deep and as scattered as it says |
| Published datasets (`datasets/hotpotqa.py`, `locomo.py`, `dmr.py`, `longmemeval.py`, `dcbench.py`, `swebench.py`) | the files | load, strip, filter, gold answers | evidence that is missing or malformed, repeated ids, filters applied before or after the corpus is pooled | what a task cites is in its corpus; asking for fewer tasks changes none of them |
| Metrics (`metrics/`) | none | grade, judge, resolve, measure, frontier, regret | boundaries, repeated ids and words, branched corrections | each computes its definition; two that measure one thing agree |
| Statistics (`stats/`) | none; the sequential test looks again after every answer | corrections, tests, fits, designs | ties and orders, peeking, pooling | the error rates and the optima they promise |
| Theory (`theory/`) | none | recovery, crossover, composition, scatter | floors and clamps of closed forms | closed form and scan agree |
| References (Java, C#, R, SQL) and native kernels | none, or a graph | the same algorithms | drift from the Python code | they compute what it computes |
| Configuration, model clients, external arms, dashboard, legacy | files and constants | load, parse, call, print | | |

### How the parts interact

`run_sweep_parallel` and the orchestrator start independent processes; each
process calls `run_benchmark`. `run_benchmark` builds an arm per task
(`build_system`), and `run_task` calls its `write` and then its `retrieve`. The
cache wraps any arm and forwards both calls. The graph arm owns a typed graph,
walks it with `traverse`, and lets the decay pass call `prune_edges` on it.
Everything after the rows (metrics, statistics, tables) reads them only.

## 2. Modules and the code they model

State machines, each with the code's own steps:

| Module | Code | State and actions |
|---|---|---|
| `ArmModel` | what the arms' `retrieve` may depend on | operators: a deterministic arm's answer as what it depends on; `random_context`'s as the order its generator (`Generators`, `Seed`, `Shuffle`) puts the items in, packed; which arms change when they answer (`random_context`), refuse a second write of an id (`brief_graph`) or raise (`pack_to_budget` on a negative budget) |
| `MemoryArm` | `MemorySystem` as its caller sees it | the **abstract** arm: `Write`, `Retrieve`; what the cache has to implement |
| `RetrievalCache` | `CachingMemorySystem` | the ordered dictionary as a mapping and a key order; `Write`, `WriteRaises`, `Hit`, `Miss`, `MissRaises`. History variables follow an arm without a cache |
| `TypedGraph` | `TypedGraph` | the edge list and both indices; `AddNode`, `AddEdge`, and `prune_edges` step by step: `Prune`, `Keep`, `Drop`, `KeepRaises`, `Rebuild`, `Restore`, `PruneDone` |
| `GraphWalk` | `neighbors`, and what `traverse` computes | operators: the balls, order, depths and link usage of a breadth-first walk by definition |
| `Traversal` | the loop of `traverse` | one step per seed, per node taken from the queue and per neighbour: `Seed`, `Pop`, `Follow`, `Expanded` |
| `GraphArm` | `BriefGraphMemory` with `apply_decay` | `Write` (raising half way, at an id the graph has or, with all nodes and some links in, at an entry whose relation is no type) and `Retrieve` (walk, usage, decay, prune). It uses the walk of `GraphWalk`, which the run of `Traversal` shows is what the loop computes |
| `Benchmark` | `run_benchmark`, its single-attempt `run_task`, `build_system` | `Begin`, `Build`, `Write`, `Retrieve`, `Attempt`; each may raise |
| `Sweeps` | `run_sweep`, `run_from_config` | extends `Benchmark`: a plan of calls, the rows they leave, `Skip`, `Abort`, `Return` |
| `Commands` | the commands `sweep` and `sweep-config` | extends `Sweeps`: after a sweep `OpenRows`, `WriteRow`, `CloseRows`, `OpenManifest`, `WriteManifest`, and `Killed` at any of these; then another command over the same files |
| `SerialSweep` | `run_benchmark`'s loop as the parallel sweep's documentation promises it | the **abstract** sweep: `Run`, `Return`, `Raise`, and the process being killed |
| `SweepParallel` | `run_sweep_parallel` and its executor | the caller's steps, the workers' `Take` and `Finish`, and `Die`; a raise cancels what the executor has not yet put in the workers' queue |
| `Orchestrator` | `main.go`, with `save_rows` as what a child does to its file | main, the closer and one goroutine per shard, one action per step of each |
| `DepthSim` | `depthsim/sim.go` | the caller's loop over depths and arms, and the goroutines of one estimate |
| `AgentSession` | `run_task` with both retry policies, `run_session`, the ledger's columns | one step per write, retrieve, model call and turn; the arm, the client and the predicate may raise at each (`Break`) |
| `Tournament` | `analysis/token_economics.py`, and the sweep that collects sessions | operators over a sequence of session records; extends `AgentSession`: `Collect`, `NextCall`, in any order; the tournament over what has been collected |

Pure code. These modules are operators that compute what a function computes, its
early returns and refusals included (`Raised` stands for a raised `ValueError`,
`None` for `None` or NaN):

| Module | Code |
|---|---|
| `Fractions` | exact fractions for the code's floats |
| `RecoveryTheory` | `theory/`: recovery, crossover scan and bracket, composition, scatter, supersession, token costs, sensitivity |
| `JavaReference` | the Java ports of the crossover, of the decision graph and of its packing; two recursive queries of `schema/graph.sql` |
| `Inference` | `stats/multiple_comparisons.py`, `fdr_extra.py`, `sequential.py`, `conformal.py`, `exact.py`, the pairing of `hypothesis.py`, `bayes.py` |
| `Trends` | `stats/isotonic.py`, `changepoint.py`, `quantile_regression.py`, `analysis/effect_curves.py`, `metrics/area_under_depth.py` |
| `Factorial` | `stats/aligned_rank_transform.py`, `effect_size.py`, `dominance.py`, `meta_analysis.py` |
| `Agreement` | `metrics/agreement.py`, `calibration.py`, `brier.py`, `datasets/depth_labeling.py` |
| `Ranking` | `retrieval/base.py` (packing), fusion, hybrid, reranking, MMR, RAPTOR's descent, PageRank, spreading activation; `metrics/retrieval.py`, `ir_extra.py` |
| `Grading` | `metrics/compliance.py`, `correctness.py`, `judge.py`, `answer_scoring.py`, `resolution.py`, `supersession.py`, `cost.py` |
| `Datasets` | the four task generators, the six loaders of published datasets from their parsed records on, and what `Task` accepts |
| `Tables` | `analysis/tables.py`, `report.py`, `competitors.py`, `metrics/factorization.py`, `regret.py`, `pareto.py`, the second and third frontier of `stats/dominance.py` and `cli.py` |

`Study` feeds them: it picks a *subject* (p-values, a ranking, a set of records, ..)
and lets observations of it arrive one by one from a small alphabet. `Study`
(theory and statistics) and `Evaluation`, which extends it (rankings, grades,
tasks, tables), state what must hold of everything computed on whatever has arrived, so that a run
covers every sequence over the alphabet up to a length, in every order, and a
property can relate a sample to the same sample with one more observation.

The `MC*` modules give the constants their small values, and the `*_proofs`
modules hold the theorems. The executor of the standard library, the Go runtime
and the operating system are modelled from how the code uses them.

## 3. Runs, bounds and what they show

| Run | Instance | Distinct states | Shows |
|---|---|---|---|
| `cache_over_bm25` | capacity 2, two writes of two items, one of them in two versions, four requests, five calls, over an arm that accepts every write, one that refuses rewrites and one that shuffles | 28 918 | over an arm whose `retrieve` is pure, entries are its current answers and the cache implements the bare arm; the resident keys are the two most recently served, through writes that raise half way |
| `cache_over_random` | over `random_context` alone, its generator `random.Random(0)` | finds a violation | section 6 |
| `graph_store` | two nodes, two types, three edges | 11 277 | the indices are exact in every state, in the middle of a rebuild and after a callback that raised |
| `walk` | every multigraph of up to two edges over four nodes, every forward one of three or four, several seed lists, with a budget that binds and one that does not | 205 728 | the loop computes the breadth-first walk; under a budget it stays nearest-first and says when it left something out; it returns |
| `graph_arm_decay` | five corpora, one with an id twice and one with a relation that is no type, two queries, four items, four ticks, one and two ticks of grace | 49 759 | a decay pass never changes an answer already given; unused links fade on schedule; used ones stay; a second write reaches nothing |
| `graph_arm_default` | the default policy | finds a violation | section 6 |
| `sweeps` | two commands over two datasets of two tasks; a registry arm, a ready instance, a factory that fails now and then, one not installed; models with and without a backend; killed at any time | 57 118 | no corpus leaks, cells are whole, everything that can run is in the rows, and the two files never disagree in the direction that matters |
| `sweep_parallel` | five jobs, one of them twice, three workers, any set of jobs raising, a worker dying at any time, and any of the queued jobs too late to cancel | 16 857 | the serial loop's rows and exception; no job twice or left over; the call ends |
| `orchestrator` | three shards, two workers, any child failing | 37 169 | bounded concurrency, no send on a closed channel, every shard reported, the exit status, whole files, and the sweep ends |
| `depth_sim` | two depths, five trials, two goroutines with uneven stripes, any outcome of the structured arm's trials | 103 168 | exact estimates, no read before the last write, the first strict lead, and it returns |
| `sessions` | two layers and the store over two tasks, retrying task runs with and without a predicate, caps of zero and below one, any answers, anyone raising | 554 240 | the ledger says what was billed and stops where it should; the tournament over any set of ended sessions is zero-sum, independent of their order and consistent with the economics table; the sweep ends |
| `study` | 29 subjects, two to eight observations each | 31 160 | the eight properties below |

The properties of `study`, each with the subjects it speaks about:

| Property | Subjects | Among what it says |
|---|---|---|
| `TheoryHolds` | models of recovery, one more depth at a time | the closed-form bracket contains the scanned crossover and is exact without overhead; paths compose to the closed forms; slopes are differences; Java and Python agree |
| `TestsSound` | p-values, answers, pairs, residuals | each correction rejects what its step-wise rule rejects, whatever order `argsort` returns ties in, and the families nest; the betting test's chance of ever rejecting a true null is at most alpha; two exact paired tests agree; conformal intervals cover |
| `EstimatesSound` | curves, samples, studies, designs, raters, labels, forecasts | the monotone fit is monotone and no monotone fit is closer; aligning for an effect keeps that effect and strips the others; coefficients of agreement ignore missing ratings; two modules bin alike |
| `Settled` | answers | an action property: looking on never takes a rejection back, moves a stopping time or widens a running interval |
| `RankingSound` | packings, fusions, MMR, trees, links, rankings | the pack is a prefix that fits and stops at the first that does not; a fusion keeps what its parts agree on; PageRank is a distribution at every iteration; spreading reaches exactly what links reach; measures agree where their definitions do |
| `GradingSound` | edits, replies, questions, tests, attempts, corrections | the judge with its guard honors nothing that the rule does not; quoting a decision is not enforcing it; a malformed reply grants nothing; four treatments of a chain of corrections agree where it has one head |
| `DatasetsSound` | tasks, conversations, instances | a generated task has exactly the hops, links, relations, areas and head it declares, whatever the shuffles; a conversation loads exactly when all that is cited was said, once and legibly, as deep as its evidence is apart; an instance is loaded to no depth past its label, with the same corpus whatever else is asked for |
| `TablesSound` | records, points, links | no row is lost or counted twice by any table; recovery is retrieval times compliance; regret refuses an ambiguous oracle; three frontiers are one; the Java walk and the query agree with `GraphWalk` |

Why these bounds are enough for the cases that matter: a capacity of two with
four requests has hits, misses, evictions of the middle and of the end; four
nodes are the smallest graph with two paths of different length to one node and
something beyond them, and three hops is the code's own limit; two workers are
the smallest number at which shards wait for each other, three shards the
smallest that make one wait; five trials over two goroutines give each more than
one and not the same number; five jobs on three workers leave jobs pending when one raises or dies; two
commands suffice for a file left by an earlier one; a cap of two turns is the
least at which a session can stop before its cap. In `study` the alphabets hold
the boundaries (0, a tie, one half, 1, the edge of a bin) and the lengths reach
the case that needs the most observations: three p-values for a step that skips
one, four answers for a test that crosses and comes back, four points for a
pooling that reaches past a finished block, eight for a full two-by-two design
with repetition. The theorems of section 5 lift the first part of these results
to any size.

Bounds that are the model's and not the code's: `MaxItems` (also the
longest list a `Shuffle` is given for), `MaxCalls`, `MaxTick`,
`MaxEdges`, `MaxCommands`, `Length`, `DepthBound` (above every crossover of the
models used). They only cut behaviours short. `CHECK_DEADLOCK FALSE` is set where they do (the cache, the graph arm, `study`) and where a
call or a sweep just returns (the walk, `sessions`); the other runs check
deadlock, with an explicit stuttering step once the program is over.

## 4. Fairness

* `SweepParallel`: weak fairness of the caller and of each worker process. They
  are scheduled by the operating system, and a job's run terminates. A worker's
  death is never forced.
* `Orchestrator`: weak fairness of main, of the closer and of each goroutine: the
  Go scheduler is preemptive and starves no runnable goroutine. A child process
  ends by itself or is killed; the program sets no timeout, so with a child
  that hangs for ever nothing is promised.
* `DepthSim`: weak fairness of the caller and of each goroutine.
* `Traversal`: weak fairness of its single sequential step.
* `Tournament`: weak fairness of the one thread's own steps (`Go`). A raise is
  possible at every call and never forced.

The other modules have safety properties only, and no fairness: a command may be
killed or never go on.

## 5. Proofs

| Module | Theorems | Argument |
|---|---|---|
| `RetrievalCache_proofs` (781 obligations) | `TypeCorrect`, `LruIsWindow`, `CoherentOverPureArm`, `CacheImplementsArm` | Any capacity, corpus and request set, any number of calls. The LRU property is not inductive alone: the strengthening says that the key order has no duplicate, has exactly the mapping's keys, and is the tail of the history of served keys. Coherence and the refinement are stated of arms whose `retrieve` is pure and whose `write` completes (`PureArm`), which the properties themselves say; without the first they are false (section 6) |
| `Traversal_proofs` (4153) | `WalkIsBreadthFirst`, `WalkFindsReach`, `WalkCountsUses`, `WalkInOrder` | Any graph, start list and bounds. `BreadthFirst` is inductive only with what the queue means: the node being expanded is the last one before the queue, depths never fall along the list, what is not a seed was met from a node taken out, and whatever has a depth `d > 0` was found when everything within `d - 1` hops was (`Distances`). `Closed` then says that nodes whose neighbours are all found make a ball. The usage follows from a bijection between the steps that followed an edge and the (node, place) pairs at which the edge was met (`Counted`). The order (`WalkInOrder`, all of `ComputesWalk`) needs the history of the list: how long it was after each node taken out had merged its neighbours into it (`Builds`). What a node at depth `d` adds lies at `d + 1`, so the nodes nearer than `h` are a beginning of the list, and the lengths lead from one beginning to the next (`CutNext`); a beginning gains from its own nodes exactly what `NextLayer` adds (`CutLayer`), because nodes expanded earlier lead only to what is already there |
| the same, the store | `StoreTypeCorrect`, `IndexExact`, `NothingDangles` | Any ids, types and length. Typing, no dangling edge and exact indices are inductive together: restoring an edge writes to both of its ends' lists, which exist because no survivor dangles. One lemma (`PositionsAppend`) says what appending the largest position does to an exact list, and serves both directions and both callers |
| `GraphArm_proofs` (2517) | `UnusedFades`, `BuiltOnce`, `AnswersStable` | Any corpora, seeds, policy and clock. `AnswersStable` (invariant `Sound`): whatever has been asked was answered through links that have all been walked (`Settled`), a walked link is never dropped, and an answer depends only on the links its walk follows, in their order. The last step needs that balls, walk order and decisions over the surviving links are those over all links (`SameBalls`, `SameWalk`, `WornAnswers`), although dropping links renumbers them. `UnusedFades` is by halving (`Fading`) and needs a positive restoring threshold: with zero every link counts as used |
| `Commands_proofs` (3041) | `NothingLeaks`, `OnlyWhatWasAsked`, `FilesVouch`, `CellsComeWhole`, `WhatRunsIsYielded` | Any requests, datasets, arms and models, any step raising, killed at any time. `Core` relates the call that runs, the arm under test and the rows made so far to the plan; `Files` says that no line of the rows is older than the manifest, and that a manifest of the current command finds all of that command's rows written; `Whole` that the rows are exactly those of the cells behind the place the sweep has reached. The last two theorems are stated of requests that name nothing twice (`DistinctRequests`): a config that lists a dataset, arm or model twice runs that cell twice |
| the same, the parallel sweep | `PoolTypeCorrect`, `NeverTwice`, `ParallelIsSerial` | Any jobs, raising jobs and number of workers. The invariant: the rows so far are those of a prefix of the jobs, a finished future tells how its job ended, the verdict is grounded in the job after that prefix. Every step of the sweep is then a step of `SerialSweep` or a stutter |
| `DepthSim_proofs` (829) | `Estimates`, `CrossoverIsFirstLead` | Any depth, number of trials and of goroutines, more goroutines than trials included. Each goroutine's count is that of the trials of its stripe below its counter; the stripes are disjoint and cover the trials (`DivMod`), so the sum of the partial counts is the number of all trials that survive |
| `Orchestrator_proofs` (1164) | `TypeCorrect`, `SlotsBound`, `SendsBeforeClose`, `ExitReportsAll`, `OkFilesWhole` | Any shards, workers (none included), rows and failing children. `wg` is the number of goroutines added and not ended, `sem` the number between acquiring and releasing; the counters' tests then give an empty set of unfinished goroutines when the closer runs. For the exit, the results printed and those in the channel are one for each goroutine that has sent, so at the exit the printed list is a bijection with the shards. Whole files are stated of distinct dataset names (`DistinctNames`; section 6 has what happens otherwise): shard numbers then divide into one dataset and one seed each, and no two children share a file |
| `Tournament_proofs` (6340) | `LedgersBalance`, `TournamentHolds` | Any sessions and task runs, caps, answers, prices and cost levels, anyone raising. The invariant (`Inv`) relates the call that runs to its requests, attempts and turns so far: what was billed and what is recorded are the same list, and no turn but the last may be good. A ledger's columns are then what their folds are after one more turn (`FoldExists`, `SumRuns`, `RunningGrow`), the remainder split off by `from_total` cancels, and the record is one `Session` accepts. For the tournament, the matchups are a list of exactly the cells that have an opponent, each once (`InOrderFacts`, `BuiltFacts`), which does not depend on the order of the sessions; every matchup is a win, a loss or a tie of one competitor (`TallySplits`), so the overall tally is the sum of the competitors' (`AdderExists`, `AdderCounts`). Two columns of the economics table are reciprocal because a fraction has one form in lowest terms (`GCDCommon`, `SameFraction`) |
| the same, the closed forms | lemmas for `TheoryIsSound` | What `Study_proofs` needs and only the fractions and `RecoveryTheory` are needed for: their order, their value in any terms (`Worth`), sums over a set taken by twos, powers (`Pw`, `PowerIs`), the bracket, paths, costs and chains |
| `Study_proofs` (4539) | `LookingOnIsSafe`, `BetsAreFair`, `PacksLongest`, `TheoryIsSound` | Any stream of answers, null means, level and confidence. The capital after more answers extends the path of capitals before (`CapitalIs`, `PathStays`), so its first crossing stays the first; a mean once refuted in the grid stays refuted (`RefutedStays`, `KeptStays`), so the ends of what is kept only move inwards (`EndsAre`, `EndsMeet`), an empty set included. Ville's inequality follows the capital until it crosses and then leaves it alone (`Follows`): over all streams of a length, weighed by their chances, what is left alone is on average what there was at the start (`AlwaysAverages`), by pairing the two streams that one more answer makes of each (`SumByTwos`, `FairBet`), and every rejecting stream holds at least one over alpha of it (`RejectedCrossed`, `SumsCompare`). Packing, for any ranking, counts of tokens and budget: after any items the pack is the longest start of them that fits (`PacksFirst`), and the Java reference's, which skips, begins with it (`JavaPacksFirst`). The theory, for any model and depth: every probability is written over whole numbers (`Terms`), a power of it over their powers. Links beat similarity at a depth exactly where a square lies behind another (`AheadIs`, `WinsAhead`), which, once so, stays so as similarity decays (`StaysAhead`); the lower end of the bracket is therefore the least such depth (`LowerIs`), the scan cannot find an earlier one, and finds that one when nothing is charged for a link (`BracketContains`, `ExactWithoutOverhead`). A deeper scan keeps what a shorter one found (`FoundDeeper`), products over a path are taken hop by hop (`ProductRuns`), and the Java scan's marks are, after each depth, the peak, the first and the last win so far (`MarksMove`, `ScansAgree`) |

The assumptions are the named `ASSUME`s of the modules, which every run
evaluates, and each only says what the code's callers already ensure: a positive
capacity and a positive node budget (the constructors refuse others), a positive
number of worker processes, lists that are sequences, graphs whose edges end in
their nodes, datasets with at least one task, arms of one of three kinds, trials
drawn from those there are, whole numbers of tokens and prices, levels and means
that are fractions (between nought and one where the code checks it), answers of
nought or one, models of recovery that `RecoveryModel` accepts
and whose overtaking depth `DepthBound` exceeds (the bound caps a logarithm that
the code computes in one go; it exists for every decaying model), and a mark for a
raise that is no value the function returns. Where a theorem needs more (`DistinctRequests`,
`DistinctNames`, `RestoreThreshold > 0`), the hypothesis stands in the theorem and
not in the module.

What recursion computes is proved by well-foundedness stated of sets of numbers
(`Least`, `Induction`), since the library's induction rules take an operator: a
lemma shows that each recursive function exists (`BallsExist`, `WalkExists`,
`FlatExists`) and what it is at the next argument, and the rest is ordinary
reasoning. The folds of the community modules are such functions too, chosen
inside an operator: `FoldExists` (a list from the left) and `AdderExists` (a sum
over a set) say for the function folded here what it is, and how it grows by one
element. What every user needs of them, of `GCD` and of lowest terms is proved in
`Tournament_proofs`, which `Study_proofs` extends; the lemmas about lists that
`Traversal_proofs` and `GraphArm_proofs` both need are proved in each.
`GraphArm` takes a walk's result from the operators of `GraphWalk`; `WalkFindsReach`,
`WalkCountsUses` and `WalkInOrder` say that the loop `Traversal` models computes
exactly those, whenever the budget does not bind.

Proving corrected two properties that every run had passed. With a cap below zero
`run_task` makes no attempt and not a negative number of them, so that the bound in
`CallsAccounted` is `Max({0, cap})`; and `build_matchups` refuses two sessions of
one cell, which `TournamentBalances` had to name beside a missing baseline. The
matchups are put in order by `InOrder`, which says what Python's `sort` on the
three keys returns, where a community operator had an implementation of a sort.

Only model-checked: every liveness property (the prover has neither fairness nor
`ENABLED`), and, of `Study` and `Evaluation`, all but `Settled`, `TheoryHolds`, the
conjunct `BetsFair` of `TestsSound` and the conjuncts of `PackingSound` that hold of
any order. The others compare dozens of pure functions with their definitions over
folds and sorts of the library, each of which would need lemmas of its own like
those of `RejectionChance`; some (`CertifyDepths`) range over every function from
a set, where the run's exhaustive small instance says more.

## 6. Where the code and its documentation disagree

Two runs end in a violation, each of a sentence the repository says of itself:

* `cache_over_random`: a cached answer is returned without asking the arm, so an
  arm whose `retrieve` advances its own state can answer differently with a cache
  and without, against cache.py:7 ("byte-for-byte the value the wrapped arm would
  have returned"). `Shuffle` is in that run what `random.Random(0)`, the arm's
  default, does with two items: of its first shuffles the third alone swaps them.
  So with items a and b written, a retrieve that raises (it shuffles first) and
  then the same request twice, the cached arm returns a, b both times and the
  bare one a, b and then b, a. The Python classes do the same on these calls.
* `graph_arm_default`: under the default decay policy a link is stale in the very
  pass that follows it, so using a link does not spare it.

Seen while modelling, and stated here without a run:

* `run_from_config` records a skip reason per arm (harness.py:261) while it
  catches per dataset, arm and model, so an arm with rows in the result can also
  be listed as skipped.
* `sweep` writes `rows.jsonl` and no manifest: run over the directory of an
  earlier `sweep-config` it leaves that command's manifest beside its own rows.
  `FilesAgree` says what is still true then.
* A `write` that raises after the wrapped arm has changed leaves the cache's
  entries and digest as they were (cache.py:164): later hits answer from before.
* `traverse` bounds what it discovers, not its seeds (traversal.py:103, against
  the parameter's description at traversal.py:81).
* `-workers 0` blocks every shard of the orchestrator for ever (main.go:61), and
  a dataset named twice in `-datasets` makes two children write one file
  (main.go:70). The run uses a positive number and distinct names.
* `run_benchmark` passes no correctness predicate to `run_task`, so the policy
  `retry_until_correct` makes one attempt through the harness.
* The Java reference's `pack` skips an item that does not fit and goes on, and
  calls that the harness's packing (DecisionGraph.java:512); `pack_to_budget`
  stops there (base.py:149).
* `DecisionGraph.traverse` says that the SQL template's `UNION` keeps one row per
  node; it keeps one per node and depth.
* The graph arm clamps its walk to three hops, and a chain of `depth_chain` is
  four deep unless told otherwise: such a task's governing decision lies beyond
  the walk whatever the store holds. `DatasetsSound` states the exact condition.
* The scatter generator's documentation has a link-follower bridge `min(s, d)`
  area boundaries (scatter_synth.py:24) and its hops take the areas in turn
  (scatter_synth.py:179), so that with any scatter every hop crosses one. The
  number of areas is the one it declares.
* `synthetic._node_text` describes a similarity that falls geometrically; its
  repeats fall linearly with the hop.
* The report's best baseline is Python's `max` over values of which one may be
  NaN (report.py:69): which arm it names then depends on the order of the arms.

## 7. What is not modelled, and the plan

`PROJECT.json` lists every component with its reason. In short: file and network
access (the reading of the datasets' files, model clients, external arms, the live
graph arm, the seeder, the dashboard), numeric kernels and the C# and R ports,
layout, and the superseded `legacy` tree. `seeded` is left out because the states
it saves are opaque to everything else.

Of the pure code, what is left out is what an exact fraction cannot carry:
rounding, logarithms (BM25 and its relatives, discounted gains, entropies and
capacities), square roots (Wilson's interval, standard errors), the tails of
distributions, fits by an optimiser, and resampling. The similarity a ranking
starts from is therefore an input, and any number. Texts are sets of the forms
a rule looks for, so that a word found by accident inside another is not seen.

No arm with decay is put behind the cache: `GraphArm` has the decay pass, and a hit
would skip it as it skips a shuffle. `GraphArm` leaves out the similarity ranking (any ranking) and the walk's node
budget (out of its reach, and `Traversal` has it); `Benchmark` leaves out scoring,
and the retry loop, which `AgentSession` has.

What a next step would add: of `TestsSound`, the coverage of the conformal
interval, which needs the sort of the residuals; of `RankingSound`, that packing
in the Java reference's own order never skips, which needs the sort by cost.

## 8. Conventions

Definitions carry the source's names where TLA+ allows. `PROJECT.json` maps each
definition that models code to its lines. A definition whose name ends in `Slip`
is a variant of the definition below it with a plausible coding mistake; it is
used only to show that some property notices, and `PROJECT.json` ("mutants")
says which. To check a module, `tlc -config X.cfg M` with the pair `PROJECT.json`
names under "runs"; to check the proofs, `tlapm M_proofs.tla`.
