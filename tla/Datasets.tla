------------------------------ MODULE Datasets -------------------------------
(***************************************************************************)
(* The benchmarks (datasets/): those generated (synthetic.py,              *)
(* depth_chain.py, scatter_synth.py, supersession_synth.py), those loaded  *)
(* from published records, and what a Task accepts (types.py).  A text is  *)
(* seen as how many of its area's query words it holds.  An area is        *)
(* [slug, words], words being how many distinct query words it has; Areas  *)
(* is the list of them.  random.shuffle returns some order, so that a      *)
(* generator is the set of tasks it may return; the corpus is left in the  *)
(* order before its last shuffle.                                          *)
(***************************************************************************)
EXTENDS Fractions

CONSTANTS Areas,      \* the areas, topics or slots, in the order of the source
          Relations,  \* depth_chain's typed relations between policies
          Fillers     \* how many filler nodes a corpus gets

MemoryItem(id, words, area, type, edges) ==
  [id |-> id, words |-> words, area |-> area, type |-> type, edges |-> edges]

Task(id, corpus, governing, depth) ==
  IF depth < 1 \/ ~IsInjective([i \in DOMAIN corpus |-> corpus[i].id]) THEN Raised
  ELSE [id |-> id, corpus |-> corpus, governing |-> governing, depth |-> depth]

\* Python's round: halves go to the even neighbour.
Round(p) ==
  LET down == p[1] \div p[2]
      rest == 2 * (p[1] % p[2])
  IN  IF rest < p[2] \/ (rest = p[2] /\ down % 2 = 0) THEN down ELSE down + 1

\* The further down the chain, the fewer of the query's words.
FractionAt(hop, depth) == Frac(depth - hop + 1, depth + 1)
NodeWords(area, hop, depth, governing) ==
  LET words == Round(Times(Whole(area.words), FractionAt(hop, depth)))
  IN  Min({area.words, Max({IF governing THEN 0 ELSE 1, words})})
TopicRepeats(hop, depth, governing) ==
  Max({IF governing THEN 0 ELSE 1, Round(Times(Whole(depth), FractionAt(hop, depth)))})

NodeType(hop, depth) == IF hop = 0 THEN "entry" ELSE IF hop = depth THEN "governing" ELSE "policy"

\* Slip: the last link is left out.
LinksSlip(ids, hop, relation) == IF hop < Len(ids) - 2 THEN << <<ids[hop + 2], relation>> >> ELSE <<>>
Links(ids, hop, relation) == IF hop < Len(ids) - 1 THEN << <<ids[hop + 2], relation>> >> ELSE <<>>

\* Items of ids[1], .., ids[depth + 1], each linked to the next; the words,
\* areas and relations are by hop.
ChainOf(ids, words, areas, relations) ==
  LET depth == Len(ids) - 1
  IN  [i \in DOMAIN ids |->
         MemoryItem(ids[i], words[i - 1], areas[i - 1].slug, NodeType(i - 1, depth),
                    Links(ids, i - 1, IF i = depth THEN "constrains" ELSE relations[i - 1]))]

Filler(key) == [j \in 1..Fillers |-> MemoryItem(<<key, "filler", j>>, 0, None, "node", <<>>)]
FlattenOver(s, F(_)) == FoldLeft(LAMBDA all, x : all \o F(x), <<>>, s)

AreaFor(i, depth) == Areas[((i + depth) % Len(Areas)) + 1]
Others(slugs) == {k \in DOMAIN Areas : Areas[k].slug \notin slugs}

\* The lists of at most n of the others that a shuffle may put first.
Distractors(slugs, n) ==
  LET size == Max({0, Min({n, Cardinality(Others(slugs))})})
  IN  {[j \in 1..size |-> Areas[o[j]]] : o \in {p \in [1..size -> Others(slugs)] : IsInjective(p)}}

-----------------------------------------------------------------------------
(* synthetic.py: a chain is named after its area and its place in it.      *)

SyntheticChain(area, depth) ==
  LET ids == [h \in 1..(depth + 1) |-> <<area.slug, h - 1>>]
  IN  ChainOf(ids, [hop \in 0..depth |-> NodeWords(area, hop, depth, hop = depth)],
              [hop \in 0..depth |-> area], [hop \in 0..depth |-> "derived_from"])

SyntheticTask(depth, i, others) ==
  LET target == AreaFor(i, depth)
  IN  Task(<<"synthetic", depth, i>>,
           SyntheticChain(target, depth) \o FlattenOver(others, LAMBDA a : SyntheticChain(a, depth)) \o Filler(i),
           <<target.slug, depth>>, depth)

LoadSyntheticTasks(depth, perDepth, distractors) ==
  IF depth < 1 THEN {Raised}
  ELSE {SyntheticTask(depth, i, others) :
          <<i, others>> \in UNION {{i} \X Distractors({AreaFor(i, depth).slug}, distractors) : i \in 0..(perDepth - 1)}}

-----------------------------------------------------------------------------
(* depth_chain.py: a chain is named after its task, the target's first.    *)

DepthChain(topic, depth, key) ==
  LET ids == [h \in 1..(depth + 1) |-> <<key, h - 1>>]
  IN  ChainOf(ids, [hop \in 0..depth |-> TopicRepeats(hop, depth, hop = depth)],
              [hop \in 0..depth |-> topic],
              [hop \in 0..depth |-> Relations[(hop % Len(Relations)) + 1]])

DepthChainTask(depth, i, others) ==
  LET distractor == [j \in DOMAIN others |-> DepthChain(others[j], depth, <<depth, i, j>>)]
  IN  Task(<<"depth_chain", depth, i>>,
           DepthChain(AreaFor(i, depth), depth, <<depth, i, 0>>)
             \o FlattenOver(distractor, LAMBDA c : c) \o Filler(<<depth, i>>),
           <<<<depth, i, 0>>, depth>>, depth)

GenerateDepthChainTasks(depth, perDepth, distractors) ==
  IF perDepth < 1 \/ distractors < 0 \/ Relations = <<>> \/ depth < 1 THEN {Raised}
  ELSE {DepthChainTask(depth, i, others) :
          <<i, others>> \in UNION {{i} \X Distractors({AreaFor(i, depth).slug}, distractors) : i \in 0..(perDepth - 1)}}

-----------------------------------------------------------------------------
(* scatter_synth.py: one chain through several areas, with noise of each.  *)

ScatterChain(target, scattered, depth, prefix) ==
  LET pool == <<target>> \o scattered
      ids == [h \in 1..(depth + 1) |-> <<prefix, h - 1>>]
      areas == [hop \in 0..depth |-> pool[(hop % Len(pool)) + 1]]
  IN  ChainOf(ids, [hop \in 0..depth |-> NodeWords(areas[hop], hop, depth, hop = depth)], areas,
              [hop \in 0..depth |-> "derived_from"])

Noise(area, depth, prefix) ==
  [n \in 1..2 |-> MemoryItem(<<prefix, "noise", area.slug, n>>,
                             NodeWords(area, n, depth, FALSE), area.slug, "distractor", <<>>)]

ScatterTask(depth, i, scatter, others) ==
  LET prefix == <<"scatter", depth, i>>
      target == AreaFor(i, depth)
      scattered == [k \in 1..scatter |-> AreaFor(i + k, depth)]
      stray == [n \in DOMAIN others |-> MemoryItem(<<prefix, "distractor", others[n].slug, n>>,
                                                  NodeWords(others[n], 0, depth, FALSE), others[n].slug,
                                                  "distractor", <<>>)]
  IN  Task(prefix,
           ScatterChain(target, scattered, depth, prefix)
             \o FlattenOver(<<target>> \o scattered, LAMBDA a : Noise(a, depth, prefix)) \o stray \o Filler(prefix),
           <<prefix, depth>>, depth)

ScatterAreas(depth, i, scatter) == {AreaFor(i + k, depth).slug : k \in 0..scatter}

GenerateScatterTasks(depth, scatter, perDepth, distractors) ==
  IF scatter \notin 0..(Len(Areas) - 1) \/ depth < 1 THEN {Raised}
  ELSE {ScatterTask(depth, i, scatter, others) :
          <<i, others>> \in UNION {{i} \X Distractors(ScatterAreas(depth, i, scatter), distractors) : i \in 0..(perDepth - 1)}}

-----------------------------------------------------------------------------
(* supersession_synth.py: revisions 0, 1, .. of a slot, each superseding   *)
(* the one before; every revision's text is alike.                         *)

SupersessionChain(slot, length, key) ==
  [k \in 1..length |->
     MemoryItem(<<key, k - 1>>, slot.words, slot.slug, "decision",
                IF k > 1 THEN << <<<<key, k - 2>>, "supersedes">> >> ELSE <<>>)]

SupersessionTask(length, i, others) ==
  LET task == <<"supersede", length, i>>
      target == AreaFor(i, length)
  IN  Task(task, SupersessionChain(target, length, task)
                   \o FlattenOver(others, LAMBDA s : SupersessionChain(s, length, <<task, s.slug>>)),
           <<task, length - 1>>, length)

GenerateSupersessionTasks(length, n, distractors) ==
  IF length < 1 \/ n < 0 THEN {Raised}
  ELSE {SupersessionTask(length, i, others) :
          <<i, others>> \in UNION {{i} \X Distractors({AreaFor(i, length).slug}, distractors) : i \in 0..(n - 1)}}

-----------------------------------------------------------------------------
(* The published benchmarks, from their records: a task cites its          *)
(* decisions in a list, and one record that cannot be loaded stops the     *)
(* whole load.  A place in a transcript is <<session, turn>>.              *)

Distinct(s) == FoldLeft(LAMBDA kept, x : IF Contains(kept, x) THEN kept ELSE Append(kept, x), <<>>, s)
Ids(corpus) == {item.id : item \in Range(corpus)}
AllLoaded(tasks) == IF Raised \in Range(tasks) THEN Raised ELSE tasks
Asked(wanted, x) == wanted = None \/ x \in wanted

\* hotpotqa.py: a paragraph is its title and how many sentences it has.
SentenceItemId(title, sentence) == <<title, sentence>>
BuildCorpus(context) ==
  FlattenOver(context, LAMBDA p : [s \in 1..p.sentences |->
    MemoryItem(SentenceItemId(p.title, s - 1), 0, p.title, "sentence", <<>>)])

HotpotqaTask(record, corpus) ==
  IF ~(Range(record.supporting) \subseteq Ids(corpus)) THEN Raised
  ELSE Task(<<"hotpotqa", record.id>>, corpus, Distinct(record.supporting),
            Max({1, Cardinality({fact[1] : fact \in Range(record.supporting)})}))

LoadHotpotqaTasks(records, levels) ==
  LET kept == SelectSeq(records, LAMBDA r : Asked(levels, r.level))
  IN  IF levels # None /\ ~(levels \subseteq {"easy", "medium", "hard"}) THEN Raised
      ELSE AllLoaded([k \in DOMAIN kept |-> HotpotqaTask(kept[k], BuildCorpus(kept[k].context))])

HotpotqaGoldAnswers(records) == {<<"hotpotqa", r.id>> : r \in Range(records)}

\* locomo.py: a conversation is the turns of each session; a malformed turn id is not a pair.
SessionOfDiaId(dia) == IF Len(dia) # 2 THEN Raised ELSE dia[1]
CorpusFromConversation(conversation) ==
  FlattenOver(SetToSortSeq(DOMAIN conversation, <), LAMBDA s : [t \in DOMAIN conversation[s] |->
    MemoryItem(conversation[s][t], 0, s, "turn", <<>>)])

ADVERSARIAL_CATEGORY == 5
Answerable(qa) == qa.category # ADVERSARIAL_CATEGORY /\ qa.evidence # <<>>

Span(sessions) == Max(sessions) - Min(sessions) + 1
LocomoTask(id, corpus, evidence, sessions) ==
  IF Raised \in sessions \/ ~(Range(evidence) \subseteq Ids(corpus)) THEN Raised
  ELSE Task(id, corpus, Distinct(evidence), Span(sessions))

SampleTasks(sample, corpus, kept) ==
  [k \in DOMAIN kept |-> LocomoTask(<<"locomo", sample.id, kept[k]>>, corpus, sample.qa[kept[k]].evidence,
                                    {SessionOfDiaId(e) : e \in Range(sample.qa[kept[k]].evidence)})]
QuestionsOf(sample, categories) ==
  SelectSeq([q \in DOMAIN sample.qa |-> q],
            LAMBDA q : Answerable(sample.qa[q]) /\ Asked(categories, sample.qa[q].category))

LoadLocomoTasks(samples, categories) ==
  AllLoaded(FlattenOver(samples, LAMBDA s :
    SampleTasks(s, CorpusFromConversation(s.conversation), QuestionsOf(s, categories))))

LocomoGoldAnswers(samples) ==
  UNION {{<<"locomo", s.id, q>> : q \in {k \in DOMAIN s.qa : Answerable(s.qa[k])}} : s \in Range(samples)}

\* dmr.py and longmemeval.py: an item is a session.
SessionItems(sessions) == [i \in DOMAIN sessions |-> MemoryItem(sessions[i], 0, i, "session", <<>>)]

\* From 0, the oldest session.
RecallDistance(gold, n) == IF gold \notin 0..(n - 1) THEN Raised ELSE n - gold

DmrTask(example, golden) ==
  IF golden = {} THEN Raised
  ELSE Task(<<"dmr", example.id>>, SessionItems(example.sessions), <<example.gold>>,
            RecallDistance(Min(golden) - 1, Len(example.sessions)))
LoadDmrTasks(examples) ==
  AllLoaded([k \in DOMAIN examples |->
    DmrTask(examples[k], {i \in DOMAIN examples[k].sessions : examples[k].sessions[i] = examples[k].gold})])
DmrGoldAnswers(examples) == {<<"dmr", e.id>> : e \in Range(examples)}

ALLOWED_QUESTION_TYPES == {"temporal-reasoning", "knowledge-update"}
LoadLongmemevalTasks(questions, types) ==
  LET kept == SelectSeq(questions, LAMBDA q : q.type \in (IF types = None THEN ALLOWED_QUESTION_TYPES ELSE types))
  IN  IF types # None /\ ~(types \subseteq ALLOWED_QUESTION_TYPES) THEN Raised
      ELSE AllLoaded([k \in DOMAIN kept |-> Task(<<"longmemeval", kept[k].id>>, SessionItems(kept[k].sessions),
                                                 kept[k].gold, kept[k].depth)])
LongmemevalGoldAnswers(questions) ==
  {<<"longmemeval", q.id>> : q \in {x \in Range(questions) : x.type \in ALLOWED_QUESTION_TYPES}}

\* dcbench.py and swebench.py: "full" states what governs in the query;
\* "stripped" leaves it to the memory, at depth 3 in two linked items.
MaxDepthByTaskId(labels, dataset) ==
  FoldLeft(LAMBDA most, row : IF row.dataset = dataset THEN (row.task :> row.depth) @@ most ELSE most, <<>>, labels)
CertifiedTo(most, task, depth) == task \in DOMAIN most /\ most[task] >= depth
Supported(variant, depth) == IF variant = "full" THEN depth = 1 ELSE depth \in {2, 3}

Constraint(name, repo, type) == MemoryItem(name, 0, repo, type, <<>>)
Justification(name, repo) ==
  MemoryItem(Append(name, "rationale"), 0, repo, "justification", <<<<name, "constrains">>>>)

CodingTask(task, variant) ==
  IF task = Raised THEN Raised
  ELSE task @@ [stated |-> IF variant = "full" THEN task.governing ELSE <<>>]

DcbenchCombinedCorpus(decisions) ==
  [k \in DOMAIN decisions |-> Constraint(decisions[k], "dcbench", "decision")]
DcbenchSplitCorpus(decisions) ==
  FlattenOver(decisions, LAMBDA d : <<Constraint(d, "dcbench", "constraint"), Justification(d, "dcbench")>>)

DcbenchTask(raw, corpus, variant, depth) ==
  IF variant = "full" /\ ~(Range(raw.gotchas) \subseteq Ids(corpus)) THEN Raised
  ELSE CodingTask(Task(<<"dcbench", raw.id>>, corpus, Distinct(raw.gotchas), depth), variant)

LoadDcbenchTasks(decisions, raws, labels, variant, depth, ids) ==
  LET most == MaxDepthByTaskId(labels, "dcbench")
      kept == SelectSeq(raws, LAMBDA r : Asked(ids, r.id) /\ CertifiedTo(most, r.id, depth))
      corpus == IF depth = 3 THEN DcbenchSplitCorpus(decisions) ELSE DcbenchCombinedCorpus(decisions)
  IN  IF ~Supported(variant, depth) THEN Raised
      ELSE AllLoaded([k \in DOMAIN kept |-> DcbenchTask(kept[k], corpus, variant, depth)])

\* The first instance of each definition.
FirstOf(instances) ==
  FoldLeft(LAMBDA kept, x : IF \E y \in Range(kept) : y.name = x.name THEN kept ELSE Append(kept, x), <<>>, instances)
SwebenchCombinedCorpus(instances) ==
  FlattenOver(FirstOf(instances), LAMBDA x : <<Constraint(x.name, x.repo, "definition")>>)
SwebenchSplitCorpus(instances) ==
  FlattenOver(FirstOf(instances), LAMBDA x :
    <<Constraint(x.name, x.repo, "constraint")>> \o (IF x.doc THEN <<Justification(x.name, x.repo)>> ELSE <<>>))

SwebenchCorpus(instances, depth) ==
  IF depth = 3 THEN SwebenchSplitCorpus(instances) ELSE SwebenchCombinedCorpus(instances)
SwebenchTask(x, pool, variant, depth) ==
  CodingTask(Task(x.id, SwebenchCorpus(SelectSeq(pool, LAMBDA y : y.repo = x.repo), depth), <<x.name>>, depth),
             variant)

LoadSwebenchTasks(instances, labels, variant, depth, ids) ==
  LET most == MaxDepthByTaskId(labels, "swebench")
      pool == SelectSeq(instances, LAMBDA x : CertifiedTo(most, x.id, depth))
      kept == SelectSeq(pool, LAMBDA x : Asked(ids, x.id))
  IN  IF ~Supported(variant, depth) THEN Raised
      ELSE AllLoaded([k \in DOMAIN kept |-> SwebenchTask(kept[k], pool, variant, depth)])
=============================================================================
