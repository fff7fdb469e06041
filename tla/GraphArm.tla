------------------------------- MODULE GraphArm -------------------------------
(***************************************************************************)
(* BriefGraphMemory (retrieval/graph/arm.py) with its usage-aware decay     *)
(* (retrieval/graph/decay.py) over the typed graph.  write builds the graph *)
(* from the items, retrieve walks it from the most similar items, counts    *)
(* what it walked, and lets unused links decay and go.                      *)
(*                                                                          *)
(* Confidence is a whole number of 1/Unit, and the decay rate of the model  *)
(* is one half, so that a few passes are exact.  The walk's node budget     *)
(* (100) is out of reach here; Traversal has it.                            *)
(***************************************************************************)
EXTENDS GraphWalk

CONSTANTS
  Corpora,           \* item lists a caller may write
  Queries,           \* queries a caller may ask
  Configs,           \* the arguments an arm may be built with, as records of
                     \* seeds, hops (max_hops) and staleAfter (of DecayPolicy)
  UseDecay,          \* brief_graph_decay rather than brief_graph
  RestoreThreshold, PruneBelow,   \* the other fields of DecayPolicy
  Unit,              \* confidence 1.0
  MaxItems, MaxTick  \* bounds of the model: items written, retrieves tracked

ASSUME GraphArmAssumption ==
  /\ Configs \subseteq [seeds : Nat \ {0}, hops : Int, staleAfter : Int]
  /\ UseDecay \in BOOLEAN
  /\ {RestoreThreshold, PruneBelow, Unit, MaxItems, MaxTick} \subseteq Nat
  /\ \A corpus \in Corpora :
       /\ corpus \in Seq(Range(corpus))
       /\ \A item \in Range(corpus) : item.links \in Seq(Range(item.links))

NoTarget == "none"
Never == 0 - 1

VARIABLES
  config,   \* how the arm was built
  items,    \* everything written (_items)
  nodes,    \* the graph's nodes
  edges,    \* the graph's edge list
  tick,     \* the logical clock
  asked,    \* query |-> its seeds, which the items and the query fix, and (as
            \* history) the context it got the first time
  faded     \* history: whether a retrieve lowered a link it had just followed

vars == <<config, items, nodes, edges, tick, asked, faded>>

Hops == Clamp(config.hops)

Init ==
  /\ config \in Configs
  /\ items = <<>> /\ nodes = {} /\ edges = <<>>
  /\ tick = 0
  /\ asked = <<>>
  /\ faded = FALSE

------------------------------------------------------------------------------
\* A new link: full confidence, never traversed.
Link(s, t, type) == [source |-> s, target |-> t, type |-> type,
                     confidence |-> Unit, count |-> 0, last |-> Never]

\* The targets one item names: the decision it constrains, then the explicit ones.
Wanted(item) ==
  (IF item.constrains = NoTarget THEN <<>> ELSE <<<<item.constrains, "constrains">>>>) \o item.links

\* RelationshipType's values.
RelationshipTypes ==
  {"related_to", "constrains", "constrained_by", "implements", "validates", "contradicts",
   "informs", "supersedes", "blocks", "derived_from", "supports_goal", "motivates",
   "enables", "impacts", "references", "duplicate_of"}

\* What raises while links over the nodes ns are added: an entry that is no
\* pair, and one that has a node for its target and no type for its relation.
Refused(l, ns) == Len(l) # 2 \/ (l[1] \in ns /\ l[2] \notin RelationshipTypes)

Refuses(item, ns) == \E i \in DOMAIN Wanted(item) : Refused(Wanted(item)[i], ns)

\* The links it adds over the nodes ns: of those before the first refused, the
\* ones whose target is a node.
LinksOf(item, ns) ==
  FlattenSeq([i \in DOMAIN Wanted(item) |->
    LET l == Wanted(item)[i]
    IN  IF (\E j \in 1..i : Refused(Wanted(item)[j], ns)) \/ l[1] \notin ns THEN <<>>
        ELSE <<Link(item.id, l[1], l[2])>>])

\* The links of a list of items: a refused one ends the write where it stands.
AllLinks(all, ns) ==
  FlattenSeq([i \in DOMAIN all |->
    IF \E j \in 1..(i - 1) : Refuses(all[j], ns) THEN <<>> ELSE LinksOf(all[i], ns)])

\* Slip: only the new items added as nodes.
ToAddSlip(corpus) == corpus

ToAdd(corpus) == items \o corpus

\* write: _items grows first, then every item it now holds is added as a node;
\* the first one the graph already has raises, and no edge is added.  With all
\* nodes in, the edges are added up to the first entry that raises.
Write(corpus) ==
  /\ Len(items) + Len(corpus) <= MaxItems
  /\ items' = items \o corpus
  /\ LET all == ToAdd(corpus)
         fresh(i) == /\ all[i].id \notin nodes
                     /\ \A j \in 1..(i - 1) : all[j].id # all[i].id
         added == {i \in DOMAIN all : \A j \in 1..i : fresh(j)}
     IN  /\ nodes' = nodes \cup {all[i].id : i \in added}
         /\ edges' = IF added = DOMAIN all
                     THEN edges \o AllLinks(all, nodes')
                     ELSE edges
  /\ asked' = <<>>
  /\ UNCHANGED <<config, tick, faded>>

------------------------------------------------------------------------------
\* The similarity ranking may put any items first.
SeedLists ==
  LET k == IF config.seeds < Len(items) THEN config.seeds ELSE Len(items)
  IN  {[i \in 1..k |-> items[p[i]].id] :
         p \in {f \in [1..k -> DOMAIN items] : IsInjective(f)}}

\* The nodes whose links the walk from one seed follows.
Expands(es, s) == Balls(GraphOf(nodes, es), {s} \cap nodes, Hops)[Hops - 1]

\* How often a retrieve from these seeds follows the link at position e: on the
\* walk from each, once from every end that is expanded.
Followed(es, seeds, e) ==
  Cardinality({f \in (DOMAIN seeds) \X {"source", "target"} : es[e][f[2]] \in Expands(es, seeds[f[1]])})

\* The nodes one seed contributes: itself and the decisions that the links of
\* its walk point to, or all of its walk if there is none.
FromSeed(es, s) ==
  LET decisions == {es[e].target : e \in {f \in DOMAIN es :
                      es[f].type = "constrains" /\ Followed(es, <<s>>, f) > 0}}
      walk == WalkOrder(GraphOf(nodes, es), <<s>>, Hops)
  IN  FlattenSeq([i \in DOMAIN walk |->
        IF decisions = {} \/ walk[i] = s \/ walk[i] \in decisions THEN <<walk[i]>> ELSE <<>>])

\* The ranked nodes a retrieve hands to pack_to_budget.
Context(es, seeds) == Merge(<<>>, FlattenSeq([i \in DOMAIN seeds |-> FromSeed(es, seeds[i])]))

\* The usage a walk records on a link.
Tracked(es, seeds, e) ==
  LET n == Followed(es, seeds, e)
  IN  [es[e] EXCEPT !.count = @ + n, !.last = IF n > 0 THEN tick ELSE @]

\* Slip: a link walked in the last tick taken for stale too early.
IsStaleSlip(e, now) == e.last = Never \/ now - e.last >= config.staleAfter - 1

IsStale(e, now) == e.last = Never \/ now - e.last >= config.staleAfter

\* apply_decay on one link; restore_factor is three quarters of the rate.
Decayed(e, now) ==
  IF e.count >= RestoreThreshold
  THEN [e EXCEPT !.confidence = IF @ + (3 * Unit) \div 8 > Unit THEN Unit
                                ELSE @ + (3 * Unit) \div 8]
  ELSE IF IsStale(e, now) THEN [e EXCEPT !.confidence = @ \div 2]
  ELSE e

\* Slips: low confidence alone prunes; nothing does.
KeepSlip(e) == e.confidence >= PruneBelow

Keep(e) == ~ (e.confidence < PruneBelow /\ e.count = 0)

\* retrieve; with no items it returns before the decay pass.
Retrieve(q) ==
  \E seeds \in IF q \in DOMAIN asked THEN {asked[q].seeds} ELSE SeedLists :
    /\ asked' = IF q \in DOMAIN asked THEN asked
                ELSE [r \in DOMAIN asked \cup {q} |->
                        IF r = q THEN [seeds |-> seeds, context |-> Context(edges, seeds)]
                        ELSE asked[r]]
    /\ IF UseDecay /\ items # <<>>
       THEN LET tracked == [e \in DOMAIN edges |-> Tracked(edges, seeds, e)]
                decayed == [e \in DOMAIN edges |-> Decayed(tracked[e], tick + 1)]
            IN  /\ tick < MaxTick
                /\ tick' = tick + 1
                /\ edges' = FlattenSeq([e \in DOMAIN edges |->
                                        IF Keep(decayed[e]) THEN <<decayed[e]>> ELSE <<>>])
                /\ faded' = (faded \/ \E e \in DOMAIN edges :
                               /\ tracked[e].count > edges[e].count
                               /\ decayed[e].confidence < edges[e].confidence)
       ELSE UNCHANGED <<tick, edges, faded>>
    /\ UNCHANGED <<config, items, nodes>>

Next ==
  \/ \E corpus \in Corpora : Write(corpus)
  \/ \E q \in Queries : Retrieve(q)

Spec == Init /\ [][Next]_vars

------------------------------------------------------------------------------
TypeOK ==
  /\ nodes \subseteq {items[i].id : i \in DOMAIN items}
  /\ \A e \in DOMAIN edges :
       /\ edges[e].source \in nodes /\ edges[e].target \in nodes
       /\ edges[e].confidence \in 0..Unit
       /\ edges[e].last \in Never..(tick - 1)
       /\ (edges[e].count = 0) <=> (edges[e].last = Never)
  /\ tick \in Nat /\ faded \in BOOLEAN

\* Decay never changes the answer to a question asked before: what its walk
\* needs has been walked, so it is not pruned, whatever else was asked since.
StableAnswers ==
  \A q \in DOMAIN asked : Context(edges, asked[q].seeds) = asked[q].context

\* The confidence of a link that has faded t times.
FadedTimes == LET c[t \in 0..MaxTick] == IF t = 0 THEN Unit ELSE c[t - 1] \div 2 IN c

\* A link never walked has faded once for every retrieve, so it leaves when a
\* fixed number of retrieves has passed it by; and given two ticks of grace, a
\* retrieve never lowers a link it has just followed, on its own walk or on
\* another seed's.
FadesUnused ==
  /\ TypeOK
  /\ \A e \in DOMAIN edges :
       edges[e].count = 0 => /\ edges[e].confidence = FadedTimes[tick]
                             /\ tick > 0 => edges[e].confidence >= PruneBelow
  /\ config.staleAfter >= 2 => ~ faded

\* Once the arm holds items no write changes its graph: the items of a second
\* write are kept, but never reachable.
GraphBuiltOnce == [][items # <<>> /\ items' # items => UNCHANGED <<nodes, edges>>]_vars

\* "reinforcing links the agent actually relies on" (arm.py:56): no retrieve
\* lowers a link it has just followed.
ReinforcesUsed == ~ faded
==============================================================================
