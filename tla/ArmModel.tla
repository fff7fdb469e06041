------------------------------- MODULE ArmModel -------------------------------
(***************************************************************************)
(* What a memory arm's calls depend on (membench.retrieval: base.py,        *)
(* controls.py, bm25.py, graph/arm.py).  A deterministic arm's ranking is    *)
(* abstracted to what it depends on: the items the arm holds and the request *)
(* (query and budget together).  random_context's is the order its generator *)
(* puts the items in, packed; the decaying graph arm is modelled in GraphArm.*)
(***************************************************************************)
EXTENDS Integers, Sequences

CONSTANTS
  Items,        \* memory items, records with the fields id (id and text) and meta
  Batches,      \* the item lists a caller may write
  Requests,     \* what a caller may ask, records with the fields query and budget
  Arms,         \* the arms a caller may pick, by the names they are registered under
  MaxItems,     \* bound of the model: items ever written
  Generators,   \* the states of a random.Random
  Seed,         \* the state it is seeded to
  Shuffle       \* state and number of items |-> the order shuffle puts the
                \* items in, and the state it leaves the generator in

ArmNames == {"bm25", "random_context", "brief_graph"}

ASSUME ArmAssumption ==
  /\ Batches \subseteq Seq(Items)
  /\ \A r \in Requests : r.budget \in Int
  /\ Arms \subseteq ArmNames
  /\ MaxItems \in Nat
  /\ Seed \in Generators
  /\ \A g \in Generators, n \in 2..MaxItems :
       Shuffle[<<g, n>>] \in
         [order : {p \in [1..n -> 1..n] : \A i \in 1..n : \E j \in 1..n : p[j] = i},
          next : Generators]

\* random_context advances its generator; shuffling fewer than two items draws
\* nothing.
StatefulRetrieve(arm) == arm = "random_context"
Shuffles(arm, c) == StatefulRetrieve(arm) /\ Len(c) >= 2
Advanced(arm, c, g) == IF Shuffles(arm, c) THEN Shuffle[<<g, Len(c)>>].next ELSE g
Shuffled(arm, c, g) ==
  IF Shuffles(arm, c) THEN [i \in 1..Len(c) |-> c[Shuffle[<<g, Len(c)>>].order[i]]] ELSE c

\* The graph arms add a node for every item they hold on every write, so a
\* second write meets ids it already knows and raises after _items has grown.
RejectsRewrite(arm) == arm = "brief_graph"

\* An arm whose retrieve leaves it alone and whose write always completes, as
\* the ranking arms (bm25, dense, full_context) do.
PureArm(arm) == ~ StatefulRetrieve(arm) /\ ~ RejectsRewrite(arm)

\* pack_to_budget, for items of one token each: the ids of those that fit.
Packed(c, budget) == [i \in {j \in 1..Len(c) : j <= budget} |-> c[i].id]

\* The context an arm with items c, its generator at g, assembles for r.
Ranking(arm, c, g, r) ==
  IF StatefulRetrieve(arm) THEN [packed |-> Packed(Shuffled(arm, c, g), r.budget)]
  ELSE [corpus |-> c, request |-> r]

\* pack_to_budget refuses a negative budget; only random_context packs when it
\* holds no items.
Raises(arm, c, r) == r.budget < 0 /\ (c # <<>> \/ arm = "random_context")

\* What a call can return.
Returned(r, v) == [call |-> "retrieve", request |-> r, value |-> v]
Written == [call |-> "write"]
Raised == [call |-> "raise"]

Contexts == [corpus : Seq(Items), request : Requests]
            \cup [packed : Seq({i.id : i \in Items})]
Answers == {Written, Raised}
           \cup [call : {"retrieve"}, request : Requests, value : Contexts]
==============================================================================
