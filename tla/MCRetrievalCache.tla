-------------------------- MODULE MCRetrievalCache --------------------------
(* A small corpus, two items differing in metadata alone, and four requests: *)
(* two queries, two budgets for one of them, and a negative budget.  The     *)
(* generator is random.Random(0), random_context's default: of the first     *)
(* times it shuffles two items, only the third swaps them.                   *)
EXTENDS RetrievalCache

a1 == [id |-> "a", meta |-> 1]
a2 == [id |-> "a", meta |-> 2]
b1 == [id |-> "b", meta |-> 1]

MCItems == {a1, a2, b1}
MCBatches == {<<>>, <<a1>>, <<a2>>, <<b1>>}
MCRequests == {[query |-> "q", budget |-> 0], [query |-> "q", budget |-> 9],
               [query |-> "p", budget |-> 9], [query |-> "p", budget |-> -1]}

MCGenerators == 0..MaxCalls
MCShuffle == [x \in MCGenerators \X {2} |->
                [order |-> IF x[1] = 2 THEN <<2, 1>> ELSE <<1, 2>>,
                 next  |-> IF x[1] < MaxCalls THEN x[1] + 1 ELSE x[1]]]
==============================================================================
