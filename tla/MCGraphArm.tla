----------------------------- MODULE MCGraphArm -----------------------------
(* A justification that constrains a decision, a decision linked to a note,  *)
(* a note; a list with a repeated id, one with a relation that is no type    *)
(* between two that are, and an unrelated second corpus.                     *)
EXTENDS GraphArm

Item(id, c, links) == [id |-> id, constrains |-> c, links |-> links]

Chain == <<Item("why", "rule", <<>>), Item("rule", NoTarget, <<<<"note", "references">>>>),
           Item("note", NoTarget, <<<<"note", "references">>, <<"gone", "references">>>>)>>
Twice == <<Item("why", "rule", <<>>), Item("why", NoTarget, <<>>)>>
Torn == <<Item("why", "rule", <<<<"note", "informs">>, <<"gone", "because">>>>),
          Item("rule", NoTarget, <<<<"note", "references">>, <<"why", "because">>, <<"why", "informs">>>>),
          Item("note", "rule", <<>>)>>
More == <<Item("new", "why", <<>>)>>

MCCorpora == {<<>>, Chain, Twice, Torn, More}

\* Two seeds and one hop, with and without a tick of grace.
MCConfigs == {[seeds |-> 2, hops |-> 1, staleAfter |-> 1], [seeds |-> 2, hops |-> 1, staleAfter |-> 2]}

\* The default policy.
MCDefault == {[seeds |-> 1, hops |-> 2, staleAfter |-> 1]}
==============================================================================
