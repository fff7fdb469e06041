------------------------------ MODULE MCCommands ------------------------------
(* Two datasets of two tasks; a registry arm, a ready instance that already  *)
(* holds something, a factory that raises now and then, one not installed.   *)
EXTENDS Commands

MCTasks == [syn |-> <<"s1", "s2">>, dc |-> <<"d1", "d2">>]
MCKind == [bm25 |-> "name", mine |-> "instance", live |-> "factory", mem0 |-> "name",
           random |-> "name"]
MCPrewritten == [a \in DOMAIN MCKind |-> IF a = "mine" THEN {"old"} ELSE {}]

Request(driver, datasets, arms, models) ==
  [driver |-> driver, datasets |-> datasets, arms |-> arms, models |-> models]

MCRequests ==
  {Request("config", <<"syn", "dc">>, <<"bm25", "live">>, <<"claude", "gpt">>),
   Request("config", <<"syn">>, <<"mem0", "bm25">>, <<"open", "claude">>),
   Request("config", <<"dc", "syn">>, <<"mine">>, <<"gpt">>),
   Request("sweep", <<"syn", "dc", "syn">>, <<"bm25", "mine">>, <<>>),
   Request("sweep", <<"syn">>, <<"live", "bm25">>, <<>>)}

MCAblationDatasets == <<"dc">>
MCAblationArms == <<"bm25", "random">>
=============================================================================
