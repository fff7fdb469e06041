------------------------------ MODULE MemoryArm ------------------------------
(***************************************************************************)
(* A memory arm as its caller sees it (membench.retrieval.base.MemorySystem *)
(* as the arms of ArmModel implement it).  This is the promise a wrapper    *)
(* around an arm has to keep.                                               *)
(***************************************************************************)
EXTENDS ArmModel

VARIABLES
  arm,     \* which arm it is
  corpus,  \* the arm's _items, in the order they were written
  rng,     \* the state of its generator (_rng)
  answer   \* what the last call returned

armVars == <<arm, corpus, rng, answer>>

Init ==
  /\ arm \in Arms
  /\ corpus = <<>>
  /\ rng = Seed
  /\ answer = Written

Write(batch) ==
  /\ corpus' = corpus \o batch
  /\ answer' = IF RejectsRewrite(arm) /\ corpus # <<>> THEN Raised ELSE Written
  /\ UNCHANGED <<arm, rng>>

Retrieve(r) ==
  /\ answer' = IF Raises(arm, corpus, r) THEN Raised
                                    ELSE Returned(r, Ranking(arm, corpus, rng, r))
  /\ rng' = Advanced(arm, corpus, rng)
  /\ UNCHANGED <<arm, corpus>>

Next ==
  \/ \E batch \in Batches : Write(batch)
  \/ \E r \in Requests : Retrieve(r)

Spec == Init /\ [][Next]_armVars
==============================================================================
