--------------------------- MODULE MCOrchestrator ---------------------------
(* A small sweep for the orchestrator.                                     *)
EXTENDS Orchestrator

\* One dataset, so that the seed is all that tells its shards apart, and a
\* blank name.
MCSeeds == <<"synthetic", "">>
=============================================================================
