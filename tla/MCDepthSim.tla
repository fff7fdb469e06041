------------------------------ MODULE MCDepthSim ------------------------------
(* Small simulations for DepthSim.                                          *)
EXTENDS DepthSim

\* The similarity arm survives no trial but the second at depth one, and the
\* even ones at depth two; the structured arm survives any.
MCDraws ==
  {f \in [Arms \X (1..MaxDepth) -> SUBSET (0..(Trials - 1))] :
     /\ f["similarity", 1] = {1}
     /\ f["similarity", 2] = {t \in 0..(Trials - 1) : t % 2 = 0}}
==============================================================================
