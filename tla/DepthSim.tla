------------------------------- MODULE DepthSim -------------------------------
(***************************************************************************)
(* orchestrator/depthsim/sim.go: EmpiricalCrossover and the SimulatePRet    *)
(* calls it makes.  One call splits Trials seeded trials over goroutines,   *)
(* goroutine w taking w, w + W, w + 2W, .., each with a private counter it  *)
(* stores in its own element of partial; the caller waits for all of them   *)
(* and adds the elements up.                                                *)
(*                                                                          *)
(* A trial is reseeded from its arm, depth and global index, so whether it  *)
(* survives is a function of those: Draws holds the trials that do.         *)
(***************************************************************************)
EXTENDS Integers, FiniteSets

CONSTANTS
  MaxDepth,    \* the maxDepth argument
  Trials,      \* the n argument, possibly none or fewer
  WorkersArg,  \* the workers argument, possibly none or fewer
  Draws        \* arm and depth |-> the trials that survive; one is picked

Arms == {"similarity", "structured"}

ASSUME DepthSimAssumption ==
  /\ MaxDepth \in Nat /\ Trials \in Int /\ WorkersArg \in Int
  /\ Draws \subseteq [Arms \X (1..MaxDepth) -> SUBSET (0..(Trials - 1))]

W == IF WorkersArg < 1 THEN 1 ELSE WorkersArg
Goroutines == 0..(W - 1)

VARIABLES
  draws,      \* the trials that survive, in this execution
  depth, arm, \* the call that is running
  phase,      \* where it is
  spawned,    \* goroutines started
  pc,         \* goroutine |-> "none", "running", "stored", "ended"
  at,         \* the trial it is at
  count,      \* its private counter
  partial,    \* the shared slice
  wg,         \* the wait group
  summed,     \* elements of partial added to total
  total,
  estimate,   \* arm |-> the survivors counted at this depth, None until known
  crossover   \* what EmpiricalCrossover returned, None until it has

vars == <<draws, depth, arm, phase, spawned, pc, at, count, partial, wg, summed,
          total, estimate, crossover>>

None == 0 - 1

Init ==
  /\ draws \in Draws
  /\ depth = 1 /\ arm = "similarity"
  /\ phase = IF MaxDepth = 0 THEN "returned" ELSE "entering"
  /\ spawned = 0
  /\ pc = [w \in Goroutines |-> "none"]
  /\ at = [w \in Goroutines |-> 0] /\ count = [w \in Goroutines |-> 0]
  /\ partial = [w \in Goroutines |-> 0]
  /\ wg = 0 /\ summed = 0 /\ total = 0
  /\ estimate = [a \in Arms |-> None]
  /\ crossover = IF MaxDepth = 0 THEN 0 ELSE None

------------------------------------------------------------------------------
(* SimulatePRet                                                             *)

\* Without trials the estimate is empty.
Enter ==
  /\ phase = "entering"
  /\ phase' = IF Trials <= 0 THEN "counted" ELSE "spawning"
  /\ spawned' = 0 /\ summed' = 0 /\ total' = 0
  /\ pc' = [w \in Goroutines |-> "none"]
  /\ partial' = [w \in Goroutines |-> 0]
  /\ UNCHANGED <<draws, depth, arm, at, count, wg, estimate, crossover>>

FirstTrial(w) == w

Added == wg + 1

Spawn ==
  /\ phase = "spawning" /\ spawned < W
  /\ wg' = Added
  /\ pc' = [pc EXCEPT ![spawned] = "running"]
  /\ at' = [at EXCEPT ![spawned] = FirstTrial(spawned)]
  /\ count' = [count EXCEPT ![spawned] = 0]
  /\ spawned' = spawned + 1
  /\ UNCHANGED <<draws, depth, arm, phase, partial, summed, total, estimate, crossover>>

Trial(w) ==
  /\ pc[w] = "running" /\ at[w] < Trials
  /\ count' = [count EXCEPT ![w] = IF at[w] \in draws[<<arm, depth>>] THEN @ + 1 ELSE @]
  /\ at' = [at EXCEPT ![w] = @ + W]
  /\ UNCHANGED <<draws, depth, arm, phase, spawned, pc, partial, wg, summed, total, estimate, crossover>>

Store(w) ==
  /\ pc[w] = "running" /\ at[w] >= Trials
  /\ partial' = [partial EXCEPT ![w] = count[w]]
  /\ pc' = [pc EXCEPT ![w] = "stored"]
  /\ UNCHANGED <<draws, depth, arm, phase, spawned, at, count, wg, summed, total, estimate, crossover>>

\* Slip: a goroutine ends without marking the wait group.
MarkedSlip == wg
Marked == wg - 1

Done(w) ==
  /\ pc[w] = "stored"
  /\ wg' = Marked
  /\ pc' = [pc EXCEPT ![w] = "ended"]
  /\ UNCHANGED <<draws, depth, arm, phase, spawned, at, count, partial, summed, total, estimate, crossover>>

\* Slip: no wait.
JoinedSlip == TRUE
Joined == wg = 0

Wait ==
  /\ phase = "spawning" /\ spawned = W /\ Joined
  /\ phase' = "summing"
  /\ UNCHANGED <<draws, depth, arm, spawned, pc, at, count, partial, wg, summed, total, estimate, crossover>>

Sum ==
  /\ phase = "summing" /\ summed < W
  /\ total' = total + partial[summed]
  /\ summed' = summed + 1
  /\ UNCHANGED <<draws, depth, arm, phase, spawned, pc, at, count, partial, wg, estimate, crossover>>

Summed ==
  /\ phase = "summing" /\ summed = W
  /\ phase' = "counted"
  /\ UNCHANGED <<draws, depth, arm, spawned, pc, at, count, partial, wg, summed, total, estimate, crossover>>

------------------------------------------------------------------------------
(* EmpiricalCrossover                                                       *)

\* Slip: a tie counts as a lead.
LeadsSlip == total >= estimate["similarity"]
Leads == total > estimate["similarity"]

Simulated ==
  /\ phase = "counted" /\ arm = "similarity"
  /\ estimate' = [estimate EXCEPT !["similarity"] = total]
  /\ arm' = "structured" /\ phase' = "entering"
  /\ UNCHANGED <<draws, depth, spawned, pc, at, count, partial, wg, summed, total, crossover>>

Compare ==
  /\ phase = "counted" /\ arm = "structured"
  /\ IF Leads \/ depth = MaxDepth
     THEN /\ crossover' = IF Leads THEN depth ELSE 0
          /\ estimate' = [estimate EXCEPT !["structured"] = total]
          /\ phase' = "returned"
          /\ UNCHANGED <<depth, arm>>
     ELSE /\ depth' = depth + 1 /\ arm' = "similarity"
          /\ estimate' = [a \in Arms |-> None]
          /\ phase' = "entering"
          /\ UNCHANGED crossover
  /\ UNCHANGED <<draws, spawned, pc, at, count, partial, wg, summed, total>>

Caller == Enter \/ Spawn \/ Wait \/ Sum \/ Summed \/ Simulated \/ Compare
Goroutine(w) == Trial(w) \/ Store(w) \/ Done(w)

Returned == phase = "returned" /\ UNCHANGED vars

Next == Caller \/ (\E w \in Goroutines : Goroutine(w)) \/ Returned

\* The Go scheduler starves no runnable goroutine.
Spec == Init /\ [][Next]_vars /\ WF_vars(Caller) /\ \A w \in Goroutines : WF_vars(Goroutine(w))

------------------------------------------------------------------------------
Survivors(a, d) == Cardinality(draws[<<a, d>>])

TypeOK ==
  /\ draws \in Draws
  /\ depth \in 1..(MaxDepth + 1) /\ arm \in Arms
  /\ phase \in {"entering", "spawning", "summing", "counted", "returned"}
  /\ spawned \in 0..W /\ wg \in 0..W /\ summed \in 0..W
  /\ pc \in [Goroutines -> {"none", "running", "stored", "ended"}]
  /\ at \in [Goroutines -> Nat]
  /\ count \in [Goroutines -> Nat] /\ partial \in [Goroutines -> Nat]
  /\ total \in Nat
  /\ estimate \in [Arms -> Nat \cup {None}]
  /\ crossover \in 0..MaxDepth \cup {None}

\* Every estimate counts each of its trials exactly once, whatever the number
\* of workers and the schedule (sim.go:152 "the pooled success count is the
\* same for 1 worker or N workers"), and the shared slice is read only when no
\* goroutine can still write to it (sim.go:202 "no lock, no data race").
EstimateExact ==
  /\ TypeOK
  /\ \A a \in Arms : estimate[a] # None => estimate[a] = Survivors(a, depth)
  /\ phase \in {"summing", "counted"} =>
       \A w \in Goroutines : pc[w] \notin {"running", "stored"}

\* The depth returned is the first one at which the structured arm has strictly
\* more survivors, or 0 (sim.go:249).
FirstLead ==
  phase = "returned" =>
    LET lead == {d \in 1..MaxDepth : Survivors("structured", d) > Survivors("similarity", d)}
    IN  IF lead = {} THEN crossover = 0
        ELSE crossover \in lead /\ \A d \in lead : crossover <= d

\* The simulation ends: every goroutine runs out of trials.
Terminates == <>(phase = "returned")
==============================================================================
