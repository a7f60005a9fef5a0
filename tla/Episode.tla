------------------------------ MODULE Episode ------------------------------
(***************************************************************************)
(* What a caller of SWEOrchestrator.run is promised (the loop over the     *)
(* steps, orchestrator.py:834-874): the steps from First on are passed one *)
(* after the other, each once; a step leaves the episode alive or not, and *)
(* at most one recovery is counted for it; no step is started once the     *)
(* episode is dead; the episode comes to an end, and from then on its      *)
(* outcome does not change whatever threads are left behind.               *)
(***************************************************************************)
EXTENDS Integers

CONSTANT Last    \* the number of steps

VARIABLES
    next,        \* the step to be passed next
    alive,       \* has no step failed for good?
    recovered,   \* the recoveries so far
    over

epVars == <<next, alive, recovered, over>>

EpInit ==
    /\ next \in 1 .. Last
    /\ alive = TRUE
    /\ recovered = 0
    /\ over = FALSE

(* The step succeeds, is recovered from, or ends the episode. *)
Pass ==
    /\ ~ over /\ alive /\ next <= Last
    /\ next' = next + 1
    /\ alive' \in BOOLEAN
    /\ recovered' \in {recovered, recovered + 1}
    /\ UNCHANGED over

(* The episode ends; it may fail if a step raised, and the recovery that   *)
(* step was at stays counted.                                              *)
End ==
    /\ ~ over
    /\ over' = TRUE
    /\ alive' \in {alive, FALSE}
    /\ recovered' \in {recovered, recovered + 1}
    /\ UNCHANGED next

EpNext == Pass \/ End

EpSpec == EpInit /\ [][EpNext]_epVars /\ WF_epVars(End)
=============================================================================
