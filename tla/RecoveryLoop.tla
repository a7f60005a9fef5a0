---------------------------- MODULE RecoveryLoop ----------------------------
(***************************************************************************)
(* What a run of the BCMR coordinator promises whoever started it: it      *)
(* judges its work with the verifier, calls recovery at most budget times, *)
(* comes to an end, and reports success only when the last verdict was a   *)
(* pass.  The trial executions of candidate programs do not show.          *)
(***************************************************************************)
EXTENDS Naturals

VARIABLES budget, used, verified, over, success

loopVars == <<budget, used, verified, over, success>>

LoopInit ==
    /\ budget \in Nat
    /\ used = 0
    /\ verified = FALSE
    /\ over = FALSE
    /\ success = FALSE

Verify ==
    /\ ~over
    /\ verified' \in BOOLEAN
    /\ UNCHANGED <<budget, used, over, success>>

Recover ==
    /\ ~over
    /\ used < budget
    /\ used' = used + 1
    /\ UNCHANGED <<budget, verified, over, success>>

End ==
    /\ ~over
    /\ over' = TRUE
    /\ success' \in {FALSE, verified}
    /\ UNCHANGED <<budget, used, verified>>

LoopNext == Verify \/ Recover \/ End

LoopSpec == LoopInit /\ [][LoopNext]_loopVars /\ WF_loopVars(End)

=============================================================================
