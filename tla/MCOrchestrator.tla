--------------------------- MODULE MCOrchestrator ---------------------------
(***************************************************************************)
(* Model values for SWEOrchestrator: the runs TLC explores differ in the   *)
(* steps they cover (first step, step before which they stop) and in the   *)
(* switches of the constructor.                                            *)
(***************************************************************************)
EXTENDS SWEOrchestrator

Args(p, r, l, i, n, from, to) ==
    [perception |-> p, recovery |-> r, relay |-> l, inject |-> i, limit |-> n,
     start |-> from, stop |-> to]

(* implementer and verifier under every combination of the switches *)
FromImplement == {Args(p, r, l, i, 1, 6, 8) : p, r, l, i \in BOOLEAN}

(* analyzer, both locators, their merge and planner, recovering *)
UpToPlan == {Args(TRUE, TRUE, TRUE, FALSE, 1, 1, 6)}

(* the implementer alone, with room for commands after a stop *)
OnlyImplement == {Args(TRUE, r, TRUE, FALSE, 3, 6, 7) : r \in BOOLEAN}

(* the verifier alone, with the test run it needs for a verdict *)
OnlyVerify == {Args(TRUE, TRUE, TRUE, FALSE, 2, 7, 8)}

(* every step, without perception: only model errors are recovered from; *)
(* with a second iteration, all of them without recovery and the last    *)
(* five with it                                                          *)
AllSteps == {Args(FALSE, r, l, FALSE, 1, 1, 8) : r, l \in BOOLEAN}
            \cup {Args(FALSE, FALSE, FALSE, FALSE, 2, 1, 8),
                  Args(FALSE, TRUE, TRUE, FALSE, 2, 3, 8)}

Runs == FromImplement \cup UpToPlan \cup OnlyImplement \cup OnlyVerify \cup AllSteps

(* max_history: less than a step records, more than any run records *)
FewHistories == {1, 30}
=============================================================================
