---------------------------- MODULE MCCoordinator ----------------------------
(* The instances of Coordinator that TLC checks. *)
EXTENDS Coordinator

Run(v3, capture, outcomes, live, followups, budget) ==
    [v3 |-> v3, capture |-> capture, outcomes |-> outcomes, live |-> live,
     followups |-> followups, budget |-> budget]

(* With trials.                                                            *)
TrialRuns == {Run(TRUE, TRUE, TRUE, TRUE, 0, 1)}

(* Both ways of recovering, with and without trials; the budgets let a     *)
(* recovery fail inside another where there are no trials.                 *)
AllSettings ==
    {Run(TRUE, FALSE, TRUE, TRUE, 0, 2), Run(TRUE, TRUE, TRUE, TRUE, 0, 1),
     Run(TRUE, TRUE, TRUE, FALSE, 0, 1), Run(TRUE, TRUE, FALSE, TRUE, 0, 1),
     Run(TRUE, TRUE, FALSE, FALSE, 0, 1),
     Run(FALSE, FALSE, TRUE, TRUE, 0, 3), Run(FALSE, TRUE, TRUE, TRUE, 1, 1)}

SomePrograms ==
    {<<Rollback, Replay("verifier", FALSE)>>,
     <<Revoke("latest_patch"), Replay("patcher", FALSE), Replay("verifier", TRUE)>>,
     <<Inspect, Escalate, SelectiveReplay("patcher", FALSE), Rollback>>}

OneProgram == {<<Replay("patcher", FALSE)>>, <<Rollback>>}

=============================================================================
