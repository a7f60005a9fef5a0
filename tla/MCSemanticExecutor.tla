------------------------- MODULE MCSemanticExecutor -------------------------
(* The instances of SemanticExecutor that TLC checks. *)
EXTENDS SemanticExecutor

(* The suspected file, that one with another, and the other alone; an edit *)
(* off the suspected path is of the last.                                  *)
Files == {"a.py", "a.py b.py", "b.py"}
OnlyA == {"a.py"}

(* A selection of what replays leave behind that has every kind of edit    *)
(* and every flag, violations of the contract and the intent, and replays  *)
(* that run out of tokens.                                                 *)
Out(edit, passed) ==
    [edit |-> edit, passed |-> passed, deferred |-> FALSE, quality |-> {}, validation |-> "related",
     broken |-> {}, broke |-> FALSE, evidence |-> FALSE, nested |-> TRUE,
     files |-> IF edit = "off" THEN "b.py" ELSE "a.py"]
Outs ==
    {Out("none", FALSE), Out("tests", FALSE), Out("other", FALSE), Out("off", FALSE),
     Out("source", FALSE), Out("source", TRUE), Out("mixed", TRUE), Out("tests", TRUE),
     [Out("none", FALSE) EXCEPT !.quality = {"readonly_replay_exhausted"}],
     [Out("none", FALSE) EXCEPT !.broke = TRUE],
     [Out("none", FALSE) EXCEPT !.broken = {"intent"}],
     [Out("none", FALSE) EXCEPT !.broken = {"contract"}],
     [Out("source", FALSE) EXCEPT !.broken = {"contract"}, !.files = "a.py b.py"],
     [Out("source", FALSE) EXCEPT !.nested = FALSE, !.files = "a.py b.py", !.evidence = TRUE],
     [Out("source", FALSE) EXCEPT !.validation = "missing",
                                  !.quality = {"source_diff_without_observed_write_command"}],
     [Out("source", TRUE) EXCEPT !.deferred = TRUE],
     [Out("mixed", TRUE) EXCEPT !.deferred = TRUE]}


(* The few that a controlled loop, which may answer anything, is run with. *)
FewOuts ==
    {Out("none", FALSE), Out("source", FALSE), Out("source", TRUE),
     [Out("none", FALSE) EXCEPT !.broke = TRUE],
     [Out("source", FALSE) EXCEPT !.nested = FALSE, !.files = "a.py b.py", !.evidence = TRUE]}

Loop0(kind, controller, fair, program) ==
    [unit |-> kind, program |-> program, controller |-> controller, fair |-> fair,
     tokens |-> 100, steps |-> 4, units |-> IF controller # "none" THEN 3 ELSE IF kind = "action" THEN 4 ELSE 2,
     replays |-> IF controller = "none" THEN 3 ELSE 2, unproductive |-> 2,
     object |-> "selection", objId |-> TRUE, ambiguous |-> FALSE, strong |-> FALSE,
     hasInitial |-> TRUE, skips |-> FALSE,
     outcomes |-> IF controller = "none" THEN Outs ELSE FewOuts,
     costs |-> IF controller = "none" THEN {20, 48} ELSE {30}]

(* Action loops without a controller, on each kind of object, with and     *)
(* without strong models; one with a token budget below the price of a     *)
(* replay, and one with none.                                              *)
PlainLoops ==
    {[Loop0("action", "none", "", <<Recheck>>) EXCEPT !.object = "shared_fact", !.skips = TRUE],
     Loop0("action", "none", "", <<Boost>>),
     [Loop0("action", "none", "", <<Revoke>>) EXCEPT !.object = "shared_fact", !.strong = TRUE],
     [Loop0("action", "none", "", <<RecheckObject>>) EXCEPT !.object = "verifier_verdict"],
     [Loop0("action", "none", "", <<Expand>>) EXCEPT !.ambiguous = TRUE],
     [Loop0("action", "none", "", <<ResetAll>>) EXCEPT !.tokens = 30],
     [Loop0("action", "none", "", <<Recheck>>) EXCEPT !.tokens = 0]}

(* Fragments, the open programs, and the controllers with the fair-replay  *)
(* policies of CAR.                                                        *)
FragmentLoops ==
    {[Loop0("fragment", "none", "", <<Recheck, Repair("local", "normal")>>) EXCEPT !.steps = 2],
     [Loop0("fragment", "none", "", <<Boost, Repair("local_boosted", "")>>)
        EXCEPT !.object = "shared_fact", !.skips = TRUE],
     [Loop0("open", "none", "", <<ResetAll, Restart>>) EXCEPT !.steps = 2, !.skips = TRUE],
     [Loop0("open", "none", "", <<Revoke, Repair("object_revoked_boosted_local", "boosted")>>)
        EXCEPT !.steps = 2]}
ControlledLoops ==
    {[Loop0("action", "parc", "", <<Recheck>>) EXCEPT !.steps = 3],
     [Loop0("action", "car", "single_expensive_attempt_v1", <<Boost>>) EXCEPT !.steps = 3],
     [Loop0("action", "car", "evidence_gated_retry_v1", <<Expand>>) EXCEPT !.steps = 3]}
AllLoops == PlainLoops \cup FragmentLoops \cup ControlledLoops

=============================================================================
