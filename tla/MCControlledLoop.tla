-------------------------- MODULE MCControlledLoop --------------------------
(* The instances of ControlledLoop that TLC checks. *)
EXTENDS ControlledLoop

(* The suspected file, that one with another, and the other alone; an edit *)
(* off the suspected path is of the last.                                  *)
Files == {"a.py", "a.py b.py", "b.py"}
OnlyA == {"a.py"}

Out(edit, passed) ==
    [edit |-> edit, passed |-> passed, deferred |-> FALSE, quality |-> {}, validation |-> "related",
     broken |-> {}, broke |-> FALSE, evidence |-> FALSE, nested |-> TRUE,
     files |-> IF edit = "off" THEN "b.py" ELSE "a.py"]
Outs ==
    {Out("none", FALSE), Out("tests", FALSE), Out("off", FALSE), Out("source", FALSE),
     Out("source", TRUE), Out("mixed", TRUE), Out("none", TRUE),
     [Out("source", FALSE) EXCEPT !.broken = {"contract"}, !.files = "a.py b.py"],
     [Out("source", FALSE) EXCEPT !.broken = {"intent"}],
     [Out("source", FALSE) EXCEPT !.validation = "missing"],
     [Out("none", FALSE) EXCEPT !.broke = TRUE]}

Calm == [exception |-> "", unapplied |-> FALSE, outside |-> FALSE, asserts |-> FALSE,
         excerpt |-> FALSE, family |-> "", barren |-> FALSE]

Loop0(controller, program, chain) ==
    [controller |-> controller, program |-> program, fair |-> "", tokens |-> 100, steps |-> 4,
     units |-> 4, replays |-> 3, unproductive |-> 2, ambiguous |-> FALSE, strong |-> FALSE,
     focused |-> FALSE, chain |-> chain, active |-> IF chain = <<>> THEN 0 ELSE 1,
     evidence |-> Calm, outcomes |-> Outs, costs |-> {20}]

Fact == NewObject("shared_fact", "")
Choice == NewObject("selection", "")
Verdict == NewObject("verifier_verdict", "")

Evidences ==
    {Calm, [Calm EXCEPT !.exception = "syntax"], [Calm EXCEPT !.asserts = TRUE],
     [Calm EXCEPT !.exception = "runtime"], [Calm EXCEPT !.barren = TRUE],
     [Calm EXCEPT !.family = "selection"]}

Chains == {<<Fact, Choice>>, <<Choice>>, <<Verdict, Choice>>, <<>>,
           <<Choice, NewObject("verifier_verdict", "exhausted")>>}

(* PARC on every chain of objects, with and without a focused boundary;    *)
(* one longer loop with a price at which the last replay is refused.       *)
ParcLoops ==
    {[Loop0("parc", Recheck, ch) EXCEPT !.focused = f] : ch \in Chains, f \in BOOLEAN}
    \cup {[Loop0("parc", RecheckObject, <<Fact, Choice>>)
            EXCEPT !.units = 6, !.steps = 6, !.replays = 2, !.costs = {20, 48}]}

Failures ==
    {Out("none", FALSE), Out("tests", FALSE), Out("off", FALSE), Out("source", FALSE),
     [Out("source", FALSE) EXCEPT !.broken = {"contract"}, !.validation = "missing"]}

Astray == {Out("none", FALSE), Out("off", FALSE), [Out("off", FALSE) EXCEPT !.validation = "missing"]}

Unfinished ==
    {Out("none", FALSE), Out("off", FALSE), [Out("source", FALSE) EXCEPT !.broken = {"contract"}],
     [Out("source", FALSE) EXCEPT !.broken = {"contract"}, !.validation = "missing"]}

(* CAR on every kind of failure, with the two policies of fair replay, in  *)
(* longer loops, without objects until its cheap actions are used up, and  *)
(* with two or three and no budget that ends the loop before they do, so   *)
(* that a boost may be all that is left.                                   *)
CarLoops ==
    {[Loop0("car", Recheck, ch) EXCEPT !.evidence = e] : ch \in Chains, e \in Evidences}
    \cup {[Loop0("car", Recheck, <<Choice>>) EXCEPT !.fair = f, !.costs = {20, 48}] :
            f \in {"single_expensive_attempt_v1", "evidence_gated_retry_v1"}}
    \cup {[Loop0("car", Recheck, ch) EXCEPT !.units = 6, !.steps = 6, !.evidence.asserts = TRUE] :
            ch \in {<<Fact, Choice>>, <<Verdict, Choice>>}}
    \cup {[Loop0("car", Recheck, <<>>) EXCEPT !.units = 6, !.steps = 8, !.replays = 4]}
    \cup {[Loop0("car", Recheck, ch) EXCEPT
            !.units = 18, !.steps = 18, !.replays = HistoryWindow,
            !.evidence.family = f, !.outcomes = Unfinished, !.costs = {2}] :
            ch \in {<<>>, <<Fact>>}, f \in {"", "selection"}}
    \cup {[Loop0("car", Recheck, <<Fact, Choice, Verdict>>) EXCEPT
            !.units = 18, !.steps = 18, !.replays = HistoryWindow,
            !.evidence.family = "selection", !.outcomes = Failures, !.costs = {2}]}
    \cup {[Loop0("car", Recheck, <<Fact, Choice>>) EXCEPT
            !.units = 18, !.steps = 18, !.replays = HistoryWindow,
            !.evidence.family = "selection", !.outcomes = Astray, !.costs = {2}]}
AllLoops == ParcLoops \cup CarLoops

(* CAR with cheap replays that only ever edit files nobody suspects.       *)
AstrayLoops ==
    {[Loop0("car", Recheck, <<Fact, Choice>>) EXCEPT
        !.units = 6, !.steps = 6, !.replays = 4, !.evidence.family = "selection",
        !.outcomes = {Out("off", FALSE)}, !.costs = {10}]}

=============================================================================
