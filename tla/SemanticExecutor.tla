-------------------------- MODULE SemanticExecutor --------------------------
(***************************************************************************)
(* SemanticProgramExecutor.execute_semantic                                *)
(* (bcmr_swe/recovery/semantic_executor.py): a semantic recovery program   *)
(* is run unit by unit, each step compiled to primitives, each primitive   *)
(* behind a budget gate, each replay judged and remembered; the ledger     *)
(* then decides on the next unit.                                          *)
(*                                                                         *)
(* A run is open (the given program once), a loop over fragments, or a     *)
(* loop over single actions, with or without a controller.  The controller *)
(* is any that answers: select_car_action and suggest_next_action are      *)
(* scores over the object lifecycle, and nothing here depends on which     *)
(* action they prefer.  What a replay leaves behind is chosen from         *)
(* Outcomes, what it costs from Costs.                                     *)
(***************************************************************************)
EXTENDS SemanticNext

CONSTANTS
    Runs,        \* the ways a loop is set up
    Outcomes,    \* what a replay may leave behind
    Costs        \* thousands of tokens a replay may take

Controllers == {"none", "parc", "car"}
Fairness == {"", "single_expensive_attempt_v1", "evidence_gated_retry_v1"}

(* objId: the active object has an id; skips: the internal verifier may    *)
(* defer to the official evaluation; outcomes, costs: what its replays may *)
(* leave behind and take.                                                  *)
RunSetting ==
    [unit : {"open", "fragment", "action"}, program : Seq(SemanticStep) \ {<<>>},
     controller : Controllers, fair : Fairness, tokens : Nat, steps : Nat \ {0},
     units : Nat \ {0}, replays : 1 .. HistoryWindow, unproductive : Nat \ {0},
     object : ObjectTypes, objId : BOOLEAN, ambiguous : BOOLEAN, strong : BOOLEAN,
     hasInitial : BOOLEAN, skips : BOOLEAN, outcomes : SUBSET Outcomes, costs : SUBSET Costs]

ASSUME RunsAssumption == Runs \subseteq RunSetting
ASSUME OutcomesAssumption == Outcomes \subseteq OutcomeRecord
ASSUME CostsAssumption == Costs \subseteq Nat
ASSUME FilesAssumption == FileSets # {} /\ FileSets \subseteq STRING /\ Suspected \subseteq FileSets

VARIABLES
    run,         \* the set-up
    pc,          \* where execute_semantic is
    unit,        \* the steps of the current unit that are left
    units,       \* units begun
    step,        \* the step being executed
    prims,       \* its primitives that are left
    guard,       \* the guard of the step, NoGuard before it has one
    stopped,     \* semantic_step_budget_stopped
    ledger,      \* the recovery ledger
    success,
    reason,      \* is budget_stop_reason set?
    verdict,     \* was the last replay passed by the verifier or the oracle?
    spent        \* thousands of tokens the replays took

vars == <<run, pc, unit, units, step, prims, guard, stopped, ledger, success, reason,
          verdict, spent>>
control == <<run, unit, units, step>>

InitialLedger(r) ==
    [tokens |-> r.tokens, late |-> FALSE, steps |-> r.steps, tried |-> <<>>,
     profile |-> "normal", object |-> r.object, guards |-> <<>>, replays |-> <<>>,
     contracts |-> <<>>, candidates |-> <<>>, suggestion |-> ""]

Closed == run.unit # "open"
ControllerAnswers == IF run.controller = "none" THEN {""} ELSE Actions \cup {"", "STOP"}

Init ==
    /\ run \in Runs
    /\ pc = "start"
    /\ unit = run.program
    /\ units = 1
    /\ step = Recheck
    /\ prims = <<>>
    /\ guard = NoGuard
    /\ stopped = FALSE
    /\ ledger = InitialLedger(run)
    /\ success = FALSE
    /\ reason = FALSE
    /\ verdict = FALSE
    /\ spent = 0

(* An enforced controller may replace the first action of an action loop.  *)
ChooseFirst ==
    /\ pc = "start"
    /\ \E asked \in IF run.unit = "action" THEN ControllerAnswers ELSE {""} :
         unit' = FirstUnit(run.program, asked, ledger)
    /\ pc' = "unit"
    /\ UNCHANGED <<run, units, step, prims, guard, stopped, ledger, success, reason, verdict, spent>>

(* A unit is popped: the goal may be reached already (an enforced          *)
(* controller), and no unit starts on an exhausted budget.                 *)
BeginUnit ==
    /\ pc = "unit"
    /\ \/ run.controller # "none" /\ pc' = "done" /\ UNCHANGED reason
       \/ HardExhausted(ledger) /\ pc' = "done" /\ reason' = TRUE
       \/ ~HardExhausted(ledger) /\ pc' = "step" /\ UNCHANGED reason
    /\ UNCHANGED <<run, unit, units, step, prims, guard, stopped, ledger, success, verdict, spent>>

(* A step is compiled unless the budget is exhausted.                      *)
BeginStep ==
    /\ pc = "step"
    /\ step' = Head(unit)
    /\ unit' = Tail(unit)
    /\ stopped' = HardExhausted(ledger)
    /\ reason' = (reason \/ HardExhausted(ledger))
    /\ guard' = IF HardExhausted(ledger) THEN [NoGuard EXCEPT !.suggestion = "STOP"] ELSE NoGuard
    /\ prims' = IF HardExhausted(ledger) THEN <<>> ELSE Compile(Head(unit), ledger.profile)
    /\ pc' = "prims"
    /\ UNCHANGED <<run, units, ledger, success, verdict, spent>>

(* The gate before a primitive refuses: the step stops with a guard that   *)
(* is not part of the history.                                             *)
Refuse ==
    /\ pc = "prims" /\ prims # <<>>
    /\ \E informed \in BOOLEAN : Gated(ledger, Head(prims), step.act, run, informed)
    /\ stopped' = TRUE
    /\ reason' = TRUE
    /\ guard' = [NoGuard EXCEPT !.suggestion = "STOP"]
    /\ prims' = <<>>
    /\ UNCHANGED <<control, pc, ledger, success, verdict, spent>>

Allowed(op) ==
    /\ pc = "prims" /\ prims # <<>>
    /\ Head(prims).op = op
    /\ \E informed \in BOOLEAN : ~Gated(ledger, Head(prims), step.act, run, informed)

(* After every primitive: without success, an exhausted budget stops the   *)
(* step, and what guard there is then suggests to stop.                    *)
AfterPrimitive(l, ok, g) ==
    IF ~ok /\ HardExhausted(l)
    THEN /\ stopped' = TRUE
         /\ reason' = TRUE
         /\ guard' = [g EXCEPT !.suggestion = "STOP"]
         /\ prims' = <<>>
    ELSE /\ guard' = g
         /\ prims' = Tail(prims)
         /\ UNCHANGED <<stopped, reason>>

(* Reading evidence, verifying, restoring and boosting take time.          *)
Quick(l) ==
    \E late \in {l.late, TRUE} :
        LET m == [l EXCEPT !.late = late]
        IN  /\ ledger' = m
            /\ AfterPrimitive(m, success, guard)
            /\ UNCHANGED <<control, pc, success, verdict, spent>>

Inspect == (Allowed("READ_EVIDENCE") \/ Allowed("FOCUSED_VERIFY")) /\ Quick(ledger)

(* CLEAR_LOCAL_STATE: a shared fact that is revoked hands over to the      *)
(* selection it supported.                                                 *)
Clear ==
    /\ Allowed("CLEAR_LOCAL_STATE")
    /\ Quick([ledger EXCEPT !.object = IF step.all THEN ""
                                       ELSE IF @ = "shared_fact" /\ run.objId THEN "selection"
                                       ELSE @])

Restore == Allowed("ROLLBACK_ANCHOR") /\ Quick(ledger)

(* BOOST_EXECUTION: only a stronger prompt that changes the capability     *)
(* changes the profile.                                                    *)
BoostExecution ==
    /\ Allowed("BOOST_EXECUTION")
    /\ \E changed \in BOOLEAN :
         Quick([ledger EXCEPT !.profile = IF Head(prims).stronger /\ changed THEN "boosted" ELSE @])

(* CONSTRAINED_REPLAY: the cost is remembered before it is charged, the    *)
(* guard goes into the history, and a replay that ran out of tokens leaves *)
(* none.                                                                   *)
Replay ==
    /\ Allowed("CONSTRAINED_REPLAY")
    /\ \E out \in run.outcomes, cost \in run.costs, late \in {ledger.late, TRUE} :
         LET g == BuildGuard(out, ledger.object)
             left == IF out.broke \/ cost >= ledger.tokens THEN 0 ELSE ledger.tokens - cost
         IN  /\ out.deferred => run.skips
             /\ guard' = g
             /\ ledger' = [ledger EXCEPT
                  !.tokens = left, !.late = late,
                  !.guards = Append(@, g),
                  !.replays = Append(@, [act |-> step.act, pre |-> Head(prims).pre, scope |-> Head(prims).scope,
                                         cost |-> cost, tried |-> Len(ledger.tried) + 1])]
             /\ spent' = spent + cost
             /\ pc' = IF out.passed THEN (IF out.deferred THEN "deferred" ELSE "passed") ELSE "failed"
    /\ UNCHANGED <<control, prims, stopped, success, reason, verdict>>

(* What follows a verdict: the guard is put in the history in its final    *)
(* form, the execution contract recorded and the candidate remembered.     *)
(* Faulty variant: a change outside the suspected path will do.            *)
JudgedLeniently(g, ok) ==
    \E saved \in BOOLEAN :
        LET l == [ledger EXCEPT
                   !.guards[Len(ledger.guards)] = g,
                   !.contracts = Append(@, Contract(ledger, Head(prims), step.act, g, run.controller)),
                   !.candidates = Remember(@, g, saved)]
            won == IF Closed THEN g.mode \in SuccessModes ELSE ok
        IN  /\ (saved => Rememberable(g))
            /\ ledger' = l
            /\ verdict' = ok
            /\ success' = won
            /\ AfterPrimitive(l, won, g)
            /\ pc' = "prims"
            /\ UNCHANGED <<control, spent>>
(* Faulty variant: an edit whose verdict is still out will do.            *)
JudgedEarly(g, ok) ==
    \E saved \in BOOLEAN :
        LET l == [ledger EXCEPT
                   !.guards[Len(ledger.guards)] = g,
                   !.contracts = Append(@, Contract(ledger, Head(prims), step.act, g, run.controller)),
                   !.candidates = Remember(@, g, saved)]
            won == IF Closed THEN g.mode \in {"strong_source_success", "source_edit_pending_official"} ELSE ok
        IN  /\ (saved => Rememberable(g))
            /\ ledger' = l
            /\ verdict' = ok
            /\ success' = won
            /\ AfterPrimitive(l, won, g)
            /\ pc' = "prims"
            /\ UNCHANGED <<control, spent>>
Judged(g, ok) ==
    \E saved \in BOOLEAN :
        LET l == [ledger EXCEPT
                   !.guards[Len(ledger.guards)] = g,
                   !.contracts = Append(@, Contract(ledger, Head(prims), step.act, g, run.controller)),
                   !.candidates = Remember(@, g, saved)]
            won == IF Closed THEN g.mode = "strong_source_success" ELSE ok
        IN  /\ (saved => Rememberable(g))
            /\ ledger' = l
            /\ verdict' = ok
            /\ success' = won
            /\ AfterPrimitive(l, won, g)
            /\ pc' = "prims"
            /\ UNCHANGED <<control, spent>>

(* The verifier decided, or nothing asks the official evaluation.          *)
Accept ==
    \/ pc = "passed" /\ Judged(guard, TRUE)
    \/ pc = "deferred" /\ ~Closed /\ Judged(guard, FALSE)
    \/ pc = "failed" /\ ~(Closed /\ ProbeWorthIt(guard)) /\ Judged(guard, FALSE)

(* A closed loop resolves a deferred verdict with the official evaluation. *)
OfficialEvaluation ==
    /\ pc = "deferred" /\ Closed
    /\ \E oracle \in BOOLEAN : Judged(Resolved(guard, oracle), oracle)

(* A source edit the verifier rejects gets a focused evaluation, whose     *)
(* pass only defers the verdict.                                           *)
FocusedEvaluation ==
    /\ pc = "failed" /\ Closed /\ ProbeWorthIt(guard)
    /\ \E passes \in BOOLEAN : Judged(Probed(guard, passes), FALSE)

(* The step is over: it counts as tried, and uses up a step unless the     *)
(* budget stopped it.  An enforced controller may find its goal reached.   *)
EndStep ==
    /\ pc = "prims" /\ prims = <<>>
    /\ \E goal \in IF run.controller = "none" THEN {FALSE} ELSE BOOLEAN :
         LET left == IF stopped \/ ledger.steps = 0 THEN ledger.steps ELSE ledger.steps - 1
         IN  /\ ledger' = [ledger EXCEPT
                  !.tried = Append(@, step.act), !.steps = left,
                  !.suggestion = IF goal THEN "STOP" ELSE guard.suggestion]
             /\ pc' = CASE goal -> "done"
                        [] ~goal /\ (success \/ left = 0 \/ stopped \/ unit = <<>>) -> "next"
                        [] OTHER -> "step"
    /\ UNCHANGED <<control, prims, guard, stopped, success, reason, verdict, spent>>

(* The unit is over.                                                       *)

EndUnit ==
    /\ pc = "next"
    /\ ~Closed \/ success \/ reason \/ units >= run.units
    /\ pc' = "done"
    /\ UNCHANGED <<run, unit, units, step, prims, guard, stopped, ledger, success, reason, verdict, spent>>

NextUnit ==
    /\ pc = "next" /\ Closed /\ ~success /\ ~reason /\ units < run.units
    /\ \E asked \in IF run.unit = "action" THEN ControllerAnswers ELSE {""} :
         LET d == IF run.unit = "action" THEN NextAction(step, asked, ledger, run)
                  ELSE NextFragment(ledger, run.hasInitial)
         IN  CASE d.kind = "run"   -> pc' = "unit" /\ unit' = d.steps /\ units' = units + 1
               [] d.kind = "stop"  -> pc' = "done" /\ UNCHANGED <<unit, units>>
               [] d.kind = "raise" -> pc' = "raised" /\ UNCHANGED <<unit, units>>
    /\ UNCHANGED <<run, step, prims, guard, stopped, ledger, success, reason, verdict, spent>>

Execute == Inspect \/ Clear \/ Restore \/ BoostExecution \/ Replay
Judge == Accept \/ OfficialEvaluation \/ FocusedEvaluation

Next ==
    ChooseFirst \/ BeginUnit \/ BeginStep \/ Refuse \/ Execute \/ Judge
    \/ EndStep \/ EndUnit \/ NextUnit

Spec == Init /\ [][Next]_vars /\ WF_vars(Next)

(***************************************************************************)
(* Properties.                                                             *)
(***************************************************************************)
(* Every variable has the values the code gives it; each replay has left   *)
(* one entry in each history of the ledger.                                *)
TypeOK ==
    /\ run \in Runs
    /\ pc \in {"start", "unit", "step", "prims", "passed", "deferred", "failed", "next",
               "done", "raised"}
    /\ unit \in Seq(SemanticStep) /\ step \in SemanticStep /\ prims \in Seq(PrimRecord)
    /\ units \in Nat /\ spent \in Nat
    /\ stopped \in BOOLEAN /\ success \in BOOLEAN /\ reason \in BOOLEAN /\ verdict \in BOOLEAN
    /\ guard \in Guard \cup {NoGuard, [NoGuard EXCEPT !.suggestion = "STOP"]}
    /\ ledger \in Ledger
    /\ Len(ledger.guards) = Len(ledger.replays)
    /\ Len(ledger.contracts) =
         Len(ledger.replays) - (IF pc \in {"passed", "deferred", "failed"} THEN 1 ELSE 0)

(* However programs, suggestions and controllers follow one another, the   *)
(* expensive replays stay within their budget, and what they take beyond   *)
(* the token budget is less than the last of them took: no replay starts   *)
(* once the tokens are spent (_replay_budget_gate,                         *)
(* _hard_budget_exhausted).                                                *)
BudgetsHold ==
    /\ Len(ledger.replays) <= run.replays
    /\ ledger.replays # <<>> => spent < run.tokens + ledger.replays[Len(ledger.replays)].cost

(* A replay that left no fresh source edit is never repeated as it was:    *)
(* between it and a later one of the same signature there is a preparing   *)
(* action, however far apart they are (_replay_signature_gate).  The later *)
(* signature is the one at the gate, which is not the one recorded: under  *)
(* CAR the intent it is made from is still that of the replay before.      *)
AtGate(j) ==
    [ledger.contracts[j].signature EXCEPT !.files = ledger.contracts[j - 1].signature.files]
NoBlindRetry ==
    \A i, j \in DOMAIN ledger.contracts :
        /\ i < j
        /\ ledger.contracts[i].signature = AtGate(j)
        /\ ledger.guards[i].mode \in NoFreshModes /\ ~Fresh(ledger.guards[i])
        => \E k \in ledger.replays[i].tried .. ledger.replays[j].tried - 1 :
               ledger.tried[k] \in Preparing

(* A loop that reports success ran a replay whose edit is on the suspected *)
(* path and was passed by the verifier or the official evaluation; and it  *)
(* ends with that replay: nothing that follows could undo it.              *)
SuccessIsEarned ==
    success =>
        /\ verdict
        /\ Closed => Latest(ledger).mode = "strong_source_success" /\ Latest(ledger).edit = "source"
        /\ prims = <<>> /\ pc \in {"prims", "next", "done"}

(* In an action loop without a controller the last slot is not wasted on   *)
(* preparing: the unit it starts with ends in a replay (the docstring of   *)
(* _compact_final_budget_action_program).                                  *)
LastSlotReplays ==
    pc = "unit" /\ units > 1 /\ ledger.steps = 1 /\ run.unit = "action" /\ run.controller = "none"
    => \E i \in DOMAIN Compile(Head(unit), ledger.profile) :
          Compile(Head(unit), ledger.profile)[i].op = "CONSTRAINED_REPLAY"

(* The executor keeps the promise of RecoveryLoop: its replays are the     *)
(* recoveries, the verdicts of verifier and oracle the verifications.      *)
Loop == INSTANCE RecoveryLoop WITH
            budget <- run.replays, used <- Len(ledger.replays), verified <- verdict,
            over <- (pc \in {"done", "raised"}), success <- (pc = "done" /\ success)
ExecutorIsRecoveryLoop == Loop!LoopSpec

(* Claimed by the docstring of _candidate_refine_execution_profile: a      *)
(* compact replay is used once there is a candidate to refine.  The call   *)
(* fails, and the loop with it.                                            *)
RefinementReplays == pc # "raised"

=============================================================================
