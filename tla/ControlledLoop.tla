--------------------------- MODULE ControlledLoop ---------------------------
(***************************************************************************)
(* An action loop of the semantic executor under an enforced controller:   *)
(* the controller reads the ledger, the objects and, for CAR, the memory   *)
(* of the run, the executor compiles its action and runs it, and what came *)
(* of it moves the objects and the memory                                  *)
(* (bcmr_swe/recovery/semantic_executor.py with the two controllers).      *)
(*                                                                         *)
(* SemanticExecutor has the same loop primitive by primitive with a        *)
(* controller that may answer anything; here the controller is the one of  *)
(* the code and a step, always the only one of its unit, is taken whole.   *)
(* The internal verifier never defers to the official evaluation.          *)
(***************************************************************************)
EXTENDS SemanticNext, ParcController, CarController

CONSTANT Loops        \* the ways a loop is set up

(* chain: at most one object of a type, an earlier one with what it        *)
(* supports behind it; evidence: of the failure the loop starts from.      *)
(* Nothing was replayed in vain before (initialize_lifecycle_state).       *)
Object == [type : ObjectTypes \ {""}, state : ObjectStates, unproductive : Nat]
LoopSetting ==
    [controller : {"parc", "car"}, program : SemanticStep,
     fair : {"", "single_expensive_attempt_v1", "evidence_gated_retry_v1"},
     tokens : Nat, steps : Nat \ {0}, units : Nat \ {0}, replays : 1 .. HistoryWindow,
     unproductive : Nat \ {0}, ambiguous : BOOLEAN, strong : BOOLEAN, focused : BOOLEAN,
     chain : Seq(Object), active : Nat, evidence : Evidence,
     outcomes : SUBSET {o \in OutcomeRecord : ~o.deferred}, costs : SUBSET Nat]
ASSUME LoopsAssumption ==
    \A r \in Loops : /\ r \in LoopSetting
                     /\ r.active \in {0} \cup DOMAIN r.chain
                     /\ \A i \in DOMAIN r.chain : r.chain[i].unproductive = 0

VARIABLES
    loop,        \* the set-up
    phase,       \* where execute_semantic is
    current,     \* the step of the current unit
    left,        \* what the last replay left behind
    begun,       \* units begun
    c,           \* what a controller reads: ledger, objects, grants, memory, evidence
    before,      \* last_action_result holds the guard of a replay
    succeeded,
    verified     \* was the last replay passed by the verifier?

controlledVars == <<loop, phase, current, left, begun, c, before, succeeded, verified>>

StartLedger(r) ==
    [tokens |-> r.tokens, late |-> FALSE, steps |-> r.steps, tried |-> <<>>,
     profile |-> "normal",
     object |-> IF r.active = 0 THEN "" ELSE r.chain[r.active].type,
     guards |-> <<>>, replays |-> <<>>, contracts |-> <<>>, candidates |-> <<>>,
     suggestion |-> ""]
ControlledInit ==
    /\ loop \in Loops
    /\ phase = "first"
    /\ current = loop.program
    /\ left = CHOOSE o \in loop.outcomes : TRUE
    /\ begun = 1
    /\ c = [l |-> StartLedger(loop), chain |-> loop.chain, active |-> loop.active, target |-> TRUE,
            grants |-> 0, m |-> NoMemory, e |-> loop.evidence]
    /\ before = FALSE
    /\ succeeded = FALSE
    /\ verified = FALSE

Asked == IF loop.controller = "car" THEN CarChoice(c, loop.tokens) ELSE ParcChoice(c, loop.focused)
(* escape_grants_used.                                                     *)
Granted(asked) == IF asked \in Actions /\ Escapes(c, asked) THEN c.grants + 1 ELSE c.grants

(* The controller replaces the first action (_parc_controlled_first_-      *)
(* action_program), and no unit starts once the goal is reached.           *)
AskFirst ==
    /\ phase = "first"
    /\ \E asked \in {Asked} :
         /\ current' = FirstUnit(<<loop.program>>, asked, c.l)[1]
         /\ c' = [c EXCEPT !.grants = Granted(asked)]
    /\ phase' = IF GoalSatisfied(c) \/ HardExhausted(c.l) THEN "done" ELSE "step"
    /\ UNCHANGED <<loop, left, begun, before, succeeded, verified>>

(* _next_closed_loop_action_program.  A suggestion to stop is followed     *)
(* before the controller is asked.                                         *)
Decide ==
    /\ phase = "next" /\ begun < loop.units
    /\ ~succeeded /\ ~GoalSatisfied(c) /\ ~HardExhausted(c.l)
    /\ \E asked \in {IF c.l.suggestion \in Stopping \ {""} THEN "" ELSE Asked} :
       \E d \in {NextAction(current, asked, c.l, loop)} :
          /\ c' = [c EXCEPT !.grants = Granted(asked)]
          /\ CASE d.kind = "run"   -> phase' = "step" /\ current' = d.steps[1] /\ begun' = begun + 1
               [] d.kind = "stop"  -> phase' = "done" /\ UNCHANGED <<current, begun>>
               [] d.kind = "raise" -> phase' = "raised" /\ UNCHANGED <<current, begun>>
    /\ UNCHANGED <<loop, left, before, succeeded, verified>>

(* Faulty variant: the units are not counted.                              *)
EndLoopUncounted ==
    /\ phase = "next"
    /\ succeeded \/ GoalSatisfied(c) \/ HardExhausted(c.l)
    /\ phase' = "done"
    /\ UNCHANGED <<loop, current, left, begun, c, before, succeeded, verified>>
EndLoop ==
    /\ phase = "next"
    /\ begun >= loop.units \/ succeeded \/ GoalSatisfied(c) \/ HardExhausted(c.l)
    /\ phase' = "done"
    /\ UNCHANGED <<loop, current, left, begun, c, before, succeeded, verified>>

IsReplay(p) == p.op = "CONSTRAINED_REPLAY"
Compiled == Compile(current, c.l.profile)
HasReplay == \E i \in DOMAIN Compiled : IsReplay(Compiled[i])
ReplayPrim == Compiled[CHOOSE i \in DOMAIN Compiled : IsReplay(Compiled[i])]
Meaningful == {"observed_evidence", "belief_retargeted", "revoked",
               "reinforced_source_candidate", "candidate_preserved_unverified"}
(* _meaningful_retry_conditioning_actions.                                 *)
Informed(m) ==
    \E i \in DOMAIN m.events : m.events[i].act \in Cheap /\ m.events[i].revision \in Meaningful

(* The boost of a step, if it has one.                                     *)
Boosts == \E i \in DOMAIN Compiled :
             Compiled[i].op = "BOOST_EXECUTION" /\ Compiled[i].stronger

(* CLEAR_LOCAL_STATE: all is forgotten, or a shared fact hands over to the *)
(* first selection, if there is one.                                       *)
Selections(chain) == {i \in DOMAIN chain : chain[i].type = "selection"}
Cleared ==
    CASE current.act \notin {"REVOKE_OBJECT", "TARGET_RESET"} -> [obj |-> c.l.object, at |-> c.active]
      [] current.act \in {"REVOKE_OBJECT", "TARGET_RESET"} /\ current.all -> [obj |-> "", at |-> 0]
      [] OTHER -> IF c.l.object # "shared_fact" \/ c.active = 0
                  THEN [obj |-> c.l.object, at |-> c.active]
                  ELSE [obj |-> "selection",
                        at |-> IF Selections(c.chain) = {} THEN 0 ELSE Min(Selections(c.chain))]

(* It empties the active target.  The first suspected path is put back     *)
(* after a replay, and by a rollback that found a checkpoint and was not   *)
(* to the initial one.                                                     *)
Targets ==
    CASE HasReplay -> {TRUE}
      [] ~HasReplay /\ current.act \notin {"REVOKE_OBJECT", "TARGET_RESET"} -> {c.target}
      [] OTHER -> IF current.anchor \in {"", "initial"} THEN {FALSE} ELSE BOOLEAN

(* _apply_state_delta: the object that was active before the step moves.   *)
Moved(mode, edit) ==
    IF c.active = 0 THEN c.chain
    ELSE [c.chain EXCEPT ![c.active] = Transition(@, current.act, mode, edit)]

(* What every step leaves: it was tried, and took one of the steps.        *)
Finish(k, suggestion) ==
    /\ \E target \in Targets :
         c' = [k EXCEPT !.l.tried = Append(@, current.act),
                 !.l.steps = IF @ = 0 THEN 0 ELSE @ - 1,
                 !.l.object = Cleared.obj, !.active = Cleared.at, !.target = target,
                 !.l.suggestion = IF GoalSatisfied(k) THEN "STOP" ELSE suggestion]
    /\ phase' = "next"

(* _semantic_budget_stop_guard.                                            *)
BudgetStop == [mode |-> "budget_exhausted", edit |-> "none", suggestion |-> "STOP"]

(* A step that a gate cuts short was tried too, and ends the loop: its     *)
(* guard still moves the object.  Nothing reads the target after it.       *)
CutShort(now) ==
    /\ c' = [c EXCEPT !.l.tried = Append(@, current.act), !.l.suggestion = BudgetStop.suggestion,
                      !.l.object = now.obj, !.active = now.at,
                      !.chain = Moved(BudgetStop.mode, BudgetStop.edit)]
    /\ phase' = "done"

(* A step without a replay.  Did it change anything?  Once there is a      *)
(* guard there are constraints to show, and the first clearing invalidates *)
(* its targets.                                                            *)
Changes ==
    IF c.l.guards # <<>> \/ (current.act \in {"REVOKE_OBJECT", "TARGET_RESET"}
                             /\ ~Tried(c.l, "REVOKE_OBJECT") /\ ~Tried(c.l, "TARGET_RESET"))
    THEN {TRUE} ELSE BOOLEAN
Prepare ==
    /\ phase = "step" /\ ~HasReplay
    /\ \E changed \in Changes, boosted \in IF Boosts THEN BOOLEAN ELSE {FALSE},
          excerpt \in IF current.act \in Rechecks THEN BOOLEAN ELSE {c.e.excerpt} :
         LET k == [c EXCEPT
                     !.l.profile = IF boosted THEN "boosted" ELSE @,
                     !.chain = Moved("", "none"),
                     !.m = IF loop.controller = "car"
                           THEN Learn(@, current.act, "", changed, FALSE, Latest(c.l)) ELSE @,
                     !.e.excerpt = excerpt]
         IN  Finish(k, "")
    /\ before' = FALSE
    /\ UNCHANGED <<loop, current, left, begun, succeeded, verified>>

(* The replay gate refuses, after what comes before it in the step.        *)
RefuseReplay ==
    /\ phase = "step" /\ HasReplay
    /\ Gated(c.l, ReplayPrim, current.act, loop, Informed(c.m))
    /\ CutShort(Cleared)
    /\ UNCHANGED <<loop, current, left, begun, before, succeeded, verified>>

(* The patch intent of CAR is broken by a replay without a source edit,    *)
(* and by a local repair off the suspected path while there is no          *)
(* candidate to preserve (build_car_patch_intent, audit_car_patch_intent). *)
Intended(out) ==
    LET astray == out.edit = "off" /\ current.act = "LOCAL_REPAIR" /\ ~HasCandidate(c.l)
    IN  IF loop.controller = "car" /\ (out.edit \notin SourceEdits \/ astray)
        THEN [out EXCEPT !.broken = @ \cup {"intent"}] ELSE out

(* CONSTRAINED_REPLAY and its verdict.  The memory learns from the guard   *)
(* last_action_result holds, if it holds one, and else from this one.  A   *)
(* fused step is remembered twice.                                         *)
Episodes(m, g, cost) ==
    LET known == IF before THEN Latest(c.l) ELSE g
        changed == g.edit # "none"
        costly == 10 * cost >= 3 * loop.tokens
        once == Learn(m, current.act, g.mode, changed, costly, known)
    IN  IF loop.controller # "car" THEN m
        ELSE IF current.act \in Repairing THEN once
        ELSE Learn(once, current.act, g.mode, TRUE, costly, known)
RunReplay ==
    /\ phase = "step" /\ HasReplay
    /\ ~Gated(c.l, ReplayPrim, current.act, loop, Informed(c.m))
    /\ left' \in {Intended(out) : out \in loop.outcomes}
    /\ \E cost \in loop.costs :
         c' = [c EXCEPT
                 !.l.tokens = IF left'.broke \/ cost >= @ THEN 0 ELSE @ - cost,
                 !.l.replays = Append(@, [act |-> current.act, pre |-> ReplayPrim.pre, cost |-> cost,
                                          tried |-> Len(c.l.tried) + 1, scope |-> ReplayPrim.scope])]
    /\ phase' = "judge"
    /\ UNCHANGED <<loop, current, begun, before, succeeded, verified>>

Verdicts ==
    LET g == BuildGuard(left, Cleared.obj)
    IN  IF ProbeWorthIt(g) THEN {Probed(g, passes) : passes \in BOOLEAN} ELSE {g}
JudgeReplay ==
    /\ phase = "judge"
    /\ \E g \in Verdicts, boosted \in IF Boosts THEN BOOLEAN ELSE {FALSE}, excerpt \in BOOLEAN :
       \E saved \in IF Rememberable(g) THEN BOOLEAN ELSE {FALSE} :
         LET k == [c EXCEPT
                     !.l.profile = IF boosted THEN "boosted" ELSE @,
                     !.l.guards = Append(@, g),
                     !.l.contracts = Append(@, Contract(c.l, ReplayPrim, current.act, g, loop.controller)),
                     !.l.candidates = Remember(@, g, saved),
                     !.chain = Moved(g.mode, g.edit),
                     !.m = Episodes(@, g, Last(c.l.replays).cost),
                     !.e.unapplied = FALSE, !.e.barren = FALSE, !.e.excerpt = excerpt]
         IN  Finish(k, g.suggestion) /\ succeeded' = (g.mode = "strong_source_success")
    /\ verified' = left.passed
    /\ before' = TRUE
    /\ UNCHANGED <<loop, current, left, begun>>

(* The time is up, before a unit or at one of the gates of its step.       *)
RunOut ==
    /\ \/ phase \in {"first", "next"} /\ phase' = "done" /\ c' = c
       \/ phase = "step" /\ \E now \in {Cleared, [obj |-> c.l.object, at |-> c.active]} : CutShort(now)
    /\ UNCHANGED <<loop, current, left, begun, before, succeeded, verified>>

Progress == AskFirst \/ Decide \/ EndLoop \/ Prepare \/ RefuseReplay \/ RunReplay \/ JudgeReplay
ControlledNext == Progress \/ RunOut
(* One process that goes on; that its time is ever up is not assumed.      *)
ControlledSpec == ControlledInit /\ [][ControlledNext]_controlledVars /\ WF_controlledVars(Progress)

(***************************************************************************)
(* Properties.                                                             *)
(***************************************************************************)
(* Every variable has the values the code gives it, and each judged replay *)
(* has left one guard.                                                     *)
ControlledTypeOK ==
    /\ loop \in Loops /\ phase \in {"first", "step", "judge", "next", "done", "raised"}
    /\ current \in SemanticStep /\ begun \in 1 .. loop.units
    /\ before \in BOOLEAN /\ succeeded \in BOOLEAN /\ verified \in BOOLEAN
    /\ phase = "judge" => left \in OutcomeRecord
    /\ c \in [l : Ledger, chain : Seq(Object), active : Nat, target : BOOLEAN, grants : 0 .. 1,
              m : Memory, e : Evidence]
    /\ DOMAIN c.chain = DOMAIN loop.chain /\ c.active \in {0} \cup DOMAIN c.chain
    /\ Len(c.l.guards) = Len(c.l.contracts)
    /\ Len(c.l.guards) = Len(c.l.replays) - (IF phase = "judge" THEN 1 ELSE 0)

(* CAR never pays for a replay right after one that left no fresh source   *)
(* edit: a cheap action comes between, whatever the scores are, unless the *)
(* loop refined a candidate, its last repair was in vain, and the boundary *)
(* is widened (needs_cheap_evidence_before_expensive, the gates and        *)
(* overrides of select_car_action and the signature gate, which keeps one  *)
(* expansion from following another; a replay that is remembered with the  *)
(* guard of the one before it is no exception).  Once in a loop a          *)
(* capability boost may stand in for the evidence: the signal rejects      *)
(* expensive actions until the next event, whatever that is, and a boost   *)
(* is not expensive.                                                       *)
Meantime(i) == c.l.replays[i].tried + 1 .. c.l.replays[i + 1].tried - 1
LeavesBoundary(l, i) ==
    /\ \E k \in 1 .. i : l.replays[k].pre = "source_candidate_refine"
    /\ l.replays[i].act = "LOCAL_REPAIR" /\ l.replays[i + 1].act = "SCOPE_EXPAND"
WithoutEvidence ==
    {i \in DOMAIN c.l.guards :
        /\ i + 1 \in DOMAIN c.l.replays
        /\ c.l.guards[i].mode \in NoFreshModes
        /\ ~LeavesBoundary(c.l, i)
        /\ \A k \in Meantime(i) : c.l.tried[k] \notin Cheap}
EvidenceBetweenReplays ==
    loop.controller = "car" =>
        /\ \A i \in WithoutEvidence : \E k \in Meantime(i) : c.l.tried[k] = "CAPABILITY_BOOST"
        /\ \A i, j \in WithoutEvidence : i = j

(* An object that became resolved owes it to a replay that changed files   *)
(* and was passed, and one that became exhausted to two replays that were  *)
(* not, or were refused, whichever objects were active in between (the     *)
(* lifecycle rules of apply_lifecycle_transition): the goal is not reached *)
(* for free.                                                               *)
RefusedReplays ==
    {k \in DOMAIN c.l.tried : /\ c.l.tried[k] \in Repairing
                              /\ \A i \in DOMAIN c.l.replays : c.l.replays[i].tried # k}
InVainReplays ==
    {k \in DOMAIN c.l.guards : c.l.guards[k].mode \notin ResolvingModes \/ c.l.guards[k].edit = "none"}
ObjectsFollowReplays ==
    \A i \in {j \in DOMAIN c.chain : c.chain[j].state # loop.chain[j].state} :
        /\ c.chain[i].state = "resolved" =>
              \E g \in ToSet(c.l.guards) : g.mode \in ResolvingModes /\ g.edit # "none"
        /\ c.chain[i].state = "exhausted" =>
              Cardinality(InVainReplays) + Cardinality(RefusedReplays) >= 2

(* Claimed by the docstring of _car_forced_action_program: what an         *)
(* enforced CAR answers reaches the executor, and is replaced only by the  *)
(* refinement of a candidate.  But that method has no case for             *)
(* LOCAL_REPAIR, which falls through to the table of follow-ups, and the   *)
(* table stops the loop at a repair after a repair.                        *)
ForcedActionsRun ==
    /\ phase = "next" /\ begun < loop.units /\ loop.controller = "car"
    /\ ~succeeded /\ ~GoalSatisfied(c) /\ c.l.suggestion \notin Stopping \ {""}
    /\ Asked \in Actions
    => LET d == NextAction(current, Asked, c.l, loop)
       IN  /\ d.kind # "stop"
           /\ d.kind = "run" /\ ~Converges(c.l) => d.steps[1].act = Asked

(* The loop keeps the promise of RecoveryLoop, whichever controller drives *)
(* it: it ends, within its replays, and a success was verified.            *)
Promise == INSTANCE RecoveryLoop WITH
            budget <- loop.replays, used <- Len(c.l.replays), verified <- verified,
            over <- (phase \in {"done", "raised"}), success <- (phase = "done" /\ succeeded)
ControlledIsRecoveryLoop == Promise!LoopSpec

=============================================================================
