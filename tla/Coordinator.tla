----------------------------- MODULE Coordinator -----------------------------
(***************************************************************************)
(* BCMRCoordinator (bcmr_swe/agent/coordinator.py) with what it calls: the *)
(* executor of recovery programs (recovery/program_executor.py), the       *)
(* failure triggers, the v2 actions, and the checkpoints and facts of the  *)
(* provenance recorder.                                                    *)
(*                                                                         *)
(* A run passes the stages locator, patcher, verifier.  A stage that fails *)
(* calls _handle_failure, which may run the stages again and so call       *)
(* itself: the nesting of the Python calls is kept in `stack`.  In capture *)
(* mode every candidate recovery is first tried out, and what the trials   *)
(* changed is put back before the chosen one is executed for real.         *)
(***************************************************************************)
EXTENDS Sequences, FiniteSetsExt, RecoveryPrograms

CONSTANTS
    Settings,       \* what build_coordinator may be called with
    Programs,       \* programs the synthesiser may come up with
    MaxCandidates   \* bound: how many programs a synthesis returns

Base == 0           \* the tree git has committed; the other trees are ids

Setting == [v3 : BOOLEAN, capture : BOOLEAN, outcomes : BOOLEAN, live : BOOLEAN,
            followups : Nat, budget : Nat]

ASSUME SettingsAssumption == Settings \subseteq Setting
ASSUME ProgramsAssumption ==
    \A p \in Programs : p \in Seq(RecoveryStep) /\ ValidateProgram(p)
ASSUME CandidatesAssumption == MaxCandidates \in Nat \ {0}

VARIABLES
    setting,    \* self.config and self.synthesizer: how this run is set up
    tree,       \* the content of the workspace
    mem,        \* shared_facts, stage_outputs, the graph, the checkpoint index
    enabled,    \* _recovery_enabled
    calls,      \* recovery_calls
    limit,      \* config.budget.max_recovery_calls
    capturing,  \* config.capture_full_counterfactual_group
    pending,    \* _pending_verifier_failure_feedback is not empty
    context,    \* the recovery context the stages are run with
    pc, stage,  \* where the innermost call stands
    ret,        \* what the call that just returned gave back
    stack,      \* the programs and the groups of trials under way
    nextId,     \* for the next tree, fact or checkpoint
    judged      \* history: the last verdict outside trials, and on which tree

vars == <<setting, tree, mem, enabled, calls, limit, capturing, pending, context,
          pc, stage, ret, stack, nextId, judged>>

flags == <<enabled, calls, limit, capturing>>
history == <<judged>>

(***************************************************************************)
(* The memory of a run: what a trial takes a copy of.                      *)
(***************************************************************************)

EmptyMem ==
    [facts |-> [k \in FactKeys |-> 0], conflicted |-> {}, evidence |-> 0,
     outputs |-> [s \in Stages |-> "none"], verdict |-> "none", failed |-> "none",
     ckpts |-> <<>>]

StartMem == [EmptyMem EXCEPT !.ckpts = <<[id |-> 1, label |-> "initial", tree |-> Base]>>]

WithFact(m, key, id) == [m EXCEPT !.facts[key] = id]

(* Faulty variant: only the last two checkpoints are kept.                 *)
WithPrunedCheckpoints(m, id, label, t) ==
    [m EXCEPT !.ckpts = <<@[Len(@)], [id |-> id, label |-> label, tree |-> t]>>]

WithCheckpoint(m, id, label, t) ==
    [m EXCEPT !.ckpts = Append(@, [id |-> id, label |-> label, tree |-> t])]
WithFailure(m, s) == [m EXCEPT !.outputs[s] = "fail", !.failed = s]

LatestCheckpoint(m) == m.ckpts[Len(m.ckpts)]
GetCheckpoint(m, id) == {m.ckpts[i] : i \in {j \in DOMAIN m.ckpts : m.ckpts[j].id = id}}
CheckpointFor(m, id) ==
    IF GetCheckpoint(m, id) = {} THEN LatestCheckpoint(m)
    ELSE CHOOSE c \in GetCheckpoint(m, id) : TRUE

ResumeFrom == [initial |-> "locator", post_locate |-> "patcher", post_patch |-> "verifier"]

StageOrder == <<"locator", "patcher", "verifier">>
ClearStageOutputsFrom(m, s) ==
    LET Pos(x) == CHOOSE i \in DOMAIN StageOrder : StageOrder[i] = x
    IN  [m EXCEPT !.outputs = [x \in Stages |-> IF Pos(x) >= Pos(s) THEN "none" ELSE @[x]]]

Quarantine(m, id, key) ==
    [m EXCEPT !.conflicted = @ \ {id},
              !.facts = [k \in FactKeys |-> IF k = key THEN 0 ELSE @[k]]]

(* The trigger and its anchor: the latest verifier result if it condemned  *)
(* a fact or repeated a failure, else the latest agent step that failed.   *)
Anchor(m) == IF m.verdict \in {"conflict", "loop"} THEN "verifier" ELSE m.failed

(* The fact a v2 quarantine goes for: the one the verifier contradicted,   *)
(* else the older of the two last facts still marked as conflicted.        *)
Suspect(m) ==
    IF m.verdict = "conflict" THEN m.evidence
    ELSE LET c == m.conflicted IN
         IF c = {} THEN 0
         ELSE IF Cardinality(c) = 1 THEN Max(c) ELSE Max(c \ {Max(c)})

(***************************************************************************)
(* The stack of calls.                                                     *)
(***************************************************************************)
Top == stack[Len(stack)]
Pop == SubSeq(stack, 1, Len(stack) - 1)
SetTop(frame) == Append(Pop, frame)
GroupFrames == {i \in DOMAIN stack : stack[i].kind = "group"}
InTrial == GroupFrames # {}

ProgramFrame(p) ==
    [kind |-> "program", prog |-> p, at |-> 1, ok |-> FALSE, hinted |-> FALSE]
GroupFrame(all, pick, c) ==
    [kind |-> "group", all |-> all, at |-> 1, pick |-> pick,
     base |-> [mem |-> mem, calls |-> c, enabled |-> enabled,
               limit |-> limit, capturing |-> capturing]]

Init ==
    /\ setting \in Settings
    /\ tree = Base
    /\ mem = StartMem
    /\ enabled = TRUE
    /\ calls = 0
    /\ limit = setting.budget
    /\ capturing = setting.capture
    /\ pending = FALSE
    /\ context = "none"
    /\ pc = "stage" /\ stage = "locator"
    /\ ret = FALSE
    /\ stack = <<>>
    /\ nextId = 2
    /\ judged = [pass |-> FALSE, tree |-> Base, undone |-> FALSE]

(***************************************************************************)
(* The stages: _resume_from and the three _run_ methods.                   *)
(***************************************************************************)

(* A locator that ran commands may have put the tree back to what git has  *)
(* committed.  A result that is only a guess passes if there is a recovery *)
(* context; it still counts as a failed step.                              *)
RunLocator ==
    /\ pc = "stage" /\ stage = "locator"
    /\ tree' \in {tree, Base}
    /\ \/ \E m \in {mem, WithFact(mem, "localized_path", nextId)} :
            /\ mem' = WithCheckpoint([m EXCEPT !.outputs["locator"] = "ok"],
                                     nextId + 1, "post_locate", tree')
            /\ stage' = "patcher" /\ pc' = pc
       \/ \E m \in {mem, WithFact(mem, "localized_path", nextId)} :
            /\ context # "none"
            /\ mem' = WithFailure(m, "locator")
            /\ stage' = "patcher" /\ pc' = pc
       \/ /\ mem' = WithFailure(mem, "locator")
          /\ pc' = "fail" /\ stage' = stage
    /\ nextId' = nextId + 2
    /\ UNCHANGED <<setting, flags, pending, context, ret, stack, history>>

(* The patch is what git diff prints: none without an edit, and under a    *)
(* recovery context a v3 replay asks for a diff that was not there before. *)
(* A patcher that fails may leave edits, and a text that becomes the fact. *)
RunPatcher ==
    /\ pc = "stage" /\ stage = "patcher"
    /\ \/ /\ tree' \in {tree, nextId}
          /\ tree' = tree => tree # Base /\ ~(setting.v3 /\ context # "none")
          /\ mem' = WithCheckpoint(WithFact([mem EXCEPT !.outputs["patcher"] = "ok"],
                                            "latest_patch", nextId + 1),
                                   nextId + 2, "post_patch", tree')
          /\ stage' = "verifier" /\ pc' = pc
       \/ /\ tree' \in {tree, nextId}
          /\ \E m \in {mem, WithFact(mem, "latest_patch", nextId + 1)} :
               mem' = WithFailure(m, "patcher")
          /\ pc' = "fail" /\ stage' = stage
    /\ nextId' = nextId + 3
    /\ UNCHANGED <<setting, flags, pending, context, ret, stack, judged>>

Judge(pass) ==
    judged' = IF InTrial THEN judged
              ELSE [pass |-> pass, tree |-> tree, undone |-> FALSE]

VerifierPasses ==
    /\ pc = "stage" /\ stage = "verifier"
    /\ mem' = [mem EXCEPT !.outputs["verifier"] = "ok", !.verdict = "pass", !.evidence = 0]
    /\ Judge(TRUE)
    /\ ret' = TRUE /\ pc' = "return"
    /\ UNCHANGED <<setting, tree, flags, pending, context, stage, stack, nextId>>

(* A failure contradicts the patch fact, if there is one.  Without one it  *)
(* is a loop when the failure before it showed the same tests.             *)
VerifierFails ==
    LET patch == mem.facts["latest_patch"]
        failing == [mem EXCEPT !.outputs["verifier"] = "fail"]
    IN  /\ pc = "stage" /\ stage = "verifier"
        /\ \/ /\ patch # 0
              /\ mem' = [failing EXCEPT !.verdict = "conflict", !.evidence = patch,
                                        !.conflicted = @ \cup {patch}]
           \/ /\ patch = 0
              /\ \E v \in {"fail"} \cup
                          (IF mem.verdict \in {"conflict", "loop", "fail"} THEN {"loop"} ELSE {}) :
                   mem' = [failing EXCEPT !.verdict = v, !.evidence = 0]
        /\ Judge(FALSE)
        /\ pending' = TRUE
        /\ pc' = "fail"
        /\ UNCHANGED <<setting, tree, flags, context, stage, ret, stack, nextId>>

(***************************************************************************)
(* _handle_failure.                                                        *)
(***************************************************************************)
GiveUp ==
    /\ pc = "fail"
    /\ ~enabled \/ Anchor(mem) = "none" \/ calls >= limit
    /\ ret' = FALSE /\ pc' = "return"
    /\ UNCHANGED <<setting, tree, mem, flags, pending, context, stage, stack, nextId, history>>

(* Faulty variant: one call more than the budget allows.                   *)
RecoveringOffByOne(v3) ==
    /\ pc = "fail"
    /\ enabled /\ Anchor(mem) # "none" /\ calls <= limit
    /\ setting.v3 = v3
    /\ calls' = calls + 1

Recovering(v3) ==
    /\ pc = "fail"
    /\ enabled /\ Anchor(mem) # "none" /\ calls < limit
    /\ setting.v3 = v3
    /\ calls' = calls + 1

(* The ids a synthesised step may name: one of the last four checkpoints,  *)
(* a fact that is shared, or none the coordinator knows.                   *)
IdsFor(op) ==
    {0} \cup
    CASE op = "ROLLBACK" ->
           {mem.ckpts[i].id : i \in {j \in DOMAIN mem.ckpts : j > Len(mem.ckpts) - 4}}
      [] op = "REVOKE" -> {mem.facts[k] : k \in FactKeys}
      [] OTHER -> {}

Synthesised ==
    UNION {{[i \in DOMAIN p |-> [p[i] EXCEPT !.id = ids[i]]] :
              ids \in {f \in [DOMAIN p -> UNION {IdsFor(p[i].op) : i \in DOMAIN p}] :
                         \A i \in DOMAIN p : f[i] \in IdsFor(p[i].op)}} : p \in Programs}

CandidateLists ==
    {c \in UNION {[1 .. n -> Synthesised] : n \in 1 .. MaxCandidates} : IsInjective(c)}

(* Without trials the chosen program is executed at once; with them, the   *)
(* failure may also be written down and nothing be executed.               *)
ExecuteLive(p) == stack' = Append(stack, ProgramFrame(p)) /\ pc' = "step" /\ ret' = ret

RecoverByProgram ==
    /\ Recovering(TRUE)
    /\ \/ /\ capturing /\ setting.outcomes
          /\ \E c \in CandidateLists : stack' = Append(stack, GroupFrame(c, 0, calls'))
          /\ pc' = "trial" /\ ret' = ret
       \/ /\ capturing /\ ~setting.outcomes /\ ~setting.live
          /\ ret' = FALSE /\ pc' = "return" /\ stack' = stack
       \/ /\ capturing => ~setting.outcomes /\ setting.live
          /\ \E p \in Synthesised : ExecuteLive(p)
    /\ UNCHANGED <<setting, tree, mem, enabled, limit, capturing, pending, context,
                   stage, nextId, history>>

(* The v2 actions, in the order RecoveryActionPlanner.enumerate lists them.*)
Action(kind, resume) ==
    [kind |-> kind, resume |-> resume, fact |-> Suspect(mem), ckpt |-> LatestCheckpoint(mem).id]

Actions ==
    LET anchor == Anchor(mem) IN
    (IF Suspect(mem) = 0 THEN <<>>
     ELSE <<Action("QUARANTINE_FACT", IF anchor = "locator" THEN "locator" ELSE "patcher")>>)
    \o <<Action("ROLLBACK_TO_CHECKPOINT", ResumeFrom[LatestCheckpoint(mem).label]),
         Action("REPLAY_SUBGRAPH", anchor),
         Action("INSERT_VERIFIER", "verifier"),
         Action("ESCALATE_NODE", anchor)>>

(* apply_recovery_action on memory m and tree t.  INSERT_VERIFIER restores *)
(* nothing; the feedback of the last failed verification goes with any     *)
(* other action that resumes before the verifier.                          *)
ApplyRecoveryAction(a, m, t) ==
    LET q == IF a.kind = "QUARANTINE_FACT" THEN Quarantine(m, a.fact, "latest_patch") ELSE m
        told == pending /\ a.kind # "INSERT_VERIFIER" /\ a.resume # "verifier"
    IN  /\ IF a.kind = "INSERT_VERIFIER"
           THEN mem' = q /\ tree' = t
           ELSE mem' = ClearStageOutputsFrom(q, a.resume) /\ tree' = CheckpointFor(q, a.ckpt).tree
        /\ context' = IF told THEN "feedback" ELSE "plain"
        /\ pending' = (pending /\ ~told)
        /\ stage' = a.resume /\ pc' = "stage"

RecoverByAction ==
    /\ Recovering(FALSE)
    /\ \E i \in DOMAIN Actions :
         IF capturing
         THEN /\ stack' = Append(stack, GroupFrame(Actions, i, calls'))
              /\ pc' = "trial"
              /\ UNCHANGED <<mem, tree, context, pending, stage>>
         ELSE /\ ApplyRecoveryAction(Actions[i], mem, tree)
              /\ stack' = stack
    /\ UNCHANGED <<setting, enabled, limit, capturing, ret, nextId, history>>

(***************************************************************************)
(* Trials: _evaluate_programs_counterfactual and                           *)
(* _evaluate_counterfactual_group.                                         *)
(***************************************************************************)

(* Faulty variant: recovery is left on during a trial.                     *)
TryProgramRecovering ==
    /\ pc = "trial" /\ setting.v3
    /\ Top.at <= Len(Top.all)
    /\ tree' = LatestCheckpoint(mem).tree
    /\ mem' = Top.base.mem
    /\ calls' = Top.base.calls
    /\ stack' = Append(stack, ProgramFrame(Top.all[Top.at]))
    /\ pc' = "step"
    /\ UNCHANGED <<setting, enabled, limit, capturing, pending, context, stage, ret,
                   nextId, history>>

(* The workspace is restored from the latest checkpoint of the index as it *)
(* stands, and only then is the index put back.                            *)
TryProgram ==
    /\ pc = "trial" /\ setting.v3
    /\ Top.at <= Len(Top.all)
    /\ tree' = LatestCheckpoint(mem).tree
    /\ mem' = Top.base.mem
    /\ calls' = Top.base.calls
    /\ enabled' = FALSE
    /\ stack' = Append(stack, ProgramFrame(Top.all[Top.at]))
    /\ pc' = "step"
    /\ UNCHANGED <<setting, limit, capturing, pending, context, stage, ret, nextId, history>>

TryAction ==
    /\ pc = "trial" /\ ~setting.v3
    /\ Top.at <= Len(Top.all)
    /\ LET a == Top.all[Top.at] IN
         ApplyRecoveryAction(a, Top.base.mem, CheckpointFor(mem, a.ckpt).tree)
    /\ calls' = Top.base.calls
    /\ enabled' = (setting.followups > 0)
    /\ capturing' = FALSE
    /\ limit' = Top.base.calls + setting.followups
    /\ UNCHANGED <<setting, ret, stack, nextId, history>>

PutBack ==
    /\ pc = "trial"
    /\ Top.at > Len(Top.all)
    /\ calls' = Top.base.calls
    /\ enabled' = Top.base.enabled
    /\ limit' = Top.base.limit
    /\ capturing' = Top.base.capturing

EndProgramTrials ==
    /\ setting.v3
    /\ PutBack
    /\ tree' = LatestCheckpoint(mem).tree
    /\ mem' = Top.base.mem
    /\ IF setting.live
       THEN /\ \E p \in Range(Top.all) : stack' = SetTop(ProgramFrame(p))
            /\ pc' = "step" /\ ret' = ret
       ELSE /\ stack' = Pop
            /\ pc' = "return" /\ ret' = FALSE
    /\ UNCHANGED <<setting, pending, context, stage, nextId, history>>

EndActionTrials ==
    /\ ~setting.v3
    /\ PutBack
    /\ ApplyRecoveryAction(Top.all[Top.pick], Top.base.mem, LatestCheckpoint(mem).tree)
    /\ stack' = Pop
    /\ UNCHANGED <<setting, ret, nextId, history>>

(***************************************************************************)
(* ProgramExecutor.execute, step by step.                                  *)
(***************************************************************************)
Executing(op) ==
    /\ pc = "step"
    /\ Top.at <= Len(Top.prog)
    /\ Top.prog[Top.at].op = op

Step == Top.prog[Top.at]
StepDone(hinted) == stack' = SetTop([Top EXCEPT !.at = @ + 1, !.hinted = @ \/ hinted])

(* An INSPECT may find nothing to say; an ESCALATE raises the agents'      *)
(* limits, which no step looks at.                                         *)
ExecInspect ==
    /\ Executing("INSPECT")
    /\ \E found \in BOOLEAN : StepDone(found)
    /\ UNCHANGED <<setting, tree, mem, flags, pending, context, pc, stage, ret, nextId, history>>

ExecEscalate ==
    /\ Executing("ESCALATE")
    /\ StepDone(FALSE)
    /\ UNCHANGED <<setting, tree, mem, flags, pending, context, pc, stage, ret, nextId, history>>

(* A step names a fact by its key or by its node; a reference that leads   *)
(* nowhere falls back to the shared fact that is in conflict.              *)
ExecRevoke ==
    LET named == IF Step.id # 0 THEN Step.id
                 ELSE IF Step.key # "" THEN mem.facts[Step.key] ELSE 0
        keys == {k \in FactKeys :
                   /\ mem.facts[k] # 0
                   /\ IF named # 0 THEN mem.facts[k] = named
                      ELSE mem.facts[k] \in mem.conflicted}
    IN  /\ Executing("REVOKE")
        /\ mem' = [mem EXCEPT !.conflicted = @ \ ({named} \cup {mem.facts[k] : k \in keys}),
                              !.facts = [k \in FactKeys |-> IF k \in keys THEN 0 ELSE @[k]]]
        /\ StepDone(named # 0 \/ keys # {})
        /\ UNCHANGED <<setting, tree, flags, pending, context, pc, stage, ret, nextId, history>>

ExecRollback ==
    LET c == CheckpointFor(mem, Step.id) IN
    /\ Executing("ROLLBACK")
    /\ tree' = c.tree
    /\ mem' = ClearStageOutputsFrom(mem, ResumeFrom[c.label])
    /\ StepDone(TRUE)
    /\ judged' = [judged EXCEPT !.undone = @ \/ ~InTrial]
    /\ UNCHANGED <<setting, flags, pending, context, pc, stage, ret, nextId>>

(* A replay gets the hints of the steps before it and one of its own.  A   *)
(* selective one that does not trust the cache clears every stage, yet it  *)
(* resumes from its role.                                                  *)
ExecReplay ==
    /\ Executing("REPLAY") \/ Executing("SELECTIVE_REPLAY")
    /\ mem' = ClearStageOutputsFrom(mem, IF Step.cached THEN Step.stage ELSE "locator")
    /\ context' = IF Step.hint \/ Top.hinted THEN "plain" ELSE "none"
    /\ stage' = Step.stage /\ pc' = "stage"
    /\ UNCHANGED <<setting, tree, flags, pending, ret, stack, nextId, history>>

EndProgram ==
    /\ pc = "step"
    /\ Top.at > Len(Top.prog)
    /\ ret' = Top.ok
    /\ stack' = Pop
    /\ pc' = "return"
    /\ UNCHANGED <<setting, tree, mem, flags, pending, context, stage, nextId, history>>

(***************************************************************************)
(* A call of _resume_from or _handle_failure comes back: to the replay     *)
(* step, the trial or the run that made it.                                *)
(***************************************************************************)
(* Faulty variant: one good replay makes a program a success.              *)
ReturnSticky ==
    /\ pc = "return" /\ stack # <<>> /\ Top.kind = "program"
    /\ stack' = SetTop([Top EXCEPT !.at = @ + 1, !.ok = @ \/ ret, !.hinted = TRUE])
    /\ pc' = "step"
    /\ UNCHANGED <<setting, tree, mem, flags, pending, context, stage, ret, nextId, history>>

ReturnToProgram ==
    /\ pc = "return" /\ stack # <<>> /\ Top.kind = "program"
    /\ stack' = SetTop([Top EXCEPT !.at = @ + 1, !.ok = ret, !.hinted = TRUE])
    /\ pc' = "step"
    /\ UNCHANGED <<setting, tree, mem, flags, pending, context, stage, ret, nextId, history>>

ReturnToTrials ==
    /\ pc = "return" /\ stack # <<>> /\ Top.kind = "group"
    /\ stack' = SetTop([Top EXCEPT !.at = @ + 1])
    /\ pc' = "trial"
    /\ UNCHANGED <<setting, tree, mem, flags, pending, context, stage, ret, nextId, history>>

Finish ==
    /\ pc = "return" /\ stack = <<>>
    /\ pc' = "done"
    /\ UNCHANGED <<setting, tree, mem, flags, pending, context, stage, ret, stack, nextId, history>>

Next ==
    \/ RunLocator \/ RunPatcher \/ VerifierPasses \/ VerifierFails
    \/ GiveUp \/ RecoverByProgram \/ RecoverByAction
    \/ TryProgram \/ TryAction \/ EndProgramTrials \/ EndActionTrials
    \/ ExecInspect \/ ExecEscalate \/ ExecRevoke \/ ExecRollback \/ ExecReplay \/ EndProgram
    \/ ReturnToProgram \/ ReturnToTrials \/ Finish

Spec == Init /\ [][Next]_vars /\ WF_vars(Next)

(***************************************************************************)
(* Properties.                                                             *)
(***************************************************************************)
Mem ==
    [facts : [FactKeys -> Nat], conflicted : {c \in SUBSET Nat : IsFiniteSet(c)}, evidence : Nat,
     outputs : [Stages -> {"none", "ok", "fail"}],
     verdict : {"none", "pass", "conflict", "loop", "fail"},
     failed : {"none", "locator", "patcher"},
     ckpts : Seq([id : Nat, label : DOMAIN ResumeFrom, tree : Nat])]

CandidateAction ==
    [kind : {"QUARANTINE_FACT", "ROLLBACK_TO_CHECKPOINT", "REPLAY_SUBGRAPH",
             "INSERT_VERIFIER", "ESCALATE_NODE"},
     resume : Stages, fact : Nat, ckpt : Nat]

Group(Candidate) ==
    [kind : {"group"}, at : Nat \ {0}, pick : Nat, all : Seq(Candidate),
     base : [mem : Mem, calls : Nat, enabled : BOOLEAN, limit : Nat, capturing : BOOLEAN]]
Program ==
    [kind : {"program"}, prog : Seq(RecoveryStep), at : Nat \ {0}, ok : BOOLEAN, hinted : BOOLEAN]

(* Every variable keeps to its values, and the checkpoint index is never   *)
(* empty: a restore always finds an archive.                               *)
TypeOK ==
    /\ setting \in Settings
    /\ tree \in Nat /\ nextId \in Nat
    /\ mem \in Mem /\ mem.ckpts # <<>>
    /\ enabled \in BOOLEAN /\ capturing \in BOOLEAN /\ pending \in BOOLEAN
    /\ calls \in Nat /\ limit \in Nat
    /\ context \in {"none", "plain", "feedback"}
    /\ pc \in {"stage", "fail", "trial", "step", "return", "done"}
    /\ stage \in Stages
    /\ ret \in BOOLEAN
    /\ stack \in IF setting.v3 THEN Seq(Program \cup Group(Seq(RecoveryStep)))
                 ELSE Seq(Group(CandidateAction))
    /\ judged \in [pass : BOOLEAN, tree : Nat, undone : BOOLEAN]

(* A run that returns success got a pass from its last verdict outside the *)
(* trials, however deep the recoveries nested, and the tree is the one the *)
(* verdict was about unless a later ROLLBACK of the program replaced it.   *)
SuccessIsVerified ==
    pc = "done" /\ ret => judged.pass /\ (judged.tree = tree \/ judged.undone)

(* A checkpoint a program names when it is synthesised is still in the     *)
(* index when its ROLLBACK comes up, after nested recoveries and trials    *)
(* too, so that get_checkpoint never silently turns into latest_checkpoint.*)
(* The same holds for the programs and actions that wait for their trial.  *)
NamedCheckpointsSurvive ==
    LET Known(p, from, m) ==
            \A j \in from .. Len(p) :
               p[j].op = "ROLLBACK" /\ p[j].id # 0 => GetCheckpoint(m, p[j].id) # {}
    IN  \A i \in DOMAIN stack : LET f == stack[i] IN
          IF f.kind = "program" THEN Known(f.prog, f.at, mem)
          ELSE \A j \in DOMAIN f.all :
                 IF setting.v3 THEN Known(f.all[j], 1, f.base.mem)
                 ELSE GetCheckpoint(f.base.mem, f.all[j].ckpt) # {}

(* Trials do not nest and are held back: a program is tried with recovery  *)
(* switched off, an action with no trials of its own and with at most      *)
(* followups more calls.  Outside trials none of that shows: the switches  *)
(* are as the run was set up with, and the calls within its budget.        *)
TrialsAreContained ==
    /\ Cardinality(GroupFrames) <= 1
    /\ \A i \in GroupFrames : pc # "trial" =>
         IF setting.v3 THEN ~enabled /\ calls = stack[i].base.calls
         ELSE ~capturing /\ calls <= stack[i].base.calls + setting.followups
    /\ ~InTrial =>
         /\ enabled /\ capturing = setting.capture
         /\ limit = setting.budget /\ calls <= setting.budget

(* The run keeps the promise of RecoveryLoop; the calls spent in trials    *)
(* are not charged to it.                                                  *)
LiveCalls == IF InTrial THEN stack[CHOOSE i \in GroupFrames : TRUE].base.calls ELSE calls

Loop == INSTANCE RecoveryLoop WITH
            budget <- setting.budget, used <- LiveCalls, verified <- judged.pass,
            over <- (pc = "done"), success <- (pc = "done" /\ ret)
RunIsRecoveryLoop == Loop!LoopSpec

=============================================================================
