---------------------------- MODULE SemanticGuard ----------------------------
(***************************************************************************)
(* What the semantic executor makes of a replay: the guard record, the     *)
(* action it suggests, and the source candidate it is remembered as        *)
(* (bcmr_swe/recovery/semantic_executor.py).                               *)
(*                                                                         *)
(* The files a replay changed are kept as one of six kinds of edit, which  *)
(* is all the rules distinguish: source files on the suspected path, with  *)
(* or without tests, source files off it, tests only, anything else only,  *)
(* nothing.                                                                *)
(***************************************************************************)
EXTENDS Naturals, Sequences, FiniteSets

Edits == {"none", "source", "mixed", "off", "tests", "other"}
OnSuspect == {"source", "mixed"}
SourceEdits == OnSuspect \cup {"off"}
TestEdits == {"mixed", "tests"}

SuccessModes == {"strong_source_success", "mixed_source_test_success",
                 "weak_off_suspect_source_success", "weak_tests_only_success",
                 "weak_wrong_target_success", "checkpoint_or_no_diff_success"}
PendingModes == {"source_edit_pending_official", "mixed_source_test_pending_official",
                 "off_suspect_source_edit_pending_official", "tests_only_edit_pending_official",
                 "wrong_target_edit_pending_official", "no_diff_pending_official"}
IntentModes == {"intent_violation_no_fresh_source", "intent_violation_after_source_edit"}
ContractModes == {"contract_violation_no_fresh_source", "contract_violation_after_source_edit"}
FailureModes == {"no_diff", "wrong_edit_target", "source_edit_but_not_suspect",
                 "oracle_failed_after_source_edit", "budget_exhausted"}
                \cup IntentModes \cup ContractModes
ResultModes == SuccessModes \cup PendingModes \cup FailureModes

(* Modes a source candidate may be refined after: the intent violations    *)
(* that name a missed, revoked or too broad target count as one.           *)
RefinedModes == {"oracle_failed_after_source_edit", "intent_violation_after_source_edit"}
CandidateModes == RefinedModes \cup {"contract_violation_after_source_edit",
                                     "source_edit_pending_official"}
NoFreshModes == {"no_diff", "contract_violation_no_fresh_source",
                 "intent_violation_no_fresh_source", "wrong_edit_target", "budget_exhausted"}

(* _guard_result_mode: `passed` is the verdict of the verifier or of the   *)
(* oracle, `deferred` that none was asked yet.                             *)
DeferredMode(edit) ==
    CASE edit = "none"   -> "no_diff_pending_official"
      [] edit = "tests"  -> "tests_only_edit_pending_official"
      [] edit = "mixed"  -> "mixed_source_test_pending_official"
      [] edit = "source" -> "source_edit_pending_official"
      [] edit = "off"    -> "off_suspect_source_edit_pending_official"
      [] edit = "other"  -> "wrong_target_edit_pending_official"
PassedMode(edit) ==
    CASE edit = "none"   -> "checkpoint_or_no_diff_success"
      [] edit = "tests"  -> "weak_tests_only_success"
      [] edit = "mixed"  -> "mixed_source_test_success"
      [] edit = "source" -> "strong_source_success"
      [] edit = "off"    -> "weak_off_suspect_source_success"
      [] edit = "other"  -> "weak_wrong_target_success"
FailedMode(edit) ==
    CASE edit = "none"      -> "no_diff"
      [] edit = "off"       -> "source_edit_but_not_suspect"
      [] edit \in OnSuspect -> "oracle_failed_after_source_edit"
      [] edit \in {"tests", "other"} -> "wrong_edit_target"
ResultMode(passed, deferred, edit) ==
    IF ~passed THEN FailedMode(edit)
    ELSE IF deferred THEN DeferredMode(edit) ELSE PassedMode(edit)

(* _guard_flags and _execution_quality_flags, as far as a decision reads   *)
(* them.                                                                   *)
EditFlags(edit) ==
    (IF edit = "none" THEN {"no_diff"} ELSE {})
    \cup (IF edit \in TestEdits THEN {"test_edit_present"} ELSE {})

StuckFlags == {"readonly_replay_exhausted", "source_diff_unchanged_during_replay",
               "stale_diff_removed_without_fresh_source_edit"}
CareFlags == {"source_edit_without_focused_validation", "focused_validation_not_target_related",
              "source_diff_without_observed_write_command"}
ContractFlags == {"intent_no_fresh_source_diff", "contract_no_fresh_source_diff"}
Flags == {"no_diff", "test_edit_present"} \cup StuckFlags \cup CareFlags \cup ContractFlags

(* The quality flags a replay can have earned.                             *)
QualityFlags(edit, passed) ==
    (CASE edit \in SourceEdits -> {"source_diff_without_observed_write_command"}
       [] edit = "none" -> StuckFlags \ {"readonly_replay_exhausted"}
       [] OTHER -> {"stale_diff_removed_without_fresh_source_edit"})
    \cup (IF passed THEN {} ELSE {"readonly_replay_exhausted"})

(* What the patcher ran after its edit: no validation, one without a       *)
(* result, one of other tests, one of the failing tests.                   *)
Validations == {"missing", "no_result", "unrelated", "related"}
ValidationFlags(validation, edit) ==
    CASE edit \in SourceEdits /\ validation = "missing" -> {"source_edit_without_focused_validation"}
      [] edit \in SourceEdits /\ validation = "unrelated" -> {"focused_validation_not_target_related"}
      [] OTHER -> {}

(* _suggest_next_semantic_action.                                          *)
SuggestNext(mode, edit, object) ==
    CASE mode \in PendingModes -> "STOP_FOR_OFFICIAL_EVAL"
      [] mode \in {"strong_source_success", "mixed_source_test_success",
                   "checkpoint_or_no_diff_success"} -> "STOP"
      [] mode \notin SuccessModes \cup PendingModes /\ edit = "none" -> "SCOPE_EXPAND"
      [] mode \in {"wrong_edit_target", "source_edit_but_not_suspect"} -> "TARGET_RESET"
      [] mode = "oracle_failed_after_source_edit" /\ object = "verifier_verdict" -> "EVIDENCE_RECHECK"
      [] OTHER -> IF edit \notin OnSuspect THEN "EVIDENCE_RECHECK"
                  ELSE IF object = "shared_fact" THEN "REVOKE_OBJECT" ELSE "CAPABILITY_BOOST"

(***************************************************************************)
(* The guard record.  probe: closed_loop_focused_eval_status; evidence:    *)
(* _validation_evidence_excerpt_from_guard finds something; validated: the *)
(* focused validation has a result; nested: the changed files and those of *)
(* the guard before include one another; files: the source files changed.  *)
(***************************************************************************)
CONSTANTS
    FileSets,    \* sets of source files a replay may change
    Suspected    \* those of them that hold suspected files alone

Suggestions == {"EVIDENCE_RECHECK", "REVOKE_OBJECT", "TARGET_RESET", "CAPABILITY_BOOST",
                "SCOPE_EXPAND", "STOP", "STOP_FOR_OFFICIAL_EVAL"}
Guard == [mode : ResultModes, edit : Edits, flags : SUBSET Flags, evidence : BOOLEAN,
          validated : BOOLEAN, probe : {"", "passed", "failed"}, nested : BOOLEAN,
          files : FileSets, suggestion : Suggestions]

(* What the patcher and the verifier of a replay did: the edit, the        *)
(* verdict, whether it was deferred, flags earned, validations run, and    *)
(* whether the tokens ran out in it.                                       *)
OutcomeRecord ==
    {o \in [edit : Edits, passed : BOOLEAN, deferred : BOOLEAN, quality : SUBSET Flags,
            validation : Validations, broken : SUBSET {"contract", "intent"},
            broke : BOOLEAN, evidence : BOOLEAN, nested : BOOLEAN, files : FileSets] :
        /\ o.quality \subseteq QualityFlags(o.edit, o.passed)
        /\ o.broke => ~o.passed}

Fresh(g) == g.edit \in SourceEdits

(* _build_semantic_guard: a broken contract or intent overrides the mode,  *)
(* and running out of tokens inside the replay overrides both.             *)
BuildGuard(out, object) ==
    LET fresh == out.edit \in SourceEdits
        judged == ResultMode(out.passed, out.deferred, out.edit)
        mode == CASE out.broke -> "budget_exhausted"
                  [] ~out.broke /\ "intent" \in out.broken ->
                        IF fresh THEN "intent_violation_after_source_edit"
                                 ELSE "intent_violation_no_fresh_source"
                  [] ~out.broke /\ out.broken = {"contract"} ->
                        IF fresh THEN "contract_violation_after_source_edit"
                                 ELSE "contract_violation_no_fresh_source"
                  [] ~out.broke /\ out.broken = {} -> judged
        unmet == {IF k = "intent" THEN "intent_no_fresh_source_diff"
                                  ELSE "contract_no_fresh_source_diff" :
                    k \in IF fresh THEN {} ELSE out.broken}
    IN  [mode |-> mode, edit |-> out.edit,
         flags |-> EditFlags(out.edit) \cup out.quality \cup unmet
                   \cup ValidationFlags(out.validation, out.edit),
         evidence |-> out.evidence, validated |-> out.validation \in {"unrelated", "related"},
         probe |-> "", nested |-> out.nested, files |-> out.files,
         suggestion |-> IF out.broke THEN "STOP" ELSE SuggestNext(mode, out.edit, object)]

(* _resolve_pending_guard_with_official_eval: judged again from the edit   *)
(* alone, without what the contract or the intent said.                    *)
Resolved(g, oracle) ==
    LET mode == ResultMode(oracle, FALSE, g.edit)
    IN  [g EXCEPT !.mode = mode, !.flags = EditFlags(g.edit), !.evidence = @ \/ ~oracle,
                  !.suggestion = SuggestNext(mode, g.edit, "")]

(* _should_probe_official_after_source_diff and                            *)
(* _resolve_source_diff_candidate_with_focused_eval.                       *)
ProbeWorthIt(g) == g.mode = "oracle_failed_after_source_edit" /\ g.edit \in OnSuspect

Probed(g, passes) ==
    IF passes
    THEN [g EXCEPT !.mode = ResultMode(TRUE, TRUE, g.edit), !.flags = EditFlags(g.edit),
                   !.probe = "passed", !.suggestion = "STOP_FOR_OFFICIAL_EVAL"]
    ELSE [g EXCEPT !.probe = "failed", !.evidence = TRUE]

(* blocked_if_repeated of _record_replay_execution_contract.               *)
(* Faulty variant: only what the replay was flagged for counts.            *)
BlockedIfFlagged(g) == g.flags \cap (StuckFlags \cup ContractFlags) # {}
BlockedIfRepeated(g) ==
    \/ g.mode \in NoFreshModes /\ ~Fresh(g)
    \/ g.flags \cap (StuckFlags \cup ContractFlags) # {}

(* What _unproductive_replay_count counts.                                 *)
Unproductive(g) ==
    g.mode \in NoFreshModes \ {"contract_violation_no_fresh_source"} /\ ~Fresh(g)

=============================================================================
