---------------------------- MODULE SemanticNext ----------------------------
(***************************************************************************)
(* The next unit of a closed loop: a fragment after a fragment, an action  *)
(* after an action (_next_closed_loop_fragment and                         *)
(* _next_closed_loop_action_program of                                     *)
(* bcmr_swe/recovery/semantic_executor.py).                                *)
(*                                                                         *)
(* A decision runs a unit, stops the loop, or raises: where the profile of *)
(* a refinement is asked for, _candidate_refine_execution_profile is a     *)
(* method without self and the call fails.                                 *)
(***************************************************************************)
EXTENDS SemanticPolicy

RunUnit(steps) == [kind |-> "run", steps |-> steps]
StopLoop == [kind |-> "stop", steps |-> <<>>]
(* _candidate_refine_execution_profile, line 2028: the decorator is gone.  *)
AskRefineProfile == [kind |-> "raise", steps |-> <<>>]

(* _next_closed_loop_fragment; hasInitial: there is an initial checkpoint. *)
NextFragment(l, hasInitial) ==
    CASE l.suggestion \in Stopping -> StopLoop
      [] l.suggestion = "EVIDENCE_RECHECK" -> RunUnit(<<Recheck, Repair("local", "normal")>>)
      [] l.suggestion = "TARGET_RESET" ->
            RunUnit(<<ResetTo("post_locate"), Repair("rebuild_from_local_anchor", "normal")>>)
      [] l.suggestion = "CAPABILITY_BOOST" -> RunUnit(<<Boost, Repair("local_boosted", "")>>)
      [] l.suggestion = "SCOPE_EXPAND" -> RunUnit(<<ResetTo("post_locate"), Expand>>)
      [] l.suggestion = "REVOKE_OBJECT" ->
            IF hasInitial THEN RunUnit(<<ResetAll, Restart>>) ELSE StopLoop

(* _candidate_preserving_local_repair_program.                             *)
CandidateRepair(l, mode, profile) ==
    RunUnit(<<[Repair(mode, profile) EXCEPT
                 !.pre = "source_candidate_refine",
                 !.anchor = IF BestCandidate(l).checkpoint THEN "source_candidate" ELSE "",
                 !.recheck = Latest(l).evidence]>>)

(* The step of an action that is asked for by name.                        *)
Follow(act) ==
    CASE act = "EVIDENCE_RECHECK" -> RunUnit(<<Recheck>>)
      [] act = "RECHECK_OBJECT" -> RunUnit(<<RecheckObject>>)
      [] act = "REVOKE_OBJECT" -> RunUnit(<<Revoke>>)
      [] act = "TARGET_RESET" -> RunUnit(<<ResetTo("post_locate")>>)
      [] act = "CAPABILITY_BOOST" -> RunUnit(<<Boost>>)
      [] act = "SCOPE_EXPAND" -> RunUnit(<<Expand>>)

(* _parc_controlled_first_action_program.                                  *)
FirstUnit(program, asked, l) ==
    CASE asked \notin Actions -> program
      [] asked = "LOCAL_REPAIR" -> <<Repair("local", l.profile)>>
      [] asked \in Actions \ {"LOCAL_REPAIR"} -> Follow(asked).steps

(***************************************************************************)
(* The table of follow-ups: what the last action prepared is used, unless  *)
(* the suggestion asks for something the table lets through.               *)
(***************************************************************************)
AfterRecheck(s, repair) ==
    IF s \in {"REVOKE_OBJECT", "TARGET_RESET", "SCOPE_EXPAND"} THEN Follow(s)
    ELSE RunUnit(<<repair>>)
AfterRevoke(s) ==
    IF s \in {"EVIDENCE_RECHECK", "TARGET_RESET", "CAPABILITY_BOOST", "SCOPE_EXPAND"}
    THEN Follow(s) ELSE RunUnit(<<Repair("object_revoked_local", "normal")>>)
AfterReset(anchor) ==
    RunUnit(<<IF anchor = "initial" THEN Restart
              ELSE Repair("rebuild_from_local_anchor", "normal")>>)
AfterBoost(l) ==
    IF Converges(l) THEN AskRefineProfile
    ELSE RunUnit(<<Repair("local_boosted", l.profile)>>)

AfterPreparing(last, s, l) ==
    CASE last.act = "EVIDENCE_RECHECK" ->
            AfterRecheck(s, [Repair("evidence_rechecked_local", "compact") EXCEPT
                                !.pre = "post_evidence_source_repair"])
      [] last.act = "RECHECK_OBJECT" -> AfterRecheck(s, Repair("object_rechecked_local", "normal"))
      [] last.act = "REVOKE_OBJECT" -> AfterRevoke(s)
      [] last.act = "TARGET_RESET" -> AfterReset(last.anchor)
      [] last.act = "CAPABILITY_BOOST" -> AfterBoost(l)

AfterRepairing(s) == IF s \in Stopping \cup {"LOCAL_REPAIR"} THEN StopLoop ELSE Follow(s)

Table(last, s, l) ==
    IF last.act \in Preparing THEN AfterPreparing(last, s, l) ELSE AfterRepairing(s)

(***************************************************************************)
(* The last slot.  _compact_final_budget_action_program fuses a preparing  *)
(* action with its replay; a CAR controller keeps its cheap action unless  *)
(* a candidate was never refined (_final_budget_should_force_expensive_-   *)
(* replay).                                                                *)
(***************************************************************************)
ForcesReplay(l) ==
    HasCandidate(l) /\ BestCandidate(l).mode \in CandidateModes /\ ~CandidateReplayed(l)

(* Faulty variant: a boost takes the last slot for itself.                 *)
FusibleButBoost(s, l) ==
    \/ s \in {"REVOKE_OBJECT", "TARGET_RESET", "EVIDENCE_RECHECK"}
    \/ s = "SCOPE_EXPAND" /\ HasCandidate(l) /\ ~CandidateReplayed(l)
Fusible(s, l) ==
    \/ s \in {"REVOKE_OBJECT", "TARGET_RESET"}
    \/ s \in {"CAPABILITY_BOOST", "EVIDENCE_RECHECK"}
    \/ s = "SCOPE_EXPAND" /\ HasCandidate(l) /\ ~CandidateReplayed(l)

BoostedMode(act) ==
    CASE act = "REVOKE_OBJECT" -> "object_revoked_boosted_local"
      [] act = "TARGET_RESET" -> "rebuild_from_local_anchor"
      [] OTHER -> "local_boosted"
Fused(last, s, l, r) ==
    CASE s = "CAPABILITY_BOOST" ->
            IF r.controller = "car" /\ ~ForcesReplay(l) THEN Follow(s)
            ELSE RunUnit(<<Repair(BoostedMode(last.act), "boosted")>>)
      [] s = "EVIDENCE_RECHECK" ->
            IF r.controller = "car" /\ ~ForcesReplay(l) THEN Follow(s)
            ELSE RunUnit(<<[Repair("evidence_rechecked_local", "normal") EXCEPT !.recheck = TRUE]>>)
      [] s = "REVOKE_OBJECT" ->
            RunUnit(<<[Revoke EXCEPT !.repair = TRUE, !.mode = "object_revoked_local"]>>)
      [] s = "TARGET_RESET" ->
            RunUnit(<<[ResetTo("post_locate") EXCEPT !.repair = TRUE,
                                                     !.mode = "rebuild_from_local_anchor"]>>)
      [] s = "SCOPE_EXPAND" -> CandidateRepair(l, "candidate_preserving_local", "normal")

Settle(last, s, l, r) ==
    IF l.steps = 1 /\ Fusible(s, l) THEN Fused(last, s, l, r) ELSE Table(last, s, l)

(***************************************************************************)
(* Without a controller: six rules rewrite the suggestion, in this order.  *)
(***************************************************************************)
(* A candidate that failed the oracle is refined.                          *)
RefineNow(last, l) ==
    /\ Converges(l)
    /\ BestCandidate(l).checkpoint
    /\ Latest(l).mode \in RefinedModes
    /\ \/ l.suggestion \in {"CAPABILITY_BOOST", "SCOPE_EXPAND", "EVIDENCE_RECHECK", ""}
       \/ Latest(l).flags \cap {"test_edit_present", "source_edit_without_focused_validation"} # {}
       \/ Latest(l).evidence
    /\ last.act \in Repairing

(* stop_after_unproductive_no_diff_without_candidate.                      *)
Hopeless(last, l) ==
    /\ Stuck(l)
    /\ ~HasCandidate(l)
    /\ Tried(l, "CAPABILITY_BOOST")
    /\ UnproductiveCount(l) >= 1
    /\ last.act \in Repairing

(* _is_repeated_failure_pattern.                                           *)
Repeated(l) ==
    LET n == Len(l.guards)
    IN  /\ n >= 2
        /\ l.guards[n].mode = l.guards[n - 1].mode
        /\ l.guards[n].edit = l.guards[n - 1].edit
        /\ l.guards[n].nested
        /\ l.guards[n].mode \notin {"strong_source_success", "mixed_source_test_success",
                                    "checkpoint_or_no_diff_success"}

(* _next_action_after_stagnation.                                          *)
AfterStagnation(last, l) ==
    LET s == l.suggestion
        Untried(act) == ~Tried(l, act)
        dull == {"no_diff", "source_diff_without_observed_write_command"} \cup StuckFlags
        belief == l.object \in {"selection", "shared_fact"}
    IN  CASE s = "CAPABILITY_BOOST" ->
                IF Untried("EVIDENCE_RECHECK") THEN "EVIDENCE_RECHECK" ELSE "SCOPE_EXPAND"
          [] s = "EVIDENCE_RECHECK" -> "TARGET_RESET"
          [] s = "TARGET_RESET" -> "SCOPE_EXPAND"
          [] s = "REVOKE_OBJECT" ->
                IF l.object = "shared_fact"
                THEN IF last.act = "LOCAL_REPAIR" \/ Tried(l, "LOCAL_REPAIR")
                     THEN "SCOPE_EXPAND" ELSE "LOCAL_REPAIR"
                ELSE IF l.object = "selection" THEN "CAPABILITY_BOOST" ELSE "EVIDENCE_RECHECK"
          [] s = "SCOPE_EXPAND" ->
                IF last.act # "SCOPE_EXPAND" THEN s
                ELSE IF Latest(l).flags \cap dull # {} /\ Untried("CAPABILITY_BOOST")
                THEN "CAPABILITY_BOOST"
                ELSE IF l.steps <= 1 THEN "STOP"
                ELSE IF belief /\ Untried("TARGET_RESET") THEN "TARGET_RESET"
                ELSE IF Untried("EVIDENCE_RECHECK") THEN "EVIDENCE_RECHECK"
                ELSE IF Untried("CAPABILITY_BOOST") THEN "CAPABILITY_BOOST" ELSE "STOP"
          [] s \in Stopping -> s

(* _should_try_local_boost_before_expand.                                  *)
BoostBeforeExpand(last, l, r) ==
    /\ ~Tried(l, "CAPABILITY_BOOST")
    /\ l.steps > 1
    /\ last.act \in {"LOCAL_REPAIR", "RECHECK_OBJECT", "REVOKE_OBJECT", "TARGET_RESET"}
    /\ ~r.ambiguous
    /\ Latest(l).mode = "no_diff"

(* _capability_boost_has_expected_value.                                   *)
BoostHasValue(l, r) ==
    /\ ~Tried(l, "CAPABILITY_BOOST")
    /\ \/ r.strong
       \/ Latest(l).flags \cap {"readonly_replay_exhausted",
                                "source_diff_without_observed_write_command"} # {}

(* _fallback_after_low_value_capability_boost.                             *)
InsteadOfBoost(last, l) ==
    LET unvalidated == "source_edit_without_focused_validation" \in Latest(l).flags
    IN  IF HasCandidate(l) /\ Latest(l).mode = "oracle_failed_after_source_edit" THEN "LOCAL_REPAIR"
        ELSE IF (unvalidated \/ Latest(l).evidence) /\ ~Tried(l, "EVIDENCE_RECHECK")
        THEN "EVIDENCE_RECHECK"
        ELSE IF l.object \in {"shared_fact", "selection"} /\ ~Tried(l, "TARGET_RESET")
        THEN "TARGET_RESET"
        ELSE IF last.act = "LOCAL_REPAIR" THEN "SCOPE_EXPAND" ELSE "EVIDENCE_RECHECK"

(* The rules on SCOPE_EXPAND and CAPABILITY_BOOST, then the last slot.     *)
Weigh(last, s, l, r) ==
    LET refine == s = "SCOPE_EXPAND" /\ Converges(l) /\ ~CandidateReplayed(l)
        cheaper == IF Tried(l, "CAPABILITY_BOOST") THEN "EVIDENCE_RECHECK" ELSE "CAPABILITY_BOOST"
        s2 == CASE refine -> cheaper
                [] s = "SCOPE_EXPAND" /\ ~Converges(l) /\ BoostBeforeExpand(last, l, r) ->
                      "CAPABILITY_BOOST"
                [] OTHER -> s
        s3 == IF s2 = "CAPABILITY_BOOST" /\ ~BoostHasValue(l, r) THEN InsteadOfBoost(last, l)
              ELSE s2
    IN  IF refine /\ (RemainingReplays(l, r) <= 1
                      \/ (Tried(l, "CAPABILITY_BOOST") /\ Tried(l, "EVIDENCE_RECHECK")))
        THEN AskRefineProfile
        ELSE Settle(last, s3, l, r)

Heuristic(last, l, r) ==
    LET s == IF Repeated(l) THEN AfterStagnation(last, l) ELSE l.suggestion
    IN  IF RefineNow(last, l)
        THEN IF Tried(l, "CAPABILITY_BOOST")
             THEN CandidateRepair(l, "candidate_preserving_refine", "boosted")
             ELSE AskRefineProfile
        ELSE IF Hopeless(last, l) \/ (Repeated(l) /\ s \in Stopping) THEN StopLoop
        ELSE Weigh(last, s, l, r)

(***************************************************************************)
(* With one: the action the controller answered is taken, except that CAR  *)
(* refines a candidate instead of repairing, expanding or boosting         *)
(* (_car_forced_action_program and the rules before it).                   *)
(***************************************************************************)
CandidateJudged(l) ==
    \/ BestCandidate(l).mode \in CandidateModes
    \/ Latest(l).mode \in CandidateModes
    \/ Latest(l).evidence
    \/ Latest(l).probe # ""

Forced(last, act, l, r) ==
    LET refines == r.controller = "car" /\ Converges(l)
    IN  CASE refines /\ act \in Repairing /\ CandidateJudged(l) -> AskRefineProfile
          [] refines /\ act = "CAPABILITY_BOOST" ->
                CandidateRepair(l, "candidate_preserving_boosted_refine", "boosted")
          [] OTHER -> IF act = "LOCAL_REPAIR" THEN Settle(last, act, l, r) ELSE Follow(act)

(* _next_closed_loop_action_program; asked: what the controller answered,  *)
(* "STOP" when the goal is reached or no action is viable, "" when it has  *)
(* no decision or there is none.                                           *)
NextAction(last, asked, l, r) ==
    CASE l.suggestion \in Stopping \ {""} \/ asked = "STOP" -> StopLoop
      [] l.suggestion \notin Stopping \ {""} /\ asked \in Actions -> Forced(last, asked, l, r)
      [] OTHER -> Heuristic(last, l, r)

=============================================================================
