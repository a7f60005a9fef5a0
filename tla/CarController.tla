--------------------------- MODULE CarController ---------------------------
(***************************************************************************)
(* The counterexample-aware controller (select_car_action of               *)
(* bcmr_swe/recovery/car_controller.py, with counterexample.py): the       *)
(* failure is classified, the cards are gated by what the run remembers,   *)
(* and the best score of the rest wins.                                    *)
(*                                                                         *)
(* Priors over other instances are off unless an experiment asks for them  *)
(* (car_cross_sample_prior_enabled) and are left out.                      *)
(***************************************************************************)
EXTENDS BeliefRevision

(***************************************************************************)
(* classify_counterexample.  Evidence e of a failure: the exception the    *)
(* verifier saw; unapplied: the patch could not be applied; outside: the   *)
(* failed files and the modified ones are disjoint; asserts: an assertion  *)
(* or a failing test is counted; excerpt: the excerpt mentions an          *)
(* assertion; family: what a review or the kinds of objects say; barren:   *)
(* there was no effective patch.                                           *)
(***************************************************************************)
Types == {"syntax_level", "semantic_level", "invariant_level", "coverage_gap", "unknown"}
Evidence == [exception : {"", "syntax", "runtime"}, unapplied : BOOLEAN, outside : BOOLEAN,
             asserts : BOOLEAN, excerpt : BOOLEAN, family : {"", "verifier", "selection", "stale"},
             barren : BOOLEAN]
Classify(e) ==
    CASE e.exception = "syntax" \/ e.unapplied -> "syntax_level"
      [] e.exception # "syntax" /\ ~e.unapplied ->
            CASE e.outside -> "coverage_gap"
              [] ~e.outside /\ e.exception = "runtime" /\ ~e.excerpt -> "invariant_level"
              [] OTHER -> IF e.asserts \/ e.excerpt \/ e.family = "verifier" THEN "semantic_level"
                          ELSE IF e.family = "selection" THEN "coverage_gap"
                          ELSE IF e.family = "stale" THEN "invariant_level"
                          ELSE IF e.barren THEN "coverage_gap" ELSE "unknown"

(* ACTION_PRIORITY and NEVER_FIRST.                                        *)
Priority ==
    [syntax_level |-> <<"LOCAL_REPAIR", "EVIDENCE_RECHECK", "TARGET_RESET">>,
     semantic_level |-> <<"EVIDENCE_RECHECK", "LOCAL_REPAIR", "TARGET_RESET", "SCOPE_EXPAND">>,
     invariant_level |-> <<"REVOKE_OBJECT", "TARGET_RESET", "LOCAL_REPAIR">>,
     coverage_gap |-> <<"SCOPE_EXPAND", "TARGET_RESET", "LOCAL_REPAIR">>,
     unknown |-> <<"EVIDENCE_RECHECK", "LOCAL_REPAIR">>]
NeverFirst ==
    [syntax_level |-> {"SCOPE_EXPAND", "CAPABILITY_BOOST"}, semantic_level |-> {"CAPABILITY_BOOST"},
     invariant_level |-> {"SCOPE_EXPAND"}, coverage_gap |-> {"EVIDENCE_RECHECK"}, unknown |-> {}]
PriorityPoints(type, act) ==
    LET places == {i \in DOMAIN Priority[type] : Priority[type][i] = act}
    IN  IF places = {} THEN 100 ELSE 1000 - 120 * ((CHOOSE i \in places : TRUE) - 1)

(***************************************************************************)
(* _source_candidate_convergence_state: whether a candidate narrows the    *)
(* choice, and what it needs.                                              *)
(***************************************************************************)
(* _best_source_candidate_from_memory: by the verdict, then the latest.    *)
CarRank(l, i) ==
    (CASE l.candidates[i].mode = "source_edit_pending_official" -> 60
       [] l.candidates[i].mode \in CandidateModes \ {"source_edit_pending_official"} -> 40
       [] l.candidates[i].mode = "source_edit_but_not_suspect" -> 20
       [] OTHER -> 0) + i
CarCandidate(l) ==
    l.candidates[CHOOSE i \in DOMAIN l.candidates :
                    \A j \in DOMAIN l.candidates : CarRank(l, i) >= CarRank(l, j)]

Narrows(l) ==
    HasCandidate(l) /\ (Latest(l).mode \in CandidateModes \/ CarCandidate(l).mode \in CandidateModes)

(* _source_candidate_status.                                               *)
Status(l) ==
    CASE CandidateReplayed(l)
         /\ Latest(l).mode \in (CandidateModes \ {"source_edit_pending_official"})
                               \cup (NoFreshModes \ {"wrong_edit_target"}) -> "exhausted"
      [] ~CarCandidate(l).onSuspect /\ ~(CandidateReplayed(l)
         /\ Latest(l).mode \in (CandidateModes \ {"source_edit_pending_official"})
                               \cup (NoFreshModes \ {"wrong_edit_target"})) -> "off_target"
      [] OTHER ->
            IF "source_edit_pending_official" \in {Latest(l).mode, CarCandidate(l).mode}
            THEN "pending_validation"
            ELSE IF "oracle_failed_after_source_edit" \in {Latest(l).mode, CarCandidate(l).mode}
            THEN "needs_refine" ELSE "unresolved"

(* _has_target_oracle_failure_evidence.                                    *)
OracleEvidence(l) ==
    /\ "oracle_failed_after_source_edit" \in {Latest(l).mode, CarCandidate(l).mode}
    /\ CarCandidate(l).onSuspect
    /\ Latest(l).probe = "failed"

(* _candidate_needs_evidence_recheck.                                      *)
WantsEvidence(l) ==
    /\ Status(l) # "exhausted"
    /\ ~OracleEvidence(l)
    /\ ~Tried(l, "EVIDENCE_RECHECK")
    /\ Latest(l).probe # "" => PendingValidation(Latest(l))
                               /\ "source_edit_without_focused_validation" \notin Latest(l).flags

(* _candidate_refine_slot_overrides_budget_halt, which also overrides the  *)
(* validation gate and a bad prior.                                        *)
RefineSlot(l) ==
    Narrows(l) /\ Status(l) = "needs_refine" /\ OracleEvidence(l) /\ ~CandidateReplayed(l)

(* _allowed_convergence_actions.                                           *)
Allows(l, act) ==
    Narrows(l) =>
        CASE Status(l) = "exhausted" -> act \in {"SCOPE_EXPAND", "TARGET_RESET", "REVOKE_OBJECT"}
          [] Status(l) = "off_target" ->
                act \in {"SCOPE_EXPAND", "TARGET_RESET",
                         IF WantsEvidence(l) THEN "EVIDENCE_RECHECK" ELSE "REVOKE_OBJECT"}
          [] OTHER -> IF WantsEvidence(l) THEN act = "EVIDENCE_RECHECK"
                      ELSE act \in {"LOCAL_REPAIR", "EVIDENCE_RECHECK", "CAPABILITY_BOOST"}

(***************************************************************************)
(* select_car_action.  c has the memory c.m and the evidence c.e besides   *)
(* what a controller reads.                                                *)
(***************************************************************************)
Halted(c, act, initial) ==
    act \in Expensive /\ (Stops(c.l, c.m, initial) \/ Pauses(c.l, c.m, initial))
Refines(c, act) == act = "LOCAL_REPAIR" /\ RefineSlot(c.l)
SwitchesBoundary(c, act) ==
    act = "SCOPE_EXPAND" /\ Narrows(c.l) /\ Status(c.l) = "exhausted"
Overrides(c, act) == Refines(c, act) \/ SwitchesBoundary(c, act)

(* A halted SCOPE_EXPAND that retargets the boundary skips the other gates.*)
Retargets(c, act, initial) ==
    /\ act = "SCOPE_EXPAND" /\ Halted(c, act, initial) /\ ~Overrides(c, act)
    /\ RetargetReady(c.l, c.m) /\ Mutates(c, act)

Passes(c, act, initial) ==
    /\ Halted(c, act, initial) => Overrides(c, act)
    /\ AwaitsValidation(c.l, c.m, act) => Refines(c, act)
    /\ c.l.tried = <<>> => act \notin NeverFirst[Classify(c.e)]
    /\ Allows(c.l, act)
    /\ Mutates(c, act) \/ Escapes(c, act)
    /\ PriorRejects(c.m, act) => Refines(c, act)

(* _score_car_candidate.                                                   *)
CarScore(c, act, initial) ==
    LET P(cond, n) == IF cond THEN n ELSE 0
        narrows == Narrows(c.l)
        slot == narrows /\ Status(c.l) = "needs_refine" /\ OracleEvidence(c.l)
    IN  PriorityPoints(Classify(c.e), act)
        + (IF Mutates(c, act) THEN 40 ELSE -50)
        + P(act = c.l.suggestion, 20)
        + PriorPoints(c.m, act)
        + P(narrows /\ act = "LOCAL_REPAIR", 180)
        + P(narrows /\ act = "EVIDENCE_RECHECK", IF WantsEvidence(c.l) THEN 220 ELSE 60)
        + P(slot /\ act = "LOCAL_REPAIR", 1700) - P(slot /\ act = "EVIDENCE_RECHECK", 1200)
        + BeliefPoints(c.l, c.m, act, initial)
        + (CASE act \in Cheap -> 30 [] act = "CAPABILITY_BOOST" -> -20
             [] act = "LOCAL_REPAIR" -> -30 [] act = "SCOPE_EXPAND" -> -50)
        + P(Retargets(c, act, initial), 1200)

(* Without a viable action the loop stops, as when the goal is reached.    *)
CarChoice(c, initial) ==
    LET viable == {act \in Actions : /\ Available(c.l, act)
                                     /\ Retargets(c, act, initial) \/ Passes(c, act, initial)}
        score == [act \in viable |-> CarScore(c, act, initial)]
    IN  IF GoalSatisfied(c) THEN "STOP" ELSE BestOf(viable, score, "STOP")

=============================================================================
