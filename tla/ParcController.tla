--------------------------- MODULE ParcController ---------------------------
(***************************************************************************)
(* The budget-aware controller of bcmr_swe/recovery/budgeted_controller.py *)
(* (suggest_next_action): of the cards that can change anything, the one   *)
(* with the best score.  focused: one or two suspected source files are    *)
(* known (_has_focused_source_boundary).                                   *)
(***************************************************************************)
EXTENDS ActionCards

Points(cond, n) == IF cond THEN n ELSE 0

(* The lifecycle state is among the predicted mutations of these cards.    *)
Lifecycle == {"EVIDENCE_RECHECK", "RECHECK_OBJECT", "REVOKE_OBJECT"}

(* By the type and the state of the active object.                         *)
ObjectPoints(c, act, focused) ==
    LET type == c.l.object
    IN  Points(act = "REVOKE_OBJECT" /\ type = "shared_fact", IF focused THEN 280 - 320 ELSE 280)
        + Points(act = "REVOKE_OBJECT" /\ type = "selection", 40)
        + Points(act = "RECHECK_OBJECT" /\ type \in {"verifier_verdict", "selection"}, 260)
        + Points(act = "EVIDENCE_RECHECK" /\ type \in {"verifier_verdict", ""}, 200)
        - Points(act = "EVIDENCE_RECHECK" /\ type = "shared_fact" /\ focused, 220)
        + Points(act = "TARGET_RESET" /\ type = "selection", 180)
        + Points(act = "TARGET_RESET" /\ type = "shared_fact", IF focused THEN 620 ELSE 90)
        + Points(ActiveState(c) = "invalidated" /\ act = "LOCAL_REPAIR", 760)
        - Points(ActiveState(c) = "invalidated" /\ act \in Lifecycle, 220)

(* By the action before and what it left.                                  *)
HistoryPoints(c, act) ==
    LET last == IF c.l.tried = <<>> THEN "" ELSE Last(c.l.tried)
        mode == Latest(c.l).mode
        rechecked == last = "RECHECK_OBJECT" /\ c.l.object = "selection"
        empty == last = "LOCAL_REPAIR" /\ mode \in {"no_diff", "wrong_edit_target"}
        rejected == last = "LOCAL_REPAIR" /\ mode = "oracle_failed_after_source_edit"
        prepared == CheapInARow(c.l) >= 2
    IN  Points(last = "REVOKE_OBJECT" /\ act = "LOCAL_REPAIR", 500)
        + Points(rechecked /\ act = "TARGET_RESET", 720)
        + Points(rechecked /\ act = "LOCAL_REPAIR", 360)
        - Points(rechecked /\ act = "RECHECK_OBJECT", 260)
        + Points(empty /\ act = "SCOPE_EXPAND", 820)
        + Points(empty /\ act = "CAPABILITY_BOOST", 260)
        - Points(empty /\ act \in Lifecycle, 360)
        + Points(rejected /\ act = "CAPABILITY_BOOST", 420)
        + Points(rejected /\ act = "LOCAL_REPAIR", 220)
        + Points(prepared /\ act = "LOCAL_REPAIR", 250)
        - Points(prepared /\ act \in Cheap, 80)
        - Points(last = act, 30)

(* _score_candidate.                                                       *)
ParcScore(c, act, focused) ==
    Points(act \in Lifecycle /\ Mutates(c, act), 500)
    + ObjectPoints(c, act, focused)
    + HistoryPoints(c, act)
    + (CASE act \in Cheap -> 120 [] act = "CAPABILITY_BOOST" -> 70 [] act \in Expensive -> 30)
    + (IF Mutates(c, act) THEN 40 ELSE -15)
    + Points(act = c.l.suggestion, 20)

(* suggest_next_action; "STOP" when the goal is reached.  An answer        *)
(* without an action is not a decision (no_viable_action).                 *)
ParcChoice(c, focused) ==
    LET viable == {act \in Actions : Available(c.l, act) /\ (Mutates(c, act) \/ Escapes(c, act))}
        score == [act \in viable |-> ParcScore(c, act, focused)]
    IN  IF GoalSatisfied(c) THEN "STOP" ELSE BestOf(viable, score, "")

=============================================================================
