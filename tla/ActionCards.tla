---------------------------- MODULE ActionCards ----------------------------
(***************************************************************************)
(* What the controllers of a closed loop may choose from: the cards of the *)
(* actions, the objects they act on and the state each is in, and which    *)
(* actions can still change anything (bcmr_swe/recovery/action_cards.py,   *)
(* object_lifecycle.py and mutation_predictor.py).                         *)
(*                                                                         *)
(* A controller reads the executor's ledger c.l and                        *)
(*   chain    the objects: type, state, unproductive replays (object_-     *)
(*            chain_view)                                                  *)
(*   active   the position of the active one, 0 if it has no id            *)
(*   target   is active_target, the path to repair, filled?                *)
(*   grants   escape_grants_used                                           *)
(* The suspected paths are known, so an untried anchor or target always    *)
(* exists.                                                                 *)
(***************************************************************************)
EXTENDS SemanticPolicy, SequencesExt

(* CANONICAL_PARC_ACTIONS and the repeat limits of ACTION_CARDS.           *)
CardOrder == <<"EVIDENCE_RECHECK", "RECHECK_OBJECT", "TARGET_RESET", "REVOKE_OBJECT",
               "LOCAL_REPAIR", "SCOPE_EXPAND", "CAPABILITY_BOOST">>
RepeatLimit ==
    [EVIDENCE_RECHECK |-> 2, RECHECK_OBJECT |-> 2, TARGET_RESET |-> 1, REVOKE_OBJECT |-> 1,
     LOCAL_REPAIR |-> 3, SCOPE_EXPAND |-> 2, CAPABILITY_BOOST |-> 1]
Cheap == {"EVIDENCE_RECHECK", "RECHECK_OBJECT", "TARGET_RESET", "REVOKE_OBJECT"}
Expensive == Repairing

(* available_action_cards.                                                 *)
TimesTried(l, act) == Cardinality({i \in DOMAIN l.tried : l.tried[i] = act})
Available(l, act) ==
    /\ TimesTried(l, act) < RepeatLimit[act]
    /\ act = "CAPABILITY_BOOST" => l.profile # "boosted"

(***************************************************************************)
(* The life of an object (object_lifecycle.py).                            *)
(***************************************************************************)
Unresolved == {"suspicious", "invalidated"}
Terminal == {"resolved", "exhausted"}
ObjectStates == Unresolved \cup Terminal

(* _initial_object_state.                                                  *)
InitialState(status) ==
    CASE status \in {"resolved", "revalidated"} -> "resolved"
      [] status = "exhausted" -> "exhausted"
      [] status \in {"invalidated", "revoked"} -> "invalidated"
      [] OTHER -> "suspicious"
NewObject(type, status) == [type |-> type, state |-> InitialState(status), unproductive |-> 0]

ResolvingModes == {"strong_source_success", "mixed_source_test_success",
                   "checkpoint_or_no_diff_success"}
UnproductiveModes == {"no_diff", "wrong_edit_target", "source_edit_but_not_suspect",
                      "budget_exhausted"}
(* Faulty variant: one unproductive replay is enough.                      *)
ThresholdTooLow == 1
UnproductiveThreshold == 2

(* apply_lifecycle_transition_to_ledger with apply_lifecycle_transition:   *)
(* only some verdicts on changed files count as a fresh source diff.  A    *)
(* recheck is observed, never judged, and resolves nothing.                *)
Transition(obj, act, mode, edit) ==
    LET fresh == edit # "none" /\ mode \in ResolvingModes \cup {"oracle_failed_after_source_edit"}
        n == obj.unproductive + 1
    IN  CASE obj.state \in Terminal -> obj
          [] obj.state \in Unresolved /\ act = "REVOKE_OBJECT" ->
                [obj EXCEPT !.state = "invalidated", !.unproductive = 0]
          [] obj.state \in Unresolved /\ act \in Repairing /\ fresh /\ mode \in ResolvingModes ->
                [obj EXCEPT !.state = "resolved", !.unproductive = 0]
          [] obj.state \in Unresolved /\ act \in Repairing /\ (~fresh \/ mode \in UnproductiveModes) ->
                [obj EXCEPT !.unproductive = n,
                            !.state = IF n >= UnproductiveThreshold THEN "exhausted" ELSE @]
          [] OTHER -> obj
InStates(chain, states) == {i \in DOMAIN chain : chain[i].state \in states}

(* lifecycle_summary, as _parc_recovery_goal_satisfied reads it; also the  *)
(* recovery_done of compute_recovery_frontier.                             *)
GoalSatisfied(c) == c.chain # <<>> /\ InStates(c.chain, Unresolved) = {}

(* The active object of a frontier: the ledger's, or the first unresolved. *)
ActiveObject(c) ==
    IF c.active # 0 \/ InStates(c.chain, Unresolved) = {} THEN c.active
    ELSE Min(InStates(c.chain, Unresolved))
ActiveState(c) ==
    IF ActiveObject(c) = 0 THEN "suspicious" ELSE c.chain[ActiveObject(c)].state

(***************************************************************************)
(* predict_mutations: can the action change anything?                      *)
(***************************************************************************)
(* _same_action_unproductive_replays.                                      *)
OwnUnproductive(l, act) ==
    Cardinality({i \in DOMAIN l.replays :
        /\ l.replays[i].act = act
        /\ l.guards[i].mode \in {"no_diff", "wrong_edit_target"}
        /\ ~Fresh(l.guards[i])})
Directly(l, act) == l.tried # <<>> /\ Last(l.tried) = act
(* _scope_already_global.                                                  *)
Global(l) == l.replays # <<>> /\ Last(l.replays).scope = "full"

Mutates(c, act) ==
    /\ ActiveState(c) \in Terminal => act \in {"TARGET_RESET", "EVIDENCE_RECHECK"}
    /\ act \in {"REVOKE_OBJECT", "RECHECK_OBJECT"} => c.active # 0
    /\ act = "LOCAL_REPAIR" => c.active # 0 \/ c.target
    /\ act = "REVOKE_OBJECT" => ActiveState(c) # "invalidated"
    /\ act = "RECHECK_OBJECT" => ~(Directly(c.l, act) /\ Latest(c.l).mode = "")
    /\ act = "EVIDENCE_RECHECK" => ~(Directly(c.l, act) /\ Latest(c.l).mode \in {"", "no_diff"})
    /\ act \in {"TARGET_RESET", "CAPABILITY_BOOST"} => ~Tried(c.l, act)
    /\ act = "LOCAL_REPAIR" => OwnUnproductive(c.l, act) < 3
    /\ act = "SCOPE_EXPAND" => ~Global(c.l) /\ OwnUnproductive(c.l, act) < 2

(* expensive_action_needs_escape: after three cheap actions in a row one   *)
(* expensive action may be taken once although it changes nothing.         *)
CheapInARow(l) ==
    LET costly == {i \in DOMAIN l.tried : l.tried[i] \notin Cheap}
    IN  Len(l.tried) - (IF costly = {} THEN 0 ELSE Max(costly))
Escapes(c, act) ==
    /\ act \in Expensive
    /\ ~Mutates(c, act)
    /\ c.active # 0
    /\ c.grants < 1
    /\ CheapInARow(c.l) >= 3
    /\ InStates(c.chain, Unresolved) # {} /\ InStates(c.chain, Terminal) = {}

(* The first of the best: an action of `viable` that scores more than      *)
(* those before it in the order of the cards and no less than the others;  *)
(* `none` when nothing is viable.                                          *)
BestOf(viable, score, none) ==
    LET place == [act \in viable |-> CHOOSE i \in DOMAIN CardOrder : CardOrder[i] = act]
        Beats(a, b) == score[a] > score[b] \/ (score[a] = score[b] /\ place[a] <= place[b])
    IN  IF viable = {} THEN none ELSE CHOOSE a \in viable : \A b \in viable : Beats(a, b)

=============================================================================
