--------------------------- MODULE SemanticPolicy ---------------------------
(***************************************************************************)
(* What the closed loop of the semantic executor does next, and whether it *)
(* may afford a replay: the tables and gates of                            *)
(* bcmr_swe/recovery/semantic_executor.py, as functions of the ledger.     *)
(*                                                                         *)
(* Tokens are counted in thousands.  A ledger l is a record                *)
(*   tokens, late   what is left of the budget: thousands of tokens, and   *)
(*                  whether the time is used up                            *)
(*   steps          remaining_step_budget                                  *)
(*   tried          tried_actions                                          *)
(*   profile        execution_profile                                      *)
(*   object         active_object_type                                     *)
(*   guards, replays, contracts, candidates                                *)
(*                  guard_history, replay_cost_history,                    *)
(*                  replay_execution_contract_history and                  *)
(*                  source_candidate_memory                                *)
(*   suggestion     guard_next_action_suggestion of the last step          *)
(* and a run r fixes what does not change in a loop: the controller, the   *)
(* fair-replay policy, the budgets, whether the target is ambiguous and    *)
(* whether strong models were in use from the start.                       *)
(***************************************************************************)
EXTENDS SemanticPrograms, SemanticGuard, FiniteSetsExt

Replays == {"LOCAL_REPAIR", "SCOPE_EXPAND"}
Stopping == {"", "STOP", "STOP_FOR_OFFICIAL_EVAL"}
ObjectTypes == {"", "shared_fact", "selection", "verifier_verdict"}

(* replay_cost_history keeps eight replays; no budget is as large.         *)
HistoryWindow == 8

(* The entries of the histories, and the ledger.                           *)
CandidateRecord == [mode : ResultModes, doubtful : BOOLEAN, onSuspect : BOOLEAN,
                    files : FileSets, checkpoint : BOOLEAN]
ReplayRecord == [act : Actions, pre : Preconditions, scope : Scopes, cost : Nat,
                 tried : Nat]
SignatureRecord == [act : Actions, scope : Scopes, mode : Modes, pre : Preconditions,
                    files : FileSets \cup {""}]
ContractRecord == [signature : SignatureRecord, blocked : BOOLEAN,
                   sequence : SUBSET (Nat \X Preparing)]
Ledger == [tokens : Nat, late : BOOLEAN, steps : Nat, tried : Seq(Actions), profile : Profiles,
           object : ObjectTypes, guards : Seq(Guard), replays : Seq(ReplayRecord),
           contracts : Seq(ContractRecord), candidates : Seq(CandidateRecord),
           suggestion : Suggestions \cup {""}]

Tried(l, act) == \E i \in DOMAIN l.tried : l.tried[i] = act

(***************************************************************************)
(* Guards and candidates.                                                  *)
(***************************************************************************)
(* _latest_guard; {} before the first replay.                              *)
NoGuard == [mode |-> "", edit |-> "none", flags |-> {}, evidence |-> FALSE, validated |-> FALSE, probe |-> "",
            nested |-> FALSE, files |-> "", suggestion |-> ""]
Latest(l) == IF l.guards = <<>> THEN NoGuard ELSE l.guards[Len(l.guards)]

(* _source_candidate_status_from_guard: whether the status is one of those *)
(* that keep a candidate from being refined.                               *)
Doubtful(g) ==
    /\ g.probe = ""
    /\ \/ ~g.validated
       \/ g.flags \cap {"focused_validation_not_target_related",
                        "source_edit_without_focused_validation"} # {}
       \/ g.edit = "off"

(* _remember_source_candidate: the same files with the same verdict count  *)
(* once, as the latest, so that no two candidates are the same; the last   *)
(* six are kept.  `saved` says whether the checkpoint of the candidate     *)
(* could be made.                                                          *)
MaxCandidates == 6
Rememberable(g) ==
    Fresh(g) /\ g.mode \notin {"no_diff", "intent_violation_no_fresh_source",
                               "wrong_edit_target", "budget_exhausted"}
Without(candidates, i) ==
    SubSeq(candidates, 1, i - 1) \o SubSeq(candidates, i + 1, Len(candidates))
Remember(candidates, g, saved) ==
    LET c == [mode |-> g.mode, doubtful |-> Doubtful(g), onSuspect |-> g.edit \in OnSuspect,
              files |-> g.files, checkpoint |-> saved]
        same == {i \in DOMAIN candidates : candidates[i].files = c.files /\ candidates[i].mode = c.mode}
        all == Append(IF same = {} THEN candidates ELSE Without(candidates, CHOOSE i \in same : TRUE), c)
    IN  IF ~Rememberable(g) THEN candidates
        ELSE SubSeq(all, IF Len(all) > MaxCandidates THEN 2 ELSE 1, Len(all))

(* _best_source_candidate: by the verdict and the doubts about it, then by *)
(* whether it is on the suspected path, then the latest.                   *)
ModeScore(c) ==
    (CASE c.mode = "source_edit_pending_official" -> 9
       [] c.mode = "oracle_failed_after_source_edit" -> 7
       [] c.mode = "source_edit_but_not_suspect" -> 5
       [] OTHER -> 3) - (IF c.doubtful THEN 3 ELSE 0)
CandidateRank(candidates, i) ==
    20 * ModeScore(candidates[i]) + (IF candidates[i].onSuspect THEN 10 ELSE 0) + i
HasCandidate(l) == l.candidates # <<>>
BestCandidate(l) ==
    l.candidates[CHOOSE i \in DOMAIN l.candidates : \A j \in DOMAIN l.candidates :
                    CandidateRank(l.candidates, i) >= CandidateRank(l.candidates, j)]

(* _candidate_preserving_replay_count: a candidate was replayed already.   *)
CandidateReplayed(l) ==
    \E i \in DOMAIN l.replays : l.replays[i].pre = "source_candidate_refine"

(* _source_candidate_should_converge.                                      *)
Converges(l) ==
    /\ HasCandidate(l)
    /\ ~BestCandidate(l).doubtful
    /\ BestCandidate(l).onSuspect
    /\ CandidateReplayed(l) => Latest(l).mode \notin
            {"oracle_failed_after_source_edit", "contract_violation_after_source_edit",
             "intent_violation_after_source_edit", "no_diff", "intent_violation_no_fresh_source",
             "contract_violation_no_fresh_source", "budget_exhausted"}

(***************************************************************************)
(* The replay gate.                                                        *)
(***************************************************************************)
HardExhausted(l) == l.tokens = 0 \/ l.late

(* _unproductive_replay_count.                                             *)
UnproductiveCount(l) == Cardinality({i \in DOMAIN l.guards : Unproductive(l.guards[i])})

(* _conditioning_actions_since_last_replay.                                *)
Conditions(l) ==
    IF l.replays = <<>> THEN {}
    ELSE {l.tried[i] : i \in {j \in DOMAIN l.tried : j > l.replays[Len(l.replays)].tried}}
         \cap Preparing

(* _conditioning_sequence: the last six preparing actions, each with the   *)
(* number of those that follow it.                                         *)
ConditioningWindow == 6
ConditioningSequence(tried) ==
    LET prepares == {i \in DOMAIN tried : tried[i] \in Preparing}
        Following(i) == Cardinality({j \in prepares : j > i})
    IN  {<<Following(i), tried[i]>> : i \in {j \in prepares : Following(j) < ConditioningWindow}}

(* build_car_patch_intent: under CAR each replay is told an intent before  *)
(* it runs, with the files of a candidate: by its verdict, then on the     *)
(* suspected path, then the latest (_latest_source_candidate).             *)
IntentScore(c) ==
    CASE c.mode = "source_edit_pending_official" -> 6
      [] c.mode = "oracle_failed_after_source_edit" -> 4
      [] c.mode = "contract_violation_after_source_edit" -> 3
      [] c.mode = "source_edit_but_not_suspect" -> 2
      [] OTHER -> 0
IntentRank(candidates, i) ==
    20 * IntentScore(candidates[i]) + (IF candidates[i].onSuspect THEN 10 ELSE 0) + i
IntentCandidate(l) ==
    l.candidates[CHOOSE i \in DOMAIN l.candidates : \A j \in DOMAIN l.candidates :
                    IntentRank(l.candidates, i) >= IntentRank(l.candidates, j)]

(* What the intent of the replay that is due adds to the suspected paths.  *)
IntentFiles(l, controller) ==
    IF controller # "car" \/ ~HasCandidate(l) \/ IntentCandidate(l).files \in Suspected
    THEN "" ELSE IntentCandidate(l).files
(* latest_patch_intent: what that of the last replay added.                *)
LatestIntentFiles(l) ==
    IF l.contracts = <<>> THEN "" ELSE l.contracts[Len(l.contracts)].signature.files

(* _replay_execution_signature: its paths are the suspected ones of the    *)
(* run, of which the active target is one, and those of the latest intent; *)
(* a compiled replay names no files of its own.                            *)
Signature(prim, act, files) ==
    [act |-> act, scope |-> prim.scope, mode |-> prim.mode, pre |-> prim.pre, files |-> files]

(* _record_replay_execution_contract: the latest intent is the one of the  *)
(* replay.                                                                 *)
Contract(l, prim, act, g, controller) ==
    [signature |-> Signature(prim, act, IntentFiles(l, controller)),
     blocked |-> BlockedIfRepeated(g),
     sequence |-> ConditioningSequence(Append(l.tried, act))]
(* _replay_signature_gate: the latest intent is still that of the replay   *)
(* before.                                                                 *)
RepeatsBlocked(l, prim, act) ==
    \E i \in DOMAIN l.contracts :
        /\ l.contracts[i].signature = Signature(prim, act, LatestIntentFiles(l))
        /\ l.contracts[i].blocked
        /\ l.contracts[i].sequence = ConditioningSequence(l.tried)

Stuck(l) == Latest(l).mode = "no_diff" /\ Latest(l).flags \cap StuckFlags # {}

(* _estimated_next_replay_token_cost with _scope_base_replay_cost.         *)
ScopeCost(scope) ==
    CASE scope = "full" -> 65
      [] scope = "locator+patcher+verifier" -> 50
      [] scope = "patcher+verifier" -> 25
Between(low, n, high) == Max({low, Min({n, high})})
EstimatedCost(l, prim, act, initial) ==
    LET observed == {l.replays[i].cost : i \in DOMAIN l.replays} \ {0}
        high == Max(observed)
        base == CASE prim.pre = "source_candidate_refine" -> Min({ScopeCost(prim.scope), 32})
                  [] prim.pre = "evidence_bounded_scope_expand" /\ act # "SCOPE_EXPAND" ->
                        Min({ScopeCost(prim.scope), 38})
                  [] act = "SCOPE_EXPAND" -> Max({ScopeCost(prim.scope), 50})
                  [] OTHER -> ScopeCost(prim.scope)
    IN  CASE observed # {} /\ prim.pre = "source_candidate_refine" ->
                Between(28, (3 * high) \div 4, 42)
          [] observed # {} /\ prim.pre = "evidence_bounded_scope_expand" ->
                Between(30, (17 * high) \div 20, 46)
          [] observed # {} /\ prim.pre \notin {"source_candidate_refine", "evidence_bounded_scope_expand"} ->
                IF initial < base THEN Max({1, (5 * high) \div 4}) ELSE Max({base, high})
          [] observed = {} -> IF initial < base THEN Max({1, initial \div 10}) ELSE base

(* _car_retry_evidence_gate; `informed`: a preparing action of the run     *)
(* revised a belief (_meaningful_retry_conditioning_actions).              *)
RetryHasEvidence(l, prim, act, informed) ==
    \/ Converges(l)
    \/ prim.pre = "evidence_bounded_scope_expand"
    \/ /\ prim.pre # "source_candidate_refine"
       /\ Conditions(l) # {}
       /\ \/ /\ act = "SCOPE_EXPAND"
             /\ \/ Latest(l).mode \in NoFreshModes \ {"budget_exhausted"}
                \/ Latest(l).flags \cap ({"readonly_replay_exhausted",
                        "source_diff_unchanged_during_replay"} \cup ContractFlags) # {}
          \/ act = "LOCAL_REPAIR" /\ informed /\ Conditions(l) \ {"CAPABILITY_BOOST"} # {}

(* _replay_budget_gate, refusals in any order: each ends the run.          *)
FairRefuses(l, prim, act, r, informed) ==
    /\ l.replays # <<>>
    /\ \/ r.fair = "single_expensive_attempt_v1"
       \/ r.fair = "evidence_gated_retry_v1" /\ ~RetryHasEvidence(l, prim, act, informed)
UnproductiveRefuses(l, act, r) ==
    /\ ~HasCandidate(l)
    /\ Conditions(l) = {}
    /\ \/ act \in Replays /\ UnproductiveCount(l) >= r.unproductive
       \/ /\ act = "SCOPE_EXPAND"
          /\ UnproductiveCount(l) >= 1
          /\ \E i \in DOMAIN l.replays : l.replays[i].act = "SCOPE_EXPAND"
          /\ Stuck(l)
(* Faulty variant: one replay more than the budget allows.                 *)
RefusedLate(l, prim, act, r, informed) ==
    \/ FairRefuses(l, prim, act, r, informed)
    \/ Len(l.replays) > r.replays
    \/ RepeatsBlocked(l, prim, act)
    \/ UnproductiveRefuses(l, act, r)
    \/ l.tokens < EstimatedCost(l, prim, act, r.tokens)
Refused(l, prim, act, r, informed) ==
    \/ FairRefuses(l, prim, act, r, informed)
    \/ Len(l.replays) >= r.replays
    \/ RepeatsBlocked(l, prim, act)
    \/ UnproductiveRefuses(l, act, r)
    \/ l.tokens < EstimatedCost(l, prim, act, r.tokens)

(* _budget_gate_for_primitive.                                             *)
Gated(l, prim, act, r, informed) ==
    \/ HardExhausted(l)
    \/ prim.op = "CONSTRAINED_REPLAY" /\ Refused(l, prim, act, r, informed)

RemainingReplays(l, r) == IF Len(l.replays) > r.replays THEN 0 ELSE r.replays - Len(l.replays)

=============================================================================
