--------------------------- MODULE BeliefRevision ---------------------------
(***************************************************************************)
(* What the CAR controller remembers of a run and the signal it reads from *)
(* it (bcmr_swe/recovery/belief_revision.py, the in-run part of            *)
(* episode_memory.py, and remember_car_episode of car_controller.py).      *)
(*                                                                         *)
(* A memory m is a record                                                  *)
(*   events    belief_revision_history                                     *)
(*   episodes  car_episode_memory                                          *)
(*   route     the negative ledger has a route_without_fresh_source        *)
(*   open      the entries of the unknown ledger that are read: an         *)
(*             unresolved source candidate, a pending validation.  Nothing *)
(*             removes one: no negative entry is of the same kind.         *)
(* Both histories are longer than any run.                                 *)
(***************************************************************************)
EXTENDS ActionCards

NoMemory == [events |-> <<>>, episodes |-> <<>>, route |-> FALSE, open |-> {}]

ProgressModes == {"oracle_failed_after_source_edit", "contract_violation_after_source_edit",
                  "intent_violation_after_source_edit", "source_edit_pending_official"}
BoundaryModes == {"no_diff", "contract_violation_no_fresh_source",
                  "intent_violation_no_fresh_source", "wrong_edit_target"}

(* _revision_type.                                                         *)
Revisions == {"revoked", "belief_retargeted", "observed_evidence", "evidence_unchanged",
              "invalidated_no_progress", "reinforced_source_candidate",
              "candidate_preserved_unverified", "unresolved"}
EventRecord == [act : Actions, mode : ResultModes \cup {""}, costly : BOOLEAN, revision : Revisions]
EpisodeRecord == [act : Actions, changed : BOOLEAN, fresh : BOOLEAN, noDiff : BOOLEAN, same : BOOLEAN]
Memory == [events : Seq(EventRecord), episodes : Seq(EpisodeRecord), route : BOOLEAN,
           open : SUBSET {"candidate", "validation"}]

Rechecks == {"EVIDENCE_RECHECK", "RECHECK_OBJECT"}
Revision(act, mode, changed) ==
    CASE act = "REVOKE_OBJECT" -> "revoked"
      [] act = "TARGET_RESET" /\ changed -> "belief_retargeted"
      [] act \in Rechecks -> IF changed THEN "observed_evidence" ELSE "evidence_unchanged"
      [] act \notin Rechecks \cup {"REVOKE_OBJECT"} /\ ~(act = "TARGET_RESET" /\ changed) ->
            CASE mode \in NoFreshModes -> "invalidated_no_progress"
              [] mode = "strong_source_success" -> "reinforced_source_candidate"
              [] mode \in ProgressModes -> "candidate_preserved_unverified"
              [] OTHER -> IF changed THEN "observed_evidence" ELSE "unresolved"

(* next_action_hint_for_revision.                                          *)
Hint(revision) ==
    CASE revision \in {"invalidated_no_progress", "candidate_preserved_unverified",
                       "belief_retargeted"} -> "EVIDENCE_RECHECK"
      [] revision = "revoked" -> "TARGET_RESET"
      [] revision \in {"reinforced_source_candidate", "observed_evidence"} -> "LOCAL_REPAIR"
      [] revision \in {"evidence_unchanged", "unresolved", ""} -> ""

(***************************************************************************)
(* remember_car_episode.  `known` is the guard it finds in the ledger:     *)
(* last_action_result is set after it, so that in a replay right after     *)
(* another one this is the guard of the other.  The episode takes its      *)
(* freshness and the ledgers all they learn from `known`; the mode and     *)
(* whether anything changed are those of the action.                       *)
(***************************************************************************)
(* update_recovery_ledgers_from_guard.  A source edit without a validation *)
(* command breaks the intent, and one without a result or a related test   *)
(* leaves the validation pending.                                          *)
PendingValidation(g) ==
    /\ Fresh(g)
    /\ \/ ~g.validated
       \/ g.flags \cap {"focused_validation_not_target_related",
                        "source_edit_without_focused_validation"} # {}
LearnsRoute(g) == g.mode \in NoFreshModes \/ "intent_no_fresh_source_diff" \in g.flags
LearnsOpen(g) ==
    IF g.mode = "strong_source_success" THEN {}
    ELSE {k \in {"candidate", "validation"} :
            IF k = "candidate" THEN g.mode \in ProgressModes ELSE PendingValidation(g)}

(* make_recovery_episode, verifier_delta_from_result_mode and              *)
(* record_belief_revision_event; costly: it took at least three tenths of  *)
(* the initial token budget.                                               *)
SameModes == BoundaryModes \cup (ProgressModes \ {"source_edit_pending_official"})
Learn(m, act, mode, changed, costly, known) ==
    LET fresh == Fresh(known)
        empty == mode \in NoFreshModes /\ ~fresh
        moved == changed /\ ~empty
    IN  [m EXCEPT
          !.episodes = Append(@, [act |-> act, changed |-> moved, fresh |-> fresh,
                                  noDiff |-> empty, same |-> mode \in SameModes]),
          !.events = Append(@, [act |-> act, mode |-> mode, costly |-> costly,
                                revision |-> Revision(act, mode, moved)]),
          !.route = @ \/ LearnsRoute(known),
          !.open = @ \cup LearnsOpen(known)]

(***************************************************************************)
(* belief_revision_signal.                                                 *)
(***************************************************************************)
NoEvent == [act |-> "", mode |-> "", costly |-> FALSE, revision |-> ""]
Newest(m) == IF m.events = <<>> THEN NoEvent ELSE Last(m.events)

(* Faulty variant: a replay that left nothing calls for no evidence.       *)
NeedsEvidenceUnlessBarren(m) ==
    /\ Newest(m).revision \in {"candidate_preserved_unverified", "belief_retargeted"}
    /\ Newest(m).act \notin Rechecks
(* needs_cheap_evidence_before_expensive.                                  *)
NeedsEvidence(m) ==
    /\ Newest(m).revision \in {"candidate_preserved_unverified", "belief_retargeted",
                               "invalidated_no_progress"}
    /\ Newest(m).act \notin Rechecks

(* Of a budget of `initial` tokens at least n hundredths are used.         *)
Used(l, initial, n) == initial > 0 /\ 100 * (initial - l.tokens) >= n * initial

Pauses(l, m, initial) ==
    LET spent == {i \in DOMAIN m.events : m.events[i].act \in Expensive
                                         /\ m.events[i].revision # "reinforced_source_candidate"}
    IN  \/ NeedsEvidence(m)
        \/ Newest(m).costly /\ Newest(m).revision # "reinforced_source_candidate"
        \/ Cardinality(spent) >= 2 /\ Used(l, initial, 45)

(* _repeated_expensive_no_progress: counted back from the newest event,    *)
(* evidence aside, until an event that is neither.                         *)
InVain(e) == e.act \in Expensive /\ e.revision = "invalidated_no_progress"
Aside(e) == ~InVain(e) /\ e.revision \in {"observed_evidence", "evidence_unchanged"}
RepeatedInVain(m) ==
    LET vain == {i \in DOMAIN m.events : InVain(m.events[i])}
        ends == {i \in DOMAIN m.events : /\ ~InVain(m.events[i]) /\ ~Aside(m.events[i])
                                         /\ \E j \in vain : j > i}
    IN  Cardinality({i \in vain : \A j \in ends : j < i})
Stops(l, m, initial) ==
    RepeatedInVain(m) >= 2 /\ (Used(l, initial, 70) \/ l.steps <= 1)

(* _source_boundary_signal.                                                *)
BoundaryEvents(m) ==
    {i \in DOMAIN m.events : m.events[i].act \in Expensive /\ m.events[i].mode \in BoundaryModes}
BoundaryInvalidated(l, m) ==
    /\ ~HasCandidate(l)
    /\ \/ BoundaryEvents(m) # {}
       \/ Latest(l).mode \in BoundaryModes
       \/ Latest(l).suggestion = "SCOPE_EXPAND"
RetargetReady(l, m) ==
    /\ BoundaryInvalidated(l, m)
    /\ BoundaryEvents(m) # {}
    /\ ~NeedsEvidence(m)
    /\ Newest(m).revision \in {"observed_evidence", "evidence_unchanged", ""}

(* should_reject_action_for_recovery_ledger with preferred_cheap_actions:  *)
(* a pending validation comes first while a recheck was never tried.       *)
AwaitsValidation(l, m, act) ==
    /\ "validation" \in m.open
    /\ act \notin Rechecks
    /\ \E recheck \in Rechecks : ~Tried(l, recheck)

(* score_adjustment_for_action.                                            *)
BeliefPoints(l, m, act, initial) ==
    LET P(cond, n) == IF cond THEN n ELSE 0
        halted == Stops(l, m, initial) \/ Pauses(l, m, initial)
        barren == \E i \in DOMAIN m.events : m.events[i].revision = "invalidated_no_progress"
        ready == RetargetReady(l, m)
    IN  P(act = Hint(Newest(m).revision), IF NeedsEvidence(m) THEN 920 ELSE 180)
        + P(halted /\ act \in Cheap, 260) - P(halted /\ act \in Expensive, 900)
        + P(~halted /\ barren /\ act \in Cheap, 80)
        + P(ready /\ act = "SCOPE_EXPAND", 780) - P(ready /\ act = "LOCAL_REPAIR", 520)
        - P(ready /\ act \in Rechecks, 350)
        + P(~ready /\ BoundaryInvalidated(l, m) /\ act = "SCOPE_EXPAND", 120)
        + P("candidate" \in m.open /\ act = "LOCAL_REPAIR", 260)
        - P("candidate" \in m.open /\ act = "SCOPE_EXPAND", 220)
        + P("validation" \in m.open /\ act \in Rechecks, 520)
        - P("validation" \in m.open /\ act \in {"TARGET_RESET", "REVOKE_OBJECT"}, 220)
        - P("validation" \in m.open /\ act \in Expensive, 180)
        - P(m.route /\ act = "LOCAL_REPAIR", 260) + P(m.route /\ act = "SCOPE_EXPAND", 180)
        + P(m.route /\ act \in Cheap, 90)

(***************************************************************************)
(* local_action_prior and _action_prior_rejection: what the episodes say   *)
(* of an action.  A success ends the loop, so no episode is one, and the   *)
(* Wilson bound reaches one half only with more of them than an action may *)
(* be tried.                                                               *)
(***************************************************************************)
Own(m, act) == {i \in DOMAIN m.episodes : m.episodes[i].act = act}
CountOwn(m, act) == Cardinality(Own(m, act))
EmptyOwn(m, act) == Cardinality({i \in Own(m, act) : m.episodes[i].noDiff})
ChangedOwn(m, act) == Cardinality({i \in Own(m, act) : m.episodes[i].changed})

PriorRejects(m, act) ==
    /\ act \notin Cheap
    /\ Own(m, act) # {}
    /\ \/ EmptyOwn(m, act) = CountOwn(m, act)
       \/ CountOwn(m, act) >= 2 /\ 4 * ChangedOwn(m, act) <= CountOwn(m, act)
(* The rates count in full points for up to six episodes.                  *)
PriorPoints(m, act) ==
    IF Own(m, act) = {} THEN 0
    ELSE (120 * ChangedOwn(m, act)) \div CountOwn(m, act)
         - (420 * EmptyOwn(m, act)) \div CountOwn(m, act)
         - (IF m.episodes[Max(Own(m, act))].same THEN 80 ELSE 0)

=============================================================================
