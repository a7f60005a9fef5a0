----------------------- MODULE SemanticExecutorProofs -----------------------
(***************************************************************************)
(* What the semantic executor promises, for every way a loop is set up,    *)
(* everything replays may leave behind and cost, and every answer of a     *)
(* controller (SemanticExecutor); and what its loops promise under the two *)
(* controllers of the code (ControlledLoop).                               *)
(***************************************************************************)
EXTENDS SemanticExecutor, ControlledLoop, FiniteSetTheorems, SequenceTheorems, TLAPS

(***************************************************************************)
(* Programs and decisions.                                                 *)
(***************************************************************************)
Programs == Seq(SemanticStep) \ {<<>>}

(* A step that ends in a replay.                                           *)
EndsInReplay(s) == s.act \in Repairing \/ (s.act \in {"TARGET_RESET", "REVOKE_OBJECT"} /\ s.repair)

(* A decision runs a program, or ends the loop.                            *)
Decides(d) == d.kind \in {"stop", "raise"} \/ (d.kind = "run" /\ d.steps \in Programs)
(* A decision does not spend a unit on preparing only.                     *)
Replaying(d) == d.kind = "run" => EndsInReplay(Head(d.steps))

LEMMA OneStep ==
    ASSUME NEW s \in SemanticStep
    PROVE  /\ Decides(RunUnit(<<s>>)) /\ <<s>> \in Programs
           /\ Replaying(RunUnit(<<s>>)) <=> EndsInReplay(s)
  BY DEF Decides, Programs, RunUnit, Replaying

LEMMA TwoSteps ==
    ASSUME NEW s \in SemanticStep, NEW t \in SemanticStep
    PROVE  Decides(RunUnit(<<s, t>>))
  BY DEF Decides, Programs, RunUnit

LEMMA NoStep ==
    /\ Decides(StopLoop) /\ Replaying(StopLoop)
    /\ Decides(AskRefineProfile) /\ Replaying(AskRefineProfile)
  BY DEF Decides, Replaying, StopLoop, AskRefineProfile

LEMMA DoType ==
    ASSUME NEW act \in Actions
    PROVE  Do(act) \in SemanticStep
  BY DEF Do, SemanticStep, Scopes, Modes, Preconditions, Profiles, Anchors

(* The steps programs are made of.                                         *)
LEMMA PreparingSteps ==
    /\ Recheck \in SemanticStep /\ RecheckObject \in SemanticStep /\ Revoke \in SemanticStep
    /\ Boost \in SemanticStep /\ ResetAll \in SemanticStep
    /\ \A anchor \in Anchors : ResetTo(anchor) \in SemanticStep
    /\ Recheck.act = "EVIDENCE_RECHECK" /\ Revoke.act = "REVOKE_OBJECT"
    /\ \A anchor \in Anchors : ResetTo(anchor).act = "TARGET_RESET"
  BY DEF Recheck, RecheckObject, Revoke, Boost, ResetAll, ResetTo, Do, SemanticStep, Scopes, Modes,
         Preconditions, Profiles, Anchors, Actions, Preparing, Repairing

LEMMA RepairingSteps ==
    /\ Expand \in SemanticStep /\ Restart \in SemanticStep
    /\ EndsInReplay(Expand) /\ EndsInReplay(Restart)
    /\ \A mode \in Modes, profile \in Profiles \cup {""} :
          Repair(mode, profile) \in SemanticStep /\ EndsInReplay(Repair(mode, profile))
  BY DEF Expand, Restart, Repair, EndsInReplay, Do, SemanticStep, Scopes, Modes,
         Preconditions, Profiles, Anchors, Actions, Preparing, Repairing

LEMMA FollowDecides ==
    ASSUME NEW act \in Actions \ {"LOCAL_REPAIR"}
    PROVE  /\ Decides(Follow(act)) /\ Follow(act).kind = "run"
           /\ act = "SCOPE_EXPAND" => Replaying(Follow(act))
  <1>1. "post_locate" \in Anchors
    BY DEF Anchors
  <1>2. CASE act = "EVIDENCE_RECHECK"
    BY <1>2, OneStep, PreparingSteps DEF Follow, RunUnit
  <1>3. CASE act = "RECHECK_OBJECT"
    BY <1>3, OneStep, PreparingSteps DEF Follow, RunUnit
  <1>4. CASE act = "REVOKE_OBJECT"
    BY <1>4, OneStep, PreparingSteps DEF Follow, RunUnit
  <1>5. CASE act = "TARGET_RESET"
    BY <1>1, <1>5, OneStep, PreparingSteps DEF Follow, RunUnit
  <1>6. CASE act = "CAPABILITY_BOOST"
    BY <1>6, OneStep, PreparingSteps DEF Follow, RunUnit
  <1>7. CASE act = "SCOPE_EXPAND"
    BY <1>7, OneStep, RepairingSteps DEF Follow, RunUnit
  <1> QED
    BY <1>2, <1>3, <1>4, <1>5, <1>6, <1>7 DEF Actions, Preparing, Repairing

LEMMA FirstUnitType ==
    ASSUME NEW program \in Programs, NEW asked, NEW l, l.profile \in Profiles
    PROVE  FirstUnit(program, asked, l) \in Programs
  <1>1. CASE asked \notin Actions
    BY <1>1 DEF FirstUnit, Actions, Repairing
  <1>2. CASE asked = "LOCAL_REPAIR"
    BY <1>2, OneStep, RepairingSteps DEF FirstUnit, Modes, Actions, Repairing
  <1>3. CASE asked \in Actions \ {"LOCAL_REPAIR"}
    <2>1. FirstUnit(program, asked, l) = Follow(asked).steps
      BY <1>3 DEF FirstUnit
    <2> QED
      BY <1>3, <2>1, FollowDecides DEF Decides
  <1> QED
    BY <1>1, <1>2, <1>3

LEMMA LatestType ==
    ASSUME NEW l \in Ledger
    PROVE  /\ Latest(l) \in Guard \cup {NoGuard}
           /\ Latest(l).evidence \in BOOLEAN
  <1>1. l.guards \in Seq(Guard)
    BY DEF Ledger
  <1>2. Latest(l) \in Guard \cup {NoGuard}
    BY <1>1, EmptySeq, LenProperties, ElementOfSeq DEF Latest
  <1>3. \A g \in Guard : g.evidence \in BOOLEAN
    BY DEF Guard
  <1>4. NoGuard.evidence \in BOOLEAN
    BY DEF NoGuard
  <1> QED
    BY <1>2, <1>3, <1>4

(* Steps that are a little different.                                      *)
LEMMA StepExcept ==
    ASSUME NEW s \in SemanticStep
    PROVE  /\ \A pre \in Preconditions :
                 /\ [s EXCEPT !.pre = pre] \in SemanticStep
                 /\ EndsInReplay(s) => EndsInReplay([s EXCEPT !.pre = pre])
           /\ [s EXCEPT !.recheck = TRUE] \in SemanticStep
           /\ EndsInReplay(s) => EndsInReplay([s EXCEPT !.recheck = TRUE])
           /\ \A mode \in Modes :
                 /\ [s EXCEPT !.repair = TRUE, !.mode = mode] \in SemanticStep
                 /\ s.act \in {"TARGET_RESET", "REVOKE_OBJECT"} =>
                       EndsInReplay([s EXCEPT !.repair = TRUE, !.mode = mode])
  BY DEF SemanticStep, EndsInReplay

LEMMA CandidateRepairDecides ==
    ASSUME NEW l \in Ledger, NEW mode \in Modes, NEW profile \in Profiles \cup {""}
    PROVE  Decides(CandidateRepair(l, mode, profile)) /\ Replaying(CandidateRepair(l, mode, profile))
  <1> DEFINE s == [Repair(mode, profile) EXCEPT
                     !.pre = "source_candidate_refine",
                     !.anchor = IF BestCandidate(l).checkpoint THEN "source_candidate" ELSE "",
                     !.recheck = Latest(l).evidence]
  <1>1. Repair(mode, profile) \in SemanticStep
    BY RepairingSteps
  <1>2. Latest(l).evidence \in BOOLEAN
    BY LatestType
  <1>3. (IF BestCandidate(l).checkpoint THEN "source_candidate" ELSE "") \in Anchors
    BY DEF Anchors
  <1>4. s \in SemanticStep
    BY <1>1, <1>2, <1>3 DEF SemanticStep, Preconditions
  <1>5. EndsInReplay(s)
    BY <1>1 DEF EndsInReplay, Repair, Do, SemanticStep, Repairing
  <1> QED
    BY <1>4, <1>5, OneStep DEF CandidateRepair

(* The table of follow-ups.  What it makes of a suggestion that prepares   *)
(* may prepare; what it makes of any other ends in a replay.               *)
Suggested == Suggestions \cup {"", "LOCAL_REPAIR"}
Prepared == {"REVOKE_OBJECT", "TARGET_RESET", "CAPABILITY_BOOST", "EVIDENCE_RECHECK"}

LEMMA AfterRecheckDecides ==
    ASSUME NEW s, NEW t \in SemanticStep, EndsInReplay(t)
    PROVE  /\ Decides(AfterRecheck(s, t))
           /\ s \notin Prepared => Replaying(AfterRecheck(s, t))
  <1>1. CASE s \in {"REVOKE_OBJECT", "TARGET_RESET", "SCOPE_EXPAND"}
    BY <1>1, FollowDecides DEF AfterRecheck, Actions, Preparing, Repairing, Prepared
  <1>2. CASE s \notin {"REVOKE_OBJECT", "TARGET_RESET", "SCOPE_EXPAND"}
    BY <1>2, OneStep DEF AfterRecheck
  <1> QED
    BY <1>1, <1>2

LEMMA AfterPreparingDecides ==
    ASSUME NEW last \in SemanticStep, last.act \in Preparing, NEW s \in Suggested, NEW l \in Ledger
    PROVE  /\ Decides(AfterPreparing(last, s, l))
           /\ s \notin Prepared => Replaying(AfterPreparing(last, s, l))
  <1> USE DEF Modes, Profiles
  <1>1. CASE last.act = "EVIDENCE_RECHECK"
    <2> DEFINE t == [Repair("evidence_rechecked_local", "compact") EXCEPT
                       !.pre = "post_evidence_source_repair"]
    <2>1. t \in SemanticStep /\ EndsInReplay(t)
      BY RepairingSteps, StepExcept DEF Preconditions
    <2> QED
      BY <1>1, <2>1, AfterRecheckDecides DEF AfterPreparing
  <1>2. CASE last.act = "RECHECK_OBJECT"
    BY <1>2, AfterRecheckDecides, RepairingSteps DEF AfterPreparing
  <1>3. CASE last.act = "REVOKE_OBJECT"
    <2>1. CASE s \in {"EVIDENCE_RECHECK", "TARGET_RESET", "CAPABILITY_BOOST", "SCOPE_EXPAND"}
      BY <1>3, <2>1, FollowDecides DEF AfterPreparing, AfterRevoke, Actions, Preparing, Repairing,
            Prepared
    <2>2. CASE s \notin {"EVIDENCE_RECHECK", "TARGET_RESET", "CAPABILITY_BOOST", "SCOPE_EXPAND"}
      BY <1>3, <2>2, OneStep, RepairingSteps DEF AfterPreparing, AfterRevoke
    <2> QED
      BY <2>1, <2>2
  <1>4. CASE last.act = "TARGET_RESET"
    <2>1. AfterPreparing(last, s, l) = AfterReset(last.anchor)
      BY <1>4 DEF AfterPreparing
    <2> QED
      BY <2>1, OneStep, RepairingSteps DEF AfterReset
  <1>5. CASE last.act = "CAPABILITY_BOOST"
    <2>1. AfterPreparing(last, s, l) = AfterBoost(l)
      BY <1>5 DEF AfterPreparing
    <2>2. l.profile \in Profiles
      BY DEF Ledger
    <2> QED
      BY <2>1, <2>2, OneStep, NoStep, RepairingSteps DEF AfterBoost
  <1> QED
    BY <1>1, <1>2, <1>3, <1>4, <1>5 DEF Preparing

LEMMA TableDecides ==
    ASSUME NEW last \in SemanticStep, NEW s \in Suggested, NEW l \in Ledger
    PROVE  /\ Decides(Table(last, s, l))
           /\ s \notin Prepared => Replaying(Table(last, s, l))
  <1>1. CASE last.act \in Preparing
    BY <1>1, AfterPreparingDecides DEF Table
  <1>2. CASE last.act \notin Preparing
    <2>1. CASE s \in Stopping \cup {"LOCAL_REPAIR"}
      BY <1>2, <2>1, NoStep DEF Table, AfterRepairing
    <2>2. CASE s \notin Stopping \cup {"LOCAL_REPAIR"}
      BY <1>2, <2>2, FollowDecides DEF Table, AfterRepairing, Suggested, Suggestions, Stopping,
            Actions, Preparing, Repairing, Prepared
    <2> QED
      BY <2>1, <2>2
  <1> QED
    BY <1>1, <1>2

(* The last slot: without CAR every fused unit ends in a replay.           *)
LEMMA FusedDecides ==
    ASSUME NEW last \in SemanticStep, NEW s \in Suggested, NEW l \in Ledger, NEW r,
           Fusible(s, l)
    PROVE  /\ Decides(Fused(last, s, l, r))
           /\ r.controller # "car" => Replaying(Fused(last, s, l, r))
  <1> USE DEF Modes, Profiles
  <1>1. CASE s = "CAPABILITY_BOOST"
    <2>1. BoostedMode(last.act) \in Modes
      BY DEF BoostedMode
    <2>2. CASE r.controller = "car" /\ ~ForcesReplay(l)
      BY <1>1, <2>2, FollowDecides DEF Fused, Actions, Preparing
    <2>3. CASE ~(r.controller = "car" /\ ~ForcesReplay(l))
      BY <1>1, <2>1, <2>3, OneStep, RepairingSteps DEF Fused
    <2> QED
      BY <2>2, <2>3
  <1>2. CASE s = "EVIDENCE_RECHECK"
    <2> DEFINE t == [Repair("evidence_rechecked_local", "normal") EXCEPT !.recheck = TRUE]
    <2>1. t \in SemanticStep /\ EndsInReplay(t)
      BY RepairingSteps, StepExcept
    <2>2. CASE r.controller = "car" /\ ~ForcesReplay(l)
      BY <1>2, <2>2, FollowDecides DEF Fused, Actions, Preparing
    <2>3. CASE ~(r.controller = "car" /\ ~ForcesReplay(l))
      BY <1>2, <2>1, <2>3, OneStep DEF Fused
    <2> QED
      BY <2>2, <2>3
  <1>3. CASE s = "REVOKE_OBJECT"
    <2> DEFINE t == [Revoke EXCEPT !.repair = TRUE, !.mode = "object_revoked_local"]
    <2>1. t \in SemanticStep /\ EndsInReplay(t)
      BY PreparingSteps, StepExcept
    <2> QED
      BY <1>3, <2>1, OneStep DEF Fused
  <1>4. CASE s = "TARGET_RESET"
    <2> DEFINE t == [ResetTo("post_locate") EXCEPT !.repair = TRUE,
                                                   !.mode = "rebuild_from_local_anchor"]
    <2>1. t \in SemanticStep /\ EndsInReplay(t)
      BY PreparingSteps, StepExcept DEF Anchors
    <2> QED
      BY <1>4, <2>1, OneStep DEF Fused
  <1>5. CASE s = "SCOPE_EXPAND"
    BY <1>5, CandidateRepairDecides DEF Fused
  <1> QED
    BY <1>1, <1>2, <1>3, <1>4, <1>5 DEF Fusible

LEMMA SettleDecides ==
    ASSUME NEW last \in SemanticStep, NEW s \in Suggested, NEW l \in Ledger, NEW r
    PROVE  /\ Decides(Settle(last, s, l, r))
           /\ l.steps = 1 /\ r.controller # "car" => Replaying(Settle(last, s, l, r))
  <1>1. CASE l.steps = 1 /\ Fusible(s, l)
    BY <1>1, FusedDecides DEF Settle
  <1>2. CASE ~(l.steps = 1 /\ Fusible(s, l))
    BY <1>2, TableDecides DEF Settle, Fusible, Prepared
  <1> QED
    BY <1>1, <1>2

LEMMA StagnationType ==
    ASSUME NEW last, NEW l \in Ledger
    PROVE  AfterStagnation(last, l) \in Suggested
  <1>1. l.suggestion \in Suggestions \cup {""}
    BY DEF Ledger
  <1> QED
    BY <1>1 DEF AfterStagnation, Suggested, Suggestions, Stopping

LEMMA InsteadOfBoostType ==
    ASSUME NEW last, NEW l
    PROVE  InsteadOfBoost(last, l) \in Suggested
  BY DEF InsteadOfBoost, Suggested, Suggestions

LEMMA WeighDecides ==
    ASSUME NEW last \in SemanticStep, NEW s \in Suggested, NEW l \in Ledger, NEW r
    PROVE  /\ Decides(Weigh(last, s, l, r))
           /\ l.steps = 1 /\ r.controller # "car" => Replaying(Weigh(last, s, l, r))
  <1> DEFINE refine == s = "SCOPE_EXPAND" /\ Converges(l) /\ ~CandidateReplayed(l)
             cheaper == IF Tried(l, "CAPABILITY_BOOST") THEN "EVIDENCE_RECHECK" ELSE "CAPABILITY_BOOST"
             s2 == CASE refine -> cheaper
                     [] s = "SCOPE_EXPAND" /\ ~Converges(l) /\ BoostBeforeExpand(last, l, r) ->
                           "CAPABILITY_BOOST"
                     [] OTHER -> s
             s3 == IF s2 = "CAPABILITY_BOOST" /\ ~BoostHasValue(l, r) THEN InsteadOfBoost(last, l)
                   ELSE s2
  <1>1. cheaper \in Suggested /\ "CAPABILITY_BOOST" \in Suggested
    BY DEF Suggested, Suggestions
  <1>2. s2 \in Suggested
    <2>1. CASE refine
      BY <1>1, <2>1
    <2>2. CASE ~refine /\ s = "SCOPE_EXPAND" /\ ~Converges(l) /\ BoostBeforeExpand(last, l, r)
      BY <1>1, <2>2
    <2>3. CASE ~refine /\ ~(s = "SCOPE_EXPAND" /\ ~Converges(l) /\ BoostBeforeExpand(last, l, r))
      BY <2>3
    <2> QED
      BY <2>1, <2>2, <2>3
  <1> HIDE DEF s2
  <1>3. s3 \in Suggested
    BY <1>2, InsteadOfBoostType
  <1> HIDE DEF s3
  <1>4. Weigh(last, s, l, r) \in {AskRefineProfile, Settle(last, s3, l, r)}
    BY DEF Weigh, s3, s2
  <1> QED
    BY <1>3, <1>4, NoStep, SettleDecides

LEMMA HeuristicDecides ==
    ASSUME NEW last \in SemanticStep, NEW l \in Ledger, NEW r
    PROVE  /\ Decides(Heuristic(last, l, r))
           /\ l.steps = 1 /\ r.controller # "car" => Replaying(Heuristic(last, l, r))
  <1> DEFINE s == IF Repeated(l) THEN AfterStagnation(last, l) ELSE l.suggestion
  <1>1. s \in Suggested
    BY StagnationType DEF Ledger, Suggested
  <1> HIDE DEF s
  <1>2. Heuristic(last, l, r) \in {CandidateRepair(l, "candidate_preserving_refine", "boosted"),
                                   AskRefineProfile, StopLoop, Weigh(last, s, l, r)}
    BY DEF Heuristic, s
  <1>3. "candidate_preserving_refine" \in Modes /\ "boosted" \in Profiles \cup {""}
    BY DEF Modes, Profiles
  <1> QED
    BY <1>1, <1>2, <1>3, NoStep, CandidateRepairDecides, WeighDecides

LEMMA ForcedDecides ==
    ASSUME NEW last \in SemanticStep, NEW act \in Actions, NEW l \in Ledger, NEW r
    PROVE  Decides(Forced(last, act, l, r))
  <1>1. "candidate_preserving_boosted_refine" \in Modes /\ "boosted" \in Profiles \cup {""}
    BY DEF Modes, Profiles
  <1>2. "LOCAL_REPAIR" \in Suggested
    BY DEF Suggested
  <1>3. CASE r.controller = "car" /\ Converges(l) /\ act \in Repairing /\ CandidateJudged(l)
    BY <1>3, NoStep DEF Forced, Repairing
  <1>4. CASE r.controller = "car" /\ Converges(l) /\ act = "CAPABILITY_BOOST"
    BY <1>1, <1>4, CandidateRepairDecides DEF Forced, Repairing
  <1>5. CASE ~(r.controller = "car" /\ Converges(l))
             \/ ~((act \in Repairing /\ CandidateJudged(l)) \/ act = "CAPABILITY_BOOST")
    <2>1. Forced(last, act, l, r) = IF act = "LOCAL_REPAIR" THEN Settle(last, act, l, r) ELSE Follow(act)
      BY <1>5 DEF Forced
    <2> QED
      BY <1>2, <2>1, SettleDecides, FollowDecides
  <1> QED
    BY <1>3, <1>4, <1>5

LEMMA NextActionDecides ==
    ASSUME NEW last \in SemanticStep, NEW asked, NEW l \in Ledger, NEW r
    PROVE  /\ Decides(NextAction(last, asked, l, r))
           /\ l.steps = 1 /\ r.controller # "car" /\ asked \notin Actions =>
                 Replaying(NextAction(last, asked, l, r))
  <1>1. CASE l.suggestion \in Stopping \ {""} \/ asked = "STOP"
    BY <1>1, NoStep DEF NextAction, Actions, Preparing, Repairing
  <1>2. CASE ~(l.suggestion \in Stopping \ {""} \/ asked = "STOP") /\ asked \in Actions
    BY <1>2, ForcedDecides DEF NextAction
  <1>3. CASE ~(l.suggestion \in Stopping \ {""} \/ asked = "STOP") /\ asked \notin Actions
    BY <1>3, HeuristicDecides DEF NextAction
  <1> QED
    BY <1>1, <1>2, <1>3

LEMMA NextFragmentDecides ==
    ASSUME NEW l \in Ledger, NEW hasInitial \in BOOLEAN
    PROVE  Decides(NextFragment(l, hasInitial))
  <1> USE DEF Modes, Profiles, Anchors
  <1>1. l.suggestion \in Suggestions \cup {""}
    BY DEF Ledger
  <1>2. CASE l.suggestion \in Stopping
    BY <1>2, NoStep DEF NextFragment, Stopping
  <1>3. CASE l.suggestion = "EVIDENCE_RECHECK"
    BY <1>3, TwoSteps, PreparingSteps, RepairingSteps DEF NextFragment, Stopping
  <1>4. CASE l.suggestion = "TARGET_RESET"
    BY <1>4, TwoSteps, PreparingSteps, RepairingSteps DEF NextFragment, Stopping
  <1>5. CASE l.suggestion = "CAPABILITY_BOOST"
    BY <1>5, TwoSteps, PreparingSteps, RepairingSteps DEF NextFragment, Stopping
  <1>6. CASE l.suggestion = "SCOPE_EXPAND"
    BY <1>6, TwoSteps, PreparingSteps, RepairingSteps DEF NextFragment, Stopping
  <1>7. CASE l.suggestion = "REVOKE_OBJECT"
    BY <1>7, NoStep, TwoSteps, PreparingSteps, RepairingSteps DEF NextFragment, Stopping
  <1> QED
    BY <1>1, <1>2, <1>3, <1>4, <1>5, <1>6, <1>7 DEF Suggestions, Stopping

(***************************************************************************)
(* Compilation.                                                            *)
(***************************************************************************)
Primitives == Seq(PrimRecord)
(* A replay comes last.                                                    *)
ReplayLast(ps) == \A k \in 1..Len(ps) - 1 : ps[k].op # "CONSTRAINED_REPLAY"

LEMMA PrimType ==
    ASSUME NEW op \in Ops, NEW s \in SemanticStep
    PROVE  Prim(op, s) \in PrimRecord /\ Prim(op, s).op = op
  BY DEF Prim, SemanticStep, PrimRecord

(* Whether primitives hold no replay.                                      *)
NoReplay(ps) == ps \in Primitives /\ \A k \in 1..Len(ps) : ps[k].op # "CONSTRAINED_REPLAY"

(* Whether they hold one, at the end.                                      *)
OneReplay(ps) == /\ ps \in Primitives /\ ReplayLast(ps)
                 /\ Len(ps) > 0 /\ ps[Len(ps)].op = "CONSTRAINED_REPLAY"

LEMMA NoReplayConcat ==
    ASSUME NEW ps, NEW qs, NoReplay(ps)
    PROVE  /\ NoReplay(qs) => NoReplay(ps \o qs)
           /\ OneReplay(qs) => OneReplay(ps \o qs)
  <1>1. ps \in Seq(PrimRecord) /\ Len(ps) \in Nat
    BY LenProperties DEF NoReplay, Primitives
  <1>2. ASSUME NoReplay(qs)
        PROVE  NoReplay(ps \o qs)
    BY <1>1, <1>2, ConcatProperties, LenProperties DEF NoReplay, Primitives
  <1>3. ASSUME OneReplay(qs)
        PROVE  OneReplay(ps \o qs)
    <2>1. qs \in Seq(PrimRecord) /\ Len(qs) \in Nat /\ Len(qs) > 0
      BY <1>3, LenProperties DEF OneReplay, Primitives
    <2>2. /\ ps \o qs \in Seq(PrimRecord) /\ Len(ps \o qs) = Len(ps) + Len(qs)
          /\ \A k \in 1..Len(ps) + Len(qs) :
                (ps \o qs)[k] = IF k <= Len(ps) THEN ps[k] ELSE qs[k - Len(ps)]
      BY <1>1, <2>1, ConcatProperties
    <2>3. ASSUME NEW k \in 1..Len(ps \o qs) - 1
          PROVE  (ps \o qs)[k].op # "CONSTRAINED_REPLAY"
      <3>1. CASE k <= Len(ps)
        <4>1. k \in 1..Len(ps) /\ k \in 1..Len(ps) + Len(qs)
          BY <1>1, <2>1, <2>2, <2>3, <3>1
        <4> QED
          BY <2>2, <3>1, <4>1 DEF NoReplay
      <3>2. CASE k > Len(ps)
        <4>1. k - Len(ps) \in 1..Len(qs) - 1 /\ k \in 1..Len(ps) + Len(qs)
          BY <1>1, <2>1, <2>2, <2>3, <3>2
        <4> QED
          BY <1>1, <1>3, <2>2, <3>2, <4>1 DEF OneReplay, ReplayLast
      <3> QED
        BY <1>1, <2>1, <2>2, <2>3, <3>1, <3>2
    <2>4. (ps \o qs)[Len(ps \o qs)] = qs[Len(qs)]
      BY <1>1, <2>1, <2>2
    <2> QED
      BY <1>1, <1>3, <2>1, <2>2, <2>3, <2>4 DEF OneReplay, Primitives, ReplayLast
  <1> QED
    BY <1>2, <1>3

LEMMA OnePrim ==
    ASSUME NEW op \in Ops, NEW s \in SemanticStep
    PROVE  /\ op # "CONSTRAINED_REPLAY" => NoReplay(<<Prim(op, s)>>)
           /\ op = "CONSTRAINED_REPLAY" => OneReplay(<<Prim(op, s)>>)
           /\ NoReplay(<<>>)
  BY PrimType DEF Primitives, NoReplay, OneReplay, ReplayLast

LEMMA InspectionType ==
    ASSUME NEW s \in SemanticStep
    PROVE  NoReplay(Inspection(s))
  <1>1. Prim("READ_EVIDENCE", s) \in PrimRecord /\ Prim("READ_EVIDENCE", s).op = "READ_EVIDENCE"
    BY PrimType DEF Ops
  <1>2. Prim("FOCUSED_VERIFY", s) \in PrimRecord /\ Prim("FOCUSED_VERIFY", s).op = "FOCUSED_VERIFY"
    BY PrimType DEF Ops
  <1> QED
    BY <1>1, <1>2 DEF Inspection, NoReplay, Primitives

(* A step is compiled to primitives with at most one replay, the last, and *)
(* with one if it is a step that ends in a replay.                         *)
LEMMA CompileType ==
    ASSUME NEW s \in SemanticStep, NEW profile
    PROVE  /\ EndsInReplay(s) => OneReplay(Compile(s, profile))
           /\ ~EndsInReplay(s) => NoReplay(Compile(s, profile))
  <1> USE DEF Ops
  <1> DEFINE p == IF s.profile = "" THEN profile ELSE s.profile
             boosted == When(p = "boosted", <<Prim("BOOST_EXECUTION", s)>>)
             inspected == When(s.recheck, Inspection(s))
             restored == When(s.anchor # "", <<Prim("ROLLBACK_ANCHOR", s)>>)
             replay == <<Prim("CONSTRAINED_REPLAY", s)>>
             plain == <<Prim("CONSTRAINED_REPLAY", [s EXCEPT !.pre = ""])>>
  <1>1. NoReplay(boosted) /\ NoReplay(inspected) /\ NoReplay(restored)
    BY OnePrim, InspectionType DEF When
  <1>2. OneReplay(replay)
    BY OnePrim
  <1>3. OneReplay(plain)
    BY StepExcept, OnePrim DEF Preconditions
  <1>4. NoReplay(<<Prim("CLEAR_LOCAL_STATE", s)>>) /\ NoReplay(<<Prim("BOOST_EXECUTION", s)>>)
        /\ NoReplay(<<>>)
    BY OnePrim
  <1>5. s.act \in Actions
    BY DEF SemanticStep
  <1>6. CASE s.act \in {"EVIDENCE_RECHECK", "RECHECK_OBJECT"}
    <2>1. Compile(s, profile) = Inspection(s)
      BY <1>6 DEF Compile
    <2> QED
      BY <1>6, <2>1, InspectionType DEF EndsInReplay, Repairing
  <1>7. CASE s.act \in {"TARGET_RESET", "REVOKE_OBJECT"}
    <2>1. Compile(s, profile) = (<<Prim("CLEAR_LOCAL_STATE", s)>> \o restored) \o When(s.repair, boosted \o plain)
      BY <1>7 DEF Compile
    <2> HIDE DEF boosted, restored, plain
    <2>2. NoReplay(<<Prim("CLEAR_LOCAL_STATE", s)>> \o restored)
      BY <1>1, <1>4, NoReplayConcat
    <2>3. OneReplay(boosted \o plain)
      BY <1>1, <1>3, NoReplayConcat
    <2> HIDE DEF Ops
    <2>4. CASE s.repair
      BY <1>7, <2>1, <2>2, <2>3, <2>4, NoReplayConcat DEF When, EndsInReplay
    <2>5. CASE ~s.repair
      BY <1>4, <1>7, <2>1, <2>2, <2>5, NoReplayConcat DEF When, EndsInReplay, Repairing
    <2> QED
      BY <2>4, <2>5
  <1>8. CASE s.act = "LOCAL_REPAIR"
    <2>1. Compile(s, profile) = ((restored \o inspected) \o boosted) \o replay
      BY <1>8 DEF Compile
    <2> HIDE DEF boosted, restored, inspected, replay
    <2>2. NoReplay((restored \o inspected) \o boosted)
      BY <1>1, NoReplayConcat
    <2> QED
      BY <1>2, <1>8, <2>1, <2>2, NoReplayConcat DEF EndsInReplay, Repairing
  <1>9. CASE s.act = "SCOPE_EXPAND"
    <2>1. Compile(s, profile) = (inspected \o <<Prim("BOOST_EXECUTION", s)>>) \o replay
      BY <1>9 DEF Compile
    <2> HIDE DEF inspected, replay
    <2>2. NoReplay(inspected \o <<Prim("BOOST_EXECUTION", s)>>)
      BY <1>1, <1>4, NoReplayConcat
    <2> QED
      BY <1>2, <1>9, <2>1, <2>2, NoReplayConcat DEF EndsInReplay, Repairing
  <1>10. CASE s.act = "CAPABILITY_BOOST"
    <2>1. Compile(s, profile) = <<Prim("BOOST_EXECUTION", s)>>
      BY <1>10 DEF Compile
    <2> QED
      BY <1>4, <1>10, <2>1 DEF EndsInReplay, Repairing
  <1> QED
    BY <1>5, <1>6, <1>7, <1>8, <1>9, <1>10 DEF Actions, Preparing, Repairing

(* What is left of the primitives of a step.                               *)
LEMMA TailPrims ==
    ASSUME NEW ps \in Primitives, ReplayLast(ps), ps # <<>>
    PROVE  /\ Head(ps) \in PrimRecord
           /\ Tail(ps) \in Primitives /\ ReplayLast(Tail(ps))
           /\ Head(ps).op = "CONSTRAINED_REPLAY" => Tail(ps) = <<>>
  <1>1. /\ Len(ps) \in Nat /\ Len(ps) > 0 /\ Head(ps) = ps[1] /\ ps[1] \in PrimRecord
    BY EmptySeq, LenProperties, ElementOfSeq DEF Primitives
  <1>2. /\ Tail(ps) \in Primitives /\ Len(Tail(ps)) = Len(ps) - 1
        /\ \A k \in 1..Len(ps) - 1 : Tail(ps)[k] = ps[k + 1]
    BY <1>1, HeadTailProperties DEF Primitives
  <1>3. ReplayLast(Tail(ps))
    BY <1>1, <1>2 DEF ReplayLast
  <1>4. ASSUME Head(ps).op = "CONSTRAINED_REPLAY"
        PROVE  Tail(ps) = <<>>
    <2>1. 1 \notin 1..Len(ps) - 1
      BY <1>1, <1>4 DEF ReplayLast
    <2>2. Len(ps) = 1
      <3> DEFINE n == Len(ps)
      <3>1. n \in Nat /\ n > 0 /\ 1 \notin 1..n - 1
        BY <1>1, <2>1
      <3> HIDE DEF n
      <3>2. n = 1
        BY <3>1
      <3> QED
        BY <3>2 DEF n
    <2>3. Len(Tail(ps)) = 0 /\ Tail(ps) \in Seq(PrimRecord)
      BY <1>2, <2>2 DEF Primitives
    <2> QED
      BY <2>3, EmptySeq, LenProperties
  <1> QED
    BY <1>1, <1>2, <1>3, <1>4

(***************************************************************************)
(* Guards.                                                                 *)
(***************************************************************************)
(* A guard that calls for success is one of a source edit.                 *)
Earned(g) == g.mode = "strong_source_success" => g.edit = "source"

LEMMA ResultModeType ==
    ASSUME NEW passed \in BOOLEAN, NEW deferred \in BOOLEAN, NEW edit \in Edits
    PROVE  /\ ResultMode(passed, deferred, edit) \in ResultModes
           /\ ResultMode(passed, deferred, edit) = "strong_source_success" =>
                 passed /\ ~deferred /\ edit = "source"
  BY DEF ResultMode, FailedMode, DeferredMode, PassedMode, ResultModes, SuccessModes, PendingModes,
         FailureModes, IntentModes, ContractModes, Edits, OnSuspect

LEMMA SuggestNextType ==
    ASSUME NEW mode \in ResultModes, NEW edit \in Edits, NEW object
    PROVE  SuggestNext(mode, edit, object) \in Suggestions
  <1> DEFINE s == SuggestNext(mode, edit, object)
  <1>1. CASE mode \in PendingModes
    BY <1>1 DEF SuggestNext, Suggestions, PendingModes, SuccessModes
  <1>2. CASE mode \in SuccessModes
    BY <1>2 DEF SuggestNext, Suggestions, PendingModes, SuccessModes
  <1>3. CASE mode \notin SuccessModes \cup PendingModes /\ edit = "none"
    BY <1>3 DEF SuggestNext, Suggestions, PendingModes, SuccessModes
  <1>4. CASE mode \notin SuccessModes \cup PendingModes /\ edit # "none"
    BY <1>4 DEF SuggestNext, Suggestions, PendingModes, SuccessModes
  <1> QED
    BY <1>1, <1>2, <1>3, <1>4

LEMMA BuildGuardType ==
    ASSUME NEW out \in OutcomeRecord, NEW object
    PROVE  LET g == BuildGuard(out, object)
           IN  /\ g \in Guard /\ Earned(g)
               /\ ~out.passed => g.mode # "strong_source_success"
  <1> DEFINE fresh == out.edit \in SourceEdits
             mode == CASE out.broke -> "budget_exhausted"
                       [] ~out.broke /\ "intent" \in out.broken ->
                             IF fresh THEN "intent_violation_after_source_edit"
                                      ELSE "intent_violation_no_fresh_source"
                       [] ~out.broke /\ out.broken = {"contract"} ->
                             IF fresh THEN "contract_violation_after_source_edit"
                                      ELSE "contract_violation_no_fresh_source"
                       [] ~out.broke /\ out.broken = {} ->
                             ResultMode(out.passed, out.deferred, out.edit)
             unmet == {IF k = "intent" THEN "intent_no_fresh_source_diff"
                                       ELSE "contract_no_fresh_source_diff" :
                         k \in IF fresh THEN {} ELSE out.broken}
             flags == EditFlags(out.edit) \cup out.quality \cup unmet
                      \cup ValidationFlags(out.validation, out.edit)
             suggestion == IF out.broke THEN "STOP" ELSE SuggestNext(mode, out.edit, object)
             g == [mode |-> mode, edit |-> out.edit, flags |-> flags, evidence |-> out.evidence,
                   validated |-> out.validation \in {"unrelated", "related"}, probe |-> "",
                   nested |-> out.nested, files |-> out.files, suggestion |-> suggestion]
  <1>1. /\ out.edit \in Edits /\ out.passed \in BOOLEAN /\ out.deferred \in BOOLEAN
        /\ out.quality \subseteq Flags /\ out.validation \in Validations
        /\ out.broken \subseteq {"contract", "intent"} /\ out.broke \in BOOLEAN
        /\ out.evidence \in BOOLEAN /\ out.nested \in BOOLEAN /\ out.files \in FileSets
    BY DEF OutcomeRecord
  <1>2. BuildGuard(out, object) = g
    BY DEF BuildGuard
  <1>3. /\ mode \in ResultModes
        /\ mode = "strong_source_success" => out.passed /\ out.edit = "source"
    <2>1. "budget_exhausted" \in ResultModes /\ IntentModes \subseteq ResultModes
          /\ ContractModes \subseteq ResultModes
      BY DEF ResultModes, FailureModes
    <2>2. CASE out.broke
      BY <2>1, <2>2
    <2>3. CASE ~out.broke /\ "intent" \in out.broken
      <3>1. mode \in IntentModes
        BY <2>3 DEF IntentModes
      <3> QED
        BY <2>1, <3>1 DEF IntentModes
    <2>4. CASE ~out.broke /\ out.broken = {"contract"}
      <3>1. mode \in ContractModes
        BY <2>4 DEF ContractModes
      <3> QED
        BY <2>1, <3>1 DEF ContractModes
    <2>5. CASE ~out.broke /\ out.broken = {}
      <3>1. mode = ResultMode(out.passed, out.deferred, out.edit)
        BY <2>5
      <3> QED
        BY <1>1, <3>1, ResultModeType
    <2>6. \/ out.broke
          \/ ~out.broke /\ "intent" \in out.broken
          \/ ~out.broke /\ out.broken = {"contract"}
          \/ ~out.broke /\ out.broken = {}
      BY <1>1
    <2> QED
      BY <2>2, <2>3, <2>4, <2>5, <2>6
  <1>4. EditFlags(out.edit) \subseteq Flags /\ ValidationFlags(out.validation, out.edit) \subseteq Flags
    BY DEF EditFlags, ValidationFlags, Flags, CareFlags
  <1>5. unmet \subseteq Flags
    BY DEF Flags, ContractFlags
  <1>6. flags \subseteq Flags
    BY <1>1, <1>4, <1>5
  <1> HIDE DEF mode
  <1>7. suggestion \in Suggestions
    BY <1>1, <1>3, SuggestNextType DEF Suggestions
  <1> HIDE DEF flags, suggestion
  <1>8. (out.validation \in {"unrelated", "related"}) \in BOOLEAN
    OBVIOUS
  <1>9. g \in Guard
    BY <1>1, <1>3, <1>6, <1>7, <1>8 DEF Guard
  <1>10. g.mode = mode /\ g.edit = out.edit
    OBVIOUS
  <1> HIDE DEF g
  <1> QED
    BY <1>2, <1>3, <1>9, <1>10 DEF Earned

LEMMA ResolvedType ==
    ASSUME NEW g \in Guard, NEW oracle \in BOOLEAN
    PROVE  /\ Resolved(g, oracle) \in Guard /\ Earned(Resolved(g, oracle))
           /\ Resolved(g, oracle).mode = "strong_source_success" => oracle
  <1> DEFINE mode == ResultMode(oracle, FALSE, g.edit)
  <1>1. g.edit \in Edits /\ g.evidence \in BOOLEAN
    BY DEF Guard
  <1>2. mode \in ResultModes /\ (mode = "strong_source_success" => oracle /\ g.edit = "source")
    BY <1>1, ResultModeType
  <1> HIDE DEF mode
  <1>3. SuggestNext(mode, g.edit, "") \in Suggestions
    BY <1>1, <1>2, SuggestNextType
  <1>4. EditFlags(g.edit) \subseteq Flags
    BY DEF EditFlags, Flags
  <1>5. Resolved(g, oracle) = [g EXCEPT !.mode = mode, !.flags = EditFlags(g.edit),
                                        !.evidence = @ \/ ~oracle,
                                        !.suggestion = SuggestNext(mode, g.edit, "")]
    BY DEF Resolved, mode
  <1> QED
    BY <1>1, <1>2, <1>3, <1>4, <1>5 DEF Guard, Earned

LEMMA ProbedType ==
    ASSUME NEW g \in Guard, ProbeWorthIt(g), NEW passes \in BOOLEAN
    PROVE  Probed(g, passes) \in Guard /\ Probed(g, passes).mode # "strong_source_success"
  <1> DEFINE mode == ResultMode(TRUE, TRUE, g.edit)
  <1>1. g.edit \in Edits
    BY DEF Guard
  <1>2. mode \in ResultModes /\ mode # "strong_source_success"
    BY <1>1, ResultModeType
  <1> HIDE DEF mode
  <1>3. EditFlags(g.edit) \subseteq Flags
    BY DEF EditFlags, Flags
  <1>4. CASE passes
    <2>1. Probed(g, passes) = [g EXCEPT !.mode = mode, !.flags = EditFlags(g.edit),
                                        !.probe = "passed", !.suggestion = "STOP_FOR_OFFICIAL_EVAL"]
      BY <1>4 DEF Probed, mode
    <2> QED
      BY <1>2, <1>3, <2>1 DEF Guard, Suggestions
  <1>5. CASE ~passes
    BY <1>5 DEF Probed, Guard, ProbeWorthIt
  <1> QED
    BY <1>4, <1>5

(* The guards a step can hold, and those it holds when it is stopped.      *)
StopGuard == [NoGuard EXCEPT !.suggestion = "STOP"]
Guards == Guard \cup {NoGuard, StopGuard}

LEMMA StoppedGuard ==
    ASSUME NEW g \in Guards
    PROVE  [g EXCEPT !.suggestion = "STOP"] \in Guards /\ g.suggestion \in Suggestions \cup {""}
  <1>1. ASSUME g \in Guard
        PROVE  [g EXCEPT !.suggestion = "STOP"] \in Guard /\ g.suggestion \in Suggestions
    BY <1>1 DEF Guard, Suggestions
  <1>2. ASSUME g = NoGuard
        PROVE  [g EXCEPT !.suggestion = "STOP"] = StopGuard /\ g.suggestion = ""
    BY <1>2 DEF NoGuard, StopGuard
  <1>3. ASSUME g = StopGuard
        PROVE  [g EXCEPT !.suggestion = "STOP"] = StopGuard /\ g.suggestion = "STOP"
    BY <1>3 DEF NoGuard, StopGuard
  <1> QED
    BY <1>1, <1>2, <1>3 DEF Guards, Suggestions

(***************************************************************************)
(* Candidates, signatures and contracts.                                   *)
(***************************************************************************)
(* A set of naturals that is not empty has a least element.                *)
LEMMA LeastExists ==
    ASSUME NEW T \in SUBSET Nat, T # {}
    PROVE  \E n \in T : \A m \in T : n <= m
  <1> DEFINE Less == StrictSubsetOrdering(Nat)
             below == {0..n : n \in T}
  <1>1. IsWellFoundedOn(Less, FiniteSubsetsOf(Nat))
    BY FS_StrictSubsetOrderingWellFounded
  <1>2. below \subseteq FiniteSubsetsOf(Nat) /\ below # {}
    <2>1. \A n \in T : IsFiniteSet(0..n) /\ 0..n \subseteq Nat
      BY FS_Interval
    <2> QED
      BY <2>1 DEF FiniteSubsetsOf
  <1> HIDE DEF Less
  <1>3. PICK low \in below : \A other \in below : <<other, low>> \notin Less
    BY <1>1, <1>2, WFMin
  <1>4. PICK n \in T : low = 0..n
    OBVIOUS
  <1>5. ASSUME NEW m \in T, m < n
        PROVE  FALSE
    <2>1. 0..m \in below /\ m \in Nat /\ n \in Nat
      OBVIOUS
    <2>2. 0..m \subseteq 0..n /\ 0..m # 0..n
      <3>1. n \in 0..n /\ n \notin 0..m
        BY <1>5, <2>1
      <3> QED
        BY <1>5, <2>1, <3>1
    <2>3. <<0..m, 0..n>> \in Less
      BY <2>1, <2>2 DEF Less, StrictSubsetOrdering
    <2> QED
      BY <1>3, <1>4, <2>1, <2>3
  <1> QED
    BY <1>5

LEMMA RankType ==
    ASSUME NEW candidates \in Seq(CandidateRecord), NEW i \in DOMAIN candidates
    PROVE  CandidateRank(candidates, i) \in 0 .. 190 + Len(candidates)
  <1>1. Len(candidates) \in Nat /\ i \in 1..Len(candidates)
    BY LenProperties
  <1>2. candidates[i] \in CandidateRecord
    BY <1>1, ElementOfSeq
  <1>3. candidates[i].doubtful \in BOOLEAN /\ candidates[i].onSuspect \in BOOLEAN
    BY <1>2 DEF CandidateRecord
  <1>4. ModeScore(candidates[i]) \in 0..9
    BY <1>3 DEF ModeScore
  <1> DEFINE score == ModeScore(candidates[i])
             bonus == IF candidates[i].onSuspect THEN 10 ELSE 0
             n == Len(candidates)
  <1>5. bonus \in 0..10 /\ score \in 0..9 /\ n \in Nat /\ i \in 1..n
    BY <1>1, <1>4
  <1>6. CandidateRank(candidates, i) = 20 * score + bonus + i
    BY DEF CandidateRank
  <1> HIDE DEF score, bonus, n
  <1>7. 20 * score + bonus + i \in 0..190 + n
    BY <1>5
  <1> QED
    BY <1>6, <1>7 DEF n

(* Of finitely many ranks one is the highest.                              *)
LEMMA HighestExists ==
    ASSUME NEW n \in Nat \ {0}, NEW top \in Nat, NEW rank \in [1..n -> 0..top]
    PROVE  \E i \in 1..n : \A j \in 1..n : rank[i] >= rank[j]
  <1> DEFINE gaps == {m \in Nat : \E i \in 1..n : m = top - rank[i]}
  <1>1. \A i \in 1..n : top - rank[i] \in gaps
    OBVIOUS
  <1>2. gaps # {}
    <2>1. 1 \in 1..n
      OBVIOUS
    <2> QED
      BY <1>1, <2>1
  <1>3. PICK m \in gaps : \A k \in gaps : m <= k
    BY <1>2, LeastExists
  <1>4. PICK i \in 1..n : m = top - rank[i]
    OBVIOUS
  <1>5. ASSUME NEW j \in 1..n
        PROVE  rank[i] >= rank[j]
    <2>1. m <= top - rank[j]
      BY <1>1, <1>3
    <2> QED
      BY <1>4, <2>1
  <1> QED
    BY <1>5

LEMMA BestCandidateType ==
    ASSUME NEW l \in Ledger, HasCandidate(l)
    PROVE  BestCandidate(l) \in CandidateRecord
           /\ \E i \in DOMAIN l.candidates : BestCandidate(l) = l.candidates[i]
  <1> DEFINE cs == l.candidates
             top == 190 + Len(cs)
             Best(i) == \A j \in DOMAIN cs : CandidateRank(cs, i) >= CandidateRank(cs, j)
  <1>1. cs \in Seq(CandidateRecord) /\ Len(cs) \in Nat \ {0} /\ DOMAIN cs = 1..Len(cs)
    BY LenProperties, EmptySeq DEF Ledger, HasCandidate
  <1>2. \A i \in DOMAIN cs : CandidateRank(cs, i) \in 0..top
    BY <1>1, RankType
  <1>3. \E i \in DOMAIN cs : Best(i)
    <2> DEFINE rank == [i \in 1..Len(cs) |-> CandidateRank(cs, i)]
    <2>1. rank \in [1..Len(cs) -> 0..top] /\ top \in Nat
      BY <1>1, <1>2
    <2> HIDE DEF top
    <2>2. \E i \in 1..Len(cs) : \A j \in 1..Len(cs) : rank[i] >= rank[j]
      <3> HIDE DEF rank
      <3> QED
        BY <1>1, <2>1, HighestExists
    <2> QED
      BY <1>1, <2>2
  <1>4. (CHOOSE k \in DOMAIN cs : Best(k)) \in DOMAIN cs
    BY <1>3
  <1>5. BestCandidate(l) = cs[CHOOSE k \in DOMAIN cs : Best(k)]
    BY DEF BestCandidate
  <1>6. \A k \in DOMAIN cs : cs[k] \in CandidateRecord
    BY <1>1, ElementOfSeq
  <1>7. \E k \in DOMAIN l.candidates : BestCandidate(l) = l.candidates[k]
    BY <1>4, <1>5
  <1> HIDE DEF cs, Best
  <1> QED
    BY <1>4, <1>5, <1>6, <1>7

LEMMA IntentCandidateType ==
    ASSUME NEW l \in Ledger, HasCandidate(l)
    PROVE  IntentCandidate(l) \in CandidateRecord
  <1> DEFINE cs == l.candidates
             top == 130 + Len(cs)
             Best(i) == \A j \in DOMAIN cs : IntentRank(cs, i) >= IntentRank(cs, j)
  <1>1. cs \in Seq(CandidateRecord) /\ Len(cs) \in Nat \ {0} /\ DOMAIN cs = 1..Len(cs)
    BY LenProperties, EmptySeq DEF Ledger, HasCandidate
  <1>2. \A k \in DOMAIN cs : cs[k] \in CandidateRecord
    BY <1>1, ElementOfSeq
  <1>3. ASSUME NEW i \in DOMAIN cs
        PROVE  IntentRank(cs, i) \in 0..top
    <2> DEFINE score == IntentScore(cs[i])
               bonus == IF cs[i].onSuspect THEN 10 ELSE 0
               n == Len(cs)
    <2>1. score \in 0..6 /\ bonus \in 0..10 /\ n \in Nat /\ i \in 1..n
      BY <1>1 DEF IntentScore
    <2>2. IntentRank(cs, i) = 20 * score + bonus + i
      BY DEF IntentRank
    <2> HIDE DEF score, bonus, n
    <2>3. 20 * score + bonus + i \in 0..130 + n
      BY <2>1
    <2> QED
      BY <2>2, <2>3 DEF n
  <1>4. \E i \in DOMAIN cs : Best(i)
    <2> DEFINE rank == [i \in 1..Len(cs) |-> IntentRank(cs, i)]
    <2>1. rank \in [1..Len(cs) -> 0..top] /\ top \in Nat
      BY <1>1, <1>3
    <2> HIDE DEF top
    <2>2. \E i \in 1..Len(cs) : \A j \in 1..Len(cs) : rank[i] >= rank[j]
      <3> HIDE DEF rank
      <3> QED
        BY <1>1, <2>1, HighestExists
    <2> QED
      BY <1>1, <2>2
  <1>5. (CHOOSE k \in DOMAIN cs : Best(k)) \in DOMAIN cs
    BY <1>4
  <1>6. IntentCandidate(l) = cs[CHOOSE k \in DOMAIN cs : Best(k)]
    BY DEF IntentCandidate
  <1> HIDE DEF cs, Best
  <1> QED
    BY <1>2, <1>5, <1>6

(* What an intent adds to the suspected paths of a signature.              *)
Additions == FileSets \cup {""}

LEMMA IntentFilesType ==
    ASSUME NEW l \in Ledger, NEW controller
    PROVE  IntentFiles(l, controller) \in Additions
  <1>1. HasCandidate(l) => IntentCandidate(l).files \in FileSets
    BY IntentCandidateType DEF CandidateRecord
  <1> QED
    BY <1>1, Zenon DEF IntentFiles, Additions

LEMMA SignatureType ==
    ASSUME NEW prim \in PrimRecord, NEW act \in Actions, NEW files \in Additions
    PROVE  Signature(prim, act, files) \in SignatureRecord
  <1>1. prim.scope \in Scopes /\ prim.mode \in Modes /\ prim.pre \in Preconditions
    BY DEF PrimRecord
  <1> QED
    BY <1>1, Zenon DEF Signature, SignatureRecord, Additions

LEMMA SequenceType ==
    ASSUME NEW tried \in Seq(Actions)
    PROVE  ConditioningSequence(tried) \in SUBSET (Nat \X Preparing)
  <1> DEFINE prepares == {i \in DOMAIN tried : tried[i] \in Preparing}
             after(i) == {j \in prepares : j > i}
  <1>1. Len(tried) \in Nat /\ DOMAIN tried = 1..Len(tried)
    BY LenProperties
  <1>2. ASSUME NEW i \in prepares
        PROVE  Cardinality(after(i)) \in Nat
    <2>1. IsFiniteSet(1..Len(tried))
      BY <1>1, FS_Interval
    <2>2. after(i) \subseteq 1..Len(tried)
      BY <1>1
    <2> HIDE DEF after
    <2>3. IsFiniteSet(after(i))
      BY <2>1, <2>2, FS_Subset
    <2> QED
      BY <2>3, FS_CardinalityType
  <1>3. ASSUME NEW i \in prepares
        PROVE  <<Cardinality(after(i)), tried[i]>> \in Nat \X Preparing
    BY <1>2
  <1>4. ConditioningSequence(tried) =
           {<<Cardinality(after(i)), tried[i]>> :
              i \in {j \in prepares : Cardinality(after(j)) < ConditioningWindow}}
    BY DEF ConditioningSequence
  <1> HIDE DEF prepares, after
  <1> QED
    BY <1>3, <1>4

LEMMA ContractType ==
    ASSUME NEW l \in Ledger, NEW prim \in PrimRecord, NEW act \in Actions, NEW g \in Guard,
           NEW controller
    PROVE  Contract(l, prim, act, g, controller) \in ContractRecord
  <1>1. Append(l.tried, act) \in Seq(Actions)
    BY AppendProperties DEF Ledger
  <1>2. BlockedIfRepeated(g) \in BOOLEAN
    BY DEF BlockedIfRepeated
  <1> QED
    BY <1>1, <1>2, IntentFilesType, SignatureType, SequenceType DEF Contract, ContractRecord

(* The candidate a guard is remembered as.                                 *)
CandidateOf(g, saved) ==
    [mode |-> g.mode, doubtful |-> Doubtful(g), onSuspect |-> g.edit \in OnSuspect,
     files |-> g.files, checkpoint |-> saved]

(* Only it joins the candidates.                                           *)
LEMMA RememberIn ==
    ASSUME NEW S, NEW candidates \in Seq(S), NEW g, NEW saved,
           Rememberable(g) => CandidateOf(g, saved) \in S
    PROVE  Remember(candidates, g, saved) \in Seq(S)
  <1> DEFINE entry == CandidateOf(g, saved)
             same == {i \in DOMAIN candidates : candidates[i].files = entry.files
                                                 /\ candidates[i].mode = entry.mode}
             kept == IF same = {} THEN candidates
                     ELSE Without(candidates, CHOOSE i \in same : TRUE)
             all == Append(kept, entry)
  <1>1. Remember(candidates, g, saved) =
           IF ~Rememberable(g) THEN candidates
           ELSE SubSeq(all, IF Len(all) > MaxCandidates THEN 2 ELSE 1, Len(all))
    BY DEF Remember, CandidateOf, entry, kept, all
  <1> SUFFICES ASSUME Rememberable(g)
               PROVE  Remember(candidates, g, saved) \in Seq(S)
    BY <1>1
  <1> HIDE DEF entry
  <1>2. entry \in S
    BY DEF entry
  <1>3. Len(candidates) \in Nat /\ DOMAIN candidates = 1..Len(candidates)
        /\ \A i \in 1..Len(candidates) : candidates[i] \in S
    BY LenProperties, ElementOfSeq
  <1>4. ASSUME NEW i \in 1..Len(candidates)
        PROVE  Without(candidates, i) \in Seq(S)
    <2>1. SubSeq(candidates, 1, i - 1) \in Seq(S)
      <3>1. 1 \in Int /\ i - 1 \in Int /\ \A k \in 1..i - 1 : candidates[k] \in S
        BY <1>3
      <3> QED
        BY <3>1, SubSeqProperties
    <2>2. SubSeq(candidates, i + 1, Len(candidates)) \in Seq(S)
      <3>1. i + 1 \in Int /\ Len(candidates) \in Int
            /\ \A k \in i + 1..Len(candidates) : candidates[k] \in S
        BY <1>3
      <3> QED
        BY <3>1, SubSeqProperties
    <2> QED
      BY <2>1, <2>2, ConcatProperties DEF Without
  <1>5. kept \in Seq(S)
    <2>1. same # {} => (CHOOSE i \in same : TRUE) \in 1..Len(candidates)
      BY <1>3
    <2> HIDE DEF same
    <2> QED
      BY <1>4, <2>1
  <1> HIDE DEF kept
  <1>6. all \in Seq(S) /\ Len(all) \in Nat
        /\ \A i \in 1..Len(all) : all[i] \in S
    BY <1>2, <1>5, AppendProperties, LenProperties, ElementOfSeq
  <1> HIDE DEF all
  <1>7. ASSUME NEW n \in {1, 2}
        PROVE  SubSeq(all, n, Len(all)) \in Seq(S)
    <2>1. n \in Int /\ Len(all) \in Int /\ \A i \in n..Len(all) : all[i] \in S
      BY <1>6
    <2> QED
      BY <2>1, SubSeqProperties
  <1> QED
    BY <1>1, <1>7

LEMMA CandidateOfType ==
    ASSUME NEW g \in Guard, NEW saved \in BOOLEAN
    PROVE  CandidateOf(g, saved) \in CandidateRecord
  <1>1. Doubtful(g) \in BOOLEAN /\ (g.edit \in OnSuspect) \in BOOLEAN
    BY DEF Doubtful
  <1>2. g.mode \in ResultModes /\ g.files \in FileSets
    BY DEF Guard
  <1> QED
    BY <1>1, <1>2 DEF CandidateOf, CandidateRecord

LEMMA RememberType ==
    ASSUME NEW candidates \in Seq(CandidateRecord), NEW g \in Guard, NEW saved \in BOOLEAN
    PROVE  Remember(candidates, g, saved) \in Seq(CandidateRecord)
  BY CandidateOfType, RememberIn

(* Trying an action that prepares nothing leaves the sequence as it is.    *)
LEMMA SequenceUnchanged ==
    ASSUME NEW tried \in Seq(Actions), NEW act \in Actions \ Preparing
    PROVE  ConditioningSequence(Append(tried, act)) = ConditioningSequence(tried)
  <1> DEFINE longer == Append(tried, act)
             prepares == {i \in DOMAIN tried : tried[i] \in Preparing}
             prepares2 == {i \in DOMAIN longer : longer[i] \in Preparing}
             Following(i) == Cardinality({j \in prepares : j > i})
             Following2(i) == Cardinality({j \in prepares2 : j > i})
  <1>1. /\ Len(tried) \in Nat /\ DOMAIN tried = 1..Len(tried)
        /\ longer \in Seq(Actions) /\ Len(longer) = Len(tried) + 1
        /\ \A i \in 1..Len(tried) : longer[i] = tried[i]
        /\ longer[Len(tried) + 1] = act
    BY LenProperties, AppendProperties
  <1>2. DOMAIN longer = 1..Len(tried) + 1
    BY <1>1, LenProperties
  <1> HIDE DEF longer
  <1>3. prepares2 = prepares
    BY <1>1, <1>2
  <1>4. \A i \in prepares : longer[i] = tried[i]
    BY <1>1
  <1>5. ConditioningSequence(tried) =
           {<<Following(i), tried[i]>> : i \in {j \in prepares : Following(j) < ConditioningWindow}}
    BY DEF ConditioningSequence
  <1>6. ConditioningSequence(longer) =
           {<<Following2(i), longer[i]>> : i \in {j \in prepares2 : Following2(j) < ConditioningWindow}}
    BY DEF ConditioningSequence
  <1>7. \A i : Following2(i) = Following(i)
    BY <1>3
  <1> HIDE DEF prepares, prepares2, Following, Following2
  <1>8. {j \in prepares2 : Following2(j) < ConditioningWindow}
          = {j \in prepares : Following(j) < ConditioningWindow}
    BY <1>3, <1>7
  <1>9. \A i \in prepares : <<Following2(i), longer[i]>> = <<Following(i), tried[i]>>
    BY <1>4, <1>7
  <1>10. ConditioningSequence(longer) = ConditioningSequence(tried)
    BY <1>5, <1>6, <1>8, <1>9
  <1> QED
    BY <1>10 DEF longer

(***************************************************************************)
(* The inductive invariant.                                                *)
(***************************************************************************)
Judging == pc \in {"passed", "deferred", "failed"}

(* Where execute_semantic is: a unit that is begun has a step, a replay is *)
(* the last primitive of its step, and while one is judged its guard is    *)
(* one a replay leaves behind.                                             *)
Placed ==
    /\ pc \in {"start", "unit", "step"} => unit # <<>>
    /\ pc = "start" => units = 1
    /\ ReplayLast(prims)
    /\ Judging =>
          /\ prims # <<>> /\ Head(prims).op = "CONSTRAINED_REPLAY"
          /\ guard \in Guard /\ Earned(guard)
          /\ pc = "failed" => guard.mode # "strong_source_success"

(* What is left of the tokens was not spent.                               *)
Afforded ==
    /\ BudgetsHold
    /\ ledger.tokens > 0 => spent + ledger.tokens <= run.tokens

(* Something prepared a replay after the i-th, up to the n-th step.        *)
PreparedSince(i, n) ==
    \E k \in ledger.replays[i].tried .. n : ledger.tried[k] \in Preparing

(* A contract knows whether its replay may be repeated, and from the step  *)
(* of its replay on the conditioning sequence is the one it recorded until *)
(* a preparing action follows.                                             *)
Dated(i) ==
    /\ ledger.replays[i].tried \in 1 .. Len(ledger.tried) + 1
    /\ ledger.contracts[i].blocked = BlockedIfRepeated(ledger.guards[i])
    /\ \/ /\ ledger.replays[i].tried <= Len(ledger.tried)
          /\ \/ ledger.contracts[i].sequence = ConditioningSequence(ledger.tried)
             \/ PreparedSince(i, Len(ledger.tried))
       \/ /\ ledger.replays[i].tried = Len(ledger.tried) + 1
          /\ ledger.contracts[i].sequence = ConditioningSequence(Append(ledger.tried, step.act))
          /\ pc = "prims" /\ prims = <<>>

(* The replay that is judged is the last one, and repeats no replay that   *)
(* may not be repeated as it was.                                          *)
Trailed ==
    /\ \A i \in DOMAIN ledger.contracts : Dated(i)
    /\ Judging =>
          /\ ledger.replays[Len(ledger.replays)].tried = Len(ledger.tried) + 1
          /\ \A i \in DOMAIN ledger.contracts :
                /\ ledger.contracts[i].blocked
                /\ ledger.contracts[i].signature = Signature(Head(prims), step.act, LatestIntentFiles(ledger))
                => PreparedSince(i, Len(ledger.tried))

(* The unit an action loop without a controller spends its last slot on.   *)
LastUnit ==
    pc = "unit" /\ units > 1 /\ ledger.steps = 1 /\ run.unit = "action" /\ run.controller = "none"
    => EndsInReplay(Head(unit))

(***************************************************************************)
(* What a step of the program does to the ledger.                          *)
(***************************************************************************)
(* The settings of a run.                                                  *)
LEMMA RunType ==
    ASSUME run \in Runs
    PROVE  /\ run \in RunSetting
           /\ run.replays \in Nat /\ run.tokens \in Nat /\ run.program \in Programs
           /\ run.outcomes \subseteq OutcomeRecord /\ run.costs \subseteq Nat
  <1>1. run \in RunSetting
    BY RunsAssumption
  <1>2. /\ run.replays \in 1..HistoryWindow /\ run.tokens \in Nat /\ run.program \in Programs
        /\ run.outcomes \subseteq Outcomes /\ run.costs \subseteq Costs
    BY <1>1 DEF RunSetting, Programs
  <1>3. run.replays \in Nat
    BY <1>2 DEF HistoryWindow
  <1> QED
    BY <1>1, <1>2, <1>3, OutcomesAssumption, CostsAssumption

LEMMA Lengths ==
    ASSUME ledger \in Ledger
    PROVE  /\ ledger.guards \in Seq(Guard) /\ Len(ledger.guards) \in Nat
           /\ DOMAIN ledger.guards = 1..Len(ledger.guards)
           /\ ledger.replays \in Seq(ReplayRecord) /\ Len(ledger.replays) \in Nat
           /\ DOMAIN ledger.replays = 1..Len(ledger.replays)
           /\ ledger.contracts \in Seq(ContractRecord) /\ Len(ledger.contracts) \in Nat
           /\ DOMAIN ledger.contracts = 1..Len(ledger.contracts)
           /\ ledger.tried \in Seq(Actions) /\ Len(ledger.tried) \in Nat
           /\ DOMAIN ledger.tried = 1..Len(ledger.tried)
           /\ ledger.candidates \in Seq(CandidateRecord)
           /\ ledger.replays = <<>> <=> Len(ledger.replays) = 0
  <1>1. /\ ledger.guards \in Seq(Guard) /\ ledger.replays \in Seq(ReplayRecord)
        /\ ledger.contracts \in Seq(ContractRecord) /\ ledger.tried \in Seq(Actions)
        /\ ledger.candidates \in Seq(CandidateRecord)
    BY DEF Ledger
  <1> QED
    BY <1>1, LenProperties, EmptySeq

(* The ledger after a replay.                                              *)
Replayed(g, rest, late, cost, prim) ==
    [ledger EXCEPT
       !.tokens = rest, !.late = late,
       !.guards = Append(@, g),
       !.replays = Append(@, [act |-> step.act, pre |-> prim.pre, scope |-> prim.scope,
                              cost |-> cost, tried |-> Len(ledger.tried) + 1])]

LEMMA ReplayedLedger ==
    ASSUME TypeOK, NEW g \in Guard, NEW rest \in Nat, NEW late \in BOOLEAN, NEW cost \in Nat,
           NEW prim \in PrimRecord, NEW l, l = Replayed(g, rest, late, cost, prim)
    PROVE  /\ l \in Ledger
           /\ l.tokens = rest /\ l.tried = ledger.tried /\ l.contracts = ledger.contracts
           /\ l.candidates = ledger.candidates
           /\ Len(l.guards) = Len(ledger.guards) + 1
           /\ Len(l.replays) = Len(ledger.replays) + 1
           /\ \A i \in 1..Len(ledger.guards) : l.guards[i] = ledger.guards[i]
           /\ \A i \in 1..Len(ledger.replays) : l.replays[i] = ledger.replays[i]
           /\ l.guards[Len(l.guards)] = g
           /\ l.replays[Len(l.replays)].tried = Len(ledger.tried) + 1
           /\ l.replays[Len(l.replays)].cost = cost
  <1> DEFINE r == [act |-> step.act, pre |-> prim.pre, scope |-> prim.scope, cost |-> cost,
                    tried |-> Len(ledger.tried) + 1]
  <1>1. ledger \in Ledger /\ step.act \in Actions
    BY DEF TypeOK, SemanticStep
  <1>2. r \in ReplayRecord /\ r.tried = Len(ledger.tried) + 1 /\ r.cost = cost
    BY <1>1, Lengths DEF ReplayRecord, PrimRecord
  <1> HIDE DEF r
  <1>3. /\ Append(ledger.guards, g) \in Seq(Guard)
        /\ Len(Append(ledger.guards, g)) = Len(ledger.guards) + 1
        /\ \A i \in 1..Len(ledger.guards) : Append(ledger.guards, g)[i] = ledger.guards[i]
        /\ Append(ledger.guards, g)[Len(ledger.guards) + 1] = g
    BY <1>1, Lengths, AppendProperties
  <1>4. /\ Append(ledger.replays, r) \in Seq(ReplayRecord)
        /\ Len(Append(ledger.replays, r)) = Len(ledger.replays) + 1
        /\ \A i \in 1..Len(ledger.replays) : Append(ledger.replays, r)[i] = ledger.replays[i]
        /\ Append(ledger.replays, r)[Len(ledger.replays) + 1] = r
    BY <1>1, <1>2, Lengths, AppendProperties
  <1>5. l = [ledger EXCEPT !.tokens = rest, !.late = late, !.guards = Append(ledger.guards, g),
                           !.replays = Append(ledger.replays, r)]
    BY <1>1 DEF r, Ledger, Replayed
  <1>6. l \in Ledger
    BY <1>1, <1>3, <1>4, <1>5 DEF Ledger
  <1>7. /\ l.tokens = rest /\ l.tried = ledger.tried /\ l.contracts = ledger.contracts
        /\ l.candidates = ledger.candidates
        /\ l.guards = Append(ledger.guards, g) /\ l.replays = Append(ledger.replays, r)
    BY <1>1, <1>5 DEF Ledger
  <1> QED
    BY <1>2, <1>3, <1>4, <1>6, <1>7

(* The ledger after a verdict.                                             *)
Concluded(g, saved) ==
    [ledger EXCEPT
       !.guards[Len(ledger.guards)] = g,
       !.contracts = Append(@, Contract(ledger, Head(prims), step.act, g, run.controller)),
       !.candidates = Remember(@, g, saved)]

LEMMA ConcludedLedger ==
    ASSUME TypeOK, Judging, Placed, NEW g \in Guard, NEW saved \in BOOLEAN,
           NEW l, l = Concluded(g, saved)
    PROVE  /\ l \in Ledger
           /\ l.tokens = ledger.tokens /\ l.steps = ledger.steps /\ l.tried = ledger.tried
           /\ l.replays = ledger.replays
           /\ Len(ledger.guards) = Len(ledger.contracts) + 1
           /\ Len(l.guards) = Len(ledger.guards) /\ Len(l.contracts) = Len(ledger.contracts) + 1
           /\ \A i \in 1..Len(ledger.contracts) :
                 l.contracts[i] = ledger.contracts[i] /\ l.guards[i] = ledger.guards[i]
           /\ l.guards[Len(l.guards)] = g
           /\ l.contracts[Len(l.contracts)] = Contract(ledger, Head(prims), step.act, g, run.controller)
  <1> DEFINE entry == Contract(ledger, Head(prims), step.act, g, run.controller)
             n == Len(ledger.guards)
  <1>1. ledger \in Ledger /\ step.act \in Actions /\ Head(prims) \in PrimRecord
    BY TailPrims DEF TypeOK, SemanticStep, Placed, Judging, Primitives
  <1>2. entry \in ContractRecord
    BY <1>1, ContractType
  <1>3. Remember(ledger.candidates, g, saved) \in Seq(CandidateRecord)
    BY <1>1, Lengths, RememberType
  <1>4. n \in Nat /\ n = Len(ledger.contracts) + 1 /\ n \in 1..n
    BY <1>1, Lengths DEF TypeOK, Judging
  <1> HIDE DEF entry
  <1>5. /\ [ledger.guards EXCEPT ![n] = g] \in Seq(Guard)
        /\ Len([ledger.guards EXCEPT ![n] = g]) = n
        /\ \A i \in 1..n : [ledger.guards EXCEPT ![n] = g][i] = IF i = n THEN g ELSE ledger.guards[i]
    BY <1>1, <1>4, Lengths, ExceptSeq
  <1>6. /\ Append(ledger.contracts, entry) \in Seq(ContractRecord)
        /\ Len(Append(ledger.contracts, entry)) = Len(ledger.contracts) + 1
        /\ \A i \in 1..Len(ledger.contracts) : Append(ledger.contracts, entry)[i] = ledger.contracts[i]
        /\ Append(ledger.contracts, entry)[Len(ledger.contracts) + 1] = entry
    BY <1>1, <1>2, Lengths, AppendProperties
  <1>7. l = [ledger EXCEPT !.guards = [ledger.guards EXCEPT ![n] = g],
                           !.contracts = Append(ledger.contracts, entry),
                           !.candidates = Remember(ledger.candidates, g, saved)]
    BY <1>1 DEF entry, n, Ledger, Concluded
  <1>8. l \in Ledger
    BY <1>1, <1>3, <1>5, <1>6, <1>7 DEF Ledger
  <1>9. /\ l.tokens = ledger.tokens /\ l.steps = ledger.steps /\ l.tried = ledger.tried
        /\ l.replays = ledger.replays
        /\ l.guards = [ledger.guards EXCEPT ![n] = g] /\ l.contracts = Append(ledger.contracts, entry)
    BY <1>1, <1>7 DEF Ledger
  <1>10. \A i \in 1..Len(ledger.contracts) : i \in 1..n /\ i # n
    BY <1>1, <1>4, Lengths
  <1> HIDE DEF n
  <1> QED
    BY <1>4, <1>5, <1>6, <1>8, <1>9, <1>10 DEF entry, n

LEMMA AfterPrimitiveType ==
    ASSUME TypeOK, Placed, prims # <<>>, NEW l, NEW ok, NEW g \in Guards, AfterPrimitive(l, ok, g)
    PROVE  /\ guard' \in Guards /\ stopped' \in BOOLEAN /\ reason' \in BOOLEAN
           /\ prims' \in Primitives /\ ReplayLast(prims')
           /\ Head(prims).op = "CONSTRAINED_REPLAY" => prims' = <<>>
  <1>1. prims \in Primitives /\ ReplayLast(prims) /\ stopped \in BOOLEAN /\ reason \in BOOLEAN
    BY DEF TypeOK, Placed, Primitives
  <1>2. <<>> \in Primitives /\ ReplayLast(<<>>)
    BY EmptySeq DEF Primitives, ReplayLast
  <1>3. CASE ~ok /\ HardExhausted(l)
    BY <1>2, <1>3, StoppedGuard DEF AfterPrimitive
  <1>4. CASE ~(~ok /\ HardExhausted(l))
    BY <1>1, <1>4, TailPrims DEF AfterPrimitive
  <1> QED
    BY <1>3, <1>4

(* What a primitive that replays nothing leaves as it was.                 *)
SameHistory(l) ==
    /\ l.tokens = ledger.tokens /\ l.steps = ledger.steps /\ l.tried = ledger.tried
    /\ l.guards = ledger.guards /\ l.replays = ledger.replays
    /\ l.contracts = ledger.contracts /\ l.candidates = ledger.candidates
Minor == Inspect \/ Clear \/ Restore \/ BoostExecution

LEMMA MinorStep ==
    ASSUME TypeOK, Placed, Minor
    PROVE  /\ pc = "prims" /\ prims # <<>> /\ pc' = pc
           /\ ledger' \in Ledger /\ SameHistory(ledger')
           /\ guard' \in Guards /\ stopped' \in BOOLEAN /\ reason' \in BOOLEAN
           /\ prims' \in Primitives /\ ReplayLast(prims')
           /\ UNCHANGED <<control, success, verdict, spent>>
  <1>1. ledger \in Ledger /\ guard \in Guards
    BY DEF TypeOK, Guards, StopGuard
  <1>2. PICK l \in Ledger : SameHistory(l) /\ Quick(l) /\ pc = "prims" /\ prims # <<>>
    <2>1. ledger \in Ledger /\ SameHistory(ledger)
      BY <1>1 DEF SameHistory
    <2>2. \A object \in ObjectTypes : [ledger EXCEPT !.object = object] \in Ledger
                                       /\ SameHistory([ledger EXCEPT !.object = object])
      BY <1>1 DEF Ledger, SameHistory
    <2>3. \A profile \in Profiles : [ledger EXCEPT !.profile = profile] \in Ledger
                                     /\ SameHistory([ledger EXCEPT !.profile = profile])
      BY <1>1 DEF Ledger, SameHistory
    <2>4. CASE Inspect
      BY <2>1, <2>4 DEF Inspect, Allowed
    <2>5. CASE Clear
      <3> DEFINE object == IF step.all THEN ""
                           ELSE IF ledger.object = "shared_fact" /\ run.objId THEN "selection"
                           ELSE ledger.object
      <3>1. object \in ObjectTypes
        BY <1>1 DEF Ledger, ObjectTypes
      <3>2. Quick([ledger EXCEPT !.object = object]) /\ pc = "prims" /\ prims # <<>>
        BY <2>5 DEF Clear, Allowed
      <3> HIDE DEF object
      <3> QED
        BY <2>2, <3>1, <3>2
    <2>6. CASE Restore
      BY <2>1, <2>6 DEF Restore, Allowed
    <2>7. CASE BoostExecution
      <3>1. PICK changed \in BOOLEAN :
               Quick([ledger EXCEPT !.profile =
                         IF Head(prims).stronger /\ changed THEN "boosted" ELSE @])
        BY <2>7 DEF BoostExecution
      <3> DEFINE profile == IF Head(prims).stronger /\ changed THEN "boosted" ELSE ledger.profile
      <3>2. profile \in Profiles
        BY <1>1 DEF Ledger, Profiles
      <3>3. Quick([ledger EXCEPT !.profile = profile]) /\ pc = "prims" /\ prims # <<>>
        BY <2>7, <3>1 DEF BoostExecution, Allowed
      <3> HIDE DEF profile
      <3> QED
        BY <2>3, <3>2, <3>3
    <2> QED
      BY <2>4, <2>5, <2>6, <2>7 DEF Minor
  <1>3. PICK late \in {l.late, TRUE} :
           /\ ledger' = [l EXCEPT !.late = late]
           /\ AfterPrimitive([l EXCEPT !.late = late], success, guard)
           /\ UNCHANGED <<control, pc, success, verdict, spent>>
    BY <1>2 DEF Quick
  <1>4. l.late \in BOOLEAN
    BY DEF Ledger
  <1>5. ledger' \in Ledger /\ SameHistory(ledger')
    BY <1>2, <1>3, <1>4 DEF Ledger, SameHistory
  <1> QED
    BY <1>1, <1>2, <1>3, <1>5, AfterPrimitiveType

(* A replay is allowed within the budgets, and repeats nothing blocked.    *)
LEMMA ReplayStep ==
    ASSUME TypeOK, Placed, Replay
    PROVE  /\ pc = "prims" /\ prims # <<>> /\ Head(prims).op = "CONSTRAINED_REPLAY"
           /\ UNCHANGED <<control, prims, stopped, success, reason, verdict>>
           /\ Len(ledger.replays) < run.replays /\ ledger.tokens > 0
           /\ ~RepeatsBlocked(ledger, Head(prims), step.act)
           /\ \E g \in Guard, rest \in Nat, late \in BOOLEAN, cost \in Nat, prim \in PrimRecord :
                 /\ Earned(g)
                 /\ guard' = g
                 /\ ledger' = Replayed(g, rest, late, cost, prim)
                 /\ spent' = spent + cost
                 /\ rest = 0 \/ rest = ledger.tokens - cost
                 /\ pc' \in {"passed", "deferred", "failed"}
                 /\ pc' = "failed" => g.mode # "strong_source_success"
  <1>1. /\ pc = "prims" /\ prims # <<>> /\ Head(prims).op = "CONSTRAINED_REPLAY"
        /\ UNCHANGED <<control, prims, stopped, success, reason, verdict>>
    BY DEF Replay, Allowed
  <1>2. ledger \in Ledger /\ Head(prims) \in PrimRecord /\ run \in RunSetting
    BY <1>1, TailPrims, RunType DEF TypeOK, Placed, Primitives
  <1>3. ~HardExhausted(ledger) /\ \E informed : ~Refused(ledger, Head(prims), step.act, run, informed)
    BY <1>1 DEF Replay, Allowed, Gated
  <1>4. ledger.tokens \in Nat /\ ledger.tokens > 0 /\ ledger.late \in BOOLEAN
    <2>1. ledger.tokens \in Nat /\ ledger.late \in BOOLEAN
      BY <1>2 DEF Ledger
    <2>2. ledger.tokens # 0
      BY <1>3 DEF HardExhausted
    <2> QED
      BY <2>1, <2>2
  <1>5. Len(ledger.replays) < run.replays /\ ~RepeatsBlocked(ledger, Head(prims), step.act)
    <2>1. run.replays \in Nat /\ Len(ledger.replays) \in Nat
      BY <1>2, Lengths, RunType DEF TypeOK
    <2> QED
      BY <1>3, <2>1 DEF Refused
  <1>6. PICK out \in run.outcomes, cost \in run.costs, late \in {ledger.late, TRUE} :
           /\ guard' = BuildGuard(out, ledger.object)
           /\ ledger' = [ledger EXCEPT
                 !.tokens = IF out.broke \/ cost >= ledger.tokens THEN 0 ELSE ledger.tokens - cost,
                 !.late = late,
                 !.guards = Append(@, BuildGuard(out, ledger.object)),
                 !.replays = Append(@, [act |-> step.act, pre |-> Head(prims).pre,
                                        scope |-> Head(prims).scope, cost |-> cost,
                                        tried |-> Len(ledger.tried) + 1])]
           /\ spent' = spent + cost
           /\ pc' = IF out.passed THEN (IF out.deferred THEN "deferred" ELSE "passed") ELSE "failed"
    BY DEF Replay
  <1>7. out \in OutcomeRecord /\ cost \in Nat
    BY <1>2, RunType DEF TypeOK
  <1> DEFINE g == BuildGuard(out, ledger.object)
             rest == IF out.broke \/ cost >= ledger.tokens THEN 0 ELSE ledger.tokens - cost
  <1>8. g \in Guard /\ Earned(g) /\ (~out.passed => g.mode # "strong_source_success")
    BY <1>7, BuildGuardType
  <1>9. rest \in Nat /\ (rest = 0 \/ rest = ledger.tokens - cost)
    BY <1>4, <1>7
  <1>10. /\ pc' \in {"passed", "deferred", "failed"}
         /\ pc' = "failed" => ~out.passed
    BY <1>6
  <1>11. late \in BOOLEAN
    BY <1>4
  <1>12. ledger' = Replayed(g, rest, late, cost, Head(prims))
    BY <1>6 DEF Replayed
  <1>13. guard' = g
    BY <1>6
  <1> HIDE DEF g, rest
  <1>14. /\ Earned(g)
         /\ guard' = g
         /\ ledger' = Replayed(g, rest, late, cost, Head(prims))
         /\ spent' = spent + cost
         /\ rest = 0 \/ rest = ledger.tokens - cost
         /\ pc' \in {"passed", "deferred", "failed"}
         /\ pc' = "failed" => g.mode # "strong_source_success"
    BY <1>6, <1>8, <1>9, <1>10, <1>12, <1>13
  <1> QED
    BY <1>1, <1>2, <1>4, <1>5, <1>7, <1>8, <1>9, <1>11, <1>14

(* A verdict on a replay: a loop that is not open takes only an earned     *)
(* success for one.                                                        *)
LEMMA JudgeStep ==
    ASSUME TypeOK, Placed, Judge
    PROVE  /\ Judging
           /\ \E g \in Guard, ok \in BOOLEAN :
                 /\ Earned(g)
                 /\ Closed /\ g.mode = "strong_source_success" => ok
                 /\ Judged(g, ok)
  <1>1. CASE Accept
    <2>1. /\ Judging /\ \E ok \in BOOLEAN : Judged(guard, ok) /\ (ok \/ ~Closed \/ pc = "failed")
      BY <1>1 DEF Accept, Judging
    <2>2. guard \in Guard /\ Earned(guard)
          /\ (pc = "failed" => guard.mode # "strong_source_success")
      BY <2>1 DEF Placed
    <2> QED
      BY <2>1, <2>2
  <1>2. CASE OfficialEvaluation
    <2>1. Judging /\ guard \in Guard
      BY <1>2 DEF OfficialEvaluation, Judging, Placed
    <2>2. PICK oracle \in BOOLEAN : Judged(Resolved(guard, oracle), oracle)
      BY <1>2 DEF OfficialEvaluation
    <2> QED
      BY <2>1, <2>2, ResolvedType
  <1>3. CASE FocusedEvaluation
    <2>1. Judging /\ guard \in Guard /\ ProbeWorthIt(guard)
      BY <1>3 DEF FocusedEvaluation, Judging, Placed
    <2>2. PICK passes \in BOOLEAN : Judged(Probed(guard, passes), FALSE)
      BY <1>3 DEF FocusedEvaluation
    <2>3. Probed(guard, passes) \in Guard /\ Earned(Probed(guard, passes))
          /\ Probed(guard, passes).mode # "strong_source_success"
      BY <2>1, ProbedType DEF Earned
    <2> QED
      BY <2>1, <2>2, <2>3
  <1> QED
    BY <1>1, <1>2, <1>3 DEF Judge

(* What a verdict changes.                                                 *)
LEMMA JudgedStep ==
    ASSUME TypeOK, Placed, Judging, NEW g \in Guard, NEW ok \in BOOLEAN, Judged(g, ok)
    PROVE  /\ pc' = "prims" /\ prims' = <<>> /\ verdict' = ok
           /\ success' = (IF Closed THEN g.mode = "strong_source_success" ELSE ok)
           /\ guard' \in Guards /\ stopped' \in BOOLEAN /\ reason' \in BOOLEAN
           /\ UNCHANGED <<control, spent>>
           /\ ledger' \in Ledger
           /\ ledger'.tokens = ledger.tokens /\ ledger'.tried = ledger.tried
           /\ ledger'.replays = ledger.replays
           /\ Len(ledger.guards) = Len(ledger.contracts) + 1
           /\ Len(ledger'.guards) = Len(ledger.guards)
           /\ Len(ledger'.contracts) = Len(ledger.contracts) + 1
           /\ \A i \in 1..Len(ledger.contracts) :
                 ledger'.contracts[i] = ledger.contracts[i] /\ ledger'.guards[i] = ledger.guards[i]
           /\ ledger'.guards[Len(ledger'.guards)] = g
           /\ ledger'.contracts[Len(ledger'.contracts)] = Contract(ledger, Head(prims), step.act, g, run.controller)
  <1> DEFINE won == IF Closed THEN g.mode = "strong_source_success" ELSE ok
  <1>1. PICK saved \in BOOLEAN :
           /\ ledger' = Concluded(g, saved)
           /\ verdict' = ok /\ success' = won /\ pc' = "prims"
           /\ UNCHANGED <<control, spent>>
           /\ AfterPrimitive(ledger', won, g)
    BY DEF Judged, Concluded
  <1>2. prims # <<>> /\ Head(prims).op = "CONSTRAINED_REPLAY" /\ g \in Guards
    BY DEF Placed, Guards
  <1>3. /\ guard' \in Guards /\ stopped' \in BOOLEAN /\ reason' \in BOOLEAN /\ prims' = <<>>
    BY <1>1, <1>2, AfterPrimitiveType
  <1>4. /\ ledger' \in Ledger
        /\ ledger'.tokens = ledger.tokens /\ ledger'.tried = ledger.tried
        /\ ledger'.replays = ledger.replays
        /\ Len(ledger.guards) = Len(ledger.contracts) + 1
        /\ Len(ledger'.guards) = Len(ledger.guards)
        /\ Len(ledger'.contracts) = Len(ledger.contracts) + 1
        /\ \A i \in 1..Len(ledger.contracts) :
              ledger'.contracts[i] = ledger.contracts[i] /\ ledger'.guards[i] = ledger.guards[i]
        /\ ledger'.guards[Len(ledger'.guards)] = g
        /\ ledger'.contracts[Len(ledger'.contracts)] = Contract(ledger, Head(prims), step.act, g, run.controller)
    BY <1>1, ConcludedLedger
  <1> QED
    BY <1>1, <1>3, <1>4

(***************************************************************************)
(* Types and places.                                                       *)
(***************************************************************************)
LEMMA PlacedInit ==
    ASSUME Init
    PROVE  TypeOK /\ Placed
  <1>1. run \in RunSetting /\ run.program \in Programs
    BY RunType DEF Init
  <1>2. /\ run.tokens \in Nat /\ run.steps \in Nat /\ run.object \in ObjectTypes
    BY <1>1 DEF RunSetting
  <1>3. /\ <<>> \in Seq(Actions) /\ <<>> \in Seq(Guard) /\ <<>> \in Seq(ReplayRecord)
        /\ <<>> \in Seq(ContractRecord) /\ <<>> \in Seq(CandidateRecord)
        /\ <<>> \in Seq(PrimRecord) /\ Len(<<>>) = 0
    BY EmptySeq
  <1>4. InitialLedger(run) \in Ledger
    BY <1>2, <1>3 DEF InitialLedger, Ledger, Profiles
  <1>5. Len(ledger.guards) = 0 /\ Len(ledger.replays) = 0 /\ Len(ledger.contracts) = 0
    BY <1>3 DEF Init, InitialLedger
  <1>6. TypeOK
    <2>1. /\ run \in Runs /\ pc = "start" /\ unit = run.program /\ units = 1 /\ step = Recheck
          /\ prims = <<>> /\ guard = NoGuard /\ stopped = FALSE /\ ledger = InitialLedger(run)
          /\ success = FALSE /\ reason = FALSE /\ verdict = FALSE /\ spent = 0
      BY DEF Init
    <2>2. unit \in Seq(SemanticStep)
      BY <1>1, <2>1 DEF Programs
    <2>3. step \in SemanticStep
      BY <2>1, PreparingSteps
    <2>4. ledger \in Ledger
      BY <1>4, <2>1
    <2>5. pc \notin {"passed", "deferred", "failed"} /\ Len(ledger.contracts) = Len(ledger.replays) - 0
      BY <1>5, <2>1
    <2>6. prims \in Seq(PrimRecord)
      BY <1>3, <2>1
    <2> QED
      BY <1>5, <2>1, <2>2, <2>3, <2>4, <2>5, <2>6 DEF TypeOK
  <1>7. Placed
    BY <1>1, <1>3 DEF Init, Placed, Judging, ReplayLast, Programs
  <1> QED
    BY <1>6, <1>7

(* The conjuncts of TypeOK, primed, of a step outside a verdict that keeps *)
(* the lengths of the histories as they are.                               *)
LEMMA EvenAfter ==
    ASSUME TypeOK, ledger' \in Ledger,
           ledger'.guards = ledger.guards, ledger'.replays = ledger.replays,
           ledger'.contracts = ledger.contracts, ~Judging, ~Judging'
    PROVE  /\ Len(ledger.guards)' = Len(ledger.replays)'
           /\ Len(ledger.contracts)' =
                 Len(ledger.replays)' - (IF pc \in {"passed", "deferred", "failed"} THEN 1 ELSE 0)'
  BY DEF TypeOK, Judging

(* A loop goes on with the unit that was decided on, or ends; and the last *)
(* slot of an action loop without a controller is spent on a replay.       *)
LEMMA NextUnitStep ==
    ASSUME TypeOK, NextUnit
    PROVE  /\ pc = "next" /\ pc' \in {"unit", "done", "raised"}
           /\ unit' \in Seq(SemanticStep) /\ units' \in Nat
           /\ pc' = "unit" => unit' # <<>>
           /\ UNCHANGED <<run, step, prims, guard, stopped, ledger, success, reason, verdict, spent>>
           /\ LastUnit'
  <1>1. step \in SemanticStep /\ ledger \in Ledger /\ run \in RunSetting /\ run.hasInitial \in BOOLEAN
    BY RunType DEF TypeOK, RunSetting
  <1>2. PICK asked, d :
           /\ asked \in IF run.unit = "action" THEN ControllerAnswers ELSE {""}
           /\ d = IF run.unit = "action" THEN NextAction(step, asked, ledger, run)
                  ELSE NextFragment(ledger, run.hasInitial)
           /\ CASE d.kind = "run"   -> pc' = "unit" /\ unit' = d.steps /\ units' = units + 1
                [] d.kind = "stop"  -> pc' = "done" /\ UNCHANGED <<unit, units>>
                [] d.kind = "raise" -> pc' = "raised" /\ UNCHANGED <<unit, units>>
    BY DEF NextUnit
  <1>3. Decides(d)
    BY <1>1, <1>2, NextActionDecides, NextFragmentDecides
  <1>4. /\ pc = "next"
        /\ UNCHANGED <<run, step, prims, guard, stopped, ledger, success, reason, verdict, spent>>
    BY DEF NextUnit
  <1>5. units \in Nat /\ unit \in Seq(SemanticStep)
    BY DEF TypeOK
  <1>6. \/ d.kind = "run" /\ pc' = "unit" /\ unit' = d.steps /\ units' = units + 1
        \/ d.kind # "run" /\ pc' \in {"done", "raised"} /\ UNCHANGED <<unit, units>>
    <2>1. CASE d.kind = "run"
      BY <1>2, <2>1
    <2>2. CASE d.kind = "stop"
      BY <1>2, <2>2
    <2>3. CASE d.kind = "raise"
      BY <1>2, <2>3
    <2> QED
      BY <1>3, <2>1, <2>2, <2>3 DEF Decides
  <1>7. LastUnit'
    <2> SUFFICES ASSUME pc' = "unit", ledger.steps = 1, run.unit = "action", run.controller = "none"
                 PROVE  EndsInReplay(Head(unit'))
      BY <1>4 DEF LastUnit
    <2>1. asked \notin Actions
      BY <1>2 DEF ControllerAnswers, Actions, Preparing, Repairing
    <2>2. Replaying(d)
      BY <1>1, <1>2, <2>1, NextActionDecides
    <2> QED
      BY <1>6, <2>2 DEF Replaying
  <1>8. CASE d.kind = "run"
    <2>1. pc' = "unit" /\ unit' \in Programs /\ units' \in Nat
      BY <1>3, <1>5, <1>6, <1>8 DEF Decides
    <2> QED
      BY <1>4, <1>7, <2>1 DEF Programs
  <1>9. CASE d.kind # "run"
    BY <1>4, <1>5, <1>6, <1>7, <1>9
  <1> QED
    BY <1>8, <1>9

LEMMA PlacedNext ==
    ASSUME TypeOK, Placed, [Next]_vars
    PROVE  TypeOK' /\ Placed'
  <1>1. CASE ChooseFirst
    <2>1. ledger.profile \in Profiles /\ run.program \in Programs
      BY RunType DEF TypeOK, Ledger
    <2>2. unit' \in Programs
      BY <1>1, <2>1, FirstUnitType DEF ChooseFirst
    <2>3. unit' \in Seq(SemanticStep) /\ unit' # <<>> /\ pc = "start" /\ pc' = "unit"
          /\ UNCHANGED <<run, units, step, prims, guard, stopped, ledger, success, reason, verdict, spent>>
      BY <1>1, <2>2 DEF ChooseFirst, Programs
    <2>4. TypeOK'
      BY <2>3 DEF TypeOK
    <2>5. Placed'
      BY <2>3 DEF Placed, Judging, ReplayLast
    <2> QED
      BY <2>4, <2>5
  <1>2. CASE BeginUnit
    <2>1. /\ pc = "unit" /\ pc' \in {"done", "step"} /\ reason' \in BOOLEAN
          /\ UNCHANGED <<run, unit, units, step, prims, guard, stopped, ledger, success, verdict, spent>>
      BY <1>2 DEF BeginUnit, TypeOK
    <2>2. TypeOK'
      BY <2>1 DEF TypeOK
    <2>3. Placed'
      BY <2>1 DEF Placed, Judging, ReplayLast
    <2> QED
      BY <2>2, <2>3
  <1>3. CASE BeginStep
    <2>1. /\ pc = "step" /\ unit # <<>> /\ unit \in Seq(SemanticStep)
          /\ step' = Head(unit) /\ unit' = Tail(unit)
          /\ pc' = "prims" /\ UNCHANGED <<run, units, ledger, success, verdict, spent>>
      BY <1>3 DEF BeginStep, TypeOK, Placed
    <2>2. step' \in SemanticStep /\ unit' \in Seq(SemanticStep)
      BY <2>1, HeadTailProperties
    <2>3. stopped' \in BOOLEAN /\ reason' \in BOOLEAN
      BY <1>3 DEF BeginStep, TypeOK, HardExhausted
    <2>4. prims' \in Primitives /\ ReplayLast(prims')
      <3>1. ReplayLast(<<>>) /\ <<>> \in Primitives
        BY EmptySeq DEF ReplayLast, Primitives
      <3>2. Compile(Head(unit), ledger.profile) \in Primitives
            /\ ReplayLast(Compile(Head(unit), ledger.profile))
        <4> DEFINE ps == Compile(Head(unit), ledger.profile)
        <4>1. OneReplay(ps) \/ NoReplay(ps)
          BY <2>1, <2>2, CompileType
        <4>2. OneReplay(ps) => ps \in Primitives /\ ReplayLast(ps)
          BY DEF OneReplay
        <4>3. NoReplay(ps) => ps \in Primitives /\ ReplayLast(ps)
          <5>1. ps \in Primitives => Len(ps) \in Nat
            BY LenProperties DEF Primitives
          <5> QED
            BY <5>1 DEF NoReplay, ReplayLast
        <4> QED
          BY <4>1, <4>2, <4>3
      <3> QED
        BY <1>3, <3>1, <3>2 DEF BeginStep
    <2>5. guard' \in Guards
      BY <1>3 DEF BeginStep, Guards, StopGuard
    <2>6. TypeOK'
      BY <2>1, <2>2, <2>3, <2>4, <2>5 DEF TypeOK, Primitives, Guards, StopGuard
    <2>7. Placed'
      BY <2>1, <2>4 DEF Placed, Judging, ReplayLast
    <2> QED
      BY <2>6, <2>7
  <1>4. CASE Refuse
    <2>1. /\ pc = "prims" /\ pc' = "prims" /\ stopped' = TRUE /\ reason' = TRUE /\ prims' = <<>>
          /\ guard' = [NoGuard EXCEPT !.suggestion = "STOP"]
          /\ UNCHANGED <<run, unit, units, step, ledger, success, verdict, spent>>
      BY <1>4 DEF Refuse, control
    <2>2. <<>> \in Seq(PrimRecord) /\ ReplayLast(<<>>)
      BY EmptySeq DEF ReplayLast
    <2>3. TypeOK'
      BY <2>1, <2>2 DEF TypeOK
    <2>4. Placed'
      BY <2>1, <2>2 DEF Placed, Judging, ReplayLast
    <2> QED
      BY <2>3, <2>4
  <1>5. CASE Minor
    <2>1. /\ pc = "prims" /\ pc' = pc
          /\ ledger' \in Ledger /\ SameHistory(ledger')
          /\ guard' \in Guards /\ stopped' \in BOOLEAN /\ reason' \in BOOLEAN
          /\ prims' \in Primitives /\ ReplayLast(prims')
          /\ UNCHANGED <<run, unit, units, step, success, verdict, spent>>
      BY <1>5, MinorStep DEF control
    <2>2. TypeOK'
      BY <2>1, EvenAfter DEF TypeOK, Primitives, Guards, StopGuard, SameHistory, Judging
    <2>3. Placed'
      BY <2>1 DEF Placed, Judging, ReplayLast
    <2> QED
      BY <2>2, <2>3
  <1>6. CASE Replay
    <2>1. PICK g \in Guard, rest \in Nat, late \in BOOLEAN, cost \in Nat, prim \in PrimRecord :
             /\ Earned(g)
             /\ guard' = g
             /\ ledger' = Replayed(g, rest, late, cost, prim)
             /\ spent' = spent + cost
             /\ pc' \in {"passed", "deferred", "failed"}
             /\ pc' = "failed" => g.mode # "strong_source_success"
      BY <1>6, ReplayStep
    <2>2. /\ pc = "prims" /\ prims # <<>> /\ Head(prims).op = "CONSTRAINED_REPLAY"
          /\ UNCHANGED <<run, unit, units, step, prims, stopped, success, reason, verdict>>
      BY <1>6, ReplayStep DEF control
    <2>3. /\ ledger' \in Ledger /\ ledger'.contracts = ledger.contracts
          /\ Len(ledger'.guards) = Len(ledger.guards) + 1
          /\ Len(ledger'.replays) = Len(ledger.replays) + 1
      BY <2>1, ReplayedLedger
    <2>4. /\ Len(ledger.guards) = Len(ledger.replays) /\ Len(ledger.contracts) = Len(ledger.replays)
          /\ Len(ledger.replays) \in Nat
      BY <2>2, Lengths DEF TypeOK
    <2>5. spent' \in Nat
      BY <2>1 DEF TypeOK
    <2>6. TypeOK'
      <3>1. pc' \in {"passed", "deferred", "failed"} /\ guard' \in Guard
        BY <2>1
      <3>2. /\ Len(ledger'.guards) = Len(ledger'.replays)
            /\ Len(ledger'.contracts) = Len(ledger'.replays) - 1
        BY <2>3, <2>4
      <3>3. /\ run' \in Runs /\ unit' \in Seq(SemanticStep) /\ step' \in SemanticStep
            /\ prims' \in Seq(PrimRecord) /\ units' \in Nat
            /\ stopped' \in BOOLEAN /\ success' \in BOOLEAN /\ reason' \in BOOLEAN
            /\ verdict' \in BOOLEAN
        BY <2>2 DEF TypeOK
      <3> QED
        BY <2>3, <2>5, <3>1, <3>2, <3>3 DEF TypeOK
    <2>7. Placed'
      BY <2>1, <2>2 DEF Placed, Judging, ReplayLast
    <2> QED
      BY <2>6, <2>7
  <1>7. CASE Judge
    <2>1. PICK g \in Guard, ok \in BOOLEAN : Judging /\ Judged(g, ok)
      BY <1>7, JudgeStep
    <2>2. /\ pc' = "prims" /\ prims' = <<>> /\ verdict' = ok /\ success' \in BOOLEAN
          /\ guard' \in Guards /\ stopped' \in BOOLEAN /\ reason' \in BOOLEAN
          /\ UNCHANGED <<run, unit, units, step, spent>>
          /\ ledger' \in Ledger /\ ledger'.replays = ledger.replays
          /\ Len(ledger'.guards) = Len(ledger.guards)
          /\ Len(ledger'.contracts) = Len(ledger.contracts) + 1
      BY <2>1, JudgedStep DEF control
    <2>3. /\ Len(ledger.guards) = Len(ledger.replays) /\ Len(ledger.contracts) = Len(ledger.replays) - 1
          /\ Len(ledger.replays) \in Nat
      BY <2>1, Lengths DEF TypeOK, Judging
    <2>4. <<>> \in Seq(PrimRecord) /\ ReplayLast(<<>>)
      BY EmptySeq DEF ReplayLast
    <2> DEFINE n == Len(ledger'.replays)
    <2>5. /\ n \in Nat /\ Len(ledger'.guards) = n /\ Len(ledger'.contracts) = n
          /\ pc' \notin {"passed", "deferred", "failed"}
      <3>1. Len(ledger.contracts) + 1 = Len(ledger.replays)
        BY <2>3
      <3> QED
        BY <2>2, <2>3, <3>1
    <2> HIDE DEF n
    <2>7. /\ Len(ledger'.guards) = Len(ledger'.replays)
          /\ Len(ledger'.contracts) =
                Len(ledger'.replays) - (IF pc' \in {"passed", "deferred", "failed"} THEN 1 ELSE 0)
      BY <2>5 DEF n
    <2>8. TypeOK'
      BY <2>2, <2>4, <2>7 DEF TypeOK, Guards, StopGuard
    <2>6. Placed'
      BY <2>2, <2>4 DEF Placed, Judging, ReplayLast
    <2> QED
      BY <2>6, <2>8
  <1>8. CASE EndStep
    <2> DEFINE rest == IF stopped \/ ledger.steps = 0 THEN ledger.steps ELSE ledger.steps - 1
    <2>1. PICK goal \in BOOLEAN :
             /\ ledger' = [ledger EXCEPT
                  !.tried = Append(@, step.act), !.steps = rest,
                  !.suggestion = IF goal THEN "STOP" ELSE guard.suggestion]
             /\ pc' = CASE goal -> "done"
                        [] ~goal /\ (success \/ rest = 0 \/ stopped \/ unit = <<>>) -> "next"
                        [] OTHER -> "step"
             /\ UNCHANGED <<run, unit, units, step, prims, guard, stopped, success, reason, verdict, spent>>
      BY <1>8 DEF EndStep, control
    <2>2. ledger \in Ledger /\ pc = "prims" /\ prims = <<>>
      BY <1>8 DEF TypeOK, EndStep
    <2>3. rest \in Nat
      <3>1. ledger.steps \in Nat
        BY <2>2 DEF Ledger
      <3> QED
        BY <3>1
    <2>4. Append(ledger.tried, step.act) \in Seq(Actions)
      BY <2>2, Lengths, AppendProperties DEF TypeOK, SemanticStep
    <2>5. (IF goal THEN "STOP" ELSE guard.suggestion) \in Suggestions \cup {""}
      BY StoppedGuard DEF TypeOK, Suggestions, Guards, StopGuard
    <2>6. /\ ledger' \in Ledger /\ ledger'.guards = ledger.guards
          /\ ledger'.replays = ledger.replays /\ ledger'.contracts = ledger.contracts
      BY <2>1, <2>2, <2>3, <2>4, <2>5 DEF Ledger
    <2>7. pc' \in {"done", "next", "step"} /\ (pc' = "step" => unit # <<>>)
      BY <2>1
    <2> HIDE DEF rest
    <2>8. TypeOK'
      BY <2>1, <2>2, <2>6, <2>7, EvenAfter DEF TypeOK, Judging
    <2>9. Placed'
      BY <2>1, <2>2, <2>7 DEF Placed, Judging, ReplayLast
    <2> QED
      BY <2>8, <2>9
  <1>9. CASE EndUnit
    <2>1. /\ pc = "next" /\ pc' = "done"
          /\ UNCHANGED <<run, unit, units, step, prims, guard, stopped, ledger, success, reason, verdict, spent>>
      BY <1>9 DEF EndUnit
    <2>2. TypeOK'
      BY <2>1 DEF TypeOK
    <2>3. Placed'
      BY <2>1 DEF Placed, Judging, ReplayLast
    <2> QED
      BY <2>2, <2>3
  <1>10. CASE NextUnit
    <2>2. /\ pc = "next"
          /\ UNCHANGED <<run, step, prims, guard, stopped, ledger, success, reason, verdict, spent>>
      BY <1>10, NextUnitStep
    <2>3. /\ pc' \in {"unit", "done", "raised"} /\ unit' \in Seq(SemanticStep) /\ units' \in Nat
          /\ pc' = "unit" => unit' # <<>>
      BY <1>10, NextUnitStep
    <2>4. TypeOK'
      BY <2>2, <2>3 DEF TypeOK
    <2>5. Placed'
      BY <2>2, <2>3 DEF Placed, Judging, ReplayLast
    <2> QED
      BY <2>4, <2>5
  <1>11. CASE UNCHANGED vars
    <2>1. TypeOK'
      BY <1>11 DEF vars, TypeOK
    <2>2. Placed'
      BY <1>11 DEF vars, Placed, Judging, ReplayLast
    <2> QED
      BY <2>1, <2>2
  <1> QED
    BY <1>1, <1>2, <1>3, <1>4, <1>5, <1>6, <1>7, <1>8, <1>9, <1>10, <1>11 DEF Next, Execute, Minor

(* Every variable of SemanticExecutor has the values the code gives it.    *)
THEOREM TypeCorrect == Spec => []TypeOK
  <1>1. Init => TypeOK /\ Placed
    BY PlacedInit
  <1>2. TypeOK /\ Placed /\ [Next]_vars => (TypeOK /\ Placed)'
    BY PlacedNext
  <1> QED
    BY <1>1, <1>2, PTL DEF Spec

(***************************************************************************)
(* Budgets.                                                                *)
(***************************************************************************)
(* Steps that neither replay nor judge leave what was spent and decided.   *)
LEMMA OtherSteps ==
    ASSUME TypeOK, Placed, [Next]_vars, ~Replay, ~Judge
    PROVE  /\ UNCHANGED <<run, spent, verdict, success>>
           /\ ledger'.tokens = ledger.tokens /\ ledger'.guards = ledger.guards
           /\ ledger'.replays = ledger.replays /\ ledger'.contracts = ledger.contracts
           /\ ledger'.candidates = ledger.candidates
  <1>1. CASE Minor
    BY <1>1, MinorStep DEF SameHistory, control
  <1>2. CASE EndStep
    <2>1. PICK goal, rest : ledger' = [ledger EXCEPT
                  !.tried = Append(@, step.act), !.steps = rest,
                  !.suggestion = IF goal THEN "STOP" ELSE guard.suggestion]
      BY <1>2 DEF EndStep
    <2>2. UNCHANGED <<run, spent, verdict, success>> /\ ledger \in Ledger
      BY <1>2 DEF EndStep, control, TypeOK
    <2> QED
      BY <2>1, <2>2 DEF Ledger
  <1>3. CASE ChooseFirst \/ BeginUnit \/ BeginStep \/ Refuse \/ EndUnit \/ NextUnit \/ UNCHANGED vars
    BY <1>3 DEF ChooseFirst, BeginUnit, BeginStep, Refuse, EndUnit, NextUnit, vars, control
  <1> QED
    BY <1>1, <1>2, <1>3 DEF Next, Execute, Minor

LEMMA AffordedNext ==
    ASSUME TypeOK, Placed, Afforded, [Next]_vars
    PROVE  Afforded'
  <1>1. /\ Len(ledger.replays) <= run.replays
        /\ ledger.replays # <<>> => spent < run.tokens + ledger.replays[Len(ledger.replays)].cost
        /\ ledger.tokens > 0 => spent + ledger.tokens <= run.tokens
    BY DEF Afforded, BudgetsHold
  <1>2. CASE ~Replay /\ ~Judge
    BY <1>1, <1>2, OtherSteps DEF Afforded, BudgetsHold
  <1>3. CASE Judge
    <2>1. PICK g \in Guard, ok \in BOOLEAN : Judging /\ Judged(g, ok)
      BY <1>3, JudgeStep
    <2>2. UNCHANGED <<run, spent>> /\ ledger'.tokens = ledger.tokens /\ ledger'.replays = ledger.replays
      BY <2>1, JudgedStep DEF control
    <2> QED
      BY <1>1, <2>2 DEF Afforded, BudgetsHold
  <1>4. CASE Replay
    <2>1. PICK g \in Guard, rest \in Nat, late \in BOOLEAN, cost \in Nat, prim \in PrimRecord :
             /\ ledger' = Replayed(g, rest, late, cost, prim)
             /\ spent' = spent + cost
             /\ rest = 0 \/ rest = ledger.tokens - cost
      BY <1>4, ReplayStep
    <2>2. /\ ledger'.tokens = rest
          /\ Len(ledger'.replays) = Len(ledger.replays) + 1
          /\ ledger'.replays[Len(ledger'.replays)].cost = cost
      BY <2>1, ReplayedLedger
    <2>3. Len(ledger.replays) < run.replays /\ ledger.tokens > 0 /\ run' = run
      BY <1>4, ReplayStep DEF control
    <2>4. /\ run.replays \in Nat /\ run.tokens \in Nat /\ spent \in Nat
          /\ ledger.tokens \in Nat /\ Len(ledger.replays) \in Nat
      BY RunType, Lengths DEF TypeOK, Ledger
    <2>5. Len(ledger'.replays) <= run.replays
      BY <2>2, <2>3, <2>4
    <2>6. spent' < run.tokens + cost
      BY <1>1, <2>1, <2>3, <2>4
    <2>7. rest > 0 => spent' + rest <= run.tokens
      BY <1>1, <2>1, <2>3, <2>4
    <2> QED
      BY <2>2, <2>3, <2>5, <2>6, <2>7 DEF Afforded, BudgetsHold
  <1> QED
    BY <1>2, <1>3, <1>4

(* However programs, suggestions and controllers follow one another, the   *)
(* replays stay within their number, and no replay starts once the tokens  *)
(* are spent (_replay_budget_gate, _hard_budget_exhausted).                *)
THEOREM ReplaysAreAfforded == Spec => []BudgetsHold
  <1>1. Init => TypeOK /\ Placed /\ Afforded
    <2> SUFFICES ASSUME Init
                 PROVE  TypeOK /\ Placed /\ Afforded
      OBVIOUS
    <2>1. ledger.replays = <<>> /\ ledger.tokens = run.tokens /\ spent = 0
      BY DEF Init, InitialLedger
    <2>2. run.replays \in Nat /\ run.tokens \in Nat /\ Len(<<>>) = 0
      BY RunType, EmptySeq DEF Init
    <2> QED
      BY <2>1, <2>2, PlacedInit DEF Afforded, BudgetsHold
  <1>2. TypeOK /\ Placed /\ Afforded /\ [Next]_vars => (TypeOK /\ Placed /\ Afforded)'
    BY PlacedNext, AffordedNext
  <1>3. Afforded => BudgetsHold
    BY DEF Afforded
  <1> QED
    BY <1>1, <1>2, <1>3, PTL DEF Spec

(***************************************************************************)
(* Success.                                                                *)
(***************************************************************************)
LEMMA EarnedNext ==
    ASSUME TypeOK, Placed, SuccessIsEarned, [Next]_vars
    PROVE  SuccessIsEarned'
  <1>1. CASE Replay
    <2>1. success' = success /\ prims # <<>>
      BY <1>1, ReplayStep
    <2> QED
      BY <2>1 DEF SuccessIsEarned
  <1>2. CASE Judge
    <2>1. PICK g \in Guard, ok \in BOOLEAN :
             /\ Judging /\ Earned(g) /\ (Closed /\ g.mode = "strong_source_success" => ok)
             /\ Judged(g, ok)
      BY <1>2, JudgeStep
    <2>2. /\ pc' = "prims" /\ prims' = <<>> /\ verdict' = ok
          /\ success' = (IF Closed THEN g.mode = "strong_source_success" ELSE ok)
          /\ run' = run /\ ledger' \in Ledger
          /\ Len(ledger'.guards) = Len(ledger.contracts) + 1
          /\ ledger'.guards[Len(ledger'.guards)] = g
      BY <2>1, JudgedStep DEF control
    <2>3. ledger'.guards # <<>>
      <3>1. Len(ledger.contracts) \in Nat /\ Len(<<>>) = 0
        BY Lengths, EmptySeq DEF TypeOK
      <3> QED
        BY <2>2, <3>1
    <2>4. Latest(ledger') = g
      BY <2>2, <2>3 DEF Latest
    <2>5. Closed' = Closed
      BY <2>2 DEF Closed
    <2>6. success' => verdict' /\ (Closed => g.mode = "strong_source_success" /\ g.edit = "source")
      BY <2>1, <2>2 DEF Earned
    <2>7. Latest(ledger)' = g
      BY <2>4
    <2> QED
      BY <2>2, <2>5, <2>6, <2>7 DEF SuccessIsEarned
  <1>3. CASE ~Replay /\ ~Judge
    <2> SUFFICES ASSUME success'
                 PROVE  SuccessIsEarned'
      BY DEF SuccessIsEarned
    <2>1. /\ UNCHANGED <<run, verdict, success>> /\ ledger'.guards = ledger.guards
      BY <1>3, OtherSteps
    <2>2. /\ verdict
          /\ Closed => Latest(ledger).mode = "strong_source_success" /\ Latest(ledger).edit = "source"
          /\ prims = <<>> /\ pc \in {"prims", "next", "done"}
      BY <2>1 DEF SuccessIsEarned
    <2>3. prims' = <<>> /\ pc' \in {"prims", "next", "done"}
      <3>1. ~Minor /\ ~Refuse /\ ~ChooseFirst /\ ~BeginUnit /\ ~BeginStep /\ ~NextUnit
        BY <2>1, <2>2, MinorStep DEF Refuse, ChooseFirst, BeginUnit, BeginStep, NextUnit
      <3>2. CASE EndStep
        BY <2>1, <2>2, <3>2 DEF EndStep
      <3>3. CASE EndUnit \/ UNCHANGED vars
        BY <2>2, <3>3 DEF EndUnit, vars
      <3> QED
        BY <1>3, <3>1, <3>2, <3>3 DEF Next, Execute, Minor
    <2>4. Latest(ledger)' = Latest(ledger) /\ Closed' = Closed
      BY <2>1 DEF Latest, Closed
    <2> QED
      BY <2>1, <2>2, <2>3, <2>4 DEF SuccessIsEarned
  <1> QED
    BY <1>1, <1>2, <1>3

(* A loop that reports success ran a replay that the verifier or the       *)
(* official evaluation passed, of a source edit on the suspected path if   *)
(* the loop is closed, and ends with it (execute_semantic,                 *)
(* _guard_result_mode).                                                    *)
THEOREM SuccessEarned == Spec => []SuccessIsEarned
  <1>1. Init => TypeOK /\ Placed /\ SuccessIsEarned
    BY PlacedInit DEF Init, SuccessIsEarned
  <1>2. TypeOK /\ Placed /\ SuccessIsEarned /\ [Next]_vars => (TypeOK /\ Placed /\ SuccessIsEarned)'
    BY PlacedNext, EarnedNext
  <1> QED
    BY <1>1, <1>2, PTL DEF Spec

(***************************************************************************)
(* Blind retries.                                                          *)
(***************************************************************************)
(* While no replay is between its step's end and the step's record, every  *)
(* contract is of a step that was recorded.                                *)
LEMMA DatedEarlier ==
    ASSUME TypeOK, Trailed, NEW i \in DOMAIN ledger.contracts, ~(pc = "prims" /\ prims = <<>>)
    PROVE  /\ ledger.replays[i].tried \in 1 .. Len(ledger.tried)
           /\ ledger.contracts[i].blocked = BlockedIfRepeated(ledger.guards[i])
           /\ \/ ledger.contracts[i].sequence = ConditioningSequence(ledger.tried)
              \/ PreparedSince(i, Len(ledger.tried))
  <1>1. Dated(i)
    BY DEF Trailed
  <1>2. Len(ledger.tried) \in Nat
    BY Lengths DEF TypeOK
  <1> QED
    BY <1>1, <1>2 DEF Dated

LEMMA TrailedAfterReplay ==
    ASSUME TypeOK, Placed, Trailed, NoBlindRetry, Replay
    PROVE  Trailed' /\ NoBlindRetry'
  <1>1. PICK g \in Guard, rest \in Nat, late \in BOOLEAN, cost \in Nat, prim \in PrimRecord :
           ledger' = Replayed(g, rest, late, cost, prim)
    BY ReplayStep
  <1>2. /\ pc = "prims" /\ prims # <<>> /\ step' = step /\ prims' = prims
        /\ ~RepeatsBlocked(ledger, Head(prims), step.act)
    BY ReplayStep DEF control
  <1>3. /\ ledger'.tried = ledger.tried /\ ledger'.contracts = ledger.contracts
        /\ ledger'.candidates = ledger.candidates
        /\ \A i \in 1..Len(ledger.guards) : ledger'.guards[i] = ledger.guards[i]
        /\ \A i \in 1..Len(ledger.replays) : ledger'.replays[i] = ledger.replays[i]
        /\ ledger'.replays[Len(ledger'.replays)].tried = Len(ledger.tried) + 1
    BY <1>1, ReplayedLedger
  <1>4. \A i \in DOMAIN ledger.contracts :
           ledger'.guards[i] = ledger.guards[i] /\ ledger'.replays[i] = ledger.replays[i]
    <2>1. /\ DOMAIN ledger.contracts = 1..Len(ledger.contracts)
          /\ Len(ledger.guards) = Len(ledger.replays) /\ Len(ledger.contracts) = Len(ledger.replays) - 0
          /\ Len(ledger.replays) \in Nat
      BY <1>2, Lengths DEF TypeOK
    <2> QED
      BY <1>3, <2>1
  <1>5. ASSUME NEW i \in DOMAIN ledger.contracts
        PROVE  PreparedSince(i, Len(ledger.tried))' <=> PreparedSince(i, Len(ledger.tried))
    BY <1>3, <1>4 DEF PreparedSince
  <1>6. \A i \in DOMAIN ledger.contracts :
           /\ ledger.replays[i].tried \in 1 .. Len(ledger.tried)
           /\ ledger.contracts[i].blocked = BlockedIfRepeated(ledger.guards[i])
           /\ \/ ledger.contracts[i].sequence = ConditioningSequence(ledger.tried)
              \/ PreparedSince(i, Len(ledger.tried))
    BY <1>2, DatedEarlier
  <1>7. Len(ledger.tried) \in Nat
    BY Lengths DEF TypeOK
  <1>8. ASSUME NEW i \in DOMAIN ledger'.contracts
        PROVE  Dated(i)'
    BY <1>3, <1>4, <1>5, <1>6, <1>7, <1>8 DEF Dated
  <1>9. ASSUME NEW i \in DOMAIN ledger'.contracts, ledger'.contracts[i].blocked,
               ledger'.contracts[i].signature = Signature(Head(prims), step.act, LatestIntentFiles(ledger))'
        PROVE  PreparedSince(i, Len(ledger.tried))'
    <2>1. Signature(Head(prims), step.act, LatestIntentFiles(ledger))'
            = Signature(Head(prims), step.act, LatestIntentFiles(ledger))
      BY <1>2, <1>3, Zenon DEF Signature, LatestIntentFiles
    <2>2. ledger.contracts[i].sequence # ConditioningSequence(ledger.tried)
      BY <1>2, <1>3, <1>9, <2>1 DEF RepeatsBlocked
    <2> QED
      BY <1>3, <1>5, <1>6, <1>9, <2>2
  <1>10. Trailed'
    BY <1>3, <1>8, <1>9 DEF Trailed
  <1>11. NoBlindRetry'
    BY <1>3, <1>4 DEF NoBlindRetry, AtGate
  <1> QED
    BY <1>10, <1>11

LEMMA TrailedAfterVerdict ==
    ASSUME TypeOK, Placed, Trailed, NoBlindRetry, Judge
    PROVE  Trailed' /\ NoBlindRetry'
  <1>1. PICK g \in Guard, ok \in BOOLEAN : Judging /\ Judged(g, ok)
    BY JudgeStep
  <1>0. PICK n \in Nat : n = Len(ledger.contracts)
    BY Lengths DEF TypeOK
  <1> DEFINE entry == Contract(ledger, Head(prims), step.act, g, run.controller)
  <1>2. /\ pc' = "prims" /\ prims' = <<>> /\ step' = step
        /\ ledger' \in Ledger
        /\ ledger'.tried = ledger.tried /\ ledger'.replays = ledger.replays
        /\ Len(ledger.guards) = n + 1
        /\ Len(ledger'.guards) = n + 1
        /\ Len(ledger'.contracts) = n + 1
        /\ \A i \in 1..n : ledger'.contracts[i] = ledger.contracts[i]
                             /\ ledger'.guards[i] = ledger.guards[i]
        /\ ledger'.guards[n + 1] = g
        /\ ledger'.contracts[n + 1] = entry
    BY <1>0, <1>1, JudgedStep DEF control
  <1>3. n \in Nat /\ DOMAIN ledger.contracts = 1..n /\ Len(ledger.tried) \in Nat
        /\ Len(ledger.replays) = n + 1
    BY <1>0, <1>2, Lengths DEF TypeOK
  <1>4. DOMAIN ledger'.contracts = 1..n + 1
    <2>1. ledger'.contracts \in Seq(ContractRecord)
      BY <1>2 DEF Ledger
    <2> QED
      BY <1>2, <2>1, LenProperties
  <1>5. /\ ledger.replays[n + 1].tried = Len(ledger.tried) + 1
        /\ \A i \in 1..n :
              /\ ledger.contracts[i].blocked
              /\ ledger.contracts[i].signature = Signature(Head(prims), step.act, LatestIntentFiles(ledger))
              => PreparedSince(i, Len(ledger.tried))
    BY <1>1, <1>3 DEF Trailed
  <1>6. /\ entry.signature = Signature(Head(prims), step.act, IntentFiles(ledger, run.controller))
        /\ entry.blocked = BlockedIfRepeated(g)
        /\ entry.sequence = ConditioningSequence(Append(ledger.tried, step.act))
    BY DEF Contract
  <1>7. \A i \in 1..n :
           /\ ledger.replays[i].tried \in 1 .. Len(ledger.tried)
           /\ ledger.contracts[i].blocked = BlockedIfRepeated(ledger.guards[i])
           /\ \/ ledger.contracts[i].sequence = ConditioningSequence(ledger.tried)
              \/ PreparedSince(i, Len(ledger.tried))
    BY <1>1, <1>3, DatedEarlier DEF Judging
  <1> HIDE DEF entry
  <1>8. ASSUME NEW i \in 1..n
        PROVE  PreparedSince(i, Len(ledger.tried))' <=> PreparedSince(i, Len(ledger.tried))
    BY <1>2 DEF PreparedSince
  <1>9. ASSUME NEW i \in 1..n
        PROVE  Dated(i)'
    <2>1. /\ ledger'.replays[i].tried \in 1 .. Len(ledger'.tried)
          /\ ledger'.contracts[i].blocked = BlockedIfRepeated(ledger'.guards[i])
          /\ \/ ledger'.contracts[i].sequence = ConditioningSequence(ledger'.tried)
             \/ PreparedSince(i, Len(ledger.tried))'
      BY <1>2, <1>7, <1>8
    <2>2. Len(ledger'.tried) \in Nat
      BY <1>2, <1>3
    <2> QED
      BY <2>1, <2>2 DEF Dated
  <1>10. Dated(n + 1)'
    <2>1. /\ ledger'.replays[n + 1].tried = Len(ledger'.tried) + 1
          /\ ledger'.contracts[n + 1].blocked = BlockedIfRepeated(ledger'.guards[n + 1])
          /\ ledger'.contracts[n + 1].sequence = ConditioningSequence(Append(ledger'.tried, step'.act))
      BY <1>2, <1>5, <1>6
    <2>2. Len(ledger'.tried) \in Nat
      BY <1>2, <1>3
    <2> QED
      BY <1>2, <2>1, <2>2 DEF Dated
  <1>11. Trailed'
    <2>1. ~Judging'
      BY <1>2 DEF Judging
    <2>2. \A i \in 1..n + 1 : i \in 1..n \/ i = n + 1
      BY <1>3
    <2> QED
      BY <1>4, <1>9, <1>10, <2>1, <2>2 DEF Trailed
  <1>12. ASSUME NEW i \in 1..n + 1, NEW j \in 1..n + 1, i < j,
                ledger'.contracts[i].signature = AtGate(j)',
                ledger'.guards[i].mode \in NoFreshModes, ~Fresh(ledger'.guards[i])
         PROVE  \E k \in ledger'.replays[i].tried .. ledger'.replays[j].tried - 1 :
                   ledger'.tried[k] \in Preparing
    <2>1. i \in 1..n
      BY <1>3, <1>12
    <2>2. CASE j \in 1..n
      <3>1. j - 1 \in 1..n
        BY <1>3, <1>12, <2>1, <2>2
      <3>2. AtGate(j)' = AtGate(j)
        BY <1>2, <2>2, <3>1 DEF AtGate
      <3> QED
        BY <1>2, <1>3, <1>12, <2>1, <2>2, <3>2 DEF NoBlindRetry, AtGate
    <2>3. CASE j = n + 1
      <3>1. ledger.contracts[i].signature = Signature(Head(prims), step.act, LatestIntentFiles(ledger))
        <4>1. n \in 1..n /\ ledger.contracts # <<>>
          BY <1>3, <2>1, EmptySeq
        <4>2. ledger'.contracts[n] = ledger.contracts[n]
              /\ LatestIntentFiles(ledger) = ledger.contracts[n].signature.files
          BY <1>0, <1>2, <4>1, Zenon DEF LatestIntentFiles
        <4>3. AtGate(j)' = [entry.signature EXCEPT !.files = LatestIntentFiles(ledger)]
          <5>1. j - 1 = n /\ ledger'.contracts[j] = entry
            BY <1>2, <1>3, <2>3
          <5>2. AtGate(j)' = [ledger'.contracts[j].signature EXCEPT
                                 !.files = ledger'.contracts[j - 1].signature.files]
            BY DEF AtGate
          <5> QED
            BY <4>2, <5>1, <5>2
        <4>4. AtGate(j)' = Signature(Head(prims), step.act, LatestIntentFiles(ledger))
          BY <1>6, <4>3 DEF Signature
        <4> QED
          BY <1>2, <1>12, <2>1, <4>4
      <3>2. ledger.contracts[i].blocked
        <4>1. BlockedIfRepeated(ledger.guards[i])
          BY <1>2, <1>12, <2>1 DEF BlockedIfRepeated
        <4> QED
          BY <1>7, <2>1, <4>1
      <3>3. PreparedSince(i, Len(ledger.tried))
        BY <1>5, <2>1, <3>1, <3>2
      <3>4. ledger'.replays[j].tried - 1 = Len(ledger.tried)
        BY <1>2, <1>3, <1>5, <2>3
      <3> QED
        BY <1>2, <3>3, <3>4 DEF PreparedSince
    <2> QED
      BY <1>3, <2>2, <2>3
  <1>13. NoBlindRetry'
    BY <1>4, <1>12 DEF NoBlindRetry, AtGate
  <1> QED
    BY <1>11, <1>13

LEMMA TrailedAfterStep ==
    ASSUME TypeOK, Placed, Trailed, NoBlindRetry, EndStep
    PROVE  Trailed' /\ NoBlindRetry'
  <1> DEFINE n == Len(ledger.tried)
             longer == Append(ledger.tried, step.act)
  <1>1. PICK goal, rest : ledger' = [ledger EXCEPT
                  !.tried = Append(@, step.act), !.steps = rest,
                  !.suggestion = IF goal THEN "STOP" ELSE guard.suggestion]
    BY DEF EndStep
  <1>2. ledger \in Ledger /\ pc = "prims" /\ prims = <<>> /\ pc' \in {"done", "next", "step"}
        /\ step.act \in Actions
    BY DEF TypeOK, EndStep, SemanticStep
  <1>3. /\ ledger'.tried = longer /\ ledger'.guards = ledger.guards
        /\ ledger'.replays = ledger.replays /\ ledger'.contracts = ledger.contracts
    BY <1>1, <1>2 DEF Ledger
  <1>4. /\ n \in Nat /\ Len(longer) = n + 1 /\ longer[n + 1] = step.act
        /\ \A i \in 1..n : longer[i] = ledger.tried[i]
    BY <1>2, Lengths, AppendProperties
  <1>5. step.act \notin Preparing => ConditioningSequence(longer) = ConditioningSequence(ledger.tried)
    BY <1>2, Lengths, SequenceUnchanged
  <1> HIDE DEF n, longer
  <1>6. \A i \in DOMAIN ledger.contracts : Dated(i)
    BY DEF Trailed
  <1>7. ASSUME NEW i \in DOMAIN ledger.contracts
        PROVE  Dated(i)'
    <2>1. /\ ledger.replays[i].tried \in 1..n + 1
          /\ ledger.contracts[i].blocked = BlockedIfRepeated(ledger.guards[i])
      BY <1>6 DEF Dated, n
    <2>2. CASE ledger.replays[i].tried <= n /\ ledger.contracts[i].sequence = ConditioningSequence(ledger.tried)
      <3>1. CASE step.act \in Preparing
        <4>1. n + 1 \in ledger'.replays[i].tried .. n + 1 /\ ledger'.tried[n + 1] \in Preparing
          BY <1>3, <1>4, <2>1, <2>2, <3>1
        <4>2. PreparedSince(i, Len(ledger.tried))'
          BY <1>3, <1>4, <4>1 DEF PreparedSince
        <4> QED
          BY <1>3, <1>4, <2>1, <2>2, <4>2 DEF Dated
      <3>2. CASE step.act \notin Preparing
        BY <1>3, <1>4, <1>5, <2>1, <2>2, <3>2 DEF Dated
      <3> QED
        BY <3>1, <3>2
    <2>3. CASE ledger.replays[i].tried <= n /\ PreparedSince(i, n)
      <3>1. PICK k \in ledger.replays[i].tried .. n : ledger.tried[k] \in Preparing
        BY <2>3 DEF PreparedSince
      <3>2. k \in ledger'.replays[i].tried .. n + 1 /\ ledger'.tried[k] \in Preparing
        BY <1>3, <1>4, <2>1, <3>1
      <3>3. PreparedSince(i, Len(ledger.tried))'
        BY <1>3, <1>4, <3>2 DEF PreparedSince
      <3> QED
        BY <1>3, <1>4, <2>1, <2>3, <3>3 DEF Dated
    <2>4. CASE ledger.replays[i].tried = n + 1 /\ ledger.contracts[i].sequence = ConditioningSequence(longer)
      BY <1>3, <1>4, <2>1, <2>4 DEF Dated
    <2> QED
      BY <1>6, <2>2, <2>3, <2>4 DEF Dated, n, longer
  <1>8. Trailed'
    BY <1>2, <1>3, <1>7 DEF Trailed, Judging
  <1>9. ASSUME NEW i \in DOMAIN ledger.contracts, NEW j \in DOMAIN ledger.contracts,
               NEW k \in ledger.replays[i].tried .. ledger.replays[j].tried - 1
        PROVE  ledger'.tried[k] = ledger.tried[k]
    <2>1. ledger.replays[i].tried \in 1..n + 1 /\ ledger.replays[j].tried \in 1..n + 1
      BY <1>6 DEF Dated, n
    <2>2. k \in 1..n
      BY <1>4, <2>1
    <2> QED
      BY <1>3, <1>4, <2>2
  <1>10. NoBlindRetry'
    BY <1>3, <1>9 DEF NoBlindRetry, AtGate
  <1> QED
    BY <1>8, <1>10

LEMMA TrailedNext ==
    ASSUME TypeOK, Placed, Trailed, NoBlindRetry, [Next]_vars
    PROVE  Trailed' /\ NoBlindRetry'
  <1>1. CASE UNCHANGED vars
    <2>1. UNCHANGED <<ledger, pc, prims, step>>
      BY <1>1 DEF vars
    <2>2. \A i \in DOMAIN ledger.contracts : Dated(i)' <=> Dated(i)
      BY <2>1 DEF Dated, PreparedSince
    <2>3. Trailed'
      BY <2>1, <2>2 DEF Trailed, Judging, PreparedSince
    <2> QED
      BY <2>1, <2>3 DEF NoBlindRetry, AtGate
  <1>2. CASE ChooseFirst \/ BeginUnit \/ BeginStep \/ Refuse \/ Minor \/ EndUnit \/ NextUnit
    <2>1. ~(pc = "prims" /\ prims = <<>>) /\ ~Judging' /\ ~Replay /\ ~Judge /\ ledger'.tried = ledger.tried
      <3>1. /\ Replay => pc = "prims" /\ prims # <<>> /\ pc' \in {"passed", "deferred", "failed"}
            /\ Judge => Judging
        BY ReplayStep, JudgeStep
      <3>2. CASE Minor
        BY <3>1, <3>2, MinorStep DEF Judging, SameHistory
      <3>3. CASE ChooseFirst \/ BeginUnit
        BY <3>1, <3>3 DEF ChooseFirst, BeginUnit, Judging
      <3>4. CASE BeginStep
        BY <3>1, <3>4 DEF BeginStep, Judging
      <3>5. CASE Refuse
        BY <3>1, <3>5 DEF Refuse, Judging, control
      <3>6. CASE EndUnit
        BY <3>1, <3>6 DEF EndUnit, Judging
      <3>7. CASE NextUnit
        BY <3>1, <3>7, NextUnitStep DEF Judging
      <3> QED
        BY <1>2, <3>2, <3>3, <3>4, <3>5, <3>6, <3>7
    <2>2. /\ ledger'.guards = ledger.guards
          /\ ledger'.replays = ledger.replays /\ ledger'.contracts = ledger.contracts
      BY <2>1, OtherSteps
    <2>3. ASSUME NEW i \in DOMAIN ledger.contracts
          PROVE  Dated(i)'
      <3>1. /\ ledger.replays[i].tried \in 1 .. Len(ledger.tried)
            /\ ledger.contracts[i].blocked = BlockedIfRepeated(ledger.guards[i])
            /\ \/ ledger.contracts[i].sequence = ConditioningSequence(ledger.tried)
               \/ PreparedSince(i, Len(ledger.tried))
        BY <2>1, DatedEarlier
      <3>2. PreparedSince(i, Len(ledger.tried))' <=> PreparedSince(i, Len(ledger.tried))
        BY <2>1, <2>2 DEF PreparedSince
      <3>3. Len(ledger.tried) \in Nat
        BY Lengths DEF TypeOK
      <3> QED
        BY <2>1, <2>2, <3>1, <3>2, <3>3 DEF Dated
    <2>4. Trailed'
      BY <2>1, <2>2, <2>3 DEF Trailed
    <2>5. NoBlindRetry'
      BY <2>1, <2>2 DEF NoBlindRetry, AtGate
    <2> QED
      BY <2>4, <2>5
  <1> QED
    BY <1>1, <1>2, TrailedAfterReplay, TrailedAfterVerdict, TrailedAfterStep DEF Next, Execute, Minor

(* A replay that left no fresh source edit is never repeated as it was: a  *)
(* preparing action comes in between, however far apart the two are        *)
(* (_replay_signature_gate).                                               *)
THEOREM NoReplayIsRepeatedBlindly == Spec => []NoBlindRetry
  <1>1. Init => TypeOK /\ Placed /\ Trailed /\ NoBlindRetry
    <2> SUFFICES ASSUME Init
                 PROVE  TypeOK /\ Placed /\ Trailed /\ NoBlindRetry
      OBVIOUS
    <2>1. ledger.contracts = <<>> /\ pc = "start"
      BY DEF Init, InitialLedger
    <2>2. DOMAIN ledger.contracts = {}
      BY <2>1
    <2> QED
      BY <2>1, <2>2, PlacedInit DEF Trailed, NoBlindRetry, AtGate, Judging
  <1>2. TypeOK /\ Placed /\ Trailed /\ NoBlindRetry /\ [Next]_vars
           => (TypeOK /\ Placed /\ Trailed /\ NoBlindRetry)'
    BY PlacedNext, TrailedNext
  <1> QED
    BY <1>1, <1>2, PTL DEF Spec

(***************************************************************************)
(* The last slot.                                                          *)
(***************************************************************************)
LEMMA LastUnitNext ==
    ASSUME TypeOK, Placed, LastUnit, [Next]_vars
    PROVE  LastUnit'
  <1>1. CASE ChooseFirst
    BY <1>1 DEF ChooseFirst, LastUnit, Placed
  <1>2. CASE NextUnit
    BY <1>2, NextUnitStep
  <1>3. CASE UNCHANGED vars
    BY <1>3 DEF vars, LastUnit
  <1>4. CASE BeginUnit \/ BeginStep \/ Refuse \/ EndStep \/ EndUnit
    <2>1. pc' # "unit"
      <3>1. CASE EndStep
        BY <3>1 DEF EndStep
      <3> QED
        BY <1>4, <3>1 DEF BeginUnit, BeginStep, Refuse, EndUnit, control
    <2> QED
      BY <2>1 DEF LastUnit
  <1>5. CASE Minor \/ Replay \/ Judge
    <2>1. CASE Judge
      <3>1. PICK g \in Guard, ok \in BOOLEAN : Judging /\ Judged(g, ok)
        BY <2>1, JudgeStep
      <3> QED
        BY <3>1, JudgedStep DEF LastUnit
    <2> QED
      BY <1>5, <2>1, MinorStep, ReplayStep DEF LastUnit
  <1> QED
    BY <1>1, <1>2, <1>3, <1>4, <1>5 DEF Next, Execute, Minor

(* In an action loop without a controller the unit that starts with one    *)
(* step left compiles to a replay, whatever was suggested before           *)
(* (_compact_final_budget_action_program).                                 *)
THEOREM LastSlotIsAReplay == Spec => []LastSlotReplays
  <1>1. Init => TypeOK /\ Placed /\ LastUnit
    BY PlacedInit DEF Init, LastUnit
  <1>2. TypeOK /\ Placed /\ LastUnit /\ [Next]_vars => (TypeOK /\ Placed /\ LastUnit)'
    BY PlacedNext, LastUnitNext
  <1>3. TypeOK /\ Placed /\ LastUnit => LastSlotReplays
    <2> SUFFICES ASSUME TypeOK, Placed, LastUnit,
                        pc = "unit", units > 1, ledger.steps = 1, run.unit = "action",
                        run.controller = "none"
                 PROVE  \E i \in DOMAIN Compile(Head(unit), ledger.profile) :
                           Compile(Head(unit), ledger.profile)[i].op = "CONSTRAINED_REPLAY"
      BY DEF LastSlotReplays
    <2>1. unit \in Seq(SemanticStep) /\ unit # <<>>
      BY DEF TypeOK, Placed
    <2>2. Head(unit) \in SemanticStep
      BY <2>1, HeadTailProperties
    <2>3. EndsInReplay(Head(unit))
      BY DEF LastUnit
    <2> DEFINE ps == Compile(Head(unit), ledger.profile)
    <2>4. OneReplay(ps)
      BY <2>2, <2>3, CompileType
    <2> HIDE DEF ps
    <2>5. \E i \in DOMAIN ps : ps[i].op = "CONSTRAINED_REPLAY"
      <3>1. ps \in Seq(PrimRecord)
        BY <2>4 DEF OneReplay, Primitives
      <3>2. Len(ps) \in Nat /\ DOMAIN ps = 1..Len(ps)
        BY <3>1, LenProperties
      <3> QED
        BY <2>4, <3>2 DEF OneReplay
    <2> QED
      BY <2>5 DEF ps
  <1> QED
    BY <1>1, <1>2, <1>3, PTL DEF Spec

(***************************************************************************)
(* The abstract loop.                                                      *)
(***************************************************************************)
LEMMA LoopStep ==
    ASSUME TypeOK, Placed, SuccessIsEarned, [Next]_vars
    PROVE  [Loop!LoopNext]_(Loop!loopVars)
  <1>1. CASE Replay
    <2>1. PICK g \in Guard, rest \in Nat, late \in BOOLEAN, cost \in Nat, prim \in PrimRecord :
             /\ ledger' = Replayed(g, rest, late, cost, prim)
             /\ pc' \in {"passed", "deferred", "failed"}
      BY <1>1, ReplayStep
    <2>2. Len(ledger'.replays) = Len(ledger.replays) + 1
      <3> DEFINE l == Replayed(g, rest, late, cost, prim)
      <3>1. Len(l.replays) = Len(ledger.replays) + 1
        BY ReplayedLedger
      <3> QED
        BY <2>1, <3>1
    <2>3. /\ pc = "prims" /\ Len(ledger.replays) < run.replays
          /\ UNCHANGED <<run, success, verdict>>
      BY <1>1, ReplayStep DEF control
    <2>4. Loop!Recover
      BY <2>1, <2>2, <2>3 DEF Loop!Recover
    <2> QED
      BY <2>4 DEF Loop!LoopNext
  <1>2. CASE Judge
    <2>1. PICK g \in Guard, ok \in BOOLEAN : Judging /\ Judged(g, ok)
      BY <1>2, JudgeStep
    <2>2. /\ pc' = "prims" /\ verdict' = ok /\ run' = run /\ ledger'.replays = ledger.replays
      BY <2>1, JudgedStep DEF control
    <2>3. Loop!Verify
      BY <2>1, <2>2 DEF Loop!Verify, Judging
    <2> QED
      BY <2>3 DEF Loop!LoopNext
  <1>3. CASE ~Replay /\ ~Judge
    <2>1. /\ UNCHANGED <<run, verdict, success>> /\ ledger'.replays = ledger.replays
      BY <1>3, OtherSteps
    <2>2. pc \in {"done", "raised"} => pc' = pc
      <3>1. CASE Minor
        BY <3>1, MinorStep
      <3>2. CASE NextUnit
        BY <3>2, NextUnitStep
      <3> QED
        BY <1>3, <3>1, <3>2 DEF Next, Execute, Minor, ChooseFirst, BeginUnit, BeginStep, Refuse,
                                EndStep, EndUnit, vars
    <2>3. success => verdict
      BY DEF SuccessIsEarned
    <2>4. success \in BOOLEAN /\ verdict \in BOOLEAN
      BY DEF TypeOK
    <2>5. CASE pc \in {"done", "raised"} \/ pc' \notin {"done", "raised"}
      <3>1. UNCHANGED <<pc \in {"done", "raised"}, pc = "done" /\ success>>
        BY <2>1, <2>2, <2>5
      <3> QED
        BY <2>1, <3>1 DEF Loop!loopVars
    <2>6. CASE pc \notin {"done", "raised"} /\ pc' \in {"done", "raised"}
      <3>1. (pc = "done" /\ success)' \in {FALSE, verdict}
        <4>1. CASE pc' = "done" /\ success
          BY <2>1, <2>3, <2>4, <4>1
        <4>2. CASE ~(pc' = "done" /\ success)
          BY <2>1, <4>2
        <4> QED
          BY <4>1, <4>2
      <3>2. Loop!End
        BY <2>1, <2>6, <3>1 DEF Loop!End
      <3> QED
        BY <3>2 DEF Loop!LoopNext
    <2> QED
      BY <2>5, <2>6
  <1> QED
    BY <1>1, <1>2, <1>3

(* The executor is a recovery loop: its replays stay within their number,  *)
(* and it ends once, with success only if the last verdict was a pass.     *)
(* The fairness of the loop is left to the model checker.                  *)
THEOREM ExecutorRefinesLoop == Spec => Loop!LoopInit /\ [][Loop!LoopNext]_(Loop!loopVars)
  <1>1. Init => Loop!LoopInit
    <2> SUFFICES ASSUME Init
                 PROVE  Loop!LoopInit
      OBVIOUS
    <2>1. ledger.replays = <<>> /\ pc = "start" /\ ~success /\ ~verdict /\ verdict = FALSE
      BY DEF Init, InitialLedger
    <2>2. run.replays \in Nat /\ Len(<<>>) = 0
      BY RunType, EmptySeq DEF Init
    <2> QED
      BY <2>1, <2>2 DEF Loop!LoopInit
  <1>2. Init => TypeOK /\ Placed /\ SuccessIsEarned
    BY PlacedInit DEF Init, SuccessIsEarned
  <1>3. TypeOK /\ Placed /\ SuccessIsEarned /\ [Next]_vars
           => (TypeOK /\ Placed /\ SuccessIsEarned)' /\ [Loop!LoopNext]_(Loop!loopVars)
    BY PlacedNext, EarnedNext, LoopStep
  <1> QED
    BY <1>1, <1>2, <1>3, PTL DEF Spec


(***************************************************************************)
(* The loops of the controllers: what a run remembers and how objects move.*)
(***************************************************************************)
LEMMA RevisionType ==
    ASSUME NEW act \in Actions, NEW mode \in ResultModes \cup {""}, NEW changed \in BOOLEAN
    PROVE  Revision(act, mode, changed) \in Revisions
  <1> USE DEF Revisions
  <1>1. CASE act = "REVOKE_OBJECT"
    BY <1>1 DEF Revision, Rechecks
  <1>2. CASE act = "TARGET_RESET" /\ changed
    BY <1>2 DEF Revision, Rechecks
  <1>3. CASE act \in Rechecks
    BY <1>3 DEF Revision, Rechecks
  <1>4. CASE act \notin Rechecks \cup {"REVOKE_OBJECT"} /\ ~(act = "TARGET_RESET" /\ changed)
    <2> DEFINE rest == CASE mode \in NoFreshModes -> "invalidated_no_progress"
                         [] mode = "strong_source_success" -> "reinforced_source_candidate"
                         [] mode \in ProgressModes -> "candidate_preserved_unverified"
                         [] OTHER -> IF changed THEN "observed_evidence" ELSE "unresolved"
    <2>1. rest \in Revisions
      BY DEF NoFreshModes, ProgressModes
    <2>2. Revision(act, mode, changed) = rest
      BY <1>4 DEF Revision
    <2> QED
      BY <2>1, <2>2
  <1> QED
    BY <1>1, <1>2, <1>3, <1>4

LEMMA MembershipIsBoolean ==
    ASSUME NEW x, NEW S
    PROVE  (x \in S) \in BOOLEAN
  OBVIOUS

LEMMA LearnType ==
    ASSUME NEW m \in Memory, NEW act \in Actions, NEW mode \in ResultModes \cup {""},
           NEW changed \in BOOLEAN, NEW costly \in BOOLEAN, NEW known
    PROVE  Learn(m, act, mode, changed, costly, known) \in Memory
  <1> DEFINE fresh == Fresh(known)
             empty == mode \in NoFreshModes /\ ~fresh
             moved == changed /\ ~empty
             episode == [act |-> act, changed |-> moved, fresh |-> fresh,
                         noDiff |-> empty, same |-> mode \in SameModes]
             event == [act |-> act, mode |-> mode, costly |-> costly,
                       revision |-> Revision(act, mode, moved)]
  <1>1. fresh \in BOOLEAN /\ empty \in BOOLEAN /\ moved \in BOOLEAN /\ (mode \in SameModes) \in BOOLEAN
    <2>1. fresh \in BOOLEAN
      BY MembershipIsBoolean DEF Fresh
    <2>4. (mode \in SameModes) \in BOOLEAN
      BY MembershipIsBoolean
    <2>2. empty \in BOOLEAN
      OBVIOUS
    <2>3. moved \in BOOLEAN
      OBVIOUS
    <2> QED
      BY <2>1, <2>2, <2>3, <2>4
  <1> HIDE DEF fresh, moved, empty
  <1>2. episode \in EpisodeRecord
    BY <1>1 DEF EpisodeRecord
  <1>3. Revision(act, mode, moved) \in Revisions
    BY <1>1, RevisionType
  <1>4. event \in EventRecord
    BY <1>3 DEF EventRecord
  <1> HIDE DEF episode, event
  <1>5. /\ Append(m.episodes, episode) \in Seq(EpisodeRecord)
        /\ Append(m.events, event) \in Seq(EventRecord)
    BY <1>2, <1>4, AppendProperties DEF Memory
  <1>6. (m.route \/ LearnsRoute(known)) \in BOOLEAN
    OBVIOUS
  <1>7. m.open \cup LearnsOpen(known) \in SUBSET {"candidate", "validation"}
    BY DEF LearnsOpen, Memory
  <1>8. Learn(m, act, mode, changed, costly, known)
          = [m EXCEPT !.episodes = Append(@, episode), !.events = Append(@, event),
                      !.route = @ \/ LearnsRoute(known), !.open = @ \cup LearnsOpen(known)]
    BY DEF Learn, episode, event, fresh, empty, moved
  <1> QED
    BY <1>5, <1>6, <1>7, <1>8 DEF Memory

(* A step moves an object only while it is unresolved: to resolved by a    *)
(* repair that changed files and was passed, and to exhausted by the last  *)
(* of the repairs in vain that are counted.                                *)
Moves(obj, new, act, mode, edit) ==
    /\ new \in Object
    /\ obj.state \in Terminal => new = obj
    /\ new.state = "resolved" =>
          \/ new.state = obj.state
          \/ act \in Repairing /\ edit # "none" /\ mode \in ResolvingModes
    /\ new.state = "exhausted" => new.state = obj.state \/ new.unproductive >= 2
    /\ new.unproductive > obj.unproductive =>
          /\ act \in Repairing /\ new.unproductive = obj.unproductive + 1
          /\ edit = "none" \/ mode \notin ResolvingModes

LEMMA TransitionType ==
    ASSUME NEW obj \in Object, NEW act, NEW mode, NEW edit
    PROVE  Moves(obj, Transition(obj, act, mode, edit), act, mode, edit)
  <1> DEFINE fresh == edit # "none" /\ mode \in ResolvingModes \cup {"oracle_failed_after_source_edit"}
             n == obj.unproductive + 1
  <1>1. /\ obj.unproductive \in Nat /\ n \in Nat /\ n > obj.unproductive
        /\ obj.state \in Unresolved \cup Terminal
    <2>1. obj.unproductive \in Nat /\ obj.state \in Unresolved \cup Terminal
      BY DEF Object, ObjectStates
    <2> QED
      BY <2>1
  <1>2. Unresolved \cap Terminal = {} /\ "invalidated" \in Unresolved /\ "resolved" \in Terminal
        /\ "exhausted" \in Terminal
    BY DEF Unresolved, Terminal
  <1>3. "REVOKE_OBJECT" \notin Repairing
    BY DEF Repairing
  <1>4. ResolvingModes \cap UnproductiveModes = {}
    BY DEF ResolvingModes, UnproductiveModes
  <1>5. Moves(obj, obj, act, mode, edit)
    BY <1>1 DEF Moves
  <1> HIDE DEF fresh
  <1>6. CASE obj.state \in Terminal
    BY <1>2, <1>5, <1>6 DEF Transition
  <1>7. CASE obj.state \in Unresolved /\ act = "REVOKE_OBJECT"
    <2> DEFINE new == [obj EXCEPT !.state = "invalidated", !.unproductive = 0]
    <2>1. Transition(obj, act, mode, edit) = new
      BY <1>2, <1>3, <1>7 DEF Transition
    <2>2. new \in Object /\ new.state = "invalidated" /\ new.unproductive = 0
      BY <1>2 DEF Object, ObjectStates
    <2> HIDE DEF new
    <2>3. Moves(obj, new, act, mode, edit)
      BY <1>1, <1>2, <1>7, <2>2 DEF Moves, Unresolved, Terminal
    <2> QED
      BY <2>1, <2>3
  <1>8. CASE obj.state \in Unresolved /\ act \in Repairing /\ fresh /\ mode \in ResolvingModes
    <2> DEFINE new == [obj EXCEPT !.state = "resolved", !.unproductive = 0]
    <2>1. Transition(obj, act, mode, edit) = new
      BY <1>2, <1>3, <1>4, <1>8 DEF Transition, fresh
    <2>2. new \in Object /\ new.state = "resolved" /\ new.unproductive = 0
      BY <1>2 DEF Object, ObjectStates
    <2> HIDE DEF new
    <2>3. Moves(obj, new, act, mode, edit)
      BY <1>1, <1>2, <1>8, <2>2 DEF Moves, Unresolved, Terminal, fresh
    <2> QED
      BY <2>1, <2>3
  <1>9. CASE /\ obj.state \in Unresolved /\ act \in Repairing
             /\ ~(fresh /\ mode \in ResolvingModes) /\ (~fresh \/ mode \in UnproductiveModes)
    <2> DEFINE state == IF n >= UnproductiveThreshold THEN "exhausted" ELSE obj.state
               new == [obj EXCEPT !.unproductive = n, !.state = state]
    <2>1. Transition(obj, act, mode, edit) = new
      BY <1>2, <1>3, <1>4, <1>9 DEF Transition, fresh
    <2>2. edit = "none" \/ mode \notin ResolvingModes
      BY <1>9 DEF fresh
    <2>3. state \in ObjectStates /\ (state = "exhausted" => state = obj.state \/ n >= 2)
          /\ (state = "resolved" => state = obj.state)
      BY <1>1, <1>2 DEF ObjectStates, UnproductiveThreshold
    <2> HIDE DEF n, state
    <2>4. new \in Object /\ new.state = state /\ new.unproductive = n
      BY <1>1, <2>3 DEF Object
    <2> HIDE DEF new
    <2>5. obj.state \notin Terminal
      BY <1>2, <1>9
    <2>6. n = obj.unproductive + 1
      BY DEF n
    <2>7. Moves(obj, new, act, mode, edit)
      BY <1>9, <2>2, <2>3, <2>4, <2>5, <2>6 DEF Moves
    <2> QED
      BY <2>1, <2>7
  <1>10. CASE /\ obj.state \in Unresolved /\ act # "REVOKE_OBJECT"
              /\ ~(act \in Repairing /\ fresh /\ mode \in ResolvingModes)
              /\ ~(act \in Repairing /\ (~fresh \/ mode \in UnproductiveModes))
    <2>1. Transition(obj, act, mode, edit) = obj
      BY <1>2, <1>10 DEF Transition, fresh
    <2> QED
      BY <2>1, <1>5
  <1> QED
    BY <1>1, <1>6, <1>7, <1>8, <1>9, <1>10

(* What the controllers of a loop read.                                    *)
View == [l : Ledger, chain : Seq(Object), active : Nat, target : BOOLEAN, grants : 0 .. 1,
         m : Memory, e : Evidence]
Positioned(v) == v \in View /\ v.active \in {0} \cup DOMAIN v.chain

LEMMA ChainType ==
    ASSUME NEW v \in View
    PROVE  /\ v.chain \in Seq(Object) /\ Len(v.chain) \in Nat /\ DOMAIN v.chain = 1 .. Len(v.chain)
           /\ \A i \in DOMAIN v.chain : v.chain[i] \in Object
           /\ IsFiniteSet(DOMAIN v.chain)
  <1>1. v.chain \in Seq(Object)
    BY DEF View
  <1>2. Len(v.chain) \in Nat /\ DOMAIN v.chain = 1 .. Len(v.chain)
    BY <1>1, LenProperties
  <1>3. \A i \in DOMAIN v.chain : v.chain[i] \in Object
    BY <1>1, <1>2, ElementOfSeq
  <1>4. IsFiniteSet(DOMAIN v.chain)
    BY <1>2, FS_Interval
  <1> QED
    BY <1>1, <1>2, <1>3, <1>4

(* Clearing leaves an object, or none.                                     *)
LEMMA ClearedType ==
    ASSUME Positioned(c), current \in SemanticStep
    PROVE  Cleared.obj \in ObjectTypes /\ Cleared.at \in Nat /\ Cleared.at \in {0} \cup DOMAIN c.chain
  <1> USE DEF ObjectTypes
  <1>1. c.l.object \in ObjectTypes
    BY DEF Positioned, View, Ledger
  <1>2. DOMAIN c.chain \subseteq Nat /\ c.active \in {0} \cup DOMAIN c.chain
    BY ChainType DEF Positioned
  <1> DEFINE places == {0} \cup DOMAIN c.chain
  <1>7. places \subseteq Nat /\ c.active \in places /\ 0 \in places
    BY <1>2
  <1>8. SUFFICES Cleared.obj \in ObjectTypes /\ Cleared.at \in places
    BY <1>7
  <1> HIDE DEF places
  <1>3. ASSUME Selections(c.chain) # {}
        PROVE  Min(Selections(c.chain)) \in DOMAIN c.chain
    <2>1. Selections(c.chain) \subseteq DOMAIN c.chain
      BY DEF Selections
    <2> DEFINE T == Selections(c.chain)
    <2>2. T \in SUBSET Nat /\ T # {}
      BY <1>2, <1>3, <2>1
    <2> HIDE DEF T
    <2>3. \E n \in T : \A k \in T : n <= k
      BY <2>2, LeastExists
    <2>4. Min(T) \in T
      BY <2>3 DEF Min
    <2> QED
      BY <2>1, <2>4 DEF T
  <1>4. CASE current.act \notin {"REVOKE_OBJECT", "TARGET_RESET"}
    <2>1. Cleared.obj = c.l.object /\ Cleared.at = c.active
      BY <1>4 DEF Cleared
    <2> QED
      BY <1>1, <1>7, <2>1
  <1>5. CASE current.act \in {"REVOKE_OBJECT", "TARGET_RESET"} /\ current.all
    <2>1. Cleared = [obj |-> "", at |-> 0]
      BY <1>5 DEF Cleared
    <2> QED
      BY <1>7, <2>1
  <1>6. CASE current.act \in {"REVOKE_OBJECT", "TARGET_RESET"} /\ ~current.all
    <2> DEFINE at == IF Selections(c.chain) = {} THEN 0 ELSE Min(Selections(c.chain))
    <2>1. at \in places
      BY <1>3, <1>7 DEF places
    <2>2. \/ Cleared.obj = c.l.object /\ Cleared.at = c.active
          \/ Cleared.obj = "selection" /\ Cleared.at = at
      BY <1>6 DEF Cleared
    <2> HIDE DEF at
    <2> QED
      BY <1>1, <1>7, <2>1, <2>2
  <1> QED
    BY <1>4, <1>5, <1>6

LEMMA TargetsType ==
    ASSUME c \in View
    PROVE  Targets \subseteq BOOLEAN
  <1>1. c.target \in BOOLEAN
    BY DEF View
  <1> QED
    BY <1>1 DEF Targets

(* The object that was active before a step moves, and only that one.      *)
LEMMA MovedType ==
    ASSUME c \in View, NEW mode, NEW edit
    PROVE  /\ Moved(mode, edit) \in Seq(Object) /\ DOMAIN Moved(mode, edit) = DOMAIN c.chain
           /\ \A i \in DOMAIN c.chain :
                 Moves(c.chain[i], Moved(mode, edit)[i], current.act, mode, edit)
  <1>1. /\ c.chain \in Seq(Object) /\ Len(c.chain) \in Nat /\ DOMAIN c.chain = 1 .. Len(c.chain)
        /\ \A i \in DOMAIN c.chain : c.chain[i] \in Object
    BY ChainType
  <1>2. \A i \in DOMAIN c.chain : Moves(c.chain[i], c.chain[i], current.act, mode, edit)
    <2> SUFFICES ASSUME NEW i \in DOMAIN c.chain
                 PROVE  Moves(c.chain[i], c.chain[i], current.act, mode, edit)
      OBVIOUS
    <2>1. c.chain[i] \in Object /\ c.chain[i].unproductive \in Nat
      BY <1>1 DEF Object
    <2> QED
      BY <2>1 DEF Moves
  <1>3. CASE c.active = 0
    BY <1>1, <1>2, <1>3 DEF Moved
  <1>4. CASE c.active # 0
    <2> DEFINE new == [c.chain EXCEPT ![c.active] = Transition(@, current.act, mode, edit)]
    <2>1. Moved(mode, edit) = new
      BY <1>4 DEF Moved
    <2>2. DOMAIN new = DOMAIN c.chain
      OBVIOUS
    <2>3. ASSUME NEW i \in DOMAIN c.chain
          PROVE  Moves(c.chain[i], new[i], current.act, mode, edit)
      <3>1. CASE i = c.active
        <4>1. new[i] = Transition(c.chain[i], current.act, mode, edit)
          BY <3>1
        <4> QED
          BY <1>1, <4>1, TransitionType
      <3>2. CASE i # c.active
        BY <1>2, <3>2
      <3> QED
        BY <3>1, <3>2
    <2> HIDE DEF new
    <2>4. ASSUME c.active \in DOMAIN c.chain
          PROVE  new \in Seq(Object)
      <3>1. Transition(c.chain[c.active], current.act, mode, edit) \in Object
        BY <1>1, <2>4, TransitionType DEF Moves
      <3>2. [c.chain EXCEPT ![c.active] = Transition(c.chain[c.active], current.act, mode, edit)]
               \in Seq(Object)
        BY <1>1, <2>4, <3>1, ExceptSeq
      <3> QED
        BY <3>2 DEF new
    <2>5. new \in Seq(Object)
      <3>1. CASE c.active \notin DOMAIN c.chain
        <4>1. new = c.chain
          BY <1>1, <3>1 DEF new
        <4> QED
          BY <1>1, <4>1
      <3> QED
        BY <2>4, <3>1
    <2> QED
      BY <2>1, <2>2, <2>3, <2>5
  <1> QED
    BY <1>3, <1>4

LEMMA PrimitivesType ==
    ASSUME c \in View, current \in SemanticStep
    PROVE  /\ Compiled \in Primitives
           /\ HasReplay => ReplayPrim \in PrimRecord
           /\ EndsInReplay(current) => HasReplay
  <1>1. /\ EndsInReplay(current) => OneReplay(Compiled)
        /\ ~EndsInReplay(current) => NoReplay(Compiled)
    BY CompileType DEF Compiled
  <1>2. Compiled \in Primitives
    BY <1>1 DEF OneReplay, NoReplay
  <1>3. Len(Compiled) \in Nat /\ DOMAIN Compiled = 1 .. Len(Compiled)
        /\ \A i \in DOMAIN Compiled : Compiled[i] \in PrimRecord
    BY <1>2, LenProperties, ElementOfSeq DEF Primitives
  <1>4. HasReplay => ReplayPrim \in PrimRecord
    BY <1>3 DEF HasReplay, ReplayPrim
  <1>5. EndsInReplay(current) => HasReplay
    BY <1>1, <1>3 DEF HasReplay, OneReplay, IsReplay
  <1> QED
    BY <1>2, <1>4, <1>5

(* The end of a step keeps the histories, and the ledger a ledger.         *)
Keeps(k) ==
    /\ Positioned(c') /\ c'.chain = k.chain /\ c'.grants = k.grants
    /\ c'.l.tried = Append(k.l.tried, current.act)
    /\ c'.l.guards = k.l.guards /\ c'.l.replays = k.l.replays /\ c'.l.contracts = k.l.contracts
(* The rest of it: what it suggests, and which object is active.           *)
Closes(k, suggestion) ==
    /\ c'.l.candidates = k.l.candidates /\ c'.l.suggestion \in {"STOP", suggestion}
    /\ c'.m = k.m /\ c'.active = Cleared.at

LEMMA OneFewer ==
    ASSUME NEW n \in Nat
    PROVE  (IF n = 0 THEN 0 ELSE n - 1) \in Nat
  OBVIOUS

LEMMA FinishType ==
    ASSUME NEW k \in View, Positioned(c), current \in SemanticStep, DOMAIN k.chain = DOMAIN c.chain,
           NEW suggestion \in Suggestions \cup {""}, Finish(k, suggestion)
    PROVE  Keeps(k) /\ Closes(k, suggestion) /\ phase' = "next"
  <1> DEFINE steps == IF k.l.steps = 0 THEN 0 ELSE k.l.steps - 1
             asks == IF GoalSatisfied(k) THEN "STOP" ELSE suggestion
             tried == Append(k.l.tried, current.act)
             obj == Cleared.obj
             at == Cleared.at
             l == [k.l EXCEPT !.tried = tried, !.steps = steps, !.object = obj, !.suggestion = asks]
  <1>1. k.l \in Ledger
    BY DEF View
  <1>2. steps \in Nat
    <2>1. k.l.steps \in Nat
      BY <1>1 DEF Ledger
    <2> QED
      BY <2>1, OneFewer
  <1>3. asks \in Suggestions \cup {""} /\ asks \in {"STOP", suggestion}
    BY DEF Suggestions
  <1>4. tried \in Seq(Actions)
    BY <1>1, AppendProperties DEF Ledger, SemanticStep
  <1>5. obj \in ObjectTypes /\ at \in Nat /\ at \in {0} \cup DOMAIN k.chain
    BY ClearedType
  <1>6. PICK target \in BOOLEAN : c' = [k EXCEPT !.l = l, !.active = at, !.target = target]
    <2>1. Targets \subseteq BOOLEAN
      BY TargetsType DEF Positioned
    <2> QED
      BY <2>1 DEF Finish
  <1>10. phase' = "next"
    BY DEF Finish
  <1> HIDE DEF steps, asks, tried, obj, at
  <1>7. l \in Ledger /\ l.tried = tried /\ l.guards = k.l.guards /\ l.replays = k.l.replays
        /\ l.contracts = k.l.contracts /\ l.candidates = k.l.candidates /\ l.suggestion = asks
    BY <1>1, <1>2, <1>3, <1>4, <1>5 DEF Ledger
  <1> HIDE DEF l
  <1>8. c' \in View /\ c'.chain = k.chain /\ c'.grants = k.grants /\ c'.l = l /\ c'.active = at
        /\ c'.m = k.m
    BY <1>5, <1>6, <1>7 DEF View
  <1>9. Closes(k, suggestion)
    BY <1>3, <1>7, <1>8 DEF Closes, at
  <1> QED
    BY <1>5, <1>7, <1>8, <1>9, <1>10 DEF Keeps, Positioned, tried

LEMMA CutShortType ==
    ASSUME Positioned(c), current \in SemanticStep,
           NEW obj \in ObjectTypes, NEW at \in {0} \cup DOMAIN c.chain,
           CutShort([obj |-> obj, at |-> at])
    PROVE  /\ Positioned(c') /\ c'.chain = Moved(BudgetStop.mode, BudgetStop.edit)
           /\ DOMAIN c'.chain = DOMAIN c.chain /\ c'.grants = c.grants
           /\ c'.l.tried = Append(c.l.tried, current.act)
           /\ c'.l.guards = c.l.guards /\ c'.l.replays = c.l.replays
           /\ c'.l.contracts = c.l.contracts
           /\ phase' = "done"
  <1> DEFINE tried == Append(c.l.tried, current.act)
             chain == Moved(BudgetStop.mode, BudgetStop.edit)
             l == [c.l EXCEPT !.tried = tried, !.suggestion = "STOP", !.object = obj]
  <1>1. c \in View /\ c.l \in Ledger
    BY DEF Positioned, View
  <1>2. tried \in Seq(Actions)
    BY <1>1, AppendProperties DEF Ledger, SemanticStep
  <1>3. chain \in Seq(Object) /\ DOMAIN chain = DOMAIN c.chain
    BY <1>1, MovedType
  <1>4. at \in Nat
    BY <1>1, ChainType
  <1>5. c' = [c EXCEPT !.l = l, !.active = at, !.chain = chain] /\ phase' = "done"
    BY DEF CutShort, BudgetStop
  <1> HIDE DEF tried, chain
  <1>6. l \in Ledger /\ l.tried = tried /\ l.guards = c.l.guards /\ l.replays = c.l.replays
        /\ l.contracts = c.l.contracts
    BY <1>1, <1>2 DEF Ledger, Suggestions
  <1> HIDE DEF l
  <1>7. c' \in View /\ c'.chain = chain /\ c'.grants = c.grants /\ c'.l = l /\ c'.active = at
    BY <1>1, <1>3, <1>4, <1>5, <1>6 DEF View
  <1> QED
    BY <1>3, <1>5, <1>6, <1>7 DEF Positioned, tried, chain

(* The controller is asked about the ledger only.                          *)
LEMMA GrantedType ==
    ASSUME Positioned(c), NEW asked
    PROVE  /\ Granted(asked) \in 0 .. 1
           /\ Positioned([c EXCEPT !.grants = Granted(asked)])
  <1>1. c.grants \in 0 .. 1 /\ c \in View
    BY DEF Positioned, View
  <1>2. Granted(asked) \in 0 .. 1
    BY <1>1 DEF Granted, Escapes
  <1> QED
    BY <1>1, <1>2 DEF Positioned, View

(* While a replay is judged there is one; replays are dated by the actions *)
(* tried before them; a success was verified.                              *)
Playing ==
    /\ phase = "judge" => HasReplay
    /\ \A i \in DOMAIN c.l.replays :
          c.l.replays[i].tried <=
             IF phase = "judge" /\ i = Len(c.l.replays) THEN Len(c.l.tried) + 1 ELSE Len(c.l.tried)
    /\ succeeded => phase \in {"next", "done"} /\ verified

Typed == ControlledTypeOK /\ Playing

LEMMA LoopType ==
    ASSUME NEW r \in Loops
    PROVE  /\ r \in LoopSetting /\ r.program \in SemanticStep /\ r.tokens \in Nat /\ r.steps \in Nat
           /\ r.units \in Nat \ {0} /\ r.replays \in Nat /\ r.chain \in Seq(Object)
           /\ r.active \in {0} \cup DOMAIN r.chain /\ r.evidence \in Evidence
           /\ r.outcomes \subseteq OutcomeRecord /\ r.costs \subseteq Nat
  <1>1. r \in LoopSetting /\ r.active \in {0} \cup DOMAIN r.chain
    BY LoopsAssumption
  <1>2. r.replays \in 1 .. HistoryWindow
    BY <1>1 DEF LoopSetting
  <1>3. r.replays \in Nat
    BY <1>2 DEF HistoryWindow
  <1> QED
    BY <1>1, <1>3 DEF LoopSetting

LEMMA LedgerType ==
    ASSUME NEW l \in Ledger
    PROVE  /\ l.guards \in Seq(Guard) /\ Len(l.guards) \in Nat
           /\ DOMAIN l.guards = 1 .. Len(l.guards)
           /\ l.replays \in Seq(ReplayRecord) /\ Len(l.replays) \in Nat
           /\ DOMAIN l.replays = 1 .. Len(l.replays)
           /\ \A i \in DOMAIN l.replays : l.replays[i].tried \in Nat
           /\ l.contracts \in Seq(ContractRecord) /\ Len(l.contracts) \in Nat
           /\ l.tried \in Seq(Actions) /\ Len(l.tried) \in Nat
           /\ DOMAIN l.tried = 1 .. Len(l.tried)
           /\ l.candidates \in Seq(CandidateRecord)
           /\ l.tokens \in Nat /\ l.profile \in Profiles /\ l.object \in ObjectTypes
  <1>1. /\ l.guards \in Seq(Guard) /\ l.replays \in Seq(ReplayRecord)
        /\ l.contracts \in Seq(ContractRecord) /\ l.tried \in Seq(Actions)
        /\ l.candidates \in Seq(CandidateRecord)
        /\ l.tokens \in Nat /\ l.profile \in Profiles /\ l.object \in ObjectTypes
    BY DEF Ledger
  <1>2. /\ Len(l.guards) \in Nat /\ DOMAIN l.guards = 1 .. Len(l.guards)
        /\ Len(l.replays) \in Nat /\ DOMAIN l.replays = 1 .. Len(l.replays)
        /\ Len(l.contracts) \in Nat
        /\ Len(l.tried) \in Nat /\ DOMAIN l.tried = 1 .. Len(l.tried)
    BY <1>1, LenProperties
  <1>3. \A i \in DOMAIN l.replays : l.replays[i] \in ReplayRecord
    BY <1>1, <1>2, ElementOfSeq
  <1>4. \A i \in DOMAIN l.replays : l.replays[i].tried \in Nat
    BY <1>3 DEF ReplayRecord
  <1> QED
    BY <1>1, <1>2, <1>4

LEMMA TypedView ==
    ASSUME ControlledTypeOK
    PROVE  Positioned(c) /\ c \in View /\ c.l \in Ledger /\ loop \in Loops /\ current \in SemanticStep
  BY DEF ControlledTypeOK, Positioned, View

LEMMA StartLedgerType ==
    ASSUME NEW r \in Loops
    PROVE  /\ StartLedger(r) \in Ledger
           /\ StartLedger(r).guards = <<>> /\ StartLedger(r).replays = <<>>
           /\ StartLedger(r).contracts = <<>>
  <1> DEFINE object == IF r.active = 0 THEN "" ELSE r.chain[r.active].type
             l == StartLedger(r)
  <1>1. object \in ObjectTypes
    <2>1. CASE r.active = 0
      BY <2>1 DEF ObjectTypes
    <2>2. CASE r.active # 0
      <3>1. r.active \in DOMAIN r.chain /\ r.chain \in Seq(Object)
        BY <2>2, LoopType
      <3>2. r.chain[r.active] \in Object
        BY <3>1, LenProperties, ElementOfSeq
      <3> QED
        BY <2>2, <3>2 DEF Object
    <2> QED
      BY <2>1, <2>2
  <1> HIDE DEF object
  <1>2. /\ <<>> \in Seq(Actions) /\ <<>> \in Seq(Guard) /\ <<>> \in Seq(ReplayRecord)
        /\ <<>> \in Seq(ContractRecord) /\ <<>> \in Seq(CandidateRecord)
    BY EmptySeq
  <1>3. r.tokens \in Nat /\ r.steps \in Nat
    BY LoopType
  <1>4. l = [tokens |-> r.tokens, late |-> FALSE, steps |-> r.steps, tried |-> <<>>,
             profile |-> "normal", object |-> object,
             guards |-> <<>>, replays |-> <<>>, contracts |-> <<>>, candidates |-> <<>>,
             suggestion |-> ""]
    BY DEF StartLedger, object
  <1> HIDE DEF l
  <1>5. l \in Ledger
    BY <1>1, <1>2, <1>3, <1>4 DEF Ledger, Profiles
  <1>6. l.guards = <<>> /\ l.replays = <<>> /\ l.contracts = <<>>
    BY <1>4
  <1> QED
    BY <1>5, <1>6 DEF l

LEMMA TypedInit ==
    ASSUME ControlledInit
    PROVE  Typed
  <1>1. loop \in Loops
    BY DEF ControlledInit
  <1>2. /\ c.l = StartLedger(loop) /\ c.chain = loop.chain /\ c.active = loop.active
        /\ c = [l |-> StartLedger(loop), chain |-> loop.chain, active |-> loop.active,
                target |-> TRUE, grants |-> 0, m |-> NoMemory, e |-> loop.evidence]
    BY DEF ControlledInit
  <1>3. NoMemory \in Memory
    BY EmptySeq DEF NoMemory, Memory
  <1>4. loop.chain \in Seq(Object) /\ loop.active \in {0} \cup DOMAIN loop.chain
        /\ loop.evidence \in Evidence /\ loop.program \in SemanticStep /\ loop.units \in Nat \ {0}
    BY <1>1, LoopType
  <1>5. loop.active \in Nat
    <2>1. DOMAIN loop.chain = 1 .. Len(loop.chain)
      BY <1>4, LenProperties
    <2> QED
      BY <1>4, <2>1
  <1>6. c \in [l : Ledger, chain : Seq(Object), active : Nat, target : BOOLEAN, grants : 0 .. 1,
                m : Memory, e : Evidence]
    BY <1>1, <1>2, <1>3, <1>4, <1>5, StartLedgerType
  <1>7. /\ Len(c.l.guards) = 0 /\ Len(c.l.contracts) = 0 /\ Len(c.l.replays) = 0
        /\ DOMAIN c.l.replays = {}
    BY <1>1, <1>2, StartLedgerType, EmptySeq
  <1>8. loop.units \in Nat \ {0} => 1 \in 1 .. loop.units
    OBVIOUS
  <1>9. /\ phase = "first" /\ current \in SemanticStep /\ begun \in 1 .. loop.units
        /\ before \in BOOLEAN /\ succeeded \in BOOLEAN /\ verified \in BOOLEAN /\ ~succeeded
    BY <1>4, <1>8 DEF ControlledInit
  <1>10. ControlledTypeOK
    BY <1>1, <1>2, <1>4, <1>6, <1>7, <1>9 DEF ControlledTypeOK
  <1>11. Playing
    BY <1>7, <1>9 DEF Playing
  <1> QED
    BY <1>10, <1>11 DEF Typed

(* A step that leaves the histories of replays alone.                      *)
Quiet ==
    /\ Positioned(c') /\ DOMAIN c'.chain = DOMAIN c.chain
    /\ c'.l.guards = c.l.guards /\ c'.l.replays = c.l.replays /\ c'.l.contracts = c.l.contracts
    /\ Len(c'.l.tried) >= Len(c.l.tried)

LEMMA QuietStep ==
    ASSUME Typed, Quiet, phase # "judge", phase' \in {"step", "next", "done", "raised"},
           current' \in SemanticStep, begun' \in 1 .. loop.units, before' \in BOOLEAN,
           UNCHANGED <<loop, succeeded, verified>>, succeeded => phase' \in {"next", "done"}
    PROVE  Typed'
  <1>1. c.l \in Ledger /\ c'.l \in Ledger /\ c' \in View /\ ControlledTypeOK
    BY TypedView DEF Typed, Positioned, View, Quiet
  <1>2. Len(c.l.tried) \in Nat /\ Len(c'.l.tried) \in Nat
        /\ \A i \in DOMAIN c.l.replays : c.l.replays[i].tried \in Nat
    BY <1>1, LedgerType
  <1>3. \A i \in DOMAIN c.l.replays : c.l.replays[i].tried <= Len(c.l.tried)
    BY DEF Typed, Playing
  <1>4. \A i \in DOMAIN c'.l.replays : c'.l.replays[i].tried <= Len(c'.l.tried)
    BY <1>2, <1>3 DEF Quiet
  <1>5. Playing'
    BY <1>4 DEF Playing, Typed
  <1>6. Len(c'.l.guards) = Len(c'.l.replays) /\ Len(c'.l.guards) = Len(c'.l.contracts)
    <2>1. Len(c.l.guards) = Len(c.l.contracts) /\ Len(c.l.guards) = Len(c.l.replays) - 0
      BY <1>1 DEF ControlledTypeOK
    <2>2. Len(c.l.replays) \in Nat
      BY <1>1, LedgerType
    <2> QED
      BY <2>1, <2>2 DEF Quiet
  <1>7. Len(c'.l.guards) = Len(c'.l.replays) - 0
    <2>1. Len(c'.l.replays) \in Nat
      BY <1>1, LedgerType
    <2> QED
      BY <1>6, <2>1
  <1>8. ControlledTypeOK'
    BY <1>1, <1>6, <1>7 DEF ControlledTypeOK, Positioned, View, Quiet
  <1> QED
    BY <1>5, <1>8 DEF Typed

LEMMA QuietGrant ==
    ASSUME Typed, NEW asked, c' = [c EXCEPT !.grants = Granted(asked)]
    PROVE  Quiet /\ c'.chain = c.chain /\ c'.l = c.l
  <1>1. Positioned(c) /\ c \in View /\ c.l \in Ledger
    BY TypedView DEF Typed
  <1>2. Positioned(c')
    BY <1>1, GrantedType
  <1>3. c'.chain = c.chain /\ c'.l = c.l
    BY <1>1 DEF View
  <1>4. Len(c.l.tried) \in Nat
    BY <1>1, LedgerType
  <1> QED
    BY <1>2, <1>3, <1>4 DEF Quiet

LEMMA AskFirstStep ==
    ASSUME Typed, AskFirst
    PROVE  Typed' /\ c'.chain = c.chain /\ c'.l = c.l /\ UNCHANGED <<verified, succeeded>>
           /\ phase = "first" /\ ~succeeded
  <1>1. /\ Positioned(c) /\ c \in View /\ c.l \in Ledger /\ loop \in Loops
        /\ current \in SemanticStep /\ ControlledTypeOK
    BY TypedView DEF Typed
  <1>2. PICK asked : /\ current' = FirstUnit(<<loop.program>>, asked, c.l)[1]
                     /\ c' = [c EXCEPT !.grants = Granted(asked)]
    BY DEF AskFirst
  <1>3. current' \in SemanticStep
    <2>1. <<loop.program>> \in Programs /\ c.l.profile \in Profiles
      BY <1>1, LoopType, LedgerType, OneStep
    <2>2. FirstUnit(<<loop.program>>, asked, c.l) \in Programs
      BY <2>1, FirstUnitType
    <2> QED
      BY <1>2, <2>2 DEF Programs
  <1>4. /\ phase = "first" /\ phase' \in {"done", "step"}
        /\ UNCHANGED <<loop, left, begun, before, succeeded, verified>>
    BY DEF AskFirst
  <1>5. ~succeeded
    BY <1>4 DEF Typed, Playing
  <1>6. Quiet /\ c'.chain = c.chain /\ c'.l = c.l
    BY <1>2, QuietGrant
  <1>7. Typed'
    BY <1>1, <1>3, <1>4, <1>5, <1>6, QuietStep DEF ControlledTypeOK
  <1> QED
    BY <1>4, <1>5, <1>6, <1>7

LEMMA DecideStep ==
    ASSUME Typed, Decide
    PROVE  Typed' /\ c'.chain = c.chain /\ c'.l = c.l /\ UNCHANGED <<verified, succeeded>>
           /\ phase = "next" /\ ~succeeded
  <1>1. /\ Positioned(c) /\ c \in View /\ c.l \in Ledger /\ loop \in Loops
        /\ current \in SemanticStep /\ ControlledTypeOK
    BY TypedView DEF Typed
  <1>2. /\ phase = "next" /\ begun < loop.units /\ ~succeeded
        /\ UNCHANGED <<loop, left, before, succeeded, verified>>
    BY DEF Decide
  <1>3. PICK asked : \E d \in {NextAction(current, asked, c.l, loop)} :
          /\ c' = [c EXCEPT !.grants = Granted(asked)]
          /\ CASE d.kind = "run"   -> phase' = "step" /\ current' = d.steps[1] /\ begun' = begun + 1
               [] d.kind = "stop"  -> phase' = "done" /\ UNCHANGED <<current, begun>>
               [] d.kind = "raise" -> phase' = "raised" /\ UNCHANGED <<current, begun>>
    BY DEF Decide
  <1> DEFINE d == NextAction(current, asked, c.l, loop)
  <1>4. Decides(d)
    BY <1>1, NextActionDecides
  <1>5. /\ c' = [c EXCEPT !.grants = Granted(asked)]
        /\ CASE d.kind = "run"   -> phase' = "step" /\ current' = d.steps[1] /\ begun' = begun + 1
             [] d.kind = "stop"  -> phase' = "done" /\ UNCHANGED <<current, begun>>
             [] d.kind = "raise" -> phase' = "raised" /\ UNCHANGED <<current, begun>>
    BY <1>3
  <1> HIDE DEF d
  <1>6. /\ phase' \in {"step", "done", "raised"} /\ current' \in SemanticStep
        /\ begun' \in {begun, begun + 1}
    <2>1. CASE d.kind = "run"
      <3>1. d.steps \in Programs
        BY <1>4, <2>1 DEF Decides
      <3> QED
        BY <1>5, <2>1, <3>1 DEF Programs
    <2>2. CASE d.kind = "stop"
      <3>1. phase' = "done" /\ UNCHANGED <<current, begun>>
        BY <1>5, <2>2
      <3> QED
        BY <1>1, <3>1
    <2>3. CASE d.kind = "raise"
      <3>1. phase' = "raised" /\ UNCHANGED <<current, begun>>
        BY <1>5, <2>3
      <3> QED
        BY <1>1, <3>1
    <2> QED
      BY <1>4, <2>1, <2>2, <2>3 DEF Decides
  <1>7. begun' \in 1 .. loop.units
    <2>1. begun \in 1 .. loop.units /\ loop.units \in Nat
      BY <1>1, LoopType DEF ControlledTypeOK
    <2> QED
      BY <1>2, <1>6, <2>1
  <1>8. Quiet /\ c'.chain = c.chain /\ c'.l = c.l
    BY <1>5, QuietGrant
  <1>9. Typed'
    BY <1>1, <1>2, <1>6, <1>7, <1>8, QuietStep DEF ControlledTypeOK
  <1> QED
    BY <1>2, <1>8, <1>9

LEMMA EndLoopStep ==
    ASSUME Typed, EndLoop
    PROVE  Typed' /\ c' = c /\ UNCHANGED <<verified, succeeded>>
           /\ phase = "next" /\ phase' = "done"
  <1>1. /\ Positioned(c) /\ c \in View /\ c.l \in Ledger /\ loop \in Loops
        /\ current \in SemanticStep /\ ControlledTypeOK
    BY TypedView DEF Typed
  <1>2. /\ phase = "next" /\ phase' = "done"
        /\ UNCHANGED <<loop, current, left, begun, c, before, succeeded, verified>>
    BY DEF EndLoop
  <1>3. Len(c.l.tried) \in Nat
    BY <1>1, LedgerType
  <1>4. Quiet
    BY <1>1, <1>2, <1>3 DEF Quiet
  <1>5. Typed'
    BY <1>1, <1>2, <1>4, QuietStep DEF ControlledTypeOK
  <1> QED
    BY <1>2, <1>5

(* What a step adds.                                                       *)
Tries(chain) ==
    /\ c'.chain = chain /\ c'.l.tried = Append(c.l.tried, current.act)
    /\ c'.l.replays = c.l.replays

LEMMA OneMore ==
    ASSUME NEW l \in Ledger, NEW act \in Actions
    PROVE  Len(Append(l.tried, act)) = Len(l.tried) + 1 /\ Len(l.tried) \in Nat
  BY LedgerType, AppendProperties

LEMMA PrepareStep ==
    ASSUME Typed, Prepare
    PROVE  /\ Typed' /\ Tries(Moved("", "none")) /\ c'.l.guards = c.l.guards
           /\ UNCHANGED <<verified, succeeded>>
           /\ phase = "step" /\ phase' = "next" /\ current.act \notin Repairing
           /\ c'.l.contracts = c.l.contracts /\ c'.l.candidates = c.l.candidates
           /\ c'.l.suggestion \in {"STOP", ""} /\ c'.active = Cleared.at
  <1>1. /\ Positioned(c) /\ c \in View /\ c.l \in Ledger /\ loop \in Loops
        /\ current \in SemanticStep /\ ControlledTypeOK
    BY TypedView DEF Typed
  <1>2. /\ phase = "step" /\ ~HasReplay /\ before' = FALSE
        /\ UNCHANGED <<loop, current, left, begun, succeeded, verified>>
    BY DEF Prepare
  <1>3. PICK changed \in BOOLEAN, boosted \in BOOLEAN, excerpt \in BOOLEAN :
          LET k == [c EXCEPT
                     !.l.profile = IF boosted THEN "boosted" ELSE @,
                     !.chain = Moved("", "none"),
                     !.m = IF loop.controller = "car"
                           THEN Learn(@, current.act, "", changed, FALSE, Latest(c.l)) ELSE @,
                     !.e.excerpt = excerpt]
          IN  Finish(k, "")
    <2>1. Changes \subseteq BOOLEAN /\ (IF Boosts THEN BOOLEAN ELSE {FALSE}) \subseteq BOOLEAN
      BY DEF Changes
    <2>2. c.e.excerpt \in BOOLEAN
      BY <1>1 DEF View, Evidence
    <2>3. (IF current.act \in Rechecks THEN BOOLEAN ELSE {c.e.excerpt}) \subseteq BOOLEAN
      BY <2>2
    <2> QED
      BY <2>1, <2>3 DEF Prepare
  <1> DEFINE l == [c.l EXCEPT !.profile = IF boosted THEN "boosted" ELSE @]
             chain == Moved("", "none")
             m == IF loop.controller = "car"
                  THEN Learn(c.m, current.act, "", changed, FALSE, Latest(c.l)) ELSE c.m
             e == [c.e EXCEPT !.excerpt = excerpt]
             k == [c EXCEPT !.l = l, !.chain = chain, !.m = m, !.e = e]
  <1>4. Finish(k, "")
    BY <1>3
  <1>5. l \in Ledger /\ l.guards = c.l.guards /\ l.replays = c.l.replays
        /\ l.contracts = c.l.contracts /\ l.tried = c.l.tried /\ l.candidates = c.l.candidates
    BY <1>1 DEF Ledger, Profiles
  <1>6. chain \in Seq(Object) /\ DOMAIN chain = DOMAIN c.chain
    BY <1>1, MovedType
  <1>7. m \in Memory
    <2>1. c.m \in Memory /\ current.act \in Actions
      BY <1>1 DEF View, SemanticStep
    <2> QED
      BY <2>1, LearnType
  <1>8. e \in Evidence
    BY <1>1 DEF View, Evidence
  <1> HIDE DEF l, chain, m, e
  <1>9. k \in View /\ k.l = l /\ k.chain = chain
    BY <1>1, <1>5, <1>6, <1>7, <1>8 DEF View
  <1> HIDE DEF k
  <1>10. Keeps(k) /\ Closes(k, "") /\ phase' = "next"
    BY <1>1, <1>4, <1>6, <1>9, FinishType
  <1>11. current.act \in Actions
    BY <1>1 DEF SemanticStep
  <1>12. Tries(chain) /\ c'.l.guards = c.l.guards
    BY <1>5, <1>9, <1>10 DEF Tries, Keeps
  <1>13. Quiet
    <2>1. Len(c'.l.tried) = Len(c.l.tried) + 1 /\ Len(c.l.tried) \in Nat
      BY <1>1, <1>11, <1>12, OneMore DEF Tries
    <2>2. Len(c'.l.tried) >= Len(c.l.tried)
      BY <2>1
    <2> QED
      BY <1>5, <1>6, <1>9, <1>10, <2>2 DEF Quiet, Keeps
  <1>14. Typed'
    BY <1>1, <1>2, <1>10, <1>13, QuietStep DEF ControlledTypeOK
  <1>16. /\ c'.l.contracts = c.l.contracts /\ c'.l.candidates = c.l.candidates
         /\ c'.l.suggestion \in {"STOP", ""} /\ c'.active = Cleared.at
    BY <1>5, <1>9, <1>10 DEF Keeps, Closes
  <1>15. current.act \notin Repairing
    BY <1>1, <1>2, PrimitivesType DEF EndsInReplay
  <1> QED
    BY <1>2, <1>10, <1>12, <1>14, <1>15, <1>16 DEF chain

(* A step is cut short: by the gate of a replay, or by the time.           *)
Short == \E now \in {Cleared, [obj |-> c.l.object, at |-> c.active]} : CutShort(now)

LEMMA ShortStep ==
    ASSUME Typed, phase = "step", Short,
           UNCHANGED <<loop, current, left, begun, before, succeeded, verified>>
    PROVE  /\ Typed' /\ Tries(Moved("budget_exhausted", "none")) /\ c'.l.guards = c.l.guards
           /\ phase' = "done" /\ ~succeeded
  <1>1. /\ Positioned(c) /\ c \in View /\ c.l \in Ledger /\ loop \in Loops
        /\ current \in SemanticStep /\ ControlledTypeOK
    BY TypedView DEF Typed
  <1>2. PICK now \in {Cleared, [obj |-> c.l.object, at |-> c.active]} : CutShort(now)
    BY DEF Short
  <1>3. now = [obj |-> now.obj, at |-> now.at] /\ now.obj \in ObjectTypes
        /\ now.at \in {0} \cup DOMAIN c.chain
    <2>1. CASE now = Cleared
      <3>1. Cleared = [obj |-> Cleared.obj, at |-> Cleared.at]
        BY DEF Cleared
      <3> QED
        BY <1>1, <2>1, <3>1, ClearedType
    <2>2. CASE now = [obj |-> c.l.object, at |-> c.active]
      BY <1>1, <2>2, LedgerType DEF Positioned
    <2> QED
      BY <2>1, <2>2
  <1>4. /\ Positioned(c') /\ c'.chain = Moved("budget_exhausted", "none")
        /\ DOMAIN c'.chain = DOMAIN c.chain
        /\ c'.l.tried = Append(c.l.tried, current.act)
        /\ c'.l.guards = c.l.guards /\ c'.l.replays = c.l.replays
        /\ c'.l.contracts = c.l.contracts
        /\ phase' = "done"
    BY <1>1, <1>2, <1>3, CutShortType DEF BudgetStop
  <1>5. Len(c'.l.tried) >= Len(c.l.tried)
    <2>1. current.act \in Actions
      BY <1>1 DEF SemanticStep
    <2>2. Len(c'.l.tried) = Len(c.l.tried) + 1 /\ Len(c.l.tried) \in Nat
      BY <1>1, <1>4, <2>1, OneMore
    <2> QED
      BY <2>2
  <1>6. Quiet /\ Tries(Moved("budget_exhausted", "none"))
    BY <1>4, <1>5 DEF Quiet, Tries
  <1>7. ~succeeded
    BY DEF Typed, Playing
  <1>8. Typed'
    BY <1>1, <1>4, <1>6, <1>7, QuietStep DEF ControlledTypeOK
  <1> QED
    BY <1>4, <1>6, <1>7, <1>8

LEMMA IntendedType ==
    ASSUME NEW out \in OutcomeRecord
    PROVE  Intended(out) \in OutcomeRecord
  BY DEF Intended, OutcomeRecord

(* A replay is allowed within its number, and judged in the next step.     *)
LEMMA RunReplayStep ==
    ASSUME Typed, RunReplay
    PROVE  /\ Typed' /\ c'.chain = c.chain /\ c'.l.tried = c.l.tried /\ c'.l.guards = c.l.guards
           /\ Len(c.l.replays) < loop.replays /\ Len(c'.l.replays) = Len(c.l.replays) + 1
           /\ \A i \in 1 .. Len(c.l.replays) : c'.l.replays[i] = c.l.replays[i]
           /\ c'.l.replays[Len(c.l.replays) + 1].tried = Len(c.l.tried) + 1
           /\ c'.l.replays[Len(c.l.replays) + 1].act = current.act
           /\ c'.l.replays[Len(c.l.replays) + 1].pre = ReplayPrim.pre
           /\ c'.l.contracts = c.l.contracts /\ c'.l.candidates = c.l.candidates
           /\ c'.m = c.m /\ c'.active = c.active
           /\ UNCHANGED <<loop, current, verified, succeeded>>
           /\ phase = "step" /\ phase' = "judge"
  <1>1. /\ Positioned(c) /\ c \in View /\ c.l \in Ledger /\ loop \in Loops
        /\ current \in SemanticStep /\ ControlledTypeOK
    BY TypedView DEF Typed
  <1>2. /\ phase = "step" /\ HasReplay /\ phase' = "judge"
        /\ UNCHANGED <<loop, current, begun, before, succeeded, verified>>
        /\ ~Gated(c.l, ReplayPrim, current.act, loop, Informed(c.m))
    BY DEF RunReplay
  <1>3. left' \in OutcomeRecord
    <2>1. PICK out \in loop.outcomes : left' = Intended(out)
      BY DEF RunReplay
    <2>2. out \in OutcomeRecord
      BY <1>1, LoopType
    <2> QED
      BY <2>1, <2>2, IntendedType
  <1>4. PICK cost \in loop.costs :
          c' = [c EXCEPT
                 !.l.tokens = IF left'.broke \/ cost >= @ THEN 0 ELSE @ - cost,
                 !.l.replays = Append(@, [act |-> current.act, pre |-> ReplayPrim.pre, cost |-> cost,
                                          tried |-> Len(c.l.tried) + 1, scope |-> ReplayPrim.scope])]
    BY DEF RunReplay
  <1> DEFINE tokens == IF left'.broke \/ cost >= c.l.tokens THEN 0 ELSE c.l.tokens - cost
             entry == [act |-> current.act, pre |-> ReplayPrim.pre, cost |-> cost,
                       tried |-> Len(c.l.tried) + 1, scope |-> ReplayPrim.scope]
             replays == Append(c.l.replays, entry)
             l == [c.l EXCEPT !.tokens = tokens, !.replays = replays]
  <1>5. /\ c.l.replays \in Seq(ReplayRecord) /\ Len(c.l.replays) \in Nat /\ Len(c.l.tried) \in Nat
        /\ Len(c.l.guards) \in Nat /\ c.l.tokens \in Nat /\ cost \in Nat
    BY <1>1, LedgerType, LoopType
  <1>6. tokens \in Nat
    <2>1. CASE left'.broke \/ cost >= c.l.tokens
      BY <2>1
    <2>2. CASE ~(left'.broke \/ cost >= c.l.tokens)
      <3>1. tokens = c.l.tokens - cost /\ ~(cost >= c.l.tokens)
        BY <2>2
      <3> QED
        BY <1>5, <3>1
    <2> QED
      BY <2>1, <2>2
  <1>7. /\ entry \in ReplayRecord /\ entry.tried = Len(c.l.tried) + 1
        /\ entry.act = current.act /\ entry.pre = ReplayPrim.pre
    <2>1. ReplayPrim \in PrimRecord
      BY <1>1, <1>2, PrimitivesType
    <2>2. ReplayPrim.pre \in Preconditions /\ ReplayPrim.scope \in Scopes
      BY <2>1 DEF PrimRecord
    <2>3. current.act \in Actions
      BY <1>1 DEF SemanticStep
    <2> QED
      BY <1>5, <2>2, <2>3 DEF ReplayRecord
  <1>8. c' = [c EXCEPT !.l = l]
    BY <1>4
  <1> HIDE DEF tokens, entry
  <1>9. /\ replays \in Seq(ReplayRecord) /\ Len(replays) = Len(c.l.replays) + 1
        /\ \A i \in 1 .. Len(c.l.replays) : replays[i] = c.l.replays[i]
        /\ replays[Len(c.l.replays) + 1] = entry
    BY <1>5, <1>7, AppendProperties
  <1> HIDE DEF replays
  <1>10. l \in Ledger /\ l.guards = c.l.guards /\ l.replays = replays
         /\ l.contracts = c.l.contracts /\ l.tried = c.l.tried /\ l.profile = c.l.profile
         /\ l.candidates = c.l.candidates
    BY <1>1, <1>6, <1>9 DEF Ledger
  <1> HIDE DEF l
  <1>11. c' \in View /\ c'.l = l /\ c'.chain = c.chain /\ c'.active = c.active /\ c'.m = c.m
    BY <1>1, <1>8, <1>10 DEF View
  <1>12. HasReplay'
    <2>1. Compiled' = Compiled
      BY <1>2, <1>10, <1>11 DEF Compiled
    <2> QED
      BY <1>2, <2>1 DEF HasReplay
  <1>13. Len(c.l.replays) < loop.replays
    <2>1. ReplayPrim.op = "CONSTRAINED_REPLAY"
      BY <1>2 DEF HasReplay, ReplayPrim, IsReplay
    <2>2. ~(Len(c.l.replays) >= loop.replays) /\ loop.replays \in Nat
      BY <1>1, <1>2, <2>1, LoopType DEF Gated, Refused
    <2> QED
      BY <1>5, <2>2
  <1>14. Len(c.l.guards) = Len(c.l.contracts) /\ Len(c.l.guards) = Len(replays) - 1
    <2>1. Len(c.l.guards) = Len(c.l.contracts) /\ Len(c.l.guards) = Len(c.l.replays) - 0
      BY <1>1, <1>2 DEF ControlledTypeOK
    <2> QED
      BY <1>5, <1>9, <2>1
  <1>15. ControlledTypeOK'
    BY <1>1, <1>2, <1>3, <1>10, <1>11, <1>14 DEF ControlledTypeOK, Positioned, View
  <1>16. \A i \in DOMAIN replays :
           replays[i].tried <= IF i = Len(replays) THEN Len(c.l.tried) + 1 ELSE Len(c.l.tried)
    <2>1. DOMAIN replays = 1 .. Len(c.l.replays) + 1 /\ DOMAIN c.l.replays = 1 .. Len(c.l.replays)
      BY <1>5, <1>9, LenProperties
    <2>2. \A i \in DOMAIN c.l.replays : c.l.replays[i].tried <= Len(c.l.tried)
      BY <1>2 DEF Typed, Playing
    <2>3. ASSUME NEW i \in DOMAIN replays, i # Len(replays)
          PROVE  replays[i].tried <= Len(c.l.tried)
      <3>1. i \in 1 .. Len(c.l.replays)
        BY <1>5, <1>9, <2>1, <2>3
      <3> QED
        BY <1>9, <2>1, <2>2, <3>1
    <2>4. replays[Len(replays)].tried <= Len(c.l.tried) + 1
      BY <1>5, <1>7, <1>9
    <2> QED
      BY <2>3, <2>4
  <1>17. Playing'
    <2>1. ~succeeded
      BY <1>2 DEF Typed, Playing
    <2> QED
      BY <1>2, <1>10, <1>11, <1>12, <1>16, <2>1 DEF Playing
  <1> QED
    BY <1>2, <1>7, <1>9, <1>10, <1>11, <1>13, <1>15, <1>17 DEF Typed

LEMMA VerdictType ==
    ASSUME left \in OutcomeRecord, NEW g \in Verdicts
    PROVE  g \in Guard /\ (g.mode = "strong_source_success" => left.passed)
  <1> DEFINE built == BuildGuard(left, Cleared.obj)
  <1>1. built \in Guard /\ (~left.passed => built.mode # "strong_source_success")
    BY BuildGuardType
  <1> HIDE DEF built
  <1>2. CASE ProbeWorthIt(built)
    <2>1. PICK passes \in BOOLEAN : g = Probed(built, passes)
      BY <1>2 DEF Verdicts, built
    <2> QED
      BY <1>1, <1>2, <2>1, ProbedType
  <1>3. CASE ~ProbeWorthIt(built)
    <2>1. g = built
      BY <1>3 DEF Verdicts, built
    <2> QED
      BY <1>1, <2>1
  <1> QED
    BY <1>2, <1>3

LEMMA EpisodesType ==
    ASSUME c \in View, current \in SemanticStep, NEW g \in Guard, NEW cost
    PROVE  Episodes(c.m, g, cost) \in Memory
  <1> DEFINE known == IF before THEN Latest(c.l) ELSE g
             changed == g.edit # "none"
             costly == 10 * cost >= 3 * loop.tokens
             once == Learn(c.m, current.act, g.mode, changed, costly, known)
             twice == Learn(once, current.act, g.mode, TRUE, costly, known)
  <1>1. c.m \in Memory /\ current.act \in Actions /\ g.mode \in ResultModes
    BY DEF View, SemanticStep, Guard
  <1>2. changed \in BOOLEAN /\ costly \in BOOLEAN
    OBVIOUS
  <1> HIDE DEF changed, costly, known
  <1>3. once \in Memory
    BY <1>1, <1>2, LearnType
  <1> HIDE DEF once
  <1>4. twice \in Memory
    BY <1>1, <1>2, <1>3, LearnType
  <1>5. Episodes(c.m, g, cost) \in {c.m, once, twice}
    BY DEF Episodes, once, changed, costly, known
  <1> QED
    BY <1>1, <1>3, <1>4, <1>5

(* What a verdict g leaves: a guard, a contract and perhaps a candidate.   *)
Judgement(g, saved) ==
    /\ c'.l.guards = Append(c.l.guards, g)
    /\ c'.l.contracts = Append(c.l.contracts, Contract(c.l, ReplayPrim, current.act, g, loop.controller))
    /\ c'.l.candidates = Remember(c.l.candidates, g, saved)
    /\ c'.l.suggestion \in {"STOP", g.suggestion}
    /\ c'.m = Episodes(c.m, g, Last(c.l.replays).cost) /\ c'.active = Cleared.at
    /\ Tries(Moved(g.mode, g.edit))

(* The verdict on a replay: one more guard, and a success that is earned.  *)
LEMMA JudgeReplayStep ==
    ASSUME Typed, JudgeReplay
    PROVE  /\ Typed'
           /\ \E g \in Guard : Tries(Moved(g.mode, g.edit)) /\ c'.l.guards = Append(c.l.guards, g)
           /\ \E g \in Verdicts, saved \in BOOLEAN : g \in Guard /\ Judgement(g, saved)
           /\ UNCHANGED <<loop, current>> /\ verified' \in BOOLEAN
           /\ phase = "judge" /\ phase' = "next"
  <1>1. /\ Positioned(c) /\ c \in View /\ c.l \in Ledger /\ loop \in Loops
        /\ current \in SemanticStep /\ ControlledTypeOK
    BY TypedView DEF Typed
  <1>2. /\ phase = "judge" /\ verified' = left.passed /\ before' = TRUE
        /\ UNCHANGED <<loop, current, left, begun>>
    BY DEF JudgeReplay
  <1>3. left \in OutcomeRecord /\ HasReplay
    BY <1>1, <1>2 DEF ControlledTypeOK, Typed, Playing
  <1>4. PICK g \in Verdicts, boosted \in IF Boosts THEN BOOLEAN ELSE {FALSE}, excerpt \in BOOLEAN :
        \E saved \in IF Rememberable(g) THEN BOOLEAN ELSE {FALSE} :
         LET k == [c EXCEPT
                     !.l.profile = IF boosted THEN "boosted" ELSE @,
                     !.l.guards = Append(@, g),
                     !.l.contracts = Append(@, Contract(c.l, ReplayPrim, current.act, g, loop.controller)),
                     !.l.candidates = Remember(@, g, saved),
                     !.chain = Moved(g.mode, g.edit),
                     !.m = Episodes(@, g, Last(c.l.replays).cost),
                     !.e.unapplied = FALSE, !.e.barren = FALSE, !.e.excerpt = excerpt]
         IN  Finish(k, g.suggestion) /\ succeeded' = (g.mode = "strong_source_success")
    BY DEF JudgeReplay
  <1>5. PICK saved \in IF Rememberable(g) THEN BOOLEAN ELSE {FALSE} :
         LET k == [c EXCEPT
                     !.l.profile = IF boosted THEN "boosted" ELSE @,
                     !.l.guards = Append(@, g),
                     !.l.contracts = Append(@, Contract(c.l, ReplayPrim, current.act, g, loop.controller)),
                     !.l.candidates = Remember(@, g, saved),
                     !.chain = Moved(g.mode, g.edit),
                     !.m = Episodes(@, g, Last(c.l.replays).cost),
                     !.e.unapplied = FALSE, !.e.barren = FALSE, !.e.excerpt = excerpt]
         IN  Finish(k, g.suggestion) /\ succeeded' = (g.mode = "strong_source_success")
    BY <1>4
  <1> DEFINE contract == Contract(c.l, ReplayPrim, current.act, g, loop.controller)
             profile == IF boosted THEN "boosted" ELSE c.l.profile
             guards == Append(c.l.guards, g)
             contracts == Append(c.l.contracts, contract)
             candidates == Remember(c.l.candidates, g, saved)
             l == [c.l EXCEPT !.profile = profile, !.guards = guards, !.contracts = contracts,
                              !.candidates = candidates]
             chain == Moved(g.mode, g.edit)
             m == Episodes(c.m, g, Last(c.l.replays).cost)
             e == [c.e EXCEPT !.unapplied = FALSE, !.barren = FALSE, !.excerpt = excerpt]
             k == [c EXCEPT !.l = l, !.chain = chain, !.m = m, !.e = e]
  <1>6. Finish(k, g.suggestion)
    BY <1>5, ZenonT(60)
  <1>26. succeeded' = (g.mode = "strong_source_success")
    BY <1>5
  <1>7. /\ g \in Guard /\ (g.mode = "strong_source_success" => left.passed)
        /\ g.suggestion \in Suggestions \cup {""}
    <2>1. g \in Guard /\ (g.mode = "strong_source_success" => left.passed)
      BY <1>3, VerdictType
    <2> QED
      BY <2>1 DEF Guard
  <1>8. contract \in ContractRecord
    <2>1. ReplayPrim \in PrimRecord /\ current.act \in Actions
      BY <1>1, <1>3, PrimitivesType DEF SemanticStep
    <2> QED
      BY <1>1, <1>7, <2>1, ContractType
  <1>9. profile \in Profiles
    BY <1>1, LedgerType DEF Profiles
  <1>10. saved \in BOOLEAN
    OBVIOUS
  <1>11. candidates \in Seq(CandidateRecord)
    BY <1>1, <1>7, <1>10, LedgerType, RememberType
  <1> HIDE DEF contract, profile, candidates
  <1>12. /\ Len(c.l.guards) \in Nat /\ Len(c.l.contracts) \in Nat
         /\ c.l.guards \in Seq(Guard) /\ c.l.contracts \in Seq(ContractRecord)
         /\ Len(c.l.replays) \in Nat /\ DOMAIN c.l.replays = 1 .. Len(c.l.replays)
         /\ Len(c.l.tried) \in Nat
         /\ \A i \in DOMAIN c.l.replays : c.l.replays[i].tried \in Nat
    BY <1>1, LedgerType
  <1>13. /\ guards \in Seq(Guard) /\ Len(guards) = Len(c.l.guards) + 1
         /\ contracts \in Seq(ContractRecord) /\ Len(contracts) = Len(c.l.contracts) + 1
    <2>1. guards \in Seq(Guard) /\ Len(guards) = Len(c.l.guards) + 1
      <3>1. g \in Guard /\ c.l.guards \in Seq(Guard)
        BY <1>7, <1>12
      <3> QED
        BY <3>1, AppendProperties
    <2>2. contracts \in Seq(ContractRecord) /\ Len(contracts) = Len(c.l.contracts) + 1
      BY <1>8, <1>12, AppendProperties
    <2> QED
      BY <2>1, <2>2
  <1> HIDE DEF guards, contracts
  <1>14. l \in Ledger /\ l.guards = guards /\ l.replays = c.l.replays
         /\ l.contracts = contracts /\ l.tried = c.l.tried /\ l.candidates = candidates
    BY <1>1, <1>9, <1>11, <1>13 DEF Ledger
  <1>15. chain \in Seq(Object) /\ DOMAIN chain = DOMAIN c.chain
    BY <1>1, MovedType
  <1>16. m \in Memory
    BY <1>1, <1>7, EpisodesType
  <1>17. e \in Evidence
    BY <1>1 DEF View, Evidence
  <1> HIDE DEF l, chain, m, e
  <1>18. k \in View /\ k.l = l /\ k.chain = chain /\ k.m = m
    BY <1>1, <1>14, <1>15, <1>16, <1>17 DEF View
  <1> HIDE DEF k
  <1>19. Keeps(k) /\ Closes(k, g.suggestion) /\ phase' = "next"
    BY <1>1, <1>6, <1>7, <1>15, <1>18, FinishType
  <1>20. Tries(chain) /\ c'.l.guards = guards /\ c'.l.contracts = contracts
    BY <1>14, <1>18, <1>19 DEF Tries, Keeps
  <1>27. Judgement(g, saved)
    <2>1. /\ c'.l.candidates = candidates /\ c'.l.suggestion \in {"STOP", g.suggestion}
          /\ c'.m = m /\ c'.active = Cleared.at
      BY <1>14, <1>18, <1>19 DEF Closes
    <2> QED
      BY <1>20, <2>1 DEF Judgement, guards, contracts, contract, candidates, chain, m
  <1>21. Len(guards) = Len(contracts) /\ Len(guards) = Len(c.l.replays) - 0
    <2>1. Len(c.l.guards) = Len(c.l.contracts) /\ Len(c.l.guards) = Len(c.l.replays) - 1
      BY <1>1, <1>2 DEF ControlledTypeOK
    <2> QED
      BY <1>12, <1>13, <2>1
  <1>22. left.passed \in BOOLEAN /\ succeeded' \in BOOLEAN
    <2>1. left.passed \in BOOLEAN
      BY <1>3 DEF OutcomeRecord
    <2>2. succeeded' \in BOOLEAN
      BY <1>26
    <2> QED
      BY <2>1, <2>2
  <1>23. DOMAIN c'.chain = DOMAIN loop.chain /\ Positioned(c')
    BY <1>1, <1>15, <1>18, <1>19 DEF Keeps, ControlledTypeOK
  <1>24. ControlledTypeOK'
    BY <1>1, <1>2, <1>19, <1>20, <1>21, <1>22, <1>23
       DEF ControlledTypeOK, Positioned, View, Tries
  <1>25. Playing'
    <2>1. Len(c'.l.tried) = Len(c.l.tried) + 1
      <3>1. current.act \in Actions
        BY <1>1 DEF SemanticStep
      <3> QED
        BY <1>1, <1>20, <3>1, OneMore DEF Tries
    <2>2. \A i \in DOMAIN c.l.replays : c.l.replays[i].tried <= Len(c.l.tried) + 1
      <3>1. \A i \in DOMAIN c.l.replays :
              c.l.replays[i].tried <= IF i = Len(c.l.replays) THEN Len(c.l.tried) + 1
                                                              ELSE Len(c.l.tried)
        BY <1>2 DEF Typed, Playing
      <3> QED
        BY <1>12, <3>1
    <2>3. succeeded' => verified'
      BY <1>2, <1>7, <1>26
    <2> QED
      BY <1>19, <1>20, <2>1, <2>2, <2>3 DEF Playing, Tries
  <1> QED
    BY <1>2, <1>7, <1>10, <1>19, <1>20, <1>22, <1>24, <1>25, <1>27 DEF Typed, chain, guards

LEMMA RefuseReplayStep ==
    ASSUME Typed, RefuseReplay
    PROVE  /\ Typed' /\ Tries(Moved("budget_exhausted", "none")) /\ c'.l.guards = c.l.guards
           /\ UNCHANGED <<loop, verified, succeeded>>
           /\ phase = "step" /\ phase' = "done" /\ ~succeeded
  <1>1. /\ phase = "step"
        /\ UNCHANGED <<loop, current, left, begun, before, succeeded, verified>>
    BY DEF RefuseReplay
  <1>2. Short
    BY DEF RefuseReplay, Short
  <1> QED
    BY <1>1, <1>2, ShortStep

(* The time is up before a unit: nothing else happens.                     *)
LEMMA RunOutStep ==
    ASSUME Typed, RunOut, phase # "step"
    PROVE  /\ Typed' /\ c' = c /\ UNCHANGED <<loop, verified, succeeded>>
           /\ phase \in {"first", "next"} /\ phase' = "done"
  <1>1. /\ Positioned(c) /\ c \in View /\ c.l \in Ledger /\ loop \in Loops
        /\ current \in SemanticStep /\ ControlledTypeOK
    BY TypedView DEF Typed
  <1>2. /\ phase \in {"first", "next"} /\ phase' = "done" /\ c' = c
        /\ UNCHANGED <<loop, current, left, begun, before, succeeded, verified>>
    BY DEF RunOut
  <1>3. Len(c.l.tried) \in Nat
    BY <1>1, LedgerType
  <1>4. Quiet
    BY <1>1, <1>2, <1>3 DEF Quiet
  <1>5. Typed'
    BY <1>1, <1>2, <1>4, QuietStep DEF ControlledTypeOK
  <1> QED
    BY <1>2, <1>5

LEMMA RunOutShort ==
    ASSUME Typed, RunOut, phase = "step"
    PROVE  /\ Typed' /\ Tries(Moved("budget_exhausted", "none")) /\ c'.l.guards = c.l.guards
           /\ UNCHANGED <<loop, verified, succeeded>>
           /\ phase' = "done" /\ ~succeeded
  <1>1. /\ Short
        /\ UNCHANGED <<loop, current, left, begun, before, succeeded, verified>>
    BY DEF RunOut, Short
  <1> QED
    BY <1>1, ShortStep

LEMMA ControlledStill ==
    ASSUME Typed, UNCHANGED controlledVars
    PROVE  Typed'
  <1>1. c' = c /\ UNCHANGED <<loop, phase, current, left, begun, before, succeeded, verified>>
    BY DEF controlledVars
  <1> QED
    BY <1>1 DEF Typed, ControlledTypeOK, Playing, HasReplay, Compiled

LEMMA TypedNext ==
    ASSUME Typed, [ControlledNext]_controlledVars
    PROVE  Typed'
  <1>1. CASE AskFirst
    BY <1>1, AskFirstStep
  <1>2. CASE Decide
    BY <1>2, DecideStep
  <1>3. CASE EndLoop
    BY <1>3, EndLoopStep
  <1>4. CASE Prepare
    BY <1>4, PrepareStep
  <1>5. CASE RefuseReplay
    BY <1>5, RefuseReplayStep
  <1>6. CASE RunReplay
    BY <1>6, RunReplayStep
  <1>7. CASE JudgeReplay
    BY <1>7, JudgeReplayStep
  <1>8. CASE RunOut
    BY <1>8, RunOutStep, RunOutShort
  <1>9. CASE UNCHANGED controlledVars
    BY <1>9, ControlledStill
  <1> QED
    BY <1>1, <1>2, <1>3, <1>4, <1>5, <1>6, <1>7, <1>8, <1>9 DEF ControlledNext, Progress

(* In a controlled loop every variable keeps its values: the controllers   *)
(* answer with actions the executor can compile, the chain keeps its       *)
(* objects, and a judged replay leaves one guard and one contract, for     *)
(* every set-up of execute_semantic and everything a replay may leave.     *)
THEOREM ControlledTypes == ControlledSpec => []ControlledTypeOK
  <1>1. ControlledInit => Typed
    BY TypedInit
  <1>2. Typed /\ [ControlledNext]_controlledVars => Typed'
    BY TypedNext
  <1>3. Typed => ControlledTypeOK
    BY DEF Typed
  <1> QED
    BY <1>1, <1>2, <1>3, PTL DEF ControlledSpec

(***************************************************************************)
(* The promise of RecoveryLoop.  A step that is no replay and no verdict:  *)
(* the promise sees an end, or nothing.                                    *)
(***************************************************************************)
LEMMA PromiseUnseen ==
    ASSUME Typed, c'.l.replays = c.l.replays, UNCHANGED <<loop, verified, succeeded>>,
           phase \notin {"done", "raised"}
    PROVE  [Promise!LoopNext]_(Promise!loopVars)
  <1>1. succeeded \in BOOLEAN /\ verified \in BOOLEAN /\ (succeeded => verified)
    BY DEF Typed, Playing, ControlledTypeOK
  <1>2. CASE phase' \in {"done", "raised"}
    <2>1. (phase' = "done" /\ succeeded') \in {FALSE, verified}
      <3>1. succeeded' = succeeded
        OBVIOUS
      <3>2. CASE phase' = "done" /\ succeeded'
        BY <1>1, <3>1, <3>2
      <3>3. CASE ~(phase' = "done" /\ succeeded')
        BY <3>3
      <3> QED
        BY <3>2, <3>3
    <2>2. Promise!End
      BY <1>2, <2>1 DEF Promise!End
    <2> QED
      BY <2>2 DEF Promise!LoopNext
  <1>3. CASE phase' \notin {"done", "raised"}
    <2>1. UNCHANGED Promise!loopVars
      BY <1>3 DEF Promise!loopVars
    <2> QED
      BY <2>1
  <1> QED
    BY <1>2, <1>3

LEMMA PromiseStep ==
    ASSUME Typed, [ControlledNext]_controlledVars
    PROVE  [Promise!LoopNext]_(Promise!loopVars)
  <1>1. CASE AskFirst
    <2>1. /\ c'.l = c.l /\ UNCHANGED <<verified, succeeded>> /\ phase = "first"
      BY <1>1, AskFirstStep
    <2>2. loop' = loop
      BY <1>1 DEF AskFirst
    <2> QED
      BY <2>1, <2>2, PromiseUnseen
  <1>2. CASE Decide
    <2>1. /\ c'.l = c.l /\ UNCHANGED <<verified, succeeded>> /\ phase = "next"
      BY <1>2, DecideStep
    <2>2. loop' = loop
      BY <1>2 DEF Decide
    <2> QED
      BY <2>1, <2>2, PromiseUnseen
  <1>3. CASE EndLoop
    <2>1. /\ c' = c /\ UNCHANGED <<loop, verified, succeeded>> /\ phase = "next"
      BY <1>3 DEF EndLoop
    <2> QED
      BY <2>1, PromiseUnseen
  <1>4. CASE Prepare
    <2>1. c'.l.replays = c.l.replays /\ UNCHANGED <<verified, succeeded>> /\ phase = "step"
      BY <1>4, PrepareStep DEF Tries
    <2>2. loop' = loop
      BY <1>4 DEF Prepare
    <2> QED
      BY <2>1, <2>2, PromiseUnseen
  <1>5. CASE RefuseReplay
    <2>1. c'.l.replays = c.l.replays /\ UNCHANGED <<loop, verified, succeeded>> /\ phase = "step"
      BY <1>5, RefuseReplayStep DEF Tries
    <2> QED
      BY <2>1, PromiseUnseen
  <1>6. CASE RunReplay
    <2>1. /\ Len(c.l.replays) < loop.replays /\ Len(c'.l.replays) = Len(c.l.replays) + 1
          /\ UNCHANGED <<loop, verified, succeeded>> /\ phase = "step" /\ phase' = "judge"
      BY <1>6, RunReplayStep
    <2>2. Promise!Recover
      BY <2>1 DEF Promise!Recover
    <2> QED
      BY <2>2 DEF Promise!LoopNext
  <1>7. CASE JudgeReplay
    <2>1. /\ loop' = loop /\ verified' \in BOOLEAN /\ phase = "judge" /\ phase' = "next"
          /\ c'.l.replays = c.l.replays
      BY <1>7, JudgeReplayStep DEF Tries
    <2>2. Promise!Verify
      BY <2>1 DEF Promise!Verify
    <2> QED
      BY <2>2 DEF Promise!LoopNext
  <1>8. CASE RunOut
    <2>1. CASE phase = "step"
      <3>1. c'.l.replays = c.l.replays /\ UNCHANGED <<loop, verified, succeeded>>
        BY <1>8, <2>1, RunOutShort DEF Tries
      <3> QED
        BY <2>1, <3>1, PromiseUnseen
    <2>2. CASE phase # "step"
      <3>1. c' = c /\ UNCHANGED <<loop, verified, succeeded>> /\ phase \in {"first", "next"}
        BY <1>8, <2>2, RunOutStep
      <3> QED
        BY <3>1, PromiseUnseen
    <2> QED
      BY <2>1, <2>2
  <1>9. CASE UNCHANGED controlledVars
    BY <1>9 DEF controlledVars, Promise!loopVars
  <1> QED
    BY <1>1, <1>2, <1>3, <1>4, <1>5, <1>6, <1>7, <1>8, <1>9 DEF ControlledNext, Progress

(* Whichever controller drives it, execute_semantic takes only the steps   *)
(* of RecoveryLoop: replays within their number, a verdict after each, one *)
(* end, and a success only after a pass.                                   *)
THEOREM ControlledRefinesLoop ==
    ControlledSpec => Promise!LoopInit /\ [][Promise!LoopNext]_(Promise!loopVars)
  <1>1. ControlledInit => Promise!LoopInit
    <2> SUFFICES ASSUME ControlledInit
                 PROVE  Promise!LoopInit
      OBVIOUS
    <2>1. c.l = StartLedger(loop) /\ loop \in Loops /\ phase = "first" /\ verified = FALSE
      BY DEF ControlledInit
    <2>2. Len(c.l.replays) = 0 /\ loop.replays \in Nat
      BY <2>1, StartLedgerType, LoopType, EmptySeq
    <2> QED
      BY <2>1, <2>2 DEF Promise!LoopInit
  <1>2. ControlledInit => Typed
    BY TypedInit
  <1>3. Typed /\ [ControlledNext]_controlledVars => Typed' /\ [Promise!LoopNext]_(Promise!loopVars)
    BY TypedNext, PromiseStep
  <1> QED
    BY <1>1, <1>2, <1>3, PTL DEF ControlledSpec

(***************************************************************************)
(* Objects follow replays.  What counts against the objects grows with the *)
(* replays of the ledger.                                                  *)
(***************************************************************************)
LEMMA CardinalityGrows ==
    ASSUME NEW S, NEW T, IsFiniteSet(T), S \subseteq T
    PROVE  /\ IsFiniteSet(S) /\ Cardinality(S) \in Nat /\ Cardinality(T) \in Nat
           /\ Cardinality(S) <= Cardinality(T)
           /\ S # T => Cardinality(S) + 1 <= Cardinality(T)
  <1>1. IsFiniteSet(S) /\ Cardinality(S) <= Cardinality(T)
    BY FS_Subset
  <1>2. Cardinality(S) \in Nat /\ Cardinality(T) \in Nat
    BY <1>1, FS_CardinalityType
  <1>3. ASSUME NEW x \in T \ S
        PROVE  Cardinality(S) + 1 <= Cardinality(T)
    <2>1. Cardinality(S \cup {x}) = Cardinality(S) + 1
      BY <1>1, <1>3, FS_AddElement
    <2>2. S \cup {x} \subseteq T
      BY <1>3
    <2>3. Cardinality(S \cup {x}) <= Cardinality(T)
      BY <2>2, FS_Subset
    <2> QED
      BY <2>1, <2>3
  <1> QED
    BY <1>1, <1>2, <1>3

(* The replays of a ledger that count against the objects.                 *)
VainIn(l) ==
    {k \in DOMAIN l.guards : l.guards[k].mode \notin ResolvingModes \/ l.guards[k].edit = "none"}
RefusedIn(l) ==
    {k \in DOMAIN l.tried : /\ l.tried[k] \in Repairing
                            /\ \A i \in DOMAIN l.replays : l.replays[i].tried # k}
Spent(l) == Cardinality(VainIn(l)) + Cardinality(RefusedIn(l))

LEMMA SpentType ==
    ASSUME NEW l \in Ledger
    PROVE  IsFiniteSet(VainIn(l)) /\ IsFiniteSet(RefusedIn(l)) /\ Spent(l) \in Nat
  <1>1. /\ VainIn(l) \subseteq 1 .. Len(l.guards) /\ Len(l.guards) \in Nat
        /\ RefusedIn(l) \subseteq 1 .. Len(l.tried) /\ Len(l.tried) \in Nat
    BY LedgerType DEF VainIn, RefusedIn
  <1>2. IsFiniteSet(1 .. Len(l.guards)) /\ IsFiniteSet(1 .. Len(l.tried))
    <2>1. 1 \in Int /\ Len(l.guards) \in Int /\ Len(l.tried) \in Int
      BY <1>1
    <2> QED
      BY <2>1, FS_Interval
  <1>3. IsFiniteSet(VainIn(l)) /\ Cardinality(VainIn(l)) \in Nat
    BY <1>1, <1>2, CardinalityGrows
  <1>4. IsFiniteSet(RefusedIn(l)) /\ Cardinality(RefusedIn(l)) \in Nat
    BY <1>1, <1>2, CardinalityGrows
  <1> QED
    BY <1>3, <1>4 DEF Spent

LEMMA SpentGrows ==
    ASSUME NEW l \in Ledger, NEW l2 \in Ledger,
           VainIn(l) \subseteq VainIn(l2), RefusedIn(l) \subseteq RefusedIn(l2)
    PROVE  /\ Spent(l) \in Nat /\ Spent(l2) \in Nat /\ Spent(l) <= Spent(l2)
           /\ VainIn(l) # VainIn(l2) \/ RefusedIn(l) # RefusedIn(l2) => Spent(l) + 1 <= Spent(l2)
  <1>1. /\ IsFiniteSet(VainIn(l2)) /\ IsFiniteSet(RefusedIn(l2))
        /\ Spent(l) \in Nat /\ Spent(l2) \in Nat
    BY SpentType
  <1>2. /\ Cardinality(VainIn(l)) \in Nat /\ Cardinality(VainIn(l2)) \in Nat
        /\ Cardinality(VainIn(l)) <= Cardinality(VainIn(l2))
        /\ VainIn(l) # VainIn(l2) => Cardinality(VainIn(l)) + 1 <= Cardinality(VainIn(l2))
    BY <1>1, CardinalityGrows
  <1>3. /\ Cardinality(RefusedIn(l)) \in Nat /\ Cardinality(RefusedIn(l2)) \in Nat
        /\ Cardinality(RefusedIn(l)) <= Cardinality(RefusedIn(l2))
        /\ RefusedIn(l) # RefusedIn(l2) => Cardinality(RefusedIn(l)) + 1 <= Cardinality(RefusedIn(l2))
    BY <1>1, CardinalityGrows
  <1> QED
    BY <1>1, <1>2, <1>3 DEF Spent

(* A replay passed after it changed files.                                 *)
Resolves(g) == g.mode \in ResolvingModes /\ g.edit # "none"
(* An object owes its state to the replays of the loop.                    *)
Backed ==
    \A i \in DOMAIN c.chain :
        /\ c.chain[i].unproductive <= Spent(c.l)
        /\ c.chain[i].state # loop.chain[i].state =>
              /\ c.chain[i].state = "resolved" => \E k \in DOMAIN c.l.guards : Resolves(c.l.guards[k])
              /\ c.chain[i].state = "exhausted" => Spent(c.l) >= 2

(* What keeps it: a step that moves an object as the table of transitions  *)
(* does, and leaves the replay it moved it for.                            *)
LEMMA BackedStep ==
    ASSUME Typed, Typed', Backed, loop' = loop, NEW act, NEW mode, NEW edit,
           DOMAIN c'.chain = DOMAIN c.chain,
           \A i \in DOMAIN c.chain : Moves(c.chain[i], c'.chain[i], act, mode, edit),
           VainIn(c.l) \subseteq VainIn(c'.l), RefusedIn(c.l) \subseteq RefusedIn(c'.l),
           act \in Repairing /\ (edit = "none" \/ mode \notin ResolvingModes) =>
               VainIn(c.l) # VainIn(c'.l) \/ RefusedIn(c.l) # RefusedIn(c'.l),
           (edit # "none" /\ mode \in ResolvingModes) \/ (\E k \in DOMAIN c.l.guards : Resolves(c.l.guards[k]))
              => \E k \in DOMAIN c'.l.guards : Resolves(c'.l.guards[k])
    PROVE  Backed'
  <1>1. c \in View /\ c' \in View /\ c.l \in Ledger /\ c'.l \in Ledger
    BY TypedView DEF Typed, ControlledTypeOK, View
  <1>2. /\ Spent(c.l) \in Nat /\ Spent(c'.l) \in Nat /\ Spent(c.l) <= Spent(c'.l)
        /\ act \in Repairing /\ (edit = "none" \/ mode \notin ResolvingModes)
              => Spent(c.l) + 1 <= Spent(c'.l)
    BY <1>1, SpentGrows
  <1> SUFFICES ASSUME NEW i \in DOMAIN c.chain
               PROVE  /\ c'.chain[i].unproductive <= Spent(c'.l)
                      /\ c'.chain[i].state # loop.chain[i].state =>
                           /\ c'.chain[i].state = "resolved" =>
                                 \E k \in DOMAIN c'.l.guards : Resolves(c'.l.guards[k])
                           /\ c'.chain[i].state = "exhausted" => Spent(c'.l) >= 2
    BY DEF Backed
  <1> DEFINE obj == c.chain[i]
             new == c'.chain[i]
  <1>3. obj \in Object /\ obj.unproductive \in Nat
    <2>1. obj \in Object
      BY <1>1, ChainType
    <2> QED
      BY <2>1 DEF Object
  <1>4. Moves(obj, new, act, mode, edit)
    OBVIOUS
  <1>5. new \in Object /\ new.unproductive \in Nat
    BY <1>4 DEF Moves, Object
  <1>6. /\ obj.unproductive <= Spent(c.l)
        /\ obj.state # loop.chain[i].state =>
              /\ obj.state = "resolved" => \E k \in DOMAIN c.l.guards : Resolves(c.l.guards[k])
              /\ obj.state = "exhausted" => Spent(c.l) >= 2
    BY DEF Backed
  <1> HIDE DEF obj, new
  <1>7. new.unproductive <= Spent(c'.l)
    <2>1. CASE new.unproductive > obj.unproductive
      BY <1>2, <1>3, <1>4, <1>6, <2>1 DEF Moves
    <2>2. CASE ~(new.unproductive > obj.unproductive)
      BY <1>2, <1>3, <1>5, <1>6, <2>2
    <2> QED
      BY <2>1, <2>2
  <1>8. ASSUME new.state # loop.chain[i].state, new.state = "resolved"
        PROVE  \E k \in DOMAIN c'.l.guards : Resolves(c'.l.guards[k])
    BY <1>4, <1>6, <1>8 DEF Moves
  <1>9. ASSUME new.state # loop.chain[i].state, new.state = "exhausted"
        PROVE  Spent(c'.l) >= 2
    <2>1. CASE new.state = obj.state
      BY <1>2, <1>6, <1>9, <2>1
    <2>2. CASE new.state # obj.state
      <3>1. new.unproductive >= 2
        BY <1>4, <1>9, <2>2 DEF Moves
      <3> QED
        BY <1>2, <1>5, <1>7, <3>1
    <2> QED
      BY <2>1, <2>2
  <1> QED
    BY <1>7, <1>8, <1>9 DEF new

(* Without a move: neither the objects nor what the ledger says of the     *)
(* replays changes.                                                        *)
LEMMA BackedStill ==
    ASSUME Backed, loop' = loop, c'.chain = c.chain, Spent(c.l) \in Nat,
           c'.l.guards = c.l.guards, c'.l.tried = c.l.tried, c'.l.replays = c.l.replays
    PROVE  Backed'
  <1>1. Spent(c'.l) = Spent(c.l)
    BY DEF Spent, VainIn, RefusedIn
  <1> QED
    BY <1>1 DEF Backed

LEMMA BackedInit ==
    ASSUME ControlledInit
    PROVE  Backed
  <1>1. loop \in Loops /\ c.l = StartLedger(loop) /\ c.chain = loop.chain
    BY DEF ControlledInit
  <1>2. \A i \in DOMAIN loop.chain : loop.chain[i].unproductive = 0
    BY <1>1, LoopsAssumption
  <1>3. Spent(c.l) \in Nat
    BY <1>1, StartLedgerType, SpentType
  <1> QED
    BY <1>1, <1>2, <1>3 DEF Backed

(* One more action is tried: what was refused stays so, and a repair that  *)
(* no replay stands for is refused.                                        *)
LEMMA RefusedGrows ==
    ASSUME NEW l \in Ledger, NEW l2 \in Ledger, NEW act \in Actions,
           l2.tried = Append(l.tried, act), l2.replays = l.replays
    PROVE  /\ RefusedIn(l) \subseteq RefusedIn(l2)
           /\ act \in Repairing /\ (\A i \in DOMAIN l.replays : l.replays[i].tried <= Len(l.tried))
                 => RefusedIn(l) # RefusedIn(l2)
  <1> DEFINE n == Len(l.tried)
  <1>1. /\ l.tried \in Seq(Actions) /\ n \in Nat /\ DOMAIN l.tried = 1 .. n
        /\ \A i \in DOMAIN l.replays : l.replays[i].tried \in Nat
    BY LedgerType
  <1>2. /\ Append(l.tried, act) \in Seq(Actions) /\ Len(Append(l.tried, act)) = n + 1
        /\ \A k \in 1 .. n : Append(l.tried, act)[k] = l.tried[k]
        /\ Append(l.tried, act)[n + 1] = act
    BY <1>1, AppendProperties
  <1>3. DOMAIN l2.tried = 1 .. n + 1
    BY <1>2, LenProperties
  <1> HIDE DEF n
  <1>4. /\ \A k \in 1 .. n : k \in DOMAIN l2.tried /\ l2.tried[k] = l.tried[k]
        /\ n + 1 \in DOMAIN l2.tried /\ l2.tried[n + 1] = act /\ n + 1 \notin DOMAIN l.tried
    BY <1>1, <1>2, <1>3
  <1>5. RefusedIn(l) \subseteq RefusedIn(l2)
    BY <1>1, <1>4 DEF RefusedIn
  <1>6. ASSUME act \in Repairing, \A i \in DOMAIN l.replays : l.replays[i].tried <= n
        PROVE  RefusedIn(l) # RefusedIn(l2)
    <2>1. \A i \in DOMAIN l2.replays : l2.replays[i].tried # n + 1
      BY <1>1, <1>6
    <2>2. n + 1 \in RefusedIn(l2)
      BY <1>4, <1>6, <2>1 DEF RefusedIn
    <2>3. n + 1 \notin RefusedIn(l)
      BY <1>4 DEF RefusedIn
    <2> QED
      BY <2>2, <2>3
  <1> QED
    BY <1>5, <1>6 DEF n

(* One more guard: what was in vain stays so, and this one counts, or      *)
(* resolves.                                                               *)
LEMMA VainGrows ==
    ASSUME NEW l \in Ledger, NEW l2 \in Ledger, NEW g \in Guard, l2.guards = Append(l.guards, g)
    PROVE  /\ VainIn(l) \subseteq VainIn(l2)
           /\ ~Resolves(g) => VainIn(l) # VainIn(l2)
           /\ (\E k \in DOMAIN l.guards : Resolves(l.guards[k])) \/ Resolves(g) =>
                 \E k \in DOMAIN l2.guards : Resolves(l2.guards[k])
  <1> DEFINE n == Len(l.guards)
  <1>1. l.guards \in Seq(Guard) /\ n \in Nat /\ DOMAIN l.guards = 1 .. n
    BY LedgerType
  <1>2. /\ Append(l.guards, g) \in Seq(Guard) /\ Len(Append(l.guards, g)) = n + 1
        /\ \A k \in 1 .. n : Append(l.guards, g)[k] = l.guards[k]
        /\ Append(l.guards, g)[n + 1] = g
    BY <1>1, AppendProperties
  <1>3. DOMAIN l2.guards = 1 .. n + 1
    BY <1>2, LenProperties
  <1> HIDE DEF n
  <1>4. /\ \A k \in 1 .. n : k \in DOMAIN l2.guards /\ l2.guards[k] = l.guards[k]
        /\ n + 1 \in DOMAIN l2.guards /\ l2.guards[n + 1] = g /\ n + 1 \notin DOMAIN l.guards
    BY <1>1, <1>2, <1>3
  <1>5. VainIn(l) \subseteq VainIn(l2)
    BY <1>1, <1>4 DEF VainIn
  <1>6. ASSUME ~Resolves(g)
        PROVE  VainIn(l) # VainIn(l2)
    <2>1. n + 1 \in VainIn(l2) /\ n + 1 \notin VainIn(l)
      BY <1>4, <1>6 DEF VainIn, Resolves
    <2> QED
      BY <2>1
  <1>7. (\E k \in DOMAIN l.guards : Resolves(l.guards[k])) \/ Resolves(g) =>
           \E k \in DOMAIN l2.guards : Resolves(l2.guards[k])
    BY <1>1, <1>4
  <1> QED
    BY <1>5, <1>6, <1>7

(* A step without a verdict that moves an object: it resolves none, and    *)
(* only a repair, which then is refused, counts against it.                *)
LEMMA BackedTries ==
    ASSUME Typed, Typed', Backed, loop' = loop, phase = "step",
           NEW mode, Tries(Moved(mode, "none")), c'.l.guards = c.l.guards
    PROVE  Backed'
  <1>1. /\ c \in View /\ c.l \in Ledger /\ c'.l \in Ledger /\ current.act \in Actions
    BY TypedView DEF Typed, ControlledTypeOK, SemanticStep
  <1>2. \A i \in DOMAIN c.l.replays : c.l.replays[i].tried <= Len(c.l.tried)
    BY DEF Typed, Playing
  <1>3. /\ RefusedIn(c.l) \subseteq RefusedIn(c'.l)
        /\ current.act \in Repairing => RefusedIn(c.l) # RefusedIn(c'.l)
    BY <1>1, <1>2, RefusedGrows DEF Tries
  <1>4. VainIn(c.l) \subseteq VainIn(c'.l)
    BY DEF VainIn
  <1>5. /\ DOMAIN c'.chain = DOMAIN c.chain
        /\ \A i \in DOMAIN c.chain : Moves(c.chain[i], c'.chain[i], current.act, mode, "none")
    BY <1>1, MovedType DEF Tries
  <1> QED
    BY <1>3, <1>4, <1>5, BackedStep

LEMMA BackedRunReplay ==
    ASSUME Typed, Backed, RunReplay
    PROVE  Backed'
  <1>1. /\ Typed' /\ c'.chain = c.chain /\ c'.l.tried = c.l.tried /\ c'.l.guards = c.l.guards
        /\ Len(c'.l.replays) = Len(c.l.replays) + 1
        /\ \A i \in 1 .. Len(c.l.replays) : c'.l.replays[i] = c.l.replays[i]
        /\ c'.l.replays[Len(c.l.replays) + 1].tried = Len(c.l.tried) + 1
        /\ loop' = loop
    BY RunReplayStep
  <1>2. c \in View /\ c.l \in Ledger /\ c'.l \in Ledger
    BY <1>1, TypedView DEF Typed, ControlledTypeOK
  <1>3. /\ Len(c.l.tried) \in Nat /\ DOMAIN c.l.tried = 1 .. Len(c.l.tried)
        /\ Len(c.l.replays) \in Nat /\ DOMAIN c.l.replays = 1 .. Len(c.l.replays)
        /\ DOMAIN c'.l.replays = 1 .. Len(c.l.replays) + 1
    BY <1>1, <1>2, LedgerType
  <1>4. RefusedIn(c'.l) = RefusedIn(c.l)
    <2>1. ASSUME NEW k \in DOMAIN c.l.tried
          PROVE  (\A i \in DOMAIN c'.l.replays : c'.l.replays[i].tried # k)
                    <=> (\A i \in DOMAIN c.l.replays : c.l.replays[i].tried # k)
      <3>1. k # Len(c.l.tried) + 1
        BY <1>3
      <3>2. \A i \in DOMAIN c'.l.replays : i \in DOMAIN c.l.replays \/ i = Len(c.l.replays) + 1
        BY <1>3
      <3>3. \A i \in DOMAIN c.l.replays : i \in DOMAIN c'.l.replays
        BY <1>3
      <3> QED
        BY <1>1, <1>3, <3>1, <3>2, <3>3
    <2> QED
      BY <1>1, <2>1 DEF RefusedIn
  <1>5. VainIn(c'.l) = VainIn(c.l)
    BY <1>1 DEF VainIn
  <1>6. Spent(c'.l) = Spent(c.l)
    BY <1>4, <1>5 DEF Spent
  <1> QED
    BY <1>1, <1>6 DEF Backed

LEMMA BackedJudge ==
    ASSUME Typed, Backed, JudgeReplay
    PROVE  Backed'
  <1>1. PICK g \in Guard : Tries(Moved(g.mode, g.edit)) /\ c'.l.guards = Append(c.l.guards, g)
    BY JudgeReplayStep
  <1>2. Typed' /\ loop' = loop
    BY JudgeReplayStep
  <1>3. /\ c \in View /\ c.l \in Ledger /\ c'.l \in Ledger /\ current.act \in Actions
    BY <1>2, TypedView DEF Typed, ControlledTypeOK, SemanticStep
  <1>4. RefusedIn(c.l) \subseteq RefusedIn(c'.l)
    BY <1>1, <1>3, RefusedGrows DEF Tries
  <1>5. /\ VainIn(c.l) \subseteq VainIn(c'.l)
        /\ ~Resolves(g) => VainIn(c.l) # VainIn(c'.l)
        /\ (\E k \in DOMAIN c.l.guards : Resolves(c.l.guards[k])) \/ Resolves(g) =>
              \E k \in DOMAIN c'.l.guards : Resolves(c'.l.guards[k])
    BY <1>1, <1>3, VainGrows
  <1>6. /\ DOMAIN c'.chain = DOMAIN c.chain
        /\ \A i \in DOMAIN c.chain : Moves(c.chain[i], c'.chain[i], current.act, g.mode, g.edit)
    BY <1>1, <1>3, MovedType DEF Tries
  <1>7. Resolves(g) <=> g.edit # "none" /\ g.mode \in ResolvingModes
    BY DEF Resolves
  <1> QED
    BY <1>2, <1>4, <1>5, <1>6, <1>7, BackedStep

LEMMA BackedNext ==
    ASSUME Typed, Backed, [ControlledNext]_controlledVars
    PROVE  Backed'
  <1>1. Spent(c.l) \in Nat
    BY TypedView, SpentType DEF Typed
  <1>2. CASE AskFirst
    <2>1. c'.l = c.l /\ c'.chain = c.chain /\ loop' = loop
      BY <1>2, AskFirstStep DEF AskFirst
    <2> QED
      BY <1>1, <2>1, BackedStill
  <1>3. CASE Decide
    <2>1. c'.l = c.l /\ c'.chain = c.chain /\ loop' = loop
      BY <1>3, DecideStep DEF Decide
    <2> QED
      BY <1>1, <2>1, BackedStill
  <1>4. CASE EndLoop
    <2>1. c' = c /\ loop' = loop
      BY <1>4 DEF EndLoop
    <2> QED
      BY <1>1, <2>1, BackedStill
  <1>5. CASE Prepare
    <2>1. Typed' /\ Tries(Moved("", "none")) /\ c'.l.guards = c.l.guards /\ phase = "step"
      BY <1>5, PrepareStep
    <2>2. loop' = loop
      BY <1>5 DEF Prepare
    <2> QED
      BY <2>1, <2>2, BackedTries
  <1>6. CASE RefuseReplay
    <2>1. /\ Typed' /\ Tries(Moved("budget_exhausted", "none")) /\ c'.l.guards = c.l.guards
          /\ phase = "step" /\ loop' = loop
      BY <1>6, RefuseReplayStep
    <2> QED
      BY <2>1, BackedTries
  <1>7. CASE RunReplay
    BY <1>7, BackedRunReplay
  <1>8. CASE JudgeReplay
    BY <1>8, BackedJudge
  <1>9. CASE RunOut
    <2>1. CASE phase = "step"
      <3>1. /\ Typed' /\ Tries(Moved("budget_exhausted", "none")) /\ c'.l.guards = c.l.guards
            /\ loop' = loop
        BY <1>9, <2>1, RunOutShort
      <3> QED
        BY <2>1, <3>1, BackedTries
    <2>2. CASE phase # "step"
      <3>1. c' = c /\ loop' = loop
        BY <1>9, <2>2, RunOutStep
      <3> QED
        BY <1>1, <3>1, BackedStill
    <2> QED
      BY <2>1, <2>2
  <1>10. CASE UNCHANGED controlledVars
    <2>1. c' = c /\ loop' = loop
      BY <1>10 DEF controlledVars
    <2> QED
      BY <1>1, <2>1, BackedStill
  <1> QED
    BY <1>2, <1>3, <1>4, <1>5, <1>6, <1>7, <1>8, <1>9, <1>10 DEF ControlledNext, Progress

(* An object of the chain is resolved only after a replay that changed     *)
(* files and was passed, and exhausted only after two that were in vain or *)
(* refused, whichever objects were active in between                       *)
(* (apply_lifecycle_transition): what counts against an object never       *)
(* exceeds the replays that were spent.                                    *)
THEOREM ObjectsMoveForReplays == ControlledSpec => []ObjectsFollowReplays
  <1>1. ControlledInit => Typed /\ Backed
    BY TypedInit, BackedInit
  <1>2. Typed /\ Backed /\ [ControlledNext]_controlledVars => (Typed /\ Backed)'
    BY TypedNext, BackedNext
  <1>3. Backed => ObjectsFollowReplays
    <2>1. Spent(c.l) = Cardinality(InVainReplays) + Cardinality(RefusedReplays)
      BY DEF Spent, VainIn, RefusedIn, InVainReplays, RefusedReplays
    <2>2. ASSUME NEW k \in DOMAIN c.l.guards, Resolves(c.l.guards[k])
          PROVE  \E g \in ToSet(c.l.guards) : g.mode \in ResolvingModes /\ g.edit # "none"
      BY <2>2 DEF ToSet, Resolves
    <2> QED
      BY <2>1, <2>2 DEF Backed, ObjectsFollowReplays
  <1> QED
    BY <1>1, <1>2, <1>3, PTL DEF ControlledSpec

(***************************************************************************)
(* What CAR answers is viable.                                             *)
(***************************************************************************)
Viable(v, initial) ==
    {act \in Actions : /\ Available(v.l, act)
                       /\ Retargets(v, act, initial) \/ Passes(v, act, initial)}

(* A finite set that a total order compares has a best member: one more    *)
(* member is the best, or does not beat it.                                *)
Orders(R, S) ==
    /\ \A a, b \in S : <<a, b>> \in R \/ <<b, a>> \in R
    /\ \A a, b, d \in S : <<a, b>> \in R /\ <<b, d>> \in R => <<a, d>> \in R
HasBest(R, S) == S = {} \/ \E a \in S : \A b \in S : <<a, b>> \in R

LEMMA OneMoreBest ==
    ASSUME NEW R, NEW T, NEW U, NEW x, T \subseteq U, U \subseteq T \cup {x},
           Orders(R, U), HasBest(R, T)
    PROVE  HasBest(R, U)
  <1>1. CASE U = T
    BY <1>1
  <1>2. CASE U # T
    <2>1. x \in U /\ U = T \cup {x}
      BY <1>2
    <2>2. CASE T = {}
      BY <2>1, <2>2 DEF HasBest, Orders
    <2>3. CASE T # {}
      <3>1. PICK a \in T : \A b \in T : <<a, b>> \in R
        BY <2>3 DEF HasBest
      <3>2. CASE <<a, x>> \in R
        BY <2>1, <3>1, <3>2 DEF HasBest
      <3>3. CASE <<x, a>> \in R
        <4>1. \A b \in T : <<x, b>> \in R
          BY <2>1, <3>1, <3>3 DEF Orders
        <4>2. <<x, x>> \in R
          BY <2>1 DEF Orders
        <4> QED
          BY <2>1, <4>1, <4>2 DEF HasBest
      <3> QED
        BY <2>1, <3>1, <3>2, <3>3 DEF Orders
    <2> QED
      BY <2>2, <2>3
  <1> QED
    BY <1>1, <1>2

LEMMA BestExists ==
    ASSUME NEW viable \in SUBSET Actions, NEW R, Orders(R, viable)
    PROVE  HasBest(R, viable)
  <1> DEFINE t1 == viable \cap {"EVIDENCE_RECHECK"}
             t2 == viable \cap {"EVIDENCE_RECHECK", "RECHECK_OBJECT"}
             t3 == viable \cap {"EVIDENCE_RECHECK", "RECHECK_OBJECT", "TARGET_RESET"}
             t4 == viable \cap Cheap
             t5 == viable \cap (Cheap \cup {"LOCAL_REPAIR"})
             t6 == viable \cap (Cheap \cup {"LOCAL_REPAIR", "SCOPE_EXPAND"})
  <1>1. ASSUME NEW T, NEW U \in SUBSET viable, NEW x, T \subseteq U, U \subseteq T \cup {x},
               HasBest(R, T)
        PROVE  HasBest(R, U)
    <2>1. Orders(R, U)
      BY DEF Orders
    <2> QED
      BY <1>1, <2>1, OneMoreBest
  <1>2. {} \subseteq t1 /\ t1 \subseteq {} \cup {"EVIDENCE_RECHECK"} /\ t1 \in SUBSET viable
    OBVIOUS
  <1>3. t1 \subseteq t2 /\ t2 \subseteq t1 \cup {"RECHECK_OBJECT"} /\ t2 \in SUBSET viable
    OBVIOUS
  <1>4. t2 \subseteq t3 /\ t3 \subseteq t2 \cup {"TARGET_RESET"} /\ t3 \in SUBSET viable
    OBVIOUS
  <1>5. t3 \subseteq t4 /\ t4 \subseteq t3 \cup {"REVOKE_OBJECT"} /\ t4 \in SUBSET viable
    BY DEF Cheap
  <1>6. t4 \subseteq t5 /\ t5 \subseteq t4 \cup {"LOCAL_REPAIR"} /\ t5 \in SUBSET viable
    OBVIOUS
  <1>7. t5 \subseteq t6 /\ t6 \subseteq t5 \cup {"SCOPE_EXPAND"} /\ t6 \in SUBSET viable
    OBVIOUS
  <1>8. t6 \subseteq viable /\ viable \subseteq t6 \cup {"CAPABILITY_BOOST"}
    BY DEF Cheap, Actions, Preparing, Repairing
  <1> HIDE DEF t1, t2, t3, t4, t5, t6
  <1>9. HasBest(R, {})
    BY DEF HasBest
  <1>10. HasBest(R, t1)
    BY <1>1, <1>2, <1>9
  <1>11. HasBest(R, t2)
    BY <1>1, <1>3, <1>10
  <1>12. HasBest(R, t3)
    BY <1>1, <1>4, <1>11
  <1>13. HasBest(R, t4)
    BY <1>1, <1>5, <1>12
  <1>14. HasBest(R, t5)
    BY <1>1, <1>6, <1>13
  <1>15. HasBest(R, t6)
    BY <1>1, <1>7, <1>14
  <1> QED
    BY <1>1, <1>8, <1>15

(* The place of a card.                                                    *)
LEMMA PlaceType ==
    ASSUME NEW act \in Actions
    PROVE  (CHOOSE i \in DOMAIN CardOrder : CardOrder[i] = act) \in Nat
  <1>1. DOMAIN CardOrder = 1 .. 7
    BY DEF CardOrder
  <1>2. \E i \in 1 .. 7 : CardOrder[i] = act
    BY DEF CardOrder, Actions, Preparing, Repairing
  <1> QED
    BY <1>1, <1>2

LEMMA BestOfViable ==
    ASSUME NEW viable \in SUBSET Actions, NEW score \in [viable -> Int], NEW none
    PROVE  /\ viable = {} => BestOf(viable, score, none) = none
           /\ viable # {} => BestOf(viable, score, none) \in viable
  <1> DEFINE place == [act \in viable |-> CHOOSE i \in DOMAIN CardOrder : CardOrder[i] = act]
             Beats(a, b) == score[a] > score[b] \/ (score[a] = score[b] /\ place[a] <= place[b])
             R == {p \in viable \X viable : Beats(p[1], p[2])}
  <1>1. ASSUME viable # {}
        PROVE  \E a \in viable : \A b \in viable : Beats(a, b)
    <2>1. \A a \in viable : score[a] \in Int /\ place[a] \in Int
      BY PlaceType
    <2> HIDE DEF place
    <2>2. \A a, b \in viable : Beats(a, b) \/ Beats(b, a)
      BY <2>1
    <2>3. \A a, b, d \in viable : Beats(a, b) /\ Beats(b, d) => Beats(a, d)
      BY <2>1
    <2>4. \A a, b \in viable : <<a, b>> \in R <=> Beats(a, b)
      OBVIOUS
    <2> HIDE DEF R, Beats
    <2>5. Orders(R, viable)
      BY <2>2, <2>3, <2>4 DEF Orders
    <2>6. HasBest(R, viable)
      BY <2>5, BestExists
    <2> QED
      BY <1>1, <2>4, <2>6 DEF HasBest
  <1>2. BestOf(viable, score, none)
          = IF viable = {} THEN none ELSE CHOOSE a \in viable : \A b \in viable : Beats(a, b)
    BY DEF BestOf
  <1> HIDE DEF Beats
  <1> QED
    BY <1>1, <1>2

(* The scores are numbers.                                                 *)
LEMMA PointsType ==
    ASSUME NEW cond, NEW n \in Int
    PROVE  (IF cond THEN n ELSE 0) \in Int
  OBVIOUS

LEMMA PriorityPointsType ==
    ASSUME NEW type \in Types, NEW act
    PROVE  PriorityPoints(type, act) \in Int
  <1> DEFINE places == {i \in DOMAIN Priority[type] : Priority[type][i] = act}
             place == CHOOSE i \in places : TRUE
  <1>1. DOMAIN Priority[type] \subseteq Int
    BY DEF Types, Priority
  <1>2. CASE places = {}
    BY <1>2 DEF PriorityPoints
  <1>3. CASE places # {}
    <2>1. place \in places
      BY <1>3
    <2>2. place \in Int
      BY <1>1, <2>1
    <2>3. PriorityPoints(type, act) = 1000 - 120 * (place - 1)
      BY <1>3 DEF PriorityPoints
    <2> HIDE DEF place
    <2> QED
      BY <2>2, <2>3
  <1> QED
    BY <1>2, <1>3

LEMMA PriorPointsType ==
    ASSUME NEW m \in Memory, NEW act
    PROVE  PriorPoints(m, act) \in Int
  <1>1. DOMAIN m.episodes = 1 .. Len(m.episodes) /\ Len(m.episodes) \in Nat
    BY LenProperties DEF Memory
  <1>2. IsFiniteSet(DOMAIN m.episodes)
    BY <1>1, FS_Interval
  <1>3. IsFiniteSet(Own(m, act))
    BY <1>2, FS_Subset DEF Own
  <1>4. /\ IsFiniteSet({i \in Own(m, act) : m.episodes[i].noDiff})
        /\ IsFiniteSet({i \in Own(m, act) : m.episodes[i].changed})
    BY <1>3, FS_Subset
  <1>5. EmptyOwn(m, act) \in Nat /\ ChangedOwn(m, act) \in Nat /\ CountOwn(m, act) \in Nat
    BY <1>3, <1>4, FS_CardinalityType DEF EmptyOwn, ChangedOwn, CountOwn
  <1>6. CASE Own(m, act) = {}
    BY <1>6 DEF PriorPoints
  <1>7. CASE Own(m, act) # {}
    <2>1. CountOwn(m, act) # 0
      BY <1>3, <1>7, FS_EmptySet DEF CountOwn
    <2> DEFINE a == (120 * ChangedOwn(m, act)) \div CountOwn(m, act)
               b == (420 * EmptyOwn(m, act)) \div CountOwn(m, act)
               d == IF m.episodes[Max(Own(m, act))].same THEN 80 ELSE 0
    <2>2. a \in Int /\ b \in Int
      BY <1>5, <2>1
    <2>3. d \in Int
      OBVIOUS
    <2>4. PriorPoints(m, act) = a - b - d
      BY <1>7 DEF PriorPoints
    <2> HIDE DEF a, b, d
    <2> QED
      BY <2>2, <2>3, <2>4
  <1> QED
    BY <1>6, <1>7

LEMMA BeliefPointsType ==
    ASSUME NEW l, NEW m, NEW act, NEW initial
    PROVE  BeliefPoints(l, m, act, initial) \in Int
  <1> DEFINE P(cond, n) == IF cond THEN n ELSE 0
             halted == Stops(l, m, initial) \/ Pauses(l, m, initial)
             barren == \E i \in DOMAIN m.events : m.events[i].revision = "invalidated_no_progress"
             ready == RetargetReady(l, m)
             p1 == P(act = Hint(Newest(m).revision), IF NeedsEvidence(m) THEN 920 ELSE 180)
             p2 == P(halted /\ act \in Cheap, 260)
             p3 == P(halted /\ act \in Expensive, 900)
             p4 == P(~halted /\ barren /\ act \in Cheap, 80)
             p5 == P(ready /\ act = "SCOPE_EXPAND", 780)
             p6 == P(ready /\ act = "LOCAL_REPAIR", 520)
             p7 == P(ready /\ act \in Rechecks, 350)
             p8 == P(~ready /\ BoundaryInvalidated(l, m) /\ act = "SCOPE_EXPAND", 120)
             p9 == P("candidate" \in m.open /\ act = "LOCAL_REPAIR", 260)
             p10 == P("candidate" \in m.open /\ act = "SCOPE_EXPAND", 220)
             p11 == P("validation" \in m.open /\ act \in Rechecks, 520)
             p12 == P("validation" \in m.open /\ act \in {"TARGET_RESET", "REVOKE_OBJECT"}, 220)
             p13 == P("validation" \in m.open /\ act \in Expensive, 180)
             p14 == P(m.route /\ act = "LOCAL_REPAIR", 260)
             p15 == P(m.route /\ act = "SCOPE_EXPAND", 180)
             p16 == P(m.route /\ act \in Cheap, 90)
  <1>1. BeliefPoints(l, m, act, initial)
          = p1 + p2 - p3 + p4 + p5 - p6 - p7 + p8 + p9 - p10 + p11 - p12 - p13 - p14 + p15 + p16
    BY DEF BeliefPoints
  <1> HIDE DEF halted, barren, ready
  <1>2. p1 \in Int
    BY PointsType
  <1>3. /\ p2 \in Int /\ p3 \in Int /\ p4 \in Int /\ p5 \in Int /\ p6 \in Int
        /\ p7 \in Int /\ p8 \in Int /\ p9 \in Int /\ p10 \in Int /\ p11 \in Int
        /\ p12 \in Int /\ p13 \in Int /\ p14 \in Int /\ p15 \in Int /\ p16 \in Int
    OBVIOUS
  <1> HIDE DEF p1, p2, p3, p4, p5, p6, p7, p8, p9, p10, p11, p12, p13, p14, p15, p16
  <1> QED
    BY <1>1, <1>2, <1>3

LEMMA CarScoreType ==
    ASSUME NEW v \in View, NEW act \in Actions, NEW initial
    PROVE  CarScore(v, act, initial) \in Int
  <1> DEFINE P(cond, n) == IF cond THEN n ELSE 0
             narrows == Narrows(v.l)
             slot == narrows /\ Status(v.l) = "needs_refine" /\ OracleEvidence(v.l)
             p1 == PriorityPoints(Classify(v.e), act)
             p2 == IF Mutates(v, act) THEN 40 ELSE -50
             p3 == P(act = v.l.suggestion, 20)
             p4 == PriorPoints(v.m, act)
             p5 == P(narrows /\ act = "LOCAL_REPAIR", 180)
             p6 == P(narrows /\ act = "EVIDENCE_RECHECK", IF WantsEvidence(v.l) THEN 220 ELSE 60)
             p7 == P(slot /\ act = "LOCAL_REPAIR", 1700)
             p8 == P(slot /\ act = "EVIDENCE_RECHECK", 1200)
             p9 == BeliefPoints(v.l, v.m, act, initial)
             p10 == CASE act \in Cheap -> 30 [] act = "CAPABILITY_BOOST" -> -20
                      [] act = "LOCAL_REPAIR" -> -30 [] act = "SCOPE_EXPAND" -> -50
             p11 == P(Retargets(v, act, initial), 1200)
  <1>1. CarScore(v, act, initial) = p1 + p2 + p3 + p4 + p5 + p6 + p7 - p8 + p9 + p10 + p11
    BY DEF CarScore
  <1>2. Classify(v.e) \in Types
    BY DEF Classify, Types
  <1>3. p1 \in Int /\ p4 \in Int /\ p9 \in Int
    BY <1>2, PriorityPointsType, PriorPointsType, BeliefPointsType DEF View
  <1>4. p10 \in Int
    <2>1. CASE act \in Cheap
      BY <2>1 DEF Cheap
    <2>2. CASE act \notin Cheap
      <3>1. act \in {"CAPABILITY_BOOST", "LOCAL_REPAIR", "SCOPE_EXPAND"}
        BY <2>2 DEF Cheap, Actions, Preparing, Repairing
      <3> QED
        BY <2>2, <3>1
    <2> QED
      BY <2>1, <2>2
  <1> HIDE DEF narrows, slot
  <1>5. p2 \in Int /\ p3 \in Int /\ p5 \in Int /\ p6 \in Int /\ p7 \in Int /\ p8 \in Int /\ p11 \in Int
    BY PointsType
  <1> HIDE DEF p1, p2, p3, p4, p5, p6, p7, p8, p9, p10, p11
  <1> QED
    BY <1>1, <1>3, <1>4, <1>5

(* CAR stops, or answers a viable action: none that is viable is left out. *)
LEMMA CarChoiceViable ==
    ASSUME NEW v \in View, NEW initial
    PROVE  /\ CarChoice(v, initial) \in {"STOP"} \cup Viable(v, initial)
           /\ ~GoalSatisfied(v) /\ Viable(v, initial) # {} => CarChoice(v, initial) \in Viable(v, initial)
  <1> DEFINE viable == Viable(v, initial)
             score == [act \in viable |-> CarScore(v, act, initial)]
  <1>1. viable \in SUBSET Actions
    BY DEF Viable
  <1>2. score \in [viable -> Int]
    BY <1>1, CarScoreType
  <1>3. CarChoice(v, initial) = IF GoalSatisfied(v) THEN "STOP" ELSE BestOf(viable, score, "STOP")
    BY DEF CarChoice, Viable
  <1> HIDE DEF viable, score
  <1>4. /\ viable = {} => BestOf(viable, score, "STOP") = "STOP"
        /\ viable # {} => BestOf(viable, score, "STOP") \in viable
    BY <1>1, <1>2, BestOfViable
  <1> QED
    BY <1>3, <1>4 DEF viable

(* Only an expansion skips the gates, and none while evidence is needed.   *)
LEMMA ViablePasses ==
    ASSUME NEW v \in View, NEW initial, NEW act \in Viable(v, initial)
    PROVE  /\ act # "SCOPE_EXPAND" => Allows(v.l, act)
           /\ act = "CAPABILITY_BOOST" => ~Tried(v.l, act)
           /\ act = "SCOPE_EXPAND" /\ NeedsEvidence(v.m) => SwitchesBoundary(v, act)
  <1>1. Retargets(v, act, initial) \/ Passes(v, act, initial)
    BY DEF Viable
  <1>2. CASE Retargets(v, act, initial)
    <2>1. act = "SCOPE_EXPAND" /\ RetargetReady(v.l, v.m)
      BY <1>2 DEF Retargets
    <2>2. ~NeedsEvidence(v.m)
      BY <2>1 DEF RetargetReady
    <2> QED
      BY <2>1, <2>2
  <1>3. CASE Passes(v, act, initial)
    <2>1. Allows(v.l, act)
      BY <1>3 DEF Passes
    <2>2. act = "CAPABILITY_BOOST" => ~Tried(v.l, act)
      BY <1>3 DEF Passes, Mutates, Escapes, Expensive, Repairing
    <2>3. act = "SCOPE_EXPAND" /\ NeedsEvidence(v.m) => SwitchesBoundary(v, act)
      BY <1>3 DEF Passes, Halted, Pauses, Expensive, Repairing, Overrides, Refines
    <2> QED
      BY <2>1, <2>2, <2>3
  <1> QED
    BY <1>1, <1>2, <1>3

(* Before anything was tried a reset is viable.                            *)
LEMMA ResetViable ==
    ASSUME NEW v \in View, NEW initial, v.m = NoMemory, v.l.tried = <<>>, v.l.candidates = <<>>
    PROVE  "TARGET_RESET" \in Viable(v, initial)
  <1> DEFINE act == "TARGET_RESET"
  <1>1. act \in Actions /\ act \in Cheap /\ act \notin Expensive
    BY DEF Actions, Preparing, Repairing, Cheap, Expensive
  <1>2. Available(v.l, act)
    <2>1. TimesTried(v.l, act) = 0
      <3>1. {i \in DOMAIN v.l.tried : v.l.tried[i] = act} = {}
        BY EmptySeq
      <3> QED
        BY <3>1, FS_EmptySet DEF TimesTried
    <2> QED
      BY <2>1 DEF Available, RepeatLimit
  <1>3. ~Halted(v, act, initial)
    BY <1>1 DEF Halted
  <1>4. ~AwaitsValidation(v.l, v.m, act)
    BY DEF AwaitsValidation, NoMemory
  <1>5. act \notin NeverFirst[Classify(v.e)]
    <2>1. Classify(v.e) \in Types
      BY DEF Classify, Types
    <2> QED
      BY <2>1 DEF Types, NeverFirst
  <1>6. Allows(v.l, act)
    BY DEF Allows, Narrows, HasCandidate
  <1>7. Mutates(v, act)
    <2>1. ~Tried(v.l, act)
      BY EmptySeq DEF Tried
    <2> QED
      BY <2>1 DEF Mutates
  <1>8. ~PriorRejects(v.m, act)
    BY <1>1 DEF PriorRejects
  <1> QED
    BY <1>1, <1>2, <1>3, <1>4, <1>5, <1>6, <1>7, <1>8 DEF Viable, Passes

(***************************************************************************)
(* What the executor makes of an answer of CAR.                            *)
(***************************************************************************)
(* A step that is no fusion and restores no initial checkpoint; the only   *)
(* expansion is the bounded one.                                           *)
Plain(s) ==
    /\ s \in SemanticStep /\ s.repair = FALSE /\ s.anchor # "initial"
    /\ s.act = "SCOPE_EXPAND" => s = Expand

Refining == "source_candidate_refine"

LEMMA PlainSteps ==
    /\ \A act \in Actions \ {"LOCAL_REPAIR"} :
          \E s \in SemanticStep : Follow(act) = RunUnit(<<s>>) /\ Plain(s) /\ s.act = act
    /\ \A mode \in Modes, profile \in Profiles \cup {""} :
          /\ Plain(Repair(mode, profile)) /\ Repair(mode, profile).act = "LOCAL_REPAIR"
          /\ Repair(mode, profile).pre # Refining
  <1>1. \A mode \in Modes, profile \in Profiles \cup {""} :
          /\ Plain(Repair(mode, profile)) /\ Repair(mode, profile).act = "LOCAL_REPAIR"
          /\ Repair(mode, profile).pre # Refining
    BY RepairingSteps DEF Plain, Repair, Do, Refining
  <1>2. ASSUME NEW act \in Actions \ {"LOCAL_REPAIR"}
        PROVE  \E s \in SemanticStep : Follow(act) = RunUnit(<<s>>) /\ Plain(s) /\ s.act = act
    <2>1. CASE act = "EVIDENCE_RECHECK"
      <3>1. Plain(Recheck) /\ Recheck.act = act /\ Follow(act) = RunUnit(<<Recheck>>)
        BY <2>1, PreparingSteps DEF Follow, Plain, Recheck, Do
      <3> QED
        BY <3>1, PreparingSteps
    <2>2. CASE act = "RECHECK_OBJECT"
      <3>1. Plain(RecheckObject) /\ RecheckObject.act = act /\ Follow(act) = RunUnit(<<RecheckObject>>)
        BY <2>2, PreparingSteps DEF Follow, Plain, RecheckObject, Do
      <3> QED
        BY <3>1, PreparingSteps
    <2>3. CASE act = "REVOKE_OBJECT"
      <3>1. Plain(Revoke) /\ Revoke.act = act /\ Follow(act) = RunUnit(<<Revoke>>)
        BY <2>3, PreparingSteps DEF Follow, Plain, Revoke, Do
      <3> QED
        BY <3>1, PreparingSteps
    <2>4. CASE act = "TARGET_RESET"
      <3>1. ResetTo("post_locate") \in SemanticStep
        BY PreparingSteps DEF Anchors
      <3>2. /\ Plain(ResetTo("post_locate")) /\ ResetTo("post_locate").act = act
            /\ Follow(act) = RunUnit(<<ResetTo("post_locate")>>)
        BY <2>4, <3>1 DEF Follow, Plain, ResetTo, Do
      <3> QED
        BY <3>1, <3>2
    <2>5. CASE act = "CAPABILITY_BOOST"
      <3>1. Plain(Boost) /\ Boost.act = act /\ Follow(act) = RunUnit(<<Boost>>)
        BY <2>5, PreparingSteps DEF Follow, Plain, Boost, Do
      <3> QED
        BY <3>1, PreparingSteps
    <2>6. CASE act = "SCOPE_EXPAND"
      <3>1. Plain(Expand) /\ Expand.act = act /\ Follow(act) = RunUnit(<<Expand>>)
        BY <2>6, RepairingSteps DEF Follow, Plain, Expand, Do
      <3> QED
        BY <3>1, RepairingSteps
    <2> QED
      BY <2>1, <2>2, <2>3, <2>4, <2>5, <2>6 DEF Actions, Preparing, Repairing
  <1> QED
    BY <1>1, <1>2

(* A repair that CAR answers runs only after a preparing step.             *)
LEMMA RepairSettles ==
    ASSUME NEW last \in SemanticStep, last.anchor # "initial", NEW l \in Ledger, NEW r,
           Settle(last, "LOCAL_REPAIR", l, r).kind = "run"
    PROVE  /\ last.act \in Preparing
           /\ \E s \in SemanticStep : /\ Settle(last, "LOCAL_REPAIR", l, r) = RunUnit(<<s>>)
                                      /\ Plain(s) /\ s.act = "LOCAL_REPAIR" /\ s.pre # Refining
  <1> USE DEF Modes, Profiles
  <1>1. Settle(last, "LOCAL_REPAIR", l, r) = Table(last, "LOCAL_REPAIR", l)
    BY DEF Settle, Fusible
  <1>2. last.act \in Preparing
    <2> SUFFICES ASSUME last.act \notin Preparing
                 PROVE  FALSE
      OBVIOUS
    <2>1. Table(last, "LOCAL_REPAIR", l) = StopLoop
      BY DEF Table, AfterRepairing
    <2> QED
      BY <1>1, <2>1 DEF StopLoop
  <1>3. Table(last, "LOCAL_REPAIR", l) = AfterPreparing(last, "LOCAL_REPAIR", l)
    BY <1>2 DEF Table
  <1> DEFINE Fits(s) == Plain(s) /\ s.act = "LOCAL_REPAIR" /\ s.pre # Refining
  <1>4. SUFFICES \E s \in SemanticStep : AfterPreparing(last, "LOCAL_REPAIR", l) = RunUnit(<<s>>) /\ Fits(s)
    BY <1>1, <1>2, <1>3
  <1>5. \A s : Fits(s) => s \in SemanticStep
    BY DEF Plain
  <1>6. \A mode \in Modes, profile \in Profiles \cup {""} : Fits(Repair(mode, profile))
    BY PlainSteps
  <1>7. CASE last.act = "EVIDENCE_RECHECK"
    <2> DEFINE t == [Repair("evidence_rechecked_local", "compact") EXCEPT
                       !.pre = "post_evidence_source_repair"]
    <2>1. Repair("evidence_rechecked_local", "compact") \in SemanticStep
          /\ Plain(Repair("evidence_rechecked_local", "compact"))
          /\ Repair("evidence_rechecked_local", "compact").act = "LOCAL_REPAIR"
      BY PlainSteps, RepairingSteps
    <2>2. t \in SemanticStep
      BY <2>1, StepExcept DEF Preconditions
    <2>3. /\ t.act = "LOCAL_REPAIR" /\ t.pre = "post_evidence_source_repair"
          /\ t.repair = FALSE /\ t.anchor # "initial"
      BY <2>1 DEF Plain, SemanticStep
    <2>5. Fits(t)
      BY <2>2, <2>3 DEF Plain, Refining
    <2>4. AfterPreparing(last, "LOCAL_REPAIR", l) = RunUnit(<<t>>)
      BY <1>7 DEF AfterPreparing, AfterRecheck
    <2> QED
      BY <1>5, <2>4, <2>5
  <1>8. CASE last.act = "RECHECK_OBJECT"
    <2>1. AfterPreparing(last, "LOCAL_REPAIR", l) = RunUnit(<<Repair("object_rechecked_local", "normal")>>)
      BY <1>8 DEF AfterPreparing, AfterRecheck
    <2> QED
      BY <1>5, <1>6, <2>1
  <1>9. CASE last.act = "REVOKE_OBJECT"
    <2>1. AfterPreparing(last, "LOCAL_REPAIR", l) = RunUnit(<<Repair("object_revoked_local", "normal")>>)
      BY <1>9 DEF AfterPreparing, AfterRevoke
    <2> QED
      BY <1>5, <1>6, <2>1
  <1>10. CASE last.act = "TARGET_RESET"
    <2>1. AfterPreparing(last, "LOCAL_REPAIR", l)
            = RunUnit(<<Repair("rebuild_from_local_anchor", "normal")>>)
      BY <1>10 DEF AfterPreparing, AfterReset
    <2> QED
      BY <1>5, <1>6, <2>1
  <1>11. CASE last.act = "CAPABILITY_BOOST"
    <2>1. AfterPreparing(last, "LOCAL_REPAIR", l) = AfterBoost(l)
      BY <1>11 DEF AfterPreparing
    <2>2. ~Converges(l)
      BY <1>1, <1>3, <2>1 DEF AfterBoost, AskRefineProfile
    <2>3. AfterBoost(l) = RunUnit(<<Repair("local_boosted", l.profile)>>)
      BY <2>2 DEF AfterBoost
    <2>4. l.profile \in Profiles
      BY DEF Ledger
    <2> QED
      BY <1>5, <1>6, <2>1, <2>3, <2>4
  <1> QED
    BY <1>2, <1>7, <1>8, <1>9, <1>10, <1>11 DEF Preparing

LEMMA RefiningStep ==
    ASSUME NEW l \in Ledger, NEW mode \in Modes, NEW profile \in Profiles \cup {""}
    PROVE  \E s \in SemanticStep : /\ CandidateRepair(l, mode, profile) = RunUnit(<<s>>)
                                   /\ Plain(s) /\ s.act = "LOCAL_REPAIR" /\ s.pre = Refining
  <1> DEFINE s == [Repair(mode, profile) EXCEPT
                     !.pre = "source_candidate_refine",
                     !.anchor = IF BestCandidate(l).checkpoint THEN "source_candidate" ELSE "",
                     !.recheck = Latest(l).evidence]
  <1>1. Repair(mode, profile) \in SemanticStep /\ Plain(Repair(mode, profile))
        /\ Repair(mode, profile).act = "LOCAL_REPAIR"
    BY RepairingSteps, PlainSteps
  <1>2. Latest(l).evidence \in BOOLEAN
    BY LatestType
  <1>3. (IF BestCandidate(l).checkpoint THEN "source_candidate" ELSE "") \in Anchors \ {"initial"}
    BY DEF Anchors
  <1>4. s \in SemanticStep
    BY <1>1, <1>2, <1>3 DEF SemanticStep, Preconditions
  <1>5. Plain(s) /\ s.act = "LOCAL_REPAIR" /\ s.pre = Refining
    BY <1>1, <1>3, <1>4 DEF Plain, SemanticStep, Refining
  <1>6. CandidateRepair(l, mode, profile) = RunUnit(<<s>>)
    BY DEF CandidateRepair
  <1> HIDE DEF s
  <1> QED
    BY <1>4, <1>5, <1>6

(* An answer of CAR that runs: a candidate is refined for a boost, a       *)
(* repair follows what prepared it, and anything else runs as answered.    *)
RefinesFor(act, s) == act = "CAPABILITY_BOOST" /\ s.act = "LOCAL_REPAIR" /\ s.pre = Refining
Repairs(last, act, s, l) ==
    /\ act = "LOCAL_REPAIR" /\ s.act = "LOCAL_REPAIR" /\ s.pre # Refining /\ last.act \in Preparing
    /\ ~(Converges(l) /\ CandidateJudged(l))
Expands(act, s, l) ==
    act = "SCOPE_EXPAND" /\ s = Expand /\ ~(Converges(l) /\ CandidateJudged(l))
Prepares(act, s) == act \in Preparing /\ s.act = act

LEMMA ForcedRuns ==
    ASSUME NEW last \in SemanticStep, last.anchor # "initial", NEW act \in Actions, NEW l \in Ledger,
           NEW r, r.controller = "car", Forced(last, act, l, r).kind = "run"
    PROVE  \E s \in SemanticStep :
              /\ Forced(last, act, l, r) = RunUnit(<<s>>) /\ Plain(s)
              /\ \/ Converges(l) /\ RefinesFor(act, s)
                 \/ Repairs(last, act, s, l) \/ Expands(act, s, l) \/ Prepares(act, s)
  <1>1. CASE Converges(l) /\ act \in Repairing /\ CandidateJudged(l)
    <2>1. Forced(last, act, l, r) = AskRefineProfile
      BY <1>1 DEF Forced, Repairing
    <2> QED
      BY <2>1 DEF AskRefineProfile
  <1>2. CASE Converges(l) /\ act = "CAPABILITY_BOOST"
    <2>1. Forced(last, act, l, r) = CandidateRepair(l, "candidate_preserving_boosted_refine", "boosted")
      BY <1>2 DEF Forced, Repairing
    <2>2. \E s \in SemanticStep :
             /\ CandidateRepair(l, "candidate_preserving_boosted_refine", "boosted") = RunUnit(<<s>>)
             /\ Plain(s) /\ s.act = "LOCAL_REPAIR" /\ s.pre = Refining
      <3>1. "candidate_preserving_boosted_refine" \in Modes /\ "boosted" \in Profiles \cup {""}
        BY DEF Modes, Profiles
      <3> QED
        BY <3>1, RefiningStep
    <2> QED
      BY <1>2, <2>1, <2>2 DEF RefinesFor
  <1>3. CASE ~(Converges(l) /\ act \in Repairing /\ CandidateJudged(l))
             /\ ~(Converges(l) /\ act = "CAPABILITY_BOOST")
    <2>1. Forced(last, act, l, r) = IF act = "LOCAL_REPAIR" THEN Settle(last, act, l, r) ELSE Follow(act)
      BY <1>3 DEF Forced
    <2>2. CASE act = "LOCAL_REPAIR"
      <3>1. ~(Converges(l) /\ CandidateJudged(l))
        BY <1>3, <2>2 DEF Repairing
      <3>2. Forced(last, act, l, r) = Settle(last, "LOCAL_REPAIR", l, r)
        BY <2>1, <2>2
      <3>3. /\ last.act \in Preparing
            /\ \E s \in SemanticStep : /\ Settle(last, "LOCAL_REPAIR", l, r) = RunUnit(<<s>>)
                                       /\ Plain(s) /\ s.act = "LOCAL_REPAIR" /\ s.pre # Refining
        BY <3>2, RepairSettles
      <3> QED
        BY <2>2, <3>1, <3>2, <3>3 DEF Repairs
    <2>3. CASE act # "LOCAL_REPAIR"
      <3>1. PICK s \in SemanticStep : Follow(act) = RunUnit(<<s>>) /\ Plain(s) /\ s.act = act
        BY <2>3, PlainSteps
      <3>2. Forced(last, act, l, r) = RunUnit(<<s>>)
        BY <2>1, <2>3, <3>1
      <3>3. CASE act \in Preparing
        BY <3>1, <3>2, <3>3 DEF Prepares
      <3>4. CASE act \notin Preparing
        <4>1. act = "SCOPE_EXPAND"
          BY <2>3, <3>4 DEF Actions, Repairing
        <4>2. s = Expand
          BY <3>1, <4>1 DEF Plain
        <4>3. ~(Converges(l) /\ CandidateJudged(l))
          BY <1>3, <4>1 DEF Repairing
        <4> QED
          BY <3>1, <3>2, <4>1, <4>2, <4>3 DEF Expands
      <3> QED
        BY <3>3, <3>4
    <2> QED
      BY <2>2, <2>3
  <1> QED
    BY <1>1, <1>2, <1>3

(***************************************************************************)
(* What each step of a CAR loop changes.                                   *)
(***************************************************************************)
Car == loop.controller = "car"
Barren(l) == Latest(l).mode \in NoFreshModes

(* The controller looks, and nothing it looks at changes.                  *)
Looks ==
    /\ loop' = loop /\ before' = before /\ c'.l = c.l /\ c'.chain = c.chain /\ c'.active = c.active
    /\ c'.m = c.m

(* An answer of CAR and the step s it became after the step `last`.        *)
Becomes(last, act, s, l) ==
    \/ Converges(l) /\ RefinesFor(act, s)
    \/ Repairs(last, act, s, l)
    \/ Expands(act, s, l)
    \/ Prepares(act, s)

LEMMA GrantLooks ==
    ASSUME Typed, NEW asked, c' = [c EXCEPT !.grants = Granted(asked)],
           UNCHANGED <<loop, before>>
    PROVE  Looks
  BY TypedView DEF Typed, View, Looks

LEMMA DecideFrame ==
    ASSUME Typed, Decide, Car, current.anchor # "initial"
    PROVE  /\ Looks /\ phase = "next" /\ phase' \in {"step", "done", "raised"}
           /\ phase' = "step" =>
                 /\ c.l.suggestion \notin Stopping \ {""} /\ Plain(current')
                 /\ \E act \in Viable(c, loop.tokens) : Becomes(current, act, current', c.l)
  <1>1. /\ Positioned(c) /\ c \in View /\ c.l \in Ledger /\ loop \in Loops
        /\ current \in SemanticStep
    BY TypedView DEF Typed
  <1> DEFINE asked == IF c.l.suggestion \in Stopping \ {""} THEN "" ELSE Asked
             d == NextAction(current, asked, c.l, loop)
  <1>2. /\ phase = "next" /\ c' = [c EXCEPT !.grants = Granted(asked)]
        /\ CASE d.kind = "run"   -> phase' = "step" /\ current' = d.steps[1] /\ begun' = begun + 1
             [] d.kind = "stop"  -> phase' = "done" /\ UNCHANGED <<current, begun>>
             [] d.kind = "raise" -> phase' = "raised" /\ UNCHANGED <<current, begun>>
        /\ UNCHANGED <<loop, before>>
    BY DEF Decide
  <1>3. Decides(d)
    BY <1>1, NextActionDecides
  <1>4. Looks
    BY <1>2, GrantLooks
  <1> DEFINE viable == Viable(c, loop.tokens)
  <1>5. Asked \in {"STOP"} \cup viable
    BY <1>1, CarChoiceViable DEF Asked, Car
  <1>6. viable \subseteq Actions
    BY DEF Viable
  <1> HIDE DEF viable, d
  <1>7. /\ d.kind \in {"run", "stop", "raise"}
        /\ d.kind = "run" => phase' = "step" /\ current' = d.steps[1]
        /\ d.kind = "stop" => phase' = "done"
        /\ d.kind = "raise" => phase' = "raised"
    <2>1. d.kind \in {"run", "stop", "raise"}
      BY <1>3 DEF Decides
    <2> QED
      BY <1>2, <2>1
  <1>8. ASSUME phase' = "step"
        PROVE  /\ c.l.suggestion \notin Stopping \ {""} /\ Plain(current')
               /\ \E act \in viable : Becomes(current, act, current', c.l)
    <2>1. d.kind = "run" /\ current' = d.steps[1]
      BY <1>7, <1>8
    <2>2. c.l.suggestion \notin Stopping \ {""} /\ asked = Asked /\ Asked # "STOP"
      <3>1. CASE c.l.suggestion \in Stopping \ {""} \/ asked = "STOP"
        <4>1. d = StopLoop
          <5>1. "STOP" \notin Actions
            BY DEF Actions, Preparing, Repairing
          <5>2. ~(c.l.suggestion \notin Stopping \ {""} /\ asked \in Actions)
            BY <3>1, <5>1
          <5> HIDE DEF asked
          <5> QED
            BY <3>1, <5>2 DEF d, NextAction
        <4> QED
          BY <2>1, <4>1 DEF StopLoop
      <3>2. CASE ~(c.l.suggestion \in Stopping \ {""} \/ asked = "STOP")
        BY <3>2
      <3> QED
        BY <3>1, <3>2
    <2>3. Asked \in viable /\ Asked \in Actions
      BY <1>5, <1>6, <2>2
    <2>4. d = Forced(current, Asked, c.l, loop)
      BY <2>2, <2>3 DEF d, NextAction
    <2>5. PICK s \in SemanticStep :
              /\ Forced(current, Asked, c.l, loop) = RunUnit(<<s>>) /\ Plain(s)
              /\ \/ Converges(c.l) /\ RefinesFor(Asked, s)
                 \/ Repairs(current, Asked, s, c.l) \/ Expands(Asked, s, c.l) \/ Prepares(Asked, s)
      <3>1. Forced(current, Asked, c.l, loop).kind = "run"
        BY <2>1, <2>4
      <3> QED
        BY <1>1, <2>3, <3>1, ForcedRuns DEF Car
    <2>6. current' = s
      BY <2>1, <2>4, <2>5 DEF RunUnit
    <2>7. Becomes(current, Asked, current', c.l)
      BY <2>5, <2>6 DEF Becomes
    <2> QED
      BY <2>2, <2>3, <2>5, <2>6, <2>7
  <1> QED
    BY <1>2, <1>4, <1>7, <1>8 DEF viable

LEMMA StartEmpty ==
    ASSUME NEW r
    PROVE  StartLedger(r).tried = <<>> /\ StartLedger(r).candidates = <<>>
  <1> DEFINE object == IF r.active = 0 THEN "" ELSE r.chain[r.active].type
             l == StartLedger(r)
  <1>1. l = [tokens |-> r.tokens, late |-> FALSE, steps |-> r.steps, tried |-> <<>>,
             profile |-> "normal", object |-> object,
             guards |-> <<>>, replays |-> <<>>, contracts |-> <<>>, candidates |-> <<>>,
             suggestion |-> ""]
    BY DEF StartLedger
  <1> HIDE DEF l, object
  <1>2. l.tried = <<>> /\ l.candidates = <<>>
    BY <1>1
  <1> QED
    BY <1>2 DEF l

LEMMA AskFirstFrame ==
    ASSUME Typed, AskFirst, Car, c.l = StartLedger(loop), c.m = NoMemory
    PROVE  /\ Looks /\ phase = "first" /\ phase' \in {"step", "done"}
           /\ phase' = "step" => Plain(current')
  <1>1. /\ Positioned(c) /\ c \in View /\ c.l \in Ledger /\ loop \in Loops
    BY TypedView DEF Typed
  <1>2. /\ phase = "first" /\ c' = [c EXCEPT !.grants = Granted(Asked)]
        /\ phase' = IF GoalSatisfied(c) \/ HardExhausted(c.l) THEN "done" ELSE "step"
        /\ current' = FirstUnit(<<loop.program>>, Asked, c.l)[1]
        /\ UNCHANGED <<loop, before>>
    BY DEF AskFirst
  <1>3. Looks
    BY <1>2, GrantLooks
  <1>4. ASSUME phase' = "step"
        PROVE  Plain(current')
    <2>1. ~GoalSatisfied(c)
      BY <1>2, <1>4
    <2>2. "TARGET_RESET" \in Viable(c, loop.tokens)
      <3>1. c.l.tried = <<>> /\ c.l.candidates = <<>>
        BY StartEmpty
      <3> QED
        BY <1>1, <3>1, ResetViable
    <2>3. Asked \in Actions
      <3>1. Asked \in Viable(c, loop.tokens)
        BY <1>1, <2>1, <2>2, CarChoiceViable DEF Asked, Car
      <3> QED
        BY <3>1 DEF Viable
    <2>4. CASE Asked = "LOCAL_REPAIR"
      <3>1. "local" \in Modes /\ c.l.profile \in Profiles
        BY <1>1 DEF Modes, Ledger
      <3>2. Plain(Repair("local", c.l.profile))
        BY <3>1, PlainSteps
      <3>3. FirstUnit(<<loop.program>>, Asked, c.l) = <<Repair("local", c.l.profile)>>
        BY <2>3, <2>4 DEF FirstUnit
      <3> QED
        BY <1>2, <3>2, <3>3
    <2>5. CASE Asked # "LOCAL_REPAIR"
      <3>1. PICK s \in SemanticStep : Follow(Asked) = RunUnit(<<s>>) /\ Plain(s) /\ s.act = Asked
        BY <2>3, <2>5, PlainSteps
      <3>2. FirstUnit(<<loop.program>>, Asked, c.l) = Follow(Asked).steps
        BY <2>3, <2>5 DEF FirstUnit
      <3>3. current' = s
        BY <1>2, <3>1, <3>2 DEF RunUnit
      <3> QED
        BY <3>1, <3>3
    <2> QED
      BY <2>4, <2>5
  <1> QED
    BY <1>2, <1>3, <1>4

(* A replay that comes last is the only one.                               *)
LEMMA OnlyReplay ==
    ASSUME NEW qs, NoReplay(qs), NEW p \in PrimRecord, NEW ps, ps = qs \o <<p>>
    PROVE  \A i \in DOMAIN ps : IsReplay(ps[i]) => ps[i] = p
  <1>1. qs \in Seq(PrimRecord) /\ Len(qs) \in Nat
    BY LenProperties DEF NoReplay, Primitives
  <1>2. <<p>> \in Seq(PrimRecord) /\ Len(<<p>>) = 1 /\ <<p>>[1] = p
    OBVIOUS
  <1>3. /\ ps \in Seq(PrimRecord) /\ Len(ps) = Len(qs) + 1
        /\ \A i \in 1 .. Len(qs) + 1 : ps[i] = IF i <= Len(qs) THEN qs[i] ELSE <<p>>[i - Len(qs)]
    BY <1>1, <1>2, ConcatProperties
  <1>4. DOMAIN ps = 1 .. Len(qs) + 1
    BY <1>3, LenProperties
  <1> SUFFICES ASSUME NEW i \in DOMAIN ps, IsReplay(ps[i])
               PROVE  ps[i] = p
    OBVIOUS
  <1>5. CASE i <= Len(qs)
    <2>1. i \in 1 .. Len(qs) /\ ps[i] = qs[i]
      BY <1>1, <1>3, <1>4, <1>5
    <2> QED
      BY <2>1 DEF NoReplay, IsReplay
  <1>6. CASE ~(i <= Len(qs))
    <2>1. i = Len(qs) + 1
      BY <1>1, <1>4, <1>6
    <2>2. i - Len(qs) = 1
      BY <1>1, <2>1
    <2> QED
      BY <1>2, <1>3, <1>4, <1>6, <2>2
  <1> QED
    BY <1>5, <1>6

(* The replay of a repair carries what its step says.                      *)
LEMMA RepairCompiles ==
    ASSUME NEW s \in SemanticStep, s.act \in Repairing, NEW profile
    PROVE  \A i \in DOMAIN Compile(s, profile) :
              IsReplay(Compile(s, profile)[i]) =>
                 Compile(s, profile)[i] = Prim("CONSTRAINED_REPLAY", s)
  <1> USE DEF Ops
  <1> DEFINE p == IF s.profile = "" THEN profile ELSE s.profile
             boosted == When(p = "boosted", <<Prim("BOOST_EXECUTION", s)>>)
             inspected == When(s.recheck, Inspection(s))
             restored == When(s.anchor # "", <<Prim("ROLLBACK_ANCHOR", s)>>)
             replay == Prim("CONSTRAINED_REPLAY", s)
             local == (restored \o inspected) \o boosted
             broad == inspected \o <<Prim("BOOST_EXECUTION", s)>>
  <1>1. NoReplay(boosted) /\ NoReplay(inspected) /\ NoReplay(restored)
        /\ NoReplay(<<Prim("BOOST_EXECUTION", s)>>)
    BY OnePrim, InspectionType DEF When
  <1>2. replay \in PrimRecord
    BY PrimType
  <1>3. s.act = "LOCAL_REPAIR" => Compile(s, profile) = local \o <<replay>>
    BY DEF Compile
  <1>4. s.act = "SCOPE_EXPAND" => Compile(s, profile) = broad \o <<replay>>
    BY DEF Compile
  <1> HIDE DEF boosted, inspected, restored, replay
  <1>5. NoReplay(local) /\ NoReplay(broad)
    BY <1>1, NoReplayConcat
  <1> HIDE DEF local, broad
  <1>6. \E qs : NoReplay(qs) /\ Compile(s, profile) = qs \o <<replay>>
    BY <1>3, <1>4, <1>5 DEF Repairing
  <1>7. \A i \in DOMAIN Compile(s, profile) :
              IsReplay(Compile(s, profile)[i]) => Compile(s, profile)[i] = replay
    BY <1>2, <1>6, OnlyReplay
  <1> QED
    BY <1>7 DEF replay

LEMMA PlainCompiles ==
    ASSUME Typed, Plain(current)
    PROVE  /\ HasReplay <=> current.act \in Repairing
           /\ HasReplay => ReplayPrim = Prim("CONSTRAINED_REPLAY", current)
  <1>1. c \in View /\ current \in SemanticStep /\ c.l \in Ledger
    BY TypedView DEF Typed
  <1>2. c.l.profile \in Profiles
    BY <1>1 DEF Ledger
  <1>3. EndsInReplay(current) <=> current.act \in Repairing
    BY DEF EndsInReplay, Plain
  <1>4. ~EndsInReplay(current) => ~HasReplay
    <2>1. ~EndsInReplay(current) => NoReplay(Compiled)
      BY <1>1, <1>2, CompileType DEF Compiled
    <2>2. NoReplay(Compiled) => DOMAIN Compiled = 1 .. Len(Compiled)
      BY LenProperties DEF NoReplay, Primitives
    <2> QED
      BY <2>1, <2>2 DEF NoReplay, HasReplay, IsReplay
  <1>5. EndsInReplay(current) => HasReplay
    BY <1>1, PrimitivesType
  <1>6. ASSUME current.act \in Repairing
        PROVE  \A i \in DOMAIN Compiled :
                  IsReplay(Compiled[i]) => Compiled[i] = Prim("CONSTRAINED_REPLAY", current)
    BY <1>1, <1>6, RepairCompiles DEF Compiled
  <1>7. HasReplay => current.act \in Repairing
    BY <1>3, <1>4
  <1>8. ASSUME HasReplay
        PROVE  ReplayPrim = Prim("CONSTRAINED_REPLAY", current)
    BY <1>6, <1>7, <1>8 DEF HasReplay, ReplayPrim
  <1> QED
    BY <1>3, <1>4, <1>5, <1>8

(***************************************************************************)
(* What a verdict says in a loop of CAR, what is learned from it, and how  *)
(* it moves an object.                                                     *)
(***************************************************************************)
Ended == Stopping \ {""}

(* The intent of CAR is broken by a replay without a source edit.          *)
Honest(out) == out.edit \in SourceEdits \/ "intent" \in out.broken
LEMMA IntendedHonest ==
    ASSUME Car, NEW out \in OutcomeRecord
    PROVE  Honest(Intended(out))
  <1> DEFINE broken == [out EXCEPT !.broken = @ \cup {"intent"}]
  <1>1. out.broken \subseteq {"contract", "intent"}
    BY DEF OutcomeRecord
  <1>2. broken.broken = out.broken \cup {"intent"} /\ broken.edit = out.edit
    BY DEF OutcomeRecord
  <1>3. CASE out.edit \notin SourceEdits
    <2>1. Intended(out) = broken
      BY <1>3 DEF Intended, Car
    <2> QED
      BY <1>2, <2>1 DEF Honest
  <1>4. CASE out.edit \in SourceEdits
    <2>1. Intended(out) \in {broken, out}
      BY DEF Intended
    <2> HIDE DEF broken
    <2> QED
      BY <1>2, <1>4, <2>1 DEF Honest
  <1> QED
    BY <1>3, <1>4

(* A guard that does not end the loop: without a fresh source edit it says *)
(* that the intent was broken, and with one on the suspected path it is    *)
(* that of a candidate to refine.                                          *)
Telling(g) ==
    g.suggestion \notin Ended =>
        /\ g.mode \in NoFreshModes => g.mode = "intent_violation_no_fresh_source" /\ ~Fresh(g)
        /\ g.edit \in OnSuspect => g.mode \in CandidateModes
        /\ g.mode # "source_edit_pending_official"

LEMMA JudgedTelling ==
    ASSUME NEW out \in OutcomeRecord, out.edit \in SourceEdits, NEW object, NEW mode,
           mode = ResultMode(out.passed, out.deferred, out.edit)
    PROVE  SuggestNext(mode, out.edit, object) \notin Ended =>
              /\ mode \notin NoFreshModes /\ mode # "source_edit_pending_official"
              /\ out.edit \in OnSuspect => mode \in CandidateModes
  <1>1. out.edit \in {"source", "mixed", "off"} /\ out.passed \in BOOLEAN
    BY DEF OutcomeRecord, SourceEdits, OnSuspect
  <1>2. CASE ~out.passed
    <2>1. mode = FailedMode(out.edit)
      BY <1>2 DEF ResultMode
    <2>2. mode \in {"source_edit_but_not_suspect", "oracle_failed_after_source_edit"}
          /\ (out.edit \in OnSuspect => mode = "oracle_failed_after_source_edit")
      <3>1. CASE out.edit = "off"
        BY <2>1, <3>1 DEF FailedMode, OnSuspect
      <3>2. CASE out.edit \in {"source", "mixed"}
        BY <2>1, <3>2 DEF FailedMode, OnSuspect
      <3> QED
        BY <1>1, <3>1, <3>2
    <2> QED
      BY <2>2 DEF NoFreshModes, CandidateModes, RefinedModes
  <1>3. CASE out.passed /\ out.deferred
    <2>1. mode = DeferredMode(out.edit)
      BY <1>3 DEF ResultMode
    <2>2. mode \in PendingModes
      <3>1. mode \in {"mixed_source_test_pending_official", "source_edit_pending_official",
                      "off_suspect_source_edit_pending_official"}
        <4>1. CASE out.edit = "mixed"
          BY <2>1, <4>1 DEF DeferredMode
        <4>2. CASE out.edit = "source"
          BY <2>1, <4>2 DEF DeferredMode
        <4>3. CASE out.edit = "off"
          BY <2>1, <4>3 DEF DeferredMode
        <4> QED
          BY <1>1, <4>1, <4>2, <4>3
      <3> QED
        BY <3>1 DEF PendingModes
    <2>3. mode \notin {"strong_source_success", "mixed_source_test_success",
                       "checkpoint_or_no_diff_success"}
          /\ mode \notin {"wrong_edit_target", "source_edit_but_not_suspect"}
          /\ mode # "oracle_failed_after_source_edit"
      BY <2>2 DEF PendingModes
    <2>4. SuggestNext(mode, out.edit, object) = "STOP_FOR_OFFICIAL_EVAL"
      BY <2>2, <2>3 DEF SuggestNext
    <2> QED
      BY <2>4 DEF Ended, Stopping
  <1>4. CASE out.passed /\ ~out.deferred
    <2>1. mode = PassedMode(out.edit)
      BY <1>4 DEF ResultMode
    <2>2. CASE out.edit = "off"
      <3>1. mode = "weak_off_suspect_source_success"
        BY <2>1, <2>2 DEF PassedMode
      <3> QED
        BY <2>2, <3>1 DEF NoFreshModes, OnSuspect
    <2>3. CASE out.edit \in {"source", "mixed"}
      <3>1. mode \in {"strong_source_success", "mixed_source_test_success"}
        <4>1. CASE out.edit = "source"
          BY <2>1, <4>1 DEF PassedMode
        <4>2. CASE out.edit = "mixed"
          BY <2>1, <4>2 DEF PassedMode
        <4> QED
          BY <2>3, <4>1, <4>2
      <3>2. mode \notin PendingModes /\ mode \in SuccessModes
        BY <3>1 DEF PendingModes, SuccessModes
      <3>3. SuggestNext(mode, out.edit, object) = "STOP"
        BY <3>1, <3>2 DEF SuggestNext
      <3> QED
        BY <3>3 DEF Ended, Stopping
    <2> QED
      BY <1>1, <2>2, <2>3
  <1> QED
    BY <1>1, <1>2, <1>3, <1>4

LEMMA BuiltTelling ==
    ASSUME NEW out \in OutcomeRecord, Honest(out), NEW object, NEW g, g = BuildGuard(out, object)
    PROVE  Telling(g) /\ g.edit = out.edit
  <1> DEFINE fresh == out.edit \in SourceEdits
             mode == CASE out.broke -> "budget_exhausted"
                       [] ~out.broke /\ "intent" \in out.broken ->
                             IF fresh THEN "intent_violation_after_source_edit"
                                      ELSE "intent_violation_no_fresh_source"
                       [] ~out.broke /\ out.broken = {"contract"} ->
                             IF fresh THEN "contract_violation_after_source_edit"
                                      ELSE "contract_violation_no_fresh_source"
                       [] ~out.broke /\ out.broken = {} ->
                             ResultMode(out.passed, out.deferred, out.edit)
             suggestion == IF out.broke THEN "STOP" ELSE SuggestNext(mode, out.edit, object)
  <1>1. out.broken \subseteq {"contract", "intent"} /\ out.broke \in BOOLEAN
    BY DEF OutcomeRecord
  <1>2. g.mode = mode /\ g.edit = out.edit /\ g.suggestion = suggestion
    BY DEF BuildGuard
  <1>3. /\ out.broke => suggestion = "STOP"
        /\ ~out.broke => suggestion = SuggestNext(mode, out.edit, object)
    OBVIOUS
  <1>4. /\ ~out.broke /\ "intent" \in out.broken =>
              mode = IF fresh THEN "intent_violation_after_source_edit"
                              ELSE "intent_violation_no_fresh_source"
        /\ ~out.broke /\ out.broken = {"contract"} =>
              mode = IF fresh THEN "contract_violation_after_source_edit"
                              ELSE "contract_violation_no_fresh_source"
        /\ ~out.broke /\ out.broken = {} => mode = ResultMode(out.passed, out.deferred, out.edit)
    OBVIOUS
  <1> HIDE DEF mode, suggestion
  <1>5. CASE out.broke
    BY <1>2, <1>3, <1>5 DEF Telling, Ended, Stopping
  <1>6. CASE ~out.broke /\ "intent" \in out.broken /\ out.edit \in SourceEdits
    <2>1. mode = "intent_violation_after_source_edit"
      BY <1>4, <1>6
    <2> QED
      BY <1>2, <2>1 DEF Telling, NoFreshModes, CandidateModes, RefinedModes
  <1>7. CASE ~out.broke /\ "intent" \in out.broken /\ out.edit \notin SourceEdits
    <2>1. mode = "intent_violation_no_fresh_source"
      BY <1>4, <1>7
    <2> QED
      BY <1>2, <1>7, <2>1 DEF Telling, Fresh, SourceEdits
  <1>8. CASE ~out.broke /\ out.broken = {"contract"}
    <2>1. out.edit \in SourceEdits
      BY <1>8 DEF Honest
    <2>2. mode = "contract_violation_after_source_edit"
      BY <1>4, <1>8, <2>1
    <2> QED
      BY <1>2, <2>2 DEF Telling, NoFreshModes, CandidateModes, RefinedModes
  <1>9. CASE ~out.broke /\ out.broken = {}
    <2>1. out.edit \in SourceEdits
      BY <1>9 DEF Honest
    <2>2. mode = ResultMode(out.passed, out.deferred, out.edit)
      BY <1>4, <1>9
    <2>3. SuggestNext(mode, out.edit, object) \notin Ended =>
              /\ mode \notin NoFreshModes /\ mode # "source_edit_pending_official"
              /\ out.edit \in OnSuspect => mode \in CandidateModes
      BY <2>1, <2>2, JudgedTelling
    <2> QED
      BY <1>2, <1>3, <1>9, <2>3 DEF Telling
  <1>10. out.broken = {"contract"} \/ out.broken = {} \/ "intent" \in out.broken
    BY <1>1
  <1> QED
    BY <1>1, <1>2, <1>5, <1>6, <1>7, <1>8, <1>9, <1>10

LEMMA VerdictTelling ==
    ASSUME left \in OutcomeRecord, Honest(left), NEW g \in Verdicts
    PROVE  Telling(g)
  <1> DEFINE built == BuildGuard(left, Cleared.obj)
  <1>1. Telling(built) /\ built \in Guard
    BY BuiltTelling, BuildGuardType
  <1>2. g = built \/ \E passes \in BOOLEAN : g = Probed(built, passes)
    BY DEF Verdicts
  <1> HIDE DEF built
  <1>3. CASE g = built
    BY <1>1, <1>3
  <1>4. CASE \E passes \in BOOLEAN : g = Probed(built, passes)
    <2>1. PICK passes \in BOOLEAN : g = Probed(built, passes)
      BY <1>4
    <2>2. CASE passes
      <3>1. g.suggestion = "STOP_FOR_OFFICIAL_EVAL"
        BY <1>1, <2>1, <2>2 DEF Probed, Guard
      <3> QED
        BY <3>1 DEF Telling, Ended, Stopping
    <2>3. CASE ~passes
      <3>1. g.mode = built.mode /\ g.edit = built.edit /\ g.suggestion = built.suggestion
        BY <1>1, <2>1, <2>3 DEF Probed, Guard
      <3> QED
        BY <1>1, <3>1 DEF Telling, Fresh
    <2> QED
      BY <2>2, <2>3
  <1> QED
    BY <1>2, <1>3, <1>4

(* A repair in vain calls for evidence.                                    *)
LEMMA VainNeedsEvidence ==
    ASSUME NEW m \in Memory, NEW act \in Repairing, NEW mode \in NoFreshModes,
           NEW changed, NEW costly, NEW known
    PROVE  NeedsEvidence(Learn(m, act, mode, changed, costly, known))
  <1> DEFINE moved == changed /\ ~(mode \in NoFreshModes /\ ~Fresh(known))
             event == [act |-> act, mode |-> mode, costly |-> costly,
                       revision |-> Revision(act, mode, moved)]
             learned == Learn(m, act, mode, changed, costly, known)
  <1>1. learned.events = Append(m.events, event)
    BY DEF Learn, Memory
  <1>2. /\ act \notin Rechecks \cup {"REVOKE_OBJECT"} /\ act # "TARGET_RESET"
        /\ act \notin Rechecks /\ act # "REVOKE_OBJECT"
    BY DEF Repairing, Rechecks
  <1> HIDE DEF moved
  <1>3. Revision(act, mode, moved) = "invalidated_no_progress"
    <2> DEFINE rest == CASE mode \in NoFreshModes -> "invalidated_no_progress"
                         [] mode = "strong_source_success" -> "reinforced_source_candidate"
                         [] mode \in ProgressModes -> "candidate_preserved_unverified"
                         [] OTHER -> IF moved THEN "observed_evidence" ELSE "unresolved"
    <2>1. Revision(act, mode, moved) = rest
      BY <1>2 DEF Revision
    <2>2. mode # "strong_source_success" /\ mode \notin ProgressModes
      BY DEF NoFreshModes, ProgressModes
    <2>3. rest = "invalidated_no_progress"
      BY <2>2
    <2> QED
      BY <2>1, <2>3
  <1>4. event.act = act /\ event.revision = "invalidated_no_progress"
    BY <1>3
  <1> HIDE DEF event
  <1>5. Newest(learned) = event
    <2>1. m.events \in Seq(EventRecord)
      BY DEF Memory
    <2>2. /\ Len(m.events) \in Nat
          /\ Len(Append(m.events, event)) = Len(m.events) + 1
          /\ Append(m.events, event)[Len(m.events) + 1] = event
      <3>1. m.events \in Seq(EventRecord \cup {event}) /\ event \in EventRecord \cup {event}
        BY <2>1
      <3> QED
        BY <3>1, AppendProperties, LenProperties
    <2>3. Append(m.events, event) # <<>>
      <3>1. Len(Append(m.events, event)) # 0
        BY <2>2
      <3> QED
        BY <3>1, EmptySeq
    <2> QED
      BY <1>1, <2>2, <2>3 DEF Newest, Last
  <1> QED
    BY <1>2, <1>4, <1>5 DEF NeedsEvidence

(***************************************************************************)
(* What a ledger says of its candidates, and what it takes from its        *)
(* histories.                                                              *)
(***************************************************************************)
(* A candidate is not due to be refined.                                   *)
NotDue(l) ==
    CandidateReplayed(l) \/ ~HasCandidate(l) \/ BestCandidate(l).doubtful \/ ~BestCandidate(l).onSuspect
LEMMA ConvergesUnlessRefined ==
    ASSUME NEW l
    PROVE  /\ ~Converges(l) => NotDue(l)
           /\ NotDue(l) /\ Latest(l).mode = "intent_violation_no_fresh_source" => ~Converges(l)
  BY DEF Converges, NotDue

LEMMA StatusMeans ==
    ASSUME NEW l, Status(l) = "exhausted"
    PROVE  CandidateReplayed(l)
  <1> DEFINE inVain == CandidateReplayed(l)
                      /\ Latest(l).mode \in (CandidateModes \ {"source_edit_pending_official"})
                                            \cup (NoFreshModes \ {"wrong_edit_target"})
             rest == IF "source_edit_pending_official" \in {Latest(l).mode, CarCandidate(l).mode}
                     THEN "pending_validation"
                     ELSE IF "oracle_failed_after_source_edit" \in {Latest(l).mode, CarCandidate(l).mode}
                     THEN "needs_refine" ELSE "unresolved"
  <1>1. Status(l) = CASE inVain -> "exhausted"
                      [] ~CarCandidate(l).onSuspect /\ ~inVain -> "off_target"
                      [] OTHER -> rest
    BY DEF Status
  <1>2. rest # "exhausted"
    OBVIOUS
  <1>3. inVain => CandidateReplayed(l)
    OBVIOUS
  <1> HIDE DEF inVain, rest
  <1>4. CASE ~inVain /\ ~CarCandidate(l).onSuspect
    BY <1>1, <1>4
  <1>5. CASE ~inVain /\ CarCandidate(l).onSuspect
    BY <1>1, <1>2, <1>5
  <1> QED
    BY <1>3, <1>4, <1>5

(* The best candidate is that of the candidates alone.                     *)
BestAmong(candidates) ==
    candidates[CHOOSE i \in DOMAIN candidates : \A j \in DOMAIN candidates :
                  CandidateRank(candidates, i) >= CandidateRank(candidates, j)]

LEMMA SameCandidates ==
    ASSUME NEW l, NEW l1, l1.candidates = l.candidates
    PROVE  HasCandidate(l1) = HasCandidate(l) /\ BestCandidate(l1) = BestCandidate(l)
  <1>1. HasCandidate(l1) = HasCandidate(l)
    BY DEF HasCandidate
  <1>2. BestCandidate(l) = BestAmong(l.candidates) /\ BestCandidate(l1) = BestAmong(l1.candidates)
    BY DEF BestCandidate, BestAmong
  <1> QED
    BY <1>1, <1>2

(***************************************************************************)
(* The replays of a ledger l are in the order they were tried; a boost was *)
(* tried once; and after a barren replay something was prepared before the *)
(* next one, unless the loop refined a candidate, the barren replay was a  *)
(* repair, and the next one widens the boundary.                           *)
(***************************************************************************)
Excused(l, i) ==
    /\ \E k \in 1 .. i : l.replays[k].pre = "source_candidate_refine"
    /\ l.replays[i].act = "LOCAL_REPAIR" /\ l.replays[i + 1].act = "SCOPE_EXPAND"
PreparedIn(l, low, high) == \E k \in low .. high : l.tried[k] \in Preparing
Evened(l) ==
    /\ \A i, j \in DOMAIN l.replays : i < j => l.replays[i].tried < l.replays[j].tried
    /\ \A i, j \in DOMAIN l.tried :
          l.tried[i] = "CAPABILITY_BOOST" /\ l.tried[j] = "CAPABILITY_BOOST" => i = j
    /\ \A i \in DOMAIN l.guards :
          i + 1 \in DOMAIN l.replays /\ l.guards[i].mode \in NoFreshModes /\ ~Excused(l, i) =>
             PreparedIn(l, l.replays[i].tried + 1, l.replays[i + 1].tried - 1)
(* Each was tried before what is tried next.                               *)
InTime(l) == \A i \in DOMAIN l.replays : l.replays[i].tried <= Len(l.tried) + 1

LEMMA WithinBounds ==
    ASSUME NEW a \in Nat, NEW b \in Nat, NEW n \in Nat, b <= n + 1, NEW k \in a + 1 .. b - 1
    PROVE  k \in 1 .. n
  OBVIOUS

LEMMA EvenedAfterTry ==
    ASSUME NEW l \in Ledger, NEW l2 \in Ledger, Evened(l), InTime(l), NEW act \in Actions,
           l2.tried = Append(l.tried, act), l2.replays = l.replays,
           act = "CAPABILITY_BOOST" => ~Tried(l, act),
           \/ l2.guards = l.guards
           \/ Len(l.guards) + 1 = Len(l.replays) /\ \E g \in Guard : l2.guards = Append(l.guards, g)
    PROVE  Evened(l2)
  <1> DEFINE n == Len(l.tried)
  <1>1. /\ n \in Nat /\ DOMAIN l.tried = 1 .. n /\ Len(l.replays) \in Nat /\ Len(l.guards) \in Nat
        /\ DOMAIN l.replays = 1 .. Len(l.replays) /\ DOMAIN l.guards = 1 .. Len(l.guards)
        /\ \A i \in DOMAIN l.replays : l.replays[i].tried \in Nat
        /\ l.guards \in Seq(Guard) /\ l.tried \in Seq(Actions)
    BY LedgerType
  <1>2. /\ Len(Append(l.tried, act)) = n + 1
        /\ \A k \in 1 .. n : Append(l.tried, act)[k] = l.tried[k]
        /\ Append(l.tried, act)[n + 1] = act
    BY <1>1, AppendProperties
  <1>3. DOMAIN l2.tried = 1 .. n + 1
    BY <1>2, LedgerType
  <1> HIDE DEF n
  <1>4. /\ \A k \in 1 .. n : l2.tried[k] = l.tried[k] /\ k \in DOMAIN l.tried
        /\ l2.tried[n + 1] = act
    BY <1>1, <1>2
  <1>5. \A i, j \in DOMAIN l2.replays : i < j => l2.replays[i].tried < l2.replays[j].tried
    BY DEF Evened
  <1>6. \A i, j \in DOMAIN l2.tried :
          l2.tried[i] = "CAPABILITY_BOOST" /\ l2.tried[j] = "CAPABILITY_BOOST" => i = j
    <2>1. \A i \in DOMAIN l2.tried : i \in 1 .. n \/ i = n + 1
      BY <1>1, <1>3
    <2>2. act = "CAPABILITY_BOOST" => \A k \in 1 .. n : l2.tried[k] # "CAPABILITY_BOOST"
      BY <1>4 DEF Tried
    <2>3. \A i, j \in 1 .. n :
            l2.tried[i] = "CAPABILITY_BOOST" /\ l2.tried[j] = "CAPABILITY_BOOST" => i = j
      BY <1>4 DEF Evened
    <2> QED
      BY <1>4, <2>1, <2>2, <2>3
  <1>7. \A i \in DOMAIN l2.guards :
          i + 1 \in DOMAIN l2.replays => i \in DOMAIN l.guards /\ l2.guards[i] = l.guards[i]
    <2>1. CASE l2.guards = l.guards
      BY <2>1
    <2>2. CASE Len(l.guards) + 1 = Len(l.replays) /\ \E g \in Guard : l2.guards = Append(l.guards, g)
      <3>1. PICK g \in Guard : l2.guards = Append(l.guards, g)
        BY <2>2
      <3>2. \A i \in 1 .. Len(l.guards) : Append(l.guards, g)[i] = l.guards[i]
        BY <1>1, AppendProperties
      <3>3. \A i \in DOMAIN l2.guards : i \in Nat /\ i > 0
        BY LedgerType
      <3>4. \A i \in DOMAIN l2.guards : i + 1 \in DOMAIN l2.replays => i \in 1 .. Len(l.guards)
        BY <1>1, <2>2, <3>3
      <3> QED
        BY <1>1, <3>1, <3>2, <3>4
    <2> QED
      BY <2>1, <2>2
  <1>8. ASSUME NEW i \in DOMAIN l2.guards, i + 1 \in DOMAIN l2.replays,
               l2.guards[i].mode \in NoFreshModes, ~Excused(l2, i)
        PROVE  PreparedIn(l2, l2.replays[i].tried + 1, l2.replays[i + 1].tried - 1)
    <2>1. i \in DOMAIN l.guards /\ l.guards[i].mode \in NoFreshModes /\ ~Excused(l, i)
      BY <1>7, <1>8 DEF Excused
    <2>2. PICK k \in l.replays[i].tried + 1 .. l.replays[i + 1].tried - 1 : l.tried[k] \in Preparing
      BY <1>8, <2>1 DEF Evened, PreparedIn
    <2>3. k \in 1 .. n
      <3>1. i \in DOMAIN l.replays
        BY <1>1, <1>8, <2>1
      <3>2. l.replays[i].tried \in Nat /\ l.replays[i + 1].tried \in Nat
            /\ l.replays[i + 1].tried <= n + 1
        BY <1>1, <1>8, <3>1 DEF InTime, n
      <3> QED
        BY <1>1, <2>2, <3>2, WithinBounds
    <2> QED
      BY <1>4, <2>2, <2>3 DEF PreparedIn
  <1> QED
    BY <1>5, <1>6, <1>8 DEF Evened

LEMMA EvenedAfterReplay ==
    ASSUME NEW l \in Ledger, NEW l2 \in Ledger, Evened(l), Len(l.guards) = Len(l.replays),
           \A i \in DOMAIN l.replays : l.replays[i].tried <= Len(l.tried),
           l2.tried = l.tried, l2.guards = l.guards, Len(l2.replays) = Len(l.replays) + 1,
           \A i \in 1 .. Len(l.replays) : l2.replays[i] = l.replays[i],
           l2.replays[Len(l.replays) + 1].tried = Len(l.tried) + 1,
           Len(l.replays) > 0 /\ l.guards[Len(l.guards)].mode \in NoFreshModes
              /\ ~Excused(l2, Len(l.replays)) =>
                    PreparedIn(l, l.replays[Len(l.replays)].tried + 1, Len(l.tried))
    PROVE  Evened(l2)
  <1> DEFINE n == Len(l.replays)
             t == Len(l.tried)
  <1>1. /\ n \in Nat /\ t \in Nat /\ DOMAIN l.replays = 1 .. n /\ DOMAIN l.guards = 1 .. n
        /\ \A i \in DOMAIN l.replays : l.replays[i].tried \in Nat
        /\ DOMAIN l2.replays = 1 .. n + 1
    BY LedgerType
  <1> HIDE DEF n, t
  <1>2. \A i \in 1 .. n : l2.replays[i].tried \in Nat /\ l2.replays[i].tried <= t
                          /\ l2.replays[i] = l.replays[i]
    BY <1>1 DEF n, t
  <1>3. l2.replays[n + 1].tried = t + 1
    BY DEF n, t
  <1>4. \A i \in DOMAIN l2.replays : i \in 1 .. n \/ i = n + 1
    BY <1>1
  <1>5. ASSUME NEW i \in DOMAIN l2.replays, NEW j \in DOMAIN l2.replays, i < j
        PROVE  l2.replays[i].tried < l2.replays[j].tried
    <2>1. i \in 1 .. n
      BY <1>1, <1>5
    <2>2. CASE j \in 1 .. n
      BY <1>1, <1>2, <1>5, <2>1, <2>2 DEF Evened
    <2>3. CASE j = n + 1
      BY <1>1, <1>2, <1>3, <2>1, <2>3
    <2> QED
      BY <1>4, <2>2, <2>3
  <1>6. ASSUME NEW i \in DOMAIN l2.guards, i + 1 \in DOMAIN l2.replays,
               l2.guards[i].mode \in NoFreshModes, ~Excused(l2, i)
        PROVE  PreparedIn(l2, l2.replays[i].tried + 1, l2.replays[i + 1].tried - 1)
    <2>1. i \in 1 .. n
      BY <1>1
    <2>2. CASE i + 1 \in 1 .. n
      <3>1. l2.replays[i] = l.replays[i] /\ l2.replays[i + 1] = l.replays[i + 1]
        BY <1>2, <2>1, <2>2
      <3>2. ~Excused(l, i)
        <4>1. \A k \in 1 .. i : k \in 1 .. n
          BY <1>1, <2>1
        <4>2. \A k \in 1 .. i : l2.replays[k] = l.replays[k]
          BY <1>2, <4>1
        <4> QED
          BY <1>6, <3>1, <4>2 DEF Excused
      <3>3. PreparedIn(l, l.replays[i].tried + 1, l.replays[i + 1].tried - 1)
        BY <1>1, <1>6, <2>1, <2>2, <3>2 DEF Evened
      <3> QED
        BY <3>1, <3>3 DEF PreparedIn
    <2>3. CASE i = n
      <3>1. PreparedIn(l, l.replays[n].tried + 1, t)
        <4>1. n > 0 /\ Len(l.guards) = n /\ l.guards[n].mode \in NoFreshModes /\ ~Excused(l2, n)
          BY <1>1, <1>6, <2>1, <2>3 DEF n
        <4> QED
          BY <4>1 DEF n, t
      <3>2. l2.replays[i + 1].tried - 1 = t
        BY <1>1, <1>3, <2>3
      <3>3. l2.replays[i].tried = l.replays[n].tried
        BY <1>2, <2>1, <2>3
      <3> QED
        BY <3>1, <3>2, <3>3 DEF PreparedIn
    <2>4. i + 1 \in 1 .. n \/ i = n
      BY <1>1, <2>1
    <2> QED
      BY <2>2, <2>3, <2>4
  <1> QED
    BY <1>5, <1>6 DEF Evened

(* Which is what the property says.                                        *)
LEMMA EvenedSpares ==
    ASSUME Typed, Car => Evened(c.l)
    PROVE  EvidenceBetweenReplays
  <1> SUFFICES ASSUME Car
               PROVE  /\ \A i \in WithoutEvidence : \E k \in Meantime(i) : c.l.tried[k] = "CAPABILITY_BOOST"
                      /\ \A i, j \in WithoutEvidence : i = j
    BY DEF EvidenceBetweenReplays, Car
  <1>1. c.l \in Ledger /\ Evened(c.l)
    BY TypedView DEF Typed
  <1>2. /\ Len(c.l.tried) \in Nat /\ DOMAIN c.l.tried = 1 .. Len(c.l.tried)
        /\ DOMAIN c.l.replays = 1 .. Len(c.l.replays) /\ DOMAIN c.l.guards = 1 .. Len(c.l.guards)
        /\ Len(c.l.replays) \in Nat /\ Len(c.l.guards) \in Nat
        /\ \A i \in DOMAIN c.l.replays : c.l.replays[i].tried \in Nat
    BY <1>1, LedgerType
  <1>3. \A i \in DOMAIN c.l.replays : c.l.replays[i].tried <= Len(c.l.tried) + 1
    <2>1. \A i \in DOMAIN c.l.replays :
             c.l.replays[i].tried <= Len(c.l.tried) + 1 \/ c.l.replays[i].tried <= Len(c.l.tried)
      BY DEF Typed, Playing
    <2> QED
      BY <1>2, <2>1
  <1>4. ASSUME NEW i \in WithoutEvidence
        PROVE  /\ i \in DOMAIN c.l.replays /\ i + 1 \in DOMAIN c.l.replays
               /\ \E k \in Meantime(i) : k \in DOMAIN c.l.tried /\ c.l.tried[k] = "CAPABILITY_BOOST"
    <2>1. /\ i \in DOMAIN c.l.guards /\ i + 1 \in DOMAIN c.l.replays
          /\ c.l.guards[i].mode \in NoFreshModes /\ ~Excused(c.l, i)
          /\ \A k \in Meantime(i) : c.l.tried[k] \notin Cheap
      BY DEF WithoutEvidence, Excused, LeavesBoundary
    <2>2. i \in DOMAIN c.l.replays
      BY <1>2, <2>1
    <2>3. PICK k \in c.l.replays[i].tried + 1 .. c.l.replays[i + 1].tried - 1 : c.l.tried[k] \in Preparing
      BY <1>1, <2>1 DEF Evened, PreparedIn
    <2>4. k \in Meantime(i)
      BY <2>3 DEF Meantime
    <2>5. c.l.tried[k] = "CAPABILITY_BOOST"
      BY <2>1, <2>3, <2>4 DEF Preparing, Cheap
    <2>6. k \in DOMAIN c.l.tried
      <3>1. c.l.replays[i].tried \in Nat /\ c.l.replays[i + 1].tried \in Nat
            /\ c.l.replays[i + 1].tried <= Len(c.l.tried) + 1
        BY <1>2, <1>3, <2>1, <2>2
      <3> QED
        BY <1>2, <2>3, <3>1, WithinBounds
    <2> QED
      BY <2>1, <2>2, <2>4, <2>5, <2>6
  <1>5. ASSUME NEW i \in WithoutEvidence, NEW j \in WithoutEvidence, i < j
        PROVE  FALSE
    <2> DEFINE l1 == c.l.replays[i + 1].tried
               l2 == c.l.replays[j].tried
    <2>1. PICK k \in Meantime(i) : k \in DOMAIN c.l.tried /\ c.l.tried[k] = "CAPABILITY_BOOST"
      BY <1>4
    <2>2. PICK m \in Meantime(j) : m \in DOMAIN c.l.tried /\ c.l.tried[m] = "CAPABILITY_BOOST"
      BY <1>4
    <2>3. k = m
      BY <1>1, <2>1, <2>2 DEF Evened
    <2>4. /\ i \in DOMAIN c.l.replays /\ i + 1 \in DOMAIN c.l.replays /\ j \in DOMAIN c.l.replays
          /\ j + 1 \in DOMAIN c.l.replays
      BY <1>4
    <2>5. c.l.replays[i + 1].tried <= c.l.replays[j].tried
      <3>1. CASE i + 1 = j
        BY <1>2, <2>4, <3>1
      <3>2. CASE i + 1 # j
        <4>1. i + 1 < j
          BY <1>2, <1>5, <2>4, <3>2
        <4>2. c.l.replays[i + 1].tried < c.l.replays[j].tried
          BY <1>1, <2>4, <4>1 DEF Evened
        <4> QED
          BY <1>2, <2>4, <4>2
      <3> QED
        BY <3>1, <3>2
    <2>6. k <= c.l.replays[i + 1].tried - 1 /\ m >= c.l.replays[j].tried + 1 /\ k \in Nat /\ m \in Nat
      BY <1>2, <2>1, <2>2, <2>4 DEF Meantime
    <2>7. l1 \in Nat /\ l2 \in Nat
      BY <1>2, <2>4 DEF l1, l2
    <2>8. k <= l1 - 1 /\ m >= l2 + 1 /\ l1 <= l2
      BY <2>5, <2>6 DEF l1, l2
    <2> HIDE DEF l1, l2
    <2> QED
      BY <2>3, <2>6, <2>7, <2>8
  <1>6. ASSUME NEW i \in WithoutEvidence, NEW j \in WithoutEvidence
        PROVE  i = j
    <2>1. i \in Nat /\ j \in Nat
      BY <1>2, <1>4
    <2> QED
      BY <1>5, <2>1
  <1> QED
    BY <1>4, <1>6

(***************************************************************************)
(* The inductive invariant: what holds of the view v and the step s before *)
(* the step is taken, while its replay o is judged, and before CAR is      *)
(* asked again; bf: the step before was a replay.                          *)
(***************************************************************************)
LatestReplay(l) == l.replays[Len(l.replays)]
(* A candidate on the suspected path waits for a refinement.               *)
Settled == {x \in CandidateRecord : x.onSuspect => x.mode \in CandidateModes}
SuspectsJudged(l) == l.candidates \in Seq(Settled)
(* Something was prepared since the last replay.                           *)
PreparedLately(l) ==
    l.replays # <<>> => PreparedIn(l, LatestReplay(l).tried + 1, Len(l.tried))
LastWas(l, s) == LatestReplay(l).act = s.act /\ LatestReplay(l).pre = s.pre
Again(s) == Prim("CONSTRAINED_REPLAY", s)

AtStep(v, bf, s) ==
    /\ Plain(s) /\ SuspectsJudged(v.l)
    /\ ~bf => PreparedLately(v.l)
    /\ s.act = "CAPABILITY_BOOST" => ~Tried(v.l, s.act)
    /\ s.act \in Repairing /\ s.pre # Refining => NotDue(v.l)
    /\ s.act \in Repairing /\ bf /\ Barren(v.l) =>
          /\ s.act = "SCOPE_EXPAND"
          /\ \/ CandidateReplayed(v.l) /\ LatestReplay(v.l).act = "LOCAL_REPAIR"
             \/ RepeatsBlocked(v.l, Again(s), s.act)
AtJudge(v, o, s) ==
    /\ Plain(s) /\ s.act \in Repairing /\ SuspectsJudged(v.l)
    /\ Honest(o) /\ NotDue(v.l) /\ LastWas(v.l, s)
AtNext(v, bf, s) ==
    /\ Plain(s)
    /\ ~bf => PreparedLately(v.l)
    /\ bf => s.act \in Repairing /\ LastWas(v.l, s)
    /\ v.l.suggestion \notin Ended =>
          /\ SuspectsJudged(v.l)
          /\ bf /\ Barren(v.l) =>
                /\ Latest(v.l).mode = "intent_violation_no_fresh_source" /\ NeedsEvidence(v.m)
                /\ NotDue(v.l)
                /\ s.act = "SCOPE_EXPAND" => RepeatsBlocked(v.l, Again(s), s.act)

CarInv ==
    Car => /\ Evened(c.l)
           /\ phase = "first" => c.l = StartLedger(loop) /\ c.m = NoMemory /\ ~before
           /\ phase = "step" => AtStep(c, before, current)
           /\ phase = "judge" => AtJudge(c, left, current)
           /\ phase = "next" => AtNext(c, before, current)

(* A candidate that would be refined waits for it.                         *)
LEMMA SuspectsConverge ==
    ASSUME NEW l \in Ledger, SuspectsJudged(l), Converges(l)
    PROVE  CandidateJudged(l)
  <1>1. HasCandidate(l) /\ BestCandidate(l).onSuspect
    BY DEF Converges
  <1>2. PICK i \in DOMAIN l.candidates : BestCandidate(l) = l.candidates[i]
    BY <1>1, BestCandidateType
  <1>3. l.candidates[i] \in Settled
    BY LenProperties, ElementOfSeq DEF SuspectsJudged
  <1> QED
    BY <1>1, <1>2, <1>3 DEF CandidateJudged, Settled

(* The latest intent is the one of the last contract.                      *)
LEMMA LastIntent ==
    ASSUME NEW l, l.contracts # <<>>
    PROVE  LatestIntentFiles(l) = l.contracts[Len(l.contracts)].signature.files
  BY Zenon DEF LatestIntentFiles

(* What is chosen after a step.                                            *)
LEMMA StepChosen ==
    ASSUME NEW v \in View, v.active \in {0} \cup DOMAIN v.chain, NEW initial, NEW bf \in BOOLEAN,
           NEW last, AtNext(v, bf, last), v.l.suggestion \notin Ended,
           NEW act \in Viable(v, initial), NEW s, Plain(s), Becomes(last, act, s, v.l)
    PROVE  AtStep(v, bf, s)
  <1>1. /\ v.l \in Ledger /\ act \in Actions /\ s.act \in Actions /\ last.act \in Actions
        /\ SuspectsJudged(v.l) /\ (~bf => PreparedLately(v.l))
    BY DEF View, Viable, Plain, SemanticStep, AtNext
  <1>2. /\ "LOCAL_REPAIR" \in Repairing /\ "SCOPE_EXPAND" \in Repairing
        /\ \A a \in Preparing : a \notin Repairing
        /\ "CAPABILITY_BOOST" \notin Repairing
    BY DEF Preparing, Repairing
  <1>3. Expand.act = "SCOPE_EXPAND" /\ Expand.pre # Refining
    BY DEF Expand, Do, Refining
  <1>4. CASE RefinesFor(act, s) /\ Converges(v.l)
    <2>1. s.act = "LOCAL_REPAIR" /\ s.pre = Refining
      BY <1>4 DEF RefinesFor
    <2>2. ~(bf /\ Barren(v.l))
      BY <1>1, <1>4, ConvergesUnlessRefined DEF AtNext
    <2> QED
      BY <1>1, <1>2, <2>1, <2>2 DEF AtStep
  <1>5. CASE Repairs(last, act, s, v.l)
    <2>1. /\ s.act = "LOCAL_REPAIR" /\ act = "LOCAL_REPAIR" /\ s.pre # Refining /\ last.act \in Preparing
          /\ ~(Converges(v.l) /\ CandidateJudged(v.l))
      BY <1>5 DEF Repairs
    <2>2. ~bf
      BY <1>2, <2>1 DEF AtNext
    <2>3. NotDue(v.l)
      BY <1>1, <2>1, SuspectsConverge, ConvergesUnlessRefined
    <2> QED
      BY <1>1, <2>1, <2>2, <2>3 DEF AtStep
  <1>6. CASE Expands(act, s, v.l)
    <2>1. /\ act = "SCOPE_EXPAND" /\ s = Expand /\ ~(Converges(v.l) /\ CandidateJudged(v.l))
      BY <1>6 DEF Expands
    <2>2. NotDue(v.l)
      BY <1>1, <2>1, SuspectsConverge, ConvergesUnlessRefined
    <2>3. ASSUME bf, Barren(v.l)
          PROVE  \/ CandidateReplayed(v.l) /\ LatestReplay(v.l).act = "LOCAL_REPAIR"
                 \/ RepeatsBlocked(v.l, Again(s), s.act)
      <3>1. NeedsEvidence(v.m) /\ last.act \in Repairing /\ LastWas(v.l, last) /\ Plain(last)
        BY <2>3 DEF AtNext
      <3>2. SwitchesBoundary(v, act)
        BY <2>1, <3>1, ViablePasses
      <3>3. CandidateReplayed(v.l)
        BY <3>2, StatusMeans DEF SwitchesBoundary
      <3>4. CASE last.act = "SCOPE_EXPAND"
        <4>1. last = Expand
          BY <3>1, <3>4 DEF Plain
        <4> QED
          BY <1>3, <2>1, <2>3, <3>4, <4>1 DEF AtNext
      <3>5. CASE last.act = "LOCAL_REPAIR"
        BY <3>1, <3>3, <3>5 DEF LastWas
      <3> QED
        BY <3>1, <3>4, <3>5 DEF Repairing
    <2>4. s.act = "SCOPE_EXPAND"
      BY <1>3, <2>1
    <2> QED
      BY <1>1, <2>2, <2>3, <2>4 DEF AtStep
  <1>7. CASE Prepares(act, s)
    <2>1. s.act = act /\ act \in Preparing
      BY <1>7 DEF Prepares
    <2>2. s.act \notin Repairing
      BY <1>2, <2>1
    <2>3. s.act = "CAPABILITY_BOOST" => ~Tried(v.l, s.act)
      BY <2>1, ViablePasses
    <2> QED
      BY <1>1, <2>2, <2>3 DEF AtStep
  <1> QED
    BY <1>4, <1>5, <1>6, <1>7 DEF Becomes

(* A view is what these read of it.                                        *)
LEMMA SameView ==
    ASSUME NEW v, NEW w, w.l = v.l, NEW bf, NEW s, AtStep(v, bf, s)
    PROVE  AtStep(w, bf, s)
  BY DEF AtStep

(***************************************************************************)
(* The steps.                                                              *)
(***************************************************************************)
LEMMA TypedTimes ==
    ASSUME Typed
    PROVE  InTime(c.l) /\ (phase # "judge" => \A i \in DOMAIN c.l.replays : c.l.replays[i].tried <= Len(c.l.tried))
  <1>1. /\ DOMAIN c.l.replays = 1 .. Len(c.l.replays) /\ Len(c.l.tried) \in Nat
        /\ \A i \in DOMAIN c.l.replays : c.l.replays[i].tried \in Nat
    BY TypedView, LedgerType DEF Typed
  <1>2. \A i \in DOMAIN c.l.replays :
           \/ c.l.replays[i].tried <= Len(c.l.tried)
           \/ phase = "judge" /\ c.l.replays[i].tried <= Len(c.l.tried) + 1
    BY DEF Typed, Playing
  <1> QED
    BY <1>1, <1>2 DEF InTime

LEMMA TypedAct ==
    ASSUME Typed
    PROVE  /\ c \in View /\ c.l \in Ledger /\ c.m \in Memory /\ current.act \in Actions
           /\ c.active \in {0} \cup DOMAIN c.chain /\ before \in BOOLEAN /\ loop \in Loops
           /\ (phase = "judge" => left \in OutcomeRecord)
  <1>1. c \in View /\ c.l \in Ledger /\ c.active \in {0} \cup DOMAIN c.chain
    BY TypedView DEF Typed, Positioned
  <1>2. c.m \in Memory
    BY <1>1 DEF View
  <1>3. current.act \in Actions
    BY TypedView DEF Typed, SemanticStep
  <1>4. before \in BOOLEAN /\ loop \in Loops /\ (phase = "judge" => left \in OutcomeRecord)
    BY DEF Typed, ControlledTypeOK
  <1> QED
    BY <1>1, <1>2, <1>3, <1>4

LEMMA TypedAfter ==
    ASSUME Typed'
    PROVE  c'.l \in Ledger
  BY DEF Typed, ControlledTypeOK

LEMMA CutShortEvened ==
    ASSUME Typed, Typed', Evened(c.l), AtStep(c, before, current), NEW chain, Tries(chain),
           c'.l.guards = c.l.guards
    PROVE  Evened(c'.l)
  <1>1. c.l \in Ledger /\ c'.l \in Ledger /\ current.act \in Actions
    BY TypedAct, TypedAfter
  <1>2. InTime(c.l)
    BY TypedTimes
  <1>3. current.act = "CAPABILITY_BOOST" => ~Tried(c.l, current.act)
    BY DEF AtStep
  <1>4. c'.l.tried = Append(c.l.tried, current.act) /\ c'.l.replays = c.l.replays
    BY DEF Tries
  <1> QED
    BY <1>1, <1>2, <1>3, <1>4, EvenedAfterTry

LEMMA PrepareKeeps ==
    ASSUME Typed, Prepare, Car, Evened(c.l), AtStep(c, before, current)
    PROVE  Evened(c'.l) /\ AtNext(c', before', current')
  <1>1. /\ Typed' /\ Tries(Moved("", "none")) /\ c'.l.guards = c.l.guards /\ current.act \notin Repairing
        /\ phase = "step"
        /\ c'.l.candidates = c.l.candidates /\ c'.active = Cleared.at
    BY PrepareStep
  <1>2. before' = FALSE /\ current' = current
    BY DEF Prepare
  <1>3. Evened(c'.l)
    BY <1>1, CutShortEvened
  <1>4. /\ c'.chain = Moved("", "none") /\ c'.l.tried = Append(c.l.tried, current.act)
        /\ c'.l.replays = c.l.replays
    BY <1>1 DEF Tries
  <1>5. PreparedLately(c'.l)
    <2> SUFFICES ASSUME c.l.replays # <<>>
                 PROVE  PreparedIn(c'.l, LatestReplay(c.l).tried + 1, Len(c'.l.tried))
      BY <1>4 DEF PreparedLately, LatestReplay
    <2>1. /\ c.l.replays \in Seq(ReplayRecord) /\ Len(c.l.replays) \in Nat
          /\ DOMAIN c.l.replays = 1 .. Len(c.l.replays)
          /\ \A i \in DOMAIN c.l.replays : c.l.replays[i].tried \in Nat
          /\ c.l.tried \in Seq(Actions) /\ Len(c.l.tried) \in Nat
      BY TypedAct, LedgerType
    <2>2. Len(c.l.replays) \in DOMAIN c.l.replays
      BY <2>1, EmptySeq
    <2>3. LatestReplay(c.l).tried \in Nat /\ LatestReplay(c.l).tried <= Len(c.l.tried)
      BY <1>1, <2>1, <2>2, TypedTimes DEF LatestReplay
    <2>4. /\ Len(c'.l.tried) = Len(c.l.tried) + 1
          /\ c'.l.tried[Len(c.l.tried) + 1] = current.act
      <3>1. current.act \in Actions
        BY TypedAct
      <3>2. /\ Len(Append(c.l.tried, current.act)) = Len(c.l.tried) + 1
            /\ Append(c.l.tried, current.act)[Len(c.l.tried) + 1] = current.act
        BY <2>1, <3>1, AppendProperties
      <3> QED
        BY <1>4, <3>2
    <2>5. current.act \in Preparing
      BY <1>1, TypedAct DEF Actions
    <2>6. Len(c.l.tried) + 1 \in LatestReplay(c.l).tried + 1 .. Len(c'.l.tried)
      BY <2>1, <2>3, <2>4
    <2> QED
      BY <2>4, <2>5, <2>6 DEF PreparedIn
  <1>6. Plain(current) /\ SuspectsJudged(c'.l)
    BY <1>1 DEF AtStep, SuspectsJudged
  <1> QED
    BY <1>2, <1>3, <1>5, <1>6 DEF AtNext

LEMMA RunReplayKeeps ==
    ASSUME Typed, RunReplay, Car, Evened(c.l), AtStep(c, before, current)
    PROVE  Evened(c'.l) /\ AtJudge(c', left', current')
  <1> DEFINE n == Len(c.l.replays)
  <1>1. /\ Typed' /\ c'.chain = c.chain /\ c'.l.tried = c.l.tried /\ c'.l.guards = c.l.guards
        /\ Len(c'.l.replays) = n + 1
        /\ \A i \in 1 .. n : c'.l.replays[i] = c.l.replays[i]
        /\ c'.l.replays[n + 1].tried = Len(c.l.tried) + 1
        /\ c'.l.replays[n + 1].act = current.act
        /\ c'.l.replays[n + 1].pre = ReplayPrim.pre
        /\ c'.l.candidates = c.l.candidates /\ c'.active = c.active
        /\ current' = current /\ phase = "step"
    BY RunReplayStep
  <1>2. HasReplay /\ ~Gated(c.l, ReplayPrim, current.act, loop, Informed(c.m))
        /\ left' \in {Intended(out) : out \in loop.outcomes}
    BY DEF RunReplay
  <1>3. Plain(current) /\ current.act \in Repairing /\ ReplayPrim = Again(current)
    BY <1>2, PlainCompiles DEF AtStep, Again
  <1>4. ReplayPrim.op = "CONSTRAINED_REPLAY" /\ ReplayPrim.pre = current.pre
    BY <1>3 DEF Again, Prim
  <1>5. /\ c.l \in Ledger /\ c'.l \in Ledger /\ n \in Nat /\ Len(c.l.guards) = n
        /\ DOMAIN c.l.replays = 1 .. n /\ DOMAIN c'.l.replays = 1 .. n + 1
    <2>1. c.l \in Ledger /\ c'.l \in Ledger
      BY <1>1, TypedAct, TypedAfter
    <2>2. n \in Nat /\ DOMAIN c.l.replays = 1 .. n /\ DOMAIN c'.l.replays = 1 .. n + 1
      BY <1>1, <2>1, LedgerType
    <2>3. Len(c.l.guards) = n - 0
      BY <1>1 DEF Typed, ControlledTypeOK
    <2> QED
      BY <2>1, <2>2, <2>3
  <1> HIDE DEF n
  <1>6. ~RepeatsBlocked(c.l, Again(current), current.act)
    BY <1>2, <1>3, <1>4 DEF Gated, Refused
  <1>7. LatestReplay(c'.l) = c'.l.replays[n + 1] /\ LastWas(c'.l, current)
    BY <1>1, <1>4 DEF LatestReplay, LastWas
  <1>8. Evened(c'.l)
    <2>1. \A i \in DOMAIN c.l.replays : c.l.replays[i].tried <= Len(c.l.tried)
      BY <1>1, TypedTimes
    <2>2. ASSUME n > 0, c.l.guards[Len(c.l.guards)].mode \in NoFreshModes, ~Excused(c'.l, n)
          PROVE  PreparedIn(c.l, c.l.replays[n].tried + 1, Len(c.l.tried))
      <3>1. c.l.replays # <<>> /\ c.l.guards # <<>>
        BY <1>5, <2>2, EmptySeq DEF n
      <3>2. Barren(c.l) /\ LatestReplay(c.l) = c.l.replays[n]
        BY <2>2, <3>1 DEF Barren, Latest, LatestReplay, n
      <3>3. CASE before
        <4>1. /\ current.act = "SCOPE_EXPAND"
              /\ \/ CandidateReplayed(c.l) /\ LatestReplay(c.l).act = "LOCAL_REPAIR"
                 \/ RepeatsBlocked(c.l, Again(current), current.act)
          BY <1>3, <3>2, <3>3 DEF AtStep
        <4>2. CandidateReplayed(c.l) /\ c.l.replays[n].act = "LOCAL_REPAIR"
          BY <1>6, <3>2, <4>1
        <4>3. PICK k \in 1 .. n : c.l.replays[k].pre = "source_candidate_refine"
          BY <1>5, <4>2 DEF CandidateReplayed
        <4>4. n \in 1 .. n
          BY <1>5, <2>2
        <4>5. /\ c'.l.replays[k].pre = "source_candidate_refine"
              /\ c'.l.replays[n].act = "LOCAL_REPAIR" /\ c'.l.replays[n + 1].act = "SCOPE_EXPAND"
          BY <1>1, <4>1, <4>2, <4>3, <4>4 DEF n
        <4> QED
          BY <2>2, <4>5 DEF Excused
      <3>4. CASE ~before
        <4>1. PreparedLately(c.l)
          BY <3>4 DEF AtStep
        <4> QED
          BY <3>1, <3>2, <4>1 DEF PreparedLately
      <3> QED
        BY <3>3, <3>4
    <2>3. /\ Len(c.l.guards) = Len(c.l.replays) /\ c'.l.tried = c.l.tried /\ c'.l.guards = c.l.guards
          /\ Len(c'.l.replays) = Len(c.l.replays) + 1
          /\ \A i \in 1 .. Len(c.l.replays) : c'.l.replays[i] = c.l.replays[i]
          /\ c'.l.replays[Len(c.l.replays) + 1].tried = Len(c.l.tried) + 1
      BY <1>1, <1>5 DEF n
    <2>4. Len(c.l.replays) > 0 /\ c.l.guards[Len(c.l.guards)].mode \in NoFreshModes
              /\ ~Excused(c'.l, Len(c.l.replays)) =>
                    PreparedIn(c.l, c.l.replays[Len(c.l.replays)].tried + 1, Len(c.l.tried))
      BY <2>2 DEF n
    <2> QED
      BY <1>5, <2>1, <2>3, <2>4, EvenedAfterReplay
  <1>9. CandidateReplayed(c'.l) <=> CandidateReplayed(c.l) \/ current.pre = Refining
    <2>1. \A i \in DOMAIN c'.l.replays : i \in 1 .. n \/ i = n + 1
      BY <1>5
    <2>2. \A i \in 1 .. n : i \in DOMAIN c'.l.replays
      BY <1>5
    <2>3. n + 1 \in DOMAIN c'.l.replays
      BY <1>5
    <2> QED
      BY <1>1, <1>4, <1>5, <2>1, <2>2, <2>3 DEF CandidateReplayed, Refining
  <1>10. NotDue(c'.l)
    <2>1. CASE current.pre = Refining
      BY <1>9, <2>1 DEF NotDue
    <2>2. CASE current.pre # Refining
      <3>1. NotDue(c.l)
        BY <1>3, <2>2 DEF AtStep
      <3>2. HasCandidate(c'.l) = HasCandidate(c.l) /\ BestCandidate(c'.l) = BestCandidate(c.l)
        BY <1>1, SameCandidates
      <3> QED
        BY <1>9, <3>1, <3>2 DEF NotDue
    <2> QED
      BY <2>1, <2>2
  <1>11. Honest(left')
    <2>1. PICK out \in loop.outcomes : left' = Intended(out)
      BY <1>2
    <2>2. out \in OutcomeRecord
      BY TypedAct, LoopType
    <2> QED
      BY <2>1, <2>2, IntendedHonest
  <1>12. SuspectsJudged(c'.l)
    BY <1>1 DEF AtStep, SuspectsJudged
  <1> QED
    BY <1>1, <1>3, <1>7, <1>8, <1>10, <1>11, <1>12 DEF AtJudge

LEMMA JudgeKeeps ==
    ASSUME Typed, JudgeReplay, Car, Evened(c.l), AtJudge(c, left, current)
    PROVE  Evened(c'.l) /\ AtNext(c', before', current')
  <1>1. /\ Typed' /\ current' = current /\ phase = "judge"
        /\ \E g \in Verdicts, saved \in BOOLEAN : g \in Guard /\ Judgement(g, saved)
    BY JudgeReplayStep
  <1>2. PICK g \in Verdicts, saved \in BOOLEAN : g \in Guard /\ Judgement(g, saved)
    BY <1>1
  <1>3. before' = TRUE
    BY DEF JudgeReplay
  <1>4. /\ c'.l.guards = Append(c.l.guards, g)
        /\ c'.l.contracts = Append(c.l.contracts, Contract(c.l, ReplayPrim, current.act, g, loop.controller))
        /\ c'.l.candidates = Remember(c.l.candidates, g, saved)
        /\ c'.l.suggestion \in {"STOP", g.suggestion}
        /\ c'.m = Episodes(c.m, g, Last(c.l.replays).cost) /\ c'.active = Cleared.at
        /\ c'.chain = Moved(g.mode, g.edit) /\ c'.l.tried = Append(c.l.tried, current.act)
        /\ c'.l.replays = c.l.replays
    BY <1>2 DEF Judgement, Tries
  <1>5. /\ c.l \in Ledger /\ c'.l \in Ledger /\ current.act \in Repairing /\ current.act \in Actions
        /\ c.m \in Memory /\ left \in OutcomeRecord /\ Plain(current) /\ Honest(left)
    BY <1>1, TypedAct, TypedAfter DEF AtJudge
  <1>6. Telling(g)
    BY <1>5, VerdictTelling
  <1>7. Evened(c'.l)
    <2>1. Len(c.l.guards) + 1 = Len(c.l.replays)
      <3>1. Len(c.l.guards) = Len(c.l.replays) - 1
        BY <1>1 DEF Typed, ControlledTypeOK
      <3> QED
        BY <1>5, <3>1, LedgerType
    <2>2. InTime(c.l)
      BY TypedTimes
    <2>3. current.act # "CAPABILITY_BOOST"
      BY <1>5 DEF Repairing
    <2>4. \E h \in Guard : c'.l.guards = Append(c.l.guards, h)
      BY <1>2, <1>4
    <2> QED
      BY <1>4, <1>5, <2>1, <2>2, <2>3, <2>4, EvenedAfterTry
  <1>8. Latest(c'.l) = g
    <2>1. c.l.guards \in Seq(Guard) /\ Len(c.l.guards) \in Nat /\ g \in Guard
      BY <1>2, <1>5, LedgerType
    <2>2. /\ Append(c.l.guards, g) \in Seq(Guard) /\ Len(Append(c.l.guards, g)) = Len(c.l.guards) + 1
          /\ Append(c.l.guards, g)[Len(c.l.guards) + 1] = g
      BY <2>1, AppendProperties
    <2>3. Append(c.l.guards, g) # <<>>
      BY <2>1, <2>2, EmptySeq
    <2> QED
      BY <1>4, <2>2, <2>3 DEF Latest
  <1>9. CandidateReplayed(c'.l) = CandidateReplayed(c.l) /\ LastWas(c'.l, current)
    BY <1>4 DEF AtJudge, LastWas, LatestReplay, CandidateReplayed
  <1> SUFFICES ASSUME c'.l.suggestion \notin Ended
               PROVE  /\ SuspectsJudged(c'.l)
                      /\ Barren(c'.l) =>
                            /\ Latest(c'.l).mode = "intent_violation_no_fresh_source"
                            /\ NeedsEvidence(c'.m) /\ NotDue(c'.l)
                            /\ current.act = "SCOPE_EXPAND" =>
                                  RepeatsBlocked(c'.l, Again(current), current.act)
    BY <1>1, <1>3, <1>5, <1>7, <1>9 DEF AtNext
  <1>10. /\ g.mode \in NoFreshModes => g.mode = "intent_violation_no_fresh_source" /\ ~Fresh(g)
         /\ g.edit \in OnSuspect => g.mode \in CandidateModes
    <2>1. g.suggestion \notin Ended
      BY <1>4 DEF Ended, Stopping
    <2> QED
      BY <1>6, <2>1 DEF Telling
  <1>11. SuspectsJudged(c'.l)
    <2>1. CandidateOf(g, saved) \in CandidateRecord
      BY <1>2, CandidateOfType
    <2>2. CandidateOf(g, saved) \in Settled
      BY <1>10, <2>1 DEF CandidateOf, Settled
    <2>3. c.l.candidates \in Seq(Settled)
      BY DEF AtJudge, SuspectsJudged
    <2> QED
      BY <1>4, <2>2, <2>3, RememberIn DEF SuspectsJudged
  <1>12. ASSUME Barren(c'.l)
         PROVE  /\ Latest(c'.l).mode = "intent_violation_no_fresh_source"
                /\ NeedsEvidence(c'.m) /\ NotDue(c'.l)
                /\ current.act = "SCOPE_EXPAND" => RepeatsBlocked(c'.l, Again(current), current.act)
    <2>1. g.mode \in NoFreshModes /\ g.mode = "intent_violation_no_fresh_source" /\ ~Fresh(g)
      BY <1>8, <1>10, <1>12 DEF Barren
    <2>2. c'.l.candidates = c.l.candidates
      BY <1>4, <2>1 DEF Remember, Rememberable
    <2>3. HasCandidate(c'.l) = HasCandidate(c.l) /\ BestCandidate(c'.l) = BestCandidate(c.l)
      BY <2>2, SameCandidates
    <2>4. NotDue(c'.l)
      BY <1>9, <2>3 DEF AtJudge, NotDue
    <2>5. NeedsEvidence(c'.m)
      <3> DEFINE known == IF before THEN Latest(c.l) ELSE g
                 changed == g.edit # "none"
                 costly == 10 * Last(c.l.replays).cost >= 3 * loop.tokens
      <3>1. c'.m = Learn(c.m, current.act, g.mode, changed, costly, known)
        BY <1>4, <1>5 DEF Episodes, Car
      <3> HIDE DEF known, changed, costly
      <3> QED
        BY <1>5, <2>1, <3>1, VainNeedsEvidence
    <2>6. RepeatsBlocked(c'.l, Again(current), current.act)
      <3> DEFINE contract == Contract(c.l, ReplayPrim, current.act, g, loop.controller)
                 k == Len(c.l.contracts) + 1
      <3>1. ReplayPrim = Again(current)
        BY <1>1, <1>5, PlainCompiles DEF Again, Typed, Playing
      <3>2. /\ contract.signature
                  = Signature(Again(current), current.act, IntentFiles(c.l, loop.controller))
            /\ contract.blocked
            /\ contract.sequence = ConditioningSequence(c'.l.tried)
        BY <1>4, <2>1, <3>1 DEF Contract, BlockedIfRepeated
      <3>3. /\ c.l.contracts \in Seq(ContractRecord) /\ Len(c.l.contracts) \in Nat
            /\ c'.l.contracts \in Seq(ContractRecord)
        BY <1>5, LedgerType
      <3>4. contract \in ContractRecord
        <4>1. ReplayPrim \in PrimRecord
          BY <3>1, TypedView DEF Again, Prim, PrimRecord, Ops, Typed, SemanticStep
        <4> QED
          BY <1>2, <1>5, <4>1, ContractType
      <3> HIDE DEF contract, k
      <3>5. c'.l.contracts = Append(c.l.contracts, contract)
        BY <1>4 DEF contract
      <3>6. Len(c'.l.contracts) = k /\ c'.l.contracts[k] = contract
        BY <3>3, <3>4, <3>5, AppendProperties DEF k
      <3>7. k \in DOMAIN c'.l.contracts
        <4>1. DOMAIN c'.l.contracts = 1 .. Len(c'.l.contracts)
          BY <3>3, LenProperties
        <4> QED
          BY <3>3, <3>6, <4>1 DEF k
      <3>8. LatestIntentFiles(c'.l) = IntentFiles(c.l, loop.controller)
        <4>1. c'.l.contracts # <<>>
          BY <3>3, <3>7, EmptySeq
        <4>2. contract.signature.files = IntentFiles(c.l, loop.controller)
          BY <3>2 DEF Signature
        <4> QED
          BY <3>6, <4>1, <4>2, LastIntent
      <3> QED
        BY <3>2, <3>6, <3>7, <3>8 DEF RepeatsBlocked
    <2> QED
      BY <1>8, <2>1, <2>4, <2>5, <2>6
  <1> QED
    BY <1>11, <1>12

LEMMA CarInvInit ==
    ASSUME ControlledInit
    PROVE  CarInv
  <1>1. c.l = StartLedger(loop) /\ c.m = NoMemory /\ ~before /\ phase = "first" /\ loop \in Loops
    BY DEF ControlledInit
  <1>2. /\ DOMAIN c.l.replays = {} /\ DOMAIN c.l.guards = {} /\ DOMAIN c.l.tried = {}
    BY <1>1, StartLedgerType, StartEmpty, EmptySeq
  <1>3. Evened(c.l)
    BY <1>2 DEF Evened
  <1> QED
    BY <1>1, <1>3 DEF CarInv

LEMMA AskFirstCar ==
    ASSUME Typed, CarInv, Car, AskFirst
    PROVE  Evened(c'.l) /\ phase' \in {"step", "done"}
           /\ (phase' = "step" => AtStep(c', before', current'))
  <1>1. phase = "first" /\ Evened(c.l) /\ c.l = StartLedger(loop) /\ c.m = NoMemory /\ ~before
    BY DEF AskFirst, CarInv
  <1>2. Looks /\ phase' \in {"step", "done"} /\ (phase' = "step" => Plain(current'))
    BY <1>1, AskFirstFrame
  <1>3. /\ c'.l = c.l /\ before' = before /\ loop \in Loops
    BY <1>2, TypedAct DEF Looks
  <1>4. /\ c.l.replays = <<>> /\ c.l.tried = <<>> /\ c.l.candidates = <<>>
    BY <1>1, <1>3, StartLedgerType, StartEmpty
  <1>5. /\ ~CandidateReplayed(c.l) /\ ~HasCandidate(c.l) /\ \A act : ~Tried(c.l, act)
    BY <1>4, EmptySeq DEF CandidateReplayed, HasCandidate, Tried
  <1>6. SuspectsJudged(c.l)
    BY <1>4, EmptySeq DEF SuspectsJudged
  <1>7. PreparedLately(c.l) /\ NotDue(c.l)
    BY <1>4, <1>5 DEF PreparedLately, NotDue
  <1>8. ASSUME phase' = "step"
        PROVE  AtStep(c', before', current')
    BY <1>1, <1>2, <1>3, <1>5, <1>6, <1>7, <1>8 DEF AtStep
  <1> QED
    BY <1>1, <1>2, <1>3, <1>8

LEMMA DecideCar ==
    ASSUME Typed, CarInv, Car, Decide
    PROVE  Evened(c'.l) /\ phase' \in {"step", "done", "raised"}
           /\ (phase' = "step" => AtStep(c', before', current'))
  <1>1. phase = "next" /\ Evened(c.l) /\ AtNext(c, before, current)
    BY DEF Decide, CarInv
  <1>2. current.anchor # "initial"
    BY <1>1 DEF AtNext, Plain
  <1>3. /\ Looks /\ phase' \in {"step", "done", "raised"}
        /\ phase' = "step" =>
              /\ c.l.suggestion \notin Ended /\ Plain(current')
              /\ \E act \in Viable(c, loop.tokens) : Becomes(current, act, current', c.l)
    BY <1>2, DecideFrame DEF Ended
  <1>4. c'.l = c.l /\ before' = before
    BY <1>3 DEF Looks
  <1>5. ASSUME phase' = "step"
        PROVE  AtStep(c', before', current')
    <2>1. PICK act \in Viable(c, loop.tokens) : Becomes(current, act, current', c.l)
      BY <1>3, <1>5
    <2>2. c \in View /\ c.active \in {0} \cup DOMAIN c.chain /\ before \in BOOLEAN
      BY TypedAct
    <2>3. c.l.suggestion \notin Ended /\ Plain(current')
      BY <1>3, <1>5
    <2> DEFINE s == current'
    <2>4. Becomes(current, act, s, c.l) /\ Plain(s)
      BY <2>1, <2>3
    <2> HIDE DEF s
    <2>5. AtStep(c, before, s)
      BY <1>1, <2>1, <2>2, <2>3, <2>4, StepChosen
    <2>6. AtStep(c, before, current')
      BY <2>5 DEF s
    <2> QED
      BY <1>4, <2>6, SameView
  <1> QED
    BY <1>1, <1>3, <1>4, <1>5

LEMMA CarInvNext ==
    ASSUME Typed, CarInv, [ControlledNext]_controlledVars
    PROVE  CarInv'
  <1>1. loop' = loop
    BY DEF ControlledNext, Progress, AskFirst, Decide, EndLoop, Prepare, RefuseReplay, RunReplay,
           JudgeReplay, RunOut, controlledVars
  <1> SUFFICES ASSUME Car
               PROVE  /\ Evened(c'.l)
                      /\ phase' = "first" => c'.l = StartLedger(loop) /\ c'.m = NoMemory /\ ~before'
                      /\ phase' = "step" => AtStep(c', before', current')
                      /\ phase' = "judge" => AtJudge(c', left', current')
                      /\ phase' = "next" => AtNext(c', before', current')
    BY <1>1 DEF CarInv, Car
  <1>2. Evened(c.l)
    BY DEF CarInv
  <1>3. CASE AskFirst
    BY <1>3, AskFirstCar
  <1>4. CASE Decide
    BY <1>4, DecideCar
  <1>5. CASE EndLoop
    BY <1>2, <1>5 DEF EndLoop
  <1>6. CASE Prepare
    <2>1. phase = "step" /\ phase' = "next"
      BY <1>6, PrepareStep
    <2>2. AtStep(c, before, current)
      BY <2>1 DEF CarInv
    <2> QED
      BY <1>2, <1>6, <2>1, <2>2, PrepareKeeps
  <1>7. CASE RefuseReplay
    <2>1. /\ Typed' /\ Tries(Moved("budget_exhausted", "none")) /\ c'.l.guards = c.l.guards
          /\ phase = "step" /\ phase' = "done"
      BY <1>7, RefuseReplayStep
    <2>2. AtStep(c, before, current)
      BY <2>1 DEF CarInv
    <2> QED
      BY <1>2, <2>1, <2>2, CutShortEvened
  <1>8. CASE RunReplay
    <2>1. phase = "step" /\ phase' = "judge"
      BY <1>8, RunReplayStep
    <2>2. AtStep(c, before, current)
      BY <2>1 DEF CarInv
    <2> QED
      BY <1>2, <1>8, <2>1, <2>2, RunReplayKeeps
  <1>9. CASE JudgeReplay
    <2>1. phase = "judge" /\ phase' = "next"
      BY <1>9, JudgeReplayStep
    <2>2. AtJudge(c, left, current)
      BY <2>1 DEF CarInv
    <2> QED
      BY <1>2, <1>9, <2>1, <2>2, JudgeKeeps
  <1>10. CASE RunOut /\ phase # "step"
    <2>1. c' = c /\ phase' = "done"
      BY <1>10, RunOutStep
    <2> QED
      BY <1>2, <2>1
  <1>11. CASE RunOut /\ phase = "step"
    <2>1. /\ Typed' /\ Tries(Moved("budget_exhausted", "none")) /\ c'.l.guards = c.l.guards
          /\ phase' = "done"
      BY <1>11, RunOutShort
    <2>2. AtStep(c, before, current)
      BY <1>11 DEF CarInv
    <2> QED
      BY <1>2, <2>1, <2>2, CutShortEvened
  <1>12. CASE UNCHANGED controlledVars
    BY <1>12 DEF controlledVars, CarInv
  <1> QED
    BY <1>3, <1>4, <1>5, <1>6, <1>7, <1>8, <1>9, <1>10, <1>11, <1>12 DEF ControlledNext, Progress

(* CAR never pays for a replay right after one that left no fresh source   *)
(* edit: in a loop of execute_semantic, however it is set up and whatever  *)
(* its replays leave, a cheap action comes between the two, except that a  *)
(* capability boost may stand in for it once, and that a loop that refined *)
(* a candidate may widen the boundary right after a repair in vain         *)
(* (select_car_action with _car_forced_action_program, and the signature   *)
(* gate, which keeps one expansion from following another).                *)
THEOREM EvidenceBeforeReplays == ControlledSpec => []EvidenceBetweenReplays
  <1>1. ControlledInit => Typed /\ CarInv
    BY TypedInit, CarInvInit
  <1>2. Typed /\ CarInv /\ [ControlledNext]_controlledVars => Typed' /\ CarInv'
    BY TypedNext, CarInvNext
  <1>3. Typed /\ CarInv => EvidenceBetweenReplays
    BY EvenedSpares DEF CarInv
  <1> QED
    BY <1>1, <1>2, <1>3, PTL DEF ControlledSpec

=============================================================================
