---------------------- MODULE EnforcedRecoveryProofs ----------------------
(***************************************************************************)
(* What an attempt of EnforcedRecovery reports, for every set of trees,    *)
(* everything the gates may find out about them and every set-up.          *)
(***************************************************************************)
EXTENDS EnforcedRecovery, TLAPS

(***************************************************************************)
(* The types.                                                              *)
(***************************************************************************)
LEMMA RunFields ==
    ASSUME TypeOK
    PROVE  run.scope \in Scopes /\ run.intent \in {"off", "gate", "advisory"}
  BY RunsAssumption DEF TypeOK, AttemptSetting

LEMMA TreeFacts ==
    /\ Head \in Trees /\ Previous \in Trees /\ Candidate \in Trees /\ Mixed \in Trees
    /\ \A t \in Trees : Diff[t] \in Texts /\ t \in Texts
    /\ Blank \in Texts /\ Placeholder \in Texts
  BY TreesAssumption, DiffAssumption DEF Texts

LEMMA OntoIsTree ==
    ASSUME NEW p \in Trees, NEW t \in Trees
    PROVE  Onto(p, t) \in Trees
  BY TreeFacts DEF Onto

LEMMA GreenIsBoolean ==
    ASSUME NEW t
    PROVE  Green(t) \in BOOLEAN
  BY DEF Green

LEMMA JudgeType ==
    ASSUME tree \in Trees, Judge
    PROVE  verdict' \in Verdict
  BY GreenIsBoolean DEF Judge, Verdict

LEMMA ReportType ==
    ASSUME NEW stop \in Stops, NEW success \in BOOLEAN, NEW text \in Texts, NEW usage \in Nat,
           Report(stop, success, text, usage)
    PROVE  row' \in RowRecord /\ pc' \in Places
  BY DEF Report, RowRecord, Places

LEMMA GotoType ==
    ASSUME row \in RowRecord, NEW next \in Places, Goto(next)
    PROVE  row' \in RowRecord /\ pc' \in Places
  BY DEF Goto

LEMMA VerdictType ==
    ASSUME patch' \in PatchRecord, fault' \in Faults, counted' \in Nat,
           UNCHANGED <<patch, fault, counted>>, NEW green \in BOOLEAN, ReportVerdict(green)
    PROVE  row' \in RowRecord /\ pc' \in Places
  <1>1. (IF fault # "none" THEN fault ELSE IF green THEN "verified" ELSE "patcher_failed") \in Stops
    BY DEF Faults, Stops
  <1>2. patch.text \in Texts
    BY DEF PatchRecord
  <1> QED
    BY <1>1, <1>2, ReportType DEF ReportVerdict

(* Adopted or not, a revision leaves a patch.                              *)
LEMMA AdoptType ==
    ASSUME TypeOK, NEW c \in PatcherCalls(tree), Adopt(c)
    PROVE  /\ tree' \in Trees /\ calls' \in Nat /\ counted' \in Nat
           /\ patch' \in PatchRecord /\ patch'.text \in Texts /\ fault' \in Faults
  <1>1. c \in CallRecord
    BY DEF PatcherCalls
  <1>2. c.tree \in Trees /\ c.text \in Texts /\ c.summary \in BOOLEAN /\ c.fault \in Faults
    BY <1>1 DEF CallRecord
  <1>3. calls + 1 \in Nat
    BY DEF TypeOK
  <1>4. patch' \in PatchRecord
    BY <1>2, <1>3 DEF Adopt, PatchRecord, TypeOK
  <1>5. patch'.text \in Texts
    BY <1>4 DEF PatchRecord
  <1> QED
    BY <1>2, <1>3, <1>4, <1>5 DEF Adopt, TypeOK

LEMMA InitType == Init => TypeOK
  <1>1. NoRow \in RowRecord /\ NoPatch \in PatchRecord /\ NoVerdict \in Verdict
    BY TreeFacts DEF NoRow, NoPatch, NoVerdict, RowRecord, PatchRecord, Verdict, Stops
  <1>2. ASSUME Init PROVE blocked \in BOOLEAN /\ session \in BOOLEAN
    BY <1>2, Zenon DEF Init
  <1>3. ASSUME Init PROVE run \in Runs /\ pc \in Places /\ tree \in Trees /\ fault \in Faults
    BY <1>3, TreeFacts DEF Init, Places, Faults
  <1>4. ASSUME Init
        PROVE  /\ patch \in PatchRecord /\ verdict \in Verdict /\ row \in RowRecord
               /\ calls \in Nat /\ counted \in Nat
    <2>1. patch = NoPatch /\ verdict = NoVerdict /\ row = NoRow /\ calls = 0 /\ counted = 0
      BY <1>4 DEF Init
    <2> QED
      BY <1>1, <2>1
  <1> QED
    BY <1>2, <1>3, <1>4 DEF TypeOK

(* The place and the row after a step of each action.                      *)
LEMMA PlaceAndRow ==
    ASSUME TypeOK, Next
    PROVE  row' \in RowRecord /\ pc' \in Places
  <1> USE ReportType, GotoType, TreeFacts, GreenIsBoolean
  <1>0. /\ row \in RowRecord /\ patch.text \in Texts /\ counted \in Nat /\ 0 \in Nat
        /\ Candidate \in Texts /\ run.scope \in Scopes
    BY RunFields, TreeFacts DEF TypeOK, PatchRecord
  <1>1. CASE Materialize
    BY <1>0, <1>1 DEF Materialize, Places
  <1>2. CASE StartSession
    BY <1>0, <1>2 DEF StartSession, Places
  <1>3. CASE ReplayPrevious
    BY <1>0, <1>3 DEF ReplayPrevious, Places, Stops
  <1>4. CASE Validate
    BY <1>0, <1>4 DEF Validate, Places, Scopes, Verifying, Guarded, Patching
  <1>5. CASE EvaluationBlocked
    BY <1>0, <1>5 DEF EvaluationBlocked, Places, Stops
  <1>6. CASE Verify
    BY <1>0, <1>6 DEF Verify, Places, Stops
  <1>7. CASE Probe
    BY <1>0, <1>7 DEF Probe, Places, Stops
  <1>8. CASE Reset
    BY <1>0, <1>8 DEF Reset, Places, Stops
  <1>9. CASE ReplayCandidate
    BY <1>0, <1>9 DEF ReplayCandidate, Places, Stops
  <1>10. CASE Patch
    BY <1>0, <1>10 DEF Patch, Places, Stops
  <1>11. CASE InvariantsHold
    BY <1>0, <1>11 DEF InvariantsHold, Places, Stops
  <1>12. CASE ReviseInvariants
    BY <1>0, <1>12, AdoptType DEF ReviseInvariants, Places, Stops
  <1>13. CASE IntentHolds
    BY <1>0, <1>13 DEF IntentHolds, Places, Stops
  <1>14. CASE IntentStops
    BY <1>0, <1>14 DEF IntentStops, Places, Stops
  <1>15. CASE ReviseIntent
    BY <1>0, <1>15, AdoptType DEF ReviseIntent, Places, Stops
  <1>16. CASE CandidateOnly
    BY <1>0, <1>16 DEF CandidateOnly, Places, Stops
  <1>17. CASE SyntaxHolds
    BY <1>0, <1>17 DEF SyntaxHolds, Places, Stops
  <1>18. CASE SyntaxStops
    BY <1>0, <1>18 DEF SyntaxStops, Places, Stops
  <1>19. CASE ReviseSyntax
    BY <1>0, <1>19, AdoptType DEF ReviseSyntax, Places, Stops
  <1>20. CASE Collect
    BY <1>0, <1>20 DEF Collect, Places, Stops
  <1>21. CASE Evaluate
    BY <1>0, <1>21, VerdictType DEF Evaluate, Places, Stops, TypeOK
  <1>22. CASE ReviseSpan
    BY <1>0, <1>22, AdoptType, VerdictType DEF ReviseSpan, Places, Stops, TypeOK
  <1>23. CASE Reevaluate
    BY <1>0, <1>23, VerdictType DEF Reevaluate, Places, Stops, TypeOK
  <1>24. CASE SpecifyCandidate
    BY <1>0, <1>24 DEF SpecifyCandidate, Places, Stops
  <1>25. CASE ApplyCandidate
    BY <1>0, <1>25 DEF ApplyCandidate, Places, Stops
  <1>26. CASE Raise
    BY <1>0, <1>26 DEF Raise, Places, Stops
  <1>27. CASE Close
    BY <1>0, <1>27 DEF Close, Places
  <1> QED
    BY <1>1, <1>2, <1>3, <1>4, <1>5, <1>6, <1>7, <1>8, <1>9, <1>10, <1>11, <1>12, <1>13, <1>14, <1>15, <1>16, <1>17, <1>18, <1>19, <1>20, <1>21, <1>22, <1>23, <1>24, <1>25, <1>26, <1>27
       DEF Next, Prepare, Guard, GatePatch, GateWorkspace, Score

(* The other variables.                                                    *)
LEMMA TreeType ==
    ASSUME TypeOK, Next
    PROVE  tree' \in Trees
  <1>1. CASE ReviseInvariants \/ ReviseIntent \/ ReviseSyntax
    BY <1>1, AdoptType DEF ReviseInvariants, ReviseIntent, ReviseSyntax
  <1>2. CASE ReviseSpan
    BY <1>2, AdoptType DEF ReviseSpan, PatcherCalls, CallRecord
  <1>3. CASE Patch
    BY <1>3 DEF Patch, PatcherCalls, CallRecord
  <1>4. CASE ReplayCandidate \/ ApplyCandidate
    BY <1>4, TreeFacts, OntoIsTree DEF ReplayCandidate, ApplyCandidate, TypeOK
  <1>5. CASE ReplayPrevious \/ Reset
    BY <1>5, TreeFacts DEF ReplayPrevious, Reset, TypeOK
  <1>6. CASE UNCHANGED tree
    BY <1>6 DEF TypeOK
  <1> QED
    BY <1>1, <1>2, <1>3, <1>4, <1>5, <1>6
       DEF Next, Prepare, Guard, GatePatch, GateWorkspace, Score, Materialize, StartSession,
           Validate, EvaluationBlocked, Verify, Probe, InvariantsHold, IntentHolds, IntentStops,
           CandidateOnly, SyntaxHolds, SyntaxStops, Collect, Evaluate, Reevaluate,
           SpecifyCandidate, Raise, Close

LEMMA PatchType ==
    ASSUME TypeOK, Next
    PROVE  /\ patch' \in PatchRecord /\ fault' \in Faults
           /\ calls' \in Nat /\ counted' \in Nat
  <1>1. CASE ReviseInvariants \/ ReviseIntent \/ ReviseSyntax
    BY <1>1, AdoptType DEF ReviseInvariants, ReviseIntent, ReviseSyntax
  <1>2. CASE ReviseSpan
    <2>1. PICK c \in PatcherCalls(tree) :
             Adopt(c) \/ (calls' = calls + 1 /\ UNCHANGED <<patch, fault, counted>>)
      BY <1>2 DEF ReviseSpan
    <2> QED
      BY <2>1, AdoptType DEF TypeOK
  <1>3. CASE Patch
    <2>1. PICK c \in PatcherCalls(tree) :
             /\ patch' = [text |-> c.text, source |-> c.tree, summary |-> c.summary,
                          call |-> calls + 1]
             /\ fault' = c.fault
      BY <1>3 DEF Patch
    <2>2. c.tree \in Trees /\ c.text \in Texts /\ c.summary \in BOOLEAN /\ c.fault \in Faults
      BY DEF PatcherCalls, CallRecord
    <2>3. calls + 1 \in Nat /\ calls' = calls + 1 /\ counted' = calls + 1
      BY <1>3 DEF Patch, TypeOK
    <2>4. patch' \in PatchRecord
      BY <2>1, <2>2, <2>3 DEF PatchRecord
    <2> QED
      BY <2>1, <2>2, <2>3, <2>4
  <1>4. CASE SpecifyCandidate
    <2>1. \/ UNCHANGED patch
          \/ patch' = [text |-> Candidate, source |-> Candidate, summary |-> TRUE, call |-> 0]
      BY <1>4 DEF SpecifyCandidate
    <2>2. Candidate \in Texts /\ Candidate \in Trees
      BY TreeFacts
    <2>3. UNCHANGED <<fault, calls, counted>>
      BY <1>4 DEF SpecifyCandidate
    <2>4. CASE UNCHANGED patch
      BY <2>3, <2>4 DEF TypeOK
    <2>5. CASE patch' = [text |-> Candidate, source |-> Candidate, summary |-> TRUE, call |-> 0]
      <3>1. patch' \in PatchRecord
        BY <2>2, <2>5 DEF PatchRecord
      <3> QED
        BY <2>3, <3>1 DEF TypeOK
    <2> QED
      BY <2>1, <2>4, <2>5
  <1>5. CASE UNCHANGED <<patch, fault, calls, counted>>
    BY <1>5 DEF TypeOK
  <1> QED
    BY <1>1, <1>2, <1>3, <1>4, <1>5
       DEF Next, Prepare, Guard, GatePatch, GateWorkspace, Score, Materialize, StartSession,
           ReplayPrevious, Validate, EvaluationBlocked, Verify, Probe, Reset, ReplayCandidate,
           InvariantsHold, IntentHolds, IntentStops, CandidateOnly, SyntaxHolds, SyntaxStops,
           Collect, Evaluate, Reevaluate, ApplyCandidate, Raise, Close

LEMMA FlagsType ==
    ASSUME TypeOK, Next
    PROVE  /\ run' \in Runs /\ session' \in BOOLEAN /\ blocked' \in BOOLEAN
           /\ verdict' \in Verdict
  <1>1. CASE Verify \/ Probe \/ Evaluate \/ Reevaluate
    BY <1>1, JudgeType DEF Verify, Probe, Evaluate, Reevaluate, TypeOK
  <1>2. CASE Validate \/ Collect
    <2>1. run' \in Runs /\ session' \in BOOLEAN /\ verdict' \in Verdict
      BY <1>2 DEF Validate, Collect, TypeOK
    <2>2. blocked' \in BOOLEAN
      BY <1>2, Zenon DEF Validate, Collect, CollectBlocks
    <2> QED
      BY <2>1, <2>2
  <1>3. CASE StartSession \/ Close
    BY <1>3 DEF StartSession, Close, TypeOK
  <1>4. CASE UNCHANGED <<run, session, blocked, verdict>>
    BY <1>4 DEF TypeOK
  <1> QED
    BY <1>1, <1>2, <1>3, <1>4
       DEF Next, Prepare, Guard, GatePatch, GateWorkspace, Score, Materialize, ReplayPrevious,
           EvaluationBlocked, Reset, ReplayCandidate, Patch, InvariantsHold, ReviseInvariants,
           IntentHolds, IntentStops, ReviseIntent, CandidateOnly, SyntaxHolds, SyntaxStops,
           ReviseSyntax, ReviseSpan, SpecifyCandidate, ApplyCandidate, Raise

(* An attempt has the values the code gives it.                            *)
THEOREM TypeCorrect == Spec => []TypeOK
  <1>1. TypeOK /\ [Next]_vars => TypeOK'
    <2>1. TypeOK /\ UNCHANGED vars => TypeOK'
      BY DEF TypeOK, vars
    <2>2. TypeOK /\ Next => TypeOK'
      BY PlaceAndRow, TreeType, PatchType, FlagsType DEF TypeOK
    <2> QED
      BY <2>1, <2>2
  <1> QED
    BY <1>1, InitType, PTL DEF Spec

(***************************************************************************)
(* Success is what the oracle last said, of the workspace as it is.        *)
(***************************************************************************)
JudgedInv ==
    /\ pc \notin {"close", "done"} => ~row.success
    /\ SuccessIsJudged

LEMMA JudgedStep ==
    ASSUME JudgedInv, Next
    PROVE  JudgedInv'
  <1>1. CASE Materialize
    BY <1>1 DEF Materialize, JudgedInv, SuccessIsJudged
  <1>2. CASE StartSession
    BY <1>2 DEF StartSession, JudgedInv, SuccessIsJudged
  <1>3. CASE ReplayPrevious
    BY <1>3 DEF ReplayPrevious, Report, Goto, JudgedInv, SuccessIsJudged
  <1>4. CASE Validate
    BY <1>4 DEF Validate, Goto, JudgedInv, SuccessIsJudged
  <1>5. CASE EvaluationBlocked
    BY <1>5 DEF EvaluationBlocked, Report, JudgedInv, SuccessIsJudged
  <1>6. CASE Verify
    BY <1>6, GreenIsBoolean DEF Verify, Judge, Report, JudgedInv, SuccessIsJudged
  <1>7. CASE Probe
    BY <1>7 DEF Probe, Judge, Report, Goto, JudgedInv, SuccessIsJudged
  <1>8. CASE Reset
    BY <1>8 DEF Reset, Report, Goto, JudgedInv, SuccessIsJudged
  <1>9. CASE ReplayCandidate
    BY <1>9 DEF ReplayCandidate, Report, Goto, JudgedInv, SuccessIsJudged
  <1>10. CASE Patch
    BY <1>10 DEF Patch, Goto, JudgedInv, SuccessIsJudged
  <1>11. CASE InvariantsHold
    BY <1>11 DEF InvariantsHold, Goto, JudgedInv, SuccessIsJudged
  <1>12. CASE ReviseInvariants
    BY <1>12 DEF ReviseInvariants, Adopt, Report, Goto, JudgedInv, SuccessIsJudged
  <1>13. CASE IntentHolds
    BY <1>13 DEF IntentHolds, Goto, JudgedInv, SuccessIsJudged
  <1>14. CASE IntentStops
    BY <1>14 DEF IntentStops, Report, JudgedInv, SuccessIsJudged
  <1>15. CASE ReviseIntent
    BY <1>15 DEF ReviseIntent, Adopt, Report, Goto, JudgedInv, SuccessIsJudged
  <1>16. CASE CandidateOnly
    BY <1>16 DEF CandidateOnly, Report, JudgedInv, SuccessIsJudged
  <1>17. CASE SyntaxHolds
    BY <1>17 DEF SyntaxHolds, Goto, JudgedInv, SuccessIsJudged
  <1>18. CASE SyntaxStops
    BY <1>18 DEF SyntaxStops, Report, JudgedInv, SuccessIsJudged
  <1>19. CASE ReviseSyntax
    BY <1>19 DEF ReviseSyntax, Adopt, Report, Goto, JudgedInv, SuccessIsJudged
  <1>20. CASE Collect
    BY <1>20 DEF Collect, Report, Goto, JudgedInv, SuccessIsJudged
  <1>21. CASE Evaluate
    <2>1. CASE ReportVerdict(Green(tree))
      BY <1>21, <2>1, GreenIsBoolean DEF Evaluate, Judge, ReportVerdict, Report,
         JudgedInv, SuccessIsJudged
    <2>2. CASE RevisesSpan /\ Goto("span")
      BY <1>21, <2>2 DEF Evaluate, Judge, Goto, JudgedInv, SuccessIsJudged
    <2> QED
      BY <1>21, <2>1, <2>2 DEF Evaluate
  <1>22. CASE ReviseSpan
    BY <1>22 DEF ReviseSpan, Adopt, ReportVerdict, Report, Goto, JudgedInv,
       SuccessIsJudged
  <1>23. CASE Reevaluate
    BY <1>23, GreenIsBoolean DEF Reevaluate, Judge, ReportVerdict, Report,
       JudgedInv, SuccessIsJudged
  <1>24. CASE SpecifyCandidate
    BY <1>24 DEF SpecifyCandidate, Report, Goto, JudgedInv, SuccessIsJudged
  <1>25. CASE ApplyCandidate
    BY <1>25 DEF ApplyCandidate, Report, Goto, JudgedInv, SuccessIsJudged
  <1>26. CASE Raise
    BY <1>26 DEF Raise, Report, Trying, JudgedInv, SuccessIsJudged
  <1>27. CASE Close
    BY <1>27 DEF Close, JudgedInv, SuccessIsJudged
  <1> QED
    BY <1>1, <1>2, <1>3, <1>4, <1>5, <1>6, <1>7, <1>8, <1>9, <1>10, <1>11, <1>12,
       <1>13, <1>14, <1>15, <1>16, <1>17, <1>18, <1>19, <1>20, <1>21, <1>22,
       <1>23, <1>24, <1>25, <1>26, <1>27
       DEF Next, Prepare, Guard, GatePatch, GateWorkspace, Score

(* A row that reports success comes from an oracle run on the workspace as *)
(* it was left.                                                            *)
THEOREM JudgedAlways == Spec => []SuccessIsJudged
  <1>1. Init => JudgedInv
    BY DEF Init, JudgedInv, NoRow, SuccessIsJudged
  <1>2. JudgedInv /\ [Next]_vars => JudgedInv'
    BY JudgedStep DEF vars, JudgedInv, SuccessIsJudged
  <1>3. JudgedInv => SuccessIsJudged
    BY DEF JudgedInv
  <1> QED
    BY <1>1, <1>2, <1>3, PTL DEF Spec

(***************************************************************************)
(* The patch that is reported is the one that was judged: from the first   *)
(* call of the patcher on, the patch of the record was taken from the      *)
(* workspace as it is whenever the attempt may go on to the oracle.        *)
(***************************************************************************)
Undisturbed == ~LeavesEditsBehind /\ ~StartsMixed
Judging == {"invariants", "intent", "syntax", "collect", "evaluate", "reevaluate"}
Unpatched == {"workspace", "session", "replay", "validate", "spec", "apply"}

SourceInv ==
    /\ pc \notin {"close", "done"} => row = NoRow
    /\ pc \in {"spec", "apply"} => run.scope = "candidate_patch_verifier"
    /\ pc = "apply" => patch.source = Candidate
    /\ run.scope = "candidate_patch_verifier" /\ run.previous = "off" /\ pc \in Unpatched
       => tree = Head
    /\ Undisturbed /\ pc \in Judging => patch.source = tree
    /\ row.success /\ row.text # Blank =>
          row.text = patch.text /\ (Undisturbed => patch.source = tree)

LEMMA SourceStep ==
    ASSUME TypeOK, SourceInv, Next
    PROVE  SourceInv'
  <1>1. CASE Materialize
    BY <1>1 DEF Materialize, SourceInv, Undisturbed, LeavesEditsBehind,
       StartsMixed, Judging, Unpatched, NoRow
  <1>2. CASE StartSession
    BY <1>2 DEF StartSession, SourceInv, Undisturbed, LeavesEditsBehind,
       StartsMixed, Judging, Unpatched, NoRow
  <1>3. CASE ReplayPrevious
    BY <1>3 DEF ReplayPrevious, Report, Goto, SourceInv, Undisturbed,
       LeavesEditsBehind, StartsMixed, Judging, Unpatched, NoRow
  <1>4. CASE Validate
    BY <1>4, RunFields
       DEF Validate, Goto, Scopes, Verifying, Guarded, Patching, SourceInv, Undisturbed,
           LeavesEditsBehind, StartsMixed, Judging, Unpatched, NoRow
  <1>5. CASE EvaluationBlocked
    BY <1>5 DEF EvaluationBlocked, Report, SourceInv, Undisturbed,
       LeavesEditsBehind, StartsMixed, Judging, Unpatched, NoRow
  <1>6. CASE Verify
    BY <1>6 DEF Verify, Judge, Report, SourceInv, Undisturbed, LeavesEditsBehind,
       StartsMixed, Judging, Unpatched, NoRow
  <1>7. CASE Probe
    BY <1>7 DEF Probe, Judge, Report, Goto, SourceInv, Undisturbed,
       LeavesEditsBehind, StartsMixed, Judging, Unpatched, NoRow
  <1>8. CASE Reset
    BY <1>8 DEF Reset, Report, Goto, SourceInv, Undisturbed, LeavesEditsBehind,
       StartsMixed, Judging, Unpatched, NoRow
  <1>9. CASE ReplayCandidate
    BY <1>9 DEF ReplayCandidate, Report, Goto, SourceInv, Undisturbed,
       LeavesEditsBehind, StartsMixed, Judging, Unpatched, NoRow
  <1>10. CASE Patch
    BY <1>10 DEF Patch, Goto, SourceInv, Undisturbed, LeavesEditsBehind,
       StartsMixed, Judging, Unpatched, NoRow
  <1>11. CASE InvariantsHold
    BY <1>11 DEF InvariantsHold, Goto, SourceInv, Undisturbed, LeavesEditsBehind,
       StartsMixed, Judging, Unpatched, NoRow
  <1>12. CASE ReviseInvariants
    BY <1>12 DEF ReviseInvariants, Adopt, Report, Goto, SourceInv, Undisturbed,
       LeavesEditsBehind, StartsMixed, Judging, Unpatched, NoRow
  <1>13. CASE IntentHolds
    BY <1>13 DEF IntentHolds, Goto, SourceInv, Undisturbed, LeavesEditsBehind,
       StartsMixed, Judging, Unpatched, NoRow
  <1>14. CASE IntentStops
    BY <1>14 DEF IntentStops, Report, SourceInv, Undisturbed, LeavesEditsBehind,
       StartsMixed, Judging, Unpatched, NoRow
  <1>15. CASE ReviseIntent
    <2>1. PICK c \in PatcherCalls(tree) :
             /\ Adopt(c)
             /\ \/ pc' = "close" /\ ~row'.success
                \/ Goto("syntax") /\ (run.intent = "gate" => Adopts(c))
      BY <1>15 DEF ReviseIntent, Report, Goto
    <2>2. run.intent \in {"gate", "advisory"} /\ run.intentRevision /\ UNCHANGED run
      BY <1>15, RunFields DEF ReviseIntent, IntentBlocks
    <2> QED
      BY <1>15, <2>1, <2>2
         DEF ReviseIntent, Adopt, Goto, SourceInv, Undisturbed, LeavesEditsBehind, StartsMixed,
             Judging, Unpatched, NoRow
  <1>16. CASE CandidateOnly
    BY <1>16 DEF CandidateOnly, Report, SourceInv, Undisturbed, LeavesEditsBehind,
       StartsMixed, Judging, Unpatched, NoRow
  <1>17. CASE SyntaxHolds
    BY <1>17 DEF SyntaxHolds, Goto, SourceInv, Undisturbed, LeavesEditsBehind,
       StartsMixed, Judging, Unpatched, NoRow
  <1>18. CASE SyntaxStops
    BY <1>18 DEF SyntaxStops, Report, SourceInv, Undisturbed, LeavesEditsBehind,
       StartsMixed, Judging, Unpatched, NoRow
  <1>19. CASE ReviseSyntax
    BY <1>19 DEF ReviseSyntax, Adopt, Report, Goto, SourceInv, Undisturbed,
       LeavesEditsBehind, StartsMixed, Judging, Unpatched, NoRow
  <1>20. CASE Collect
    BY <1>20 DEF Collect, Report, Goto, SourceInv, Undisturbed, LeavesEditsBehind,
       StartsMixed, Judging, Unpatched, NoRow
  <1>21. CASE Evaluate
    <2>1. CASE ReportVerdict(Green(tree))
      BY <1>21, <2>1 DEF Evaluate, Judge, ReportVerdict, Report, SourceInv,
         Undisturbed, LeavesEditsBehind, StartsMixed, Judging, Unpatched, NoRow
    <2>2. CASE RevisesSpan /\ Goto("span")
      BY <1>21, <2>2 DEF Evaluate, Judge, Goto, SourceInv, Undisturbed,
         LeavesEditsBehind, StartsMixed, Judging, Unpatched, NoRow
    <2> QED
      BY <1>21, <2>1, <2>2 DEF Evaluate
  <1>22. CASE ReviseSpan
    BY <1>22 DEF ReviseSpan, Adopt, ReportVerdict, Report, Goto, SourceInv,
       Undisturbed, LeavesEditsBehind, StartsMixed, Judging, Unpatched, NoRow
  <1>23. CASE Reevaluate
    BY <1>23 DEF Reevaluate, Judge, ReportVerdict, Report, SourceInv, Undisturbed,
       LeavesEditsBehind, StartsMixed, Judging, Unpatched, NoRow
  <1>24. CASE SpecifyCandidate
    BY <1>24 DEF SpecifyCandidate, Report, Goto, SourceInv, Undisturbed,
       LeavesEditsBehind, StartsMixed, Judging, Unpatched, NoRow
  <1>25. CASE ApplyCandidate
    BY <1>25
       DEF ApplyCandidate, Report, Goto, Onto, SourceInv, Undisturbed, LeavesEditsBehind, StartsMixed,
           Judging, Unpatched, NoRow
  <1>26. CASE Raise
    BY <1>26 DEF Raise, Report, Trying, SourceInv, Undisturbed, LeavesEditsBehind,
       StartsMixed, Judging, Unpatched, NoRow
  <1>27. CASE Close
    BY <1>27 DEF Close, SourceInv, Undisturbed, LeavesEditsBehind, StartsMixed,
       Judging, Unpatched, NoRow
  <1> QED
    BY <1>1, <1>2, <1>3, <1>4, <1>5, <1>6, <1>7, <1>8, <1>9, <1>10, <1>11, <1>12,
       <1>13, <1>14, <1>15, <1>16, <1>17, <1>18, <1>19, <1>20, <1>21, <1>22,
       <1>23, <1>24, <1>25, <1>26, <1>27
       DEF Next, Prepare, Guard, GatePatch, GateWorkspace, Score

(* The tree that was judged is the one the reported patch was taken from,  *)
(* except after an advised revision without a text and for a candidate on  *)
(* top of the patch of the failed run.                                     *)
THEOREM PatchJudgedAlways == Spec => []PatchWasJudged
  <1>1. Init => SourceInv
    BY DEF Init, SourceInv, NoRow, Judging, Unpatched
  <1>2. TypeOK /\ SourceInv /\ [Next]_vars => SourceInv'
    BY SourceStep DEF vars, SourceInv, Undisturbed, LeavesEditsBehind, StartsMixed
  <1>3. SuccessIsJudged /\ SourceInv => PatchWasJudged
    BY DEF SuccessIsJudged, SourceInv, PatchWasJudged, Undisturbed
  <1> QED
    BY <1>1, <1>2, <1>3, TypeCorrect, JudgedAlways, PTL DEF Spec

(***************************************************************************)
(* Calls and usage: at each place the attempt has made at most so many     *)
(* calls, and those of the reported patch are counted.                     *)
(***************************************************************************)
Unpaid == {"workspace", "session", "replay", "validate", "verify", "probe", "reset",
           "candidate", "patch", "spec", "apply"}

CallsInv ==
    /\ pc \in Unpaid => calls = 0
    /\ pc = "invariants" => calls <= 1
    /\ pc = "intent" => calls <= 2
    /\ pc = "syntax" => calls <= 3
    /\ pc \in {"collect", "evaluate", "span"} => calls <= 4
    /\ calls <= 5

LEMMA CallsStep ==
    ASSUME TypeOK, CallsInv, Next
    PROVE  CallsInv'
  <1>1. CASE Materialize
    BY <1>1 DEF Materialize, CallsInv, Unpaid, TypeOK
  <1>2. CASE StartSession
    BY <1>2 DEF StartSession, CallsInv, Unpaid, TypeOK
  <1>3. CASE ReplayPrevious
    BY <1>3 DEF ReplayPrevious, Report, Goto, CallsInv, Unpaid, TypeOK
  <1>4. CASE Validate
    BY <1>4, RunFields DEF Validate, Goto, Scopes, Verifying, Guarded, Patching,
       CallsInv, Unpaid, TypeOK
  <1>5. CASE EvaluationBlocked
    BY <1>5 DEF EvaluationBlocked, Report, CallsInv, Unpaid, TypeOK
  <1>6. CASE Verify
    BY <1>6 DEF Verify, Judge, Report, CallsInv, Unpaid, TypeOK
  <1>7. CASE Probe
    BY <1>7 DEF Probe, Judge, Report, Goto, CallsInv, Unpaid, TypeOK
  <1>8. CASE Reset
    BY <1>8 DEF Reset, Report, Goto, CallsInv, Unpaid, TypeOK
  <1>9. CASE ReplayCandidate
    BY <1>9 DEF ReplayCandidate, Report, Goto, CallsInv, Unpaid, TypeOK
  <1>10. CASE Patch
    BY <1>10 DEF Patch, Goto, CallsInv, Unpaid, TypeOK
  <1>11. CASE InvariantsHold
    BY <1>11 DEF InvariantsHold, Goto, CallsInv, Unpaid, TypeOK
  <1>12. CASE ReviseInvariants
    BY <1>12 DEF ReviseInvariants, Adopt, Report, Goto, CallsInv, Unpaid, TypeOK
  <1>13. CASE IntentHolds
    BY <1>13 DEF IntentHolds, Goto, CallsInv, Unpaid, TypeOK
  <1>14. CASE IntentStops
    BY <1>14 DEF IntentStops, Report, CallsInv, Unpaid, TypeOK
  <1>15. CASE ReviseIntent
    BY <1>15 DEF ReviseIntent, Adopt, Report, Goto, CallsInv, Unpaid, TypeOK
  <1>16. CASE CandidateOnly
    BY <1>16 DEF CandidateOnly, Report, CallsInv, Unpaid, TypeOK
  <1>17. CASE SyntaxHolds
    BY <1>17 DEF SyntaxHolds, Goto, CallsInv, Unpaid, TypeOK
  <1>18. CASE SyntaxStops
    BY <1>18 DEF SyntaxStops, Report, CallsInv, Unpaid, TypeOK
  <1>19. CASE ReviseSyntax
    BY <1>19 DEF ReviseSyntax, Adopt, Report, Goto, CallsInv, Unpaid, TypeOK
  <1>20. CASE Collect
    BY <1>20 DEF Collect, Report, Goto, CallsInv, Unpaid, TypeOK
  <1>21. CASE Evaluate
    BY <1>21 DEF Evaluate, Judge, ReportVerdict, Report, Goto, CallsInv, Unpaid, TypeOK
  <1>22. CASE ReviseSpan
    BY <1>22 DEF ReviseSpan, Adopt, ReportVerdict, Report, Goto, CallsInv, Unpaid,
       TypeOK
  <1>23. CASE Reevaluate
    BY <1>23 DEF Reevaluate, Judge, ReportVerdict, Report, CallsInv, Unpaid, TypeOK
  <1>24. CASE SpecifyCandidate
    BY <1>24 DEF SpecifyCandidate, Report, Goto, CallsInv, Unpaid, TypeOK
  <1>25. CASE ApplyCandidate
    BY <1>25 DEF ApplyCandidate, Report, Goto, CallsInv, Unpaid, TypeOK
  <1>26. CASE Raise
    BY <1>26 DEF Raise, Report, Trying, CallsInv, Unpaid, TypeOK
  <1>27. CASE Close
    BY <1>27 DEF Close, CallsInv, Unpaid, TypeOK
  <1> QED
    BY <1>1, <1>2, <1>3, <1>4, <1>5, <1>6, <1>7, <1>8, <1>9, <1>10, <1>11, <1>12,
       <1>13, <1>14, <1>15, <1>16, <1>17, <1>18, <1>19, <1>20, <1>21, <1>22,
       <1>23, <1>24, <1>25, <1>26, <1>27
       DEF Next, Prepare, Guard, GatePatch, GateWorkspace, Score

(* The calls of the reported patch are counted.                            *)
PaidInv ==
    /\ pc \notin {"close", "done"} => row = NoRow
    /\ pc \in Unpaid => patch.call = 0
    /\ patch.call <= counted
    /\ row.text # Blank => patch.call <= row.usage

LEMMA PaidStep ==
    ASSUME TypeOK, PaidInv, Next
    PROVE  PaidInv'
  <1> USE DEF PatchRecord
  <1>1. CASE Materialize
    BY <1>1 DEF Materialize, PaidInv, Unpaid, NoRow, TypeOK
  <1>2. CASE StartSession
    BY <1>2 DEF StartSession, PaidInv, Unpaid, NoRow, TypeOK
  <1>3. CASE ReplayPrevious
    BY <1>3 DEF ReplayPrevious, Report, Goto, PaidInv, Unpaid, NoRow, TypeOK
  <1>4. CASE Validate
    BY <1>4, RunFields DEF Validate, Goto, Scopes, Verifying, Guarded, Patching,
       PaidInv, Unpaid, NoRow, TypeOK
  <1>5. CASE EvaluationBlocked
    BY <1>5 DEF EvaluationBlocked, Report, PaidInv, Unpaid, NoRow, TypeOK
  <1>6. CASE Verify
    BY <1>6 DEF Verify, Judge, Report, PaidInv, Unpaid, NoRow, TypeOK
  <1>7. CASE Probe
    BY <1>7 DEF Probe, Judge, Report, Goto, PaidInv, Unpaid, NoRow, TypeOK
  <1>8. CASE Reset
    BY <1>8 DEF Reset, Report, Goto, PaidInv, Unpaid, NoRow, TypeOK
  <1>9. CASE ReplayCandidate
    BY <1>9 DEF ReplayCandidate, Report, Goto, PaidInv, Unpaid, NoRow, TypeOK
  <1>10. CASE Patch
    BY <1>10 DEF Patch, Goto, PaidInv, Unpaid, NoRow, TypeOK
  <1>11. CASE InvariantsHold
    BY <1>11 DEF InvariantsHold, Goto, PaidInv, Unpaid, NoRow, TypeOK
  <1>12. CASE ReviseInvariants
    BY <1>12 DEF ReviseInvariants, Adopt, Report, Goto, PaidInv, Unpaid, NoRow, TypeOK
  <1>13. CASE IntentHolds
    BY <1>13 DEF IntentHolds, Goto, PaidInv, Unpaid, NoRow, TypeOK
  <1>14. CASE IntentStops
    BY <1>14 DEF IntentStops, Report, PaidInv, Unpaid, NoRow, TypeOK
  <1>15. CASE ReviseIntent
    BY <1>15 DEF ReviseIntent, Adopt, Report, Goto, PaidInv, Unpaid, NoRow, TypeOK
  <1>16. CASE CandidateOnly
    BY <1>16 DEF CandidateOnly, Report, PaidInv, Unpaid, NoRow, TypeOK
  <1>17. CASE SyntaxHolds
    BY <1>17 DEF SyntaxHolds, Goto, PaidInv, Unpaid, NoRow, TypeOK
  <1>18. CASE SyntaxStops
    BY <1>18 DEF SyntaxStops, Report, PaidInv, Unpaid, NoRow, TypeOK
  <1>19. CASE ReviseSyntax
    BY <1>19 DEF ReviseSyntax, Adopt, Report, Goto, PaidInv, Unpaid, NoRow, TypeOK
  <1>20. CASE Collect
    BY <1>20 DEF Collect, Report, Goto, PaidInv, Unpaid, NoRow, TypeOK
  <1>21. CASE Evaluate
    BY <1>21 DEF Evaluate, Judge, ReportVerdict, Report, Goto, PaidInv, Unpaid,
       NoRow, TypeOK
  <1>22. CASE ReviseSpan
    BY <1>22 DEF ReviseSpan, Adopt, ReportVerdict, Report, Goto, PaidInv, Unpaid,
       NoRow, TypeOK
  <1>23. CASE Reevaluate
    BY <1>23 DEF Reevaluate, Judge, ReportVerdict, Report, PaidInv, Unpaid, NoRow,
       TypeOK
  <1>24. CASE SpecifyCandidate
    BY <1>24 DEF SpecifyCandidate, Report, Goto, PaidInv, Unpaid, NoRow, TypeOK
  <1>25. CASE ApplyCandidate
    BY <1>25 DEF ApplyCandidate, Report, Goto, PaidInv, Unpaid, NoRow, TypeOK
  <1>26. CASE Raise
    BY <1>26 DEF Raise, Report, Trying, PaidInv, Unpaid, NoRow, TypeOK
  <1>27. CASE Close
    BY <1>27 DEF Close, PaidInv, Unpaid, NoRow, TypeOK
  <1> QED
    BY <1>1, <1>2, <1>3, <1>4, <1>5, <1>6, <1>7, <1>8, <1>9, <1>10, <1>11, <1>12,
       <1>13, <1>14, <1>15, <1>16, <1>17, <1>18, <1>19, <1>20, <1>21, <1>22,
       <1>23, <1>24, <1>25, <1>26, <1>27
       DEF Next, Prepare, Guard, GatePatch, GateWorkspace, Score

(* At most five calls, and the usage covers the call of the patch.         *)
THEOREM PaidAlways == Spec => []PatchIsPaidFor
  <1>1. Init => CallsInv /\ PaidInv
    BY DEF Init, CallsInv, PaidInv, NoRow, NoPatch, Unpaid
  <1>2. TypeOK /\ CallsInv /\ [Next]_vars => CallsInv'
    BY CallsStep DEF vars, CallsInv, Unpaid
  <1>3. TypeOK /\ PaidInv /\ [Next]_vars => PaidInv'
    BY PaidStep DEF vars, PaidInv, Unpaid
  <1>4. CallsInv /\ PaidInv => PatchIsPaidFor
    BY DEF CallsInv, PaidInv, PatchIsPaidFor
  <1> QED
    BY <1>1, <1>2, <1>3, <1>4, TypeCorrect, PTL DEF Spec

(***************************************************************************)
(* The gates: what passed them once is what is judged and reported, unless *)
(* a later revision replaced it without asking them.                       *)
(***************************************************************************)
Cleared == {"syntax", "collect", "evaluate", "span", "reevaluate"}

InvariantsPassed(text) == ~RevisesSyntax => ~InvariantsBlock(text)
IntentPassed(text) ==
    run.intent = "gate" /\ run.scope # "candidate_patch_verifier"
        /\ ~RevisesSyntax /\ ~RevisesSpan => ~IntentBlocks(text)

GatedInv ==
    /\ pc \notin {"close", "done"} => row = NoRow
    /\ pc \in {"spec", "apply"} => run.scope = "candidate_patch_verifier"
    /\ pc \in {"span", "reevaluate"} => RevisesSpan
    /\ pc \in Cleared \cup {"intent", "apply"} => InvariantsPassed(patch.text)
    /\ pc \in Cleared => IntentPassed(patch.text)
    /\ row.success /\ row.text # Blank => InvariantsPassed(row.text) /\ IntentPassed(row.text)

LEMMA GatedStep ==
    ASSUME TypeOK, GatedInv, Next
    PROVE  GatedInv'
  <1>1. CASE Materialize
    BY <1>1 DEF Materialize, GatedInv, Cleared, InvariantsPassed, IntentPassed,
       InvariantsBlock, IntentBlocks, RevisesSyntax, RevisesSpan, NoRow
  <1>2. CASE StartSession
    BY <1>2 DEF StartSession, GatedInv, Cleared, InvariantsPassed, IntentPassed,
       InvariantsBlock, IntentBlocks, RevisesSyntax, RevisesSpan, NoRow
  <1>3. CASE ReplayPrevious
    BY <1>3 DEF ReplayPrevious, Report, Goto, GatedInv, Cleared, InvariantsPassed,
       IntentPassed, InvariantsBlock, IntentBlocks, RevisesSyntax, RevisesSpan,
       NoRow
  <1>4. CASE Validate
    BY <1>4, RunFields DEF Validate, Goto, Scopes, Verifying, Guarded, Patching,
       GatedInv, Cleared, InvariantsPassed, IntentPassed, InvariantsBlock,
       IntentBlocks, RevisesSyntax, RevisesSpan, NoRow
  <1>5. CASE EvaluationBlocked
    BY <1>5 DEF EvaluationBlocked, Report, GatedInv, Cleared, InvariantsPassed,
       IntentPassed, InvariantsBlock, IntentBlocks, RevisesSyntax, RevisesSpan,
       NoRow
  <1>6. CASE Verify
    BY <1>6 DEF Verify, Judge, Report, GatedInv, Cleared, InvariantsPassed,
       IntentPassed, InvariantsBlock, IntentBlocks, RevisesSyntax, RevisesSpan,
       NoRow
  <1>7. CASE Probe
    BY <1>7 DEF Probe, Judge, Report, Goto, GatedInv, Cleared, InvariantsPassed,
       IntentPassed, InvariantsBlock, IntentBlocks, RevisesSyntax, RevisesSpan,
       NoRow
  <1>8. CASE Reset
    BY <1>8 DEF Reset, Report, Goto, GatedInv, Cleared, InvariantsPassed,
       IntentPassed, InvariantsBlock, IntentBlocks, RevisesSyntax, RevisesSpan,
       NoRow
  <1>9. CASE ReplayCandidate
    BY <1>9 DEF ReplayCandidate, Report, Goto, GatedInv, Cleared,
       InvariantsPassed, IntentPassed, InvariantsBlock, IntentBlocks,
       RevisesSyntax, RevisesSpan, NoRow
  <1>10. CASE Patch
    BY <1>10 DEF Patch, Goto, GatedInv, Cleared, InvariantsPassed, IntentPassed,
       InvariantsBlock, IntentBlocks, RevisesSyntax, RevisesSpan, NoRow
  <1>11. CASE InvariantsHold
    BY <1>11 DEF InvariantsHold, Goto, GatedInv, Cleared, InvariantsPassed,
       IntentPassed, InvariantsBlock, IntentBlocks, RevisesSyntax, RevisesSpan,
       NoRow
  <1>12. CASE ReviseInvariants
    BY <1>12 DEF ReviseInvariants, Adopt, Report, Goto, GatedInv, Cleared,
       InvariantsPassed, IntentPassed, InvariantsBlock, IntentBlocks,
       RevisesSyntax, RevisesSpan, NoRow
  <1>13. CASE IntentHolds
    BY <1>13 DEF IntentHolds, Goto, GatedInv, Cleared, InvariantsPassed,
       IntentPassed, InvariantsBlock, IntentBlocks, RevisesSyntax, RevisesSpan,
       NoRow
  <1>14. CASE IntentStops
    BY <1>14 DEF IntentStops, Report, GatedInv, Cleared, InvariantsPassed,
       IntentPassed, InvariantsBlock, IntentBlocks, RevisesSyntax, RevisesSpan,
       NoRow
  <1>15. CASE ReviseIntent
    BY <1>15 DEF ReviseIntent, Adopt, Report, Goto, GatedInv, Cleared,
       InvariantsPassed, IntentPassed, InvariantsBlock, IntentBlocks,
       RevisesSyntax, RevisesSpan, NoRow
  <1>16. CASE CandidateOnly
    BY <1>16 DEF CandidateOnly, Report, GatedInv, Cleared, InvariantsPassed,
       IntentPassed, InvariantsBlock, IntentBlocks, RevisesSyntax, RevisesSpan,
       NoRow
  <1>17. CASE SyntaxHolds
    BY <1>17 DEF SyntaxHolds, Goto, GatedInv, Cleared, InvariantsPassed,
       IntentPassed, InvariantsBlock, IntentBlocks, RevisesSyntax, RevisesSpan,
       NoRow
  <1>18. CASE SyntaxStops
    BY <1>18 DEF SyntaxStops, Report, GatedInv, Cleared, InvariantsPassed,
       IntentPassed, InvariantsBlock, IntentBlocks, RevisesSyntax, RevisesSpan,
       NoRow
  <1>19. CASE ReviseSyntax
    BY <1>19 DEF ReviseSyntax, Adopt, Report, Goto, GatedInv, Cleared,
       InvariantsPassed, IntentPassed, InvariantsBlock, IntentBlocks,
       RevisesSyntax, RevisesSpan, NoRow
  <1>20. CASE Collect
    BY <1>20 DEF Collect, Report, Goto, GatedInv, Cleared, InvariantsPassed,
       IntentPassed, InvariantsBlock, IntentBlocks, RevisesSyntax, RevisesSpan,
       NoRow
  <1>21. CASE Evaluate
    <2>1. CASE ReportVerdict(Green(tree))
      BY <1>21, <2>1 DEF Evaluate, Judge, ReportVerdict, Report, GatedInv,
         Cleared, InvariantsPassed, IntentPassed, InvariantsBlock, IntentBlocks,
         RevisesSyntax, RevisesSpan, NoRow
    <2>2. CASE RevisesSpan /\ Goto("span")
      BY <1>21, <2>2 DEF Evaluate, Judge, Goto, GatedInv, Cleared,
         InvariantsPassed, IntentPassed, InvariantsBlock, IntentBlocks,
         RevisesSyntax, RevisesSpan, NoRow
    <2> QED
      BY <1>21, <2>1, <2>2 DEF Evaluate
  <1>22. CASE ReviseSpan
    BY <1>22 DEF ReviseSpan, Adopt, ReportVerdict, Report, Goto, GatedInv,
       Cleared, InvariantsPassed, IntentPassed, InvariantsBlock, IntentBlocks,
       RevisesSyntax, RevisesSpan, NoRow
  <1>23. CASE Reevaluate
    BY <1>23 DEF Reevaluate, Judge, ReportVerdict, Report, GatedInv, Cleared,
       InvariantsPassed, IntentPassed, InvariantsBlock, IntentBlocks,
       RevisesSyntax, RevisesSpan, NoRow
  <1>24. CASE SpecifyCandidate
    BY <1>24 DEF SpecifyCandidate, Report, Goto, GatedInv, Cleared,
       InvariantsPassed, IntentPassed, InvariantsBlock, IntentBlocks,
       RevisesSyntax, RevisesSpan, NoRow
  <1>25. CASE ApplyCandidate
    BY <1>25 DEF ApplyCandidate, Report, Goto, GatedInv, Cleared,
       InvariantsPassed, IntentPassed, InvariantsBlock, IntentBlocks,
       RevisesSyntax, RevisesSpan, NoRow
  <1>26. CASE Raise
    BY <1>26 DEF Raise, Report, Trying, GatedInv, Cleared, InvariantsPassed,
       IntentPassed, InvariantsBlock, IntentBlocks, RevisesSyntax, RevisesSpan,
       NoRow
  <1>27. CASE Close
    BY <1>27 DEF Close, GatedInv, Cleared, InvariantsPassed, IntentPassed,
       InvariantsBlock, IntentBlocks, RevisesSyntax, RevisesSpan, NoRow
  <1> QED
    BY <1>1, <1>2, <1>3, <1>4, <1>5, <1>6, <1>7, <1>8, <1>9, <1>10, <1>11, <1>12,
       <1>13, <1>14, <1>15, <1>16, <1>17, <1>18, <1>19, <1>20, <1>21, <1>22,
       <1>23, <1>24, <1>25, <1>26, <1>27
       DEF Next, Prepare, Guard, GatePatch, GateWorkspace, Score

(* What is reported as a success passed the gates it was set up with.      *)
THEOREM GatesPassedAlways == Spec => []SuccessPassedGates
  <1>1. Init => GatedInv
    BY DEF Init, GatedInv, Cleared, NoRow
  <1>2. TypeOK /\ GatedInv /\ [Next]_vars => GatedInv'
    BY GatedStep DEF vars, GatedInv, InvariantsPassed, IntentPassed, InvariantsBlock, IntentBlocks,
                     RevisesSyntax, RevisesSpan
  <1>3. GatedInv => SuccessPassedGates
    BY DEF GatedInv, SuccessPassedGates, InvariantsPassed, IntentPassed
  <1> QED
    BY <1>1, <1>2, <1>3, TypeCorrect, PTL DEF Spec

LEMMA CleanStep ==
    ASSUME TypeOK, FallbackStartsClean, Next
    PROVE  FallbackStartsClean'
  <1>1. CASE Materialize
    BY <1>1 DEF Materialize, FallbackStartsClean
  <1>2. CASE StartSession
    BY <1>2 DEF StartSession, FallbackStartsClean
  <1>3. CASE ReplayPrevious
    BY <1>3 DEF ReplayPrevious, Report, Goto, FallbackStartsClean
  <1>4. CASE Validate
    BY <1>4, RunFields DEF Validate, Goto, Scopes, Verifying, Guarded, Patching,
       FallbackStartsClean
  <1>5. CASE EvaluationBlocked
    BY <1>5 DEF EvaluationBlocked, Report, FallbackStartsClean
  <1>6. CASE Verify
    BY <1>6 DEF Verify, Judge, Report, FallbackStartsClean
  <1>7. CASE Probe
    BY <1>7 DEF Probe, Judge, Report, Goto, FallbackStartsClean
  <1>8. CASE Reset
    BY <1>8 DEF Reset, Report, Goto, FallbackStartsClean
  <1>9. CASE ReplayCandidate
    BY <1>9 DEF ReplayCandidate, Report, Goto, FallbackStartsClean
  <1>10. CASE Patch
    BY <1>10 DEF Patch, Goto, FallbackStartsClean
  <1>11. CASE InvariantsHold
    BY <1>11 DEF InvariantsHold, Goto, FallbackStartsClean
  <1>12. CASE ReviseInvariants
    BY <1>12 DEF ReviseInvariants, Adopt, Report, Goto, FallbackStartsClean
  <1>13. CASE IntentHolds
    BY <1>13 DEF IntentHolds, Goto, FallbackStartsClean
  <1>14. CASE IntentStops
    BY <1>14 DEF IntentStops, Report, FallbackStartsClean
  <1>15. CASE ReviseIntent
    BY <1>15 DEF ReviseIntent, Adopt, Report, Goto, FallbackStartsClean
  <1>16. CASE CandidateOnly
    BY <1>16 DEF CandidateOnly, Report, FallbackStartsClean
  <1>17. CASE SyntaxHolds
    BY <1>17 DEF SyntaxHolds, Goto, FallbackStartsClean
  <1>18. CASE SyntaxStops
    BY <1>18 DEF SyntaxStops, Report, FallbackStartsClean
  <1>19. CASE ReviseSyntax
    BY <1>19 DEF ReviseSyntax, Adopt, Report, Goto, FallbackStartsClean
  <1>20. CASE Collect
    BY <1>20 DEF Collect, Report, Goto, FallbackStartsClean
  <1>21. CASE Evaluate
    BY <1>21 DEF Evaluate, Judge, ReportVerdict, Report, Goto, FallbackStartsClean
  <1>22. CASE ReviseSpan
    BY <1>22 DEF ReviseSpan, Adopt, ReportVerdict, Report, Goto, FallbackStartsClean
  <1>23. CASE Reevaluate
    BY <1>23 DEF Reevaluate, Judge, ReportVerdict, Report, FallbackStartsClean
  <1>24. CASE SpecifyCandidate
    BY <1>24 DEF SpecifyCandidate, Report, Goto, FallbackStartsClean
  <1>25. CASE ApplyCandidate
    BY <1>25 DEF ApplyCandidate, Report, Goto, FallbackStartsClean
  <1>26. CASE Raise
    BY <1>26 DEF Raise, Report, Trying, FallbackStartsClean
  <1>27. CASE Close
    BY <1>27 DEF Close, FallbackStartsClean
  <1> QED
    BY <1>1, <1>2, <1>3, <1>4, <1>5, <1>6, <1>7, <1>8, <1>9, <1>10, <1>11, <1>12,
       <1>13, <1>14, <1>15, <1>16, <1>17, <1>18, <1>19, <1>20, <1>21, <1>22,
       <1>23, <1>24, <1>25, <1>26, <1>27
       DEF Next, Prepare, Guard, GatePatch, GateWorkspace, Score

(* The clean fallback starts where the instance started.                   *)
THEOREM CleanAlways == Spec => []FallbackStartsClean
  <1>1. Init => FallbackStartsClean
    BY DEF Init, FallbackStartsClean
  <1>2. TypeOK /\ FallbackStartsClean /\ [Next]_vars => FallbackStartsClean'
    BY CleanStep DEF vars, FallbackStartsClean
  <1> QED
    BY <1>1, <1>2, TypeCorrect, PTL DEF Spec

(***************************************************************************)
(* An attempt is a RecoveryLoop: the steps of its safety part.             *)
(***************************************************************************)
LEMMA LoopStep ==
    ASSUME TypeOK, CallsInv, JudgedInv, Next
    PROVE  [Loop!LoopNext]_(Loop!loopVars)
  <1> USE DEF JudgedInv, SuccessIsJudged
  <1>1. CASE Materialize
    <2>1. pc' \in {"session", "raised"} /\ pc = "workspace" /\ UNCHANGED <<calls, verdict, row>>
      BY <1>1 DEF Materialize
    <2>2. CASE pc' = "session"
      BY <2>1, <2>2 DEF Loop!loopVars
    <2>3. CASE pc' = "raised"
      BY <2>1, <2>3 DEF Loop!LoopNext, Loop!End
    <2> QED
      BY <2>1, <2>2, <2>3
  <1>2. CASE StartSession
    BY <1>2 DEF StartSession, Loop!loopVars
  <1>3. CASE ReplayPrevious
    BY <1>3 DEF ReplayPrevious, Report, Goto, Loop!loopVars
  <1>4. CASE Validate
    BY <1>4, RunFields DEF Validate, Goto, Scopes, Verifying, Guarded, Patching,
       Loop!loopVars
  <1>5. CASE EvaluationBlocked
    BY <1>5 DEF EvaluationBlocked, Report, Loop!loopVars
  <1>6. CASE Verify
    BY <1>6, GreenIsBoolean DEF Verify, Judge, Report, Loop!LoopNext, Loop!Verify
  <1>7. CASE Probe
    BY <1>7, GreenIsBoolean DEF Probe, Judge, Report, Goto, Loop!LoopNext, Loop!Verify
  <1>8. CASE Reset
    BY <1>8 DEF Reset, Report, Goto, Loop!loopVars
  <1>9. CASE ReplayCandidate
    BY <1>9 DEF ReplayCandidate, Report, Goto, Loop!loopVars
  <1>10. CASE Patch
    BY <1>10 DEF Patch, Goto, Loop!LoopNext, Loop!Recover, CallsInv, Unpaid, TypeOK
  <1>11. CASE InvariantsHold
    BY <1>11 DEF InvariantsHold, Goto, Loop!loopVars
  <1>12. CASE ReviseInvariants
    BY <1>12 DEF ReviseInvariants, Adopt, Report, Goto, Loop!LoopNext,
       Loop!Recover, CallsInv, TypeOK
  <1>13. CASE IntentHolds
    BY <1>13 DEF IntentHolds, Goto, Loop!loopVars
  <1>14. CASE IntentStops
    BY <1>14 DEF IntentStops, Report, Loop!loopVars
  <1>15. CASE ReviseIntent
    BY <1>15 DEF ReviseIntent, Adopt, Report, Goto, Loop!LoopNext, Loop!Recover,
       CallsInv, TypeOK
  <1>16. CASE CandidateOnly
    BY <1>16 DEF CandidateOnly, Report, Loop!loopVars
  <1>17. CASE SyntaxHolds
    BY <1>17 DEF SyntaxHolds, Goto, Loop!loopVars
  <1>18. CASE SyntaxStops
    BY <1>18 DEF SyntaxStops, Report, Loop!loopVars
  <1>19. CASE ReviseSyntax
    BY <1>19 DEF ReviseSyntax, Adopt, Report, Goto, Loop!LoopNext, Loop!Recover,
       CallsInv, TypeOK
  <1>20. CASE Collect
    BY <1>20 DEF Collect, Report, Goto, Loop!loopVars
  <1>21. CASE Evaluate
    BY <1>21, GreenIsBoolean DEF Evaluate, Judge, ReportVerdict, Report, Goto,
       Loop!LoopNext, Loop!Verify
  <1>22. CASE ReviseSpan
    BY <1>22 DEF ReviseSpan, Adopt, ReportVerdict, Report, Goto, Loop!LoopNext,
       Loop!Recover, CallsInv, TypeOK
  <1>23. CASE Reevaluate
    BY <1>23, GreenIsBoolean DEF Reevaluate, Judge, ReportVerdict, Report,
       Loop!LoopNext, Loop!Verify
  <1>24. CASE SpecifyCandidate
    BY <1>24 DEF SpecifyCandidate, Report, Goto, Loop!loopVars
  <1>25. CASE ApplyCandidate
    BY <1>25 DEF ApplyCandidate, Report, Goto, Loop!loopVars
  <1>26. CASE Raise
    BY <1>26 DEF Raise, Report, Trying, Loop!loopVars
  <1>27. CASE Close
    <2>1. pc = "close" /\ pc' = "done" /\ UNCHANGED <<calls, verdict, row>>
      BY <1>27 DEF Close
    <2>2. row.success \in BOOLEAN /\ (row.success => verdict.green = TRUE)
      BY DEF TypeOK, RowRecord
    <2>3. row.success \in {FALSE, verdict.green}
      BY <2>2
    <2> QED
      BY <2>1, <2>3 DEF Loop!LoopNext, Loop!End
  <1> QED
    BY <1>1, <1>2, <1>3, <1>4, <1>5, <1>6, <1>7, <1>8, <1>9, <1>10, <1>11, <1>12,
       <1>13, <1>14, <1>15, <1>16, <1>17, <1>18, <1>19, <1>20, <1>21, <1>22,
       <1>23, <1>24, <1>25, <1>26, <1>27
       DEF Next, Prepare, Guard, GatePatch, GateWorkspace, Score

(* Every step of an attempt is a step of a recovery loop of at most five   *)
(* calls that ends once and succeeds only with its last verdict.           *)
THEOREM AttemptImplementsLoop == Spec => Loop!LoopInit /\ [][Loop!LoopNext]_(Loop!loopVars)
  <1>1. Init => Loop!LoopInit
    BY DEF Init, Loop!LoopInit, NoVerdict
  <1>2. Init => CallsInv /\ JudgedInv
    BY DEF Init, CallsInv, JudgedInv, SuccessIsJudged, NoRow, Unpaid
  <1>3. TypeOK /\ CallsInv /\ [Next]_vars => CallsInv'
    BY CallsStep DEF vars, CallsInv, Unpaid
  <1>4. JudgedInv /\ [Next]_vars => JudgedInv'
    BY JudgedStep DEF vars, JudgedInv, SuccessIsJudged
  <1>5. TypeOK /\ CallsInv /\ JudgedInv /\ [Next]_vars => [Loop!LoopNext]_(Loop!loopVars)
    BY LoopStep DEF vars, Loop!loopVars
  <1> QED
    BY <1>1, <1>2, <1>3, <1>4, <1>5, TypeCorrect, PTL DEF Spec

=============================================================================
