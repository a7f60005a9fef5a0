-------------------------- MODULE CleanStartProofs --------------------------
(***************************************************************************)
(* What a clean-start run promises, for every set of trees, everything the *)
(* audits may find out about them and every combination of switches.       *)
(***************************************************************************)
EXTENDS CleanStart, FiniteSetTheorems, TLAPS

Early == {"request", "preflight", "session", "admit", "script", "locate"}

(***************************************************************************)
(* A call of the patcher.                                                  *)
(***************************************************************************)
LEMMA ResumeCall ==
    ASSUME NEW standing, NEW about, NEW taught, Resume(standing, about, taught)
    PROVE  /\ calls' = calls + 1
           /\ tree' \in Trees /\ agent' \in BOOLEAN
           /\ patcher'.call = calls + 1 /\ patcher'.told = taught /\ patcher'.about = about
           /\ verifier' \in {standing, calls + 1} /\ pending' \in {0, calls + 1, pending}
           /\ verifier' = standing \/ agent' \/ pending' = calls + 1
  <1>1. PICK c \in PatcherCalls :
          /\ tree' = c.tree
          /\ patcher' = [call |-> calls + 1, patch |-> c.patch, intent |-> c.intent,
                         told |-> taught, about |-> about]
          /\ verifier' = IF c.success THEN calls + 1 ELSE standing
          /\ pending' = IF c.success /\ ~c.passes THEN calls + 1
                        ELSE IF about # 0 THEN 0 ELSE pending
          /\ agent' = c.passes
    BY DEF Resume
  <1>2. /\ c.tree \in Trees /\ c.success \in BOOLEAN /\ c.passes \in BOOLEAN
        /\ c.passes => c.success
    BY DEF PatcherCalls, CallRecord
  <1>3. calls' = calls + 1
    BY DEF Resume
  <1>4. tree' \in Trees /\ agent' \in BOOLEAN
    BY <1>1, <1>2
  <1>5. patcher'.call = calls + 1 /\ patcher'.told = taught /\ patcher'.about = about
    BY <1>1
  <1>6. verifier' \in {standing, calls + 1} /\ pending' \in {0, calls + 1, pending}
    BY <1>1
  <1>7. verifier' = standing \/ agent' \/ pending' = calls + 1
    BY <1>1, <1>2
  <1> QED
    BY <1>3, <1>4, <1>5, <1>6, <1>7

LEMMA ResumeType ==
    ASSUME TypeOK, calls < MaxCalls, NEW standing \in CallIds, NEW about \in CallIds,
           NEW taught \in SUBSET Lessons, Resume(standing, about, taught)
    PROVE  /\ tree' \in Trees /\ calls' \in CallIds /\ patcher' \in PatcherRecord
           /\ verifier' \in CallIds /\ pending' \in CallIds /\ agent' \in BOOLEAN
  <1>1. calls + 1 \in CallIds /\ 0 \in CallIds /\ pending \in CallIds
    BY DEF TypeOK, CallIds, MaxCalls
  <1>2. calls' \in CallIds /\ verifier' \in CallIds /\ pending' \in CallIds
    BY <1>1, ResumeCall
  <1>3. tree' \in Trees /\ agent' \in BOOLEAN
    BY ResumeCall
  <1>4. patcher' \in PatcherRecord
    <2>1. PICK c \in PatcherCalls :
            patcher' = [call |-> calls + 1, patch |-> c.patch, intent |-> c.intent,
                        told |-> taught, about |-> about]
      BY DEF Resume
    <2>2. c.patch \in BOOLEAN /\ c.intent \in BOOLEAN
      BY DEF PatcherCalls, CallRecord
    <2> QED
      BY <1>1, <2>1, <2>2 DEF PatcherRecord
  <1> QED
    BY <1>2, <1>3, <1>4

(***************************************************************************)
(* The number of calls at each place.                                      *)
(***************************************************************************)
CallsInv ==
    /\ calls \in Nat /\ calls <= MaxCalls
    /\ pc \in Early => calls = 0
    /\ pc = "salvage" => calls <= 1
    /\ pc = "probe" => calls <= 2
    /\ pc = "candidate" => calls <= 3
    /\ pc = "feedback" => calls <= 4
    /\ pc = "forced" => calls <= 5
    /\ pc = "preOracle" => calls <= 6

LEMMA CallsStep ==
    ASSUME CallsInv, Next
    PROVE  CallsInv'
  <1> USE DEF CallsInv, MaxCalls, Early
  <1>1. CASE Decline \/ Preflight \/ StartSession \/ Admit \/ RunScript
    BY <1>1 DEF Decline, Preflight, StartSession, Admit, RunScript, Report, Goto, progress
  <1>2. CASE Locate
    <2>1. pc = "locate" /\ pc' = "salvage"
      BY <1>2 DEF Locate, Goto
    <2>2. calls' = calls + 1 \/ calls' = calls
      BY <1>2, ResumeCall DEF Locate
    <2> QED
      BY <2>1, <2>2
  <1>3. CASE Salvage
    BY <1>3, ResumeCall DEF Salvage, Goto
  <1>4. CASE BoundedRetry
    BY <1>4, ResumeCall DEF BoundedRetry, Goto
  <1>5. CASE ReplaceCandidate
    BY <1>5, ResumeCall DEF ReplaceCandidate, Goto
  <1>6. CASE FeedbackRetry
    BY <1>6, ResumeCall DEF FeedbackRetry, Goto
  <1>7. CASE ForceRevision
    BY <1>7, ResumeCall DEF ForceRevision, Goto
  <1>8. CASE RevisePreOracle
    BY <1>8, ResumeCall DEF RevisePreOracle, Goto
  <1>9. CASE SkipSalvage \/ SkipProbe \/ SkipCandidate \/ SkipFeedback \/ SkipForced \/ SkipPreOracle
    BY <1>9 DEF SkipSalvage, SkipProbe, SkipCandidate, SkipFeedback, SkipForced, SkipPreOracle,
       Goto, progress
  <1>10. CASE AdmitCandidate \/ AdmitPreOracle
    <2>1. /\ UNCHANGED calls
          /\ \/ pc = "candidate" /\ pc' = "feedback"
             \/ pc = "preOracle" /\ pc' = "decide"
      BY <1>10 DEF AdmitCandidate, AdmitPreOracle, Goto, progress
    <2> QED
      BY <2>1
  <1>11. CASE Withhold \/ Evaluate \/ Raise \/ Close
    BY <1>11 DEF Withhold, Evaluate, Raise, Close, Report, progress
  <1> QED
    BY <1>1, <1>2, <1>3, <1>4, <1>5, <1>6, <1>7, <1>8, <1>9, <1>10, <1>11
       DEF Next, Begin, Attempt, Bounded, Revise, Finish

(***************************************************************************)
(* The types.                                                              *)
(***************************************************************************)
RowRecord == [stop : Stops, success : BOOLEAN, credit : BOOLEAN]

LEMMA ReportType ==
    ASSUME NEW stop \in Stops, NEW success \in BOOLEAN, NEW credit \in BOOLEAN,
           Report(stop, success, credit)
    PROVE  row' \in RowRecord /\ pc' \in Places
  BY DEF Report, RowRecord, Places

LEMMA GotoType ==
    ASSUME row \in RowRecord, NEW next \in Places, Goto(next)
    PROVE  row' \in RowRecord /\ pc' \in Places
  BY DEF Goto

LEMMA CreditIsBoolean ==
    ASSUME TypeOK, NEW green \in BOOLEAN
    PROVE  Credit(green) \in BOOLEAN
  BY Zenon DEF Credit, Repeats, Instructed

LEMMA PlaceAndRow ==
    ASSUME TypeOK, Next
    PROVE  row' \in RowRecord /\ pc' \in Places
  <1> USE ReportType, GotoType
  <1>0. row \in RowRecord /\ run \in CleanSetting
    BY DEF TypeOK, RowRecord
  <1>1. CASE Decline
    <2>1. run.request \in {"execute", "plan", "unsupported"}
      BY <1>0 DEF CleanSetting
    <2> QED
      BY <1>0, <1>1, <2>1 DEF Decline, Places, Stops, RowRecord, NoRow
  <1>2. CASE Preflight
    BY <1>0, <1>2 DEF Preflight, Places, Stops, RowRecord, NoRow
  <1>3. CASE StartSession
    BY <1>0, <1>3 DEF StartSession, Places
  <1>4. CASE Admit
    BY <1>0, <1>4 DEF Admit, Places, Stops
  <1>5. CASE RunScript \/ Locate \/ Salvage \/ SkipSalvage
    BY <1>0, <1>5 DEF RunScript, Locate, Salvage, SkipSalvage, Places
  <1>6. CASE BoundedRetry \/ SkipProbe \/ AdmitCandidate \/ ReplaceCandidate \/ SkipCandidate
    BY <1>0, <1>6 DEF BoundedRetry, SkipProbe, AdmitCandidate, ReplaceCandidate, SkipCandidate,
       Places
  <1>7. CASE FeedbackRetry \/ SkipFeedback \/ ForceRevision \/ SkipForced
    BY <1>0, <1>7 DEF FeedbackRetry, SkipFeedback, ForceRevision, SkipForced, Places
  <1>8. CASE AdmitPreOracle \/ RevisePreOracle \/ SkipPreOracle
    BY <1>0, <1>8 DEF AdmitPreOracle, RevisePreOracle, SkipPreOracle, Places
  <1>9. CASE Withhold \/ Raise
    BY <1>9 DEF Withhold, Raise, Stops
  <1>10. CASE Evaluate
    <2> DEFINE green == "oracle" \in Holds[tree]
    <2>1. green \in BOOLEAN
      OBVIOUS
    <2>2. Report("executed", green, Credit(green))
      BY <1>10 DEF Evaluate
    <2>3. Credit(green) \in BOOLEAN
      BY <2>1, CreditIsBoolean
    <2> HIDE DEF green
    <2> QED
      BY <2>1, <2>2, <2>3 DEF Stops
  <1>11. CASE Close
    BY <1>0, <1>11 DEF Close, Places
  <1> QED
    BY <1>1, <1>2, <1>3, <1>4, <1>5, <1>6, <1>7, <1>8, <1>9, <1>10, <1>11
       DEF Next, Begin, Attempt, Bounded, Revise, Finish

(* The workspace, and what the stages left behind.                         *)
ProgressType ==
    /\ tree \in Trees /\ calls \in CallIds /\ patcher \in PatcherRecord
    /\ verifier \in CallIds /\ pending \in CallIds /\ agent \in BOOLEAN

LEMMA ProgressStep ==
    ASSUME TypeOK, CallsInv, Next
    PROVE  ProgressType'
  <1>0. /\ 0 \in CallIds /\ verifier \in CallIds /\ pending \in CallIds
        /\ lessons \in SUBSET Lessons
    BY DEF TypeOK, CallIds, MaxCalls
  <1>1. CASE Locate
    <2>1. pc = "locate"
      BY <1>1 DEF Locate
    <2>2. calls < MaxCalls
      BY <2>1 DEF CallsInv, Early, MaxCalls
    <2>3. CASE Resume(verifier, 0, lessons)
      BY <1>0, <2>2, <2>3, ResumeType DEF ProgressType
    <2>4. CASE UNCHANGED <<tree, calls, patcher, verifier, pending, agent>>
      BY <2>4 DEF ProgressType, TypeOK
    <2> QED
      BY <1>1, <2>3, <2>4 DEF Locate
  <1>2. CASE Salvage
    <2>1. pc = "salvage" /\ Resume(verifier, 0, lessons \cap {"external"})
      BY <1>2 DEF Salvage
    <2>2. calls < MaxCalls
      BY <2>1 DEF CallsInv, MaxCalls
    <2>3. lessons \cap {"external"} \in SUBSET Lessons
      BY <1>0
    <2> QED
      BY <1>0, <2>1, <2>2, <2>3, ResumeType DEF ProgressType
  <1>3. CASE BoundedRetry \/ ReplaceCandidate \/ ForceRevision \/ RevisePreOracle
    <2>1. pc \in {"probe", "candidate", "forced", "preOracle"} /\ Resume(0, 0, lessons)
      BY <1>3 DEF BoundedRetry, ReplaceCandidate, ForceRevision, RevisePreOracle, Cleared
    <2>2. calls < MaxCalls
      BY <2>1 DEF CallsInv, MaxCalls
    <2> QED
      BY <1>0, <2>1, <2>2, ResumeType DEF ProgressType
  <1>4. CASE FeedbackRetry
    <2>1. pc = "feedback" /\ Resume(verifier, pending, lessons)
      BY <1>4 DEF FeedbackRetry
    <2>2. calls < MaxCalls
      BY <2>1 DEF CallsInv, MaxCalls
    <2> QED
      BY <1>0, <2>1, <2>2, ResumeType DEF ProgressType
  <1>5. CASE RunScript
    <2>1. tree' \in Trees /\ agent' \in BOOLEAN /\ UNCHANGED <<calls, verifier, pending>>
      BY <1>5 DEF RunScript
    <2>2. PICK i \in BOOLEAN : patcher' = [NoPatcher EXCEPT !.intent = i]
      BY <1>5 DEF RunScript
    <2>3. patcher' \in PatcherRecord
      BY <1>0, <2>2 DEF NoPatcher, PatcherRecord
    <2> QED
      BY <2>1, <2>3 DEF ProgressType, TypeOK
  <1>6. CASE UNCHANGED progress
    BY <1>6 DEF progress, ProgressType, TypeOK
  <1> QED
    BY <1>1, <1>2, <1>3, <1>4, <1>5, <1>6
       DEF Next, Begin, Attempt, Bounded, Revise, Finish, Decline, Preflight, StartSession, Admit,
           SkipSalvage, SkipProbe, AdmitCandidate, SkipCandidate, SkipFeedback, SkipForced,
           AdmitPreOracle, SkipPreOracle, Withhold, Evaluate, Raise, Close

Locators == {"none", "lost", "guess", "found"}
Classes == FailureClasses \cup {"none"}
Audits == [{"script", "candidate", "preOracle"} -> AuditRecord]

LEMMA AuditType ==
    ASSUME NEW admitted, NEW at \in CallIds
    PROVE  Audit(admitted, at) \in AuditRecord
  BY DEF Audit, AuditRecord

LEMMA AuditsStep ==
    ASSUME TypeOK, CallsInv, Next
    PROVE  audits' \in Audits
  <1>0. calls \in CallIds /\ audits \in Audits
    BY DEF TypeOK, Audits
  <1>1. calls' \in CallIds
    BY ProgressStep DEF ProgressType
  <1>2. ASSUME NEW name \in {"script", "candidate", "preOracle"}, NEW a \in AuditRecord,
               audits' = [audits EXCEPT ![name] = a]
        PROVE  audits' \in Audits
    BY <1>0, <1>2 DEF Audits
  <1>3. CASE RunScript
    BY <1>0, <1>2, <1>3, AuditType DEF RunScript
  <1>4. CASE AdmitCandidate
    BY <1>0, <1>2, <1>4, AuditType DEF AdmitCandidate
  <1>5. CASE ReplaceCandidate
    BY <1>1, <1>2, <1>5, AuditType DEF ReplaceCandidate
  <1>6. CASE AdmitPreOracle
    BY <1>0, <1>2, <1>6, AuditType DEF AdmitPreOracle
  <1>7. CASE RevisePreOracle
    BY <1>1, <1>2, <1>7, AuditType DEF RevisePreOracle
  <1>8. CASE UNCHANGED audits
    BY <1>0, <1>8
  <1> QED
    BY <1>3, <1>4, <1>5, <1>6, <1>7, <1>8
       DEF Next, Begin, Attempt, Bounded, Revise, Finish, Decline, Preflight, StartSession, Admit,
           Locate, Salvage, SkipSalvage, BoundedRetry, SkipProbe, SkipCandidate, FeedbackRetry,
           SkipFeedback, ForceRevision, SkipForced, SkipPreOracle, Withhold, Evaluate, Raise, Close

LEMMA FlagsStep ==
    ASSUME TypeOK, Next
    PROVE  /\ run' \in CleanSetting /\ session' \in BOOLEAN /\ locator' \in Locators
           /\ lessons' \in SUBSET Lessons /\ class' \in Classes
           /\ forced' \in [repeated : BOOLEAN, covered : BOOLEAN]
           /\ verdict' \in [on : Trees, green : BOOLEAN]
  <1>0. /\ run \in CleanSetting /\ session \in BOOLEAN /\ locator \in Locators
        /\ lessons \in SUBSET Lessons /\ class \in Classes
        /\ forced \in [repeated : BOOLEAN, covered : BOOLEAN]
        /\ verdict \in [on : Trees, green : BOOLEAN] /\ tree \in Trees
    BY DEF TypeOK, Locators, Classes
  <1>1. CASE StartSession \/ Close
    BY <1>0, <1>1 DEF StartSession, Close, progress
  <1>2. CASE Admit
    <2>1. lessons' = {l \in {"external", "others"} : run[l] = "admitted"}
      BY <1>2 DEF Admit
    <2>2. lessons' \in SUBSET Lessons
      BY <2>1 DEF Lessons
    <2> QED
      BY <1>0, <1>2, <2>2 DEF Admit, progress
  <1>3. CASE Locate
    BY <1>0, <1>3 DEF Locate, Locators
  <1>4. CASE Salvage
    BY <1>0, <1>4 DEF Salvage
  <1>5. CASE BoundedRetry
    <2>1. PICK s \in Signals(tree) : class' = s.class
      BY <1>5 DEF BoundedRetry
    <2>2. class' \in Classes
      BY <2>1 DEF Signals, Signal, Classes
    <2> QED
      BY <1>0, <1>5, <2>2 DEF BoundedRetry
  <1>6. CASE ForceRevision
    <2>1. forced' \in [repeated : BOOLEAN, covered : BOOLEAN]
      BY <1>6, Zenon DEF ForceRevision, Repeats, Covers, Instructed
    <2> QED
      BY <1>0, <1>6, <2>1 DEF ForceRevision
  <1>7. CASE Evaluate
    <2>1. verdict' = [on |-> tree, green |-> "oracle" \in Holds[tree]]
      BY <1>7 DEF Evaluate
    <2>2. verdict' \in [on : Trees, green : BOOLEAN]
      BY <1>0, <2>1
    <2> QED
      BY <1>0, <1>7, <2>2 DEF Evaluate, progress
  <1>8. CASE UNCHANGED <<run, session, locator, lessons, class, forced, verdict>>
    BY <1>0, <1>8
  <1> QED
    BY <1>1, <1>2, <1>3, <1>4, <1>5, <1>6, <1>7, <1>8
       DEF Next, Begin, Attempt, Bounded, Revise, Finish, Decline, Preflight, RunScript,
           SkipSalvage, SkipProbe, AdmitCandidate, ReplaceCandidate, SkipCandidate, FeedbackRetry,
           SkipFeedback, SkipForced, AdmitPreOracle, RevisePreOracle, SkipPreOracle, Withhold,
           Raise, progress

LEMMA InitType == Init => TypeOK /\ CallsInv
  <1> SUFFICES ASSUME Init PROVE TypeOK /\ CallsInv
    OBVIOUS
  <1>1. /\ run \in CleanSetting /\ pc \in Places /\ tree \in Trees /\ calls \in CallIds
        /\ locator \in Locators /\ verifier \in CallIds /\ pending \in CallIds
        /\ lessons \in SUBSET Lessons /\ class \in Classes
    BY RunsAssumption, TreesAssumption
       DEF Init, Places, CallIds, MaxCalls, Locators, Classes
  <1>2. session \in BOOLEAN /\ agent \in BOOLEAN
    BY Zenon DEF Init
  <1>3. patcher \in PatcherRecord
    BY DEF Init, NoPatcher, PatcherRecord, CallIds, MaxCalls
  <1>4. audits \in Audits
    BY DEF Init, NoAudit, Audits, AuditRecord, CallIds, MaxCalls
  <1>5. /\ forced \in [repeated : BOOLEAN, covered : BOOLEAN]
        /\ verdict \in [on : Trees, green : BOOLEAN] /\ row \in RowRecord
    BY TreesAssumption DEF Init, NoVerdict, NoRow, RowRecord, Stops
  <1>6. CallsInv
    BY DEF Init, CallsInv, MaxCalls
  <1> QED
    BY <1>1, <1>2, <1>3, <1>4, <1>5, <1>6 DEF TypeOK, Locators, Classes, Audits, RowRecord

LEMMA TypeStep == TypeOK /\ CallsInv /\ [Next]_vars => TypeOK' /\ CallsInv'
  <1>1. TypeOK /\ CallsInv /\ UNCHANGED vars => TypeOK' /\ CallsInv'
    BY DEF TypeOK, CallsInv, vars, progress
  <1>2. TypeOK /\ CallsInv /\ Next => TypeOK' /\ CallsInv'
    BY CallsStep, PlaceAndRow, ProgressStep, AuditsStep, FlagsStep
       DEF TypeOK, ProgressType, Audits, Locators, Classes, RowRecord
  <1> QED
    BY <1>1, <1>2

(* A run has the values the code gives it, and calls the patcher seven     *)
(* times at most.                                                          *)
THEOREM TypeCorrect == Spec => []TypeOK
  BY InitType, TypeStep, PTL DEF Spec

(***************************************************************************)
(* Success, and credit.                                                    *)
(***************************************************************************)
Ending == {"close", "done"}

(* Nothing is reported while the run goes on.                              *)
JudgedInv ==
    /\ pc \notin Ending => row.success = FALSE
    /\ SuccessIsJudged

LEMMA JudgedStep ==
    ASSUME JudgedInv, Next
    PROVE  JudgedInv'
  <1> USE DEF JudgedInv, SuccessIsJudged, Ending
  <1>1. CASE Decline
    BY <1>1 DEF Decline, NoRow, progress
  <1>2. CASE Preflight
    BY <1>2 DEF Preflight, NoRow, progress
  <1>3. CASE StartSession
    BY <1>3 DEF StartSession, Goto, progress
  <1>4. CASE Admit
    BY <1>4 DEF Admit, Report, Goto, progress
  <1>5. CASE RunScript
    BY <1>5 DEF RunScript, Goto
  <1>6. CASE Locate
    BY <1>6 DEF Locate, Goto
  <1>7. CASE Salvage \/ SkipSalvage
    BY <1>7 DEF Salvage, SkipSalvage, Goto, progress
  <1>8. CASE BoundedRetry \/ SkipProbe
    BY <1>8 DEF BoundedRetry, SkipProbe, Goto, progress
  <1>9. CASE AdmitCandidate \/ ReplaceCandidate \/ SkipCandidate
    <2>1. pc = "candidate" /\ pc' = "feedback" /\ UNCHANGED <<row, verdict>>
      BY <1>9 DEF AdmitCandidate, ReplaceCandidate, SkipCandidate, Goto
    <2> QED
      BY <2>1
  <1>10. CASE FeedbackRetry \/ SkipFeedback
    BY <1>10 DEF FeedbackRetry, SkipFeedback, Goto, progress
  <1>11. CASE ForceRevision \/ SkipForced
    <2>1. pc = "forced" /\ pc' = "preOracle" /\ UNCHANGED <<row, verdict>>
      BY <1>11 DEF ForceRevision, SkipForced, Goto
    <2> QED
      BY <2>1
  <1>12. CASE AdmitPreOracle \/ RevisePreOracle \/ SkipPreOracle
    <2>1. pc = "preOracle" /\ pc' = "decide" /\ UNCHANGED <<row, verdict>>
      BY <1>12 DEF AdmitPreOracle, RevisePreOracle, SkipPreOracle, Goto
    <2> QED
      BY <2>1
  <1>13. CASE Withhold \/ Raise
    BY <1>13 DEF Withhold, Raise, Report
  <1>14. CASE Evaluate
    <2>1. /\ verdict' = [on |-> tree, green |-> "oracle" \in Holds[tree]]
          /\ row'.success = ("oracle" \in Holds[tree])
          /\ pc' = "close" /\ tree' = tree
      BY <1>14 DEF Evaluate, Report, progress
    <2> QED
      BY <2>1
  <1>15. CASE Close
    BY <1>15 DEF Close, progress
  <1> QED
    BY <1>1, <1>2, <1>3, <1>4, <1>5, <1>6, <1>7, <1>8, <1>9, <1>10, <1>11, <1>12, <1>13, <1>14,
       <1>15
       DEF Next, Begin, Attempt, Bounded, Revise, Finish

(* Success is what the oracle said of the workspace as it is left.         *)
THEOREM JudgedAlways == Spec => []SuccessIsJudged
  <1>1. Init => JudgedInv
    BY DEF Init, JudgedInv, SuccessIsJudged, NoRow
  <1>2. JudgedInv /\ [Next]_vars => JudgedInv'
    BY JudgedStep DEF vars, progress, JudgedInv, SuccessIsJudged
  <1>3. JudgedInv => SuccessIsJudged
    BY DEF JudgedInv
  <1> QED
    BY <1>1, <1>2, <1>3, PTL DEF Spec

(* What the forced revision found of the targets is true until the next    *)
(* retry.                                                                  *)
CreditInv ==
    /\ pc \notin Ending => row.credit = FALSE
    /\ pc = "preOracle" /\ forced.covered => Covers(tree)
    /\ pc = "decide" /\ ~AuditsPreOracle /\ forced.covered => Covers(tree)
    /\ CreditIsNew

LEMMA CreditStep ==
    ASSUME CreditInv, Next
    PROVE  CreditInv'
  <1> USE DEF CreditInv, CreditIsNew, Ending
  <1>1. CASE Decline
    BY <1>1 DEF Decline, NoRow
  <1>2. CASE Preflight
    BY <1>2 DEF Preflight, NoRow
  <1>3. CASE StartSession
    BY <1>3 DEF StartSession, Goto
  <1>4. CASE Admit
    BY <1>4 DEF Admit, Report, Goto
  <1>5. CASE RunScript
    BY <1>5 DEF RunScript, Goto
  <1>6. CASE Locate
    BY <1>6 DEF Locate, Goto
  <1>7. CASE Salvage \/ SkipSalvage
    <2>1. pc = "salvage" /\ pc' = "probe" /\ UNCHANGED row
      BY <1>7 DEF Salvage, SkipSalvage, Goto
    <2> QED
      BY <2>1
  <1>8. CASE BoundedRetry \/ SkipProbe
    <2>1. pc = "probe" /\ pc' \in {"candidate", "feedback"} /\ UNCHANGED row
      BY <1>8 DEF BoundedRetry, SkipProbe, Goto
    <2> QED
      BY <2>1
  <1>9. CASE AdmitCandidate \/ ReplaceCandidate \/ SkipCandidate
    <2>1. pc = "candidate" /\ pc' = "feedback" /\ UNCHANGED row
      BY <1>9 DEF AdmitCandidate, ReplaceCandidate, SkipCandidate, Goto
    <2> QED
      BY <2>1
  <1>10. CASE FeedbackRetry \/ SkipFeedback
    <2>1. pc = "feedback" /\ pc' = "forced" /\ UNCHANGED row
      BY <1>10 DEF FeedbackRetry, SkipFeedback, Goto
    <2> QED
      BY <2>1
  <1>11. CASE ForceRevision
    <2>1. /\ pc = "forced" /\ pc' = "preOracle" /\ UNCHANGED <<row, run>>
          /\ forced' = [repeated |-> Repeats(tree'), covered |-> Covers(tree')]
      BY <1>11 DEF ForceRevision, Goto
    <2>2. Covers(tree') => Covers(tree)'
      BY <2>1 DEF Covers, Instructed
    <2> QED
      BY <2>1, <2>2
  <1>12. CASE SkipForced
    <2>1. pc = "forced" /\ pc' = "preOracle" /\ UNCHANGED <<row, run, tree>> /\ Covers(tree)
      BY <1>12 DEF SkipForced, Goto, progress
    <2>2. Covers(tree)'
      BY <2>1 DEF Covers, Instructed
    <2> QED
      BY <2>1, <2>2
  <1>13. CASE AdmitPreOracle \/ RevisePreOracle
    <2>1. pc = "preOracle" /\ pc' = "decide" /\ UNCHANGED <<row, run>> /\ AuditsPreOracle
      BY <1>13 DEF AdmitPreOracle, RevisePreOracle, Goto
    <2>2. AuditsPreOracle'
      BY <2>1 DEF AuditsPreOracle
    <2> QED
      BY <2>1, <2>2
  <1>14. CASE SkipPreOracle
    <2>1. pc = "preOracle" /\ pc' = "decide" /\ UNCHANGED <<row, run, tree, forced>>
      BY <1>14 DEF SkipPreOracle, Goto, progress
    <2>2. Covers(tree) => Covers(tree)'
      BY <2>1 DEF Covers, Instructed
    <2> QED
      BY <2>1, <2>2
  <1>15. CASE Withhold \/ Raise
    BY <1>15 DEF Withhold, Raise, Report
  <1>16. CASE Evaluate
    <2> DEFINE green == "oracle" \in Holds[tree]
    <2>1. /\ pc = "decide" /\ pc' = "close" /\ UNCHANGED <<run, tree, forced>>
          /\ row' = [stop |-> "executed", success |-> green, credit |-> Credit(green)]
      BY <1>16 DEF Evaluate, Report, progress
    <2>2. row'.credit => row'.success /\ ~Repeats(tree) /\ forced.covered
      BY <2>1 DEF Credit
    <2>3. (row'.credit /\ ~AuditsPreOracle) => Covers(tree)
      BY <2>1, <2>2
    <2>4. CreditIsNew'
      BY <2>1, <2>2, <2>3 DEF Repeats, Covers, Instructed, AuditsPreOracle
    <2> QED
      BY <2>1, <2>4
  <1>17. CASE Close
    BY <1>17 DEF Close, progress, Instructed, AuditsPreOracle
  <1> QED
    BY <1>1, <1>2, <1>3, <1>4, <1>5, <1>6, <1>7, <1>8, <1>9, <1>10, <1>11, <1>12, <1>13, <1>14,
       <1>15, <1>16, <1>17
       DEF Next, Begin, Attempt, Bounded, Revise, Finish

(* Credit is given for a diff that is not the one that failed, and that    *)
(* covers the targets unless the retry before the oracle is on.            *)
THEOREM CreditAlways == Spec => []CreditIsNew
  <1>1. Init => CreditInv
    BY DEF Init, CreditInv, CreditIsNew, NoRow
  <1>2. CreditInv /\ [Next]_vars => CreditInv'
    BY CreditStep
       DEF vars, progress, CreditInv, CreditIsNew, Covers, Instructed, AuditsPreOracle, Ending
  <1>3. CreditInv => CreditIsNew
    BY DEF CreditInv
  <1> QED
    BY <1>1, <1>2, <1>3, PTL DEF Spec

(***************************************************************************)
(* What the oracle is asked about.                                         *)
(***************************************************************************)
(* An audit that is about the present call is about the present tree; a    *)
(* candidate is audited after the stages only.                             *)
AuditInv ==
    /\ calls \in Nat /\ audits \in Audits
    /\ \A name \in DOMAIN audits : audits[name].at <= calls
    /\ audits["candidate"].state = "admitted" /\ audits["candidate"].at = calls
         => CandidateAdmitted(tree)
    /\ audits["script"].state = "admitted" /\ audits["script"].at = calls => ScriptAdmitted(tree)
    /\ pc \in Early => audits["candidate"].state = "off" /\ audits["script"].state = "off"

Settled ==
    /\ AuditsPreOracle => PreOracleAdmitted(tree)
    /\ run.diffFirst => patcher.intent /\ "source" \in Holds[tree]
    /\ \A name \in DOMAIN audits : ~Rejected(name)

AdmittedInv ==
    /\ pc = "decide" /\ AuditsPreOracle => PreOracleAdmitted(tree) \/ Rejected("preOracle")
    /\ pc \notin Ending => row.stop # "executed"
    /\ row.stop = "executed" => Settled

(* A call of the patcher makes every audit one of an earlier call.         *)
LEMMA ResumeAudits ==
    ASSUME AuditInv, calls' = calls + 1, UNCHANGED audits, pc' \notin Early
    PROVE  AuditInv'
  <1>1. \A name \in DOMAIN audits : audits[name].at \in Nat
    BY DEF AuditInv, Audits, AuditRecord, CallIds, MaxCalls
  <1>2. /\ \A name \in DOMAIN audits : audits'[name].at <= calls' /\ audits'[name].at # calls'
        /\ calls' \in Nat
    BY <1>1 DEF AuditInv
  <1>3. "candidate" \in DOMAIN audits /\ "script" \in DOMAIN audits
    BY DEF AuditInv, Audits
  <1> QED
    BY <1>2, <1>3 DEF AuditInv

(* A step that leaves the workspace alone leaves the audits true.          *)
LEMMA SameAudits ==
    ASSUME AuditInv, UNCHANGED <<audits, calls, tree, class, run>>,
           pc' \in Early => pc \in Early
    PROVE  AuditInv'
  BY DEF AuditInv, CandidateAdmitted, ScriptAdmitted, PreOracleAdmitted, EditHolds

LEMMA NewAudit ==
    ASSUME AuditInv, NEW name \in {"script", "candidate", "preOracle"}, NEW a \in AuditRecord,
           audits' = [audits EXCEPT ![name] = a], a.at = calls', calls' \in CallIds,
           calls <= calls'
    PROVE  /\ audits' \in Audits /\ calls' \in Nat
           /\ \A n \in DOMAIN audits' : audits'[n].at <= calls'
           /\ audits'[name] = a
           /\ \A n \in DOMAIN audits : n # name => audits'[n] = audits[n]
  <1>2. audits' \in Audits
    BY DEF AuditInv, Audits
  <1>3. DOMAIN audits' = DOMAIN audits /\ name \in DOMAIN audits
    BY DEF AuditInv, Audits
  <1>4. \A n \in DOMAIN audits : n # name => audits'[n] = audits[n]
    BY <1>3
  <1>5. audits'[name] = a
    BY <1>3
  <1>6. \A n \in DOMAIN audits : audits[n].at \in Nat
    BY DEF AuditInv, Audits, AuditRecord, CallIds, MaxCalls
  <1>7. calls \in Nat /\ calls' \in Nat
    BY DEF AuditInv, CallIds, MaxCalls
  <1>8. ASSUME NEW n \in DOMAIN audits' PROVE audits'[n].at <= calls'
    <2>1. CASE n = name
      BY <1>5, <1>7, <2>1
    <2>2. CASE n # name
      BY <1>3, <1>4, <1>6, <1>7, <2>2 DEF AuditInv
    <2> QED
      BY <2>1, <2>2
  <1> QED
    BY <1>2, <1>4, <1>5, <1>7, <1>8

LEMMA AuditStep ==
    ASSUME TypeOK, CallsInv, AuditInv, Next
    PROVE  AuditInv'
  <1>0. calls \in CallIds /\ calls' \in CallIds /\ calls \in Nat
    BY ProgressStep DEF ProgressType, TypeOK, CallIds, MaxCalls
  <1>1. CASE Decline \/ Preflight \/ StartSession \/ Admit
    <2>1. pc \in Early /\ UNCHANGED <<audits, calls, tree, class, run>>
      BY <1>1 DEF Decline, Preflight, StartSession, Admit, Early, progress
    <2> QED
      BY <2>1, SameAudits
  <1>2. CASE RunScript
    <2>1. /\ pc = "script" /\ pc' = "probe" /\ UNCHANGED <<calls, run, class>>
          /\ audits' = [audits EXCEPT !["script"] = Audit(agent' /\ ScriptAdmitted(tree'), calls')]
      BY <1>2 DEF RunScript, Goto
    <2>2. /\ audits' \in Audits /\ calls' \in Nat
          /\ \A n \in DOMAIN audits' : audits'[n].at <= calls'
          /\ audits'["script"].state = "admitted" => agent' /\ ScriptAdmitted(tree')
          /\ \A n \in DOMAIN audits : n # "script" => audits'[n] = audits[n]
      <3> DEFINE a == Audit(agent' /\ ScriptAdmitted(tree'), calls')
      <3>1. a \in AuditRecord
        BY <1>0, AuditType
      <3>2. a.at = calls' /\ (a.state = "admitted" => agent' /\ ScriptAdmitted(tree'))
        BY DEF Audit
      <3>3. audits' = [audits EXCEPT !["script"] = a] /\ calls <= calls'
        BY <1>0, <2>1
      <3> HIDE DEF a
      <3> QED
        BY <1>0, <3>1, <3>2, <3>3, NewAudit
    <2>3. audits'["candidate"].state = "off"
      BY <2>1, <2>2 DEF AuditInv, Audits, Early
    <2>4. ScriptAdmitted(tree') => ScriptAdmitted(tree)'
      BY <2>1 DEF ScriptAdmitted, PreOracleAdmitted, EditHolds
    <2> QED
      BY <2>1, <2>2, <2>3, <2>4 DEF AuditInv, Early
  <1>3. CASE Locate
    <2>1. pc = "locate" /\ pc' = "salvage" /\ UNCHANGED <<run, class, audits>>
      BY <1>3 DEF Locate, Goto
    <2>2. CASE Resume(verifier, 0, lessons)
      BY <2>1, <2>2, ResumeCall, ResumeAudits DEF Early
    <2>3. CASE UNCHANGED <<tree, calls, patcher, verifier, pending, agent>>
      BY <2>1, <2>3, SameAudits DEF Early
    <2> QED
      BY <1>3, <2>2, <2>3 DEF Locate
  <1>4. CASE Salvage
    <2>1. /\ Resume(verifier, 0, lessons \cap {"external"}) /\ pc' = "probe"
          /\ UNCHANGED audits
      BY <1>4 DEF Salvage, Goto
    <2> QED
      BY <2>1, ResumeCall, ResumeAudits DEF Early
  <1>5. CASE BoundedRetry
    <2>1. Resume(0, 0, lessons) /\ pc' = "candidate" /\ UNCHANGED audits
      BY <1>5 DEF BoundedRetry, Goto, Cleared
    <2> QED
      BY <2>1, ResumeCall, ResumeAudits DEF Early
  <1>6. CASE FeedbackRetry
    <2>1. Resume(verifier, pending, lessons) /\ pc' = "forced" /\ UNCHANGED audits
      BY <1>6 DEF FeedbackRetry, Goto
    <2> QED
      BY <2>1, ResumeCall, ResumeAudits DEF Early
  <1>7. CASE ForceRevision
    <2>1. Resume(0, 0, lessons) /\ pc' = "preOracle" /\ UNCHANGED audits
      BY <1>7 DEF ForceRevision, Goto, Cleared
    <2> QED
      BY <2>1, ResumeCall, ResumeAudits DEF Early
  <1>8. CASE AdmitCandidate
    <2>1. /\ pc' = "feedback" /\ UNCHANGED <<calls, run, class, tree>>
          /\ audits' = [audits EXCEPT !["candidate"] = Audit(CandidateAdmitted(tree), calls')]
      BY <1>8 DEF AdmitCandidate, Goto, progress
    <2>2. /\ audits' \in Audits /\ calls' \in Nat
          /\ \A n \in DOMAIN audits' : audits'[n].at <= calls'
          /\ audits'["candidate"].state = "admitted" => CandidateAdmitted(tree)
          /\ \A n \in DOMAIN audits : n # "candidate" => audits'[n] = audits[n]
      <3> DEFINE a == Audit(CandidateAdmitted(tree), calls')
      <3>1. a \in AuditRecord
        BY <1>0, AuditType
      <3>2. a.at = calls' /\ (a.state = "admitted" => CandidateAdmitted(tree))
        BY DEF Audit
      <3>3. audits' = [audits EXCEPT !["candidate"] = a] /\ calls <= calls'
        BY <1>0, <2>1
      <3> HIDE DEF a
      <3> QED
        BY <1>0, <3>1, <3>2, <3>3, NewAudit
    <2>3. audits'["script"] = audits["script"]
      BY <2>2 DEF AuditInv, Audits
    <2>4. CandidateAdmitted(tree) => CandidateAdmitted(tree)'
      BY <2>1 DEF CandidateAdmitted, EditHolds
    <2>5. ScriptAdmitted(tree) => ScriptAdmitted(tree)'
      BY <2>1 DEF ScriptAdmitted, PreOracleAdmitted, EditHolds
    <2> QED
      BY <2>1, <2>2, <2>3, <2>4, <2>5 DEF AuditInv, Early
  <1>9. CASE ReplaceCandidate
    <2>1. /\ pc' = "feedback" /\ UNCHANGED <<run, class>> /\ calls' = calls + 1
          /\ audits' = [audits EXCEPT !["candidate"] = Audit(CandidateAdmitted(tree'), calls')]
      BY <1>9, ResumeCall DEF ReplaceCandidate, Goto
    <2>2. /\ audits' \in Audits /\ calls' \in Nat
          /\ \A n \in DOMAIN audits' : audits'[n].at <= calls'
          /\ audits'["candidate"].state = "admitted" => CandidateAdmitted(tree')
          /\ \A n \in DOMAIN audits : n # "candidate" => audits'[n] = audits[n]
      <3> DEFINE a == Audit(CandidateAdmitted(tree'), calls')
      <3>1. a \in AuditRecord
        BY <1>0, AuditType
      <3>2. a.at = calls' /\ (a.state = "admitted" => CandidateAdmitted(tree'))
        BY DEF Audit
      <3>3. audits' = [audits EXCEPT !["candidate"] = a] /\ calls <= calls'
        BY <1>0, <2>1
      <3> HIDE DEF a
      <3> QED
        BY <1>0, <3>1, <3>2, <3>3, NewAudit
    <2>3. audits'["script"].at # calls'
      BY <1>0, <2>1, <2>2 DEF AuditInv, Audits, AuditRecord, CallIds, MaxCalls
    <2>4. CandidateAdmitted(tree') => CandidateAdmitted(tree)'
      BY <2>1 DEF CandidateAdmitted, EditHolds
    <2> QED
      BY <2>1, <2>2, <2>3, <2>4 DEF AuditInv, Early
  <1>10. CASE AdmitPreOracle
    <2>1. /\ pc' = "decide" /\ UNCHANGED <<calls, run, class, tree>>
          /\ audits' = [audits EXCEPT !["preOracle"] = Audit(TRUE, calls')]
      BY <1>10 DEF AdmitPreOracle, Goto, progress
    <2>2. /\ audits' \in Audits /\ calls' \in Nat
          /\ \A n \in DOMAIN audits' : audits'[n].at <= calls'
          /\ \A n \in DOMAIN audits : n # "preOracle" => audits'[n] = audits[n]
      <3> DEFINE a == Audit(TRUE, calls')
      <3>1. a \in AuditRecord
        BY <1>0, AuditType
      <3>2. a.at = calls' /\ (a.state = "admitted" => TRUE)
        BY DEF Audit
      <3>3. audits' = [audits EXCEPT !["preOracle"] = a] /\ calls <= calls'
        BY <1>0, <2>1
      <3> HIDE DEF a
      <3> QED
        BY <1>0, <3>1, <3>2, <3>3, NewAudit
    <2>3. audits'["script"] = audits["script"] /\ audits'["candidate"] = audits["candidate"]
      BY <2>2 DEF AuditInv, Audits
    <2>4. CandidateAdmitted(tree) => CandidateAdmitted(tree)'
      BY <2>1 DEF CandidateAdmitted, EditHolds
    <2>5. ScriptAdmitted(tree) => ScriptAdmitted(tree)'
      BY <2>1 DEF ScriptAdmitted, PreOracleAdmitted, EditHolds
    <2> QED
      BY <2>1, <2>2, <2>3, <2>4, <2>5 DEF AuditInv, Early
  <1>11. CASE RevisePreOracle
    <2>1. /\ pc' = "decide" /\ calls' = calls + 1
          /\ audits' = [audits EXCEPT !["preOracle"] = Audit(PreOracleAdmitted(tree'), calls')]
      BY <1>11, ResumeCall DEF RevisePreOracle, Goto
    <2>2. /\ audits' \in Audits /\ calls' \in Nat
          /\ \A n \in DOMAIN audits' : audits'[n].at <= calls'
          /\ \A n \in DOMAIN audits : n # "preOracle" => audits'[n] = audits[n]
      <3> DEFINE a == Audit(PreOracleAdmitted(tree'), calls')
      <3>1. a \in AuditRecord
        BY <1>0, AuditType
      <3>2. a.at = calls' /\ (a.state = "admitted" => PreOracleAdmitted(tree'))
        BY DEF Audit
      <3>3. audits' = [audits EXCEPT !["preOracle"] = a] /\ calls <= calls'
        BY <1>0, <2>1
      <3> HIDE DEF a
      <3> QED
        BY <1>0, <3>1, <3>2, <3>3, NewAudit
    <2>3. audits'["script"].at # calls' /\ audits'["candidate"].at # calls'
      BY <1>0, <2>1, <2>2 DEF AuditInv, Audits, AuditRecord, CallIds, MaxCalls
    <2> QED
      BY <2>1, <2>2, <2>3 DEF AuditInv, Early
  <1>12. CASE SkipSalvage \/ SkipProbe \/ SkipCandidate \/ SkipFeedback \/ SkipForced \/ SkipPreOracle
    <2>1. pc' \notin Early /\ UNCHANGED <<audits, calls, tree, class, run>>
      BY <1>12 DEF SkipSalvage, SkipProbe, SkipCandidate, SkipFeedback, SkipForced, SkipPreOracle,
         Goto, Early, progress
    <2> QED
      BY <2>1, SameAudits
  <1>13. CASE Withhold \/ Evaluate \/ Raise \/ Close
    <2>1. pc' \notin Early /\ UNCHANGED <<audits, calls, tree, class, run>>
      BY <1>13 DEF Withhold, Evaluate, Raise, Close, Report, Early, progress
    <2> QED
      BY <2>1, SameAudits
  <1> QED
    BY <1>1, <1>2, <1>3, <1>4, <1>5, <1>6, <1>7, <1>8, <1>9, <1>10, <1>11, <1>12, <1>13
       DEF Next, Begin, Attempt, Bounded, Revise, Finish

LEMMA SameSettled ==
    ASSUME UNCHANGED <<run, tree, patcher, audits>>
    PROVE  /\ Settled => Settled'
           /\ PreOracleAdmitted(tree) => PreOracleAdmitted(tree)'
  BY DEF Settled, AuditsPreOracle, PreOracleAdmitted, EditHolds, Rejected

LEMMA AdmittedStep ==
    ASSUME TypeOK, AuditInv, AdmittedInv, Next
    PROVE  AdmittedInv'
  <1> USE DEF AdmittedInv, Ending
  <1>1. CASE Decline
    <2>1. run.request # "executed" /\ pc = "request"
      BY <1>1 DEF Decline, TypeOK, CleanSetting
    <2> QED
      BY <1>1, <2>1 DEF Decline, NoRow
  <1>2. CASE Preflight
    BY <1>2 DEF Preflight, NoRow
  <1>3. CASE StartSession \/ Admit
    BY <1>3 DEF StartSession, Admit, Report, Goto
  <1>4. CASE RunScript \/ Locate \/ Salvage \/ SkipSalvage
    <2>1. pc \notin Ending /\ pc' \in {"probe", "salvage"} /\ UNCHANGED row
      BY <1>4 DEF RunScript, Locate, Salvage, SkipSalvage, Goto
    <2> QED
      BY <2>1
  <1>5. CASE BoundedRetry \/ SkipProbe \/ AdmitCandidate \/ ReplaceCandidate \/ SkipCandidate
    <2>1. pc \notin Ending /\ pc' \in {"candidate", "feedback"} /\ UNCHANGED row
      BY <1>5 DEF BoundedRetry, SkipProbe, AdmitCandidate, ReplaceCandidate, SkipCandidate, Goto
    <2> QED
      BY <2>1
  <1>6. CASE FeedbackRetry \/ SkipFeedback \/ ForceRevision \/ SkipForced
    <2>1. pc \notin Ending /\ pc' \in {"forced", "preOracle"} /\ UNCHANGED row
      BY <1>6 DEF FeedbackRetry, SkipFeedback, ForceRevision, SkipForced, Goto
    <2> QED
      BY <2>1
  <1>7. CASE AdmitPreOracle
    <2>1. /\ pc = "preOracle" /\ pc' = "decide" /\ UNCHANGED <<row, run, tree>>
          /\ PreOracleAdmitted(tree)
      BY <1>7 DEF AdmitPreOracle, Goto, progress
    <2>2. PreOracleAdmitted(tree)'
      BY <2>1 DEF PreOracleAdmitted, EditHolds
    <2> QED
      BY <2>1, <2>2
  <1>8. CASE RevisePreOracle
    <2>1. /\ pc = "preOracle" /\ pc' = "decide" /\ UNCHANGED <<row, run>>
          /\ audits' = [audits EXCEPT !["preOracle"] = Audit(PreOracleAdmitted(tree'), calls')]
      BY <1>8 DEF RevisePreOracle, Goto
    <2>2. audits'["preOracle"] = Audit(PreOracleAdmitted(tree'), calls')
      BY <2>1 DEF AuditInv, Audits
    <2>3. PreOracleAdmitted(tree') \/ audits'["preOracle"].state = "rejected"
      BY <2>2 DEF Audit
    <2>4. PreOracleAdmitted(tree') => PreOracleAdmitted(tree)'
      BY <2>1 DEF PreOracleAdmitted, EditHolds
    <2> QED
      BY <2>1, <2>3, <2>4 DEF Rejected
  <1>9. CASE SkipPreOracle
    <2>1. pc = "preOracle" /\ pc' = "decide" /\ UNCHANGED <<row, run>> /\ ~AuditsPreOracle
      BY <1>9 DEF SkipPreOracle, Goto
    <2> QED
      BY <2>1 DEF AuditsPreOracle
  <1>10. CASE Withhold \/ Raise
    <2>1. row'.stop # "executed" /\ pc' = "close"
      BY <1>10 DEF Withhold, Raise, Report
    <2> QED
      BY <2>1
  <1>11. CASE Evaluate
    <2>1. /\ pc = "decide" /\ pc' = "close" /\ UNCHANGED <<run, tree, patcher, audits>>
          /\ ~Vetoes
      BY <1>11 DEF Evaluate, Report, progress
    <2>2. \A name \in DOMAIN audits : ~Rejected(name)
      BY <2>1 DEF Vetoes
    <2>3. AuditsPreOracle => PreOracleAdmitted(tree)
      BY <2>1, <2>2 DEF AuditInv, Audits
    <2>4. run.diffFirst => patcher.intent /\ "source" \in Holds[tree]
      BY <2>1 DEF Vetoes, Abstains
    <2>5. Settled'
      BY <2>1, <2>2, <2>3, <2>4, SameSettled DEF Settled
    <2> QED
      BY <2>1, <2>5
  <1>12. CASE Close
    <2>1. pc' = "done" /\ UNCHANGED <<run, tree, patcher, audits, row>>
      BY <1>12 DEF Close, progress
    <2> QED
      BY <2>1, SameSettled
  <1> QED
    BY <1>1, <1>2, <1>3, <1>4, <1>5, <1>6, <1>7, <1>8, <1>9, <1>10, <1>11, <1>12
       DEF Next, Begin, Attempt, Bounded, Revise, Finish

(* The oracle is asked only about what the audits let pass, and an audit   *)
(* of the last call is about the tree that is judged.                      *)
THEOREM AdmittedAlways == Spec => []JudgedWasAdmitted
  <1>1. Init => AuditInv /\ AdmittedInv
    <2> SUFFICES ASSUME Init PROVE AuditInv /\ AdmittedInv
      OBVIOUS
    <2>1. audits \in Audits
      BY InitType DEF TypeOK, Audits
    <2>2. AuditInv
      BY <2>1 DEF Init, AuditInv, NoAudit
    <2>3. AdmittedInv
      BY DEF Init, AdmittedInv, NoRow
    <2> QED
      BY <2>2, <2>3
  <1>2. TypeOK /\ CallsInv /\ AuditInv /\ [Next]_vars => AuditInv'
    <2>1. AuditInv /\ UNCHANGED vars => AuditInv'
      BY SameAudits DEF vars, progress
    <2> QED
      BY <2>1, AuditStep
  <1>3. TypeOK /\ AuditInv /\ AdmittedInv /\ [Next]_vars => AdmittedInv'
    <2>1. AdmittedInv /\ UNCHANGED vars => AdmittedInv'
      <3> SUFFICES ASSUME AdmittedInv, UNCHANGED vars PROVE AdmittedInv'
        OBVIOUS
      <3>1. UNCHANGED <<run, pc, tree, patcher, audits, row>>
        BY DEF vars, progress
      <3> QED
        BY <3>1, SameSettled DEF AdmittedInv, Ending, AuditsPreOracle, Rejected
    <2> QED
      BY <2>1, AdmittedStep
  <1>4. AuditInv /\ AdmittedInv => JudgedWasAdmitted
    BY DEF AuditInv, AdmittedInv, Settled, JudgedWasAdmitted
  <1> QED
    BY <1>1, <1>2, <1>3, <1>4, InitType, TypeStep, PTL DEF Spec

(***************************************************************************)
(* What a patcher is told.                                                 *)
(***************************************************************************)
ToldInv ==
    /\ pc \in Early => patcher.call = 0
    /\ Instructed /\ pc \notin Early \cup Ending \cup {"raised"} => "external" \in lessons
    /\ Instructed /\ pc \in {"script", "locate"} => "external" \in lessons
    /\ FailureIsAlwaysTold

LEMMA ToldStep ==
    ASSUME ToldInv, Next
    PROVE  ToldInv'
  <1> USE DEF ToldInv, FailureIsAlwaysTold, Early, Ending
  <1>1. CASE Decline \/ Preflight \/ StartSession
    <2>1. /\ pc \in {"request", "preflight", "session"} /\ UNCHANGED <<run, patcher>>
          /\ pc' \in {"preflight", "done", "session", "raised", "admit"}
      BY <1>1 DEF Decline, Preflight, StartSession, Goto, progress
    <2> QED
      BY <2>1 DEF Instructed
  <1>2. CASE Admit
    <2>1. /\ pc = "admit" /\ pc' \in {"close", "script", "locate"} /\ UNCHANGED <<run, patcher>>
          /\ lessons' = {l \in {"external", "others"} : run[l] = "admitted"}
      BY <1>2 DEF Admit, Report, Goto, progress
    <2>2. Instructed => "external" \in lessons'
      BY <2>1 DEF Instructed
    <2> QED
      BY <2>1, <2>2 DEF Instructed
  <1>3. CASE RunScript
    <2>1. /\ pc = "script" /\ pc' = "probe" /\ UNCHANGED <<run, lessons>> /\ patcher'.call = 0
      BY <1>3 DEF RunScript, Goto, NoPatcher
    <2> QED
      BY <2>1 DEF Instructed
  <1>4. CASE Locate
    <2>1. pc = "locate" /\ pc' = "salvage" /\ UNCHANGED <<run, lessons>>
      BY <1>4 DEF Locate, Goto
    <2>2. CASE Resume(verifier, 0, lessons)
      BY <2>1, <2>2, ResumeCall DEF Instructed
    <2>3. CASE UNCHANGED <<tree, calls, patcher, verifier, pending, agent>>
      BY <2>1, <2>3 DEF Instructed
    <2> QED
      BY <1>4, <2>2, <2>3 DEF Locate
  <1>5. CASE Salvage
    <2>1. /\ pc = "salvage" /\ pc' = "probe" /\ UNCHANGED run
          /\ lessons' = lessons \cap {"external"}
          /\ Resume(verifier, 0, lessons')
      BY <1>5 DEF Salvage, Goto
    <2>2. patcher'.told = lessons'
      BY <2>1, ResumeCall
    <2> QED
      BY <2>1, <2>2 DEF Instructed
  <1>6. CASE BoundedRetry \/ ReplaceCandidate \/ ForceRevision \/ RevisePreOracle
    <2>1. /\ pc \in {"probe", "candidate", "forced", "preOracle"}
          /\ pc' \in {"candidate", "feedback", "preOracle", "decide"}
          /\ UNCHANGED <<run, lessons>> /\ Resume(0, 0, lessons)
      BY <1>6 DEF BoundedRetry, ReplaceCandidate, ForceRevision, RevisePreOracle, Goto, Cleared
    <2> QED
      BY <2>1, ResumeCall DEF Instructed
  <1>7. CASE FeedbackRetry
    <2>1. /\ pc = "feedback" /\ pc' = "forced" /\ UNCHANGED <<run, lessons>>
          /\ Resume(verifier, pending, lessons)
      BY <1>7 DEF FeedbackRetry, Goto
    <2> QED
      BY <2>1, ResumeCall DEF Instructed
  <1>8. CASE SkipSalvage \/ SkipProbe \/ SkipCandidate \/ SkipFeedback \/ SkipForced \/ SkipPreOracle
             \/ AdmitCandidate \/ AdmitPreOracle
    <2>1. /\ pc \in {"salvage", "probe", "candidate", "feedback", "forced", "preOracle"}
          /\ pc' \notin Early /\ UNCHANGED <<run, lessons, patcher>>
      BY <1>8 DEF SkipSalvage, SkipProbe, SkipCandidate, SkipFeedback, SkipForced, SkipPreOracle,
         AdmitCandidate, AdmitPreOracle, Goto, progress
    <2> QED
      BY <2>1 DEF Instructed
  <1>9. CASE Withhold \/ Evaluate \/ Raise \/ Close
    <2>1. pc' \in Ending /\ UNCHANGED <<run, patcher>>
      BY <1>9 DEF Withhold, Evaluate, Raise, Close, Report, progress
    <2> QED
      BY <2>1 DEF Instructed
  <1> QED
    BY <1>1, <1>2, <1>3, <1>4, <1>5, <1>6, <1>7, <1>8, <1>9
       DEF Next, Begin, Attempt, Bounded, Revise, Finish

(* With an admitted failure of an earlier run at hand, every patcher of    *)
(* the run is told of it.                                                  *)
THEOREM ToldAlways == Spec => []FailureIsAlwaysTold
  <1>1. Init => ToldInv
    BY DEF Init, ToldInv, FailureIsAlwaysTold, NoPatcher, Early
  <1>2. ToldInv /\ [Next]_vars => ToldInv'
    <2>1. ToldInv /\ UNCHANGED vars => ToldInv'
      BY DEF vars, progress, ToldInv, FailureIsAlwaysTold, Instructed
    <2> QED
      BY <2>1, ToldStep
  <1>3. ToldInv => FailureIsAlwaysTold
    BY DEF ToldInv
  <1> QED
    BY <1>1, <1>2, <1>3, PTL DEF Spec

(***************************************************************************)
(* The evidence a retry is given.                                          *)
(***************************************************************************)
(* Until the feedback is used, a failed verification is that of the last   *)
(* call, unless a salvage has run over the outputs of the first.           *)
EvidenceInv ==
    /\ calls \in Nat
    /\ pc \in Early => verifier = 0 /\ patcher.about = 0
    /\ pc = "salvage" => locator \in {"lost", "guess", "found"}
    /\ pc = "salvage" /\ locator = "lost" => verifier = 0
    /\ pc \in {"salvage", "probe", "candidate", "feedback"} /\ locator # "guess"
         => verifier = 0 \/ agent \/ pending = calls
    /\ EvidenceIsCurrent

LEMMA EvidenceStep ==
    ASSUME EvidenceInv, Next
    PROVE  EvidenceInv'
  <1> USE DEF EvidenceInv, EvidenceIsCurrent, Early
  <1>1. CASE Decline \/ Preflight \/ StartSession \/ Admit
    <2>1. /\ pc \in Early /\ UNCHANGED <<calls, verifier, patcher, locator>>
          /\ pc' \notin {"salvage", "probe", "candidate", "feedback"}
      BY <1>1 DEF Decline, Preflight, StartSession, Admit, Report, Goto, progress
    <2> QED
      BY <2>1
  <1>2. CASE RunScript
    <2>1. /\ pc = "script" /\ pc' = "probe" /\ UNCHANGED <<calls, verifier, locator>>
          /\ patcher'.about = 0
      BY <1>2 DEF RunScript, Goto, NoPatcher
    <2> QED
      BY <2>1
  <1>3. CASE Locate
    <2>1. pc = "locate" /\ pc' = "salvage" /\ locator' \in {"lost", "guess", "found"}
      BY <1>3 DEF Locate, Goto
    <2>2. CASE locator' # "lost" /\ Resume(verifier, 0, lessons)
      BY <2>1, <2>2, ResumeCall
    <2>3. CASE UNCHANGED <<tree, calls, patcher, verifier, pending, agent>>
      BY <2>1, <2>3
    <2> QED
      BY <1>3, <2>1, <2>2, <2>3 DEF Locate
  <1>4. CASE Salvage
    <2>1. /\ pc = "salvage" /\ pc' = "probe" /\ locator # "found" /\ UNCHANGED locator
          /\ Resume(verifier, 0, lessons \cap {"external"})
      BY <1>4 DEF Salvage, Salvageable, Goto
    <2> QED
      BY <2>1, ResumeCall
  <1>5. CASE BoundedRetry \/ ReplaceCandidate \/ ForceRevision \/ RevisePreOracle
    <2>1. /\ pc' \in {"candidate", "feedback", "preOracle", "decide"} /\ UNCHANGED locator
          /\ Resume(0, 0, lessons)
      BY <1>5 DEF BoundedRetry, ReplaceCandidate, ForceRevision, RevisePreOracle, Goto, Cleared
    <2> QED
      BY <2>1, ResumeCall
  <1>6. CASE FeedbackRetry
    <2>1. /\ pc = "feedback" /\ pc' = "forced" /\ ~agent /\ verifier # 0 /\ UNCHANGED locator
          /\ Resume(verifier, pending, lessons)
      BY <1>6 DEF FeedbackRetry, FeedbackUsable, Goto
    <2> QED
      BY <2>1, ResumeCall
  <1>7. CASE SkipSalvage \/ SkipProbe \/ SkipCandidate \/ SkipFeedback \/ SkipForced \/ SkipPreOracle
             \/ AdmitCandidate \/ AdmitPreOracle
    <2>1. /\ pc' \in {"probe", "feedback", "forced", "preOracle", "decide"} /\ UNCHANGED progress
          /\ pc' \in {"probe", "feedback"} => pc \in {"salvage", "probe", "candidate"}
      BY <1>7 DEF SkipSalvage, SkipProbe, SkipCandidate, SkipFeedback, SkipForced, SkipPreOracle,
         AdmitCandidate, AdmitPreOracle, Goto
    <2> QED
      BY <2>1 DEF progress
  <1>8. CASE Withhold \/ Evaluate \/ Raise \/ Close
    <2>1. pc' \in {"close", "done"} /\ UNCHANGED progress
      BY <1>8 DEF Withhold, Evaluate, Raise, Close, Report
    <2> QED
      BY <2>1 DEF progress
  <1> QED
    BY <1>1, <1>2, <1>3, <1>4, <1>5, <1>6, <1>7, <1>8
       DEF Next, Begin, Attempt, Bounded, Revise, Finish

(* The failed verification a retry is given is that of the patch it        *)
(* revises, but after a salvage that had a guess to start from.            *)
THEOREM EvidenceAlways == Spec => []EvidenceIsCurrent
  <1>1. Init => EvidenceInv
    BY DEF Init, EvidenceInv, EvidenceIsCurrent, NoPatcher
  <1>2. EvidenceInv /\ [Next]_vars => EvidenceInv'
    <2>1. EvidenceInv /\ UNCHANGED vars => EvidenceInv'
      BY DEF vars, progress, EvidenceInv, EvidenceIsCurrent
    <2> QED
      BY <2>1, EvidenceStep
  <1>3. EvidenceInv => EvidenceIsCurrent
    BY DEF EvidenceInv
  <1> QED
    BY <1>1, <1>2, <1>3, PTL DEF Spec

(***************************************************************************)
(* A run is a RecoveryLoop: the steps of its safety part.                  *)
(***************************************************************************)
LEMMA LoopStep ==
    ASSUME TypeOK, CallsInv, JudgedInv, Next
    PROVE  [Loop!LoopNext]_(Loop!loopVars)
  <1> USE DEF JudgedInv, SuccessIsJudged, Ending
  <1>0. calls \in Nat /\ row.success \in BOOLEAN /\ verdict.green \in BOOLEAN
    BY DEF CallsInv, TypeOK
  <1>1. CASE Decline
    <2>1. /\ pc = "request" /\ pc' \in {"preflight", "done"} /\ UNCHANGED <<calls, verdict>>
          /\ row'.success = FALSE /\ row.success = FALSE
      BY <1>1 DEF Decline, NoRow, progress
    <2>2. CASE pc' = "preflight"
      BY <2>1, <2>2 DEF Loop!loopVars
    <2>3. CASE pc' = "done"
      BY <2>1, <2>3 DEF Loop!LoopNext, Loop!End
    <2> QED
      BY <2>1, <2>2, <2>3
  <1>2. CASE Preflight
    <2>1. /\ pc = "preflight" /\ pc' \in {"session", "raised", "done"}
          /\ UNCHANGED <<calls, verdict>> /\ row'.success = FALSE /\ row.success = FALSE
      BY <1>2 DEF Preflight, NoRow, progress
    <2>2. CASE pc' = "session"
      BY <2>1, <2>2 DEF Loop!loopVars
    <2>3. CASE pc' \in {"raised", "done"}
      BY <2>1, <2>3 DEF Loop!LoopNext, Loop!End
    <2> QED
      BY <2>1, <2>2, <2>3
  <1>3. CASE StartSession \/ Admit
    <2>1. /\ pc \in {"session", "admit"} /\ pc' \in {"admit", "close", "script", "locate"}
          /\ UNCHANGED <<calls, verdict>>
      BY <1>3 DEF StartSession, Admit, Report, Goto, progress
    <2> QED
      BY <2>1 DEF Loop!loopVars
  <1>4. CASE RunScript
    BY <1>4 DEF RunScript, Goto, Loop!loopVars
  <1>5. CASE Locate
    <2>1. pc = "locate" /\ pc' = "salvage" /\ UNCHANGED verdict
      BY <1>5 DEF Locate, Goto
    <2>2. calls = 0 /\ (calls' = calls + 1 \/ calls' = calls)
      BY <1>5, <2>1, ResumeCall DEF Locate, CallsInv, Early
    <2> QED
      BY <2>1, <2>2 DEF Loop!LoopNext, Loop!Recover, Loop!loopVars, MaxCalls
  <1>6. CASE Salvage \/ BoundedRetry \/ ReplaceCandidate \/ FeedbackRetry \/ ForceRevision
             \/ RevisePreOracle
    <2>1. /\ pc \in {"salvage", "probe", "candidate", "feedback", "forced", "preOracle"}
          /\ pc' \in {"probe", "candidate", "feedback", "forced", "preOracle", "decide"}
          /\ UNCHANGED verdict
      BY <1>6 DEF Salvage, BoundedRetry, ReplaceCandidate, FeedbackRetry, ForceRevision,
         RevisePreOracle, Goto
    <2>2. calls' = calls + 1
      BY <1>6, ResumeCall DEF Salvage, BoundedRetry, ReplaceCandidate, FeedbackRetry,
         ForceRevision, RevisePreOracle
    <2>3. calls < MaxCalls
      BY <2>1 DEF CallsInv, MaxCalls
    <2> QED
      BY <2>1, <2>2, <2>3 DEF Loop!LoopNext, Loop!Recover
  <1>7. CASE SkipSalvage \/ SkipProbe \/ SkipCandidate \/ SkipFeedback \/ SkipForced \/ SkipPreOracle
             \/ AdmitCandidate \/ AdmitPreOracle
    <2>1. /\ pc \notin {"done", "raised"} /\ pc' \notin {"done", "raised"}
          /\ UNCHANGED <<calls, verdict>>
      BY <1>7 DEF SkipSalvage, SkipProbe, SkipCandidate, SkipFeedback, SkipForced, SkipPreOracle,
         AdmitCandidate, AdmitPreOracle, Goto, progress
    <2> QED
      BY <2>1 DEF Loop!loopVars
  <1>8. CASE Withhold \/ Raise
    <2>1. pc \notin {"done", "raised"} /\ pc' = "close" /\ UNCHANGED <<calls, verdict>>
      BY <1>8 DEF Withhold, Raise, Trying, Report, progress
    <2> QED
      BY <2>1 DEF Loop!loopVars
  <1>9. CASE Evaluate
    <2>1. /\ pc = "decide" /\ pc' = "close" /\ UNCHANGED calls
          /\ verdict' = [on |-> tree, green |-> "oracle" \in Holds[tree]]
      BY <1>9 DEF Evaluate, Report, progress
    <2>2. verdict'.green \in BOOLEAN
      BY <2>1
    <2> QED
      BY <2>1, <2>2 DEF Loop!LoopNext, Loop!Verify
  <1>10. CASE Close
    <2>1. pc = "close" /\ pc' = "done" /\ UNCHANGED <<calls, verdict, row>>
      BY <1>10 DEF Close, progress
    <2>2. row.success => verdict.green = TRUE
      OBVIOUS
    <2>3. row.success \in {FALSE, verdict.green}
      BY <1>0, <2>2
    <2> QED
      BY <2>1, <2>3 DEF Loop!LoopNext, Loop!End
  <1> QED
    BY <1>1, <1>2, <1>3, <1>4, <1>5, <1>6, <1>7, <1>8, <1>9, <1>10
       DEF Next, Begin, Attempt, Bounded, Revise, Finish

(* Every step of a run is a step of a recovery loop of at most seven calls *)
(* that ends once and succeeds only with its last verdict.                 *)
THEOREM RunImplementsLoop == Spec => Loop!LoopInit /\ [][Loop!LoopNext]_(Loop!loopVars)
  <1>1. Init => Loop!LoopInit
    BY DEF Init, Loop!LoopInit, NoVerdict, MaxCalls
  <1>2. Init => JudgedInv
    BY DEF Init, JudgedInv, SuccessIsJudged, NoRow
  <1>3. JudgedInv /\ [Next]_vars => JudgedInv'
    BY JudgedStep DEF vars, progress, JudgedInv, SuccessIsJudged
  <1>4. TypeOK /\ CallsInv /\ JudgedInv /\ [Next]_vars => [Loop!LoopNext]_(Loop!loopVars)
    BY LoopStep DEF vars, progress, Loop!loopVars
  <1> QED
    BY <1>1, <1>2, <1>3, <1>4, InitType, TypeStep, PTL DEF Spec

(***************************************************************************)
(* What the calls are spent on.                                            *)
(***************************************************************************)
Bought(S) == Cardinality(Switches \cap S)

ToProbe == {"salvage"}
ToCandidate == {"salvage", "bounded"}
ToFeedback == {"salvage", "bounded", "contract"}
ToForced == {"salvage", "bounded", "contract", "feedback"}
ToDecide == {"salvage", "bounded", "contract", "feedback", "preOracle"}

First == IF run.script THEN 0 ELSE 1
Extra == IF Instructed THEN 1 ELSE 0

BoughtInv ==
    /\ calls \in Nat
    /\ pc \in Early => calls = 0
    /\ pc \in {"locate", "salvage"} => ~run.script
    /\ pc = "salvage" => calls <= First
    /\ pc = "probe" => calls <= First + Bought(ToProbe)
    /\ pc = "candidate" => calls <= First + Bought(ToCandidate)
    /\ pc = "feedback" => calls <= First + Bought(ToFeedback)
    /\ pc = "forced" => calls <= First + Bought(ToForced)
    /\ pc = "preOracle" => calls <= First + Bought(ToForced) + Extra
    /\ calls <= First + Bought(ToDecide) + Extra

(* A switch more, a call more.                                             *)
LEMMA OneMore ==
    ASSUME NEW S, NEW T, NEW s, T = S \cup {s}, s \notin S
    PROVE  /\ Bought(S) \in Nat /\ Bought(T) \in Nat
           /\ Bought(S) <= Bought(T)
           /\ s \in Switches => Bought(T) = Bought(S) + 1
  <1>1. IsFiniteSet(Switches)
    <2>1. IsFiniteSet({"salvage", "bounded", "contract", "feedback", "preOracle"})
      <3>1. IsFiniteSet({})
        BY FS_EmptySet
      <3>2. IsFiniteSet({} \cup {"salvage"})
        BY <3>1, FS_AddElement
      <3>3. IsFiniteSet(({} \cup {"salvage"}) \cup {"bounded"})
        BY <3>2, FS_AddElement
      <3>4. IsFiniteSet((({} \cup {"salvage"}) \cup {"bounded"}) \cup {"contract"})
        BY <3>3, FS_AddElement
      <3>5. IsFiniteSet(((({} \cup {"salvage"}) \cup {"bounded"}) \cup {"contract"})
                          \cup {"feedback"})
        BY <3>4, FS_AddElement
      <3>6. IsFiniteSet((((({} \cup {"salvage"}) \cup {"bounded"}) \cup {"contract"})
                          \cup {"feedback"}) \cup {"preOracle"})
        BY <3>5, FS_AddElement
      <3>7. {"salvage", "bounded", "contract", "feedback", "preOracle"}
              = (((({} \cup {"salvage"}) \cup {"bounded"}) \cup {"contract"})
                          \cup {"feedback"}) \cup {"preOracle"}
        OBVIOUS
      <3> QED
        BY <3>6, <3>7
    <2>2. Switches \subseteq {"salvage", "bounded", "contract", "feedback", "preOracle"}
      BY DEF Switches
    <2> QED
      BY <2>1, <2>2, FS_Subset
  <1>2. IsFiniteSet(Switches \cap S)
    BY <1>1, FS_Subset
  <1>3. Bought(S) \in Nat
    BY <1>2, FS_CardinalityType DEF Bought
  <1>4. CASE s \in Switches
    <2>1. Switches \cap T = (Switches \cap S) \cup {s} /\ s \notin Switches \cap S
      BY <1>4
    <2>2. Cardinality((Switches \cap S) \cup {s}) = Cardinality(Switches \cap S) + 1
      BY <1>2, <2>1, FS_AddElement
    <2>3. Bought(T) = Bought(S) + 1
      BY <2>1, <2>2 DEF Bought
    <2> QED
      BY <1>3, <2>3
  <1>5. CASE s \notin Switches
    <2>1. Switches \cap T = Switches \cap S
      BY <1>5
    <2> QED
      BY <1>3, <1>5, <2>1 DEF Bought
  <1> QED
    BY <1>4, <1>5

LEMMA Ladder ==
    /\ Bought(ToProbe) \in Nat /\ Bought(ToCandidate) \in Nat /\ Bought(ToFeedback) \in Nat
    /\ Bought(ToForced) \in Nat /\ Bought(ToDecide) \in Nat
    /\ Bought(ToProbe) <= Bought(ToCandidate) /\ Bought(ToCandidate) <= Bought(ToFeedback)
    /\ Bought(ToFeedback) <= Bought(ToForced) /\ Bought(ToForced) <= Bought(ToDecide)
    /\ run.salvage => 1 <= Bought(ToProbe)
    /\ run.bounded => Bought(ToCandidate) = Bought(ToProbe) + 1
    /\ run.contract => Bought(ToFeedback) = Bought(ToCandidate) + 1
    /\ run.feedback => Bought(ToForced) = Bought(ToFeedback) + 1
    /\ run.preOracle => Bought(ToDecide) = Bought(ToForced) + 1
  <1>1. /\ run.salvage => "salvage" \in Switches
        /\ run.bounded => "bounded" \in Switches
        /\ run.contract => "contract" \in Switches
        /\ run.feedback => "feedback" \in Switches
        /\ run.preOracle => "preOracle" \in Switches
    BY DEF Switches
  <1>2. ToProbe = {} \cup {"salvage"} /\ "salvage" \notin {}
    BY DEF ToProbe
  <1>3. ToCandidate = ToProbe \cup {"bounded"} /\ "bounded" \notin ToProbe
    BY DEF ToProbe, ToCandidate
  <1>4. ToFeedback = ToCandidate \cup {"contract"} /\ "contract" \notin ToCandidate
    BY DEF ToCandidate, ToFeedback
  <1>5. ToForced = ToFeedback \cup {"feedback"} /\ "feedback" \notin ToFeedback
    BY DEF ToFeedback, ToForced
  <1>6. ToDecide = ToForced \cup {"preOracle"} /\ "preOracle" \notin ToForced
    BY DEF ToForced, ToDecide
  <1>7. /\ Bought({}) \in Nat /\ Bought(ToProbe) \in Nat
        /\ run.salvage => Bought(ToProbe) = Bought({}) + 1
    BY <1>1, <1>2, OneMore
  <1>8. /\ Bought(ToCandidate) \in Nat /\ Bought(ToProbe) <= Bought(ToCandidate)
        /\ run.bounded => Bought(ToCandidate) = Bought(ToProbe) + 1
    BY <1>1, <1>3, OneMore
  <1>9. /\ Bought(ToFeedback) \in Nat /\ Bought(ToCandidate) <= Bought(ToFeedback)
        /\ run.contract => Bought(ToFeedback) = Bought(ToCandidate) + 1
    BY <1>1, <1>4, OneMore
  <1>10. /\ Bought(ToForced) \in Nat /\ Bought(ToFeedback) <= Bought(ToForced)
         /\ run.feedback => Bought(ToForced) = Bought(ToFeedback) + 1
    BY <1>1, <1>5, OneMore
  <1>11. /\ Bought(ToDecide) \in Nat /\ Bought(ToForced) <= Bought(ToDecide)
         /\ run.preOracle => Bought(ToDecide) = Bought(ToForced) + 1
    BY <1>1, <1>6, OneMore
  <1> QED
    BY <1>7, <1>8, <1>9, <1>10, <1>11

LEMMA BoughtStep ==
    ASSUME BoughtInv, Next
    PROVE  BoughtInv'
  <1>0. /\ First \in {0, 1} /\ Extra \in {0, 1} /\ (~run.script => First = 1)
        /\ (Instructed => Extra = 1)
    BY DEF First, Extra
  <1>1. run' = run
    BY DEF Next, Begin, Attempt, Bounded, Revise, Finish, Decline, Preflight, StartSession, Admit,
       RunScript, Locate, Salvage, SkipSalvage, BoundedRetry, SkipProbe, AdmitCandidate,
       ReplaceCandidate, SkipCandidate, FeedbackRetry, SkipFeedback, ForceRevision, SkipForced,
       AdmitPreOracle, RevisePreOracle, SkipPreOracle, Withhold, Evaluate, Raise, Close
  <1>2. First' = First /\ Extra' = Extra
    BY <1>1 DEF First, Extra, Instructed
  <1>3. /\ Bought(ToProbe)' = Bought(ToProbe) /\ Bought(ToCandidate)' = Bought(ToCandidate)
        /\ Bought(ToFeedback)' = Bought(ToFeedback) /\ Bought(ToForced)' = Bought(ToForced)
        /\ Bought(ToDecide)' = Bought(ToDecide)
    BY <1>1 DEF Bought, Switches, ToProbe, ToCandidate, ToFeedback, ToForced, ToDecide
  <1> USE Ladder, <1>0, <1>1, <1>2, <1>3 DEF BoughtInv, Early
  <1>4. CASE Decline \/ Preflight \/ StartSession \/ Admit \/ RunScript
    <2>1. /\ calls = 0 /\ calls' = 0
          /\ pc' \in {"locate", "salvage"} => ~run.script
      BY <1>4 DEF Decline, Preflight, StartSession, Admit, RunScript, Report, Goto, progress
    <2> QED
      BY <2>1
  <1>5. CASE Locate
    <2>1. pc = "locate" /\ pc' = "salvage" /\ calls = 0
      BY <1>5 DEF Locate, Goto
    <2>2. calls' = calls + 1 \/ calls' = calls
      BY <1>5, ResumeCall DEF Locate
    <2> QED
      BY <2>1, <2>2
  <1>6. CASE Salvage
    <2>1. pc = "salvage" /\ pc' = "probe" /\ run.salvage /\ calls' = calls + 1
      BY <1>6, ResumeCall DEF Salvage, Salvageable, Goto
    <2> QED
      BY <2>1
  <1>7. CASE BoundedRetry
    <2>1. pc = "probe" /\ pc' = "candidate" /\ run.bounded /\ calls' = calls + 1
      BY <1>7, ResumeCall DEF BoundedRetry, Probes, Goto
    <2> QED
      BY <2>1
  <1>8. CASE ReplaceCandidate
    <2>1. pc = "candidate" /\ pc' = "feedback" /\ run.contract /\ calls' = calls + 1
      BY <1>8, ResumeCall DEF ReplaceCandidate, Goto
    <2> QED
      BY <2>1
  <1>9. CASE FeedbackRetry
    <2>1. pc = "feedback" /\ pc' = "forced" /\ run.feedback /\ calls' = calls + 1
      BY <1>9, ResumeCall DEF FeedbackRetry, FeedbackUsable, Goto
    <2> QED
      BY <2>1
  <1>10. CASE ForceRevision
    <2>1. pc = "forced" /\ pc' = "preOracle" /\ Instructed /\ calls' = calls + 1
      BY <1>10, ResumeCall DEF ForceRevision, Repeats, Covers, Goto
    <2> QED
      BY <2>1
  <1>11. CASE RevisePreOracle
    <2>1. pc = "preOracle" /\ pc' = "decide" /\ run.preOracle /\ calls' = calls + 1
      BY <1>11, ResumeCall DEF RevisePreOracle, AuditsPreOracle, Goto
    <2> QED
      BY <2>1
  <1>12. CASE SkipSalvage \/ SkipProbe \/ SkipCandidate \/ AdmitCandidate
    <2>1. /\ UNCHANGED calls
          /\ \/ pc = "salvage" /\ pc' = "probe"
             \/ pc \in {"probe", "candidate"} /\ pc' = "feedback"
      BY <1>12 DEF SkipSalvage, SkipProbe, SkipCandidate, AdmitCandidate, Goto, progress
    <2> QED
      BY <2>1
  <1>13. CASE SkipFeedback \/ SkipForced \/ SkipPreOracle \/ AdmitPreOracle
    <2>1. /\ UNCHANGED calls
          /\ \/ pc = "feedback" /\ pc' = "forced"
             \/ pc = "forced" /\ pc' = "preOracle"
             \/ pc = "preOracle" /\ pc' = "decide"
      BY <1>13 DEF SkipFeedback, SkipForced, SkipPreOracle, AdmitPreOracle, Goto, progress
    <2> QED
      BY <2>1
  <1>14. CASE Withhold \/ Evaluate \/ Raise \/ Close
    <2>1. UNCHANGED calls /\ pc' \in {"close", "done"}
      BY <1>14 DEF Withhold, Evaluate, Raise, Close, Report, progress
    <2> QED
      BY <2>1
  <1> QED
    BY <1>4, <1>5, <1>6, <1>7, <1>8, <1>9, <1>10, <1>11, <1>12, <1>13, <1>14
       DEF Next, Begin, Attempt, Bounded, Revise, Finish

(* A run calls the patcher once, and once more for each switch that is on  *)
(* and for an admitted failure.                                            *)
THEOREM BoughtAlways == Spec => []EachSwitchBuysOneCall
  <1>1. Init => BoughtInv
    <2>1. First \in Nat /\ Extra \in Nat
      BY DEF First, Extra
    <2> QED
      BY <2>1, Ladder DEF Init, BoughtInv
  <1>2. BoughtInv /\ [Next]_vars => BoughtInv'
    <2>1. BoughtInv /\ UNCHANGED vars => BoughtInv'
      BY DEF vars, progress, BoughtInv, Bought, Switches, First, Extra, Instructed
    <2> QED
      BY <2>1, BoughtStep
  <1>3. BoughtInv => EachSwitchBuysOneCall
    <2>1. Switches \cap ToDecide = Switches
      BY DEF Switches, ToDecide
    <2> QED
      BY <2>1 DEF BoughtInv, Bought, EachSwitchBuysOneCall, First, Extra
  <1> QED
    BY <1>1, <1>2, <1>3, PTL DEF Spec

=============================================================================
