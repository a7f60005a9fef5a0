------------------------------ MODULE CleanStart ------------------------------
(***************************************************************************)
(* run_clean_start_baseline                                                *)
(* (bcmr_swe/experiments/mas_recovery_run_clean_start_baseline.py): one    *)
(* run of the three stages in a fresh workspace, with the recovery of the  *)
(* coordinator off, followed by up to six retries of the patcher, each     *)
(* behind a switch of its own, each on top of what the one before left     *)
(* behind.  Audits made on the way decide whether the oracle is asked.     *)
(*                                                                         *)
(* A member of Trees is what the workspace contains together with what its *)
(* patcher said about it; Holds[t] is what the audits would find out.      *)
(***************************************************************************)
EXTENDS Naturals, FiniteSets

CONSTANTS
    Trees,  \* contents the workspace may have
    Clean,  \* the fresh one
    Holds,  \* what is true of a tree
    Runs    \* the ways a run is set up

(* changed, source: something, a source file differs from HEAD; only: no   *)
(* test does; edit, means: the source edit contract, the semantic audit    *)
(* are satisfied; a failure class: its contract is; repeats: the diff is   *)
(* that of the earlier run; covers: it touches the targets of its failure; *)
(* target, oracle: the commands pass.                                      *)
FailureClasses == {"no_diff", "location", "abstraction", "condition", "unknown", "environment"}
Findings == {"changed", "source", "only", "edit", "compiles", "means", "collects",
             "repeats", "covers", "target", "oracle"} \cup FailureClasses

ASSUME TreesAssumption == Clean \in Trees
ASSUME HoldsAssumption == Holds \in [Trees -> SUBSET Findings]

Artifact == {"none", "refused", "admitted"}

(* preflight: one is made, and blocks the run; external: the failed        *)
(* validation of an earlier run; others: what other artifacts teach;       *)
(* script: the action program brings one to run in place of the stages.    *)
CleanSetting ==
    [request : {"execute", "plan", "unsupported"}, preflight : BOOLEAN,
     external : Artifact, others : Artifact, script : BOOLEAN,
     sourceOnly : BOOLEAN, edit : BOOLEAN, meaning : BOOLEAN, syntaxGuard : BOOLEAN,
     salvage : BOOLEAN, bounded : BOOLEAN, conditioned : BOOLEAN, contract : BOOLEAN,
     feedback : BOOLEAN, preOracle : BOOLEAN, diffFirst : BOOLEAN,
     commands : {"blocked", "plain", "validated"}]

ASSUME RunsAssumption == Runs \subseteq CleanSetting

VARIABLES
    run,       \* the set-up
    pc,        \* where the run is
    session,   \* is the executor's session open?
    tree,      \* the workspace
    calls,     \* calls of the patcher
    locator,   \* what the locator found: "none", "lost", "guess", "found"
    patcher,   \* the patcher's stage output; call 0: none
    verifier,  \* the call the verifier's stage output is about; 0: none
    pending,   \* the call the pending verifier feedback is about; 0: none
    agent,     \* agent_reported_success
    lessons,   \* what active_recovery_context teaches
    class,     \* the failure class of the minimal validation
    audits,    \* of the script, the candidate, before the oracle: [state, at]
    forced,    \* the forced revision: [repeated, covered]
    verdict,   \* [on, green]: what the oracle said, and of which tree
    row        \* the row of the payload

progress == <<tree, calls, locator, patcher, verifier, pending, agent>>
vars == <<run, pc, session, progress, lessons, class, audits, forced, verdict, row>>

NoPatcher == [call |-> 0, patch |-> FALSE, intent |-> FALSE, told |-> {}, about |-> 0]
NoAudit == [state |-> "off", at |-> 0]
NoVerdict == [on |-> Clean, green |-> FALSE]
NoRow == [stop |-> "none", success |-> FALSE, credit |-> FALSE]

Init ==
    /\ run \in Runs
    /\ pc = "request"
    /\ session = FALSE
    /\ tree = Clean /\ calls = 0
    /\ locator = "none" /\ patcher = NoPatcher /\ verifier = 0 /\ pending = 0
    /\ agent = FALSE
    /\ lessons = {}
    /\ class = "none"
    /\ audits = [script |-> NoAudit, candidate |-> NoAudit, preOracle |-> NoAudit]
    /\ forced = [repeated |-> FALSE, covered |-> TRUE]
    /\ verdict = NoVerdict
    /\ row = NoRow

(***************************************************************************)
(* Audits.                                                                 *)
(***************************************************************************)
EditHolds(t) == run.edit => "edit" \in Holds[t]

(* The contract is that of the class the failure was put in before.        *)
CandidateAdmitted(t) ==
    /\ EditHolds(t)
    /\ class \in Holds[t]
    /\ run.syntaxGuard => "compiles" \in Holds[t]

PreOracleAdmitted(t) ==
    /\ EditHolds(t)
    /\ "compiles" \in Holds[t]
    /\ run.sourceOnly => {"source", "only"} \subseteq Holds[t]
    /\ run.meaning => "means" \in Holds[t]

(* The audit of a script is handed none of the cues on what its patch is   *)
(* to mean, and takes that for a breach when meaning is asked for.         *)
ScriptAdmitted(t) == "source" \in Holds[t] /\ PreOracleAdmitted(t) /\ ~run.meaning

Instructed == run.external = "admitted"
Repeats(t) == Instructed /\ "repeats" \in Holds[t]
Covers(t) == Instructed => "covers" \in Holds[t]

(* Commands that are validated first are blocked when nothing collects.    *)
Blocked(t) ==
    \/ run.commands = "blocked"
    \/ run.commands = "validated" /\ "collects" \notin Holds[t]

Audit(admitted, at) == [state |-> IF admitted THEN "admitted" ELSE "rejected", at |-> at]
Rejected(name) == audits[name].state = "rejected"

(***************************************************************************)
(* The coordinator, with its recovery off.                                 *)
(***************************************************************************)
CallRecord == [tree : Trees, success : BOOLEAN, patch : BOOLEAN, intent : BOOLEAN, passes : BOOLEAN]
PatcherCalls == {c \in CallRecord : c.passes => c.success}

(* _resume_from("patcher"): the verifier is asked about what the patcher   *)
(* completed; a failure it finds is kept as feedback.  standing is the     *)
(* verifier's output when the patcher starts, about the call whose failed  *)
(* verification the patcher is told.                                       *)
Resume(standing, about, taught) ==
    /\ \E c \in PatcherCalls :
         /\ tree' = c.tree
         /\ patcher' = [call |-> calls + 1, patch |-> c.patch, intent |-> c.intent,
                        told |-> taught, about |-> about]
         /\ verifier' = IF c.success THEN calls + 1 ELSE standing
         /\ pending' = IF c.success /\ ~c.passes THEN calls + 1
                       ELSE IF about # 0 THEN 0 ELSE pending
         /\ agent' = c.passes
    /\ calls' = calls + 1

(* _clear_stage_outputs_from("patcher") takes the verifier's output along. *)
Cleared == 0

Goto(next) == pc' = next /\ UNCHANGED row

(* The run is over: its row is made, and the session is to be closed.      *)
Report(stop, success, credit) ==
    /\ row' = [stop |-> stop, success |-> success, credit |-> credit]
    /\ pc' = "close"

(***************************************************************************)
(* Actions.                                                                *)
(***************************************************************************)
Decline ==
    /\ pc = "request"
    /\ IF run.request = "execute"
       THEN pc' = "preflight" /\ UNCHANGED row
       ELSE row' = [NoRow EXCEPT !.stop = run.request] /\ pc' = "done"
    /\ UNCHANGED <<run, session, progress, lessons, class, audits, forced, verdict>>

(* What Docker says of the host stops the run before it has begun;         *)
(* materialize_workspace is called outside of the try statement.           *)
Preflight ==
    /\ pc = "preflight"
    /\ \/ ~run.preflight /\ pc' \in {"session", "raised"} /\ UNCHANGED row
       \/ /\ run.preflight
          /\ row' = [NoRow EXCEPT !.stop = "harness_preflight_blocked"] /\ pc' = "done"
    /\ UNCHANGED <<run, session, progress, lessons, class, audits, forced, verdict>>

StartSession ==
    /\ pc = "session"
    /\ session' = TRUE
    /\ Goto("admit")
    /\ UNCHANGED <<run, progress, lessons, class, audits, forced, verdict>>

(* An artifact that is given has to be admitted.                           *)
Admit ==
    /\ pc = "admit"
    /\ lessons' = {l \in {"external", "others"} : run[l] = "admitted"}
    /\ IF "refused" \in {run.external, run.others}
       THEN Report("artifact_not_admitted", FALSE, FALSE)
       ELSE Goto(IF run.script THEN "script" ELSE "locate")
    /\ UNCHANGED <<run, session, progress, class, audits, forced, verdict>>

(* The script's return code is what the agents are taken to report; what   *)
(* it prints stands for the patcher's answer, in which an intent is looked *)
(* for.                                                                    *)
RunScript ==
    /\ pc = "script"
    /\ tree' \in Trees
    /\ agent' \in BOOLEAN
    /\ patcher' \in {[NoPatcher EXCEPT !.intent = i] : i \in BOOLEAN}
    /\ audits' = [audits EXCEPT !.script = Audit(agent' /\ ScriptAdmitted(tree'), calls)]
    /\ Goto("probe")
    /\ UNCHANGED <<run, session, calls, locator, verifier, pending, lessons, class, forced,
                   verdict>>

(* A guess is good enough when there is a recovery context.                *)
Guided == run.sourceOnly \/ run.edit \/ run.diffFirst \/ lessons # {}

Locate ==
    /\ pc = "locate"
    /\ locator' \in {"lost", "guess", "found"}
    /\ IF locator' = "found" \/ (locator' = "guess" /\ Guided)
       THEN Resume(verifier, 0, lessons)
       ELSE UNCHANGED <<tree, calls, patcher, verifier, pending, agent>>
    /\ Goto("salvage")
    /\ UNCHANGED <<run, session, lessons, class, audits, forced, verdict>>

(* A run that failed after a locator that failed may be given the source   *)
(* files the locator looked at.  The context is composed anew, with the    *)
(* external feedback only, and no output is cleared.                       *)
Salvageable == run.salvage /\ run.sourceOnly /\ ~agent /\ locator # "found"

Salvage ==
    /\ pc = "salvage" /\ Salvageable
    /\ lessons' = lessons \cap {"external"}
    /\ Resume(verifier, 0, lessons')
    /\ Goto("probe")
    /\ UNCHANGED <<run, session, locator, class, audits, forced, verdict>>

SkipSalvage ==
    /\ pc = "salvage"
    /\ Goto("probe")
    /\ UNCHANGED <<run, session, progress, lessons, class, audits, forced, verdict>>

(* The minimal validation: the failing tests are run, and their failure is *)
(* classified.                                                             *)
Probes == run.bounded /\ ~agent /\ ~Blocked(tree)
Observed(t) == "target" \notin Holds[t]
Signal == [class : FailureClasses,
           output : {"none", "text", "signature"}, targets : BOOLEAN]
Signals(t) == {s \in Signal : "changed" \in Holds[t] <=> s.class # "no_diff"}
                \cup {s \in Signal : s.class = "environment"}

Retryable(c) == c \in {"no_diff", "location", "abstraction", "condition"}
RetryAllowed(s, t) ==
    \/ Observed(t) /\ "source" \in Holds[t] /\ s.output = "signature"
    \/ run.conditioned /\ s.class = "no_diff" /\ s.targets
    \/ run.conditioned /\ Observed(t) /\ s.output # "none" /\ Retryable(s.class)

BoundedRetry ==
    /\ pc = "probe" /\ Probes
    /\ class' \in {s.class : s \in {x \in Signals(tree) : RetryAllowed(x, tree)}}
    /\ Resume(Cleared, 0, lessons)
    /\ Goto("candidate")
    /\ UNCHANGED <<run, session, locator, lessons, audits, forced, verdict>>

(* Without a failure, without a signal, or when the tests did not run.     *)
SkipProbe ==
    /\ pc = "probe"
    /\ Goto("feedback")
    /\ UNCHANGED <<run, session, progress, lessons, class, audits, forced, verdict>>

(* The candidate of the retry is held against the contract of the failure  *)
(* class; a rejected one gets one successor where the class allows it.     *)
AdmitCandidate ==
    /\ pc = "candidate" /\ run.contract
    /\ CandidateAdmitted(tree) \/ ~Retryable(class)
    /\ audits' = [audits EXCEPT !.candidate = Audit(CandidateAdmitted(tree), calls)]
    /\ Goto("feedback")
    /\ UNCHANGED <<run, session, progress, lessons, class, forced, verdict>>

(* Faulty variant: the successor is taken as it is.                        *)
ReplaceCandidateUnread ==
    /\ pc = "candidate" /\ run.contract
    /\ ~CandidateAdmitted(tree) /\ Retryable(class)
    /\ Resume(Cleared, 0, lessons)
    /\ audits' = [audits EXCEPT !.candidate = Audit(agent' \/ CandidateAdmitted(tree'), calls')]
    /\ Goto("feedback")
    /\ UNCHANGED <<run, session, locator, lessons, class, forced, verdict>>
ReplaceCandidate ==
    /\ pc = "candidate" /\ run.contract
    /\ ~CandidateAdmitted(tree) /\ Retryable(class)
    /\ Resume(Cleared, 0, lessons)
    /\ audits' = [audits EXCEPT !.candidate = Audit(CandidateAdmitted(tree'), calls')]
    /\ Goto("feedback")
    /\ UNCHANGED <<run, session, locator, lessons, class, forced, verdict>>

SkipCandidate ==
    /\ pc = "candidate" /\ ~run.contract
    /\ Goto("feedback")
    /\ UNCHANGED <<run, session, progress, lessons, class, audits, forced, verdict>>

(* A patch that was verified and failed is revised with the evidence; no   *)
(* output is cleared.                                                      *)
FeedbackUsable == run.feedback /\ ~agent /\ verifier # 0 /\ patcher.patch /\ pending # 0

FeedbackRetry ==
    /\ pc = "feedback" /\ FeedbackUsable
    /\ Resume(verifier, pending, lessons)
    /\ Goto("forced")
    /\ UNCHANGED <<run, session, locator, lessons, class, audits, forced, verdict>>

SkipFeedback ==
    /\ pc = "feedback" /\ ~FeedbackUsable
    /\ Goto("forced")
    /\ UNCHANGED <<run, session, progress, lessons, class, audits, forced, verdict>>

(* With the failure of an earlier run at hand, its diff must not come      *)
(* again, and its targets must be touched: one revision.                   *)
ForceRevision ==
    /\ pc = "forced" /\ (Repeats(tree) \/ ~Covers(tree))
    /\ Resume(Cleared, 0, lessons)
    /\ forced' = [repeated |-> Repeats(tree'), covered |-> Covers(tree')]
    /\ Goto("preOracle")
    /\ UNCHANGED <<run, session, locator, lessons, class, audits, verdict>>

SkipForced ==
    /\ pc = "forced" /\ ~Repeats(tree) /\ Covers(tree)
    /\ Goto("preOracle")
    /\ UNCHANGED <<run, session, progress, lessons, class, audits, forced, verdict>>

AuditsPreOracle == run.preOracle /\ ~run.script

AdmitPreOracle ==
    /\ pc = "preOracle" /\ AuditsPreOracle /\ PreOracleAdmitted(tree)
    /\ audits' = [audits EXCEPT !.preOracle = Audit(TRUE, calls)]
    /\ Goto("decide")
    /\ UNCHANGED <<run, session, progress, lessons, class, forced, verdict>>

RevisePreOracle ==
    /\ pc = "preOracle" /\ AuditsPreOracle /\ ~PreOracleAdmitted(tree)
    /\ Resume(Cleared, 0, lessons)
    /\ audits' = [audits EXCEPT !.preOracle = Audit(PreOracleAdmitted(tree'), calls')]
    /\ Goto("decide")
    /\ UNCHANGED <<run, session, locator, lessons, class, forced, verdict>>

SkipPreOracle ==
    /\ pc = "preOracle" /\ ~AuditsPreOracle
    /\ Goto("decide")
    /\ UNCHANGED <<run, session, progress, lessons, class, audits, forced, verdict>>

(* An intent without a source diff, or no intent, abstains.                *)
Abstains == run.diffFirst /\ ~(patcher.intent /\ "source" \in Holds[tree])

Vetoes ==
    \/ forced.repeated
    \/ \E name \in DOMAIN audits : Rejected(name)
    \/ Abstains
    \/ Blocked(tree)

(* Faulty variant: without an oracle the agents are believed.              *)
WithholdBelieving ==
    /\ pc = "decide" /\ Vetoes
    /\ Report("evaluation_protocol_error", agent, FALSE)
    /\ UNCHANGED <<run, session, progress, lessons, class, audits, forced, verdict>>
Withhold ==
    /\ pc = "decide" /\ Vetoes
    /\ Report("evaluation_protocol_error", FALSE, FALSE)
    /\ UNCHANGED <<run, session, progress, lessons, class, audits, forced, verdict>>

(* The diff is compared again; the targets are not.                        *)
Credit(green) == green /\ ~Repeats(tree) /\ ~forced.repeated /\ forced.covered

Evaluate ==
    /\ pc = "decide" /\ ~Vetoes
    /\ LET green == "oracle" \in Holds[tree]
       IN  /\ verdict' = [on |-> tree, green |-> green]
           /\ Report("executed", green, Credit(green))
    /\ UNCHANGED <<run, session, progress, lessons, class, audits, forced>>

(* Any call in the try statement may raise.                                *)
Trying == pc \notin {"request", "preflight", "close", "done", "raised"}
Raise ==
    /\ Trying
    /\ Report("runtime_error", FALSE, FALSE)
    /\ UNCHANGED <<run, session, progress, lessons, class, audits, forced, verdict>>

(* Faulty variant: the session is closed on return only.                   *)
CloseOnReturn ==
    /\ pc = "close"
    /\ session' = (row.stop = "runtime_error" /\ session)
    /\ pc' = "done"
    /\ UNCHANGED <<run, progress, lessons, class, audits, forced, verdict, row>>
Close ==
    /\ pc = "close"
    /\ session' = FALSE
    /\ pc' = "done"
    /\ UNCHANGED <<run, progress, lessons, class, audits, forced, verdict, row>>

Begin == Decline \/ Preflight \/ StartSession \/ Admit \/ RunScript
Attempt == Locate \/ Salvage \/ SkipSalvage
Bounded == BoundedRetry \/ SkipProbe \/ AdmitCandidate \/ ReplaceCandidate \/ SkipCandidate
Revise ==
    \/ FeedbackRetry \/ SkipFeedback \/ ForceRevision \/ SkipForced
    \/ AdmitPreOracle \/ RevisePreOracle \/ SkipPreOracle
Finish == Withhold \/ Evaluate \/ Raise \/ Close

Next == Begin \/ Attempt \/ Bounded \/ Revise \/ Finish

Spec == Init /\ [][Next]_vars /\ WF_vars(Next)

(***************************************************************************)
(* Properties.                                                             *)
(***************************************************************************)
Places == {"request", "preflight", "session", "admit", "script", "locate", "salvage", "probe",
           "candidate", "feedback", "forced", "preOracle", "decide", "close", "done", "raised"}
Stops == {"none", "plan", "unsupported", "harness_preflight_blocked", "artifact_not_admitted",
          "evaluation_protocol_error", "executed", "runtime_error"}
Lessons == {"external", "others"}
MaxCalls == 7
CallIds == 0 .. MaxCalls
PatcherRecord ==
    [call : CallIds, patch : BOOLEAN, intent : BOOLEAN, told : SUBSET Lessons, about : CallIds]
AuditRecord == [state : {"off", "admitted", "rejected"}, at : CallIds]

(* Every variable has the values the code gives it; the patcher is called  *)
(* seven times at most.                                                    *)
TypeOK ==
    /\ run \in CleanSetting /\ pc \in Places
    /\ session \in BOOLEAN /\ tree \in Trees
    /\ calls \in CallIds
    /\ locator \in {"none", "lost", "guess", "found"}
    /\ patcher \in PatcherRecord /\ verifier \in CallIds /\ pending \in CallIds
    /\ agent \in BOOLEAN
    /\ lessons \in SUBSET Lessons
    /\ class \in FailureClasses \cup {"none"}
    /\ audits \in [{"script", "candidate", "preOracle"} -> AuditRecord]
    /\ forced \in [repeated : BOOLEAN, covered : BOOLEAN]
    /\ verdict \in [on : Trees, green : BOOLEAN]
    /\ row \in [stop : Stops, success : BOOLEAN, credit : BOOLEAN]

(* Success is what the oracle said of the workspace as the last retry left *)
(* it, whatever the agents reported on the way.                            *)
SuccessIsJudged == row.success => verdict = [on |-> tree, green |-> TRUE]

(* The oracle is asked only about what the audits let pass: the audit      *)
(* before the oracle is about the very tree, the intent too; the candidate *)
(* and the script were admitted, and are what is judged unless a later     *)
(* retry has changed them, which nobody audits again.                      *)
JudgedWasAdmitted ==
    row.stop = "executed" =>
        /\ AuditsPreOracle => PreOracleAdmitted(tree)
        /\ run.diffFirst => patcher.intent /\ "source" \in Holds[tree]
        /\ \A name \in DOMAIN audits : ~Rejected(name)
        /\ LET current(name) == audits[name].state = "admitted" /\ audits[name].at = calls
           IN  /\ current("candidate") => CandidateAdmitted(tree)
               /\ current("script") => ScriptAdmitted(tree)

(* Credit against an earlier failure is given to a passing tree whose diff *)
(* is not the one that failed; that it covers the targets is sure only     *)
(* without the retry before the oracle, which may lead away from them.     *)
CreditIsNew ==
    row.credit =>
        /\ row.success
        /\ Instructed => "repeats" \notin Holds[tree]
        /\ Instructed /\ ~AuditsPreOracle => "covers" \in Holds[tree]

(* A patcher is told of the failure it must not repeat in every retry,     *)
(* whichever context the retry is built on.                                *)
FailureIsAlwaysTold == patcher.call # 0 /\ Instructed => "external" \in patcher.told

(* The evidence a retry gets is that of the patch it revises.  Where a     *)
(* salvage ran the patcher again over the outputs of the first run, it may *)
(* be that of the patch before.                                            *)
EvidenceIsCurrent ==
    patcher.about # 0 /\ locator # "guess" => patcher.about = patcher.call - 1

(* Every switch buys one call at most.                                     *)
Switches == {s \in {"salvage", "bounded", "contract", "feedback", "preOracle"} : run[s]}
EachSwitchBuysOneCall ==
    calls <= (IF run.script THEN 0 ELSE 1) + Cardinality(Switches) + (IF Instructed THEN 1 ELSE 0)

(* A run ends, and with its session closed.                                *)
RunEnds == <>(pc \in {"done", "raised"} /\ ~session)

(* Seen from outside a run is a recovery loop with seven calls.            *)
Loop == INSTANCE RecoveryLoop WITH
            budget <- MaxCalls, used <- calls, verified <- verdict.green,
            over <- (pc \in {"done", "raised"}), success <- (pc = "done" /\ row.success)
RunIsRecoveryLoop == Loop!LoopSpec

===============================================================================
