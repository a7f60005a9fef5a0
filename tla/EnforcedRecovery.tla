-------------------------- MODULE EnforcedRecovery --------------------------
(***************************************************************************)
(* run_action_enforced_recovery                                            *)
(* (bcmr_swe/experiments/mas_dx_run_action_enforced_recovery.py): one      *)
(* recovery attempt of one instance in a workspace of its own.  A scope    *)
(* says which of replaying, probing, patching and judging it does; gates   *)
(* on the patch and on the workspace stand before the oracle, and each may *)
(* ask the patcher for one revision.                                       *)
(*                                                                         *)
(* The workspace is a member of Trees.  A patch is known by the tree it    *)
(* makes of Head: Diff[t] is what git diff says of t, which leaves out     *)
(* files git does not track.  Holds[x] is what would be found out about x. *)
(***************************************************************************)
EXTENDS Naturals

CONSTANTS
    Trees,       \* contents the workspace may have
    Head,        \* what is committed
    Previous,    \* what the patch of the failed run makes of it
    Candidate,   \* what the candidate patch of the evidence makes of it
    Mixed,       \* the candidate on top of something else
    Blank,       \* no patch
    Placeholder, \* the text of an implementer that ran out of iterations
    Diff,        \* the patch git diff shows for a tree
    Holds,       \* what is true of a tree, or of a patch
    Runs         \* the ways an attempt is set up

Findings == {"invariants", "intent", "compiles", "collects", "collected", "oracle"}
Texts == Trees \cup {Blank, Placeholder}

ASSUME TreesAssumption ==
    /\ {Head, Previous, Candidate, Mixed} \subseteq Trees
    /\ Blank \notin Trees /\ Placeholder \notin Trees /\ Blank # Placeholder
ASSUME DiffAssumption == Diff \in [Trees -> Trees \cup {Blank}]
ASSUME HoldsAssumption == Holds \in [Texts -> SUBSET Findings]

Verifying == {"verifier_only_replay", "environment_preflight_then_verifier"}
Guarded == {"guarded_protocol_then_patch", "guarded_protocol_then_clean_patch"}
Patching == {"patcher_fixed_localization", "patcher_fixed_localization_candidate_only"}
Scopes == Verifying \cup Guarded \cup Patching \cup {"candidate_patch_verifier"}

(* commands: blocked before they are run, run as they are, or validated by *)
(* collecting first.  gate: the operator gate asks for the invariants, and *)
(* for a revision when the failure is still in the same span.  audit: the  *)
(* patch contract is source_only.                                          *)
AttemptSetting ==
    [scope : Scopes, bounded : BOOLEAN, commands : {"blocked", "plain", "validated"},
     previous : {"off", "missing", "fails", "applies"},
     candidate : {"none", "filtered", "fails", "applies"},
     gate : {"none", "invariant", "span_delta"}, audit : BOOLEAN,
     intent : {"off", "gate", "advisory"}, intentRevision : BOOLEAN,
     syntaxRevision : BOOLEAN, spanRevision : BOOLEAN]

ASSUME RunsAssumption == Runs \subseteq AttemptSetting

VARIABLES
    run,       \* the set-up
    pc,        \* where the attempt is
    session,   \* is the executor's session open?
    tree,      \* the workspace
    blocked,   \* evaluation["error_type"] is set
    patch,     \* [text, source, summary, call]: the patch of the record
    fault,     \* what went wrong with its patcher: "none", infrastructure, provider
    verdict,   \* [on, green]: what the oracle last said, and of which tree
    calls,     \* calls of the patcher
    counted,   \* the calls in usage_delta
    row        \* the row of the payload

vars == <<run, pc, session, tree, blocked, patch, fault, verdict, calls, counted, row>>

NoPatch == [text |-> Blank, source |-> Head, summary |-> FALSE, call |-> 0]
NoVerdict == [on |-> Head, green |-> FALSE]
NoRow == [stop |-> "none", success |-> FALSE, text |-> Blank, usage |-> 0]

Init ==
    /\ run \in Runs
    /\ pc = "workspace"
    /\ session = FALSE
    /\ tree = Head
    /\ blocked = (run.commands = "blocked")
    /\ patch = NoPatch
    /\ fault = "none"
    /\ verdict = NoVerdict
    /\ calls = 0
    /\ counted = 0
    /\ row = NoRow

(***************************************************************************)
(* Operators.                                                              *)
(***************************************************************************)
Faults == {"none", "infrastructure", "provider"}
CallRecord == [tree : Trees, text : Texts, summary : BOOLEAN, fault : Faults]

(* What a call of the patcher may come back with.  A planner without a     *)
(* provider leaves everything as it is; an implementer that finishes hands *)
(* over what git shows; one that runs out of iterations does so if git     *)
(* shows anything; one that breaks off hands over nothing, unless the      *)
(* fresh-diff audit finds the files it changed.                            *)
PatcherCalls(t) ==
    {c \in CallRecord :
        \/ c.tree = t /\ c.text = Blank /\ ~c.summary /\ c.fault # "none"
        \/ c.summary /\ c.text = Diff[c.tree] /\ c.text # Blank /\ c.fault # "infrastructure"
        \/ c.summary /\ c.text = Placeholder /\ Diff[c.tree] = Blank /\ c.fault = "none"
        \/ /\ c.summary = run.audit
           /\ c.text = IF run.audit /\ c.tree # t THEN Diff[c.tree] ELSE Blank}

(* A patch that is applied to anything but Head gives a mixture.           *)
Onto(p, t) == IF t = Head THEN p ELSE Mixed

(* The gate on the invariants reads the patch.                             *)
InvariantsBlock(text) ==
    run.bounded /\ run.gate # "none" /\ "invariants" \notin Holds[text]

(* The gate on the intent reads the patch too.                             *)
IntentBlocks(text) ==
    run.bounded /\ run.intent # "off" /\ "intent" \notin Holds[text]

(* The gate on the syntax compiles the files of the patch as they are in   *)
(* the workspace.                                                          *)
SyntaxBlocks(summary, t) == run.bounded /\ summary /\ "compiles" \notin Holds[t]

(* Collecting before judging drops the tests that cannot be collected;     *)
(* with none left it blocks.                                               *)
Validates == run.bounded /\ run.commands = "validated"
CollectBlocks(t) == Validates /\ "collects" \notin Holds[t]
Green(t) == (IF Validates THEN "collected" ELSE "oracle") \in Holds[t]

(* A revision with a text replaces the patch of the record, and its calls  *)
(* are counted.                                                            *)
Adopts(c) == c.text # Blank
Adopt(c) ==
    /\ tree' = c.tree
    /\ calls' = calls + 1
    /\ IF Adopts(c)
       THEN /\ patch' = [text |-> c.text, source |-> c.tree, summary |-> c.summary,
                         call |-> calls + 1]
            /\ fault' = c.fault
            /\ counted' = calls + 1
       ELSE UNCHANGED <<patch, fault, counted>>

(* The attempt is over: its row is made, and the session is to be closed.  *)
Report(stop, success, text, usage) ==
    /\ row' = [stop |-> stop, success |-> success, text |-> text, usage |-> usage]
    /\ pc' = "close"

Goto(next) == pc' = next /\ UNCHANGED row

(***************************************************************************)
(* Actions.                                                                *)
(***************************************************************************)
(* materialize_workspace is called outside of the try statement.           *)
Materialize ==
    /\ pc = "workspace"
    /\ pc' \in {"session", "raised"}
    /\ UNCHANGED <<run, session, tree, blocked, patch, fault, verdict, calls, counted, row>>

StartSession ==
    /\ pc = "session"
    /\ session' = TRUE
    /\ pc' = "replay"
    /\ UNCHANGED <<run, tree, blocked, patch, fault, verdict, calls, counted, row>>

(* The patch of the failed run is applied, except where the patcher is to  *)
(* start from its localization only.                                       *)
ReplayPrevious ==
    /\ pc = "replay"
    /\ LET asked == run.previous # "off" /\ run.scope # "patcher_fixed_localization"
       IN  /\ tree' = IF asked /\ run.previous = "applies" THEN Previous ELSE tree
           /\ IF asked /\ run.previous # "applies"
              THEN Report("previous_patch_replay_blocked", FALSE, Blank, 0)
              ELSE Goto("validate")
    /\ UNCHANGED <<run, session, blocked, patch, fault, verdict, calls, counted>>

(* Scopes that judge before they patch validate their commands first.      *)
Validate ==
    /\ pc = "validate"
    /\ blocked' = (blocked \/ (run.scope \in Verifying \cup Guarded /\ CollectBlocks(tree)))
    /\ Goto(CASE run.scope \in Verifying -> "verify"
              [] run.scope \in Guarded -> "probe"
              [] run.scope \in Patching -> "candidate"
              [] run.scope = "candidate_patch_verifier" -> "spec")
    /\ UNCHANGED <<run, session, tree, patch, fault, verdict, calls, counted>>

EvaluationBlocked ==
    /\ pc \in {"verify", "probe", "candidate", "spec"}
    /\ blocked
    /\ Report("evaluation_protocol_blocked", FALSE, Blank, 0)
    /\ UNCHANGED <<run, session, tree, blocked, patch, fault, verdict, calls, counted>>

Judge == verdict' = [on |-> tree, green |-> Green(tree)]

Verify ==
    /\ pc = "verify" /\ ~blocked
    /\ Judge
    /\ Report("executed", Green(tree), Blank, 0)
    /\ UNCHANGED <<run, session, tree, blocked, patch, fault, calls, counted>>

(* A guarded scope patches only what the oracle does not pass already.     *)
Probe ==
    /\ pc = "probe" /\ ~blocked
    /\ Judge
    /\ IF Green(tree)
       THEN Report("protocol_probe_oracle_success", TRUE, Blank, 0)
       ELSE Goto(IF run.scope = "guarded_protocol_then_clean_patch" THEN "reset" ELSE "candidate")
    /\ UNCHANGED <<run, session, tree, blocked, patch, fault, calls, counted>>

Reset ==
    /\ pc = "reset"
    /\ \/ tree' = Head /\ Goto("candidate")
       \/ tree' \in Trees /\ Report("guarded_protocol_clean_reset_failed", FALSE, Blank, 0)
    /\ UNCHANGED <<run, session, blocked, patch, fault, verdict, calls, counted>>

(* The candidate of the evidence is applied before the patcher starts.     *)
ReplayCandidate ==
    /\ pc = "candidate" /\ ~blocked
    /\ LET asked == run.bounded /\ run.candidate # "none"
       IN  /\ tree' = IF asked /\ run.candidate = "applies" THEN Onto(Candidate, tree) ELSE tree
           /\ IF asked /\ run.candidate # "applies"
              THEN Report("candidate_patch_replay_blocked", FALSE, Blank, 0)
              ELSE Goto("patch")
    /\ UNCHANGED <<run, session, blocked, patch, fault, verdict, calls, counted>>

(* The first call counts whatever it brings.                               *)
Patch ==
    /\ pc = "patch"
    /\ \E c \in PatcherCalls(tree) :
         /\ tree' = c.tree
         /\ patch' = [text |-> c.text, source |-> c.tree, summary |-> c.summary, call |-> calls + 1]
         /\ fault' = c.fault
    /\ calls' = calls + 1
    /\ counted' = calls + 1
    /\ Goto("invariants")
    /\ UNCHANGED <<run, session, blocked, verdict>>

InvariantsHold ==
    /\ pc = "invariants" /\ ~InvariantsBlock(patch.text)
    /\ Goto("intent")
    /\ UNCHANGED <<run, session, tree, blocked, patch, fault, verdict, calls, counted>>

(* One revision; without a text the first gate stands.                     *)
ReviseInvariants ==
    /\ pc = "invariants" /\ InvariantsBlock(patch.text)
    /\ \E c \in PatcherCalls(tree) :
         /\ Adopt(c)
         /\ IF Adopts(c) /\ ~InvariantsBlock(c.text)
            THEN Goto("intent")
            ELSE Report("semantic_invariant_gate_blocked", FALSE, patch'.text, counted')
    /\ UNCHANGED <<run, session, blocked, verdict>>

IntentHolds ==
    /\ pc = "intent"
    /\ ~IntentBlocks(patch.text) \/ (~run.intentRevision /\ run.intent = "advisory")
    /\ Goto("syntax")
    /\ UNCHANGED <<run, session, tree, blocked, patch, fault, verdict, calls, counted>>

IntentStops ==
    /\ pc = "intent" /\ IntentBlocks(patch.text) /\ ~run.intentRevision /\ run.intent = "gate"
    /\ Report("patch_intent_gate_blocked", FALSE, patch.text, counted)
    /\ UNCHANGED <<run, session, tree, blocked, patch, fault, verdict, calls, counted>>

(* The revision is judged by both gates; as advice, the intent never stops *)
(* the attempt, and a revision without a text leaves the patch behind.     *)
(* Faulty variant: the revision is not asked for the invariants.           *)
ReviseIntentOnly ==
    /\ pc = "intent" /\ IntentBlocks(patch.text) /\ run.intentRevision
    /\ \E c \in PatcherCalls(tree) :
         /\ Adopt(c)
         /\ IF run.intent = "gate" /\ (~Adopts(c) \/ IntentBlocks(c.text))
            THEN Report("patch_intent_gate_blocked", FALSE, patch'.text, counted')
            ELSE Goto("syntax")
    /\ UNCHANGED <<run, session, blocked, verdict>>
ReviseIntent ==
    /\ pc = "intent" /\ IntentBlocks(patch.text) /\ run.intentRevision
    /\ \E c \in PatcherCalls(tree) :
         /\ Adopt(c)
         /\ LET stops == \/ Adopts(c) /\ InvariantsBlock(c.text)
                         \/ run.intent = "gate" /\ (~Adopts(c) \/ IntentBlocks(c.text))
            IN  IF stops
                THEN Report("patch_intent_gate_blocked", FALSE, patch'.text, counted')
                ELSE Goto("syntax")
    /\ UNCHANGED <<run, session, blocked, verdict>>

CandidateOnly ==
    /\ pc = "syntax" /\ run.scope = "patcher_fixed_localization_candidate_only"
    /\ Report("candidate_generated_no_oracle", FALSE, patch.text, counted)
    /\ UNCHANGED <<run, session, tree, blocked, patch, fault, verdict, calls, counted>>

Oracular == run.scope # "patcher_fixed_localization_candidate_only"
RevisesSyntax == run.syntaxRevision /\ run.scope # "candidate_patch_verifier"

SyntaxHolds ==
    /\ pc = "syntax" /\ Oracular /\ ~SyntaxBlocks(patch.summary, tree)
    /\ Goto("collect")
    /\ UNCHANGED <<run, session, tree, blocked, patch, fault, verdict, calls, counted>>

SyntaxStops ==
    /\ pc = "syntax" /\ Oracular /\ SyntaxBlocks(patch.summary, tree) /\ ~RevisesSyntax
    /\ Report("candidate_patch_syntax_gate_blocked", FALSE, patch.text, counted)
    /\ UNCHANGED <<run, session, tree, blocked, patch, fault, verdict, calls, counted>>

(* The gates on the patch are not asked again.                             *)
(* Faulty variant: only the workspace is looked at after the revision.     *)
ReviseSyntaxUnread ==
    /\ pc = "syntax" /\ Oracular /\ SyntaxBlocks(patch.summary, tree) /\ RevisesSyntax
    /\ \E c \in PatcherCalls(tree) :
         /\ Adopt(c)
         /\ IF ~SyntaxBlocks(c.summary \/ patch.summary, c.tree)
            THEN Goto("collect")
            ELSE Report("candidate_patch_syntax_gate_blocked", FALSE, patch'.text, counted')
    /\ UNCHANGED <<run, session, blocked, verdict>>
ReviseSyntax ==
    /\ pc = "syntax" /\ Oracular /\ SyntaxBlocks(patch.summary, tree) /\ RevisesSyntax
    /\ \E c \in PatcherCalls(tree) :
         /\ Adopt(c)
         /\ IF Adopts(c) /\ ~SyntaxBlocks(c.summary \/ patch.summary, c.tree)
            THEN Goto("collect")
            ELSE Report("candidate_patch_syntax_gate_blocked", FALSE, patch'.text, counted')
    /\ UNCHANGED <<run, session, blocked, verdict>>

Collect ==
    /\ pc = "collect"
    /\ blocked' = CollectBlocks(tree)
    /\ IF CollectBlocks(tree)
       THEN Report("evaluation_protocol_blocked", FALSE, patch.text, counted)
       ELSE Goto("evaluate")
    /\ UNCHANGED <<run, session, tree, patch, fault, verdict, calls, counted>>

(* Faulty variant: a patcher that completed is believed.                   *)
ReportTrusting(green) ==
    Report(IF fault # "none" THEN fault ELSE "verified", fault = "none" \/ green, patch.text, counted)
ReportVerdict(green) ==
    Report(IF fault # "none" THEN fault ELSE IF green THEN "verified" ELSE "patcher_failed",
           green, patch.text, counted)

(* A failure that is still in the span of the evidence gets one revision.  *)
RevisesSpan ==
    /\ run.bounded
    /\ run.spanRevision \/ run.gate = "span_delta"
    /\ run.scope # "candidate_patch_verifier"

Evaluate ==
    /\ pc = "evaluate"
    /\ Judge
    /\ \/ ReportVerdict(Green(tree))
       \/ ~Green(tree) /\ RevisesSpan /\ Goto("span")
    /\ UNCHANGED <<run, session, tree, blocked, patch, fault, calls, counted>>

(* A revision that breaks the invariants is not adopted: patch and verdict *)
(* of the row are those before it, whatever it did to the workspace.       *)
(* Faulty variant: it is adopted without being judged again.               *)
ReviseSpanUnjudged ==
    /\ pc = "span"
    /\ \E c \in PatcherCalls(tree) :
         IF Adopts(c) /\ ~InvariantsBlock(c.text)
         THEN Adopt(c) /\ Report("verified", TRUE, c.text, calls + 1)
         ELSE /\ tree' = c.tree
              /\ calls' = calls + 1
              /\ ReportVerdict(FALSE)
              /\ UNCHANGED <<patch, fault, counted>>
    /\ UNCHANGED <<run, session, blocked, verdict>>
ReviseSpan ==
    /\ pc = "span"
    /\ \E c \in PatcherCalls(tree) :
         IF Adopts(c) /\ ~InvariantsBlock(c.text)
         THEN Adopt(c) /\ Goto("reevaluate")
         ELSE /\ tree' = c.tree
              /\ calls' = calls + 1
              /\ ReportVerdict(FALSE)
              /\ UNCHANGED <<patch, fault, counted>>
    /\ UNCHANGED <<run, session, blocked, verdict>>

Reevaluate ==
    /\ pc = "reevaluate"
    /\ Judge
    /\ ReportVerdict(Green(tree))
    /\ UNCHANGED <<run, session, tree, blocked, patch, fault, calls, counted>>

(* candidate_patch_verifier: the candidate is the patch; the gate on the   *)
(* invariants reads it before it is applied.                               *)
Specified == run.bounded /\ run.candidate \in {"fails", "applies"}

SpecifyCandidate ==
    /\ pc = "spec" /\ ~blocked
    /\ IF Specified
       THEN /\ patch' = [text |-> Candidate, source |-> Candidate, summary |-> TRUE, call |-> 0]
            /\ IF InvariantsBlock(Candidate)
               THEN Report("semantic_invariant_gate_blocked", FALSE, Candidate, 0)
               ELSE Goto("apply")
       ELSE UNCHANGED patch /\ Report("candidate_patch_missing", FALSE, Blank, 0)
    /\ UNCHANGED <<run, session, tree, blocked, fault, verdict, calls, counted>>

ApplyCandidate ==
    /\ pc = "apply"
    /\ IF run.candidate = "applies"
       THEN tree' = Onto(Candidate, tree) /\ Goto("syntax")
       ELSE UNCHANGED tree /\ Report("candidate_patch_replay_blocked", FALSE, Candidate, 0)
    /\ UNCHANGED <<run, session, blocked, patch, fault, verdict, calls, counted>>

(* Any call in the try statement may raise; the row then has neither patch *)
(* nor usage.                                                              *)
Trying == pc \notin {"workspace", "close", "done", "raised"}
Raise ==
    /\ Trying
    /\ Report("runtime_error", FALSE, Blank, 0)
    /\ UNCHANGED <<run, session, tree, blocked, patch, fault, verdict, calls, counted>>

(* Faulty variant: the session is closed on return only.                   *)
CloseOnReturn ==
    /\ pc = "close"
    /\ session' = (row.stop = "runtime_error" /\ session)
    /\ pc' = "done"
    /\ UNCHANGED <<run, tree, blocked, patch, fault, verdict, calls, counted, row>>

Close ==
    /\ pc = "close"
    /\ session' = FALSE
    /\ pc' = "done"
    /\ UNCHANGED <<run, tree, blocked, patch, fault, verdict, calls, counted, row>>

Prepare == Materialize \/ StartSession \/ ReplayPrevious \/ Validate \/ EvaluationBlocked
Guard == Verify \/ Probe \/ Reset \/ ReplayCandidate \/ SpecifyCandidate \/ ApplyCandidate
GatePatch ==
    Patch \/ InvariantsHold \/ ReviseInvariants \/ IntentHolds \/ IntentStops \/ ReviseIntent
GateWorkspace == CandidateOnly \/ SyntaxHolds \/ SyntaxStops \/ ReviseSyntax \/ Collect
Score == Evaluate \/ ReviseSpan \/ Reevaluate

Next == Prepare \/ Guard \/ GatePatch \/ GateWorkspace \/ Score \/ Raise \/ Close

Spec == Init /\ [][Next]_vars /\ WF_vars(Next)

(***************************************************************************)
(* Properties.                                                             *)
(***************************************************************************)
Places == {"workspace", "session", "replay", "validate", "verify", "probe", "reset",
           "candidate", "patch", "invariants", "intent", "syntax", "collect", "evaluate",
           "span", "reevaluate", "spec", "apply", "close", "done", "raised"}
PatchRecord == [text : Texts, source : Trees, summary : BOOLEAN, call : Nat]
Verdict == [on : Trees, green : BOOLEAN]
Stops == {"none", "executed", "previous_patch_replay_blocked", "evaluation_protocol_blocked",
          "protocol_probe_oracle_success", "guarded_protocol_clean_reset_failed",
          "candidate_patch_replay_blocked", "semantic_invariant_gate_blocked",
          "patch_intent_gate_blocked", "candidate_generated_no_oracle",
          "candidate_patch_syntax_gate_blocked", "infrastructure", "provider", "verified",
          "patcher_failed", "candidate_patch_missing", "runtime_error"}
RowRecord == [stop : Stops, success : BOOLEAN, text : Texts, usage : Nat]

(* Every variable has the values the code gives it.                        *)
TypeOK ==
    /\ run \in Runs /\ pc \in Places
    /\ session \in BOOLEAN /\ tree \in Trees /\ blocked \in BOOLEAN
    /\ patch \in PatchRecord /\ fault \in Faults /\ verdict \in Verdict
    /\ calls \in Nat /\ counted \in Nat
    /\ row \in RowRecord

(* A row that reports success comes from an oracle run on the workspace as *)
(* it was left: whatever the revisions did, the last of them was judged.   *)
SuccessIsJudged == row.success => verdict = [on |-> tree, green |-> TRUE]

(* And the tree that was judged is the one the reported patch was taken    *)
(* from.  Two ways lead elsewhere: an advised revision that comes back     *)
(* without a patch leaves its edits behind, and a candidate is applied on  *)
(* top of the patch of the failed run.                                     *)
LeavesEditsBehind == run.intent = "advisory" /\ run.intentRevision
StartsMixed == run.scope = "candidate_patch_verifier" /\ run.previous # "off"
PatchWasJudged ==
    row.success /\ row.text # Blank /\ ~LeavesEditsBehind /\ ~StartsMixed
    => verdict.on = patch.source /\ row.text = patch.text

(* What is reported as a success passed the gates it was set up with,      *)
(* unless a later revision was only asked to compile or to move on.        *)
SuccessPassedGates ==
    row.success /\ row.text # Blank =>
        /\ ~RevisesSyntax => ~InvariantsBlock(row.text)
        /\ run.intent = "gate" /\ run.scope # "candidate_patch_verifier"
              /\ ~RevisesSyntax /\ ~RevisesSpan => ~IntentBlocks(row.text)

(* The usage of a row covers the call its patch comes from: only revisions *)
(* that were given up are not paid for.                                    *)
PatchIsPaidFor ==
    /\ calls <= 5
    /\ row.stop # "none" /\ row.text # Blank => patch.call <= row.usage

(* The clean fallback starts where the instance started: nothing of the    *)
(* failed run's patch is under the candidate or the patcher's first edit.  *)
FallbackStartsClean ==
    pc = "candidate" /\ run.scope = "guarded_protocol_then_clean_patch" => tree = Head

(* An attempt ends, and with its session closed.                           *)
AttemptEnds == <>(pc \in {"done", "raised"} /\ ~session)

(* Seen from outside an attempt is a recovery loop: at most five calls of  *)
(* the patcher, and success only with the last verdict.                    *)
Loop == INSTANCE RecoveryLoop WITH
            budget <- 5, used <- calls, verified <- verdict.green,
            over <- (pc \in {"done", "raised"}), success <- (pc = "done" /\ row.success)
AttemptIsRecoveryLoop == Loop!LoopSpec

=============================================================================
