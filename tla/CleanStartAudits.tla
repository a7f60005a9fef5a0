--------------------------- MODULE CleanStartAudits ---------------------------
(***************************************************************************)
(* The audits of a clean-start run as operators                            *)
(* (mas_recovery_run_clean_start_baseline.py): what is found of a patch,   *)
(* given what the failing tests said.  CleanStart takes the findings as    *)
(* they are; here is what they rest on.                                    *)
(***************************************************************************)
EXTENDS CleanStart, Sequences

(* Files of the workspace: two modules, a text, a build product, a test.   *)
Modules == {"here", "there"}
Files == Modules \cup {"text", "built", "test"}

(* Kinds of lines a diff adds; "boundary" is a compatibility boundary in   *)
(* its context, "torn" a try without its except.                           *)
Lines == {"plain", "guard", "narrow", "broad", "swallow", "fallback", "signal",
          "boundary", "torn"}

(* What a patch is to the audits.  broken: modules that are gone, do not   *)
(* decode or do not compile; lines: those git diff shows, of tracked files *)
(* only; says: what the answer declares; choices: the objects it prints in *)
(* turn behind the marker of a choice, "garbled" where they cannot be read. *)
PatchOf(files, broken, lines, says, choices) ==
    [files |-> files, broken |-> broken, lines |-> lines, says |-> says, choices |-> choices]

(* What the failing tests said.  suspects: the files of the reference      *)
(* patch, which the manifest names; output: the kinds of lines in it.      *)
FailureOf(blocked, traceback, suspects, semantic, output) ==
    [blocked |-> blocked, traceback |-> traceback, suspects |-> suspects,
     semantic |-> semantic, output |-> output]

NonTest(p) == p.files \ {"test"}
Source(p) == p.files \cap Modules

(* The last object that can be read counts; garbled ones before or behind  *)
(* it do not.                                                              *)
LastSaid(answers) ==
    LET read == {i \in DOMAIN answers : answers[i] # "garbled"}
    IN  IF read # {} THEN answers[CHOOSE i \in read : \A j \in read : j <= i]
        ELSE IF answers # <<>> THEN "garbled" ELSE "none"

Legitimacy(files) ==
    CASE files = {} -> "no_diff"
      [] files = {"test"} -> "tests_only"
      [] "test" \in files /\ files # {"test"} -> "source_mixed"
      [] OTHER -> "source_only"

BroadSwallowing(p) == {"broad", "swallow"} \subseteq p.lines

(* The exception or the guard that was announced has to be in the diff.    *)
ChoiceKept(p) == LastSaid(p.choices) \in {"guard", "narrow"} \cap p.lines

(* A guarded fallback: at a compatibility boundary, behind a guard or a    *)
(* narrow exception, observable, in one piece, and as announced.           *)
FallbackGuarded(p) ==
    /\ {"boundary", "fallback", "signal"} \subseteq p.lines
    /\ {"guard", "narrow"} \cap p.lines # {}
    /\ "torn" \notin p.lines
    /\ ChoiceKept(p)

(* The source edit contract, for the files the locator found.              *)
EditSatisfied(contract, p, located) ==
    \/ contract = "none"
    \/ /\ {"built", "test"} \cap p.files = {}
       /\ Cardinality(Source(p)) = 1
       /\ located # {} => Source(p) \cap located # {}
       /\ \/ contract = "guarded_fallback" /\ FallbackGuarded(p)
          \/ contract = "minimal_targeted" /\ ~BroadSwallowing(p)

(* Lines of the output that are read as a cue: a comparison, a value at a  *)
(* boundary, an expected value, an unpacking, a class where a value should *)
(* be; "missing", one that names a test that was not found.  A call is     *)
(* remembered for the class behind it and is no cue itself.                *)
Cues(f) ==
    f.output \cap {"equal", "boundary", "unequal", "expected", "unpack", "class", "missing"}

(* _minimal_validation_failure_classification, for the files changed so    *)
(* far; a diff of tests only counts as a diff.                             *)
FailureClass(f, p) ==
    LET changed == IF NonTest(p) # {} THEN NonTest(p) ELSE p.files
        Missed(paths) == paths # {} /\ paths \cap changed = {}
    IN  CASE f.blocked -> "environment"
          [] ~f.blocked /\ changed = {} -> "no_diff"
          [] ~f.blocked /\ changed # {} /\ (Missed(f.traceback) \/ Missed(f.suspects)) -> "location"
          [] OTHER -> IF f.semantic THEN "abstraction"
                      ELSE IF "assert" \in f.output \/ Cues(f) # {} THEN "condition"
                      ELSE "unknown"

(* target_source_candidates of the contract.  The files that were changed  *)
(* before are among them.                                                  *)
ContractTargets(f, before) == f.traceback \cup f.suspects \cup NonTest(before)

(* What the contract of a failure class demands of the next patch          *)
(* (_failure_class_edit_contract); its other rules are only told.          *)
Demands == [no_diff     |-> {"source", "target"},
            location    |-> {"source", "target"},
            condition   |-> {"source", "condition"},
            abstraction |-> {"source", "mechanism"},
            environment |-> {"nothing"},
            unknown     |-> {}]

(* Any return, raise or except counts as a condition; the fallback that is *)
(* guarded may swallow.                                                    *)
Conditions == {"guard", "narrow", "broad", "swallow", "signal"}
ClassSatisfied(c, contract, p, targets) ==
    /\ "source" \in Demands[c] => NonTest(p) # {}
    /\ "target" \in Demands[c] /\ targets # {} => NonTest(p) \cap targets # {}
    /\ "condition" \in Demands[c] => Conditions \cap p.lines # {}
    /\ "mechanism" \in Demands[c] =>
          /\ p.lines \ {"boundary"} # {}
          /\ BroadSwallowing(p) => contract = "guarded_fallback" /\ FallbackGuarded(p)
    /\ "nothing" \in Demands[c] => NonTest(p) = {}

(* Only modules that the diff names are compiled; one that was deleted     *)
(* counts as broken.                                                       *)
Compiles(p) == p.broken \cap NonTest(p) = {}

(* The semantic audit: a cue, its effect declared, a target touched, and a *)
(* test that was not found renamed.                                        *)
MeaningSatisfied(f, p, targets) ==
    /\ Cues(f) # {}
    /\ "effect" \in p.says
    /\ targets # {} => NonTest(p) \cap targets # {}
    /\ "missing" \in f.output => "renamed" \in p.says

(* Everything an audit would find of patch p, tried after `before`, when   *)
(* the diff of an earlier run was `failed`; outcomes: what only the        *)
(* commands can tell.                                                      *)
FindingsOf(p, f, contract, located, before, failed, outcomes) ==
    LET targets == ContractTargets(f, before)
        known == NonTest(failed) \cup f.traceback
        found == [changed  |-> p.files # {},
                  source   |-> NonTest(p) # {},
                  only     |-> "test" \notin p.files,
                  edit     |-> EditSatisfied(contract, p, located),
                  compiles |-> Compiles(p),
                  means    |-> MeaningSatisfied(f, p, targets),
                  repeats  |-> p.files # {} /\ p.files = failed.files /\ p.lines = failed.lines,
                  covers   |-> known # {} => p.files \cap known # {}]
    IN  {name \in DOMAIN found : found[name]}
          \cup {c \in FailureClasses : ClassSatisfied(c, contract, p, targets)}
          \cup outcomes

===============================================================================
