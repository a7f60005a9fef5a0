--------------------------- MODULE CleanStartInputs ---------------------------
(***************************************************************************)
(* What a clean-start run is given                                         *)
(* (mas_recovery_run_clean_start_baseline.py): the artifacts of earlier    *)
(* runs, each behind an audit of its own, and the host, which a preflight  *)
(* may ask Docker about.  From these follow the fields of a set-up that    *)
(* CleanStart starts from.                                                 *)
(***************************************************************************)
EXTENDS CleanStartAudits

(* A row of an artifact.  instance: "" where it names none; legitimacy: ""  *)
(* where it states none; shown: a diff excerpt can be made of it;          *)
(* signature: "stated", "empty" or "unstated"; failures: what it tells of  *)
(* the failed commands, "listed", "code", "output".                        *)
RowOf(instance, success, files, legitimacy, shown, signature, failures) ==
    [instance |-> instance, success |-> success, files |-> files, legitimacy |-> legitimacy,
     shown |-> shown, signature |-> signature, failures |-> failures]

(* An artifact is not given ("none"), missing, unreadable or read.         *)
Readable(artifact) == artifact.state = "read" /\ artifact.rows # <<>>

(* The row of the instance, or the first where there is none; a file       *)
(* without rows stands for a row itself.                                   *)
RowForInstance(artifact) ==
    LET own == SelectSeq(artifact.rows, LAMBDA r : r.instance = "this")
    IN  Head(own \o artifact.rows)

(* The first success of any instance, or the first row.                    *)
FirstCase(artifact) ==
    LET solved == SelectSeq(artifact.rows, LAMBDA r : r.success)
    IN  Head(solved \o artifact.rows)

(* The files a row lists, modules or not, as long as they are no tests.    *)
SourceFiles(r) == r.files \ {"test"}
(* A row may state its own legitimacy, and is believed.                    *)
LegitimacyOf(r) ==
    IF r.legitimacy # "" THEN r.legitimacy ELSE Legitimacy(r.files)

(* The signature a row states, an empty one included, or else that of the  *)
(* output of its failed commands.                                          *)
HasSignature(r) ==
    r.signature = "stated" \/ (r.signature = "unstated" /\ "output" \in r.failures)
(* Commands that failed, as listed or by their return codes.               *)
HasFailureSources(r) == r.failures # {}

(* The failed validation of an earlier run of the instance.                *)
ExternalAdmitted(artifact) ==
    /\ Readable(artifact)
    /\ LET r == RowForInstance(artifact)
       IN  /\ r.instance \in {"", "this"}
           /\ ~r.success
           /\ SourceFiles(r) # {}
           /\ HasSignature(r) /\ HasFailureSources(r)

(* A patch of a baseline that solved the instance; tests beside the source *)
(* are allowed, and ignored.                                               *)
BaselineAdmitted(artifact) ==
    /\ Readable(artifact)
    /\ LET r == RowForInstance(artifact)
       IN  /\ r.instance \in {"", "this"}
           /\ r.success
           /\ SourceFiles(r) # {}
           /\ LegitimacyOf(r) \in {"source_only", "source_mixed"}
           /\ r.shown

(* A success with another instance; only the first is looked at.           *)
HistoryAdmitted(artifact) ==
    /\ Readable(artifact)
    /\ LET r == FirstCase(artifact)
       IN  /\ r.instance = "other"
           /\ r.success
           /\ LegitimacyOf(r) = "source_only"
           /\ SourceFiles(r) # {}
           /\ r.shown

(* What a controller decided before the run.  leaks: it used outcomes;     *)
(* action: "" where it decided nothing, "none" without a row.              *)
Decisions == {"source-action", "probe", "fallback", "abstain"}
ControllerAdmitted(controller) ==
    /\ controller.state = "read"
    /\ ~controller.leaks
    /\ controller.action \notin {"none", ""}

(* An action program.  has: the parts it is made of.                       *)
ProgramAdmitted(program) ==
    /\ program.state = "read"
    /\ ~program.leaks
    /\ program.action \in Decisions
    /\ program.mode \in {"prompt_context", "direct_script"}
    /\ program.action = "source-action" => {"patterns", "invariants"} \subseteq program.has
    /\ program.mode = "direct_script" => program.action = "source-action" /\ "script" \in program.has
    /\ {"validation", "stop"} \cap program.has # {}

RunsScript(program) == ProgramAdmitted(program) /\ program.mode = "direct_script"

(* An artifact that is given but not admitted ends the run; a controller's *)
(* is left out without a word.                                             *)
Standing(artifact, admitted) ==
    CASE artifact.state = "none" -> "none"
      [] artifact.state # "none" /\ admitted -> "admitted"
      [] OTHER -> "refused"

OthersOf(baseline, history, controller, program) ==
    LET standings == {Standing(baseline, BaselineAdmitted(baseline)),
                      Standing(history, HistoryAdmitted(history)),
                      Standing(program, ProgramAdmitted(program))}
    IN  IF "refused" \in standings THEN "refused"
        ELSE IF "admitted" \in standings \/ ControllerAdmitted(controller) THEN "admitted"
        ELSE "none"

(* What Docker answers: whether it does at all, a container of the         *)
(* instance that was created and never started, and the smoke container,   *)
(* which is started when an image is named for it.                         *)
HostOf(docker, leftover, image, smoke, removed) ==
    [docker |-> docker, leftover |-> leftover, image |-> image, smoke |-> smoke,
     removed |-> removed]
LeftOver(containers) ==
    \E c \in containers : c.owner = "this" /\ c.status = "created"
(* A run that timed out is removed by name, and once more when it shows up *)
(* late; the preflight blocks either way.                                  *)
SmokeBlocks(host) ==
    host.image # "none" /\ ~(host.image = "present" /\ host.smoke = "runs" /\ host.removed)
PreflightBlocks(host) ==
    host.docker # "answers" \/ LeftOver(host.leftover) \/ SmokeBlocks(host)

===============================================================================
