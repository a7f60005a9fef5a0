-------------------------- MODULE RecoveryBenchmark --------------------------
(***************************************************************************)
(* The recovery-only benchmark (run_recovery_only_benchmark.py): one       *)
(* process brings every instance into a failed state, tries the programs   *)
(* of RecoveryPool on it one after the other, and writes the file with the *)
(* rows after every instance.  A run that was interrupted is started       *)
(* again, with or without --resume and with the same or with other         *)
(* options.                                                                *)
(*                                                                         *)
(* A workspace has a file of each of four classes.  The content of a file  *)
(* is who wrote it last: the commit, the oracle patch, the part of the     *)
(* oracle patch that a seed applies, or the trial with that number.        *)
(***************************************************************************)
EXTENDS RecoveryPool, FiniteSets

CONSTANT
    Batches      \* the instances, the commands, the edits and the number of starts

Committed == 0
Oracle    == -1
Partial   == -2
(* The suspect files, other sources, tests, and what checkpoints leave out *)
(* (data, outputs, ... although git tracks them).                          *)
Classes == {"suspect", "source", "test", "kept"}
Labels  == {"initial", "post_locate", "post_patch", "post_fault"}
Clean   == [c \in Classes |-> Committed]

(* What a manifest says of an instance, and what one start is told.        *)
InstanceRecord == [id : STRING,
    manifest : {"ok", "manifest_not_found", "invalid_manifest_targets", "no_patch_paths"},
    wrong : {"other", "patch", "gone", ""}, regions : STRING]
Command == [family : Families, profile : RunProfiles, version : Versions,
            diagnosis : STRING, selector : STRING, limit : Nat, filter : SUBSET STRING,
            resume : BOOLEAN, faultOnly : BOOLEAN]
Outcome(ids) == [id : ids, legal : BOOLEAN, guarded : BOOLEAN, cost : 1..2]
Batch == [instances : Seq(InstanceRecord), commands : (SUBSET Command) \ {{}},
          edits : SUBSET SUBSET Classes, starts : Nat]
ASSUME BatchesAssumption == Batches \subseteq Batch

VARIABLES
    batch,       \* what is chosen of Batches
    cmd,         \* the options of this start
    pos,         \* the instances that are left
    pc,
    rows,        \* the rows in memory, by key
    file,        \* the rows in the file
    processed,   \* the keys --resume skips
    starts,
    work,        \* the files, as Clean
    index,       \* what is staged: .git is no part of a checkpoint
    points,      \* the suspect files at each checkpoint
    programs,    \* the programs that are left
    outcomes     \* how the trials so far were judged

vars == <<batch, cmd, pos, pc, rows, file, processed, starts, work, index, points,
          programs, outcomes>>
workspace == <<work, index, points, programs, outcomes>>

-----------------------------------------------------------------------------
(* _row_identity: neither the limit nor the filter nor --fault-only is in. *)
Key(instance) == <<instance.id, cmd.family, cmd.profile, cmd.version, cmd.diagnosis, cmd.selector>>
Instance == Head(pos)

Terminal(row) == row \in {"success", "failure", "validated", "invalid_perturbation",
                          "manual_fault_spec_not_found", "manifest_not_found", "no_patch_paths"}
Upsert(row) == rows' = [k \in DOMAIN rows \cup {Key(Instance)} |->
                          IF k = Key(Instance) THEN row ELSE rows[k]]

Init == /\ batch \in Batches
        /\ cmd = CHOOSE c \in batch.commands : TRUE
        /\ pos = <<>>
        /\ pc = "stopped"
        /\ rows = <<>>
        /\ file = <<>>
        /\ processed = {}
        /\ starts = 0
        /\ work = Clean /\ index = Clean
        /\ points = <<>>
        /\ programs = <<>>
        /\ outcomes = <<>>

(* Faulty variant: the rows are not read, only their keys.                 *)
LoadedKeysOnly(c) == <<>>
(* main, up to the loop.  Only --resume reads the file.                    *)
Loaded(c) == IF c.resume THEN file ELSE <<>>
Start == /\ pc = "stopped"
         /\ starts < batch.starts
         /\ starts' = starts + 1
         /\ cmd' \in batch.commands
         /\ pos' = batch.instances
         /\ rows' = Loaded(cmd')
         /\ processed' = {k \in DOMAIN file : cmd'.resume /\ Terminal(file[k])}
         /\ pc' = "next"
         /\ UNCHANGED <<batch, file, workspace>>

Skip == /\ pc = "next" /\ pos # <<>>
        /\ cmd.resume /\ Key(Instance) \in processed
        /\ pos' = Tail(pos)
        /\ UNCHANGED <<batch, cmd, pc, rows, file, processed, starts, workspace>>

Goes == pc = "next" /\ pos # <<>> /\ ~(cmd.resume /\ Key(Instance) \in processed)

(* What is wrong with a manifest is written at once.                       *)
BadManifest == /\ Goes
               /\ Instance.manifest # "ok"
               /\ Upsert(Instance.manifest)
               /\ file' = rows'
               /\ pos' = Tail(pos)
               /\ UNCHANGED <<batch, cmd, pc, processed, starts, workspace>>

(* materialize_workspace is outside the try statement: see Die.            *)
Materialize == /\ Goes
               /\ Instance.manifest = "ok"
               /\ pc' = "build"
               /\ UNCHANGED <<batch, cmd, pos, rows, file, processed, starts, workspace>>

(* build_executor and _bootstrap_run_context.                              *)
Build == /\ pc = "build"
         /\ points' = [l \in {"initial"} |-> Committed]
         /\ pc' = "seed"
         /\ UNCHANGED <<batch, cmd, pos, rows, file, processed, starts, work, index,
                        programs, outcomes>>

-----------------------------------------------------------------------------
(* Faulty variant: an exception leaves no row.                             *)
ExceptSilently(kind) == /\ pc' = "close"
                        /\ UNCHANGED <<batch, cmd, pos, rows, file, processed, starts, workspace>>
(* The except clause.  What cannot be a failed state has a row of its own  *)
(* kind, see _classify_error.                                              *)
Except(kind) == /\ Upsert(kind)
                /\ pc' = "close"
                /\ UNCHANGED <<batch, cmd, pos, file, processed, starts, workspace>>

(* The fault of each family, or why the instance cannot have it.           *)
SeedFails(instance) ==
    CASE cmd.family = "localization_pollution" /\ instance.wrong = "" -> "manual_fault_spec_not_found"
      [] cmd.family = "localization_pollution" /\ instance.wrong \in {"patch", "gone"} -> "invalid_perturbation"
      [] cmd.family = "partial_patch" /\ instance.regions # "some" -> "invalid_perturbation"
      [] OTHER -> ""
(* What each seeding leaves in the suspect files, at post_patch and in the *)
(* failed state: a solved anchor and a fault injected behind it, an anchor *)
(* that claims the patch and is the committed tree, one whose localization *)
(* points elsewhere, or some regions of the patch.                         *)
HealthyAnchor == Oracle
InjectedFault == Committed
Contaminated == Committed
PollutedTarget == Committed
Seeded == CASE cmd.family = "post_patch_regression" -> <<HealthyAnchor, InjectedFault>>
            [] cmd.family = "contaminated_post_patch" -> <<Contaminated, Contaminated>>
            [] cmd.family = "localization_pollution" -> <<PollutedTarget, PollutedTarget>>
            [] cmd.family = "partial_patch" -> <<Partial, Partial>>
Seed == /\ pc = "seed"
        /\ IF SeedFails(Instance) # "" THEN Except(SeedFails(Instance))
           ELSE /\ points' = [l \in Labels |-> CASE l = "post_patch" -> Seeded[1]
                                                [] l = "post_fault" -> Seeded[2]
                                                [] OTHER -> Committed]
                /\ work' = [work EXCEPT !["suspect"] = Seeded[2]]
                /\ pc' = "verify"
                /\ UNCHANGED <<batch, cmd, pos, rows, file, processed, starts, index,
                               programs, outcomes>>

(* A failed state fails its test.  A validation of faults ends here and    *)
(* writes its row before the container is closed.                          *)
Verify == /\ pc = "verify"
          /\ \/ Except("invalid_perturbation")
             \/ /\ ~cmd.faultOnly
                /\ pc' = "choose"
                /\ UNCHANGED <<batch, cmd, pos, rows, file, processed, starts, workspace>>
             \/ /\ cmd.faultOnly
                /\ Upsert("validated")
                /\ file' = rows'
                /\ pc' = "closeOnly"
                /\ UNCHANGED <<batch, cmd, pos, processed, starts, workspace>>

(* The pool, _filter_programs_by_id and the limit.                         *)
Choose == /\ pc = "choose"
          /\ \E pool \in Pools(cmd.version, cmd.profile, cmd.family, cmd.diagnosis),
                recommended \in IF cmd.version = "atomic_actions_v1" THEN Names \cup {""} ELSE {""} :
                LET kept == IF cmd.filter = {} THEN pool
                            ELSE SelectSeq(pool, LAMBDA p : p.id \in cmd.filter)
                IN  /\ cmd.filter \subseteq {p.id : p \in ToSet(kept)}
                    /\ programs' \in Limited(kept, cmd.selector, cmd.limit, recommended)
          /\ pc' = "trial"
          /\ UNCHANGED <<batch, cmd, pos, rows, file, processed, starts, work, index,
                         points, outcomes>>

Raise == /\ pc \in {"build", "seed", "verify", "choose", "trial", "judge"}
         /\ Except("runtime_error")

-----------------------------------------------------------------------------
(* CheckpointStore.restore.                                                *)
Restore(files, label) ==
    [c \in Classes |-> CASE c = "kept" -> files[c]
                         [] c = "suspect" -> points[label]
                         [] OTHER -> Committed]
(* Faulty variant: the files stay as the trial before has left them.       *)
BaseWhereItIs(p) == IF p.to = "" THEN work ELSE Restore(work, p.to)
(* Every trial starts in the failed state, with the facts, the outputs,    *)
(* the graph, the checkpoints and the agents as they were.  A checkpoint   *)
(* that is not there is the last one that is (_exec_rollback): the failed  *)
(* state again.                                                            *)
Base(p) == LET failed == Restore(work, "post_fault")
           IN  IF p.to \in DOMAIN points THEN Restore(failed, p.to) ELSE failed

OnlyRestores(p) == p.scope \in {"", "restore_only"}
ThisTrial == Len(outcomes) + 1

(* _evaluate_programs, up to the end of the program.  An agent may change  *)
(* files of any class and stage some of them; a program made of semantic   *)
(* actions may go back once more afterwards.                               *)
Try == /\ pc = "trial" /\ programs # <<>>
       /\ LET p == Head(programs)
          IN  \E edits \in IF OnlyRestores(p) THEN {{}} ELSE batch.edits,
                 staged \in SUBSET UNION batch.edits, undone \in BOOLEAN :
                /\ staged \subseteq edits
                /\ undone => p.unit # "legacy"
                /\ work' = [c \in Classes |->
                              IF c \in edits /\ (~undone \/ c = "kept") THEN ThisTrial ELSE Base(p)[c]]
                /\ index' = [c \in Classes |-> IF c \in staged THEN ThisTrial ELSE index[c]]
       /\ pc' = "judge"
       /\ UNCHANGED <<batch, cmd, pos, rows, file, processed, starts, points,
                      programs, outcomes>>

(* _patch_legality_diagnostic: git diff and git diff --cached.             *)
Changed == {c \in Classes : work[c] # index[c] \/ index[c] # Committed}
(* _is_legal_recovery_success, of an oracle that passed.                   *)
Legal(changed) ==
    changed = {} \/ changed \cap {"suspect", "source"} # {}
(* _success_legitimacy_tier and _guarded_recover_success_from_legitimacy.  *)
Tier(changed) ==
    CASE changed = {} -> "checkpoint_or_no_diff_success"
      [] changed \cap {"suspect", "source"} = {} ->
            IF "test" \in changed THEN "weak_tests_only_success" ELSE "weak_wrong_target_success"
      [] "suspect" \notin changed -> "weak_off_suspect_source_success"
      [] "test" \in changed -> "mixed_source_test_success"
      [] OTHER -> "strong_source_success"
Guarded(changed) == Tier(changed) = "strong_source_success"

(* The rest of _evaluate_programs for one program.  The test and the       *)
(* oracle answer anything; an answer that comes from the command and not   *)
(* from the patch (_is_oracle_infra_error) is no legal success.            *)
Judge == /\ pc = "judge"
         /\ \E passed \in BOOLEAN, infra \in BOOLEAN, cost \in 1..2 :
               outcomes' = Append(outcomes,
                   [id |-> Head(programs).id,
                    legal |-> passed /\ ~infra /\ Legal(Changed),
                    guarded |-> passed /\ Guarded(Changed),
                    cost |-> cost])
         /\ programs' = Tail(programs)
         /\ pc' = "trial"
         /\ UNCHANGED <<batch, cmd, pos, rows, file, processed, starts, work, index,
                        points>>

(* Faulty variant: the cheapest of all.                                    *)
BestByCost(tried) ==
    CHOOSE n \in DOMAIN tried : \A k \in DOMAIN tried : tried[n].cost <= tried[k].cost
(* The outcomes are looked up by the id of the program: of several with    *)
(* one id the last one stands.                                             *)
Standing(tried) ==
    {n \in DOMAIN tried : \A k \in DOMAIN tried : k > n => tried[k].id # tried[n].id}
(* _best_program_for_pool: a success, and the cheapest of them.  Without a *)
(* success the cheapest outcome stands for the one of highest utility.     *)
Best(tried) ==
    LET good == {n \in Standing(tried) : tried[n].legal}
        from == IF good = {} THEN Standing(tried) ELSE good
    IN  CHOOSE n \in from : \A k \in from : tried[n].cost <= tried[k].cost

(* _summarize_case, and the failed state is put back.                      *)
Summarize == /\ pc = "trial" /\ programs = <<>>
             /\ IF outcomes = <<>> THEN Except("runtime_error")
                ELSE /\ Upsert(IF outcomes[Best(outcomes)].legal THEN "success" ELSE "failure")
                     /\ work' = Restore(work, "post_fault")
                     /\ pc' = "close"
                     /\ UNCHANGED <<batch, cmd, pos, file, processed, starts, index,
                                    points, programs, outcomes>>

-----------------------------------------------------------------------------
(* Nothing of an instance is used again: the next one, and the next start  *)
(* with the same one, make the workspace anew.                             *)
Forget == /\ work' = Clean /\ index' = Clean
          /\ points' = <<>> /\ programs' = <<>> /\ outcomes' = <<>>

(* The finally clause; after a validation of faults the row is written     *)
(* already.                                                                *)
Close == /\ pc \in {"close", "closeOnly"}
         /\ pc' = IF pc = "close" THEN "write" ELSE "next"
         /\ pos' = IF pc = "close" THEN pos ELSE Tail(pos)
         /\ IF pc = "close" THEN UNCHANGED workspace ELSE Forget
         /\ UNCHANGED <<batch, cmd, rows, file, processed, starts>>

(* _write_payload_atomic: a second file that takes the first one's name.   *)
Write == /\ pc = "write"
         /\ file' = rows
         /\ pos' = Tail(pos)
         /\ pc' = "next"
         /\ Forget
         /\ UNCHANGED <<batch, cmd, rows, processed, starts>>

Finish == /\ pc = "next" /\ pos = <<>>
          /\ file' = rows
          /\ pc' = "done"
          /\ UNCHANGED <<batch, cmd, pos, rows, processed, starts, workspace>>

(* The process ends where it is: a signal, or what is raised outside of    *)
(* the try statement (the workspace cannot be made, the container does not *)
(* close, the file cannot be written).  The container may stay.            *)
Die == /\ pc \notin {"stopped", "done"}
       /\ pc' = "stopped"
       /\ Forget
       /\ UNCHANGED <<batch, cmd, pos, rows, file, processed, starts>>

Run == \/ Skip \/ BadManifest \/ Materialize \/ Build \/ Seed \/ Verify \/ Choose
       \/ Try \/ Judge \/ Summarize \/ Close \/ Write \/ Finish
Next == Start \/ Run \/ Raise \/ Die

Spec == Init /\ [][Next]_vars /\ WF_vars(Run \/ Raise)

-----------------------------------------------------------------------------
(* What --resume finds finished stays in the file as it is, through every  *)
(* instance of this start, failing or not, and through the end of the      *)
(* process anywhere: main, _load_existing_rows, _upsert_row.               *)
RowsSurvive ==
    [][starts > 0 /\ cmd.resume =>
         \A k \in DOMAIN file : Terminal(file[k]) => k \in DOMAIN file' /\ file'[k] = file[k]]_vars

(* A start that is not cut off ends, and then every instance of the batch  *)
(* has its row in the file: main.                                          *)
RunEnds == <>[](\/ pc = "stopped"
                \/ /\ pc = "done"
                   /\ \A n \in DOMAIN batch.instances : Key(batch.instances[n]) \in DOMAIN file)

(* A row that says success says it of a trial that passed the oracle       *)
(* legally.  A row that says failure hides such a trial only behind a      *)
(* later one of the same id (so of each id the last trial did not pass):   *)
(* where the ids of the pool differ, it hides none, whatever was tried     *)
(* before or after: _best_program_for_pool, _summarize_case.               *)
SuccessIsATrial ==
    pc = "write" /\ Key(Instance) \in DOMAIN rows =>
        /\ rows[Key(Instance)] = "success" => \E n \in DOMAIN outcomes : outcomes[n].legal
        /\ rows[Key(Instance)] = "failure" =>
              \A n \in DOMAIN outcomes : outcomes[n].legal =>
                 \E k \in DOMAIN outcomes : k > n /\ outcomes[k].id = outcomes[n].id

(* When a trial is judged, what an earlier trial did to the files is gone, *)
(* in all but what checkpoints leave out: _evaluate_programs restores the  *)
(* failed state before each of them.                                       *)
TrialsAreOwn ==
    pc = "judge" => \A c \in Classes \ {"kept"} : work[c] \in {Committed, Oracle, Partial, ThisTrial}

=============================================================================
