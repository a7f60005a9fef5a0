----------------------- MODULE RecoveryBenchmarkProofs -----------------------
(***************************************************************************)
(* What the recovery-only benchmark promises of its rows, its verdicts and *)
(* its trials, for every batch of instances, all commands and every number *)
(* of starts.                                                              *)
(***************************************************************************)
EXTENDS RecoveryBenchmark, SequenceTheorems, TLAPS

Phases == {"stopped", "next", "build", "seed", "verify", "choose", "trial", "judge",
           "close", "closeOnly", "write", "done"}
(* An instance is worked on, and its row is not made yet.                  *)
Working == {"build", "seed", "verify", "choose", "trial", "judge"}
(* Its row is made.                                                        *)
Settled == {"close", "closeOnly", "write"}
Active == pc \notin {"stopped", "done"}
Contents == {Committed, Oracle, Partial}

(* The type invariant.  What is left of the programs is not said, and what *)
(* ids the judged ones have is left open.                                  *)
TypeOK == /\ batch \in Batch
          /\ cmd \in Command
          /\ pos \in Seq(InstanceRecord)
          /\ pc \in Phases
          /\ \E ids : outcomes \in Seq(Outcome(ids))
          /\ pc \in Working \cup Settled => pos # <<>>

(* The checkpoints hold the commit, the oracle patch or a part of it, and  *)
(* from the seed on the failed state is one of them.                       *)
PointsOK == /\ \A l \in DOMAIN points : points[l] \in Contents
            /\ pc \in {"verify", "choose", "trial", "judge"} => "post_fault" \in DOMAIN points

-----------------------------------------------------------------------------
(* The named parts of Next that change what the invariants are about.      *)
(* A step that leaves the types to the lemmas below.                       *)
LEMMA TailType ==
    ASSUME pos \in Seq(InstanceRecord), pos # <<>>
    PROVE  /\ Instance \in InstanceRecord
           /\ Tail(pos) \in Seq(InstanceRecord)
           /\ Len(Tail(pos)) = Len(pos) - 1
           /\ \A n \in 1..Len(pos) - 1 : Tail(pos)[n] = pos[n + 1]
           /\ Instance = pos[1]
  BY HeadTailProperties, EmptySeq, LenProperties DEF Instance

LEMMA ExceptType ==
    ASSUME NEW kind, Except(kind)
    PROVE  pc' = "close" /\ UNCHANGED <<batch, cmd, pos, file, processed, starts, workspace>>
  BY DEF Except

LEMMA InitType ==
    Init => TypeOK /\ PointsOK
  <1> SUFFICES ASSUME Init PROVE TypeOK /\ PointsOK
    OBVIOUS
  <1>1. batch \in Batch /\ batch.commands # {} /\ batch.commands \subseteq Command
    BY BatchesAssumption DEF Init, Batch
  <1>2. cmd \in Command
    BY <1>1 DEF Init
  <1>3. TypeOK
    BY <1>1, <1>2 DEF Init, TypeOK, Phases, Working, Settled
  <1>4. PointsOK
    BY DEF Init, PointsOK
  <1> QED
    BY <1>3, <1>4

LEMMA SeededContents ==
    ASSUME cmd \in Command
    PROVE  Seeded[1] \in Contents /\ Seeded[2] \in Contents
  BY DEF Seeded, Command, Families, Contents, HealthyAnchor, InjectedFault, Contaminated,
         PollutedTarget, Committed, Oracle, Partial

LEMMA NextType ==
    ASSUME TypeOK, PointsOK, [Next]_vars
    PROVE  TypeOK' /\ PointsOK'
  <1> USE DEF TypeOK, PointsOK, Phases, Working, Settled
  <1>1. CASE Start
    <2>1. batch.instances \in Seq(InstanceRecord) /\ batch.commands \subseteq Command
      BY DEF Batch
    <2> QED
      BY <1>1, <2>1 DEF Start, workspace
  <1>2. CASE Skip
    BY <1>2, TailType DEF Skip, workspace
  <1>3. CASE BadManifest
    BY <1>3, TailType DEF BadManifest, Goes, workspace
  <1>4. CASE Materialize
    BY <1>4 DEF Materialize, Goes, workspace
  <1>5. CASE Build
    BY <1>5 DEF Build, Contents
  <1>6. CASE Seed
    <2>1. CASE SeedFails(Instance) # ""
      BY <1>6, <2>1, ExceptType DEF Seed, workspace
    <2>2. CASE SeedFails(Instance) = ""
      <3>1. points' = [l \in Labels |-> CASE l = "post_patch" -> Seeded[1]
                                          [] l = "post_fault" -> Seeded[2]
                                          [] OTHER -> Committed]
        BY <1>6, <2>2 DEF Seed
      <3>2. Committed \in Contents
        BY DEF Contents
      <3>3. \A l \in DOMAIN points' : points'[l] \in Contents
        BY <3>1, <3>2, SeededContents
      <3>4. "post_fault" \in DOMAIN points'
        BY <3>1 DEF Labels
      <3> QED
        BY <1>6, <2>2, <3>3, <3>4 DEF Seed
    <2> QED
      BY <2>1, <2>2
  <1>7. CASE Verify
    BY <1>7, ExceptType DEF Verify, workspace
  <1>8. CASE Choose
    BY <1>8 DEF Choose
  <1>9. CASE Try
    BY <1>9 DEF Try
  <1>10. CASE Judge
    <2> DEFINE id == Head(programs).id
    <2>1. PICK passed \in BOOLEAN, infra \in BOOLEAN, cost \in 1..2 :
            outcomes' = Append(outcomes, [id |-> id,
                                          legal |-> passed /\ ~infra /\ Legal(Changed),
                                          guarded |-> passed /\ Guarded(Changed),
                                          cost |-> cost])
      BY <1>10 DEF Judge
    <2>2. (passed /\ ~infra /\ Legal(Changed)) \in BOOLEAN /\ (passed /\ Guarded(Changed)) \in BOOLEAN
      BY DEF Legal, Guarded
    <2>3. PICK ids : outcomes \in Seq(Outcome(ids))
      OBVIOUS
    <2> DEFINE more == ids \cup {id}
    <2>4. [id |-> id, legal |-> passed /\ ~infra /\ Legal(Changed),
           guarded |-> passed /\ Guarded(Changed), cost |-> cost] \in Outcome(more)
      BY <2>2 DEF Outcome
    <2>5. outcomes \in Seq(Outcome(more))
      <3>1. Outcome(ids) \subseteq Outcome(more)
        BY DEF Outcome
      <3> QED
        BY <2>3, <3>1, SeqMonotonic
    <2>6. outcomes' \in Seq(Outcome(more))
      <3> HIDE DEF id, more
      <3> QED
        BY <2>1, <2>4, <2>5, AppendProperties
    <2> QED
      BY <1>10, <2>6 DEF Judge
  <1>11. CASE Summarize
    BY <1>11, ExceptType DEF Summarize, workspace
  <1>12. CASE Close
    <2>1. CASE pc = "close"
      BY <1>12, <2>1 DEF Close, workspace
    <2>2. CASE pc = "closeOnly"
      BY <1>12, <2>2, TailType, EmptySeq DEF Close, Forget
    <2> QED
      BY <1>12, <2>1, <2>2 DEF Close
  <1>13. CASE Write
    BY <1>13, TailType DEF Write, Forget
  <1>14. CASE Finish
    BY <1>14 DEF Finish, workspace
  <1>15. CASE Raise
    BY <1>15, ExceptType DEF Raise, workspace
  <1>16. CASE Die
    BY <1>16 DEF Die, Forget
  <1>17. CASE UNCHANGED vars
    BY <1>17 DEF vars
  <1> QED
    BY <1>1, <1>2, <1>3, <1>4, <1>5, <1>6, <1>7, <1>8, <1>9, <1>10, <1>11, <1>12, <1>13,
       <1>14, <1>15, <1>16, <1>17 DEF Next, Run

THEOREM TypeCorrect == Spec => [](TypeOK /\ PointsOK)
  <1>1. Init => TypeOK /\ PointsOK
    BY InitType
  <1>2. TypeOK /\ PointsOK /\ [Next]_vars => (TypeOK /\ PointsOK)'
    BY NextType
  <1> QED
    BY <1>1, <1>2, PTL DEF Spec

-----------------------------------------------------------------------------
(* Trials.                                                                 *)

(* When a trial is judged, every file that a checkpoint holds is of this   *)
(* trial or as the commit, the seed or a checkpoint has it.                *)
LEMMA TryLeavesItsOwn ==
    ASSUME TypeOK, PointsOK, Try
    PROVE  TrialsAreOwn'
  <1> DEFINE p == Head(programs)
  <1>1. PICK edits \in (IF OnlyRestores(p) THEN {{}} ELSE batch.edits), undone \in BOOLEAN :
          work' = [c \in Classes |->
                     IF c \in edits /\ (~undone \/ c = "kept") THEN ThisTrial ELSE Base(p)[c]]
    BY DEF Try
  <1>2. ASSUME NEW c \in Classes \ {"kept"}
        PROVE  Base(p)[c] \in Contents
    <2>1. points["post_fault"] \in Contents
      BY DEF PointsOK, Try
    <2>2. ASSUME NEW files, NEW label \in DOMAIN points
          PROVE  Restore(files, label)[c] \in Contents
      BY DEF Restore, PointsOK, Contents
    <2> QED
      BY <2>1, <2>2 DEF Base, PointsOK, Try
  <1>3. ThisTrial' = ThisTrial
    BY DEF Try, ThisTrial
  <1> QED
    BY <1>1, <1>2, <1>3 DEF TrialsAreOwn, Contents

(* A trial is judged by what it did itself: the failed state is put back   *)
(* before each of them, and a rollback only brings other checkpoints.      *)
THEOREM OwnTrials == Spec => []TrialsAreOwn
  <1>1. Init => TrialsAreOwn
    BY DEF Init, TrialsAreOwn
  <1>2. TypeOK /\ PointsOK /\ TrialsAreOwn /\ [Next]_vars => TrialsAreOwn'
    <2> SUFFICES ASSUME TypeOK, PointsOK, TrialsAreOwn, [Next]_vars, pc' = "judge"
                 PROVE  TrialsAreOwn'
      BY DEF TrialsAreOwn
    <2>1. CASE Try
      BY <2>1, TryLeavesItsOwn
    <2>2. CASE UNCHANGED vars
      BY <2>2 DEF vars, TrialsAreOwn, ThisTrial
    <2>3. CASE ~Try /\ ~UNCHANGED vars
      BY <2>3 DEF Next, Run, Start, Skip, BadManifest, Materialize, Goes, Build, Seed, Except,
            Verify, Choose, Judge, Summarize, Close, Write, Finish, Raise, Die
    <2> QED
      BY <2>1, <2>2, <2>3
  <1> QED
    BY <1>1, <1>2, TypeCorrect, PTL DEF Spec

-----------------------------------------------------------------------------
(* Verdicts.                                                               *)

(* What stands for the case is a success if a success stands, and what     *)
(* does not stand has a later outcome of its id.                           *)
LEMMA BestIsGood ==
    ASSUME NEW ids, NEW tried \in Seq(Outcome(ids)), tried # <<>>
    PROVE  /\ Best(tried) \in DOMAIN tried
           /\ \A n \in DOMAIN tried :
                 tried[n].legal /\ ~tried[Best(tried)].legal =>
                    \E k \in DOMAIN tried : k > n /\ tried[k].id = tried[n].id
  <1> DEFINE good == {n \in Standing(tried) : tried[n].legal}
             from == IF good = {} THEN Standing(tried) ELSE good
  <1>1. Len(tried) \in Standing(tried)
    BY EmptySeq, LenProperties DEF Standing
  <1>2. from # {} /\ from \subseteq Standing(tried) /\ Standing(tried) \subseteq DOMAIN tried
    BY <1>1 DEF Standing
  <1>3. \A n \in DOMAIN tried : tried[n].cost \in 1..2
    <2>1. \A n \in DOMAIN tried : tried[n] \in Outcome(ids)
      BY ElementOfSeq, LenProperties
    <2> QED
      BY <2>1 DEF Outcome
  <1>4. \E n \in from : \A k \in from : tried[n].cost <= tried[k].cost
    <2> HIDE DEF from
    <2>1. \A n \in from : tried[n].cost \in 1..2
      BY <1>2, <1>3
    <2>2. CASE \E n \in from : tried[n].cost = 1
      BY <2>1, <2>2
    <2>3. CASE \A n \in from : tried[n].cost # 1
      BY <1>2, <2>1, <2>3
    <2> QED
      BY <2>2, <2>3
  <1>5. Best(tried) \in from
    BY <1>4 DEF Best
  <1>6. ASSUME NEW n \in DOMAIN tried, tried[n].legal, ~tried[Best(tried)].legal
        PROVE  \E k \in DOMAIN tried : k > n /\ tried[k].id = tried[n].id
    <2>1. good = {}
      BY <1>5, <1>6
    <2> QED
      BY <1>6, <2>1 DEF Standing
  <1> QED
    BY <1>2, <1>5, <1>6

(* The verdict of the row, from the moment it is made.                     *)
Verdict ==
    pc \in {"close", "write"} =>
        /\ Key(Instance) \in DOMAIN rows
        /\ rows[Key(Instance)] = "success" => \E n \in DOMAIN outcomes : outcomes[n].legal
        /\ rows[Key(Instance)] = "failure" =>
              \A n \in DOMAIN outcomes : outcomes[n].legal =>
                 \E k \in DOMAIN outcomes : k > n /\ outcomes[k].id = outcomes[n].id

LEMMA ExceptVerdict ==
    ASSUME NEW kind, kind \notin {"success", "failure"}, Except(kind)
    PROVE  Verdict'
  <1>1. Key(Instance)' = Key(Instance)
    BY DEF Except, Key, Instance
  <1> QED
    BY <1>1 DEF Except, Upsert, Verdict

LEMMA SummarizeVerdict ==
    ASSUME TypeOK, Summarize
    PROVE  Verdict'
  <1>1. CASE outcomes = <<>>
    BY <1>1, ExceptVerdict DEF Summarize
  <1>2. CASE outcomes # <<>>
    <2>1. Key(Instance)' = Key(Instance) /\ outcomes' = outcomes
      BY <1>2 DEF Summarize, Key, Instance
    <2>2. rows' = [k \in DOMAIN rows \cup {Key(Instance)} |->
                     IF k = Key(Instance)
                     THEN (IF outcomes[Best(outcomes)].legal THEN "success" ELSE "failure")
                     ELSE rows[k]]
      BY <1>2 DEF Summarize, Upsert
    <2>3. \E ids : outcomes \in Seq(Outcome(ids))
      BY DEF TypeOK
    <2> QED
      BY <1>2, <2>1, <2>2, <2>3, BestIsGood DEF Verdict
  <1> QED
    BY <1>1, <1>2

LEMMA VerdictStep ==
    ASSUME TypeOK, Verdict, [Next]_vars
    PROVE  Verdict'
  <1>1. CASE Summarize
    BY <1>1, SummarizeVerdict
  <1>2. CASE Seed
    <2>1. SeedFails(Instance) \notin {"success", "failure"}
      BY DEF SeedFails
    <2>2. CASE SeedFails(Instance) # ""
      BY <1>2, <2>1, <2>2, ExceptVerdict DEF Seed
    <2>3. CASE SeedFails(Instance) = ""
      BY <1>2, <2>3 DEF Seed, Verdict
    <2> QED
      BY <2>2, <2>3
  <1>3. CASE Verify
    BY <1>3, ExceptVerdict DEF Verify, Verdict
  <1>4. CASE Raise
    BY <1>4, ExceptVerdict DEF Raise
  <1>5. CASE Close
    BY <1>5 DEF Close, Verdict, Key, Instance, workspace
  <1>6. CASE UNCHANGED vars
    BY <1>6 DEF vars, Verdict, Key, Instance
  <1>7. CASE Start \/ Skip \/ BadManifest \/ Materialize \/ Build \/ Choose \/ Try \/ Judge
             \/ Write \/ Finish \/ Die
    BY <1>7 DEF Start, Skip, BadManifest, Materialize, Goes, Build, Choose, Try, Judge, Write,
          Finish, Die, Verdict
  <1> QED
    BY <1>1, <1>2, <1>3, <1>4, <1>5, <1>6, <1>7 DEF Next, Run

(* A row says success only of a trial that passed legally, and it says     *)
(* failure in spite of one only where a later program has its id: the      *)
(* cheapest legal success that stands stands for the case, and what an     *)
(* exception writes is neither of the two words.                           *)
THEOREM HonestVerdicts == Spec => []SuccessIsATrial
  <1>1. Init => Verdict
    BY DEF Init, Verdict
  <1>2. TypeOK /\ Verdict /\ [Next]_vars => Verdict'
    BY VerdictStep
  <1>3. Verdict => SuccessIsATrial
    BY DEF Verdict, SuccessIsATrial
  <1> QED
    BY <1>1, <1>2, <1>3, TypeCorrect, PTL DEF Spec

-----------------------------------------------------------------------------
(* Rows.                                                                   *)

(* What --resume found finished is in memory and in the file, the same.    *)
Found == Active /\ cmd.resume =>
            \A k \in processed : k \in DOMAIN rows /\ k \in DOMAIN file /\ rows[k] = file[k]
(* What is worked on was not found finished.                               *)
Open == pc \in Working /\ cmd.resume => Key(Instance) \notin processed

(* A row is made of what is worked on, or of a manifest that is not        *)
(* skipped; it goes to the file at once or later.                          *)
NewRow == /\ pos # <<>>
          /\ pc \in Working \/ Goes
          /\ \/ pc' \in Settled /\ pos' = pos
             \/ pc' = "next" /\ pos' = Tail(pos)
          /\ \E row : Upsert(row)
          /\ file' \in {file, rows'}
          /\ UNCHANGED <<batch, cmd, processed, starts>>
(* The rows go to the file as they are.                                    *)
Saved == /\ \/ pc = "next" /\ pos = <<>> /\ pc' = "done" /\ pos' = pos
            \/ pc = "write" /\ pc' = "next" /\ pos' = Tail(pos)
         /\ file' = rows
         /\ UNCHANGED <<batch, cmd, rows, processed, starts>>
(* Everything else.                                                        *)
Passed == /\ \/ pos' = pos /\ pc' \in {pc, "stopped"}
             \/ pos' = pos /\ pc \in Working /\ pc' \in Working
             \/ pos' = pos /\ Goes /\ pc' = "build"
             \/ pos' = pos /\ pc = "close" /\ pc' = "write"
             \/ pos' = Tail(pos) /\ pc = "closeOnly" /\ pc' = "next"
             \/ Skip
          /\ UNCHANGED <<batch, cmd, rows, file, processed, starts>>

(* Every step but a start is one of the three.                             *)
LEMMA RowsStep ==
    ASSUME TypeOK, [Next]_vars, ~Start
    PROVE  NewRow \/ Saved \/ Passed
  <1> USE DEF Working, Settled
  <1>1. CASE Skip
    BY <1>1 DEF Skip, Passed
  <1>2. CASE BadManifest
    BY <1>2 DEF BadManifest, NewRow, Goes
  <1>3. CASE Materialize
    BY <1>3 DEF Materialize, Passed
  <1>4. CASE Build \/ Choose \/ Try \/ Judge
    BY <1>4 DEF Build, Choose, Try, Judge, Passed
  <1>5. ASSUME NEW kind, Except(kind), pc \in Working
        PROVE  NewRow
    BY <1>5 DEF Except, NewRow, TypeOK
  <1>6. CASE Seed
    <2>1. CASE SeedFails(Instance) # ""
      BY <1>5, <1>6, <2>1 DEF Seed
    <2>2. CASE SeedFails(Instance) = ""
      BY <1>6, <2>2 DEF Seed, Passed
    <2> QED
      BY <2>1, <2>2
  <1>7. CASE Verify
    <2>1. CASE Except("invalid_perturbation")
      BY <1>5, <1>7, <2>1 DEF Verify
    <2>2. CASE pc' = "choose"
      BY <1>7, <2>2 DEF Verify, Passed, Except
    <2>3. CASE pc' = "closeOnly"
      BY <1>7, <2>3 DEF Verify, NewRow, Except, TypeOK
    <2> QED
      BY <1>7, <2>1, <2>2, <2>3 DEF Verify
  <1>8. CASE Summarize
    <2>1. CASE outcomes = <<>>
      BY <1>5, <1>8, <2>1 DEF Summarize
    <2>2. CASE outcomes # <<>>
      BY <1>8, <2>2 DEF Summarize, NewRow, TypeOK
    <2> QED
      BY <2>1, <2>2
  <1>9. CASE Close
    BY <1>9 DEF Close, Passed
  <1>10. CASE Write \/ Finish
    BY <1>10 DEF Write, Finish, Saved
  <1>11. CASE Raise
    BY <1>5, <1>11 DEF Raise
  <1>12. CASE Die
    BY <1>12 DEF Die, Passed
  <1>13. CASE UNCHANGED vars
    BY <1>13 DEF vars, Passed
  <1> QED
    BY <1>1, <1>2, <1>3, <1>4, <1>6, <1>7, <1>8, <1>9, <1>10, <1>11, <1>12, <1>13
       DEF Next, Run

(* The key of the head changes with the head only.                         *)
LEMMA SameKey ==
    ASSUME UNCHANGED <<pos, cmd>>
    PROVE  Key(Instance)' = Key(Instance)
  BY DEF Key, Instance

LEMMA UpsertKeeps ==
    ASSUME NEW row, Upsert(row), NEW k \in DOMAIN rows, k # Key(Instance)
    PROVE  k \in DOMAIN rows' /\ rows'[k] = rows[k]
  BY DEF Upsert

LEMMA FoundStep ==
    ASSUME TypeOK, Found, Open, [Next]_vars
    PROVE  Found' /\ Open'
  <1> USE DEF Working, Settled, Active, Phases
  <1>1. CASE Start
    BY <1>1 DEF Start, Loaded, Found, Open
  <1>2. CASE NewRow
    <2>1. cmd.resume => Key(Instance) \notin processed
      BY <1>2 DEF NewRow, Open, Goes
    <2>2. PICK row : Upsert(row)
      BY <1>2 DEF NewRow
    <2>3. Active
      BY <1>2 DEF NewRow, Goes
    <2>4. Found'
      <3> SUFFICES ASSUME cmd.resume, NEW k \in processed
                   PROVE  k \in DOMAIN rows' /\ k \in DOMAIN file' /\ rows'[k] = file'[k]
        BY <1>2 DEF NewRow, Found
      <3>1. k \in DOMAIN rows /\ k \in DOMAIN file /\ rows[k] = file[k] /\ k # Key(Instance)
        BY <2>1, <2>3 DEF Found
      <3>2. k \in DOMAIN rows' /\ rows'[k] = rows[k]
        BY <2>2, <3>1, UpsertKeeps
      <3> QED
        BY <1>2, <3>1, <3>2 DEF NewRow
    <2>5. Open'
      BY <1>2 DEF NewRow, Open
    <2> QED
      BY <2>4, <2>5
  <1>3. CASE Saved
    BY <1>3 DEF Saved, Found, Open
  <1>4. CASE Passed
    <2>1. pc' \in Working /\ cmd.resume => Key(Instance)' \notin processed
      BY <1>4, SameKey DEF Passed, Open, Goes, Skip
    <2>2. Found'
      BY <1>4 DEF Passed, Found, Goes, Skip
    <2> QED
      BY <1>4, <2>1, <2>2 DEF Passed, Open
  <1> QED
    BY <1>1, <1>2, <1>3, <1>4, RowsStep

(* Whatever the batch, an instance that is named twice included: what a    *)
(* resumed run found finished when it was started is in the file after     *)
(* every step, as it was found.                                            *)
FoundRowsStay ==
    [][Active /\ cmd.resume =>
         \A k \in processed : k \in DOMAIN file /\ k \in DOMAIN file' /\ file'[k] = file[k]]_vars

THEOREM FoundStays == Spec => FoundRowsStay
  <1>1. Init => Found /\ Open
    BY DEF Init, Found, Open, Active, Working
  <1>2. TypeOK /\ Found /\ Open /\ [Next]_vars => (Found /\ Open)'
    BY FoundStep
  <1>3. TypeOK /\ Found /\ Open /\ [Next]_vars =>
           [Active /\ cmd.resume =>
              \A k \in processed : k \in DOMAIN file /\ k \in DOMAIN file' /\ file'[k] = file[k]]_vars
    <2> SUFFICES ASSUME TypeOK, Found, Open, Next, Active, cmd.resume, NEW k \in processed
                 PROVE  k \in DOMAIN file /\ k \in DOMAIN file' /\ file'[k] = file[k]
      OBVIOUS
    <2>1. k \in DOMAIN rows /\ k \in DOMAIN file /\ rows[k] = file[k]
      BY DEF Found
    <2>2. ~Start
      BY DEF Start, Active
    <2>3. CASE NewRow
      <3>1. k # Key(Instance)
        BY <2>3 DEF NewRow, Open, Goes
      <3>2. k \in DOMAIN rows' /\ rows'[k] = rows[k]
        BY <2>1, <2>3, <3>1, UpsertKeeps DEF NewRow
      <3> QED
        BY <2>1, <2>3, <3>2 DEF NewRow
    <2> QED
      BY <2>1, <2>2, <2>3, RowsStep DEF Saved, Passed
  <1> QED
    BY <1>1, <1>2, <1>3, TypeCorrect, PTL DEF Spec, FoundRowsStay

-----------------------------------------------------------------------------
(* No instance is named twice; what --instance-ids names twice is run      *)
(* again, and a second result may take the place of a finished one.        *)
Distinct(instances) ==
    \A m, n \in 1..Len(instances) : m # n => instances[m].id # instances[n].id

DistinctLeft == pc \in Phases \ {"stopped", "done"} => Distinct(pos)

(* Every finished row of the file is in memory.                            *)
Held == Active /\ cmd.resume =>
          \A k \in DOMAIN file : Terminal(file[k]) => k \in DOMAIN rows /\ rows[k] = file[k]
(* What is ahead has a finished row only if --resume found it.             *)
Ahead == Active /\ cmd.resume =>
           \A n \in 1..Len(pos) :
              /\ n > 1 \/ pc \notin Settled
              /\ Key(pos[n]) \in DOMAIN rows
              /\ Terminal(rows[Key(pos[n])])
              => Key(pos[n]) \in processed

RowsInv == DistinctLeft /\ Held /\ Ahead

LEMMA OtherKey ==
    ASSUME TypeOK, Distinct(pos), NEW n \in 2..Len(pos)
    PROVE  pos # <<>> /\ Key(pos[n]) # Key(Instance)
  <1>1. pos # <<>> /\ Instance = pos[1] /\ 1 \in 1..Len(pos) /\ n \in 1..Len(pos) /\ n # 1
    BY TailType, LenProperties, EmptySeq DEF TypeOK, Instance
  <1>2. pos[n].id # Instance.id
    BY <1>1 DEF Distinct
  <1> QED
    BY <1>1, <1>2 DEF Key

LEMMA DistinctTail ==
    ASSUME TypeOK, Distinct(pos), pos # <<>>
    PROVE  Distinct(Tail(pos))
  BY TailType, LenProperties DEF Distinct, TypeOK

(* The head has no finished row that a new one could take the place of.    *)
LEMMA HeadUnfinished ==
    ASSUME TypeOK, Open, RowsInv, NewRow, cmd.resume, NEW k \in DOMAIN file, Terminal(file[k])
    PROVE  k \in DOMAIN rows /\ rows[k] = file[k] /\ k # Key(Instance)
  <1>1. pc \in Working \/ Goes
    BY DEF NewRow
  <1>2. Active /\ pc \notin Settled
    BY <1>1 DEF Active, Goes, Working, Settled
  <1>3. k \in DOMAIN rows /\ rows[k] = file[k]
    BY <1>2 DEF RowsInv, Held
  <1>4. Key(Instance) \notin processed
    BY <1>1 DEF Open, Goes
  <1>5. Instance = pos[1] /\ 1 \in 1..Len(pos)
    BY TailType, LenProperties, EmptySeq DEF TypeOK, NewRow
  <1> QED
    BY <1>2, <1>3, <1>4, <1>5 DEF RowsInv, Ahead

LEMMA NewRowKeeps ==
    ASSUME TypeOK, Open, RowsInv, NewRow
    PROVE  RowsInv'
  <1>1. /\ Active /\ pc \notin Settled /\ pos # <<>> /\ Distinct(pos)
        /\ Active' /\ pc' \in Settled \cup {"next"} /\ cmd' = cmd /\ processed' = processed
    BY DEF NewRow, Active, Goes, Working, Settled, RowsInv, DistinctLeft, Phases
  <1>2. PICK row : Upsert(row)
    BY DEF NewRow
  <1>3. DistinctLeft'
    BY <1>1, DistinctTail DEF NewRow, DistinctLeft
  <1>4. Held'
    <2> SUFFICES ASSUME cmd.resume, NEW k \in DOMAIN file', Terminal(file'[k])
                 PROVE  k \in DOMAIN rows' /\ rows'[k] = file'[k]
      BY <1>1 DEF Held
    <2>1. CASE file' = rows'
      BY <2>1
    <2>2. CASE file' = file
      <3>1. k \in DOMAIN rows /\ rows[k] = file[k] /\ k # Key(Instance)
        BY <2>2, HeadUnfinished
      <3> QED
        BY <1>2, <2>2, <3>1, UpsertKeeps
    <2> QED
      BY <2>1, <2>2 DEF NewRow
  <1>5. ASSUME cmd.resume, NEW n \in 2..Len(pos),
               Key(pos[n]) \in DOMAIN rows', Terminal(rows'[Key(pos[n])])
        PROVE  Key(pos[n]) \in processed
    <2>1. Key(pos[n]) # Key(Instance)
      BY <1>1, OtherKey
    <2>2. Key(pos[n]) \in DOMAIN rows /\ rows'[Key(pos[n])] = rows[Key(pos[n])]
      BY <1>2, <1>5, <2>1 DEF Upsert
    <2>3. n \in 1..Len(pos) /\ n > 1
      BY LenProperties DEF TypeOK
    <2> QED
      BY <1>1, <1>5, <2>2, <2>3 DEF RowsInv, Ahead
  <1>6. Ahead'
    <2> SUFFICES ASSUME cmd.resume, NEW n \in 1..Len(pos'), n > 1 \/ pc' \notin Settled,
                        Key(pos[n])' \in DOMAIN rows', Terminal(rows'[Key(pos[n])'])
                 PROVE  Key(pos[n])' \in processed
      BY <1>1 DEF Ahead
    <2>1. Key(pos[n])' = Key(pos'[n])
      BY <1>1 DEF Key
    <2>2. CASE pos' = pos /\ pc' \in Settled
      <3>1. n \in 2..Len(pos)
        BY <2>2, LenProperties DEF TypeOK
      <3> QED
        BY <1>5, <2>1, <2>2, <3>1
    <2>3. CASE pos' = Tail(pos)
      <3>1. n + 1 \in 2..Len(pos) /\ pos'[n] = pos[n + 1]
        BY <1>1, <2>3, TailType, LenProperties DEF TypeOK
      <3> QED
        BY <1>5, <2>1, <3>1
    <2> QED
      BY <2>2, <2>3 DEF NewRow
  <1> QED
    BY <1>3, <1>4, <1>6 DEF RowsInv

LEMMA RowsInvStep ==
    ASSUME \A b \in Batches : Distinct(b.instances), batch \in Batches,
           TypeOK, Open, RowsInv, [Next]_vars
    PROVE  RowsInv'
  <1>1. CASE Start
    BY <1>1 DEF Start, Loaded, RowsInv, DistinctLeft, Held, Ahead, Active, Settled
  <1>2. CASE NewRow
    BY <1>2, NewRowKeeps
  <1>3. CASE Saved /\ pc' = "done"
    BY <1>3 DEF RowsInv, DistinctLeft, Held, Ahead, Active, Phases
  <1>4. ASSUME UNCHANGED <<cmd, rows, processed>>, Active, pos # <<>>, pos' = Tail(pos),
               pc' = "next"
        PROVE  DistinctLeft' /\ Ahead'
    <2>1. Distinct(pos)
      BY <1>4 DEF RowsInv, DistinctLeft, TypeOK, Active
    <2>2. DistinctLeft'
      BY <1>4, <2>1, DistinctTail DEF DistinctLeft
    <2>3. ASSUME cmd.resume, NEW n \in 1..Len(pos'),
                 Key(pos[n])' \in DOMAIN rows, Terminal(rows[Key(pos[n])'])
          PROVE  Key(pos[n])' \in processed
      <3>1. Key(pos[n])' = Key(pos'[n])
        BY <1>4 DEF Key
      <3>2. n + 1 \in 1..Len(pos) /\ n + 1 > 1 /\ pos'[n] = pos[n + 1]
        BY <1>4, TailType, LenProperties DEF TypeOK
      <3> QED
        BY <1>4, <2>3, <3>1, <3>2 DEF RowsInv, Ahead
    <2> QED
      BY <1>4, <2>2, <2>3 DEF Ahead
  <1>5. CASE Saved /\ pc' = "next"
    <2>1. Active /\ pos # <<>> /\ pos' = Tail(pos)
      BY <1>5 DEF Saved, Active, TypeOK, Settled
    <2>2. DistinctLeft' /\ Ahead'
      BY <1>4, <1>5, <2>1 DEF Saved
    <2>3. Held'
      BY <1>5 DEF Saved, Held
    <2> QED
      BY <2>2, <2>3 DEF RowsInv
  <1>6. CASE Passed
    <2>1. UNCHANGED <<cmd, rows, file, processed>>
      BY <1>6 DEF Passed
    <2>2. CASE pc' = "stopped"
      BY <2>2 DEF RowsInv, DistinctLeft, Held, Ahead, Active, Phases
    <2>3. CASE pos' = pos /\ pc' # "stopped" /\ ~(pc = "closeOnly" /\ pc' = "next")
      <3>1. Active' => Active
        BY <1>6, <2>3 DEF Passed, Active, Working, Goes, Skip
      <3>2. pc \in Settled => pc' \in Settled
        BY <1>6, <2>3 DEF Passed, Active, Working, Settled, Goes, Skip
      <3>3. DistinctLeft'
        BY <2>3, <3>1 DEF RowsInv, DistinctLeft, Active, TypeOK, Phases
      <3>4. Held'
        BY <2>1, <3>1 DEF RowsInv, Held
      <3>5. \A n : Key(pos[n])' = Key(pos[n])
        BY <2>1, <2>3 DEF Key
      <3>6. Ahead'
        BY <2>1, <2>3, <3>1, <3>2, <3>5 DEF RowsInv, Ahead
      <3> QED
        BY <3>3, <3>4, <3>6 DEF RowsInv
    <2>4. CASE pos' = Tail(pos) /\ pc' = "next" /\ Active /\ pos # <<>>
      <3>1. DistinctLeft' /\ Ahead'
        BY <1>4, <2>1, <2>4
      <3>2. Held'
        BY <2>1, <2>4 DEF RowsInv, Held
      <3> QED
        BY <3>1, <3>2 DEF RowsInv
    <2> QED
      BY <1>6, <2>2, <2>3, <2>4 DEF Passed, Skip, Active, Settled, TypeOK, Working
  <1> QED
    BY <1>1, <1>2, <1>3, <1>5, <1>6, RowsStep DEF Saved

(* Where no instance is named twice, no finished row of the file is ever   *)
(* replaced or lost, through every instance of a resumed run, failing or   *)
(* not, and through the end of the process anywhere.                       *)
THEOREM FinishedRowsSurvive ==
    ASSUME \A b \in Batches : Distinct(b.instances)
    PROVE  Spec => RowsSurvive
  <1> DEFINE IInv == batch \in Batches /\ Open /\ RowsInv
  <1>1. Init => IInv
    BY DEF Init, Open, RowsInv, DistinctLeft, Held, Ahead, Active, Working
  <1>2. TypeOK /\ Found /\ IInv /\ [Next]_vars => IInv'
    <2> SUFFICES ASSUME TypeOK, Found, IInv, [Next]_vars
                 PROVE  IInv'
      OBVIOUS
    <2>1. batch' = batch
      BY RowsStep DEF Start, NewRow, Saved, Passed
    <2> QED
      BY <2>1, FoundStep, RowsInvStep
  <1>3. TypeOK /\ IInv /\ [Next]_vars =>
          [starts > 0 /\ cmd.resume =>
             \A k \in DOMAIN file : Terminal(file[k]) => k \in DOMAIN file' /\ file'[k] = file[k]]_vars
    <2> SUFFICES ASSUME TypeOK, IInv, Next, cmd.resume, NEW k \in DOMAIN file, Terminal(file[k])
                 PROVE  k \in DOMAIN file' /\ file'[k] = file[k]
      OBVIOUS
    <2>1. CASE Start
      BY <2>1 DEF Start
    <2>2. CASE NewRow
      <3>1. k \in DOMAIN rows /\ rows[k] = file[k] /\ k # Key(Instance)
        BY <2>2, HeadUnfinished
      <3>2. k \in DOMAIN rows' /\ rows'[k] = rows[k]
        BY <2>2, <3>1, UpsertKeeps DEF NewRow
      <3> QED
        BY <2>2, <3>1, <3>2 DEF NewRow
    <2>3. CASE Saved
      <3>1. k \in DOMAIN rows /\ rows[k] = file[k]
        BY <2>3 DEF Saved, RowsInv, Held, Active
      <3> QED
        BY <2>3, <3>1 DEF Saved
    <2>4. CASE Passed
      BY <2>4 DEF Passed
    <2> QED
      BY <2>1, <2>2, <2>3, <2>4, RowsStep
  <1>4. Spec => []Found
    <2>1. Init => Found /\ Open
      BY DEF Init, Found, Open, Active, Working
    <2>2. TypeOK /\ Found /\ Open /\ [Next]_vars => (Found /\ Open)'
      BY FoundStep
    <2> QED
      BY <2>1, <2>2, TypeCorrect, PTL DEF Spec
  <1> QED
    BY <1>1, <1>2, <1>3, <1>4, TypeCorrect, PTL DEF Spec, RowsSurvive

-----------------------------------------------------------------------------
(* Completeness.                                                           *)

(* Every instance has its row or is still to come.                         *)
Covered == /\ Active =>
                 \A n \in 1..Len(batch.instances) :
                    \/ Key(batch.instances[n]) \in DOMAIN rows
                    \/ \E m \in 1..Len(pos) : pos[m] = batch.instances[n]
           /\ Active /\ cmd.resume => processed \subseteq DOMAIN rows
           /\ pc \in Settled => Key(Instance) \in DOMAIN rows

(* A run that comes to its end has a row for every instance of its batch   *)
(* in the file: skipped, not fit, failed by an exception or judged.        *)
DoneIsComplete ==
    pc = "done" => \A n \in 1..Len(batch.instances) : Key(batch.instances[n]) \in DOMAIN file

LEMMA TailHasIt ==
    ASSUME TypeOK, pos # <<>>, NEW m \in 1..Len(pos)
    PROVE  pos[m] = Instance \/ \E j \in 1..Len(Tail(pos)) : Tail(pos)[j] = pos[m]
  <1>1. CASE m = 1
    BY <1>1, TailType DEF TypeOK
  <1>2. CASE m # 1
    <2>1. m - 1 \in 1..Len(Tail(pos)) /\ Tail(pos)[m - 1] = pos[m]
      BY <1>2, TailType, LenProperties DEF TypeOK
    <2> QED
      BY <2>1
  <1> QED
    BY <1>1, <1>2

LEMMA CoveredStep ==
    ASSUME TypeOK, Covered, DoneIsComplete, [Next]_vars
    PROVE  Covered' /\ DoneIsComplete'
  <1> USE DEF Active, Settled, Working
  <1>1. CASE Start
    BY <1>1 DEF Start, Loaded, Covered, DoneIsComplete
  <1>2. ASSUME ~Start
        PROVE  \A n : Key(batch.instances[n])' = Key(batch.instances[n])
    BY <1>2, RowsStep DEF NewRow, Saved, Passed, Key
  <1>3. CASE NewRow
    <2>1. ~Start
      BY <1>3 DEF NewRow, Start, Goes
    <2>2. DOMAIN rows' = DOMAIN rows \cup {Key(Instance)} /\ pos # <<>> /\ batch' = batch
      BY <1>3 DEF NewRow, Upsert
    <2>3. ASSUME NEW n \in 1..Len(batch.instances)
          PROVE  \/ Key(batch.instances[n])' \in DOMAIN rows'
                 \/ \E m \in 1..Len(pos') : pos'[m] = batch'.instances[n]
      <3>1. CASE Key(batch.instances[n]) \in DOMAIN rows
        BY <1>2, <2>1, <2>2, <3>1
      <3>2. CASE \E m \in 1..Len(pos) : pos[m] = batch.instances[n]
        BY <1>2, <1>3, <2>1, <2>2, <3>2, TailHasIt DEF NewRow
      <3> QED
        BY <1>3, <3>1, <3>2 DEF NewRow, Covered, Goes
    <2>4. Key(Instance) \in DOMAIN rows'
      BY <2>2
    <2>5. pc' \in Settled => Key(Instance)' \in DOMAIN rows'
      BY <1>3, <2>4, SameKey DEF NewRow
    <2>6. cmd'.resume => processed' \subseteq DOMAIN rows'
      BY <1>3, <2>2 DEF NewRow, Covered, Goes
    <2>7. pc' # "done"
      BY <1>3 DEF NewRow
    <2> QED
      BY <2>2, <2>3, <2>5, <2>6, <2>7 DEF Covered, DoneIsComplete
  <1>4. CASE Saved
    <2>1. ~Start
      BY <1>4 DEF Saved, Start
    <2>2. batch' = batch /\ rows' = rows /\ file' = rows /\ Active
      BY <1>4 DEF Saved
    <2>3. CASE pc' = "done"
      <3>1. \A n \in 1..Len(batch.instances) : Key(batch.instances[n]) \in DOMAIN rows
        BY <1>4, <2>2, <2>3, EmptySeq, LenProperties DEF Saved, Covered
      <3> QED
        BY <1>2, <2>1, <2>2, <2>3, <3>1 DEF Covered, DoneIsComplete
    <2>4. CASE pc' = "next"
      <3>1. pos # <<>> /\ pos' = Tail(pos) /\ Key(Instance) \in DOMAIN rows
        BY <1>4, <2>4 DEF Saved, Covered, TypeOK
      <3>2. ASSUME NEW n \in 1..Len(batch.instances)
            PROVE  \/ Key(batch.instances[n]) \in DOMAIN rows
                   \/ \E m \in 1..Len(pos') : pos'[m] = batch.instances[n]
        BY <2>2, <3>1, TailHasIt DEF Covered
      <3> QED
        BY <1>2, <1>4, <2>1, <2>2, <2>4, <3>2 DEF Saved, Covered, DoneIsComplete
    <2> QED
      BY <1>4, <2>3, <2>4 DEF Saved
  <1>5. CASE Passed
    <2>1. ~Start
      BY <1>5 DEF Passed, Start, Goes, Skip
    <2>2. UNCHANGED <<batch, cmd, rows, file, processed>>
      BY <1>5 DEF Passed
    <2>3. CASE pc' = "stopped"
      BY <2>3 DEF Covered, DoneIsComplete
    <2>4. CASE pos' = pos /\ pc' # "stopped" /\ ~(pc = "closeOnly" /\ pc' = "next")
      <3>1. (Active' => Active) /\ (pc' \in Settled => pc \in Settled) /\ (pc' = "done" => pc = "done")
        BY <1>5, <2>4 DEF Passed, Goes, Skip
      <3> QED
        BY <1>2, <2>1, <2>2, <2>4, <3>1, SameKey DEF Covered, DoneIsComplete
    <2>5. CASE pos' = Tail(pos) /\ pc' = "next" /\ (Skip \/ pc = "closeOnly")
      <3>1. Active /\ pos # <<>> /\ Key(Instance) \in DOMAIN rows
        BY <2>5 DEF Skip, Covered, TypeOK
      <3>2. ASSUME NEW n \in 1..Len(batch.instances)
            PROVE  \/ Key(batch.instances[n]) \in DOMAIN rows
                   \/ \E m \in 1..Len(pos') : pos'[m] = batch.instances[n]
        BY <2>5, <3>1, TailHasIt DEF Covered
      <3> QED
        BY <1>2, <2>1, <2>2, <2>5, <3>1, <3>2 DEF Covered, DoneIsComplete
    <2> QED
      BY <1>5, <2>3, <2>4, <2>5 DEF Passed, Skip
  <1> QED
    BY <1>1, <1>3, <1>4, <1>5, RowsStep

(* The file of a finished run is complete, whatever was skipped and        *)
(* whatever failed on the way.                                             *)
THEOREM NoInstanceIsLost == Spec => []DoneIsComplete
  <1>1. Init => Covered /\ DoneIsComplete
    BY DEF Init, Covered, DoneIsComplete, Active, Settled
  <1>2. TypeOK /\ Covered /\ DoneIsComplete /\ [Next]_vars => (Covered /\ DoneIsComplete)'
    BY CoveredStep
  <1> QED
    BY <1>1, <1>2, TypeCorrect, PTL DEF Spec

=============================================================================
