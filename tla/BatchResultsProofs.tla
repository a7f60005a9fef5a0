------------------------- MODULE BatchResultsProofs -------------------------
(***************************************************************************)
(* With one worker predictions.json can be relied on, for every finite set *)
(* of instances and however often the batch is killed and started again.   *)
(***************************************************************************)
EXTENDS BatchResults, FiniteSetTheorems, TLAPS

(* One worker: at most one instance is being processed, so what its thread *)
(* has read is what the file held, and nobody else writes.                 *)
OneByOne ==
    workers = 1 =>
        /\ \A i, j \in Instances : i \in InPool /\ j \in InPool => i = j
        /\ clash = FALSE
        /\ \A i, j \in Instances : pc[i] \in {"write", "dump"} /\ good[j] => j \in seen[i]

Inv == TypeOK /\ OneByOne /\ GoodIsPredicted

-----------------------------------------------------------------------------
LEMMA InitInv == Init => Inv
  <1> SUFFICES ASSUME Init PROVE Inv
    OBVIOUS
  <1>1. TypeOK
    <2>1. open = {i \in Instances : pc[i] = "dump"}
      BY DEF Init, Fresh
    <2>2. file \in [kind : {"absent", "torn", "whole"}, ids : SUBSET Instances]
      BY DEF Init, Absent
    <2> QED
      BY <2>1, <2>2 DEF Init, TypeOK, Fresh
  <1>2. OneByOne /\ GoodIsPredicted
    BY DEF Init, OneByOne, GoodIsPredicted, Fresh, InPool
  <1> QED
    BY <1>1, <1>2 DEF Inv

LEMMA StepType == TypeOK /\ [Next]_vars => TypeOK'
  <1> SUFFICES ASSUME TypeOK, [Next]_vars PROVE TypeOK'
    OBVIOUS
  <1> USE DEF TypeOK, Goto, Whole, Torn, batch
  <1>1. CASE Restart
    <2>1. open' = {i \in Instances : pc'[i] = "dump"}
      BY <1>1 DEF Restart, Fresh
    <2>2. restarts' \in Nat
      BY <1>1 DEF Restart
    <2> QED
      BY <1>1, <2>1, <2>2 DEF Restart, Fresh
  <1>2. CASE Summarize
    <2>1. IsFiniteSet({i \in counted : good[i]})
      BY InstancesAssumption, FS_Subset
    <2>2. summary' \in Nat
      BY <1>2, <2>1, FS_CardinalityType DEF Summarize
    <2> QED
      BY <1>2, <2>2 DEF Summarize
  <1>3. ASSUME NEW i \in Instances, Thread(i) \/ Count(i) PROVE TypeOK'
    <2>1. CASE Begin(i)
      BY <2>1 DEF Begin
    <2>2. CASE Fail(i)
      BY <2>2 DEF Fail
    <2>3. CASE SaveTrajectory(i)
      BY <2>3 DEF SaveTrajectory
    <2>4. CASE Read(i)
      BY <2>4 DEF Read
    <2>5. CASE Truncate(i)
      BY <2>5 DEF Truncate
    <2>6. CASE Dump(i)
      BY <2>6 DEF Dump
    <2>7. CASE Count(i)
      BY <2>7 DEF Count
    <2> QED
      BY <1>3, <2>1, <2>2, <2>3, <2>4, <2>5, <2>6, <2>7 DEF Thread
  <1>4. CASE UNCHANGED vars
    BY <1>4 DEF vars
  <1> QED
    BY <1>1, <1>2, <1>3, <1>4 DEF Next, Run

-----------------------------------------------------------------------------
(* A thread is only started when there is none.                            *)
LEMMA BeginAlone ==
    ASSUME TypeOK, workers = 1, NEW i \in Instances, Begin(i)
    PROVE  InPool = {}
  <1>1. IsFiniteSet(InPool)
    BY InstancesAssumption, FS_Subset DEF InPool
  <1>2. Cardinality(InPool) < 1 /\ Cardinality(InPool) \in Nat
    BY <1>1, FS_CardinalityType DEF Begin
  <1> QED
    BY <1>1, <1>2, FS_EmptySet

(* A batch keeps its number of workers.                                    *)
LEMMA WorkersStay == [Next]_vars => workers' = workers
  BY DEF Next, Run, Thread, Begin, Fail, SaveTrajectory, Read, Truncate, Dump,
     Count, Summarize, Restart, vars, batch

LEMMA StepOne == Inv /\ [Next]_vars => OneByOne' /\ GoodIsPredicted'
  <1> SUFFICES ASSUME TypeOK, OneByOne, GoodIsPredicted, [Next]_vars, workers = 1
               PROVE  OneByOne' /\ GoodIsPredicted'
    BY WorkersStay DEF Inv, OneByOne, GoodIsPredicted
  <1> USE DEF TypeOK, OneByOne, GoodIsPredicted, InPool, Goto, batch
  <1>1. CASE Restart
    BY <1>1 DEF Restart, Fresh
  <1>2. CASE Summarize
    BY <1>2 DEF Summarize
  <1>3. ASSUME NEW i \in Instances, Thread(i) \/ Count(i)
        PROVE  OneByOne' /\ GoodIsPredicted'
    <2>1. CASE Begin(i)
      <3>1. \A j \in Instances : pc[j] \in {"queued", "returned"}
        BY <2>1, BeginAlone
      <3> QED
        BY <2>1, <3>1 DEF Begin
    <2>2. CASE Fail(i)
      BY <2>2 DEF Fail
    <2>3. CASE SaveTrajectory(i)
      BY <2>3 DEF SaveTrajectory
    <2>4. CASE Read(i)
      <3>1. open = {}
        BY <2>4 DEF Read
      <3>2. \A j \in Instances : good[j] => j \in file.ids
        BY <3>1
      <3>3. UNCHANGED <<file, open, clash, good>>
        BY <2>4 DEF Read
      <3>4. CASE file.kind = "torn"
        BY <2>4, <3>3, <3>4 DEF Read
      <3>5. CASE file.kind # "torn"
        BY <2>4, <3>2, <3>3, <3>5 DEF Read
      <3> QED
        BY <3>4, <3>5
    <2>5. CASE Truncate(i)
      <3>1. open = {}
        BY <2>5 DEF Truncate
      <3> QED
        BY <2>5, <3>1 DEF Truncate
    <2>6. CASE Dump(i)
      <3>1. file' = Whole(seen[i] \cup {i})
        BY <2>6 DEF Dump
      <3>2. \A j \in Instances : good'[j] => j = i \/ good[j]
        BY <2>6 DEF Dump
      <3>3. \A j \in Instances : good'[j] => j \in seen[i] \cup {i}
        BY <2>6, <3>2 DEF Dump
      <3>4. OneByOne'
        BY <2>6 DEF Dump
      <3> QED
        BY <3>1, <3>3, <3>4 DEF Whole
    <2>7. CASE Count(i)
      BY <2>7 DEF Count
    <2> QED
      BY <1>3, <2>1, <2>2, <2>3, <2>4, <2>5, <2>6, <2>7 DEF Thread
  <1>4. CASE UNCHANGED vars
    BY <1>4 DEF vars
  <1> QED
    BY <1>1, <1>2, <1>3, <1>4 DEF Next, Run

(* The files, the pool and the counters of a batch keep to their values,   *)
(* however many workers write predictions.json.                            *)
THEOREM BatchTypes == Spec => []TypeOK
  <1>1. Init => TypeOK
    BY InitInv DEF Inv
  <1> QED
    BY <1>1, StepType, PTL DEF Spec

(* With one worker an instance that counts as a success has its prediction *)
(* in predictions.json.                                                    *)
THEOREM SuccessIsPredicted == Spec => []GoodIsPredicted
  <1>1. Inv /\ [Next]_vars => Inv'
    BY StepType, StepOne DEF Inv
  <1>2. Inv => GoodIsPredicted
    BY DEF Inv
  <1> QED
    BY <1>1, <1>2, InitInv, PTL DEF Spec
=============================================================================
