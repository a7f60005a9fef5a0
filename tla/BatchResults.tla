---------------------------- MODULE BatchResults ----------------------------
(***************************************************************************)
(* A batch (swe_mas/run/batch.py): a pool of threads processes the         *)
(* instances, each result is saved (swe_mas/run/save.py) into a trajectory *)
(* of its own and into the predictions.json that all share, and the main   *)
(* thread counts what the threads return and writes the summary.           *)
(*                                                                         *)
(* predictions.json is read whole and written whole, without a lock.  It   *)
(* is cut here where another thread can run: between reading and opening   *)
(* it for writing, which truncates it, and until it is closed.             *)
(***************************************************************************)
EXTENDS Integers, FiniteSets

CONSTANTS
    Instances,
    PoolSizes,      \* the values of --workers
    MaxRestarts     \* bound: how often the batch is started again, same run id

ASSUME InstancesAssumption == IsFiniteSet(Instances)
ASSUME PoolAssumption == PoolSizes \subseteq Nat \ {0}
ASSUME BatchRestartsAssumption == MaxRestarts \in Nat

VARIABLES
    workers,        \* --workers of this batch
    file,           \* predictions.json: absent, torn (no JSON), or whole
    open,           \* the instances whose thread has it open for writing
    clash,          \* have two of them had it open at the same time?
    pc,
    seen,           \* local "predictions" of save_results
    good,           \* the second component of what the thread returns
    counted,        \* the futures the main thread has seen
    summary,        \* summary.json: successful instances, or -1
    restarts

batch == <<workers, restarts>>
vars == <<file, open, clash, pc, seen, good, counted, summary, batch>>

Whole(ids) == [kind |-> "whole", ids |-> ids]
Torn       == [kind |-> "torn", ids |-> {}]
Absent     == [kind |-> "absent", ids |-> {}]

Fresh(value) == [i \in Instances |-> value]

Init ==
    /\ workers \in PoolSizes
    /\ file = Absent /\ open = {} /\ clash = FALSE
    /\ pc = Fresh("queued") /\ seen = Fresh({}) /\ good = Fresh(FALSE)
    /\ counted = {} /\ summary = -1
    /\ restarts = 0

Goto(i, label) == pc' = [pc EXCEPT ![i] = label]

InPool == {i \in Instances : pc[i] \notin {"queued", "returned"}}

-----------------------------------------------------------------------------
(* process_instance_dynamic, in a thread of the pool.                      *)

Begin(i) ==
    /\ pc[i] = "queued" /\ Cardinality(InPool) < workers
    /\ Goto(i, "run")
    /\ UNCHANGED <<file, open, clash, seen, good, counted, summary, batch>>

(* No repository, or an exception of the run: nothing is saved.            *)
Fail(i) ==
    /\ pc[i] = "run"
    /\ Goto(i, "returned")
    /\ UNCHANGED <<file, open, clash, seen, good, counted, summary, batch>>

(* The orchestrator has returned; the trajectory is saved.                 *)
SaveTrajectory(i) ==
    /\ pc[i] = "run"
    /\ Goto(i, "read")
    /\ UNCHANGED <<file, open, clash, seen, good, counted, summary, batch>>

(* Existing predictions are read; json.load raises on a file that is no    *)
(* JSON, and the instance is a failure.                                    *)
Read(i) ==
    /\ pc[i] = "read"
    /\ IF file.kind = "torn"
       THEN Goto(i, "returned") /\ UNCHANGED seen
       ELSE seen' = [seen EXCEPT ![i] = file.ids] /\ Goto(i, "write")
    /\ UNCHANGED <<file, open, clash, good, counted, summary, batch>>

(* open(predictions_file, "w") *)
Truncate(i) ==
    /\ pc[i] = "write"
    /\ file' = Torn
    /\ clash' = (clash \/ open # {})
    /\ open' = open \cup {i}
    /\ Goto(i, "dump")
    /\ UNCHANGED <<seen, good, counted, summary, batch>>

(* Faulty variant: what was read is not written back.                      *)
DumpOnlyOwn(i) ==
    /\ pc[i] = "dump"
    /\ file' \in {Whole({i})} \cup (IF clash THEN {Torn} ELSE {})
    /\ open' = open \ {i}
    /\ clash' = (clash /\ open' # {})
    /\ \E success \in BOOLEAN : good' = [good EXCEPT ![i] = success]
    /\ Goto(i, "returned")
    /\ UNCHANGED <<seen, counted, summary, batch>>

(* json.dump and close.  Of two writers the later one overwrites the       *)
(* earlier one, and leaves no JSON when its text is the shorter one.  The  *)
(* thread then returns whether the run succeeded with a patch.             *)
Dump(i) ==
    /\ pc[i] = "dump"
    /\ file' \in {Whole(seen[i] \cup {i})} \cup (IF clash THEN {Torn} ELSE {})
    /\ open' = open \ {i}
    /\ clash' = (clash /\ open' # {})
    /\ \E success \in BOOLEAN : good' = [good EXCEPT ![i] = success]
    /\ Goto(i, "returned")
    /\ UNCHANGED <<seen, counted, summary, batch>>

-----------------------------------------------------------------------------
(* main: as_completed, then the summary.                                   *)

Count(i) ==
    /\ pc[i] = "returned" /\ i \notin counted
    /\ counted' = counted \cup {i}
    /\ UNCHANGED <<file, open, clash, pc, seen, good, summary, batch>>

(* Faulty variant: the main thread waits for successes only.               *)
SummarizeIfAllGood ==
    /\ counted = Instances /\ summary = -1
    /\ \A i \in Instances : good[i]
    /\ summary' = Cardinality({i \in counted : good[i]})
    /\ UNCHANGED <<file, open, clash, pc, seen, good, counted, batch>>

Summarize ==
    /\ counted = Instances /\ summary = -1
    /\ summary' = Cardinality({i \in counted : good[i]})
    /\ UNCHANGED <<file, open, clash, pc, seen, good, counted, batch>>

(* The process is killed, or has ended, and the batch is started again.    *)
Restart ==
    /\ restarts < MaxRestarts
    /\ restarts' = restarts + 1
    /\ open' = {} /\ clash' = FALSE
    /\ pc' = Fresh("queued") /\ seen' = Fresh({}) /\ good' = Fresh(FALSE)
    /\ counted' = {} /\ summary' = -1
    /\ UNCHANGED <<file, workers>>

Thread(i) ==
    \/ Begin(i) \/ Fail(i) \/ SaveTrajectory(i) \/ Read(i) \/ Truncate(i) \/ Dump(i)

Run == Summarize \/ \E i \in Instances : Thread(i) \/ Count(i)

Next == Run \/ Restart

(* The threads run, and every call they make returns. *)
Spec == Init /\ [][Next]_vars /\ WF_vars(Run)
-----------------------------------------------------------------------------
(* Every variable has the type its use in the code gives it, and the file  *)
(* is open exactly in the threads that are writing it.                     *)
TypeOK ==
    /\ workers \in PoolSizes
    /\ file \in [kind : {"absent", "torn", "whole"}, ids : SUBSET Instances]
    /\ open = {i \in Instances : pc[i] = "dump"} /\ clash \in BOOLEAN
    /\ pc \in [Instances -> {"queued", "run", "read", "write", "dump", "returned"}]
    /\ seen \in [Instances -> SUBSET Instances]
    /\ good \in [Instances -> BOOLEAN]
    /\ counted \subseteq Instances
    /\ summary \in {-1} \cup Nat /\ restarts \in Nat

(* With one worker an instance that counts as a success has its prediction *)
(* in the file, in a batch that was restarted after a crash too.           *)
GoodIsPredicted ==
    workers = 1 /\ open = {} =>
        \A i \in Instances : good[i] => file.kind = "whole" /\ i \in file.ids

(* Once no more restarts come, the summary is written.                     *)
BatchEnds == <>[](summary # -1)

-----------------------------------------------------------------------------
(* save.py:136: the prediction of an instance is added to the others.      *)
PredictionsAdded ==
    summary # -1 => \A i \in Instances : good[i] => i \in file.ids
=============================================================================
