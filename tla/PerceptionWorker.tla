-------------------------- MODULE PerceptionWorker --------------------------
(***************************************************************************)
(* The background perception thread of one episode                         *)
(* (swe_mas/workflow/perception_worker.py) and the state it shares with    *)
(* the orchestrator's thread: the memory graph, the recorder's event, the  *)
(* stop flag and the one-slot mailbox fault_signal.                        *)
(*                                                                         *)
(* The thread's loop is cut where the other thread can run in between:     *)
(* the test of the stop flag, the wait on the event, the reading of the    *)
(* graph, and the assignment to the mailbox.                               *)
(***************************************************************************)
EXTENDS MemoryGraph

CONSTANTS
    Window,      \* how many recent nodes the graph detector compares
    CustomStop   \* may a detector given to the orchestrator ask for a stop?

ASSUME WindowAssumption == Window \in Nat \ {0}
ASSUME CustomStopAssumption == CustomStop \in BOOLEAN

VARIABLES
    nodes,      \* the session's trajectory in the memory graph
    event,      \* MemoryRecorder._event: something was appended
    stopping,   \* PerceptionWorker._stop
    signal,     \* PerceptionWorker.fault_signal
    wpc,        \* where the thread is
    found       \* local variable "signals" of the thread: its first element

workerVars == <<event, stopping, signal, wpc, found>>

FaultKind == {"none", "loop", "external", "injected"}

(* A FaultSignal: its class, the nodes it blames, and whether it suggests   *)
(* to stop the agent.                                                       *)
Fault == [kind : FaultKind, ids : SUBSET Nat, stop : BOOLEAN]

NoFault == [kind |-> "none", ids |-> {}, stop |-> FALSE]

(* What perception.run may return on the trajectory ns (first element).    *)
(* Of the repository's detectors only the graph detector runs here: no     *)
(* caller passes agents_state or inject.                                   *)
Signals(ns) ==
    {NoFault} \cup
    [kind : {"loop"}, ids : ReportableIds(ns, Window),
     stop : IF CustomStop THEN BOOLEAN ELSE {FALSE}]

WorkerInit(on) ==
    /\ event = FALSE
    /\ stopping = FALSE
    /\ signal = NoFault
    /\ found = NoFault
    /\ wpc = IF on THEN "head" ELSE "ended"

(* while not self._stop.is_set() *)
WorkerHead ==
    /\ wpc = "head"
    /\ wpc' = IF stopping THEN "ended" ELSE "wait"
    /\ UNCHANGED <<nodes, event, stopping, signal, found>>

(* event.wait(interval); event.clear(): the wait also ends by its timeout. *)
WorkerWait ==
    /\ wpc = "wait"
    /\ wpc' = "scan"
    /\ event' = FALSE
    /\ UNCHANGED <<nodes, stopping, signal, found>>

(* signals = self.perception.run(...): back to the loop when it finds      *)
(* nothing, or raises.                                                     *)
WorkerScan ==
    /\ wpc = "scan"
    /\ found' \in Signals(nodes)
    /\ wpc' = IF found' = NoFault THEN "head" ELSE "post"
    /\ UNCHANGED <<nodes, event, stopping, signal>>

(* Faulty variant: no break after the assignment.                          *)
WorkerPostAndGoOn ==
    /\ wpc = "post"
    /\ signal' = found
    /\ found' = NoFault
    /\ wpc' = "head"
    /\ UNCHANGED <<nodes, event, stopping>>

(* self.fault_signal = signals[0]; break *)
WorkerPost ==
    /\ wpc = "post"
    /\ signal' = found
    /\ found' = NoFault
    /\ wpc' = "ended"
    /\ UNCHANGED <<nodes, event, stopping>>

Worker == WorkerHead \/ WorkerWait \/ WorkerScan \/ WorkerPost

(* The calls of the orchestrator's thread. *)
PeekStop == signal.stop       \* _should_stop_agent on peek_fault()

StopWorker == stopping' = TRUE

(* MemoryRecorder.append: the node, and the event that wakes the thread *)
RecorderAppend(node) ==
    /\ nodes' = Append(nodes, node)
    /\ event' = TRUE
=============================================================================
