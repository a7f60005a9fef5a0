----------------------- MODULE SWEOrchestratorProofs -----------------------
(***************************************************************************)
(* Theorems about SWEOrchestrator, for every value of its constants: first *)
(* its types, the reports of the thread and the anchors of a recovery,     *)
(* then what a whole run owes: stops take effect, agents are told of       *)
(* faults, a plain success is verified, and the run is an Episode.         *)
(***************************************************************************)
EXTENDS SWEOrchestrator, TLAPS

LEMMA AppendSeq ==
    ASSUME NEW T, NEW q \in Seq(T), NEW x \in T
    PROVE  Append(q, x) \in Seq(T)
  OBVIOUS

(* The greatest index of a set, when there is one, is in the set. *)
LEMMA LastOfIsMember ==
    ASSUME NEW S
    PROVE  LastOf(S) = NoNode \/ LastOf(S) \in S
  BY DEF LastOf, NoNode

LEMMA LastOfIsNat ==
    ASSUME NEW S \in SUBSET Nat
    PROVE  LastOf(S) \in Nat
  <1>1. CASE LastOf(S) = NoNode
    BY <1>1 DEF NoNode
  <1>2. CASE LastOf(S) \in S
    BY <1>2
  <1> QED
    BY <1>1, <1>2, LastOfIsMember

(* Marking nodes keeps a trajectory a trajectory of the same length. *)
LEMMA UpdateValidityType ==
    ASSUME NEW ns \in Seq(Node), NEW ids
    PROVE  /\ UpdateValidity(ns, ids) \in Seq(Node)
           /\ DOMAIN UpdateValidity(ns, ids) = DOMAIN ns
  <1>1. DOMAIN ns = 1 .. Len(ns) /\ Len(ns) \in Nat
    OBVIOUS
  <1>2. ASSUME NEW i \in 1 .. Len(ns)
        PROVE  UpdateValidity(ns, ids)[i] \in Node
    <2>1. ns[i] \in Node
      BY <1>1
    <2>2. [ns[i] EXCEPT !.ok = FALSE] \in Node
      BY <2>1 DEF Node
    <2> QED
      BY <1>1, <2>1, <2>2 DEF UpdateValidity
  <1>3. UpdateValidity(ns, ids) \in [1 .. Len(ns) -> Node]
    BY <1>1, <1>2 DEF UpdateValidity
  <1> QED
    BY <1>1, <1>3

LEMMA MarkPhaseInvalidType ==
    ASSUME NEW ph \in Seq(Phase), NEW name
    PROVE  MarkPhaseInvalid(ph, name) \in Seq(Phase)
  <1>1. DOMAIN ph = 1 .. Len(ph) /\ Len(ph) \in Nat
    OBVIOUS
  <1>2. ASSUME NEW i \in 1 .. Len(ph)
        PROVE  MarkPhaseInvalid(ph, name)[i] \in Phase
    <2>1. ph[i] \in Phase
      BY <1>1
    <2>2. [ph[i] EXCEPT !.ok = FALSE] \in Phase
      BY <2>1 DEF Phase
    <2> QED
      BY <1>1, <2>1, <2>2 DEF MarkPhaseInvalid
  <1>3. MarkPhaseInvalid(ph, name) \in [1 .. Len(ph) -> Phase]
    BY <1>1, <1>2 DEF MarkPhaseInvalid
  <1> QED
    BY <1>1, <1>3

(* A detector only blames VALID nodes of the trajectory. *)
LEMMA ReportsAreValid ==
    ASSUME NEW ns \in Seq(Node), NEW f \in Signals(ns)
    PROVE  f \in Fault /\ f.ids \subseteq ValidIdx(ns)
  <1>1. ValidIdx(ns) \subseteq Nat
    BY DEF ValidIdx
  <1>2. ASSUME NEW s \in ReportableIds(ns, Window)
        PROVE  s \subseteq ValidIdx(ns)
    BY <1>2 DEF ReportableIds, Latest
  <1>3. CASE f = NoFault
    BY <1>3 DEF NoFault, Fault, FaultKind
  <1>4. CASE f # NoFault
    <2>1. f \in [kind : {"loop"}, ids : ReportableIds(ns, Window),
                 stop : IF CustomStop THEN BOOLEAN ELSE {FALSE}]
      BY <1>4 DEF Signals
    <2>2. f.ids \in ReportableIds(ns, Window)
      BY <2>1
    <2>3. f.ids \in SUBSET Nat
      BY <2>2, <1>1, <1>2
    <2> QED
      BY <2>1, <2>2, <2>3, <1>2 DEF Fault, FaultKind
  <1> QED
    BY <1>3, <1>4
-----------------------------------------------------------------------------
(* Type correctness.  Outside of a step idx may be past the last step.      *)

Outer == {"step", "finish", "reward", "done"}

TypeInv == TypeOK /\ (pc \notin Outer => idx <= 7)

LEMMA StepType ==
    ASSUME idx \in 1 .. 7
    PROVE  Step \in StepNames /\ PhaseOf[Step] \in Phases
  <1>1. Step \in StepNames
    <2>1. Steps \in [1 .. 7 -> StepNames]
      BY DEF Steps, StepNames
    <2> QED
      BY <2>1 DEF Step
  <1> QED
    BY <1>1 DEF PhaseOf, Phases, StepNames

LEMMA AtStepIdx ==
    ASSUME TypeOK, NEW s, AtStep(s)
    PROVE  idx \in 1 .. 7 /\ Step = s
  <1>1. Len(Steps) = 7
    BY DEF Steps
  <1> QED
    BY <1>1 DEF AtStep, TypeOK, ControlTypes

LEMMA AgentFailedTypes ==
    ASSUME TypeOK, idx \in 1 .. 7, NEW cause \in {"agent", "model"}, AgentFailed(cause)
    PROVE  /\ success' \in BOOLEAN /\ error' \in {"none", "agent", "model"}
           /\ patch' \in {"empty", "diff", "placeholder"} /\ located' \subseteq Locating
  <1> USE DEF TypeOK, StateTypes, AgentFailed
  <1>1. success' \in BOOLEAN
    OBVIOUS
  <1>2. located' \subseteq Locating /\ patch' \in {"empty", "diff", "placeholder"}
    OBVIOUS
  <1>3. error' \in {error, "agent", cause}
    BY Zenon
  <1> QED
    BY <1>1, <1>2, <1>3

LEMMA LimitType == \A c \in Configs : c.limit \in Nat /\ c.limit # 0
  BY ConfigsAssumption DEF Config

LEMMA InitTypeInv == Init => TypeInv
  <1> SUFFICES ASSUME Init PROVE TypeInv
    OBVIOUS
  <1>1. config \in Config
    BY ConfigsAssumption DEF Init
  <1>2. config.start \in 1 .. 7 /\ config.perception \in BOOLEAN
    BY <1>1 DEF Config
  <1>3. NoFault \in Fault
    BY DEF NoFault, Fault, FaultKind
  <1>4. GraphTypes
    <2>1. nodes = <<>> /\ phases = <<>>
      BY DEF Init
    <2> QED
      BY <2>1 DEF GraphTypes
  <1>5. WorkerTypes
    BY <1>3 DEF Init, WorkerInit, WorkerTypes
  <1>6. ControlTypes /\ idx <= 7
    <2>1. /\ config \in Configs /\ pc = "step" /\ idx = config.start
          /\ iter = 0 /\ got = NoFault /\ anchor = 0
      BY DEF Init, NoNode
    <2> QED
      BY <2>1, <1>2, <1>3, LimitType DEF ControlTypes
  <1>7. StateTypes
    BY DEF Init, StateTypes, Marks, Locating
  <1>8. HistoryTypes
    BY DEF Init, HistoryTypes
  <1> QED
    BY <1>4, <1>5, <1>6, <1>7, <1>8 DEF TypeInv, TypeOK

(* The parts of the type invariant a step does not touch.                   *)
LEMMA UnchangedTypes ==
    ASSUME TypeOK
    PROVE  /\ UNCHANGED <<nodes, phases>> => GraphTypes'
           /\ UNCHANGED workerVars => WorkerTypes'
           /\ UNCHANGED <<stateVars, dirty, reward>> => StateTypes'
           /\ UNCHANGED history => HistoryTypes'
  <1>1. UNCHANGED <<nodes, phases>> => GraphTypes'
    BY DEF TypeOK, GraphTypes
  <1>2. UNCHANGED workerVars => WorkerTypes'
    BY DEF TypeOK, WorkerTypes, workerVars
  <1>3. UNCHANGED <<stateVars, dirty, reward>> => StateTypes'
    BY DEF TypeOK, StateTypes, stateVars
  <1>4. UNCHANGED history => HistoryTypes'
    BY DEF TypeOK, HistoryTypes, history
  <1> QED
    BY <1>1, <1>2, <1>3, <1>4

LEMMA AppendType ==
    ASSUME TypeOK, idx \in 1 .. 7, NEW t \in NodeType, NEW b \in BOOLEAN,
           RecorderAppend([phase |-> PhaseOf[Step], type |-> t, ok |-> b])
    PROVE  nodes' \in Seq(Node) /\ event' \in BOOLEAN
  <1>1. [phase |-> PhaseOf[Step], type |-> t, ok |-> b] \in Node
    BY StepType DEF Node
  <1>2. nodes \in Seq(Node)
    BY DEF TypeOK, GraphTypes
  <1> QED
    BY <1>1, <1>2 DEF RecorderAppend

LEMMA WorkerTypeInv == TypeInv /\ WorkerStep => TypeInv'
  <1> SUFFICES ASSUME TypeInv, WorkerStep PROVE TypeInv'
    OBVIOUS
  <1>1. WorkerTypes' /\ UNCHANGED nodes
    <2> USE DEF TypeInv, TypeOK, WorkerTypes
    <2>1. CASE WorkerHead
      BY <2>1 DEF WorkerHead
    <2>2. CASE WorkerWait
      BY <2>2 DEF WorkerWait
    <2>3. CASE WorkerScan
      <3>1. found' \in Fault
        BY <2>3, ReportsAreValid DEF WorkerScan, GraphTypes
      <3> QED
        BY <2>3, <3>1 DEF WorkerScan
    <2>4. CASE WorkerPost
      BY <2>4 DEF WorkerPost, NoFault, Fault, FaultKind
    <2> QED
      BY <2>1, <2>2, <2>3, <2>4 DEF WorkerStep, Worker
  <1>2. UNCHANGED <<phases, stateVars, dirty, reward, history>>
    BY DEF WorkerStep
  <1>3. ControlTypes' /\ (pc \notin Outer => idx <= 7)'
    BY DEF WorkerStep, TypeInv, TypeOK, ControlTypes
  <1> QED
    BY <1>1, <1>2, <1>3, UnchangedTypes DEF TypeInv, TypeOK

LEMMA AgentTypeInv == TypeInv /\ Agent => TypeInv'
  <1> SUFFICES ASSUME TypeInv, Agent PROVE TypeInv'
    OBVIOUS
  <1> USE DEF TypeInv, TypeOK, Outer
  <1>1. CASE StartAgent
    <2>1. PICK s \in StepNames \ {"merge_locate"} :
             /\ AtStep(s)
             /\ cur' = IF s \in Locating THEN cur ELSE [base |-> s, mark |-> ""]
             /\ phases' = Append(phases, [phase |-> PhaseOf[s], ok |-> TRUE,
                                          from |-> Len(nodes) + 1])
      BY <1>1 DEF StartAgent
    <2>2. idx \in 1 .. 7 /\ Step = s
      BY <2>1, AtStepIdx
    <2>3. ControlTypes' /\ (pc \notin Outer => idx <= 7)'
      <3>1. /\ pc' = "ask" /\ iter' = 0 /\ idx' = idx /\ config' = config
            /\ got' = got /\ anchor' = anchor
        BY <1>1 DEF StartAgent
      <3> QED
        BY <3>1, <2>2, LimitType DEF ControlTypes
    <2>4. GraphTypes'
      <3>1. nodes \in Seq(Node) /\ phases \in Seq(Phase) /\ nodes' = nodes
        BY <1>1 DEF StartAgent, GraphTypes
      <3>2. [phase |-> PhaseOf[s], ok |-> TRUE, from |-> Len(nodes) + 1] \in Phase
        BY <3>1, <2>2, StepType DEF Phase
      <3>3. phases' \in Seq(Phase)
        BY <3>1, <3>2, <2>1, AppendSeq
      <3> QED
        BY <3>1, <3>3 DEF GraphTypes
    <2>5. StateTypes'
      BY <1>1, <2>1 DEF StartAgent, StateTypes, Marks
    <2>6. HistoryTypes'
      BY <1>1, <2>1 DEF StartAgent, HistoryTypes
    <2>7. UNCHANGED workerVars
      BY <1>1 DEF StartAgent, workerVars
    <2> QED
      BY <2>3, <2>4, <2>5, <2>6, <2>7, UnchangedTypes
  <1>2. CASE ModelReply
    <2>1. idx \in 1 .. 7
      BY <1>2 DEF ModelReply, ControlTypes
    <2>2. ControlTypes' /\ (pc \notin Outer => idx <= 7)'
      BY <1>2, <2>1, LimitType DEF ModelReply, ControlTypes
    <2>3. GraphTypes'
      BY <1>2, <2>1, AppendType DEF ModelReply, NodeType, GraphTypes
    <2>4. WorkerTypes'
      BY <1>2, <2>1, AppendType DEF ModelReply, NodeType, WorkerTypes
    <2>5. UNCHANGED <<<<stateVars, dirty, reward>>, history>>
      BY <1>2 DEF ModelReply, workerVars, stateVars, history
    <2> QED
      BY <2>2, <2>3, <2>4, <2>5, UnchangedTypes
  <1>3. CASE ModelError
    <2>1. idx \in 1 .. 7
      BY <1>3 DEF ModelError, ControlTypes
    <2>2. ControlTypes' /\ (pc \notin Outer => idx <= 7)'
      BY <1>3, <2>1 DEF ModelError, ControlTypes
    <2>3. GraphTypes'
      BY <1>3, <2>1, AppendType DEF ModelError, NodeType, GraphTypes
    <2>4. WorkerTypes'
      BY <1>3, <2>1, AppendType DEF ModelError, NodeType, WorkerTypes
    <2>5. StateTypes'
      BY <1>3, <2>1, AgentFailedTypes DEF ModelError, StateTypes
    <2>6. UNCHANGED <<history>>
      BY <1>3 DEF ModelError, workerVars, stateVars, history
    <2> QED
      BY <2>2, <2>3, <2>4, <2>5, <2>6, UnchangedTypes
  <1>4. CASE Exhausted
    <2>1. ControlTypes' /\ (pc \notin Outer => idx <= 7)'
      BY <1>4 DEF Exhausted, ControlTypes
    <2>2. StateTypes'
      BY <1>4 DEF Exhausted, StateTypes
    <2>3. UNCHANGED <<<<nodes, phases>>, workerVars, history>>
      BY <1>4 DEF Exhausted, workerVars, stateVars, history
    <2> QED
      BY <2>1, <2>2, <2>3, UnchangedTypes
  <1>5. CASE StopAgent
    <2>1. idx \in 1 .. 7
      BY <1>5 DEF StopAgent, ControlTypes
    <2>2. ControlTypes' /\ (pc \notin Outer => idx <= 7)'
      BY <1>5, <2>1 DEF StopAgent, ControlTypes
    <2>3. StateTypes'
      BY <1>5, <2>1, AgentFailedTypes DEF StopAgent, StateTypes
    <2>4. UNCHANGED <<<<nodes, phases>>, workerVars, history>>
      BY <1>5 DEF StopAgent, workerVars, stateVars, history
    <2> QED
      BY <2>2, <2>3, <2>4, UnchangedTypes
  <1>6. CASE NoCommand
    <2>1. ControlTypes' /\ (pc \notin Outer => idx <= 7)'
      BY <1>6 DEF NoCommand, ControlTypes
    <2>2. UNCHANGED <<<<nodes, phases>>, workerVars, <<stateVars, dirty, reward>>, history>>
      BY <1>6 DEF NoCommand, workerVars, stateVars, history
    <2> QED
      BY <2>1, <2>2, UnchangedTypes
  <1>7. CASE Approved
    <2>1. ControlTypes' /\ (pc \notin Outer => idx <= 7)'
      BY <1>7 DEF Approved, ControlTypes
    <2>2. UNCHANGED <<<<nodes, phases>>, workerVars, <<stateVars, dirty, reward>>, history>>
      BY <1>7 DEF Approved, workerVars, stateVars, history
    <2> QED
      BY <2>1, <2>2, UnchangedTypes
  <1>8. CASE Execute
    <2>1. idx \in 1 .. 7
      BY <1>8 DEF Execute, ControlTypes
    <2>2. ControlTypes' /\ (pc \notin Outer => idx <= 7)'
      BY <1>8, <2>1 DEF Execute, ControlTypes
    <2>3. GraphTypes'
      BY <1>8, <2>1, AppendType DEF Execute, NodeType, GraphTypes
    <2>4. WorkerTypes'
      BY <1>8, <2>1, AppendType DEF Execute, NodeType, WorkerTypes
    <2>5. StateTypes'
      BY <1>8, <2>1 DEF Execute, StateTypes
    <2>6. HistoryTypes'
      BY <1>8, <2>1 DEF Execute, HistoryTypes
    <2> QED
      BY <2>2, <2>3, <2>4, <2>5, <2>6
  <1>9. CASE Finish
    <2>1. ControlTypes' /\ (pc \notin Outer => idx <= 7)'
      BY <1>9 DEF Finish, ControlTypes
    <2>2. StateTypes'
      BY <1>9 DEF Finish, StateTypes
    <2>3. UNCHANGED <<<<nodes, phases>>, workerVars, history>>
      BY <1>9 DEF Finish, workerVars, stateVars, history
    <2> QED
      BY <2>1, <2>2, <2>3, UnchangedTypes
  <1>10. CASE Verdict
    <2>1. ControlTypes' /\ (pc \notin Outer => idx <= 7)'
      BY <1>10 DEF Verdict, ControlTypes
    <2>2. StateTypes'
      BY <1>10 DEF Verdict, StateTypes
    <2>3. HistoryTypes'
      BY <1>10 DEF Verdict, HistoryTypes
    <2>4. UNCHANGED <<<<nodes, phases>>, workerVars>>
      BY <1>10 DEF Verdict, workerVars, stateVars, history
    <2> QED
      BY <2>1, <2>2, <2>3, <2>4, UnchangedTypes
  <1>11. CASE AgentException
    <2>1. idx \in 1 .. 7
      BY <1>11 DEF AgentException, ControlTypes
    <2>2. ControlTypes' /\ (pc \notin Outer => idx <= 7)'
      BY <1>11, <2>1 DEF AgentException, ControlTypes
    <2>3. StateTypes'
      BY <1>11, <2>1, AgentFailedTypes DEF AgentException, StateTypes
    <2>4. UNCHANGED <<<<nodes, phases>>, workerVars, history>>
      BY <1>11 DEF AgentException, workerVars, stateVars, history
    <2> QED
      BY <2>2, <2>3, <2>4, UnchangedTypes
  <1>12. CASE NodeException
    <2>1. ControlTypes' /\ (pc \notin Outer => idx <= 7)'
      BY <1>12 DEF NodeException, ControlTypes
    <2>2. StateTypes'
      BY <1>12 DEF NodeException, StateTypes
    <2>3. UNCHANGED <<<<nodes, phases>>, workerVars, history>>
      BY <1>12 DEF NodeException, workerVars, stateVars, history
    <2> QED
      BY <2>1, <2>2, <2>3, UnchangedTypes
  <1>13. CASE MergeLocate
    <2>1. idx \in 1 .. 7
      BY <1>13, AtStepIdx DEF MergeLocate
    <2>2. ControlTypes' /\ (pc \notin Outer => idx <= 7)'
      <3>1. config' = config /\ iter' = iter /\ got' = got /\ anchor' = anchor
        BY <1>13 DEF MergeLocate
      <3>2. \/ pc' = "step" /\ idx' = idx + 1
            \/ pc' = "consume" /\ idx' = idx
        BY <1>13 DEF MergeLocate
      <3> QED
        BY <3>1, <3>2, <2>1 DEF ControlTypes
    <2>3. StateTypes'
      BY <1>13 DEF MergeLocate, StateTypes, Marks, StepNames
    <2>4. HistoryTypes'
      BY <1>13 DEF MergeLocate, HistoryTypes, StepNames
    <2>5. UNCHANGED <<nodes, phases, workerVars>>
      BY <1>13 DEF MergeLocate
    <2> QED
      BY <2>2, <2>3, <2>4, <2>5, UnchangedTypes
  <1> QED
    BY <1>1, <1>2, <1>3, <1>4, <1>5, <1>6, <1>7, <1>8, <1>9, <1>10, <1>11, <1>12, <1>13 DEF Agent

LEMMA NoFaultType == NoFault \in Fault
  BY DEF NoFault, Fault, FaultKind

(* What _maybe_perceive acts on: the report it consumed, or a fault whose   *)
(* nodes are VALID.                                                         *)
LEMMA FaultsSeenType ==
    ASSUME TypeOK, NEW f \in FaultsSeen
    PROVE  f \in Fault /\ (f = got \/ f.ids \subseteq ValidIdx(nodes))
  <1>1. CASE f = got
    BY <1>1 DEF TypeOK, ControlTypes
  <1>2. CASE f = [kind |-> "external", ids |-> {}, stop |-> FALSE]
    BY <1>2 DEF Fault, FaultKind
  <1>3. CASE f \in Signals(nodes)
    BY <1>3, ReportsAreValid DEF TypeOK, GraphTypes
  <1>4. CASE f = NoFault
    BY <1>4, NoFaultType DEF NoFault
  <1>5. \/ f = got \/ f = [kind |-> "external", ids |-> {}, stop |-> FALSE]
        \/ f \in Signals(nodes) \/ f = NoFault
    BY Zenon DEF FaultsSeen
  <1> QED
    BY <1>1, <1>2, <1>3, <1>4, <1>5

(* The end of _maybe_perceive leads to the next step.                       *)
LEMMA NextStepTypes ==
    ASSUME TypeOK, idx \in 1 .. 7, NEW mark \in Marks, NextStep(mark),
           config' = config, iter' = iter, anchor' \in Nat
    PROVE  /\ ControlTypes' /\ pc' = "step"
           /\ cur' \in [base : StepNames \cup {""}, mark : Marks]
  <1> USE DEF TypeOK
  <1>1. pc' = "step" /\ idx' \in 1 .. 8 /\ got' \in Fault
    <2>1. pc' = "step" /\ idx' = idx + 1 /\ got' = NoFault
      BY DEF NextStep
    <2> QED
      BY <2>1, NoFaultType
  <1>2. config' \in Configs /\ iter' \in 0 .. config'.limit
    BY DEF ControlTypes
  <1>3. cur' \in [base : StepNames \cup {""}, mark : Marks]
    <2>1. cur \in [base : StepNames \cup {""}, mark : Marks]
      BY DEF StateTypes
    <2>2. cur' = cur \/ cur' = [cur EXCEPT !.mark = mark]
      BY DEF NextStep
    <2> QED
      BY <2>1, <2>2
  <1> QED
    BY <1>1, <1>2, <1>3 DEF ControlTypes

LEMMA AnchorType ==
    ASSUME TypeOK, NEW h, NEW ids \in SUBSET Nat
    PROVE  /\ InternalSummary(nodes, phases, ids, h).anchor \in Nat
           /\ ExternalSummary(nodes, phases, h).anchor \in Nat
  <1> DEFINE all == Collected(nodes, ids, h)
  <1> DEFINE side == HealthySide(nodes, all, ids)
  <1>1. DOMAIN nodes \subseteq Nat
    BY DEF TypeOK, GraphTypes
  <1>2. \A S \in SUBSET Nat : LastOf(S) \in Nat
    BY LastOfIsNat
  <1>3. LastHealthy(nodes, side) \in Nat
    <2>1. side \subseteq Nat
      BY <1>1 DEF HealthySide, Collected
    <2> QED
      BY <2>1, <1>2 DEF LastHealthy
  <1>4. ExternalSummary(nodes, phases, h).anchor \in Nat
    <2>1. \A k : PhaseNodes(nodes, phases, k) \subseteq Nat
      BY <1>1 DEF PhaseNodes
    <2>2. Collected(nodes, {}, h) \subseteq Nat
      BY <1>1 DEF Collected
    <2> QED
      BY <2>1, <2>2, <1>2 DEF ExternalSummary
  <1> QED
    BY <1>3, <1>4 DEF InternalSummary

(* What a recovery makes of the memory graph, the worktree and the anchor.  *)
LEMMA RecoverSummary ==
    ASSUME TypeOK, Recover
    PROVE  /\ nodes' \in {nodes, UpdateValidity(nodes, FaultyTail(nodes, got.ids))}
           /\ dirty' \in {dirty, FALSE}
           /\ anchor' \in Nat
           /\ \E h \in Histories :
                anchor' \in {anchor,
                    IF got.kind = "external"
                    THEN ExternalSummary(nodes, phases, h).anchor
                    ELSE InternalSummary(nodes, phases, got.ids, h).anchor}
  <1> DEFINE sum(h) == IF got.kind = "external"
                       THEN ExternalSummary(nodes, phases, h)
                       ELSE InternalSummary(nodes, phases, got.ids, h)
  <1>1. PICK h \in Histories, discard \in BOOLEAN :
          /\ nodes' = IF discard
                      THEN UpdateValidity(nodes, FaultyTail(nodes, got.ids))
                      ELSE nodes
          /\ dirty' \in IF sum(h).snapshot THEN {dirty, FALSE} ELSE {dirty}
          /\ anchor' = IF config.relay /\ sum(h).anchor = NoNode
                       THEN anchor ELSE sum(h).anchor
    BY Zenon DEF Recover
  <1>2. anchor' \in {anchor, sum(h).anchor}
    BY <1>1
  <1>3. anchor \in Nat /\ got.ids \in SUBSET Nat
    BY DEF TypeOK, ControlTypes, Fault
  <1>4. sum(h).anchor \in Nat
    BY <1>3, AnchorType
  <1> QED
    BY <1>1, <1>2, <1>3, <1>4

LEMMA PerceiveTypeInv ==
    TypeInv /\ (Perceive \/ LoopEnds \/ StopPerception \/ Reward) => TypeInv'
  <1> SUFFICES ASSUME TypeInv, Perceive \/ LoopEnds \/ StopPerception \/ Reward
               PROVE  TypeInv'
    OBVIOUS
  <1> USE DEF TypeInv, TypeOK, Outer
  <1>1. CASE ReadSignal
    <2>1. ControlTypes' /\ (pc \notin Outer => idx <= 7)'
      BY <1>1 DEF ReadSignal, ControlTypes, WorkerTypes
    <2>2. UNCHANGED <<<<nodes, phases>>, workerVars, <<stateVars, dirty, reward>>, history>>
      BY <1>1 DEF ReadSignal, workerVars, stateVars, history
    <2> QED
      BY <2>1, <2>2, UnchangedTypes
  <1>2. CASE ClearSignal
    <2>1. ControlTypes' /\ (pc \notin Outer => idx <= 7)'
      BY <1>2 DEF ClearSignal, ControlTypes
    <2>2. WorkerTypes'
      BY <1>2, NoFaultType DEF ClearSignal, WorkerTypes
    <2>3. UNCHANGED <<<<nodes, phases>>, <<stateVars, dirty, reward>>, history>>
      BY <1>2 DEF ClearSignal, workerVars, stateVars, history
    <2> QED
      BY <2>1, <2>2, <2>3, UnchangedTypes
  <1>3. CASE Healthy
    <2>1. idx \in 1 .. 7
      <3>1. pc = "decide"
        BY <1>3, Zenon DEF Healthy
      <3> QED
        BY <3>1 DEF ControlTypes
    <2>2. ControlTypes' /\ (pc \notin Outer => idx <= 7)'
      BY <1>3, <2>1, NextStepTypes DEF Healthy, ControlTypes, Marks
    <2>3. StateTypes'
      BY <1>3, <2>1, NextStepTypes DEF Healthy, StateTypes, ControlTypes, Marks
    <2>4. UNCHANGED <<<<nodes, phases>>, workerVars, history>>
      BY <1>3 DEF Healthy, workerVars, stateVars, history
    <2> QED
      BY <2>2, <2>3, <2>4, UnchangedTypes
  <1>4. CASE PrefaultStop
    <2>1. idx \in 1 .. 7
      BY <1>4 DEF PrefaultStop, ControlTypes
    <2>2. ControlTypes' /\ (pc \notin Outer => idx <= 7)'
      BY <1>4, <2>1, NextStepTypes DEF PrefaultStop, ControlTypes, Marks
    <2>3. StateTypes'
      BY <1>4, <2>1, NextStepTypes DEF PrefaultStop, StateTypes, ControlTypes, Marks
    <2>4. UNCHANGED <<<<nodes, phases>>, workerVars, history>>
      BY <1>4 DEF PrefaultStop, workerVars, stateVars, history
    <2> QED
      BY <2>2, <2>3, <2>4, UnchangedTypes
  <1>5. CASE Unrecoverable
    <2>1. idx \in 1 .. 7
      BY <1>5 DEF Unrecoverable, ControlTypes
    <2>2. ControlTypes' /\ (pc \notin Outer => idx <= 7)'
      BY <1>5, <2>1, NextStepTypes DEF Unrecoverable, ControlTypes, Marks
    <2>3. StateTypes'
      <3>1. cur' \in [base : StepNames \cup {""}, mark : Marks]
        BY <1>5, <2>1, NextStepTypes DEF Unrecoverable, ControlTypes, Marks
      <3>2. recoveries' = recoveries + 1 /\ success' = FALSE /\ error' = "agent"
            /\ UNCHANGED <<patch, located, context, dirty, reward>>
        BY <1>5 DEF Unrecoverable
      <3>3. recoveries \in Nat /\ recoveries + 1 \in Nat
        <4>1. recoveries \in Nat
          BY Zenon DEF StateTypes
        <4> QED
          BY <4>1
      <3> QED
        BY <3>1, <3>2, <3>3 DEF StateTypes
    <2>4. UNCHANGED <<<<nodes, phases>>, workerVars, history>>
      BY <1>5 DEF Unrecoverable, workerVars, stateVars, history
    <2> QED
      BY <2>2, <2>3, <2>4, UnchangedTypes
  <1>6. CASE HandleFault
    <2>1. ControlTypes' /\ (pc \notin Outer => idx <= 7)'
      BY <1>6, FaultsSeenType DEF HandleFault, ControlTypes
    <2>2. GraphTypes'
      BY <1>6, UpdateValidityType, MarkPhaseInvalidType DEF HandleFault, GraphTypes
    <2>3. StateTypes'
      <3>1. recoveries' = recoveries + 1
            /\ UNCHANGED <<cur, success, error, patch, located, context, dirty, reward>>
        BY <1>6 DEF HandleFault
      <3>2. recoveries \in Nat /\ recoveries + 1 \in Nat
        <4>1. recoveries \in Nat
          BY Zenon DEF StateTypes
        <4> QED
          BY <4>1
      <3> QED
        BY <3>1, <3>2 DEF StateTypes
    <2>4. HistoryTypes'
      BY <1>6 DEF HandleFault, HistoryTypes
    <2>5. UNCHANGED <<workerVars>>
      BY <1>6 DEF HandleFault, workerVars, stateVars, history
    <2> QED
      BY <2>1, <2>2, <2>3, <2>4, <2>5, UnchangedTypes
  <1>7. CASE InjectFault
    <2>1. idx \in 1 .. 7
      BY <1>7, AtStepIdx DEF InjectFault
    <2>2. ControlTypes' /\ (pc \notin Outer => idx <= 7)'
      <3>1. config' = config /\ iter' = iter /\ anchor' = anchor
        BY <1>7 DEF InjectFault
      <3>2. CASE config.recovery
        <4>1. pc' = "recover" /\ idx' = idx
              /\ got' = [kind |-> "injected", ids |-> {}, stop |-> FALSE]
          BY <1>7, <3>2 DEF InjectFault
        <4>2. got' \in Fault
          BY <4>1 DEF Fault, FaultKind
        <4> QED
          BY <3>1, <4>1, <4>2, <2>1 DEF ControlTypes
      <3>3. CASE ~ config.recovery
        <4>1. pc' = "step" /\ idx' = idx + 1 /\ got' = got
          BY <1>7, <3>3 DEF InjectFault
        <4> QED
          BY <3>1, <4>1, <2>1 DEF ControlTypes
      <3> QED
        BY <3>2, <3>3
    <2>3. GraphTypes'
      <3>1. nodes' = nodes /\ phases' \in {phases, MarkPhaseInvalid(phases, "implementer")}
        BY <1>7 DEF InjectFault
      <3> QED
        BY <3>1, MarkPhaseInvalidType DEF GraphTypes
    <2>4. StateTypes'
      <3>1. /\ recoveries' = recoveries + 1
            /\ success' \in {success, FALSE} /\ error' \in {error, "agent"}
            /\ UNCHANGED <<patch, located, context, dirty, reward>>
        BY <1>7 DEF InjectFault
      <3>2. cur' \in [base : StepNames \cup {""}, mark : Marks]
        <4>1. cur' \in {[base |-> "implement", mark |-> ""],
                        [base |-> "implement", mark |-> "_fault_injected"]}
          BY <1>7 DEF InjectFault
        <4>2. \A b \in StepNames, n \in Marks :
                [base |-> b, mark |-> n] \in [base : StepNames \cup {""}, mark : Marks]
          OBVIOUS
        <4>3. "implement" \in StepNames /\ "" \in Marks /\ "_fault_injected" \in Marks
          BY DEF StepNames, Marks
        <4> QED
          BY <4>1, <4>2, <4>3, Zenon
      <3>3. recoveries \in Nat /\ recoveries + 1 \in Nat
        <4>1. recoveries \in Nat
          BY Zenon DEF StateTypes
        <4> QED
          BY <4>1
      <3> QED
        BY <3>1, <3>2, <3>3 DEF StateTypes
    <2>5. UNCHANGED <<workerVars, history>>
      BY <1>7 DEF InjectFault
    <2> QED
      BY <2>2, <2>3, <2>4, <2>5, UnchangedTypes
  <1>8. CASE Recover
    <2>1. idx \in 1 .. 7
      <3>1. pc = "recover"
        BY <1>8, Zenon DEF Recover
      <3> QED
        BY <3>1 DEF ControlTypes
    <2>2. /\ nodes' \in {nodes, UpdateValidity(nodes, FaultyTail(nodes, got.ids))}
          /\ dirty' \in {dirty, FALSE}
          /\ anchor' \in Nat
      BY <1>8, RecoverSummary
    <2>3. /\ config' = config /\ iter' = iter
          /\ UNCHANGED <<workerVars, patch, located, recoveries, phases, reward, history>>
      BY <1>8, Zenon DEF Recover
    <2>4. PICK mark \in Marks : NextStep(mark)
      BY <1>8 DEF Recover, Marks
    <2>5. ControlTypes' /\ pc' = "step"
          /\ cur' \in [base : StepNames \cup {""}, mark : Marks]
      BY <2>1, <2>2, <2>3, <2>4, NextStepTypes
    <2>6. GraphTypes'
      BY <2>2, <2>3, UpdateValidityType DEF GraphTypes
    <2>7. StateTypes'
      <3>1. context' \in {context, TRUE} /\ success' \in {success, TRUE, FALSE}
            /\ error' \in {error, "none", "agent"}
        BY <1>8 DEF Recover, Relay
      <3> QED
        BY <3>1, <2>2, <2>3, <2>5 DEF StateTypes
    <2> QED
      BY <2>3, <2>5, <2>6, <2>7, UnchangedTypes
  <1>9. CASE WorkflowException
    <2>1. ControlTypes' /\ (pc \notin Outer => idx <= 7)'
      BY <1>9, NoFaultType DEF WorkflowException, ControlTypes
    <2>2. StateTypes'
      BY <1>9 DEF WorkflowException, StateTypes
    <2>3. UNCHANGED <<<<nodes, phases>>, workerVars, history>>
      BY <1>9 DEF WorkflowException, workerVars, stateVars, history
    <2> QED
      BY <2>1, <2>2, <2>3, UnchangedTypes
  <1>10. CASE LoopEnds
    <2>1. ControlTypes' /\ (pc \notin Outer => idx <= 7)'
      BY <1>10 DEF LoopEnds, ControlTypes
    <2>2. UNCHANGED <<<<nodes, phases>>, workerVars, <<stateVars, dirty, reward>>, history>>
      BY <1>10 DEF LoopEnds, workerVars, stateVars, history
    <2> QED
      BY <2>1, <2>2, UnchangedTypes
  <1>11. CASE StopPerception
    <2>1. ControlTypes' /\ (pc \notin Outer => idx <= 7)'
      BY <1>11 DEF StopPerception, ControlTypes
    <2>2. WorkerTypes'
      BY <1>11 DEF StopPerception, StopWorker, WorkerTypes
    <2>3. UNCHANGED <<<<nodes, phases>>, <<stateVars, dirty, reward>>, history>>
      BY <1>11 DEF StopPerception, workerVars, stateVars, history
    <2> QED
      BY <2>1, <2>2, <2>3, UnchangedTypes
  <1>12. CASE Reward
    <2>1. ControlTypes' /\ (pc \notin Outer => idx <= 7)'
      BY <1>12 DEF Reward, ControlTypes
    <2>2. StateTypes'
      <3>1. reward' \in {-1, 0, 1} /\ UNCHANGED <<stateVars, dirty>>
        BY <1>12 DEF Reward
      <3> QED
        BY <3>1 DEF StateTypes, stateVars
    <2>3. UNCHANGED <<<<nodes, phases>>, workerVars, history>>
      BY <1>12 DEF Reward, workerVars, stateVars, history
    <2> QED
      BY <2>1, <2>2, <2>3, UnchangedTypes
  <1> QED
    BY <1>1, <1>2, <1>3, <1>4, <1>5, <1>6, <1>7, <1>8, <1>9, <1>10, <1>11, <1>12 DEF Perceive

LEMMA NextTypeInv == TypeInv /\ [Next]_vars => TypeInv'
  <1> SUFFICES ASSUME TypeInv, [Next]_vars PROVE TypeInv'
    OBVIOUS
  <1>1. CASE Main
    BY <1>1, AgentTypeInv, PerceiveTypeInv DEF Main
  <1>2. CASE WorkerStep
    BY <1>2, WorkerTypeInv
  <1>3. CASE UNCHANGED vars
    <2>1. UNCHANGED <<nodes, phases, workerVars, stateVars, dirty, reward, history>>
          /\ UNCHANGED <<config, pc, idx, iter, got, anchor>>
      BY <1>3 DEF vars
    <2>2. ControlTypes' /\ (pc \notin Outer => idx <= 7)'
      BY <2>1 DEF TypeInv, TypeOK, ControlTypes
    <2> QED
      BY <2>1, <2>2, UnchangedTypes DEF TypeInv, TypeOK
  <1> QED
    BY <1>1, <1>2, <1>3 DEF Next

(* Every variable has its type in every run.                                *)
THEOREM TypeCorrect == Spec => []TypeOK
  <1>1. Spec => []TypeInv
    BY InitTypeInv, NextTypeInv, PTL DEF Spec
  <1>2. TypeInv => TypeOK
    BY DEF TypeInv
  <1> QED
    BY <1>1, <1>2, PTL

-----------------------------------------------------------------------------
(* A stale fault is acted upon at most once.  The worker can be reporting   *)
(* only while nothing it reported was ever consumed; a report it leaves in  *)
(* the mailbox, or that was just read from it, is the only one there will   *)
(* be; and what perception finds in the orchestrator's thread is not stale. *)

ReportsInv ==
    /\ stale <= 1
    /\ wpc # "ended" => /\ signal = NoFault /\ stale = 0
                        /\ pc \in {"clear", "decide"} => got = NoFault
    /\ signal # NoFault => /\ stale = 0
                           /\ pc = "decide" => got = NoFault
                           /\ pc = "clear" => got \in {signal, NoFault}
    /\ pc \in {"clear", "decide"} /\ got # NoFault => stale = 0

LEMMA QuietStep ==
    ASSUME ReportsInv, UNCHANGED <<signal, wpc, stale>>, pc' \notin {"clear", "decide"}
    PROVE  ReportsInv'
  BY DEF ReportsInv

LEMMA QuietMain ==
    ASSUME TypeInv, Main
    PROVE  \/ UNCHANGED <<signal, wpc, stale>> /\ pc' \notin {"clear", "decide"}
           \/ ReadSignal \/ ClearSignal \/ HandleFault
  <1>1. CASE StartAgent
    BY <1>1 DEF StartAgent, workerVars, history
  <1>2. CASE ModelReply
    BY <1>2 DEF ModelReply, workerVars, history
  <1>3. CASE ModelError
    BY <1>3 DEF ModelError, workerVars, history
  <1>4. CASE Exhausted
    BY <1>4 DEF Exhausted, workerVars, history
  <1>5. CASE StopAgent
    BY <1>5 DEF StopAgent, workerVars, history
  <1>6. CASE NoCommand
    BY <1>6 DEF NoCommand, workerVars, history
  <1>7. CASE Approved
    BY <1>7 DEF Approved, workerVars, history
  <1>8. CASE Execute
    BY <1>8 DEF Execute, workerVars, history
  <1>9. CASE Finish
    BY <1>9 DEF Finish, workerVars, history
  <1>10. CASE Verdict
    BY <1>10 DEF Verdict, workerVars, history
  <1>11. CASE AgentException
    BY <1>11 DEF AgentException, workerVars, history
  <1>12. CASE NodeException
    BY <1>12 DEF NodeException, workerVars, history
  <1>13. CASE MergeLocate
    BY <1>13 DEF MergeLocate, workerVars, history
  <1>14. CASE Healthy
    BY <1>14 DEF Healthy, NextStep, workerVars, history
  <1>15. CASE PrefaultStop
    BY <1>15 DEF PrefaultStop, NextStep, workerVars, history
  <1>16. CASE Unrecoverable
    BY <1>16 DEF Unrecoverable, NextStep, workerVars, history
  <1>17. CASE InjectFault
    BY <1>17 DEF InjectFault, workerVars, history
  <1>18. CASE Recover
    BY <1>18 DEF Recover, NextStep, workerVars, history
  <1>19. CASE WorkflowException
    BY <1>19 DEF WorkflowException, workerVars, history
  <1>20. CASE LoopEnds
    BY <1>20 DEF LoopEnds, workerVars, history
  <1>21. CASE StopPerception
    BY <1>21 DEF StopPerception, workerVars, history
  <1>22. CASE Reward
    BY <1>22 DEF Reward, workerVars, history
  <1> QED
    BY <1>1, <1>2, <1>3, <1>4, <1>5, <1>6, <1>7, <1>8, <1>9, <1>10, <1>11, <1>12, <1>13, <1>14, <1>15, <1>16, <1>17, <1>18, <1>19, <1>20, <1>21, <1>22 DEF Main, Agent, Perceive

LEMMA NextReportsInv == TypeInv /\ ReportsInv /\ [Next]_vars => ReportsInv'
  <1> SUFFICES ASSUME TypeInv, ReportsInv, [Next]_vars PROVE ReportsInv'
    OBVIOUS
  <1>1. CASE ReadSignal
    BY <1>1 DEF ReadSignal, ReportsInv, workerVars, history
  <1>2. CASE ClearSignal
    BY <1>2 DEF ClearSignal, ReportsInv, history
  <1>3. CASE HandleFault
    <2>1. pc = "decide" /\ pc' = "recover" /\ UNCHANGED <<signal, wpc>>
      BY <1>3 DEF HandleFault, workerVars
    <2>2. PICK f \in FaultsSeen \ {NoFault} :
            stale' = IF \E i \in f.ids \cap DOMAIN nodes : ~ nodes[i].ok
                     THEN stale + 1 ELSE stale
      BY <1>3 DEF HandleFault
    <2>3. CASE f = got
      BY <2>1, <2>2, <2>3 DEF ReportsInv
    <2>4. CASE f # got
      <3>1. f.ids \subseteq ValidIdx(nodes)
        BY <2>4, FaultsSeenType DEF TypeInv
      <3>2. stale' = stale
        BY <2>2, <3>1 DEF ValidIdx
      <3> QED
        BY <2>1, <3>2, QuietStep
    <2> QED
      BY <2>3, <2>4
  <1>4. CASE WorkerStep
    <2>1. UNCHANGED <<pc, got, stale>>
      BY <1>4 DEF WorkerStep, history
    <2>2. CASE WorkerHead
      BY <2>1, <2>2 DEF WorkerHead, ReportsInv
    <2>3. CASE WorkerWait
      BY <2>1, <2>3 DEF WorkerWait, ReportsInv
    <2>4. CASE WorkerScan
      BY <2>1, <2>4 DEF WorkerScan, ReportsInv
    <2>5. CASE WorkerPost
      BY <2>1, <2>5 DEF WorkerPost, ReportsInv
    <2> QED
      BY <1>4, <2>2, <2>3, <2>4, <2>5 DEF WorkerStep, Worker
  <1>5. CASE UNCHANGED <<signal, wpc, stale>> /\ pc' \notin {"clear", "decide"}
    BY <1>5, QuietStep
  <1>6. CASE UNCHANGED vars
    BY <1>6 DEF vars, workerVars, history, ReportsInv
  <1> QED
    BY <1>1, <1>2, <1>3, <1>4, <1>5, <1>6, QuietMain DEF Next

LEMMA ReportsInvHolds == Spec => [](TypeInv /\ ReportsInv)
  <1>1. Init => ReportsInv
    <2>1. Init => stale = 0 /\ signal = NoFault /\ pc = "step" /\ got = NoFault
      BY DEF Init, WorkerInit
    <2> QED
      BY <2>1 DEF ReportsInv
  <1> QED
    BY <1>1, InitTypeInv, NextTypeInv, NextReportsInv, PTL DEF Spec

(* In every run a fault whose nodes an earlier recovery discarded is acted  *)
(* upon at most once.                                                       *)
THEOREM StaleFaultsAreRare == Spec => []StaleAtMostOnce
  <1>1. ReportsInv => StaleAtMostOnce
    BY DEF ReportsInv, StaleAtMostOnce
  <1> QED
    BY <1>1, ReportsInvHolds, PTL

(* The reset of the mailbox only ever wipes out the report that was read,   *)
(* or one posted after the mailbox had been found empty.                    *)
THEOREM ResetIsPrecise == Spec => ResetWipesWhatWasRead
  <1> DEFINE Precise == signal # NoFault /\ signal' = NoFault => got \in {signal, NoFault}
  <1>1. TypeInv /\ ReportsInv /\ [Next]_vars => [Precise]_vars
    <2> SUFFICES ASSUME TypeInv, ReportsInv, Next PROVE Precise
      OBVIOUS
    <2>1. CASE ReadSignal \/ HandleFault \/ UNCHANGED <<signal, wpc, stale>>
      BY <2>1 DEF ReadSignal, HandleFault, workerVars
    <2>2. CASE ClearSignal
      BY <2>2 DEF ClearSignal, ReportsInv
    <2>3. CASE WorkerStep
      BY <2>3 DEF WorkerStep, Worker, WorkerHead, WorkerWait, WorkerScan, WorkerPost,
                  ReportsInv
    <2> QED
      BY <2>1, <2>2, <2>3, QuietMain DEF Next
  <1> QED
    BY <1>1, ReportsInvHolds, PTL DEF Spec, ResetWipesWhatWasRead

-----------------------------------------------------------------------------
(* The anchor an internal fault leads back to.                              *)

(* Every fault under way blames nodes of the trajectory.                    *)
BlameInv ==
    /\ found.ids \subseteq DOMAIN nodes
    /\ signal.ids \subseteq DOMAIN nodes
    /\ got.ids \subseteq DOMAIN nodes

(* A fault is passed on, found among the nodes of the trajectory, or blames *)
(* none; and the trajectory is only appended to or marked.                  *)
LEMMA MainEffect ==
    ASSUME TypeInv, Main
    PROVE  /\ found' = found /\ signal' \in {signal, NoFault}
           /\ \/ got' \in {got, signal, NoFault} \cup FaultsSeen
              \/ got' = [kind |-> "injected", ids |-> {}, stop |-> FALSE]
           /\ \/ nodes' = nodes
              \/ \E n : nodes' = Append(nodes, n)
              \/ \E ids : nodes' = UpdateValidity(nodes, ids)
  <1>1. CASE StartAgent
    BY <1>1 DEF StartAgent, workerVars
  <1>2. CASE Exhausted
    BY <1>2 DEF Exhausted, workerVars
  <1>3. CASE StopAgent
    BY <1>3 DEF StopAgent, workerVars
  <1>4. CASE NoCommand
    BY <1>4 DEF NoCommand, workerVars
  <1>5. CASE Approved
    BY <1>5 DEF Approved, workerVars
  <1>6. CASE Finish
    BY <1>6 DEF Finish, workerVars
  <1>7. CASE Verdict
    BY <1>7 DEF Verdict, workerVars
  <1>8. CASE AgentException
    BY <1>8 DEF AgentException, workerVars
  <1>9. CASE NodeException
    BY <1>9 DEF NodeException, workerVars
  <1>10. CASE MergeLocate
    BY <1>10 DEF MergeLocate, workerVars
  <1>11. CASE WorkflowException
    BY <1>11 DEF WorkflowException, workerVars
  <1>12. CASE LoopEnds
    BY <1>12 DEF LoopEnds, workerVars
  <1>13. CASE StopPerception
    BY <1>13 DEF StopPerception, workerVars
  <1>14. CASE Reward
    BY <1>14 DEF Reward, workerVars
  <1>15. CASE Healthy
    BY <1>15 DEF Healthy, NextStep, workerVars
  <1>16. CASE PrefaultStop
    BY <1>16 DEF PrefaultStop, NextStep, workerVars
  <1>17. CASE Unrecoverable
    BY <1>17 DEF Unrecoverable, NextStep, workerVars
  <1>18. CASE ModelReply
    <2>1. \E n : nodes' = Append(nodes, n)
      BY <1>18 DEF ModelReply, RecorderAppend
    <2>2. UNCHANGED <<found, signal, got>>
      BY <1>18 DEF ModelReply
    <2> QED
      BY <2>1, <2>2
  <1>19. CASE ModelError
    <2>1. \E n : nodes' = Append(nodes, n)
      BY <1>19 DEF ModelError, RecorderAppend
    <2>2. UNCHANGED <<found, signal, got>>
      BY <1>19 DEF ModelError
    <2> QED
      BY <2>1, <2>2
  <1>20. CASE Execute
    <2>1. \E n : nodes' = Append(nodes, n)
      BY <1>20 DEF Execute, RecorderAppend
    <2>2. UNCHANGED <<found, signal, got>>
      BY <1>20 DEF Execute
    <2> QED
      BY <2>1, <2>2
  <1>21. CASE ReadSignal
    BY <1>21 DEF ReadSignal, workerVars
  <1>22. CASE ClearSignal
    BY <1>22 DEF ClearSignal, workerVars
  <1>23. CASE HandleFault
    <2>1. PICK f \in FaultsSeen : got' = f /\ nodes' = UpdateValidity(nodes, f.ids)
      BY <1>23 DEF HandleFault
    <2>2. UNCHANGED <<found, signal>>
      BY <1>23 DEF HandleFault, workerVars
    <2> QED
      BY <2>1, <2>2
  <1>24. CASE InjectFault
    BY <1>24 DEF InjectFault, workerVars
  <1>25. CASE Recover
    <2>1. nodes' \in {nodes, UpdateValidity(nodes, FaultyTail(nodes, got.ids))}
      BY <1>25, RecoverSummary DEF TypeInv
    <2>2. UNCHANGED <<found, signal>> /\ got' = NoFault
      BY <1>25 DEF Recover, NextStep, workerVars
    <2> QED
      BY <2>1, <2>2
  <1> QED
    BY <1>1, <1>2, <1>3, <1>4, <1>5, <1>6, <1>7, <1>8, <1>9, <1>10, <1>11, <1>12, <1>13, <1>14, <1>15, <1>16, <1>17, <1>18, <1>19, <1>20, <1>21, <1>22, <1>23, <1>24, <1>25 DEF Main, Agent, Perceive

LEMMA NextBlameInv == TypeInv /\ BlameInv /\ [Next]_vars => BlameInv'
  <1> SUFFICES ASSUME TypeInv, BlameInv, [Next]_vars PROVE BlameInv'
    OBVIOUS
  <1>1. nodes \in Seq(Node) /\ NoFault.ids = {}
    BY DEF TypeInv, TypeOK, GraphTypes, NoFault
  <1>2. ValidIdx(nodes) \subseteq DOMAIN nodes
    BY DEF ValidIdx
  <1>3. CASE Main
    <2>1. DOMAIN nodes \subseteq DOMAIN nodes'
      <3>1. \A n : DOMAIN nodes \subseteq DOMAIN Append(nodes, n)
        BY <1>1
      <3>2. \A ids : DOMAIN UpdateValidity(nodes, ids) = DOMAIN nodes
        BY <1>1, UpdateValidityType
      <3> QED
        BY <1>3, <3>1, <3>2, MainEffect
    <2>2. \A f \in FaultsSeen : f.ids \subseteq DOMAIN nodes
      BY <1>2, FaultsSeenType DEF TypeInv, BlameInv
    <2>3. got'.ids \subseteq DOMAIN nodes
      BY <1>1, <1>3, <2>2, MainEffect DEF BlameInv
    <2>4. signal'.ids \subseteq DOMAIN nodes /\ found' = found
      BY <1>1, <1>3, MainEffect DEF BlameInv
    <2> QED
      BY <2>1, <2>3, <2>4 DEF BlameInv
  <1>4. CASE WorkerStep
    <2>1. nodes' = nodes /\ got' = got
      BY <1>4 DEF WorkerStep, Worker, WorkerHead, WorkerWait, WorkerScan, WorkerPost
    <2>2. \A f \in Signals(nodes) : f.ids \subseteq DOMAIN nodes
      BY <1>1, <1>2, ReportsAreValid
    <2>3. found' \in {found, NoFault} \cup Signals(nodes) /\ signal' \in {signal, found}
      BY <1>4 DEF WorkerStep, Worker, WorkerHead, WorkerWait, WorkerScan, WorkerPost
    <2> QED
      BY <1>1, <2>1, <2>2, <2>3 DEF BlameInv
  <1>5. CASE UNCHANGED vars
    BY <1>5 DEF vars, workerVars, BlameInv
  <1> QED
    BY <1>3, <1>4, <1>5 DEF Next

LEMMA BlameInvHolds == Spec => [](TypeInv /\ BlameInv)
  <1>1. Init => BlameInv
    <2>1. Init => found = NoFault /\ signal = NoFault /\ got = NoFault
      BY DEF Init, WorkerInit
    <2> QED
      BY <2>1 DEF BlameInv, NoFault
  <1> QED
    BY <1>1, InitTypeInv, NextTypeInv, NextBlameInv, PTL DEF Spec

(* The summary of an internal fault names no anchor, or a VALID node that   *)
(* was recorded before every node the fault blames.                         *)
LEMMA InternalAnchor ==
    ASSUME NEW ns \in Seq(Node), NEW ph, NEW h, NEW ids \in SUBSET DOMAIN ns,
           NEW a, a = InternalSummary(ns, ph, ids, h).anchor, a # NoNode
    PROVE  /\ a \in ValidIdx(ns)
           /\ \A f \in ids : a < f
  <1> DEFINE all == Collected(ns, ids, h)
  <1> DEFINE side == HealthySide(ns, all, ids)
  <1> DEFINE good == {i \in side : ns[i].ok}
  <1> DEFINE intents == {i \in good : ns[i].type = "THOUGHT"}
  <1>1. a = LastHealthy(ns, side)
    BY DEF InternalSummary
  <1>2. a = LastOf(intents) \/ a = LastOf(good)
    BY <1>1 DEF LastHealthy
  <1>3. LastOf(intents) \in {NoNode} \cup intents /\ LastOf(good) \in {NoNode} \cup good
    BY LastOfIsMember
  <1>4. a \in good
    BY <1>2, <1>3
  <1>5. ids \cap all = ids
    BY DEF Collected
  <1>6. \A f \in ids : a < f
    BY <1>4, <1>5 DEF HealthySide
  <1> QED
    BY <1>4, <1>6 DEF ValidIdx, HealthySide, Collected

(* In every run the anchor set by the recovery of an internal fault is a    *)
(* VALID node recorded before the fault, and stays VALID when the faulty    *)
(* branch is discarded.                                                     *)
THEOREM InternalAnchorsAreHealthy == Spec => InternalAnchorHealthy
  <1> DEFINE Healthy1 ==
        pc = "recover" /\ got.kind # "external" /\ anchor' \notin {anchor, NoNode} =>
          /\ anchor' \in DOMAIN nodes'
          /\ nodes'[anchor'].ok
          /\ \A f \in got.ids : anchor' < f
  <1>1. TypeInv /\ BlameInv /\ [Next]_vars => [Healthy1]_vars
    <2> SUFFICES ASSUME TypeInv, BlameInv, Next, pc = "recover",
                        got.kind # "external", anchor' \notin {anchor, NoNode}
                 PROVE  /\ anchor' \in DOMAIN nodes'
                        /\ nodes'[anchor'].ok
                        /\ \A f \in got.ids : anchor' < f
      OBVIOUS
    <2>1. Recover
      BY DEF Next, WorkerStep, Main, Agent, Perceive, StartAgent, ModelReply, ModelError,
             Exhausted, StopAgent, NoCommand, Approved, Execute, Finish, Verdict,
             AgentException, NodeException, MergeLocate, AtStep, ReadSignal, ClearSignal,
             Healthy, PrefaultStop, Unrecoverable, HandleFault, InjectFault,
             WorkflowException, LoopEnds, StopPerception, Reward
    <2>2. nodes \in Seq(Node) /\ got.ids \in SUBSET DOMAIN nodes
      BY DEF TypeInv, TypeOK, GraphTypes, BlameInv
    <2>3. PICK h \in Histories :
            anchor' = InternalSummary(nodes, phases, got.ids, h).anchor
      BY <2>1, RecoverSummary DEF TypeInv
    <2>4. anchor' \in ValidIdx(nodes) /\ \A f \in got.ids : anchor' < f
      BY <2>2, <2>3, InternalAnchor
    <2>5. anchor' \notin FaultyTail(nodes, got.ids)
      BY <2>2, <2>4 DEF FaultyTail, ValidIdx
    <2>6. nodes' \in {nodes, UpdateValidity(nodes, FaultyTail(nodes, got.ids))}
      BY <2>1, RecoverSummary DEF TypeInv
    <2> QED
      BY <2>2, <2>4, <2>5, <2>6 DEF UpdateValidity, ValidIdx
  <1> QED
    BY <1>1, BlameInvHolds, PTL DEF Spec, InternalAnchorHealthy

-----------------------------------------------------------------------------
(* The safety part of RunIsEpisode: a run starts as an episode does, and    *)
(* each of its steps is a step of the episode or none.                      *)

Alive     == AtBoundary => success
Recovered == IF pc = "recover" THEN recoveries - 1 ELSE recoveries
Over      == pc \in {"finish", "reward", "done"}

LEMMA EpisodeView ==
    /\ UNCHANGED <<idx, Alive, Recovered, Over>> => UNCHANGED Outside!epVars
    /\ Outside!Pass <=> /\ ~ Over /\ Alive /\ idx <= Len(Steps)
                        /\ idx' = idx + 1 /\ Alive' \in BOOLEAN
                        /\ Recovered' \in {Recovered, Recovered + 1}
                        /\ UNCHANGED Over
    /\ Outside!End <=> /\ ~ Over /\ Over' = TRUE
                       /\ Alive' \in {Alive, FALSE}
                       /\ Recovered' \in {Recovered, Recovered + 1}
                       /\ idx' = idx
  BY DEF Outside!epVars, Outside!Pass, Outside!End, Alive, Recovered, Over

Inside == {"ask", "act", "exec", "consume", "clear", "decide"}

(* The view of a state, by where the orchestrator's thread is.              *)
LEMMA ViewInside ==
    /\ pc \in Inside  => Alive = TRUE /\ Over = FALSE /\ Recovered = recoveries
    /\ pc' \in Inside => Alive' = TRUE /\ Over' = FALSE /\ Recovered' = recoveries'
  <1>1. pc \in Inside => Alive /\ ~ Over /\ Recovered = recoveries
    BY DEF Inside, Alive, AtBoundary, Recovered, Over
  <1>2. pc' \in Inside => Alive' /\ ~ Over' /\ Recovered' = recoveries'
    BY DEF Inside, Alive, AtBoundary, Recovered, Over
  <1>3. Alive \in BOOLEAN /\ Over \in BOOLEAN /\ Alive' \in BOOLEAN /\ Over' \in BOOLEAN
    BY DEF Alive, Over
  <1> QED
    BY <1>1, <1>2, <1>3

LEMMA ViewRecover ==
    /\ pc = "recover"  => Alive = TRUE /\ Over = FALSE /\ Recovered = recoveries - 1
    /\ pc' = "recover" => Alive' = TRUE /\ Over' = FALSE /\ Recovered' = recoveries' - 1
  <1>1. pc = "recover" => Alive /\ ~ Over /\ Recovered = recoveries - 1
    BY DEF Alive, AtBoundary, Recovered, Over
  <1>2. pc' = "recover" => Alive' /\ ~ Over' /\ Recovered' = recoveries' - 1
    BY DEF Alive, AtBoundary, Recovered, Over
  <1>3. Alive \in BOOLEAN /\ Over \in BOOLEAN /\ Alive' \in BOOLEAN /\ Over' \in BOOLEAN
    BY DEF Alive, Over
  <1> QED
    BY <1>1, <1>2, <1>3

LEMMA ViewStep ==
    /\ pc = "step" /\ success \in BOOLEAN
         => Alive = success /\ Over = FALSE /\ Recovered = recoveries
    /\ pc' = "step" /\ success' \in BOOLEAN
         => Alive' = success' /\ Over' = FALSE /\ Recovered' = recoveries'
  <1>1. pc = "step" => AtBoundary /\ ~ Over /\ Recovered = recoveries
    BY DEF AtBoundary, Recovered, Over
  <1>2. pc' = "step" => AtBoundary' /\ ~ Over' /\ Recovered' = recoveries'
    BY DEF AtBoundary, Recovered, Over
  <1>3. Over \in BOOLEAN /\ Over' \in BOOLEAN
    BY DEF Over
  <1> QED
    BY <1>1, <1>2, <1>3, Zenon DEF Alive

LEMMA ViewOver ==
    /\ pc \in {"finish", "reward", "done"} /\ success \in BOOLEAN
         => Alive = success /\ Over = TRUE /\ Recovered = recoveries
    /\ pc' \in {"finish", "reward", "done"} /\ success' \in BOOLEAN
         => Alive' = success' /\ Over' = TRUE /\ Recovered' = recoveries'
  <1>1. pc \in {"finish", "reward", "done"} => AtBoundary /\ Over /\ Recovered = recoveries
    BY DEF AtBoundary, Recovered, Over
  <1>2. pc' \in {"finish", "reward", "done"} => AtBoundary' /\ Over' /\ Recovered' = recoveries'
    BY DEF AtBoundary, Recovered, Over
  <1>3. Over \in BOOLEAN /\ Over' \in BOOLEAN
    BY DEF Over
  <1> QED
    BY <1>1, <1>2, <1>3, Zenon DEF Alive

LEMMA InsideStutters ==
    ASSUME pc \in Inside, pc' \in Inside, UNCHANGED <<idx, recoveries>>
    PROVE  UNCHANGED Outside!epVars
  BY ViewInside, EpisodeView

LEMMA StepsLength == Len(Steps) = 7
  BY DEF Steps

(* A step is passed on the spot: no recovery is under way.                  *)
LEMMA PassesStep ==
    ASSUME pc \in Inside \/ (pc = "step" /\ success = TRUE), idx <= 7,
           pc' = "step", idx' = idx + 1, success' \in BOOLEAN,
           recoveries' \in {recoveries, recoveries + 1}
    PROVE  Outside!Pass
  <1>1. Alive = TRUE /\ Over = FALSE /\ Recovered = recoveries
    BY ViewInside, ViewStep
  <1>2. Alive' = success' /\ Over' = FALSE /\ Recovered' = recoveries'
    BY ViewStep
  <1> QED
    BY <1>1, <1>2, StepsLength, EpisodeView

LEMMA EpisodeStep == TypeInv /\ [Next]_vars => [Outside!EpNext]_(Outside!epVars)
  <1> SUFFICES ASSUME TypeInv, [Next]_vars
               PROVE  Outside!Pass \/ Outside!End \/ UNCHANGED Outside!epVars
    BY DEF Outside!EpNext
  <1>t. success \in BOOLEAN /\ recoveries \in Nat /\ (pc \in Inside \cup {"recover"} => idx <= 7)
    BY DEF TypeInv, TypeOK, StateTypes, Outer, Inside
  <1>r. (recoveries + 1) - 1 = recoveries /\ recoveries = (recoveries - 1) + 1
    BY <1>t
  <1>1. CASE ModelReply
    BY <1>1, InsideStutters DEF ModelReply, Inside, stateVars
  <1>2. CASE ModelError
    BY <1>2, InsideStutters DEF ModelError, Inside, stateVars
  <1>3. CASE Exhausted
    BY <1>3, InsideStutters DEF Exhausted, Inside, stateVars
  <1>4. CASE StopAgent
    BY <1>4, InsideStutters DEF StopAgent, Inside, stateVars
  <1>5. CASE NoCommand
    BY <1>5, InsideStutters DEF NoCommand, Inside, stateVars
  <1>6. CASE Approved
    BY <1>6, InsideStutters DEF Approved, Inside, stateVars
  <1>7. CASE Execute
    BY <1>7, InsideStutters DEF Execute, Inside, stateVars
  <1>8. CASE Finish
    BY <1>8, InsideStutters DEF Finish, Inside, stateVars
  <1>9. CASE Verdict
    BY <1>9, InsideStutters DEF Verdict, Inside, stateVars
  <1>10. CASE AgentException
    BY <1>10, InsideStutters DEF AgentException, Inside, stateVars
  <1>11. CASE NodeException
    BY <1>11, InsideStutters DEF NodeException, Inside, stateVars
  <1>12. CASE ReadSignal
    BY <1>12, InsideStutters DEF ReadSignal, Inside, stateVars
  <1>13. CASE ClearSignal
    BY <1>13, InsideStutters DEF ClearSignal, Inside, stateVars
  <1>14. CASE StartAgent
    <2>1. pc = "step" /\ success = TRUE /\ pc' = "ask" /\ UNCHANGED <<idx, recoveries>>
      BY <1>t, <1>14 DEF StartAgent, AtStep
    <2>2. Alive' = Alive /\ Recovered' = Recovered /\ Over' = Over
      BY <1>t, <2>1, ViewStep, ViewInside DEF Inside
    <2> QED
      BY <2>1, <2>2, EpisodeView
  <1>15. CASE HandleFault
    <2>1. pc = "decide" /\ pc' = "recover" /\ idx' = idx /\ recoveries' = recoveries + 1
      BY <1>15 DEF HandleFault
    <2>2. Alive' = Alive /\ Recovered' = Recovered /\ Over' = Over
      <3>1. Recovered' = recoveries' - 1 /\ Recovered = recoveries
        BY <2>1, ViewInside, ViewRecover DEF Inside
      <3>2. Alive' = Alive /\ Over' = Over
        BY <2>1, ViewInside, ViewRecover DEF Inside
      <3> QED
        BY <1>r, <2>1, <3>1, <3>2
    <2> QED
      BY <2>1, <2>2, EpisodeView
  <1>16. CASE StopPerception
    <2>1. pc = "finish" /\ pc' = "reward" /\ UNCHANGED <<idx, success, recoveries>>
      BY <1>16 DEF StopPerception, stateVars
    <2>2. Alive' = Alive /\ Recovered' = Recovered /\ Over' = Over
      BY <1>t, <2>1, ViewOver
    <2> QED
      BY <2>1, <2>2, EpisodeView
  <1>17. CASE Reward
    <2>1. pc = "reward" /\ pc' = "done" /\ UNCHANGED <<idx, success, recoveries>>
      BY <1>17 DEF Reward, stateVars
    <2>2. Alive' = Alive /\ Recovered' = Recovered /\ Over' = Over
      BY <1>t, <2>1, ViewOver
    <2> QED
      BY <2>1, <2>2, EpisodeView
  <1>18. CASE LoopEnds
    <2>1. pc = "step" /\ pc' = "finish" /\ UNCHANGED <<idx, success, recoveries>>
      BY <1>18 DEF LoopEnds, stateVars
    <2>2. Alive' = Alive /\ Recovered' = Recovered /\ ~ Over /\ Over' = TRUE
      BY <1>t, <2>1, ViewStep, ViewOver
    <2> QED
      BY <2>1, <2>2, EpisodeView
  <1>19. CASE WorkflowException
    <2>1. /\ pc \in {"decide", "recover"} /\ pc' = "finish" /\ success' \in BOOLEAN
          /\ UNCHANGED <<idx, recoveries>>
      BY <1>t, <1>19 DEF WorkflowException
    <2>2. Alive = TRUE /\ Alive' = success' /\ Over = FALSE /\ Over' = TRUE
      BY <2>1, ViewInside, ViewRecover, ViewOver DEF Inside
    <2>3. Alive' \in {Alive, FALSE}
      BY <2>1, <2>2
    <2>4. Recovered' \in {Recovered, Recovered + 1}
      <3>1. Recovered' = recoveries /\ Recovered \in {recoveries, recoveries - 1}
        BY <2>1, ViewInside, ViewRecover, ViewOver DEF Inside
      <3> QED
        BY <1>r, <3>1
    <2> QED
      BY <2>1, <2>2, <2>3, <2>4, EpisodeView
  <1>20. CASE Healthy
    <2>1. pc = "decide" /\ pc' = "step" /\ idx' = idx + 1 /\ recoveries' = recoveries
      BY <1>20 DEF Healthy, NextStep
    <2>2. success' \in BOOLEAN
      BY <1>t, <1>20 DEF Healthy
    <2> QED
      BY <1>t, <2>1, <2>2, PassesStep DEF Inside
  <1>21. CASE PrefaultStop
    <2>1. pc = "decide" /\ pc' = "step" /\ idx' = idx + 1 /\ recoveries' = recoveries
      BY <1>21 DEF PrefaultStop, NextStep
    <2>2. success' \in BOOLEAN
      BY <1>t, <1>21 DEF PrefaultStop
    <2> QED
      BY <1>t, <2>1, <2>2, PassesStep DEF Inside
  <1>22. CASE Unrecoverable
    <2>1. pc = "decide" /\ pc' = "step" /\ idx' = idx + 1 /\ recoveries' = recoveries + 1
      BY <1>22 DEF Unrecoverable, NextStep
    <2>2. success' \in BOOLEAN
      BY <1>t, <1>22 DEF Unrecoverable
    <2> QED
      BY <1>t, <2>1, <2>2, PassesStep DEF Inside
  <1>23. CASE Recover
    <2>1. pc = "recover" /\ pc' = "step" /\ idx' = idx + 1 /\ recoveries' = recoveries
      BY <1>23 DEF Recover, NextStep
    <2>2. success' \in {success, TRUE, FALSE}
      BY <1>23 DEF Recover, Relay
    <2>3. success' \in BOOLEAN /\ idx <= 7 /\ recoveries \in Nat
      BY <1>t, <2>1, <2>2
    <2>4. /\ Alive = TRUE /\ Over = FALSE /\ Alive' = success' /\ Over' = FALSE
          /\ Recovered = recoveries - 1 /\ Recovered' = recoveries
      BY <2>1, <2>3, ViewStep, ViewRecover
    <2>5. Recovered' = Recovered + 1
      BY <1>r, <2>4
    <2> QED
      <3>1. ~ Over /\ Alive /\ Over' = Over /\ Alive' \in BOOLEAN
        BY <2>3, <2>4
      <3>2. idx <= Len(Steps) /\ idx' = idx + 1
        BY <2>1, <2>3, StepsLength
      <3> QED
        BY <2>5, <3>1, <3>2, EpisodeView
  <1>24. CASE InjectFault
    <2>1. pc = "step" /\ success = TRUE /\ idx <= 7 /\ recoveries' = recoveries + 1
      BY <1>t, <1>24 DEF InjectFault, AtStep, Steps
    <2>2. CASE config.recovery
      <3>1. pc' = "recover" /\ UNCHANGED <<idx, success>>
        BY <1>24, <2>2 DEF InjectFault
      <3>2. Alive' = Alive /\ Recovered' = Recovered /\ Over' = Over
        <4>1. Recovered' = recoveries' - 1 /\ Recovered = recoveries
          BY <1>t, <2>1, <3>1, ViewStep, ViewRecover
        <4>2. Alive' = Alive /\ Over' = Over
          BY <1>t, <2>1, <3>1, ViewStep, ViewRecover
        <4> QED
          BY <1>r, <2>1, <4>1, <4>2
      <3> QED
        BY <3>1, <3>2, EpisodeView
    <2>3. CASE ~ config.recovery
      <3>1. pc' = "step" /\ idx' = idx + 1 /\ success' = FALSE
        BY <1>24, <2>3 DEF InjectFault
      <3> QED
        BY <2>1, <3>1, PassesStep
    <2> QED
      BY <2>2, <2>3
  <1>25. CASE MergeLocate
    <2>1. pc = "step" /\ success = TRUE /\ idx <= 7 /\ recoveries' = recoveries
      BY <1>t, <1>25 DEF MergeLocate, AtStep, Steps
    <2>2. CASE located = {}
      <3>1. pc' = "step" /\ idx' = idx + 1 /\ success' = FALSE
        BY <1>25, <2>2 DEF MergeLocate
      <3> QED
        BY <2>1, <3>1, PassesStep
    <2>3. CASE located # {}
      <3>1. pc' = "consume" /\ UNCHANGED <<idx, success>>
        BY <1>25, <2>3 DEF MergeLocate
      <3>2. Alive' = Alive /\ Recovered' = Recovered /\ Over' = Over
        BY <1>t, <2>1, <3>1, ViewStep, ViewInside DEF Inside
      <3> QED
        BY <3>1, <3>2, EpisodeView
    <2> QED
      BY <2>2, <2>3
  <1>26. CASE WorkerStep
    <2>1. UNCHANGED <<pc, idx, success, recoveries>>
      BY <1>26 DEF WorkerStep, stateVars
    <2> QED
      BY <2>1, EpisodeView DEF Alive, AtBoundary, Recovered, Over
  <1>27. CASE UNCHANGED vars
    <2>1. UNCHANGED <<pc, idx, success, recoveries>>
      BY <1>27 DEF vars, stateVars
    <2> QED
      BY <2>1, EpisodeView DEF Alive, AtBoundary, Recovered, Over
  <1> QED
    BY <1>1, <1>2, <1>3, <1>4, <1>5, <1>6, <1>7, <1>8, <1>9, <1>10, <1>11, <1>12, <1>13, <1>14, <1>15, <1>16, <1>17, <1>18, <1>19, <1>20, <1>21, <1>22, <1>23, <1>24, <1>25, <1>26, <1>27
    DEF Next, Main, Agent, Perceive

(* Every run is, step by step, an episode (but for the fairness of          *)
(* RunIsEpisode): steps in order and each once, at most one recovery for a  *)
(* step, none started after a failure, an outcome that no longer changes.   *)
THEOREM RunImplementsEpisode ==
    Spec => Outside!EpInit /\ [][Outside!EpNext]_(Outside!epVars)
  <1>1. Init => Outside!EpInit
    <2> SUFFICES ASSUME Init PROVE Outside!EpInit
      OBVIOUS
    <2>1. idx \in 1 .. 7 /\ success = TRUE /\ recoveries = 0 /\ pc = "step"
      BY InitTypeInv, ConfigsAssumption DEF Init, Config
    <2>2. Alive = TRUE /\ Over = FALSE /\ Recovered = 0
      BY <2>1, ViewStep
    <2> QED
      BY <2>1, <2>2, StepsLength DEF Outside!EpInit, Alive, Over, Recovered
  <1>2. TypeInv /\ [Next]_vars => [Outside!EpNext]_(Outside!epVars)
    BY EpisodeStep
  <1> QED
    BY <1>1, <1>2, InitTypeInv, NextTypeInv, PTL DEF Spec

(***************************************************************************)
(* What holds over the whole of a run of SWEOrchestrator: the stop that    *)
(* takes effect, the agents that are told, the success that was verified.  *)
(***************************************************************************)

(***************************************************************************)
(* A stop lets one more command run.                                       *)
(***************************************************************************)

(* The command that was run after a stop was asked for leaves the agent at *)
(* a place where it must see the stop, or is no longer the agent at all;   *)
(* and the thread that asked has ended, so nobody asks again.              *)
CommandInv ==
    \/ late = 0
    \/ /\ late = 1 /\ wpc = "ended"
       /\ signal.stop = TRUE =>
            /\ pc \in {"ask", "consume", "clear"}
            /\ pc = "ask" => Step = "implement"

LEMMA StopKinds ==
    ASSUME TypeInv
    PROVE  /\ signal.stop \in BOOLEAN /\ NoFault.stop = FALSE
           /\ late \in Nat /\ 0 + 1 = 1
  BY DEF TypeInv, TypeOK, WorkerTypes, HistoryTypes, Fault, NoFault

(* Where an agent that must see the stop can go.                           *)
LEMMA SeesStop ==
    ASSUME TypeInv, Main, signal.stop = TRUE, pc \in {"ask", "consume", "clear"},
           pc = "ask" => Step = "implement"
    PROVE  /\ late' = late /\ wpc' = wpc
           /\ signal'.stop = TRUE => pc' \in {"consume", "clear"}
  <1> USE DEF workerVars, history
  <1>1. CASE ModelReply \/ ModelError
    <2>1. Stopped
      BY <1>1 DEF ModelReply, ModelError, Stopped, PeekStop
    <2> QED
      BY <1>1, <2>1 DEF ModelReply, ModelError
  <1>2. CASE Exhausted \/ StopAgent \/ NodeException
    BY <1>2 DEF Exhausted, StopAgent, NodeException
  <1>3. CASE ReadSignal
    BY <1>3 DEF ReadSignal
  <1>4. CASE ClearSignal
    BY <1>4, StopKinds DEF ClearSignal
  <1> QED
    BY <1>1, <1>2, <1>3, <1>4
       DEF Main, Agent, Perceive, StartAgent, AtStep, NoCommand, Approved, Execute,
           Finish, Verdict, AgentException, MergeLocate, Healthy, PrefaultStop,
           Unrecoverable, HandleFault, InjectFault, Recover, WorkflowException,
           LoopEnds, StopPerception, Reward

(* Only the end of a command counts one.                                   *)
LEMMA LateStays ==
    ASSUME TypeInv, Main, ~ Execute
    PROVE  late' = late
  <1>1. CASE Agent
    BY <1>1 DEF Agent, history, StartAgent, ModelReply, ModelError, Exhausted,
                StopAgent, NoCommand, Approved, Finish, Verdict, AgentException,
                NodeException, MergeLocate
  <1>2. CASE Perceive
    BY <1>2 DEF Perceive, history, ReadSignal, ClearSignal, Healthy, PrefaultStop,
                Unrecoverable, HandleFault, InjectFault, Recover, WorkflowException
  <1>3. CASE LoopEnds \/ StopPerception \/ Reward
    BY <1>3 DEF history, LoopEnds, StopPerception, Reward
  <1> QED
    BY <1>1, <1>2, <1>3 DEF Main

LEMMA WorkerLeft ==
    ASSUME TypeInv, Main
    PROVE  wpc' = wpc /\ signal' \in {signal, NoFault}
  <1>1. wpc' = wpc
    BY QuietMain DEF ReadSignal, ClearSignal, HandleFault, workerVars
  <1> QED
    BY <1>1, MainEffect

LEMMA NextCommand == TypeInv /\ ReportsInv /\ CommandInv /\ [Next]_vars => CommandInv'
  <1> SUFFICES ASSUME TypeInv, ReportsInv, CommandInv, [Next]_vars PROVE CommandInv'
    OBVIOUS
  <1>1. CASE Execute
    <2>1. /\ pc = "exec" /\ UNCHANGED <<wpc, signal, idx>> /\ pc' \in {"ask", "consume"}
          /\ late' = IF Step = "implement" /\ PeekStop THEN late + 1 ELSE late
      BY <1>1 DEF Execute
    <2>2. CASE Step = "implement" /\ signal.stop = TRUE
      <3>1. late = 0
        BY <2>1, <2>2 DEF CommandInv
      <3>2. wpc = "ended"
        BY <2>2, StopKinds DEF ReportsInv
      <3>3. late' = 1
        BY <2>1, <2>2, <3>1, StopKinds DEF PeekStop
      <3>4. Step' = Step
        BY <2>1 DEF Step
      <3> QED
        BY <2>1, <2>2, <3>2, <3>3, <3>4 DEF CommandInv
    <2>3. CASE ~ (Step = "implement" /\ signal.stop = TRUE)
      <3>1. late' = late
        BY <2>1, <2>3, StopKinds DEF PeekStop
      <3> QED
        BY <2>1, <3>1, StopKinds DEF CommandInv
    <2> QED
      BY <2>2, <2>3
  <1>2. CASE Main /\ ~ Execute
    <2>1. late' = late /\ wpc' = wpc /\ signal' \in {signal, NoFault}
      BY <1>2, LateStays, WorkerLeft
    <2>2. CASE late = 0
      BY <2>1, <2>2 DEF CommandInv
    <2>3. CASE late = 1 /\ signal.stop = FALSE
      <3>1. signal'.stop = FALSE
        BY <2>1, <2>3, StopKinds
      <3> QED
        BY <2>1, <2>3, <3>1 DEF CommandInv
    <2>4. CASE late = 1 /\ signal.stop = TRUE
      <3>1. pc \in {"ask", "consume", "clear"} /\ (pc = "ask" => Step = "implement")
        BY <2>4 DEF CommandInv
      <3>2. signal'.stop = TRUE => pc' \in {"consume", "clear"}
        BY <1>2, <2>4, <3>1, SeesStop
      <3> QED
        BY <2>1, <2>4, <3>2 DEF CommandInv
    <2> QED
      BY <2>2, <2>3, <2>4, StopKinds DEF CommandInv
  <1>3. CASE WorkerStep
    BY <1>3 DEF WorkerStep, Worker, WorkerHead, WorkerWait, WorkerScan, WorkerPost,
                history, CommandInv, Step
  <1>4. CASE UNCHANGED vars
    BY <1>4 DEF vars, workerVars, history, CommandInv, Step
  <1> QED
    BY <1>1, <1>2, <1>3, <1>4 DEF Next

(* Once a stop has been asked for, the implementer runs at most the one    *)
(* command it was about to run, for every limit and every detector.        *)
THEOREM StopsTakeEffect == Spec => []OneCommandAfterStop
  <1>1. Init => CommandInv
    BY DEF Init, CommandInv
  <1>2. TypeInv /\ CommandInv => OneCommandAfterStop
    BY StopKinds DEF CommandInv, OneCommandAfterStop
  <1> QED
    BY <1>1, <1>2, ReportsInvHolds, NextCommand, PTL DEF Spec

(***************************************************************************)
(* Agents are told of what was recovered from.                             *)
(***************************************************************************)

(* After a recovery a run only goes on with the context set, or past the   *)
(* one fault that was injected, which comes first if nothing was relayed.  *)
Told ==
    \/ config.relay = TRUE /\ config.recovery = TRUE /\ context = TRUE
    \/ config.inject = TRUE /\ recoveries = 1 /\ context = FALSE /\ idx > 6

TellInv ==
    /\ context = TRUE => config.relay = TRUE
    /\ signal.kind # "injected" /\ found.kind # "injected"
    /\ pc # "recover" =>
         /\ got.kind # "injected"
         /\ success = TRUE /\ recoveries # 0 => Told
    /\ pc = "recover" =>
         /\ config.recovery = TRUE
         /\ got.kind = "injected" =>
              /\ config.inject = TRUE /\ idx = 6
              /\ config.relay = FALSE => recoveries = 1

LEMMA RunTypes ==
    ASSUME TypeInv
    PROVE  /\ config.relay \in BOOLEAN /\ config.recovery \in BOOLEAN
           /\ config.inject \in BOOLEAN
           /\ context \in BOOLEAN /\ success \in BOOLEAN
           /\ recoveries \in Nat /\ idx \in 1 .. 8
           /\ NoFault.kind = "none"
  BY ConfigsAssumption DEF TypeInv, TypeOK, ControlTypes, StateTypes, Config, NoFault

LEMMA SignalKinds ==
    ASSUME NEW ns, NEW f \in Signals(ns)
    PROVE  f.kind \in {"none", "loop"}
  <1>1. CASE f = NoFault
    BY <1>1 DEF NoFault
  <1>2. CASE f # NoFault
    <2> DEFINE I == ReportableIds(ns, Window)
               B == IF CustomStop THEN BOOLEAN ELSE {FALSE}
    <2>1. f \in [kind : {"loop"}, ids : I, stop : B]
      BY <1>2 DEF Signals
    <2> HIDE DEF I, B
    <2> QED
      BY <2>1
  <1> QED
    BY <1>1, <1>2

(* Steps that neither start, end nor refuse a recovery.                    *)
LEMMA TellQuiet ==
    ASSUME TypeInv, Main, ~ Unrecoverable, ~ HandleFault, ~ InjectFault, ~ Recover,
           ~ WorkflowException
    PROVE  /\ UNCHANGED <<config, context, recoveries>>
           /\ idx' \in {idx, idx + 1}
           /\ success' = TRUE => success = TRUE
           /\ pc # "recover" /\ pc' # "recover"
           /\ got' \in {got, signal, NoFault}
  <1> USE RunTypes DEF stateVars, AgentFailed
  <1>1. CASE StartAgent
    BY <1>1 DEF StartAgent, AtStep
  <1>2. CASE ModelReply
    BY <1>2 DEF ModelReply
  <1>3. CASE ModelError
    BY <1>3 DEF ModelError
  <1>4. CASE Exhausted
    BY <1>4 DEF Exhausted
  <1>5. CASE StopAgent
    BY <1>5 DEF StopAgent
  <1>6. CASE NoCommand \/ Approved \/ Execute \/ Finish
    BY <1>6 DEF NoCommand, Approved, Execute, Finish
  <1>7. CASE Verdict
    BY <1>7 DEF Verdict
  <1>8. CASE AgentException
    BY <1>8 DEF AgentException
  <1>9. CASE NodeException
    BY <1>9 DEF NodeException
  <1>10. CASE MergeLocate
    BY <1>10 DEF MergeLocate, AtStep
  <1>11. CASE ReadSignal \/ ClearSignal
    BY <1>11 DEF ReadSignal, ClearSignal
  <1>12. CASE Healthy \/ PrefaultStop
    BY <1>12 DEF Healthy, PrefaultStop, NextStep
  <1>13. CASE LoopEnds \/ StopPerception \/ Reward
    BY <1>13 DEF LoopEnds, StopPerception, Reward
  <1> QED
    BY <1>1, <1>2, <1>3, <1>4, <1>5, <1>6, <1>7, <1>8, <1>9, <1>10, <1>11, <1>12, <1>13
       DEF Main, Agent, Perceive

(* Nothing but the injection makes an injected fault.                      *)
LEMMA KindsStay ==
    ASSUME TypeInv, TellInv, [Next]_vars
    PROVE  signal'.kind # "injected" /\ found'.kind # "injected"
  <1>1. CASE Main
    BY <1>1, MainEffect, RunTypes DEF TellInv
  <1>2. CASE WorkerStep
    <2>1. CASE WorkerScan
      BY <2>1, SignalKinds DEF WorkerScan, TellInv
    <2>2. CASE WorkerHead \/ WorkerWait \/ WorkerPost
      BY <2>2, RunTypes DEF WorkerHead, WorkerWait, WorkerPost, TellInv
    <2> QED
      BY <1>2, <2>1, <2>2 DEF WorkerStep, Worker
  <1>3. CASE UNCHANGED vars
    BY <1>3 DEF vars, workerVars, TellInv
  <1> QED
    BY <1>1, <1>2, <1>3 DEF Next

LEMMA NextTell == TypeInv /\ TellInv /\ [Next]_vars => TellInv'
  <1> SUFFICES ASSUME TypeInv, TellInv, [Next]_vars PROVE TellInv'
    OBVIOUS
  <1>k. signal'.kind # "injected" /\ found'.kind # "injected"
    BY KindsStay
  <1>1. CASE Unrecoverable
    BY <1>1, <1>k, RunTypes DEF Unrecoverable, NextStep, TellInv
  <1>2. CASE HandleFault
    <2>1. /\ pc = "decide" /\ pc' = "recover" /\ config.recovery
          /\ UNCHANGED <<config, context>> /\ got' \in FaultsSeen
      BY <1>2 DEF HandleFault
    <2>2. got'.kind # "injected"
      BY <2>1, SignalKinds, RunTypes DEF TellInv, FaultsSeen
    <2> QED
      BY <1>k, <2>1, <2>2, RunTypes DEF TellInv
  <1>3. CASE InjectFault
    <2>1. /\ pc = "step" /\ success = TRUE /\ Step = "implement" /\ config.inject = TRUE
          /\ recoveries' = recoveries + 1 /\ UNCHANGED <<config, context>>
          /\ idx \in 1 .. 7
      BY <1>3, AtStepIdx, RunTypes DEF InjectFault, AtStep, TypeInv
    <2>2. idx = 6
      BY <2>1 DEF Step, Steps
    <2>3. CASE config.recovery = TRUE
      <3>1. pc' = "recover" /\ idx' = idx
        BY <1>3, <2>3 DEF InjectFault
      <3>2. config.relay = FALSE => recoveries = 0
        BY <2>1, <2>2, RunTypes DEF TellInv, Told
      <3>3. config.relay = FALSE => recoveries' = 1
        BY <2>1, <3>2
      <3>4. config'.recovery = TRUE /\ config'.inject = TRUE /\ config'.relay = config.relay
        BY <2>1, <2>3
      <3>5. context' = TRUE => config'.relay = TRUE
        BY <2>1 DEF TellInv
      <3> QED
        BY <1>k, <2>2, <3>1, <3>3, <3>4, <3>5 DEF TellInv
    <2>4. CASE config.recovery = FALSE
      <3>1. pc' = "step" /\ success' = FALSE /\ got' = got
        BY <1>3, <2>4 DEF InjectFault
      <3>2. context' = TRUE => config'.relay = TRUE
        BY <2>1 DEF TellInv
      <3>3. got'.kind # "injected"
        BY <2>1, <3>1 DEF TellInv
      <3> QED
        BY <1>k, <3>1, <3>2, <3>3 DEF TellInv
    <2> QED
      BY <2>3, <2>4, RunTypes
  <1>4. CASE Recover
    BY <1>4, <1>k, RunTypes DEF Recover, Relay, NextStep, TellInv, Told
  <1>8. CASE WorkflowException
    <2>1. /\ UNCHANGED <<config, context, recoveries, idx>>
          /\ pc' # "recover" /\ got' = NoFault
          /\ \/ success' = FALSE
             \/ success' = success /\ pc # "recover"
      BY <1>8 DEF WorkflowException
    <2> QED
      BY <1>k, <2>1, RunTypes DEF TellInv, Told
  <1>5. CASE /\ Main /\ ~ Unrecoverable /\ ~ HandleFault /\ ~ InjectFault /\ ~ Recover
             /\ ~ WorkflowException
    <2>1. /\ UNCHANGED <<config, context, recoveries>> /\ idx' \in {idx, idx + 1}
          /\ success' = TRUE => success = TRUE
          /\ pc # "recover" /\ pc' # "recover" /\ got' \in {got, signal, NoFault}
      BY <1>5, TellQuiet
    <2> QED
      BY <1>k, <2>1, RunTypes DEF TellInv, Told
  <1>6. CASE WorkerStep
    BY <1>6, <1>k DEF WorkerStep, stateVars, TellInv, Told
  <1>7. CASE UNCHANGED vars
    BY <1>7, <1>k DEF vars, workerVars, stateVars, TellInv, Told
  <1> QED
    BY <1>1, <1>2, <1>3, <1>4, <1>5, <1>6, <1>7, <1>8 DEF Next

LEMMA InitTell == Init => TellInv
  <1> SUFFICES ASSUME Init PROVE TellInv
    OBVIOUS
  <1>1. signal = NoFault /\ found = NoFault /\ got = NoFault
    BY DEF Init, WorkerInit
  <1>2. NoFault.kind = "none"
    BY DEF NoFault
  <1>3. pc = "step" /\ recoveries = 0 /\ context = FALSE
    BY DEF Init
  <1> QED
    BY <1>1, <1>2, <1>3 DEF TellInv

(* A run that goes on, or ends well, after a recovery has told its agents  *)
(* what happened, except past the one injected fault.                      *)
THEOREM AgentsAreTold == Spec => []RelayTellsAgents
  <1>1. Init => TellInv
    BY InitTell
  <1>2. TypeInv /\ TellInv => RelayTellsAgents
    BY RunTypes DEF TellInv, Told, RelayTellsAgents
  <1>3. Spec => []TypeInv
    BY ReportsInvHolds, PTL
  <1> QED
    BY <1>1, <1>2, <1>3, NextTell, PTL DEF Spec

(***************************************************************************)
(* What succeeds was verified.                                             *)
(***************************************************************************)

Working    == {"ask", "act", "exec"}
Perceiving == {"consume", "clear", "decide"}

(* What a run that ends well has to show for it.                           *)
Vouched ==
    \/ /\ verdict = "pass"
       /\ recoveries = 0 /\ config.start <= 6 => patch = "diff"
    \/ /\ cur = [base |-> "verify", mark |-> "_recovered"]
       /\ config.relay = TRUE /\ context = TRUE
    \/ verdict = "none" /\ (error # "none" \/ idx <= 7)

(* Nobody but the verifier gives a verdict.                                *)
VerdictInv ==
    /\ idx <= 6 => verdict = "none"
    /\ idx = 7 /\ pc \in {"step"} \cup Working => verdict = "none"

(* While the verifier's step lasts the state says that it is at it.        *)
LabelInv ==
    /\ idx = 7 /\ pc \in Working \cup Perceiving \cup {"recover"}
         => cur = [base |-> "verify", mark |-> cur.mark]
    /\ pc = "recover" => recoveries # 0

(* Past the implementer there is a patch, or a recovery, or no success.    *)
PatchInv ==
    recoveries = 0 /\ config.start <= 6 /\ success = TRUE
        /\ (idx >= 7 \/ (idx = 6 /\ pc \in Perceiving)) => patch = "diff"

VouchedInv ==
    /\ idx = 7 /\ pc \in Perceiving /\ success = TRUE
         => verdict = "pass" \/ (verdict = "none" /\ error # "none")
    /\ success = TRUE /\ (idx = 8 \/ pc \in {"finish", "reward", "done"}) => Vouched

VerifiedInv == VerdictInv /\ LabelInv /\ PatchInv /\ VouchedInv

LEMMA StepTable ==
    ASSUME NEW k \in 1 .. 7
    PROVE  /\ Steps[k] = "implement" <=> k = 6
           /\ Steps[k] = "verify" <=> k = 7
           /\ Steps[k] = "merge_locate" <=> k = 4
           /\ Steps[k] \in Locating => k \in {2, 3}
           /\ k \in {6, 7} => Steps[k] \in Looping
  BY DEF Steps, Locating, Looping

(* What an agent's iterations do.                                          *)
LEMMA AgentMoves ==
    ASSUME TypeInv, Agent, ~ StartAgent, ~ MergeLocate
    PROVE  /\ pc \in Working /\ pc' \in Working \cup {"consume"} /\ idx \in 1 .. 7
           /\ UNCHANGED <<idx, cur, config, recoveries>>
           /\ success' = TRUE => success = TRUE
           /\ idx # 7 \/ pc' # "consume" => verdict' = verdict
           /\ idx # 6 => patch' = patch
           /\ success' = TRUE /\ pc' = "consume" /\ idx = 6 => patch' = "diff"
           /\ success' = TRUE /\ pc' = "consume" /\ idx = 7
                => verdict' = "pass" \/ (verdict' = verdict /\ error' # "none")
  <1>t. /\ success \in BOOLEAN
        /\ pc \in {"ask", "act", "exec"} => idx \in 1 .. 7
    BY RunTypes DEF TypeInv, Outer
  <1>s. pc \in {"ask", "act", "exec"} =>
          /\ Step = "implement" <=> idx = 6
          /\ Step = "verify" <=> idx = 7
          /\ Step \in Locating => idx \in {2, 3}
          /\ idx \in {6, 7} => Step \in Looping
    BY <1>t, StepTable DEF Step
  <1> USE <1>t, <1>s DEF stateVars, history, Working
  <1>1. CASE ModelReply
    BY <1>1 DEF ModelReply
  <1>2. ASSUME NEW cause, AgentFailed(cause), pc \in {"ask", "act", "exec"}
        PROVE  /\ success' = TRUE => success = TRUE /\ idx \in {2, 3}
               /\ idx # 6 => patch' = patch
    BY <1>2 DEF AgentFailed
  <1>3. CASE ModelError \/ StopAgent \/ AgentException
    <2>1. PICK cause : AgentFailed(cause)
      BY <1>3 DEF ModelError, StopAgent, AgentException
    <2>2. /\ pc \in {"ask", "act", "exec"} /\ pc' = "consume" /\ verdict' = verdict
          /\ UNCHANGED <<idx, cur, config, recoveries>>
      BY <1>3 DEF ModelError, StopAgent, AgentException
    <2>3. (success' = TRUE => success = TRUE /\ idx \in {2, 3}) /\ (idx # 6 => patch' = patch)
      BY <1>2, <2>1, <2>2
    <2> QED
      BY <2>2, <2>3
  <1>4. CASE Exhausted
    <2>1. /\ pc = "ask" /\ pc' = "consume" /\ verdict' = verdict
          /\ UNCHANGED <<idx, cur, config, recoveries>>
      BY <1>4 DEF Exhausted
    <2>2. CASE Step = "implement" /\ patch' = "diff" /\ success' = success
      <3>1. idx = 6
        BY <2>1, <2>2
      <3> QED
        BY <2>1, <2>2, <3>1
    <2>3. CASE /\ success' = IF Step \in Locating THEN success ELSE FALSE
               /\ Step # "implement" => patch' = patch
      <3>1. success' = TRUE => success = TRUE /\ idx \in {2, 3}
        BY <2>1, <2>3
      <3>2. idx # 6 => patch' = patch
        BY <2>1, <2>3
      <3> QED
        BY <2>1, <3>1, <3>2
    <2> QED
      BY <1>4, <2>2, <2>3 DEF Exhausted
  <1>5. CASE NoCommand
    BY <1>5 DEF NoCommand
  <1>6. CASE Approved
    BY <1>6 DEF Approved
  <1>7. CASE Execute
    BY <1>7 DEF Execute
  <1>8. CASE Finish
    BY <1>8 DEF Finish
  <1>9. CASE Verdict
    BY <1>9 DEF Verdict
  <1>10. CASE NodeException
    BY <1>10 DEF NodeException
  <1> QED
    BY <1>1, <1>3, <1>4, <1>5, <1>6, <1>7, <1>8, <1>9, <1>10 DEF Agent

(* A step that leaves alone what the invariant is about, but for the place *)
(* inside the perception of one step or past the end of the run.           *)
LEMMA KeepsVerified ==
    ASSUME VerifiedInv, UNCHANGED <<idx, cur, success, error, patch, verdict, context,
                                    recoveries, config>>,
           \/ pc' = pc
           \/ pc \in Perceiving /\ pc' \in Perceiving
           \/ pc \in {"finish", "reward", "done"} /\ pc' \in {"finish", "reward", "done"}
    PROVE  VerifiedInv'
  BY DEF VerifiedInv, VerdictInv, LabelInv, PatchInv, VouchedInv, Vouched, Working, Perceiving

(* A step of the pipeline is over without success.                         *)
LEMMA PassesFailed ==
    ASSUME TypeInv, VerifiedInv, pc' = "step", idx' = idx + 1, idx \in 1 .. 7,
           success' = FALSE, verdict' = verdict, idx = 7 \/ verdict = "none"
    PROVE  VerifiedInv'
  <1>1. idx' <= 7 => verdict' = "none"
    OBVIOUS
  <1> QED
    BY <1>1 DEF VerifiedInv, VerdictInv, LabelInv, PatchInv, VouchedInv, Perceiving, Working

LEMMA StartsVerify ==
    ASSUME StartAgent, idx = 7
    PROVE  cur' = [base |-> "verify", mark |-> cur'.mark]
  <1>1. Step = "verify"
    BY DEF Step, Steps
  <1>2. "verify" \notin Locating
    BY DEF Locating
  <1>3. cur' = [base |-> "verify", mark |-> ""]
    BY <1>1, <1>2, Zenon DEF StartAgent, AtStep
  <1>4. \A m, c : c = [base |-> "verify", mark |-> m] => c = [base |-> "verify", mark |-> c.mark]
    OBVIOUS
  <1> QED
    BY <1>3, <1>4, Zenon

LEMMA RecoverMarks ==
    ASSUME Recover, got.kind # "injected"
    PROVE  cur' = [cur EXCEPT !.mark = "_recovered"]
  <1>1. NextStep("_recovered")
    BY Zenon DEF Recover
  <1> QED
    BY <1>1, Zenon DEF NextStep

LEMMA NextVerified == TypeInv /\ TellInv /\ VerifiedInv /\ [Next]_vars => VerifiedInv'
  <1> SUFFICES ASSUME TypeInv, TellInv, VerifiedInv, [Next]_vars PROVE VerifiedInv'
    OBVIOUS
  <1>t. /\ idx \in 1 .. 8 /\ recoveries \in Nat /\ success \in BOOLEAN /\ context \in BOOLEAN
        /\ config.relay \in BOOLEAN /\ config.recovery \in BOOLEAN
        /\ pc \notin Outer => idx \in 1 .. 7
    BY RunTypes DEF TypeInv, Outer
  <1>c. cur \in [base : StepNames \cup {""}, mark : Marks]
    BY DEF TypeInv, TypeOK, StateTypes
  <1> USE <1>t DEF VerifiedInv, VerdictInv, LabelInv, PatchInv, VouchedInv, Perceiving, Working
  <1>1. CASE StartAgent
    <2>1. /\ pc = "step" /\ pc' = "ask" /\ idx' = idx /\ verdict' = verdict
          /\ UNCHANGED <<success, patch, recoveries, config>>
      BY <1>1 DEF StartAgent, AtStep
    <2>2. idx \in 1 .. 7
      BY <1>1, AtStepIdx DEF StartAgent, TypeInv
    <2>3. idx = 7 => cur' = [base |-> "verify", mark |-> cur'.mark]
      BY <1>1, StartsVerify
    <2> QED
      BY <2>1, <2>2, <2>3
  <1>2. CASE Agent /\ ~ StartAgent /\ ~ MergeLocate
    <2>1. /\ pc \in {"ask", "act", "exec"} /\ pc' \in {"ask", "act", "exec", "consume"}
          /\ idx \in 1 .. 7
          /\ UNCHANGED <<idx, cur, config, recoveries>>
          /\ success' = TRUE => success = TRUE
          /\ idx # 7 \/ pc' # "consume" => verdict' = verdict
          /\ idx # 6 => patch' = patch
          /\ success' = TRUE /\ pc' = "consume" /\ idx = 6 => patch' = "diff"
          /\ success' = TRUE /\ pc' = "consume" /\ idx = 7
               => verdict' = "pass" \/ (verdict' = verdict /\ error' # "none")
      BY <1>2, AgentMoves
    <2>2. VerdictInv'
      BY <2>1
    <2>3. LabelInv'
      BY <2>1
    <2>4. PatchInv'
      BY <2>1
    <2>5. VouchedInv'
      BY <2>1
    <2> QED
      BY <2>2, <2>3, <2>4, <2>5
  <1>3. CASE MergeLocate
    <2>1. /\ pc = "step" /\ pc' \in {"step", "consume"} /\ idx' \in {idx, idx + 1}
          /\ verdict' = verdict
      BY <1>3 DEF MergeLocate, AtStep
    <2>2. idx \in 1 .. 7 /\ Steps[idx] = "merge_locate"
      BY <1>3, AtStepIdx DEF MergeLocate, TypeInv, Step
    <2>3. idx = 4
      BY <2>2, StepTable
    <2> QED
      BY <2>1, <2>3
  <1>4. CASE ReadSignal \/ ClearSignal
    <2>1. /\ UNCHANGED <<idx, cur, success, error, patch, verdict, context, recoveries, config>>
          /\ pc \in Perceiving /\ pc' \in Perceiving
      BY <1>4 DEF ReadSignal, ClearSignal, stateVars, history
    <2> QED
      BY <2>1, KeepsVerified
  <1>5. CASE Healthy
    <2>1. /\ pc = "decide" /\ pc' = "step" /\ idx' = idx + 1 /\ idx \in 1 .. 7
          /\ UNCHANGED <<success, error, patch, verdict, recoveries, config>>
      BY <1>5 DEF Healthy, NextStep, history, Outer
    <2>2. VerdictInv'
      BY <2>1
    <2>3. LabelInv' /\ PatchInv'
      BY <2>1
    <2>4. success' = TRUE /\ idx' = 8 => Vouched'
      <3> SUFFICES ASSUME success = TRUE, idx = 7 PROVE Vouched'
        BY <2>1
      <3>1. recoveries = 0 /\ config.start <= 6 => patch = "diff"
        OBVIOUS
      <3>2. verdict = "pass" \/ (verdict = "none" /\ error # "none")
        BY <2>1
      <3> QED
        BY <2>1, <3>1, <3>2 DEF Vouched
    <2>5. VouchedInv'
      BY <2>1, <2>4
    <2> QED
      BY <2>2, <2>3, <2>5
  <1>6. CASE PrefaultStop \/ Unrecoverable
    <2>1. /\ pc = "decide" /\ pc' = "step" /\ idx' = idx + 1 /\ idx \in 1 .. 7
          /\ success' = FALSE /\ verdict' = verdict
      BY <1>6 DEF PrefaultStop, Unrecoverable, NextStep, history, Outer
    <2>2. idx = 7 \/ verdict = "none"
      BY <2>1
    <2> QED
      BY <2>1, <2>2, PassesFailed
  <1>7. CASE HandleFault
    <2>1. /\ pc = "decide" /\ pc' = "recover" /\ recoveries' = recoveries + 1
          /\ UNCHANGED <<idx, cur, verdict>> /\ idx \in 1 .. 7
      BY <1>7 DEF HandleFault, Outer
    <2>2. recoveries' # 0
      BY <2>1
    <2> QED
      BY <2>1, <2>2
  <1>8. CASE InjectFault
    <2>1. pc = "step" /\ recoveries' = recoveries + 1 /\ verdict' = verdict /\ idx \in 1 .. 7
      BY <1>8, AtStepIdx DEF InjectFault, AtStep, TypeInv, history
    <2>2. idx = 6
      BY <1>8, <2>1, StepTable DEF InjectFault, AtStep, Step
    <2>3. CASE config.recovery
      <3>1. pc' = "recover" /\ idx' = idx
        BY <1>8, <2>3 DEF InjectFault
      <3> QED
        BY <2>1, <2>2, <3>1
    <2>4. CASE ~ config.recovery
      <3>1. pc' = "step" /\ success' = FALSE /\ idx' = idx + 1
        BY <1>8, <2>4 DEF InjectFault
      <3> QED
        BY <2>1, <2>2, <3>1, PassesFailed
    <2> QED
      BY <2>3, <2>4
  <1>9. CASE Recover
    <2>1. /\ pc = "recover" /\ pc' = "step" /\ idx' = idx + 1 /\ idx \in 1 .. 7
          /\ UNCHANGED <<config, patch, recoveries, verdict>> /\ recoveries # 0
      BY <1>9 DEF Recover, NextStep, history, Outer
    <2>2. VerdictInv' /\ LabelInv' /\ PatchInv'
      BY <2>1
    <2>3. success' = TRUE /\ idx = 7 => Vouched'
      <3> SUFFICES ASSUME success' = TRUE, idx = 7 PROVE Vouched'
        OBVIOUS
      <3>1. got.kind # "injected"
        BY <2>1 DEF TellInv
      <3>2. config.relay = TRUE /\ context' = TRUE
        BY <1>9, <3>1 DEF Recover, Relay
      <3>3. cur = [base |-> "verify", mark |-> cur.mark]
        BY <2>1
      <3>4. cur' = [cur EXCEPT !.mark = "_recovered"]
        BY <1>9, <3>1, RecoverMarks
      <3>5. cur' = [base |-> "verify", mark |-> "_recovered"]
        BY <3>3, <3>4
      <3> QED
        BY <2>1, <3>2, <3>5 DEF Vouched
    <2>4. VouchedInv'
      BY <2>1, <2>3
    <2> QED
      BY <2>2, <2>4
  <1>10. CASE WorkflowException
    <2>1. /\ pc \in {"decide", "recover"} /\ pc' = "finish" /\ idx \in 1 .. 7
          /\ UNCHANGED <<idx, cur, config, patch, recoveries, verdict, context>>
          /\ \/ success' = FALSE
             \/ pc = "decide" /\ UNCHANGED <<success, error>>
      BY <1>10 DEF WorkflowException, history, Outer
    <2>2. VerdictInv' /\ LabelInv' /\ PatchInv'
      BY <2>1
    <2>3. success' = TRUE => Vouched'
      <3> SUFFICES ASSUME success = TRUE, pc = "decide", UNCHANGED <<success, error>>
                   PROVE  Vouched'
        BY <2>1
      <3>1. idx = 7 /\ recoveries = 0 /\ config.start <= 6 => patch = "diff"
        OBVIOUS
      <3>2. verdict = "none" \/ (idx = 7 /\ verdict = "pass")
        BY <2>1
      <3> QED
        BY <2>1, <3>1, <3>2 DEF Vouched
    <2>4. VouchedInv'
      BY <2>1, <2>3
    <2> QED
      BY <2>2, <2>4
  <1>11. CASE LoopEnds
    <2>1. /\ pc = "step" /\ pc' = "finish"
          /\ UNCHANGED <<idx, cur, success, error, patch, verdict, context, recoveries, config>>
      BY <1>11 DEF LoopEnds, stateVars, history
    <2>2. idx <= 7 => verdict = "none"
      BY <2>1
    <2>3. success = TRUE => Vouched
      BY <2>1, <2>2 DEF Vouched
    <2>4. Vouched' <=> Vouched
      BY <2>1 DEF Vouched
    <2> QED
      BY <2>1, <2>3, <2>4
  <1>12. CASE StopPerception \/ Reward
    <2>1. /\ UNCHANGED <<idx, cur, success, error, patch, verdict, context, recoveries, config>>
          /\ pc \in {"finish", "reward"} /\ pc' \in {"reward", "done"}
      BY <1>12 DEF StopPerception, Reward, stateVars, history
    <2> QED
      BY <2>1, KeepsVerified
  <1>13. CASE WorkerStep \/ UNCHANGED vars
    <2>1. UNCHANGED <<pc, idx, cur, success, error, patch, verdict, context, recoveries, config>>
      BY <1>13 DEF WorkerStep, vars, stateVars, history
    <2> QED
      BY <2>1, KeepsVerified
  <1> QED
    BY <1>1, <1>2, <1>3, <1>4, <1>5, <1>6, <1>7, <1>8, <1>9, <1>10, <1>11, <1>12, <1>13
       DEF Next, Main, Perceive

(* A run through the verifier that returns success has its word for it, or *)
(* left by one of the three ways that go round it.                         *)
THEOREM SuccessesAreVerified == Spec => []SuccessIsVerified
  <1>1. Init => VerifiedInv
    <2> SUFFICES ASSUME Init PROVE VerifiedInv
      OBVIOUS
    <2>1. /\ pc = "step" /\ idx = config.start /\ verdict = "none" /\ patch = "empty"
          /\ config \in Configs
      BY DEF Init
    <2>2. idx \in 1 .. 7
      BY <2>1, ConfigsAssumption DEF Config
    <2> QED
      BY <2>1, <2>2 DEF VerifiedInv, VerdictInv, LabelInv, PatchInv, VouchedInv, Working, Perceiving
  <1>2. TypeInv /\ VerifiedInv => SuccessIsVerified
    <2> SUFFICES ASSUME TypeInv, VerifiedInv, pc = "done", success PROVE Vouched
      BY StepsLength DEF SuccessIsVerified, Vouched
    <2>1. success = TRUE
      BY RunTypes
    <2> QED
      BY <2>1 DEF VerifiedInv, VouchedInv
  <1>3. Spec => []TypeInv
    BY ReportsInvHolds, PTL
  <1>4. Init => TellInv
    BY InitTell
  <1> QED
    BY <1>1, <1>2, <1>3, <1>4, NextTell, NextVerified, PTL DEF Spec
=============================================================================
