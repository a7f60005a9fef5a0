---------------------------- MODULE MemoryGraph ----------------------------
(***************************************************************************)
(* The memory graph of one session as the perception and recovery layers   *)
(* see it (swe_mas/memory/recorder.py), and the pure computations they run *)
(* on it: which nodes a detector may report, where the healthy prefix of a *)
(* trajectory ends, which node is the anchor an agent resumes from.        *)
(*                                                                         *)
(* A trajectory is a sequence of nodes in timestamp order.  Contents are   *)
(* dropped; a node keeps the phase it belongs to, its type, and whether it *)
(* is still VALID/active.  The ACTION and OBSERVATION nodes of one command *)
(* are one OBSERVATION, and every kind of intent node is a THOUGHT.        *)
(***************************************************************************)
EXTENDS Integers, Sequences, FiniteSets

NoNode == 0

Phases == {"analyze", "locate", "plan", "implement", "verify"}

NodeType == {"THOUGHT", "OBSERVATION", "MESSAGE"}

Node == [phase : Phases, type : NodeType, ok : BOOLEAN]

(* A row of phase_snapshots: the nodes of the phase are those recorded     *)
(* from index "from" up to the start of the next phase.                    *)
Phase == [phase : Phases, ok : BOOLEAN, from : Nat]

ValidIdx(ns) == {i \in DOMAIN ns : ns[i].ok}

(* MemoryRecorder.update_validity(ids, INVALID, failed) *)
UpdateValidity(ns, ids) ==
    [i \in DOMAIN ns |->
        IF i \in ids THEN [ns[i] EXCEPT !.ok = FALSE] ELSE ns[i]]

(* MemoryRecorder.mark_phase_invalid(session, phase) *)
MarkPhaseInvalid(ph, name) ==
    [k \in DOMAIN ph |->
        IF ph[k].phase = name THEN [ph[k] EXCEPT !.ok = FALSE] ELSE ph[k]]

(* The greatest index in S, or NoNode *)
LastOf(S) ==
    LET top == {i \in S : \A j \in S : j <= i}
    IN  IF top = {} THEN NoNode ELSE CHOOSE i \in top : TRUE

(* The k greatest indices of S *)
Latest(S, k) == {i \in S : Cardinality({j \in S : j > i}) < k}

(* MemoryRecorder.get_phase_snapshot(session): the latest VALID phase, 0 if none *)
LatestPhase(ph) == LastOf({k \in DOMAIN ph : ph[k].ok})

PhaseNodes(ns, ph, k) ==
    {i \in DOMAIN ns :
        /\ ph[k].from <= i
        /\ k < Len(ph) => i < ph[k + 1].from}

-----------------------------------------------------------------------------
(* GraphAnomalyDetector.run: only VALID nodes are looked at.  With a       *)
(* snapshot in the trajectory the code-churn score always contributes the  *)
(* last "window" nodes and the test score the latest test results; without *)
(* one only the pairs of similar nodes of the window are reported.         *)
ReportableIds(ns, window) ==
    LET valid  == ValidIdx(ns)
        recent == Latest(valid, window)
        obs    == {i \in valid : ns[i].type = "OBSERVATION"}
    IN  IF obs # {}
        THEN {recent \cup Latest(tests, window) : tests \in SUBSET obs}
        ELSE {pairs \in SUBSET recent : Cardinality(pairs) >= 2}

-----------------------------------------------------------------------------
(* SummaryEngine._collect_nodes: the latest "history" nodes and the faulty ones *)
Collected(ns, ids, history) ==
    {i \in DOMAIN ns : i > Len(ns) - history \/ i \in ids}

(* SummaryEngine._split_healthy_faulty: what precedes the first node of    *)
(* the fault, or the first INVALID node when the fault names none.         *)
HealthySide(ns, nodes, ids) ==
    LET cut == IF ids \cap nodes # {}
               THEN ids \cap nodes
               ELSE {i \in nodes : ~ ns[i].ok}
    IN  {i \in nodes : \A c \in cut : i < c}

(* Faulty variant: the validity of the candidates is not looked at.        *)
LastHealthyOfAnyValidity(ns, nodes) ==
    LET intents == {i \in nodes : ns[i].type = "THOUGHT"}
    IN  IF intents # {} THEN LastOf(intents) ELSE LastOf(nodes)

(* SummaryEngine._last_healthy: the last VALID intent, else the last VALID node *)
LastHealthy(ns, nodes) ==
    LET good    == {i \in nodes : ns[i].ok}
        intents == {i \in good : ns[i].type = "THOUGHT"}
    IN  IF intents # {} THEN LastOf(intents) ELSE LastOf(good)

(* SummaryEngine._nearest_prev_snapshot: a snapshot at or before node i *)
SnapshotBefore(ns, nodes, i) ==
    \E j \in nodes : j <= i /\ ns[j].type = "OBSERVATION"

(* The branch handle_fault discards: everything from the first faulty node on *)
FaultyTail(ns, ids) == {i \in DOMAIN ns : \E f \in ids \cap DOMAIN ns : f <= i}

(* The outcome of summarising an internal fault: the anchor (or NoNode)    *)
(* and whether there is a snapshot to roll back to.                        *)
InternalSummary(ns, ph, ids, history) ==
    LET nodes == Collected(ns, ids, history)
        h     == LastHealthy(ns, HealthySide(ns, nodes, ids))
    IN  [anchor   |-> h,
         snapshot |-> IF h # NoNode THEN SnapshotBefore(ns, nodes, h)
                                    ELSE LatestPhase(ph) # 0]

(* The outcome of summarising an external fault: the nodes of the latest   *)
(* VALID phase, whose last node becomes the anchor whatever its validity.  *)
ExternalSummary(ns, ph, history) ==
    LET k     == LatestPhase(ph)
        own   == IF k # 0 THEN PhaseNodes(ns, ph, k) ELSE {}
        nodes == IF own # {} THEN own ELSE Collected(ns, {}, history)
    IN  [anchor   |-> LastOf(nodes),
         snapshot |-> \/ k # 0
                      \/ \E i \in nodes : ns[i].type = "OBSERVATION"]
=============================================================================
