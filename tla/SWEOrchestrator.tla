-------------------------- MODULE SWEOrchestrator --------------------------
(***************************************************************************)
(* One call of SWEOrchestrator.run (swe_mas/workflow/orchestrator.py): the *)
(* steps of the multi-agent pipeline, the agent each of them runs, the     *)
(* perception that ends each of them and the recovery a fault triggers,    *)
(* interleaved with the background perception thread.                      *)
(*                                                                         *)
(* The orchestrator's thread is cut where the background thread can run in *)
(* between and matter: at each query and command of an agent, between the  *)
(* read and the reset of the mailbox, and around the summary of a fault.   *)
(***************************************************************************)
EXTENDS PerceptionWorker

CONSTANTS
    Configs,     \* the configurations of a run that are considered
    Histories    \* the max_history of the summary strategies

StepNames == {"analyze", "locate_static", "locate_dynamic", "merge_locate",
              "plan", "implement", "verify"}

Steps == <<"analyze", "locate_static", "locate_dynamic", "merge_locate",
           "plan", "implement", "verify">>

(* The keyword arguments of the orchestrator and of run: limit is          *)
(* max_iterations_per_agent, start the index of start_step, stop that of   *)
(* stop_before_step (8: none).                                             *)
Config == [perception : BOOLEAN, recovery : BOOLEAN, relay : BOOLEAN,
           inject : BOOLEAN, limit : Nat \ {0},
           start : 1 .. 7, stop : 1 .. 8]

ASSUME ConfigsAssumption == Configs \subseteq Config
ASSUME HistoriesAssumption == Histories \subseteq Nat

VARIABLES
    config,      \* the arguments of this run
    pc, idx,     \* where the thread is; the step it is at
    iter,        \* the iteration of the running agent
    got,         \* local "fault" of _maybe_perceive
    anchor,      \* the node agents fork from: self.anchor_node_id, else
                 \* state["healthy_node_id"]
    cur,         \* state["current_step"]: a step and the suffix added to it
    success, error, patch, located, context, recoveries,
    phases,      \* the phase_snapshots of the session
    dirty,       \* are there uncommitted source edits in the worktree?
    reward,      \* what the episode is rewarded with (0: nothing)
    verdict, stale, late   \* history: see the properties

stateVars == <<cur, success, error, patch, located, context, recoveries>>
history   == <<verdict, stale, late>>
vars == <<nodes, workerVars, config, pc, idx, iter, got, anchor, stateVars,
          phases, dirty, reward, history>>

Step == Steps[idx]

PhaseOf == [s \in StepNames |->
    CASE s \in {"locate_static", "locate_dynamic", "merge_locate"} -> "locate"
      [] OTHER -> s]

RoleOf == [s \in StepNames |->
    CASE s = "analyze"   -> "analyzer"
      [] s = "plan"      -> "planner"
      [] s = "implement" -> "implementer"
      [] s = "verify"    -> "verifier"
      [] OTHER           -> "locator"]

(* _step_to_role: a suffixed or empty label is no agent's role. *)
StepToRole(label) ==
    IF label.mark = "" /\ label.base \in StepNames
    THEN RoleOf[label.base] ELSE "unknown"

Locating == {"locate_static", "locate_dynamic"}
(* Faulty variant: the verifier answers without running anything.          *)
LoopingNoVerify == Locating \cup {"implement"}
Looping  == Locating \cup {"implement", "verify"}   \* agents with an iteration loop

Init ==
    /\ config \in Configs
    /\ nodes = <<>> /\ phases = <<>>
    /\ WorkerInit(config.perception)
    /\ pc = "step" /\ idx = config.start /\ iter = 0
    /\ got = NoFault /\ anchor = NoNode
    /\ cur = [base |-> "", mark |-> ""]
    /\ success = TRUE /\ error = "none" /\ patch = "empty" /\ located = {}
    /\ context = FALSE /\ recoveries = 0
    /\ dirty = FALSE /\ reward = 0
    /\ verdict = "none" /\ stale = 0 /\ late = 0

-----------------------------------------------------------------------------
(* Steps and the agents they run.                                          *)

(* Faulty variant: the loop goes on after a failed step.                   *)
AtStepRegardless(s) ==
    pc = "step" /\ idx <= Len(Steps) /\ idx # config.stop /\ Step = s

AtStep(s) ==
    /\ pc = "step" /\ success
    /\ idx <= Len(Steps) /\ idx # config.stop /\ Step = s

(* The node functions create the agent, which opens its phase.  The two    *)
(* locate nodes do not write current_step.                                 *)
StartAgent ==
    /\ \E s \in StepNames \ {"merge_locate"} :
        /\ AtStep(s)
        /\ s = "implement" => ~ config.inject
        /\ cur' = IF s \in Locating THEN cur ELSE [base |-> s, mark |-> ""]
        /\ phases' = Append(phases, [phase |-> PhaseOf[s], ok |-> TRUE,
                                     from |-> Len(nodes) + 1])
    /\ iter' = 0
    /\ pc' = "ask"
    /\ UNCHANGED <<nodes, workerVars, config, idx, got, anchor, success, error,
                   patch, located, context, recoveries, dirty, reward,
                   verdict, stale, late>>

(* Faulty variant: the stop checker is not consulted.                      *)
NeverStopped == FALSE

(* ImplementerAgent._stop_requested; the other agents have no stop checker. *)
Stopped == Step = "implement" /\ PeekStop

(* query_model succeeds; the analyzer and the planner are then done. *)
ModelReply ==
    /\ pc = "ask" /\ iter < config.limit /\ ~ Stopped
    /\ RecorderAppend([phase |-> PhaseOf[Step], type |-> "THOUGHT", ok |-> TRUE])
    /\ iter' = iter + 1
    /\ pc' = IF Step \in Looping THEN "act" ELSE "consume"
    /\ UNCHANGED <<stopping, signal, wpc, found, config, idx, got, anchor,
                   stateVars, phases, dirty, reward, history>>

(* What a node function does with the result of an agent that failed: a    *)
(* failed locate step is not a failure of the run, a failed agent hands    *)
(* over "cause" ("model": the text of a model error) or a text of its own. *)
AgentFailed(cause) ==
    /\ success' = IF Step \in Locating THEN success ELSE FALSE
    /\ error' = CASE Step \in Locating                  -> error
                  [] Step \in {"analyze", "plan"}       -> "agent"
                  [] cause = "agent" /\ error # "none"
                       /\ Step = "verify"               -> error
                  [] OTHER                              -> cause
    /\ patch' = IF Step = "implement" THEN "empty" ELSE patch
    /\ located' = located \cup ({Step} \cap Locating)

(* query_model gives up: an INVALID node is recorded and the agent fails.  *)
ModelError ==
    /\ pc = "ask" /\ iter < config.limit /\ ~ Stopped
    /\ RecorderAppend([phase |-> PhaseOf[Step], type |-> "MESSAGE", ok |-> FALSE])
    /\ \E cause \in {"model", "agent"} : AgentFailed(cause)
    /\ pc' = "consume"
    /\ UNCHANGED <<stopping, signal, wpc, found, config, idx, iter, got, anchor,
                   cur, context, recoveries, phases, dirty, reward, history>>

(* Out of iterations.  The implementer then collects what it has edited.   *)
Exhausted ==
    /\ pc = "ask" /\ iter = config.limit
    /\ \/ /\ Step = "implement" /\ dirty
          /\ patch' = "diff"
          /\ UNCHANGED <<success, error, located>>
       \/ /\ success' = IF Step \in Locating THEN success ELSE FALSE
          /\ error' = IF Step \in Locating \/ (Step = "verify" /\ error # "none")
                      THEN error ELSE "agent"
          /\ patch' = IF Step = "implement" THEN "placeholder" ELSE patch
          /\ located' = located \cup ({Step} \cap Locating)
    /\ pc' = "consume"
    /\ UNCHANGED <<nodes, workerVars, config, idx, iter, got, anchor, cur,
                   context, recoveries, phases, dirty, reward, history>>

(* stop_requested, before a query or before the command of a reply. *)
StopAgent ==
    /\ pc \in {"ask", "act"} /\ Stopped
    /\ pc = "ask" => iter < config.limit
    /\ AgentFailed("agent")
    /\ pc' = "consume"
    /\ UNCHANGED <<nodes, workerVars, config, idx, iter, got, anchor, cur,
                   context, recoveries, phases, dirty, reward, history>>

(* A reply without a command, or whose command a guard turned down. *)
NoCommand ==
    /\ pc = "act"
    /\ pc' = "ask"
    /\ UNCHANGED <<nodes, workerVars, config, idx, iter, got, anchor, stateVars,
                   phases, dirty, reward, history>>

Approved ==
    /\ pc = "act" /\ ~ Stopped
    /\ pc' = "exec"
    /\ UNCHANGED <<nodes, workerVars, config, idx, iter, got, anchor, stateVars,
                   phases, dirty, reward, history>>

(* execute_command.  The locators then clean the worktree; the implementer *)
(* may find its patch complete, if there is one.                           *)
Execute ==
    /\ pc = "exec"
    /\ RecorderAppend([phase |-> PhaseOf[Step], type |-> "OBSERVATION", ok |-> TRUE])
    /\ dirty' \in IF Step \in Locating THEN {FALSE} ELSE BOOLEAN
    /\ \/ pc' = "ask" /\ patch' = patch
       \/ Step = "implement" /\ dirty' /\ pc' = "consume" /\ patch' = "diff"
    /\ late' = IF Step = "implement" /\ PeekStop THEN late + 1 ELSE late
    /\ UNCHANGED <<stopping, signal, wpc, found, config, idx, iter, got, anchor,
                   cur, success, error, located, context, recoveries, phases,
                   reward, verdict, stale>>

(* A locator hands in its finding (possibly an empty one). *)
Finish ==
    /\ pc = "act" /\ Step \in Locating
    /\ located' \in {located, located \cup {Step}}
    /\ pc' = "consume"
    /\ UNCHANGED <<nodes, workerVars, config, idx, iter, got, anchor, cur,
                   success, error, patch, context, recoveries, phases, dirty,
                   reward, history>>

(* The verifier hands in its verdict, which it may do once it ran tests.   *)
Verdict ==
    /\ pc = "act" /\ Step = "verify"
    /\ \E i \in PhaseNodes(nodes, phases, Len(phases)) : nodes[i].type = "OBSERVATION"
    /\ verdict' \in {"pass", "fail"}
    /\ IF verdict' = "pass"
       THEN UNCHANGED <<success, error>>
       ELSE /\ success' = FALSE
            /\ error' = IF error = "none" THEN "agent" ELSE error
    /\ pc' = "consume"
    /\ UNCHANGED <<nodes, workerVars, config, idx, iter, got, anchor, cur,
                   patch, located, context, recoveries, phases, dirty, reward,
                   stale, late>>

(* An exception inside an agent's loop.  The verifier reports one that     *)
(* looks transient (a timeout) the way it reports a model error.           *)
AgentException ==
    /\ pc \in {"act", "exec"}
    /\ \/ AgentFailed("agent")
       \/ Step = "verify" /\ AgentFailed("model")
    /\ pc' = "consume"
    /\ UNCHANGED <<nodes, workerVars, config, idx, iter, got, anchor, cur,
                   context, recoveries, phases, dirty, reward, history>>

(* An exception outside an agent's loop (the recorder raising while a      *)
(* phase is opened or closed).  Neither the locate nodes nor the verify    *)
(* node turn it into a failure of the run.                                 *)
NodeException ==
    /\ pc = "ask"
    /\ success' = IF Step \in Locating \cup {"verify"} THEN success ELSE FALSE
    /\ error' = "agent"
    /\ patch' = IF Step = "implement" THEN "empty" ELSE patch
    /\ located' = located \ {Step}
    /\ pc' = "consume"
    /\ UNCHANGED <<nodes, workerVars, config, idx, iter, got, anchor, cur,
                   context, recoveries, phases, dirty, reward, history>>

(* _merge_locate_node runs no agent.  With nothing located it ends the run *)
(* and skips perception.                                                   *)
MergeLocate ==
    /\ AtStep("merge_locate")
    /\ cur' = [base |-> "merge_locate", mark |-> ""]
    /\ IF located = {}
       THEN /\ success' = FALSE
            /\ error' = "agent"
            /\ pc' = "step"
            /\ idx' = idx + 1
       ELSE /\ pc' = "consume"
            /\ UNCHANGED <<success, error, idx>>
    /\ UNCHANGED <<nodes, workerVars, config, iter, got, anchor, patch, located,
                   context, recoveries, phases, dirty, reward, verdict, stale,
                   late>>

-----------------------------------------------------------------------------
(* _maybe_perceive.                                                        *)

(* consume_fault reads the mailbox ...                                     *)
ReadSignal ==
    /\ pc = "consume"
    /\ got' = signal
    /\ pc' = "clear"
    /\ UNCHANGED <<nodes, workerVars, config, idx, iter, anchor, stateVars,
                   phases, dirty, reward, history>>

(* ... and then resets it, whatever it holds by now.                       *)
ClearSignal ==
    /\ pc = "clear"
    /\ signal' = NoFault
    /\ pc' = "decide"
    /\ UNCHANGED <<nodes, event, stopping, wpc, found, config, idx, iter, got,
                   anchor, stateVars, phases, dirty, reward, history>>

(* The fault to act on: the consumed report, else the model error of the   *)
(* step, else what perception finds when it is run here.                   *)
FaultsSeen ==
    CASE got # NoFault     -> {got}
      [] got = NoFault /\ error = "model" ->
            {[kind |-> "external", ids |-> {}, stop |-> FALSE]}
      [] OTHER             -> IF config.perception THEN Signals(nodes) ELSE {NoFault}

NextStep(mark) ==
    /\ pc' = "step"
    /\ idx' = idx + 1
    /\ got' = NoFault
    /\ cur' = IF mark = "" THEN cur ELSE [cur EXCEPT !.mark = mark]

Healthy ==
    /\ pc = "decide" /\ NoFault \in FaultsSeen
    /\ NextStep("")
    /\ UNCHANGED <<nodes, workerVars, config, iter, anchor, success, error, patch,
                   located, context, recoveries, phases, dirty, reward, history>>

PrefaultStop ==
    /\ pc = "decide"
    /\ \E f \in FaultsSeen : f.stop
    /\ NextStep("_stopped")
    /\ success' = FALSE
    /\ error' = "agent"
    /\ UNCHANGED <<nodes, workerVars, config, iter, anchor, patch, located,
                   context, recoveries, phases, dirty, reward, history>>

Unrecoverable ==
    /\ pc = "decide" /\ ~ config.recovery
    /\ \E f \in FaultsSeen \ {NoFault} : ~ f.stop
    /\ NextStep("_recovered")
    /\ recoveries' = recoveries + 1
    /\ success' = FALSE
    /\ error' = "agent"
    /\ UNCHANGED <<nodes, workerVars, config, iter, anchor, patch, located,
                   context, phases, dirty, reward, history>>

(* handle_fault, first part: the faulty nodes become INVALID and the phase *)
(* "of the role" is marked.  Roles and phases have different names.        *)
HandleFault ==
    /\ pc = "decide" /\ config.recovery
    /\ \E f \in FaultsSeen \ {NoFault} :
        /\ ~ f.stop
        /\ got' = f
        /\ nodes' = UpdateValidity(nodes, f.ids)
        /\ phases' = MarkPhaseInvalid(phases, StepToRole(cur))
        /\ stale' = IF \E i \in f.ids \cap DOMAIN nodes : ~ nodes[i].ok
                    THEN stale + 1 ELSE stale
    /\ recoveries' = recoveries + 1
    /\ pc' = "recover"
    /\ UNCHANGED <<workerVars, config, idx, iter, anchor, cur, success, error,
                   patch, located, context, dirty, reward, verdict, late>>

(* _implement_node with fault_injection: a fault that blames no node is    *)
(* handled before the implementer would run, and the function returns.     *)
InjectFault ==
    /\ AtStep("implement") /\ config.inject
    /\ recoveries' = recoveries + 1
    /\ IF config.recovery
       THEN /\ got' = [kind |-> "injected", ids |-> {}, stop |-> FALSE]
            /\ phases' = MarkPhaseInvalid(phases, "implementer")
            /\ cur' = [base |-> "implement", mark |-> ""]
            /\ pc' = "recover"
            /\ UNCHANGED <<idx, success, error>>
       ELSE /\ pc' = "step"
            /\ idx' = idx + 1
            /\ cur' = [base |-> "implement", mark |-> "_fault_injected"]
            /\ success' = FALSE
            /\ error' = "agent"
            /\ UNCHANGED <<got, phases>>
    /\ UNCHANGED <<nodes, workerVars, config, iter, anchor, patch, located,
                   context, dirty, reward, history>>

(* With the summary at hand the run either goes on, or fails; the manual    *)
(* relay of an injected fault does neither.                                *)
(* Faulty variant: the run goes on whatever the switches say.              *)
RelayAnyway == context' = context /\ success' = TRUE /\ error' = "none"

Relay ==
    \/ /\ config.relay
       /\ context' = TRUE /\ success' = TRUE /\ error' = "none"
    \/ /\ ~ config.relay /\ got.kind # "injected"
       /\ context' = context /\ success' = FALSE /\ error' = "agent"
    \/ /\ ~ config.relay /\ got.kind = "injected"
       /\ UNCHANGED <<context, success, error>>

(* handle_fault, second part (summary, discarded branch), the roll-back to *)
(* the snapshot of the summary, and the relay.  git reset drops what is    *)
(* not committed; its failure goes unnoticed.                              *)
Recover ==
    /\ pc = "recover"
    /\ \E h \in Histories, discard \in BOOLEAN :
        LET sum == IF got.kind = "external"
                   THEN ExternalSummary(nodes, phases, h)
                   ELSE InternalSummary(nodes, phases, got.ids, h)
        IN  /\ nodes' = IF discard
                        THEN UpdateValidity(nodes, FaultyTail(nodes, got.ids))
                        ELSE nodes
            /\ dirty' \in IF sum.snapshot THEN {dirty, FALSE} ELSE {dirty}
            /\ anchor' = IF config.relay /\ sum.anchor = NoNode
                         THEN anchor ELSE sum.anchor
    /\ Relay
    /\ NextStep(IF got.kind = "injected" THEN "_fault_injected" ELSE "_recovered")
    /\ UNCHANGED <<workerVars, config, iter, patch, located, recoveries, phases,
                   reward, history>>

(* perception.run or handle_fault raises in the orchestrator's thread: the *)
(* run is over.  A RuntimeError is logged and leaves the state as the step *)
(* has left it, anything else makes the run fail; the recovery itself only *)
(* calls what raises other kinds (the recorder, git).                      *)
WorkflowException ==
    /\ \/ pc = "decide" /\ got = NoFault /\ error # "model" /\ config.perception
       \/ pc = "recover"
    /\ \/ pc = "decide" /\ UNCHANGED <<success, error>>
       \/ success' = FALSE /\ error' = "agent"
    /\ pc' = "finish"
    /\ got' = NoFault
    /\ UNCHANGED <<nodes, workerVars, config, idx, iter, anchor, cur, patch,
                   located, context, recoveries, phases, dirty, reward, history>>

-----------------------------------------------------------------------------
(* The end of run.                                                         *)

(* Faulty variant: a failed step does not break the loop.                  *)
LoopEndsAtLast ==
    /\ pc = "step"
    /\ idx > Len(Steps) \/ idx = config.stop
    /\ pc' = "finish"
    /\ UNCHANGED <<nodes, workerVars, config, idx, iter, got, anchor, stateVars,
                   phases, dirty, reward, history>>

LoopEnds ==
    /\ pc = "step"
    /\ idx > Len(Steps) \/ idx = config.stop \/ ~ success
    /\ pc' = "finish"
    /\ UNCHANGED <<nodes, workerVars, config, idx, iter, got, anchor, stateVars,
                   phases, dirty, reward, history>>

(* perception_worker.stop() joins the thread for a second at most. *)
StopPerception ==
    /\ pc = "finish"
    /\ StopWorker
    /\ pc' = "reward"
    /\ UNCHANGED <<nodes, event, signal, wpc, found, config, idx, iter, got,
                   anchor, stateVars, phases, dirty, reward, history>>

Reward ==
    /\ pc = "reward"
    /\ reward' = IF nodes = <<>> THEN 0 ELSE IF success THEN 1 ELSE -1
    /\ pc' = "done"
    /\ UNCHANGED <<nodes, workerVars, config, idx, iter, got, anchor, stateVars,
                   phases, dirty, history>>

-----------------------------------------------------------------------------
Agent == \/ StartAgent \/ ModelReply \/ ModelError \/ Exhausted \/ StopAgent
         \/ NoCommand \/ Approved \/ Execute \/ Finish \/ Verdict
         \/ AgentException \/ NodeException \/ MergeLocate

Perceive == \/ ReadSignal \/ ClearSignal \/ Healthy \/ PrefaultStop
            \/ Unrecoverable \/ HandleFault \/ InjectFault \/ Recover
            \/ WorkflowException

Main == Agent \/ Perceive \/ LoopEnds \/ StopPerception \/ Reward

WorkerStep ==
    /\ Worker
    /\ UNCHANGED <<config, pc, idx, iter, got, anchor, stateVars, phases, dirty,
                   reward, history>>

Next == Main \/ WorkerStep

(* Both are threads of one process and every call they make returns.       *)
Fairness == WF_vars(Main) /\ WF_vars(WorkerStep)

Spec == Init /\ [][Next]_vars /\ Fairness
-----------------------------------------------------------------------------
(* What a run guarantees.                                                  *)

Marks == {"", "_recovered", "_stopped", "_fault_injected"}

GraphTypes ==
    nodes \in Seq(Node) /\ phases \in Seq(Phase)

WorkerTypes ==
    /\ event \in BOOLEAN /\ stopping \in BOOLEAN
    /\ signal \in Fault /\ found \in Fault
    /\ wpc \in {"head", "wait", "scan", "post", "ended"}

ControlTypes ==
    /\ config \in Configs
    /\ pc \in {"step", "ask", "act", "exec", "consume", "clear", "decide",
               "recover", "finish", "reward", "done"}
    /\ idx \in 1 .. 8 /\ iter \in 0 .. config.limit
    /\ got \in Fault /\ anchor \in Nat

StateTypes ==
    /\ cur \in [base : StepNames \cup {""}, mark : Marks]
    /\ success \in BOOLEAN /\ error \in {"none", "agent", "model"}
    /\ patch \in {"empty", "diff", "placeholder"} /\ located \subseteq Locating
    /\ context \in BOOLEAN /\ recoveries \in Nat
    /\ dirty \in BOOLEAN /\ reward \in {-1, 0, 1}

HistoryTypes ==
    /\ verdict \in {"none", "pass", "fail"}
    /\ stale \in Nat /\ late \in Nat

(* Every variable has the type its use in the code gives it.               *)
TypeOK == GraphTypes /\ WorkerTypes /\ ControlTypes /\ StateTypes /\ HistoryTypes

(* A fault whose nodes an earlier recovery already discarded is acted upon *)
(* at most once in a run: the worker reports once and ends, and perception *)
(* run in the orchestrator's thread looks at VALID nodes only.             *)
StaleAtMostOnce == stale <= 1

(* Once a stop has been asked for, the implementer runs at most the one    *)
(* command it was about to run.                                            *)
OneCommandAfterStop == late <= 1

(* consume_fault resets the mailbox after having read it.  The report this *)
(* wipes out is the one it read, except when it had read none.             *)
ResetWipesWhatWasRead ==
    [][signal # NoFault /\ signal' = NoFault => got \in {signal, NoFault}]_vars

(* The anchor that the recovery of an internal fault gives to the agents   *)
(* is a VALID node recorded before every node of the fault, and discarding *)
(* the faulty branch does not take it away.                                *)
InternalAnchorHealthy ==
    [][pc = "recover" /\ got.kind # "external" /\ anchor' \notin {anchor, NoNode} =>
         /\ anchor' \in DOMAIN nodes'
         /\ nodes'[anchor'].ok
         /\ \A f \in got.ids : anchor' < f]_vars

(* A run goes on after a fault only when the agents are told of it: a      *)
(* recovery that lets the next step run has set recovery_context.  (The    *)
(* manual relay of an injected fault is the exception.)                    *)
RelayTellsAgents ==
    pc \in {"ask", "act", "exec", "done"} /\ success /\ recoveries > 0 =>
        \/ config.relay /\ config.recovery /\ context
        \/ config.inject /\ recoveries = 1 /\ ~ context

(* A run that was to go through the verifier and returns success has its   *)
(* word for it (and a patch, if nothing was recovered and the implementer  *)
(* was among its steps), but for three ways out: the verifier's own failed *)
(* step was recovered from, and nothing is verified after that; the        *)
(* verifier raised outside of its loop, and the error stays in the state;  *)
(* perception raised a RuntimeError before the verifier was done.          *)
SuccessIsVerified ==
    pc = "done" /\ success /\ config.stop > Len(Steps) =>
        \/ /\ verdict = "pass"
           /\ recoveries = 0 /\ config.start <= 6 => patch = "diff"
        \/ /\ cur = [base |-> "verify", mark |-> "_recovered"]
           /\ config.relay /\ context
        \/ verdict = "none" /\ (error # "none" \/ idx <= Len(Steps))

(* The run returns, whatever the agents and the background thread do.      *)
RunReturns == <>(pc = "done")

-----------------------------------------------------------------------------
(* The run seen from outside.  Within a step the verdict on it is still    *)
(* open, and so is the recovery it may count.                              *)

AtBoundary == pc \notin {"ask", "act", "exec", "consume", "clear", "decide", "recover"}

Outside == INSTANCE Episode WITH
    Last      <- Len(Steps),
    next      <- idx,
    alive     <- AtBoundary => success,
    recovered <- IF pc = "recover" THEN recoveries - 1 ELSE recoveries,
    over      <- pc \in {"finish", "reward", "done"}

(* A run is an episode: see module Episode for what that promises.         *)
RunIsEpisode == Outside!EpSpec

=============================================================================
