# A verified model of MASGuard

This directory holds TLA+ modules that model the parts of this repository
whose correctness depends on the order in which things happen: the multi-agent
pipeline of `swe_mas` with its background perception thread and its recovery,
the batch around it, and of `bcmr_swe` the coordinator, the semantic executor
with the controllers that drive it, and the three recovery experiments.  TLC
checks the modules on small instances; TLAPS proves the main results for every
value of the constants.

## 1. The system

| part | state it keeps | operations | hard parts |
|---|---|---|---|
| Orchestrator (`swe_mas/workflow/orchestrator.py`) | the `state` dictionary of one run, `anchor_node_id`, the session | `run`, seven step functions, `_maybe_perceive` | recovery in the middle of a run, a second thread, a stop that arrives while an agent runs |
| Perception thread (`workflow/perception_worker.py`) | one-slot mailbox `fault_signal`, stop flag, the recorder's event | `_loop`, `consume_fault`, `peek_fault`, `stop` | unsynchronised mailbox, ends at its first report |
| Agents (`agents/*.py`) | conversation, iteration, phase | `run`, `query_model`, command execution | model errors, iteration limits, stop tests before side effects |
| Memory (`memory/recorder.py`) | SQLite: nodes, phase snapshots, feedback | `append`, `update_validity`, `start_phase`, `end_phase`, `mark_phase_invalid`, reads | shared by both threads, validity changes under a reader |
| Perception (`perception/*.py`) | none | `PerceptionManager.run`, graph detector, heartbeat | reads the graph while agents append to it |
| Recovery (`recovery/*.py`) | pending feedback | `handle_fault`, summaries, `rollback` | anchor and snapshot must be consistent with what is discarded and reset |
| Evolution (`evolution/*.py`) | `evolution_policy.json` | bandit selection, `save`, `train_policy` | whole-file overwrite by every run |
| Repository cache (`utils/repo_utils.py`, `git_utils.py`) | lock file, clone, worktrees | `_ensure_cached_repo`, `prepare_instance_repo`, `clone_repo_ssh` | lock wait that gives up, partial clones, retries, crashes |
| Batch runner (`run/batch.py`, `run/save.py`) | thread pool, `predictions.json`, `summary.json` | `process_instance_*`, `save_results` | unlocked read-modify-write |
| Sidecar (`src/recoveragent`) | the failed-run directory | `init`, `analyze-run`, `prompt`, `apply-patch`, `validate` | artifacts written one after the other, patch fall-backs |
| Coordinator and provenance (`bcmr_swe/agent`, `bcmr_swe/provenance`) | workspace, checkpoints, provenance graph, stage outputs | stages, checkpoint, restore, replay | restore and resume in the middle of a failure |
| Semantic executor (`bcmr_swe/recovery/semantic_executor.py`, `semantic_language.py`) | ledger: budgets, actions tried, guards, candidates | `execute_semantic`: compile a step, gate each primitive, judge a replay, decide on the next unit | several budgets read at different places, tables of follow-ups that override one another |
| Controllers (`budgeted_controller.py`, `car_controller.py`, `object_lifecycle.py`, `belief_revision.py`, `counterexample.py`, ...) | life of the recovery objects, beliefs and episodes of a run | `suggest_next_action`, `select_car_action`, `apply_lifecycle_transition` | scores and gates over a long history |
| Enforced recovery (`experiments/mas_dx_run_action_enforced_recovery.py`) | workspace, patch, session, row | one attempt: replay, probe, patch, gates with a revision each, oracle | gates judge one tree and the oracle another |
| Clean start (`experiments/mas_recovery_run_clean_start_baseline.py`) | workspace, stage outputs, audits, row | one run: artifacts, preflight, stages, five kinds of retry, audits, oracle | retries outrun the audits, evidence of an earlier patch |
| Recovery benchmark (`experiments/run_recovery_only_benchmark.py`) | rows file, container, checkpoints, workspace | seed a fault, choose programs, try each on the restored state, judge | killed and resumed, trials that leave something behind |
| Other recovery policies (`bcmr_swe/mas_recovery`) | none | decision tables | volume |
| Harness runtime (`bcmr_swe/substrate`) | container, lock | start, run, close | external processes that fail half way |

### How the parts interact

- `run` of the orchestrator calls the agents in its own thread, one per step.
  Everything an agent says or does is appended to the memory recorder, which
  sets an event; the perception thread sleeps on that event, reads the graph
  and leaves a report in a one-slot mailbox.  Between two steps
  (`_maybe_perceive`) the orchestrator empties the mailbox, or runs perception
  itself, and hands a fault to the recovery manager, which marks nodes and a
  phase invalid, picks an anchor, a snapshot and a summary, and may roll the
  worktree back.  The mailbox, the graph and the stop flag are shared without
  a lock.
- The batch runner starts one orchestrator per instance in a thread pool.  The
  threads share the disk: the clone that `_ensure_cached_repo` guards with a
  lock file, the worktrees linked to it, and `predictions.json`.  A killed
  batch leaves all of them as they are for the next one.
- The coordinator of `bcmr_swe` runs three stages through adapters.  A failed
  stage calls `_handle_failure`, which calls the program executor or a v2
  action, which calls the stages again.  State is shared through the provenance
  recorder (graph, checkpoint index) and the attributes of the coordinator,
  which the counterfactual trials copy, overwrite and put back.
- The semantic executor is called by the coordinator's program executor with a
  program and a budget.  It calls back into the coordinator for every replay,
  reads the verdict, and keeps everything else in its ledger.  A controller is a
  function of the ledger, of the recovery objects and, for CAR, of the memory of
  the run; its answer is compiled like any other action, and what came of it
  moves objects and memory before it is asked again.
- The enforced recovery and the clean start drive the same patcher and verifier
  without the coordinator's recovery: each retry is a call of its own on the
  same workspace, and audits that were made earlier are read at the end, when it
  is decided whether the oracle is asked.
- The benchmark runs the coordinator on prepared failures and shares with its
  own later starts the rows file only; its trials share one workspace.
- The sidecar reads and writes the failed-run directory only.

### What is hard, and what makes each part correct

| part | hard behaviour | correct when |
|---|---|---|
| orchestrator and perception thread | two threads on a mailbox, a flag and a graph; recovery from a report that is already stale; a thread that outlives `stop()` | a report is acted on once and a second one is never wiped unread (a single one may be), a stop takes effect at once, the run and the thread end |
| recovery (`swe_mas`) | anchor, discarded branch and roll-back are chosen one after the other | the anchor survives, the agents are told, a success was verified |
| repository cache | lock that is given up, clones that fail, time out or are killed | the lock is exclusive and released, nobody gets half a clone, no worktree loses its clone |
| batch results | unlocked read-modify-write, a crash between truncation and dump | what counts as a success is in the predictions file, the summary gets written |
| coordinator | a failure handler that calls itself, trials that run the real stages on the real workspace | recovery stays within its budget, trials leave nothing behind, a success was verified, checkpoints a program names exist |
| semantic executor | four budgets, follow-ups, an enforced controller that may contradict them | budgets hold, nothing is retried blindly, the last slot is used, success is earned |
| controllers | cheap actions between expensive ones over a whole loop | a barren replay is followed by evidence, objects move for replays only, what is answered is run |
| enforced recovery | up to three revisions behind gates, an oracle at the end | success is about the tree that was judged and passed the gates, the session is closed |
| clean start | five retries and five audits that outrun each other | an audit that counts is about the judged tree, a report of the agents is never believed instead |
| recovery benchmark | a process killed anywhere, rows of earlier starts, trials on one workspace | rows survive, a success is one of its own trials and is hidden by a later trial of its id only, the run ends |
| sidecar | artifacts written one after the other | artifacts of one generation belong together |

## 2. The plan

Done, in this order:

1. `MemoryGraph`, `PerceptionWorker`, `SWEOrchestrator` (one specification,
   each extending the one before), `Episode` (abstract),
   `SWEOrchestratorProofs`, `MCOrchestrator`.
2. `RepoCache`, `RepoCacheProofs`, `MCRepoCache`.
3. `BatchResults`, `BatchResultsProofs`, `MCBatchResults`.
4. `RecoveryPrograms`, `RecoveryLoop` (abstract), `Coordinator`,
   `CoordinatorProofs`, `MCCoordinator`.
5. `SemanticPrograms`, `SemanticGuard`, `SemanticPolicy`, `SemanticNext`,
   `SemanticExecutor`, `SemanticExecutorProofs`, `MCSemanticExecutor`.
6. `EnforcedRecovery`, `EnforcedRecoveryProofs`, `MCEnforcedRecovery`.
7. `CleanStart`, `CleanStartProofs`, with `CleanStartAudits` and
   `CleanStartInputs` for what the audits look at, `MCCleanStart`.
8. `RecoveryPool`, `RecoveryBenchmark`, `RecoveryBenchmarkProofs`,
   `MCRecoveryBenchmark`.
9. `ActionCards`, `ParcController`, `BeliefRevision`, `CarController`,
   `ControlledLoop`, `MCControlledLoop`.

All of 5 to 9 but the benchmark are refinements of the one abstract
`RecoveryLoop`: verdicts, a bounded number of recoveries, an end, and success
only after a pass.

Worth doing next:

10. `FailedRun`: the sidecar (`cli.py`, `patching.py`, `run_contract.py`):
    sequential artifact writes, a crash between them, the chain of patch
    fall-backs, a validation that times out and leaves the old result.
11. `PolicyStore`: the whole-file overwrite by every orchestrator of a batch, in
    the manner of `BatchResults`.

## 3. The modules

### `MemoryGraph`, `PerceptionWorker`, `SWEOrchestrator`

`nodes` is the trajectory of one session, oldest node first: a node keeps its
phase, its type and whether it is still VALID; a node id is its position.
`phases` are the phase snapshots.  The operators of `MemoryGraph` are the reads
and updates of the recorder and of the summary engine on them.
`ReportableIds` is what the similarity detector can blame; which pairs are
similar is a free choice.

The thread of `PerceptionWorker` has the labels `head` (test of the stop flag),
`wait` (wait for the event and clear it), `scan` (read the graph into the local
`found`), `post` (assign the mailbox) and `ended`.  In the code nothing is
locked, so the orchestrator may run between any two of them.

The labels of `pc` are those of the orchestrator's thread:

| `pc` | code |
|---|---|
| `step` | the head of the loop over the steps (`AtStep`, `StartAgent`, `MergeLocate`, `InjectFault`, `LoopEnds`) |
| `ask`, `act`, `exec` | an agent before a query, before and after its second stop test |
| `consume`, `clear`, `decide` | `_maybe_perceive`: the mailbox read, reset, what to do |
| `recover` | between `handle_fault`, which marks the faulty nodes, and the summary with its relay |
| `finish`, `reward`, `done` | the `finally` that stops the thread, the reward, the return |

The history variables `verdict`, `stale`, `late` are read by properties
only.  `Episode` is what a caller of `run` sees: steps are passed one by one,
nothing runs after a failed step, the episode ends and stays as it ended.

Left out: the steps `START`/`END` of the LangGraph, which is compiled and never
invoked; a state prefilled by the caller; the "no summary" branch
(orchestrator.py:272-275), since `handle_fault` always returns one; the branch
for a step that returns no state; the flags `static_success` and
`dynamic_success`, which nothing reads; a repository without git (the snapshot
is then empty and the roll-back does nothing); feedback rows.  `NodeException`
stands for any error of the recorder inside a locate node.  A verdict may follow
any observation: what a reply says is free.

### `RepoCache`

`lock`, `cache`, `author` and `tree` are on disk; `pc`, `acquired`, `attempt`,
`imported`, `result` are the locals of each worker, reset by `Restart`.
`imported` is the local name `shutil` of `clone_repo_ssh`: the function imports
it in its timeout branch only, so the clean-up of a plain failure raises
`UnboundLocalError`, which the surrounding `except` swallows.  `pace` says
whether, in this run of the model, 300 s may pass while a live worker holds the
lock and whether a clone may take more than 900 s.  Git is external: it refuses a
non-empty directory, a failing clone removes what it made, a killed one does
not, and from its check to the creation of `.git` it is atomic.  Results of
`fetch` are ignored, as in the code, and a checkout is always asked for, the
default.  When waits do not expire, whoever waits is assumed to get the lock
in time.  `manifest_bootstrap_utils.py:367-443` has its own copy of this code.

### `BatchResults`

A thread of the pool goes `queued`, `run`, `read`, `write`, `dump`, `returned`;
`open` is who has `predictions.json` open, and the file is `torn` from the
truncation to the close.  When two threads have it open, their texts overlap and
the last close may leave no JSON (`clash`).  The pool's order is left free.

### `RecoveryPrograms`, `Coordinator`, `RecoveryLoop`

`tree` is the workspace as git sees it: 0 is what is committed, every other
number an edit; an edit is always a new content.  One counter, `nextId`, names
trees, facts and checkpoints.  `mem` is what a trial takes a copy of and puts
back: the facts and which of them are conflicted or were the evidence of the
last verdict, the stage outputs, what the triggers read from the graph, and the
checkpoint index.  The nesting of Python calls is the `stack`: a frame is a
program under way (its steps, the next one, the success of its last replay,
whether a hint is in its context) or a group of trials (the candidates, the
next one, the copies to put back).

| `pc` | code |
|---|---|
| `stage` | `_resume_from` at the stage `stage` |
| `fail` | `_handle_failure` |
| `trial` | the loop of `_evaluate_programs_counterfactual` or `_evaluate_counterfactual_group` |
| `step` | the loop of `ProgramExecutor.execute` |
| `return` | a call has come back with `ret` |
| `done` | `run` has returned |

`setting` holds what `build_coordinator` may be called with: programs (v3) or
actions (v2), whether failures are captured, whether captured candidates are
tried, whether the chosen one is then executed, how many follow-up calls a v2
trial has, and the budget.  A synthesis returns any valid programs with any ids
the prompt offers (the last four checkpoints, the shared facts) or none that is
known; it always returns at least one, because a default is added.  Any
candidate may be chosen: the utility is a trade-off of costs the model does not
keep.  `RecoveryLoop` is a run seen from outside: verdicts, at most `budget`
recoveries, an end, success only if the last verdict was a pass.

Left out: token and time costs, the limits ESCALATE raises (the trials restore
them), the case memory and the data set files, the counter of captured groups
(nothing depends on it), the official-only verifier mode and the replay
contracts that other scripts set, `VERIFIER_CONTRADICTION`, which a verifier
that counts failing tests cannot cause, and an initial recovery context, which
is empty unless a script sets it.  A stage that raises ends the run by the
exception and is not modelled.

### `SemanticPrograms`, `SemanticGuard`, `SemanticPolicy`, `SemanticNext`, `SemanticExecutor`

The first four are operators without state: what an action is compiled to; what
a replay is judged to have left behind (its guard); whether a replay can be
afforded and what the tables of follow-ups say; which unit comes next.
`SemanticExecutor` runs a program primitive by primitive:

| `pc` | code |
|---|---|
| `start` | the head of `execute_semantic` |
| `unit`, `step` | the loops over the units and over the steps of one |
| `prims` | `_execute_compiled` at the next primitive, behind its budget gate |
| `passed`, `deferred`, `failed` | after a replay, by what the verifier said of it |
| `next` | `_next_closed_loop_fragment`, `_next_closed_loop_action_program` |
| `done`, `raised` | returned, or ended by an exception |

`ledger` is the recovery ledger with the histories the rules read: guards,
replays with their cost, their contracts, candidates, actions tried.  The rules
distinguish six kinds of edit, and the model keeps no more of a diff.

Simplified: the suspected paths are known; a controller gives any answer;
the paths of a signature are the suspected ones and, under CAR, those of the
latest patch intent (a compiled replay names no candidate's files,
semantic_language.py:1124-1137); commands for an official evaluation are there; only primitives take time; what the raw patch scope
rejects is the free choice `nested`.  Kept as the code has it: an enforced
LOCAL_REPAIR after a repair ends the loop (`claim_forcedactionsrun`); the official evaluation overwrites a violation of contract or
intent; after a stagnation was redirected to a preparing action the suggestion
is empty and the next decision stops; a step budget of 0 does not stop the next
unit.

### `ActionCards`, `ParcController`, `BeliefRevision`, `CarController`, `ControlledLoop`

The same loop with the two controllers of the code in place of any answer.
`ActionCards` says which actions can change anything and what they act on,
`ParcController` and `CarController` score and gate them, `BeliefRevision` is
what CAR remembers of a run.  In `ControlledLoop` a step is taken whole, because
an enforced controller's units have one step; `c` is what a controller reads,
`before` whether `last_action_result` still holds the guard of a replay when the
episode is written, which it does by mistake (semantic_executor.py:456 is before
533).  `c.target` says whether a step has a target: from the start, since a
suspected path is one (semantic_language.py:152, 222); not after
CLEAR_LOCAL_STATE; again after a replay or a rollback to a checkpoint.  A
LOCAL_REPAIR can change something with an active object or a target
(mutation_predictor.py:64), so it is open to a loop whose objects are all
closed.  `RunOut` is the time budget running out, anywhere or never.

Simplified: at most one object of a type; tokens in thousands; no priors over
other instances, which are off by default; the verifier never defers; the
Wilson bound of the predictor, which cannot reject anything with the counts of
one run, is left out.  Kept: CAR raises a `TypeError` (2028/2029) whenever it
chooses a repair with a candidate that converges; BOOST with a candidate becomes
a replay that counts as LOCAL_REPAIR; a refused replay counts against its object;
a fused step writes two episodes; unknowns are never cleared; a recheck never
resolves an object; the goal may be reached with exhausted objects only.

### `EnforcedRecovery`

One attempt, from the workspace to the row.  Contents of the workspace are
uninterpreted: `Diff` gives the patch of a tree, `Holds` what the gates and the
oracle find of it.  `pc` names the phases in the order of the code: `replay`
(the patch of the failed run), `validate`, `verify`, `probe`, `reset`,
`candidate`, `patch`, the gates `invariants`, `intent`, `syntax` and `collect`,
`evaluate`, the revision `span` with `reevaluate`, and `spec`, `apply` for a given
candidate.  `Raise` takes any of them to a row with the error; `close` closes the
session.  Kept: a row with an infrastructure or provider error may still report
success (2648 of the runner); the session stays open when `build_executor`
raises after starting the container (common.py:482); the placeholder of an
implementer that ran out of iterations counts as a revision (implementer.py:385);
validated commands drop tests that are no longer collected (2447).

### `CleanStart`, `CleanStartAudits`, `CleanStartInputs`

`CleanStart` is a run: preflight, session, artifacts, the stages or a script in
their place (the audit of a script is handed no cues, so one is always rejected
where the meaning of a patch is asked for, 957-969, 3864), then the retries `salvage`, `bounded` and `contract` (at `probe` and
`candidate`), `feedback`, `forced` and `preOracle`, then `decide`.  Every patcher
output has the number of its call, so that evidence and audits can be compared
with what they are about.

`CleanStartAudits` says what is found of a patch given what the failing tests
said: targets and demands, the class of a failure and its contract, source
contract, repetition.  `CleanStartInputs` says which artifacts are admitted and
what the preflight blocks.  `MCCleanStart` computes its findings and its set-ups
with them, and lets TLC evaluate what follows for the code as named
assumptions: a run without a diff is refused; the file a patch missed is still a
target, and satisfies the `location` contract (3457) although the rule of 3516
says otherwise; the fallback of the failure class may accept a patch that
swallows the exception; an artifact that is a failure is no baseline.

Kept: retries build on one another without resetting the workspace; a row with
`runtime_error` loses its usage (426); the suspects of a failure class are the
files of the oracle patch (1041-1044, 1178) although the claim boundaries say
that none is used; a controller artifact that is not admitted is ignored while
others end the run; a deleted Python file counts as a syntax violation; a diff of
tests only is not "no diff"; any return, raise or except counts as a condition;
the audit before the oracle uses the targets of the earlier probe.

### `RecoveryPool`, `RecoveryBenchmark`

`RecoveryPool` is the choice of programs: the pools of the spaces, profiles and
families, and what the limit leaves of them.  Estimates and scores are left out:
the five selectors that rank may pick any programs in any order.  The pool of
`atomic_actions_v1` is written by a model, which also names the programs
(program_synthesizer.py:337); pruning compares skeletons and scopes only
(643-651), so that two programs may have one id.  `RecoveryBenchmark` is the
process around it.  A file of the workspace is known by who wrote it last, in four
classes (suspect, other source, test, kept out of checkpoints); `index` is what
git has staged, which a restore leaves alone.  `Raise` is an exception inside
the `try` of an instance and becomes its row; `Die` ends the process anywhere,
and `Start` starts it again, with or without `--resume`, on the file of rows it
left.

Kept: outcomes are looked up by the id of the program (1219), so the last trial
of an id speaks for all of them, and a row may say failure after a legal success;
what a trial staged, or wrote where checkpoints do not look, is counted
to a later trial; an instance named twice is run twice; fault-only rows keep a
resumed full run from trying their instances; on a partial seed a trial that
edits a test only is a legal success, because the seed is in the diff; a legal
success may have the failure mode of an infrastructure error.

## 4. The runs

| run | instance | properties | states |
|---|---|---|---|
| `orchestrator_runs` | implementer and verifier under all 16 switch settings and analyzer to planner with recovery, with 1 iteration per agent; the implementer alone with 3 and the verifier alone with 2, against the thread; without perception all seven steps with 1, all of them without recovery and the last five with it with 2; window 2, a detector that may ask for stops, `max_history` 1 and 30 | `RelayTellsAgents`, `StaleAtMostOnce`, `OneCommandAfterStop`, `SuccessIsVerified`, `InternalAnchorHealthy`, `ResetWipesWhatWasRead`, `RunReturns`, `RunIsEpisode` | 769 000 |
| `cache_shared` | 2 workers, 2 attempts, nothing / waits / waits and clones expire, 1 restart | `LockHeldByOne`, `CacheIsWhole`, `TreesStay`, `EveryoneEnds` | 18 600 |
| `batch_shared` | 3 instances, pool of 1 or 3, 1 restart | `GoodIsPredicted`, `BatchEnds` | 54 500 |
| `coordinator_runs` | 7 settings, budgets 1 to 3, 3 programs with every operator, at most 2 candidates | `SuccessIsVerified`, `NamedCheckpointsSurvive`, `TrialsAreContained`, `RunIsRecoveryLoop` | 350 000 |
| `semantic_loops` | open programs, loops over fragments, loops over actions; no controller, PARC, CAR; token, step, unit and replay budgets that run out in every order; every kind of edit | `BudgetsHold`, `NoBlindRetry`, `SuccessIsEarned`, `LastSlotReplays`, `ExecutorIsRecoveryLoop` | 340 000 |
| `controlled_runs` | PARC on chains of every object type and state, CAR on every kind of failure, in the end with 18 actions and 8 replays, so that no budget ends the loop; replays that edit on the suspected path, off it, or not at all | `EvidenceBetweenReplays`, `ObjectsFollowReplays`, `ControlledIsRecoveryLoop` | 98 000 |
| `enforced_runs` | 8 trees, every scope, patches to replay that are missing, fail or apply, every combination of gates and revisions, an exception anywhere | `SuccessIsJudged`, `PatchWasJudged`, `SuccessPassedGates`, `AttemptEnds`, `AttemptIsRecoveryLoop` | 365 000 |
| `clean_start_runs` | 5 trees, every admitted or refused input, every audit, the retries in pairs, scripts, an exception anywhere | `SuccessIsJudged`, `JudgedWasAdmitted`, `RunEnds`, `RunIsRecoveryLoop` | 293 000 |
| `benchmark_runs` | 2 instances, 2 starts with and without `--resume` and `--fault-only`, every pool, profile and fault, any program of it or the recommended one, up to 3 trials of programs whose ids may repeat, an exception or the end of the process anywhere | `SuccessIsATrial`, `TrialsAreOwn`, `RowsSurvive`, `RunEnds` | 780 000 |
| `claim_predictionsadded`, `claim_refinementreplays`, `claim_forcedactionsrun` | see below | one each, violated | |

What they show:

- Because the perception thread ends with its first report, the reset of its
  mailbox never loses a second one, and at most one report is acted upon after
  its nodes were discarded.  The one report may itself be lost: a reset between
  its arrival and the next read wipes it unread.
- A success of a run that was to go through the verifier has the verifier's word
  for it but for three ways around it: its own step failed and was recovered
  from; it raised outside of its loop and left its error in the state; or
  perception raised a `RuntimeError`, which `run` only logs
  (orchestrator.py:862-863), so the steps that are left never run and the
  success of the steps before them is returned.
- A stop that is asked for lets the implementer run one more command, not two.
- An internal fault leaves the agents with a healthy anchor from before the
  fault, whatever is discarded afterwards.
- The lock of the cache is exclusive even though waiting for it ends; what it
  protects is only safe while neither waits nor clones expire.
- Worktrees keep their clone unless a clone times out.
- With one worker, a batch loses no prediction of a success, killed or not.
- Recovery of the coordinator stays in its budget however it nests, ends, and
  reports success only after a pass; trials stay contained.
- The budgets of the semantic executor hold although each is read at a different
  place: replays never exceed theirs, and tokens by less than one replay.  A
  replay that led nowhere is never repeated unprepared, and without a controller
  the last slot is spent on a replay.
- Under CAR a barren replay is followed by cheap evidence before the next one,
  with two exceptions.  A loop that refined a candidate may widen the boundary
  right after a repair in vain; the signature gate keeps a second expansion from
  following that one.  And once in a loop a capability boost may stand in for the
  evidence: the signal asks for evidence until the next event, whatever that is,
  and rejects expensive actions only, of which a boost is none.  (What keeps a
  boost from being "a magic retry token", semantic_executor.py:2617, is not asked
  when CAR answers one.)  PARC does not promise that.  What an enforced CAR answers is
  not always run: see `claim_forcedactionsrun` below.
- An enforced recovery and a clean start never report a success that the oracle
  did not see on the workspace as it was left.  The reported patch is another
  one in two set-ups only (`LeavesEditsBehind`, `StartsMixed`), and what passed
  an audit is what is judged unless a later retry replaced it: then it is judged
  unaudited.
- The benchmark keeps its rows over restarts, and its trials apart in all but
  the files that checkpoints leave out.  A success it writes is one; a failure may
  stand in place of a success whose program shares its id with a later one.

Why the bounds are enough.  The hazards of the orchestrator involve one report
of the thread, one step and the next: two iterations of agents, a window of two
nodes, and histories shorter and longer than a phase reach every branch of the
code (every disjunct of `Next` fires in the runs).  Two workers are what an
exclusive lock needs, two attempts reach the retry, one restart leaves every
possible disk for a second batch.  Three threads are needed for an overwritten
overlap.  Budgets of 2 and 3 make a recovery fail inside another; a trial is
tried with one candidate before it; a budget over 1 with trials only repeats the
same group.  The loops of the semantic executor get as many units and replays as
the longest rule looks back over, and token budgets that end before, in and
after a replay.  The retries of a clean start are checked in pairs
because each reads what the last one left; `CleanStartProofs` covers all of them
at once.  Two instances of a benchmark and two starts are what a row needs to be
overwritten or lost; the third trial sees what two others left behind.  Bounds
that exist in the model only are `MaxRestarts`, `MaxCandidates` and the sets of
configurations; the theorems hold for all of them.

`CHECK_DEADLOCK FALSE` is set where a run ends: every specification here has a
last state.

### Fairness

- `SWEOrchestrator`: weak fairness of the orchestrator's thread and of the
  perception thread.  Both are threads of one process; queries, commands and
  detectors have timeouts, so each step returns.  Nothing else is fair: no
  outcome of a query or a command is promised.
- `RepoCache`: weak fairness of each worker (timeouts on every git call and on
  the wait); none on `Restart`.
- `BatchResults`: weak fairness of the batch as a whole.
- `Coordinator`, `SemanticExecutor`, `EnforcedRecovery`, `CleanStart`: weak
  fairness of the single thread.
- `ControlledLoop`: weak fairness of the loop without `RunOut`, so that the loop
  ends even if its time is never up.
- `RecoveryBenchmark`: weak fairness of `Run \/ Raise`, the process going on; not
  of `Die`, and not of `Start`: nobody has to start it again.

### What the documentation says and the code does not do

| run | text | code |
|---|---|---|
| `claim_predictionsadded` | the prediction is added to the existing ones (save.py:130, 136) | with two workers one of two is lost |
| `claim_refinementreplays` | a candidate is refined by a compact replay (semantic_executor.py:2029) | the profile is asked of a method without `self` or `@staticmethod`: the call raises a `TypeError`, and the loop ends with it |
| `claim_forcedactionsrun` | an enforced CAR action reaches the executor (semantic_executor.py:1694-1697) | `_car_forced_action_program` has no case for LOCAL_REPAIR, and the table of follow-ups has none for it after a repair: the loop ends although CAR chose to repair.  It takes cheap replays that edit files nobody suspects and a failure of the selection: the two expansions, the reset and a recheck go first, then CAR answers LOCAL_REPAIR after LOCAL_REPAIR |

Further differences met while modelling, each in the model as the code has it,
without a run of its own:

- Only an explicit pass is a verified success (verifier.py:127); a recovery at
  the verify step sets success, and nothing verifies again
  (orchestrator.py:263).
- The summary of an external fault promises the earlier edits
  (summary_engine.py:834); the worktree was just reset to HEAD.
- `_ensure_cached_repo` makes sure of a local copy (repo_utils.py:132); it takes
  any non-empty directory for one, a killed clone's too.
- Worktrees avoid interference (repo_utils.py:202); a timed-out clone removes
  the clone that others are linked to.
- Candidates are executed on a restored baseline (coordinator.py:684); the
  workspace is restored before the index is (702), from what the last trial left.
- The next patcher must address the evidence (coordinator.py:1014); programs,
  the default, never hand it over.
- A comment of the benchmark (run_recovery_only_benchmark.py:2796-2799) wants a
  trial to edit source itself; the seed of a partial fault counts for it (2810).
- The relay of an injected fault is commented to go on with the implementer
  (orchestrator.py:597-598), yet the step returns and is skipped.
- A comment promises agents a healthy anchor (orchestrator.py:259), which after
  an external fault is the node of the error (summary_engine.py:468).
- The perception thread is documented to scan periodically
  (perception_worker.py:1) and ends with its first report.
- The phase of a fault is looked up by role name (manager.py:62), so none is ever
  marked.
- The lock wait ends after 300 s although a clone may take 900 s
  (repo_utils.py:144).
- `datetime` is used at batch.py:163 but not imported.
- `max_captured_failed_state_groups` has no effect (coordinator.py:667).

Those of the semantic executor, the controllers, the enforced recovery, the
clean start and the benchmark are listed with their modules in section 3.

## 5. What is proved

TLAPS checks every leaf.  What the theorems assume are the named assumptions on
the constants (`ConfigsAssumption`, `WindowAssumption`, `NobodyAssumption`,
`InstancesAssumption`, `SettingsAssumption`, `ProgramsAssumption` and so on),
which say what kind of value each constant is and which TLC evaluates in the
runs.

### `SWEOrchestratorProofs`

| theorem | says | argument |
|---|---|---|
| `TypeCorrect` | `TypeOK` | `TypeInv` adds that `idx` is a step number while a step is under way: without it the phase and role of the step would be undefined |
| `StaleFaultsAreRare` | `StaleAtMostOnce` | `ReportsInv`: until the thread has ended nothing of it was read; once it has, what is in the mailbox or was just read is its only report |
| `ResetIsPrecise` | `ResetWipesWhatWasRead` | `ReportsInv` again: a report that arrives between read and reset is the first, and was not read before |
| `InternalAnchorsAreHealthy` | `InternalAnchorHealthy` | `BlameInv`: every fault under way blames nodes of the trajectory, so its faulty branch has a first node, and an anchor before that node is outside of the branch |
| `RunImplementsEpisode` | the steps of a run are steps of `Episode` | `TypeInv`; a recovery counts for the step it belongs to only when the step is over |
| `StopsTakeEffect` | `OneCommandAfterStop` | `CommandInv`: the command run after the stop leaves the implementer where its next step must see the stop, and the thread, the only one to ask for stops, has ended |
| `AgentsAreTold` | `RelayTellsAgents` | `TellInv`: after a recovery a run goes on with the context set, or past the one injected fault; an injected fault that is not relayed was the first, because the run went on until then |
| `SuccessesAreVerified` | `SuccessIsVerified` | `VerifiedInv`: nobody but the verifier gives a verdict (`VerdictInv`), while its step lasts the state says so (`LabelInv`), past the implementer there is a patch, a recovery or no success (`PatchInv`), and past the verifier a success has its word for it or went one of the ways around it (`VouchedInv`) |

`ResetWipesWhatWasRead` and `InternalAnchorHealthy` are properties of steps: the
proofs take the invariant in the state before the step and go through the
actions that change the mailbox or the anchor.

### `RepoCacheProofs`

| theorem | says | argument |
|---|---|---|
| `CacheTypes` | `TypeOK` | by itself |
| `LockIsExclusive` | `LockHeldByOne` | `LockInv`: who acquired the lock is between its creation and its removal, and the file is there meanwhile |
| `TreesNeverOrphaned` | `TreesStay` | `FillingInv`: without time-outs only the git that runs fills the directory, a linked worktree finds a whole clone, and nobody gets to the clean-up |
| `ClonesAreAlone`, `CachesAreWhole` | `CloneAlone`, `CacheIsWhole` | `CalmInv` on top: in an undisturbed first batch everybody past the lock holds it, a lock file has its holder, and a partial clone has a git at work on it |
| `LocksAreReleased` | `LockReleased` | `HeldInv`: before a restart a lock file has a worker that acquired it and has not removed it |

### `BatchResultsProofs`

`BatchTypes` is type correctness.  `SuccessIsPredicted` (`GoodIsPredicted`)
rests on `OneByOne`: with one worker at most one instance is in the pool, so
what its thread read from the file is still what is there, and everything that
counts as a success is in it.

### `CoordinatorProofs`

`TrialsContained` (`TrialsAreContained`) rests on `ContainedInv`, which is about
the whole stack: every group remembers the switches the run was set up with;
there is one group at most; while it is there, recovery is off (programs) or
nothing is captured and the calls are bounded (actions), which is what keeps a
second group from being opened; and without a group the switches are those of
the run.  A property about the top of the stack alone would not be inductive: a
`Pop` uncovers whatever was below.

`SuccessesAreVerified` (`SuccessIsVerified`) adds `SuccessInv`: outside of
trials a call that comes back with success, and a program whose last replay was
one, have a passing last verdict on the tree there is, or on one that a later
ROLLBACK replaced.

`RunImplementsRecoveryLoop` maps a run to `RecoveryLoop`.  The calls charged to
it are `calls` outside of trials and those the group remembers inside
(`LiveCalls`), so that opening a group is the one recovery of the abstract loop,
all its trials are stutters, and putting the calls back is one too.

`TypeCorrect` says that the memory, the workspace, the counters and every frame
of the stack keep their form.  The suspects of the memory (`conflicted`) stay a
finite set of its steps, which is what gives `Suspect`, the last of them, a
value.

`NamedCheckpointsStay` (`NamedCheckpointsSurvive`) rests on `Known`: what is
left of a program on the stack names checkpoints of the present memory and of
the memory that a group of trials above it will put back; the candidates of the
group name checkpoints of that memory, from which each of them starts.  That
there is one group at most (`ContainedInv`) makes these two memories all there
are.

### `SemanticExecutorProofs`

| theorem | says | argument |
|---|---|---|
| `TypeCorrect` | `TypeOK` | with `Placed`: a unit that is begun has a step, and a replay is the last primitive of its step |
| `ReplaysAreAfforded` | `BudgetsHold` | `Afforded`: what is left of the tokens was not spent, so a replay that starts with some left can overdraw by less than its own cost |
| `SuccessEarned` | `SuccessIsEarned` | `Placed`: while a replay is judged its guard is one that a replay leaves behind |
| `NoReplayIsRepeatedBlindly` | `NoBlindRetry` | `Trailed`: from the step of a replay on the conditioning sequence is the one its contract recorded until a preparing action follows (`Dated`), so the gate's comparison of sequences tells whether one did.  The signature is the one at the gate, with the latest intent of then (`AtGate`): the replay itself writes a new one |
| `LastSlotIsAReplay` | `LastSlotReplays` | `LastUnit`: the unit that an action loop without a controller begins with one step left ends in a replay |
| `ExecutorRefinesLoop` | the steps of the executor are steps of `RecoveryLoop` | the types, `Placed`, `Afforded` |
| `ControlledTypes` | `ControlledTypeOK` of `ControlledLoop` | with `Playing`: the replay under judgement exists, every replay is dated by the number of actions tried, and a success was verified |
| `ControlledRefinesLoop` | the steps of a controlled loop are steps of `RecoveryLoop` | the types, `Playing`; the gate keeps the number of replays below the budget |
| `ObjectsMoveForReplays` | `ObjectsFollowReplays` | `Backed`: what counts against an object is at most the replays in vain plus the refused ones, and a resolved object comes with a guard that resolves |
| `EvidenceBeforeReplays` | `EvidenceBetweenReplays` | `CarInv`, below |

The last four are about `ControlledLoop`, which shares the ledger, the guards
and the decisions with `SemanticExecutor`, and their proofs the lemmas on these.
The first three of them hold whatever a controller answers.  The fourth is about
CAR, and uses its gates and overrides, but no score: whichever of the actions
that pass the gates scores best, the property holds.

`CarInv` says what holds when a loop under CAR may ask (`AtNext`), before a step
(`AtStep`) and while a replay is judged (`AtJudge`).  What it is made of:

- `Evened`: the property itself, and that a boost was tried once at most.
- `Viable`, with `CarChoiceViable`: what CAR answers passed its gates.  (The best
  score that the choice is defined by exists, since one action always passes.)
- `Telling`, with `VerdictTelling`: a barren replay that does not end the loop
  has broken its intent, and `VainNeedsEvidence`: after one the memory of CAR
  asks for evidence.  A replay is remembered with the guard of the one before it,
  so this is about what is read next and not about what is remembered.
- `RepeatsBlocked`: the signature gate refuses an expansion after a barren one
  unless something was prepared.
- `SuspectsJudged` and `NotDue`: while a candidate on the suspected path waits to
  be refined, its refinement is the only replay CAR pays for, and it leaves a
  verdict on the candidate or ends the loop.
- An expansion after a barren replay switches the boundary, which the gate of CAR
  allows only once the loop refined a candidate (`StatusMeans`).  After another
  expansion the signature gate refuses it: the latest intent is the one of the
  last contract (`LastIntent`), so the two signatures agree.  What is left is an
  expansion after a repair, the exception the property names.

### `RecoveryBenchmarkProofs`

| theorem | says | argument |
|---|---|---|
| `TypeCorrect` | `TypeOK` and `PointsOK` | `PointsOK`: the checkpoints a trial may roll back to are contents, and the failed state is one of them |
| `OwnTrials` | `TrialsAreOwn` | the failed state is put back before each trial, and a rollback only brings other checkpoints of the same instance |
| `HonestVerdicts` | `SuccessIsATrial` | `Verdict`: while the row of an instance is written it says success only of a trial that passed legally, and failure in spite of one only where a later trial has its id; the last trial of all always stands, so there is a best one |
| `FoundStays` | `FoundRowsStay` | `Found`, `Open`: the rows that a resumed run found finished are in memory and are skipped, so no write of the file is without them |
| `FinishedRowsSurvive` | `RowsSurvive` | assumes that a batch names no instance twice: of two rows of one instance the second replaces the first, as the dictionary of the code does |
| `NoInstanceIsLost` | `DoneIsComplete` | `Covered`: an instance of the batch is still ahead, or has its row |

### `EnforcedRecoveryProofs`

| theorem | says | argument |
|---|---|---|
| `TypeCorrect` | `TypeOK` | `InitType`, `TypeStep`, from the assumptions on trees, diffs and findings |
| `JudgedAlways` | `SuccessIsJudged` | `JudgedInv`: nothing is reported before the attempt is about to close, and nothing changes the tree then |
| `PatchJudgedAlways` | `PatchWasJudged` | `SourceInv`: outside of the two excepted set-ups the patch comes from the present tree at every gate |
| `PaidAlways` | `PatchIsPaidFor` | `CallsInv` bounds the calls at each place, `PaidInv` says that the call of the patch is counted |
| `GatesPassedAlways` | `SuccessPassedGates` | `GatedInv`: past a gate the patch has passed it, unless a revision that only asks to compile or to move on is still possible |
| `CleanAlways` | `FallbackStartsClean` | the only place before `candidate` in that scope is the reset |
| `AttemptImplementsLoop` | the steps of an attempt are steps of `RecoveryLoop` with five recoveries | `CallsInv`, `JudgedInv` |

### `CleanStartProofs`

| theorem | says | argument |
|---|---|---|
| `TypeCorrect` | `TypeOK` | with `CallsInv`, the number of calls there can have been at each place |
| `JudgedAlways` | `SuccessIsJudged` | `JudgedInv`, as above |
| `AdmittedAlways` | `JudgedWasAdmitted` | `AuditInv`: an audit that bears the number of the present call is about the present tree, and a new call outdates all of them; `AdmittedInv`: what `decide` lets pass was not rejected |
| `CreditAlways` | `CreditIsNew` | `CreditInv`: that the targets are covered stays true until the retry before the oracle |
| `ToldAlways` | `FailureIsAlwaysTold` | `ToldInv`: the lesson of the earlier failure is in the context each retry is built on |
| `EvidenceAlways` | `EvidenceIsCurrent` | `EvidenceInv`: until it is used, a failed verification is that of the last call, unless a salvage ran over the outputs of the first |
| `BoughtAlways` | `EachSwitchBuysOneCall` | `BoughtInv`: the calls so far are at most those the switches already passed allow; cardinalities by `FiniteSetTheorems` |
| `RunImplementsLoop` | the steps of a run are steps of `RecoveryLoop` with seven recoveries | `CallsInv`, `JudgedInv` |

Proved for every value of the constants and in no run, because a run would add
nothing: the type invariants, `FoundRowsStay`, `DoneIsComplete`, `CloneAlone`,
`LockReleased`, `PatchIsPaidFor`, `FallbackStartsClean`, `CreditIsNew`,
`FailureIsAlwaysTold`, `EvidenceIsCurrent` and `EachSwitchBuysOneCall`.

## 6. What is only model-checked

Every safety invariant and every action property that a passing run checks is
proved.  What stays with TLC:

- Liveness: `RunReturns`, `EveryoneEnds`, `BatchEnds`, `AttemptEnds`, `RunEnds`
  (clean start and benchmark), and the fairness in the refinements
  `RunIsEpisode`, `RunIsRecoveryLoop`, `ExecutorIsRecoveryLoop`,
  `ControlledIsRecoveryLoop` and `AttemptIsRecoveryLoop`.  Fairness is out of
  reach of the prover.
- The operators of `CleanStartAudits` and `CleanStartInputs`, on the patches and
  inputs of `MCCleanStart`.
- That the claims of the documentation do not hold: one counterexample each.

## 7. What is not modelled

PROJECT.json names every part with its reason.  In short:

- In the plan (section 2): the sidecar and the policy file.
- The inside of the harness container and the retry loops of the chat clients,
  which the models meet as calls that succeed, fail or raise; that the removal
  of a container may time out and count as done (harness_runtime.py:281) is
  therefore not seen by the properties about sessions.
- Tables and predicates without state: `mas_recovery`, `mas_diagnosis`, path and
  command filters, ablation configurations.
- Numbers and texts: bandits, rankers, embeddings, prompts, summaries, HTTP
  clients, the priors of controllers over other instances.
- Of the runners that are modelled: argument parsing, prompts, reports and the
  files with records written next to the rows.
- Scripts: the other experiment runners and the examples, which call the rest in
  sequence.
- The inside of the reproducer agent; that an orchestrator step runs it to find
  the node of an error (orchestrator.py:420) is a choice of node in the model.
