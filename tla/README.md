# Meta^n in TLA+

Meta^n evolves chains of generated code. An outer search loop breeds candidates, evaluates each on
a set of tasks, keeps them in an archive, and can be killed and resumed at any moment; an evaluation
fans its tasks out to solvers, to child processes that run generated code, and to external agents
that cost money, hang, crash and hold Docker resources. This directory models those parts and how
what they did is recorded, checks the models with TLC and proves part of them with TLAPS.

`core/x.py` below is short for `src/meta_n/core/x.py`.

## 1. Inventory

| Component | Source | State | Operations | Model |
|---|---|---|---|---|
| Archive | `core/archive.py` | candidates, best by mean, per-task best, base floor, bars, frozen range | `add`, `set_base_floor`, `breedable_pool`, `select_parents`, `get_inspiration_traces`, `rebuild_from_disk` | ArchiveOps, Archive, SearchRun, Consolidation |
| Search loop | `core/evolutionary_orchestrator.py` | locals of `run()`: iteration, patience, histories, `completed_set` | seed, iteration, slot, gate, refine, re-propagation, merge | SearchRun |
| Consolidation | the same file, `analysis/depth_attribution.py`, `core/omega.py`, `utils/context_manager.py` | focus and depth of traces | `_consolidation_targets`, `_within_task_focus`, `_consolidation_precomputed`, `within_task_verdict`, choice of the traces a prompt shows | Consolidation |
| Persistence | `core/run_persistence.py` | `archive/<id>/`, `checkpoint.json` | `save_candidate_incremental`, `save_checkpoint`, `try_resume` | SearchRun |
| Helper library | `core/code_library.py`, `core/verified_code.py`, `core/adoption.py`, orchestrator | helpers of a chain, verified names | merge, demote, check, filter, stage, bar | HelperLibrary |
| External spine | `core/external_agents/solver.py` | one coroutine per execution | `_execute_with_plan`, `_run_leased` | ExternalSpine |
| Lease guard | `core/external_agents/concurrency.py` | semaphore, registry, scratch directories | `lease`, `shutdown_sweep` | ExternalSpine |
| Cost guard, ledger | `core/external_agents/budget.py`, `utils/cost_tracker.py` | the day's JSONL | `headroom_exhausted`, `precheck`, `record`, `assert_under_cap` | ExternalSpine, LLMClient |
| Telemetry | `core/external_agents/telemetry/` | `agent_runs.jsonl`, run_id index, buffer of gate rows | `finish_*`, supersede, restamp, readers | TelemetryRows, ExternalSpine |
| Subprocess bridge | `core/external_agents/backends/_external_tb.py`, `_bridge.py` | process group, compose project, `agent_pid`, result file | `run`, hard timeout, cancellations, force-down | RunnerBridge, AgentRun |
| OpenHands backend | `core/external_agents/backends/openhands.py` | process, container, result file | `run`, reap, `docker rm`, reconciliation | OpenHandsBackend, AgentRun |
| Runner programs | `src/scripts/*_runner.py`, `_runner_common.py` | agent thread, counters, capture, result file | kill switch, trial, collection, errors | RunnerProgram |
| LLM client | `core/llm_client.py` | calls in flight, cumulative usage | retries, cap, ledger line, escalation | LLMClient |
| Agentic solver | `core/agentic_solver.py` | turns, pending completion, best trace | turn, parse, execute, summarize, confirm | AgenticSolver |
| Benchmark children | `integrations/_subprocess_utils.py`, `co_bench.py`, `text_classification.py`, `openevolve.py`, `arc_agi.py`, `core/llm_helpers.py` | child processes, queue, shared log of calls | start, poll, kill, reap, fold, score | EvalProcess |
| Terminal-Bench, executors, CLI, reports | `integrations/terminal_bench/`, `main.py`, `utils/` | sessions, none | load, type commands, print | not modelled |

**How they interact.** `run()` is one asyncio task. It calls the archive synchronously, awaits one
evaluation at a time, then writes: the candidate's directory (three kinds of files, one after the other, none atomic, over
whatever an earlier save left there), then `checkpoint.json` (atomic). A resumed process reads the directories and the checkpoint
separately and must put together the archive the dead one had. An evaluation is an
`asyncio.gather` of one coroutine per task under `Semaphore(parallel)`. A task is solved by an
agentic solver, whose calls share one client and one ledger with Omega's; by generated code in a
child process; or by an external execution, which shares the guard's slots, its registry and the
ledger, runs a backend (the bridge or OpenHands) around a runner program, and writes telemetry rows.
Verified-code checks talk to the archive through the bars of `add`, the regression guard through the
floor.

**What is hard.** (a) The per-task best is an index fed from candidates, floor and bars, live in one
order and on resume in another. (b) A kill between any two of the disk writes, and a checkpoint
write that fails and is only logged. (c) Budgets read before a wait or a request and used after it,
with no way to stop what is under way. (d) Seven exits of an execution, three of them exceptional,
each of which must give back the same three things and write one row. (e) Rows that are written
twice, replaced, dropped as duplicates, torn and read back by another process. (f) A process, its
containers and a result file to be dealt with by a coroutine that can be cancelled at each await of
its own clean-up, with docker commands and agent threads that may outlive it. (g) A child killed
with its counters, whose spend is then read from a log by a recycled process identifier. (h) Facts
kept only implicitly: the focus of a candidate in the depths of its traces, the verification of a
helper in its name, the end of a save in the number of its sidecars. PROJECT.json lists each hazard at its line.

**What makes each component correct.** Archive: what is deployed for a task is the best measured
that no bar excludes, and never gets worse. Loop and persistence: a kill is invisible between saves,
nothing half-written counts, no work is done twice, the search ends. Consolidation: a focus is what
it was, no task is starved, a layer is credited with its own work only. Helpers: what was verified
still works where it is staged, a bar follows a real verification. Spine: leases are accounted for,
overshoot and undercount are bounded, an execution writes one row and ends. Backends: the runner is
killed before it is cleaned up after, nothing of it stays, its verdict is the one reported. Solver
and client: limits are overrun by at most what is in flight, every token is reported, completion is
confirmed. Children: result and usage are those of the child, but for what an heir of its process
identifier logs, and failing earns nothing. Rows: readers count each execution once.

## 2. Modules

The modules named MC hold the small instances of TLC; a definition marked "Mutant of" is a plausible
bug that no specification uses: put in the place of what it mutates, it must make the property it
belongs to fail (PROJECT.json, "mutants").

### ArchiveOps, Archive (live archive)

`ArchiveOps` is class `Archive` as a value and operators on it, so that the archive in memory and
the one replayed from disk are built by the same code; `Archive` is a state machine over it: seed,
floor, children of breedable parents, merge. `consolidate` is the flag of that name: the merge is then
forced.

| Code | TLA+ |
|---|---|
| `_candidates`, `_by_id` / `_best_candidate` / `_best_per_task` / `_base_floor` / `_barred_from_best` / `_frozen_score_range` | `ar.cand` / `best` / `ptb` / `floor` / `bars` / `range` |
| `add` with its filters: finite, bar, floor clamp, lexicographic max | `Add`, `TakesOver` |
| `set_base_floor` | `SetBaseFloor`, `RaisedByFloor` (the score alone, as in the code) |
| `_establish_base_floor` | `Floors`, `FloorChoices` |
| `breedable_pool`, `_is_breedable`, `_elite_ids`, `select_parents` | `BreedablePool`, `IsBreedable`, `EliteSeq`, `ParentChoices` |
| `_build_merged_candidate`, its gate and `force` | `CanMerge`, `MergedCandidate` |

A trace keeps `success`, `score` and whether there is a script; a non-finite score is a task outside
the candidate's domain. Means are integers in units of `1/MeanUnit`, exact because `MeanUnit` is
divisible by every number of tasks. Every weight of the parent draw is positive, so a draw is any
member of the pool; UCB, novelty and `num_children` only change the odds.

### SearchRun (loop, disk, crash, resume)

`ar`, `loop`, `pc`, `saving` are the process and are lost by `Interrupt`; `dirs` and `ckpt` are the
disk. Everything the single task does between two writes is one step; each write is a step, and each
file of a candidate is two of them, the truncation and the text. A directory is its summary and bars,
its traces by task and its sidecars by depth; a sidecar is the candidate whose save wrote it, so what
an earlier save left is told apart from what this one wrote.

| Code | TLA+ |
|---|---|
| `_try_resume`, restore of the locals, `completed_set` | `Resume`, `Rebuilt`, `Resumed`, `CompletedSet` |
| `rebuild_from_disk`: readable summary and traces, one sidecar for each depth of the summary | `Loadable`, `Readable` |
| `save_candidate_incremental`: summary, then trace by trace, then sidecar by sidecar | `OpenSummary`, `WriteSummary`, `OpenTrace`, `WriteTrace`, `OpenCode`, `WriteCode`, `EndSave` |
| `_persist_progress` | `Persist` |
| seed and floor | `RunSeed` |
| loop guard, budget halt, empty pool, parents | `LeaveLoop`, `BeginIteration` |
| `child_id in completed_set` / empty injection or failed gate / passed gate or refine | `SkipSlot` / `RejectChild` / `BreedChild` |
| `_attempt_repropagation` | `Repropagate` |
| no new work, or range frozen, histories, patience | `EndIteration` |
| result, merge | `Finish` |
| Ctrl-C, kill, or a new start after the end | `Interrupt` |

Names of directories are tuples that sort as the names do (names with two digits, which sort
differently from their numbers, are outside the bounds). The `.py` and `.txt` files beside a trace or
a sidecar are never read back and are left out; a file that was truncated cannot be read, and one
that was written can. Traces are written in the order of the candidate's list, which is fixed
(`NextTrace`). The run is one without `--consolidate`: `CanMerge(ar, FALSE)`.

A directory is `Sealed` when the last sidecar its summary asks for was written for a chain of that
depth. That file is the last that a save writes, so what a kill broke off is not sealed. It may be
loadable all the same, over the sidecars of a deeper chain, which section 5 describes:
`MemoryMatchesDisk` and `WorkIsNeverRepeated` say what holds of every directory a resume would load
(the archive in memory and the disk agree on summary, traces and bars; it is not evaluated again) and,
of the sealed ones, that all layers and the mean are of one save and that nothing writes to them
again.

`rewritten` is a history variable: it is set when a process writes over a directory of an earlier one
(a fresh run in an old directory, a re-bred refine, a second merge), and the properties about the disk
are stated for runs in which it is not; section 5 says what goes wrong there.

### ExternalSpine (executions, leases, budget)

The coroutines of one event loop; what happens between two awaits is one step. The registry's lock
is never held across an await, so lease and release are one step each.

| Code | TLA+ |
|---|---|
| record, injection plan, precheck | `Admit` |
| semaphore, `mkdtemp`, registration | `Acquire` |
| second check, provisioning, start of the agent | `Start` |
| `run` + `collect_metrics` returned, fold into the ledger | `AgentEnds`, `Book` |
| either raises | `AgentRaises` |
| extraction, scoring, row | `Score` |
| `asyncio.wait_for` expires | `Envelope`, then `Unwind` |
| cancellation of the gather | `Interrupt`, then `Unwind` |
| the `finally` of the lease | `Release` |
| midnight | `NewDay` |

What an agent will have spent is chosen when it starts and never read by the code. A ledger that
cannot be read admits; an append that fails is swallowed; both count as `faults`. A running agent
may never end: fairness is of the execution, and `Envelope` stands beside the others only under a
time limit.

### AgentRun, RunnerBridge (one run of an agent)

`AgentRun` is what a backend promises the spine, `AgentBackend.run` in `backend.py`: a run is not over
before its agent is stopped, and a run that was called off hands back no result. `ExternalSpine`
relies on it where `Unwind` gives the lease back in one step. `RunnerBridge` is `_run_bridge` of the
three Docker backends and implements it.

`at` is the await the coroutine is parked on: `prep`, `launch`, `talk` (`communicate()`), then a wait
for the killed runner (`_reap`) and one for the sweep (`_sweep`) in the timeout's branch (`t_`), the
cancellation's handler (`c_`) and the `finally` (`f_`).

| Code | TLA+ |
|---|---|
| `_prepare_run`, working directory, request file | `Prepare` |
| `create_subprocess_exec` | `Launch` |
| `communicate()` returns / raises / hits the hard timeout | `Completes` / `Breaks` / `HardTimeout` |
| `wait_for(proc.wait(), 70)` at its three places | `Reaped` |
| the timeout's bare sweep and its verdict | `TimedOut`, `Scored` |
| `wait_for(shield(sweep), 70)` at its two places | `SweepAwaited` |
| `CancelledError` before, in and after the launch, in the handler and in the `finally` | `Cancel*`, `Shielded` |
| the `finally` | `Finally`, `FinallySweep` |
| `_force_compose_down`: list, remove, networks | `ListContainers`, `RemoveContainers`, `RemoveNetworks` |
| the runner: compose up, trial with compose down, result file, exit or crash | `ComposeUp`, `TrialEnds`, `WriteResult`, `RunnerDies` |
| the loop that shuts down | `LoopCloses` |

The two network commands are one step. `agent_pid` is no variable: it is set and cleared with
`talk` and the `finally`, and afterwards the lease's `hard_kill` finds none. A cancellation that
arrives at the moment an awaited future is done may be swallowed by `wait_for` of Python 3.11; the
run then goes on as if it had not been cancelled, and so does the model without that `Cancel`.

### TelemetryRows (who writes which row, and what a reader counts)

A row stands for the fields readers group by, and `view` is what they get from the file: the last
readable row of each run_id. One candidate is gated and evaluated over two tasks; the settings
(`Confs`) are plain, two gate repeats with a floor to protect, and two evaluation repeats topped up
by the gate's trace.

| Code | TLA+ |
|---|---|
| `compute_run_id`, `start_record` | `RunId` |
| `_append_run`: duplicate, supersession of a degraded row, buffer of gate rows | `AppendRun`, `Supersedes` |
| `LLMIOLogger.log`, `flock_append_bytes`, a write that fails or leaves a fragment | `Log`, `Faults` |
| `_gate_check`, its repeats and verdicts | `BeginGate`, `GateSample`, `GateDecides` |
| reuse of a gate trace, `restamp_reused_gate` row by row | `Reuse`, `RestampOne`, `Restamped` |
| a repeat of a task under the semaphore, `solver.repeat_index` | `StartSample`, `FinishSample` |
| a kill, `_load_run_id_index` of the next process | `KillAndResume` |
| `load_runs`, `fair_comparison`; `read_agent_run_rows` and the rollups of `run_persistence.py` | `FairComparison`; `CandidateRollup`, `RunLevelRollup` |

### LLMClient, AgenticSolver (calls, turns, limits)

`LLMClient` is `complete_with_breakdown` with the cost tracker under it, for several coroutines of a
process on one day of the ledger (midnight is in `ExternalSpine`). Nothing is awaited between the
reading of the cap and the request (`Check`), nor between the answer and its line (`Answer`).
`AgenticSolver` extends it with `_agentic_loop`: `loop[s].pc` is the await of solver `s`.

| Code | TLA+ |
|---|---|
| `assert_under_cap`; the request; a transient or final error | `Check`; `Answer`, `AnswerUnbooked`; `Fail` |
| an answer cut before any text is asked for once more | `Escalates`, `Escalated` |
| `_parse_response`: tags, fences, neither | `ParseResponse` |
| head of a turn: turns, spend, context; then the first call | `Top` |
| `_summarize_context` | `Summarized` |
| the answer and what follows from it: confirmed, declared, work, wasted | `TurnAnswers`, `Read` |
| `_execute_and_track`, in a declaration or as work | `ExecuteDeclared`, `ExecuteWork` |
| a failed call; `BudgetExceededError` | `TurnFails`; `Halt` |

A token and a unit of cost are the same. The estimate of the context is one of three levels and only
a summary lowers it. The pre_process of the layers, before the loop, is left out.

### RunnerProgram, OpenHandsBackend (a runner and the backend around it)

`RunnerProgram` is the four scripts that drive an agent: two threads, the script and, under the
Terminal-Bench harness, the agent, which the harness may give up on while it goes on. Harness, agent
and SDK are external: `TrialReturns`, `HarnessGivesUp`, `AgentStops` and `Calls` are what the scripts
see of them, and `Counts` is when usage reaches the counter the kill switch reads. `OpenHandsBackend` is `run()` around the local one, on the host or in a container, and
for the others what the bridges read of their result; `RunnerBridge` has the bridges' own steps.

| Code | TLA+ |
|---|---|
| `install_token_budget_killswitch`, the counter it reads | `OverBudget`, `Calls`, `Counts`, `AgentStops` |
| `perform_task` and its capture | `Captures`, `AgentResultTokens` |
| `_run`, `main`, `_error_payload`, `write_result` | `Collect`, `ErrorPayload`, `WriteResult`, `WriteFails` |
| `run`: preparation, launch, `communicate()`, hard timeout, `finally` | `Prepare`, `Launch`, `Completes`, `HardTimeout`, `FinallySweep` |
| `_reap`, `_docker_rm` | `Reaped`, `ReapSwept`, `Removes` |
| `CancelledError` at each await | `CancelEarly`, `CancelWait`, `CancelReap`, `CancelSweep` |
| `_parse_result`, `_reconcile_termination`; the bridges' `_to_run_result` | `OpenHandsReads`, `Reconciled`; `BridgeReads` |

No bound on the tokens of a runner is claimed. The counters of t2 are fed by a callback of litellm's
logging, which comes after the call, after the agent's end, or never (`t2_runner.py:298-337`), so any
number of calls may pass the switch; and the OpenHands runners' switch is silently not installed when
the hook it wraps is missing (`_runner_common.py:148-150`, `163-167`), which is a run with a budget of
0. What the model does say is that a run the switch stopped, and one it did not, is reported
consistently.

In a sandbox the process the backend talks to is the docker client: killing it leaves the runner, and
`docker rm` removes it.

### HelperLibrary (a chain of layers under --verified-code)

| Code | TLA+ |
|---|---|
| Omega writes, refines, re-propagates a layer | `Generate`, `Refine`, `Repropagate` |
| `merge_code_libraries`, `_demote_python_library` | `Merged`, `Demoted`, `Offered` |
| `_verify_and_filter_code_library` and its dependency-aware keep | `Verify`, `Verdicts`, `Kept`, `Filtered` |
| what is staged, shown and counted as available | `Staged`, `Advertised`, `Counted` |
| which staged helpers the body of a helper can call | `Shared`, `Visible` |
| `_maybe_deploy_verified_helper` | `EntryPoint`, `Deployed` |
| an execution, its retries | `Attempt` |
| `_nonadopting_verified_tasks` and the bar of `add` | `VerifiedNames`, `Barred`, `Add` |

One task and one chain are followed. A helper's source is the set of helpers it calls, whether the
safety scan flags it and whether it is broken; a script calls a helper, defines its own or does not
mention it. The paths are the Python script, the agentic solver's Python script, a bash script and the
spine. On the first two the library is prepended to one script and its helpers see one another; on the
last two each helper is a file of its own. Bash and pre_process helpers pass the check untouched and are left out.

### EvalProcess (children of an evaluation)

| Code | TLA+ |
|---|---|
| `run_process_with_timeout`: start, polls, last look, deadline | `Start`, `Get`, `GetsNothing`, `LooksAtChild`, `FinalGet`, `Expire` |
| `_kill_process_tree`, `_reap` | `Killed`, `Reap` |
| what `solve()` forked and the kill did not reach | `ForkCalls` |
| `llm`, `llm_batch` in the child, its tracker and the shared log | `Ask`, `Answer`, `CallFails`, `RecordAndLog` |
| result through the queue's feeder thread; a death in the middle of it | `Finish`, `HandOver`, `Tear`, `Exit` |
| `_snapshot_log_offset`, `_usage_from_log_since` | `SnapshotLogOffset`, `UsageFromLogSince` |
| what each harness makes of an answer and of a failure | `ReturnResult`, `ReportFailure`, `ChunkUsage`, `Fold` |
| the averages of CO-Bench, text classification, OpenEvolve and ARC | `AverageScore`, `ChunksScore`, `ProgramScore`, `AttemptsScore` |

The snapshot of the log and the fork are one step. A dead child is reaped, and its identifier free,
before what it spent is read: a look at it, its join and the start of any sibling reap it
(`_subprocess_utils.py:252`, `276`, `297`). `Start` and `ForkCalls` may therefore hand its identifier on
in between; such a process is an heir of the child, `heirOf` remembers whose, and its lines in the log
are the child's `Strays`. Which of the identifiers nobody left is handed out does not matter (`Fresh`).
`logs` is whether an inner log is configured. Of what a child forks only calls under an identifier
that counts for somebody are steps; nothing says that a fork ends. Garbled results and the in-process paths only tests take are left out.

### Consolidation (--consolidate)

| Code | TLA+ |
|---|---|
| the floor's draws, denoised focus scores | `FiniteDraws`, `Median`, `DenoisedBase`, `EffectiveScore` |
| `_consolidation_targets`: the tasks tied lowest, rotated | `LowestTied`, `Rotated`, `ConsolidationTargets` |
| `_within_task_focus`, `split_candidate_mean` | `Focus`, `FreshTasks` |
| `_consolidation_precomputed` | `Inherited`, `FrozenTrace`, `FrozenDepth` |
| `ancestry_chain`, `within_task_depth_profile`, `within_task_verdict` | `AncestryChain`, `DeepMultiplicity`, `ProbePasses` |
| `sample_traces`, `_select_representative_traces`, `get_inspiration_traces` | `SampledTraces`, `Representative`, `Inspiration` |
| a generation and a child of it | `StartGeneration`, `Breed` |

It builds on `ArchiveOps`. Router layers, repeats, symmetric sampling, token counts and resumption
are left out; traces have one size; kinds of failures are not told apart.

## 3. Runs

| Run | What it shows | Distinct states |
|---|---|---|
| `archive` | the index dominates and never drops; the merge, forced or not, deploys the oracle | 881,024 |
| `search_run` | a kill or restart anywhere, between any two writes of a file, with guard, bars, refine, a budget and a lost checkpoint; the search ends | 897,877 |
| `search_reprop` | two slots per iteration, re-propagation, a lost checkpoint write | 2,297,391 |
| `external_spine` | three executions, two slots, one fault, one midnight, time limit, cancellation | 421,186 |
| `runner_bridge` | a runner that hangs, crashes or cannot be killed, three cancellations, two docker faults; `AgentRun` implemented | 3,051 |
| `telemetry_rows` | gate, reuse, repeats, evaluation, one kill, one failed append | 1,397,358 |
| `agentic_solver` | a solver beside Omega under a cap and a spend budget, four turns, one failed append | 214,037 |
| `openhands` | the four runners, a token budget, three cancellations, a docker fault; usage that is counted late; `AgentRun` implemented | 549,983 |
| `helper_library` | two helpers that may call each other, a seed and two layers, one rebuild, all execution paths | 2,337,968 |
| `eval_process` | two children, one of them forking, two identifiers, with and without a log, four harnesses | 843,301 |
| `consolidation` | three generations over three tasks in three modes | 929,619 |
| `focus_unseen` | *violated*: a prompt without the focus task's trace | |

**Bounds.** Two tasks are the least on which oracle and best differ, winners differ and a merge
exists; consolidation has three, so that a tie can rotate, and three generations, so that a chain
reaches two layers below the seed with one more to judge. A crash and one or two grades of success
give ties, improvements and regressions. Two iterations and depth 3 are the least for a
re-propagation, a re-entered iteration after another one and an exhausted patience. One
interruption reaches every write, and leaves a directory half-written over older sidecars that is
loadable while the next process writes it; a second one would leave it there for a third process. The
same instance with two interruptions and without the refine (369,278 states) satisfies the four
properties too. Three executions over two slots have one that waits while the others spend. A
fourth cancellation of a bridge adds no state: the third one ends every path. Two children and two
workers have a sibling that writes to the same log and identifiers that are used again, before and after what
their first owner spent is read; one fork with one call has both an heir of the dead and a process
that outlives its child. Four turns
are the least for a declaration, an interruption of it, a second one and its confirmation. Two
helpers can call one another. `MaxLostCheckpoints`, `MaxFaults`, `MaxDays`, `MaxKills`, `MaxCost`,
`MaxCalls` bound the environment; `MaxFaults` and `MaxCost` appear in the properties they are the
measure of. Symmetry is used in `archive` (children's ids) and `telemetry_rows` (tasks), which have
no liveness property.

**Deadlock** is not checked: every one of these systems stops (all children bred; `exit` with no
interruption left; all executions over; the run over; the candidate evaluated). `Terminates`,
`EveryExecutionEnds`, `RunEnds`, `EverySolverEnds` and `OnlyATornResultBlocks` say that they stop
where they should.

**Fairness.** `SearchRun`: weak fairness of the process's steps as a whole, since one task runs the
loop and every step of it is a call that returns; interruptions are not fair. `ExternalSpine`: weak
fairness of each execution, since the event loop resumes every coroutine that can go on, and
asyncio's semaphore wakes its waiters in order; the last agents to run are stopped by
the envelope. Neither `Interrupt` nor `NewDay` is fair. `RunnerBridge`: weak fairness of the
coroutine, each wait of which is bounded (hard timeout, 70 s), and of the sweep, each command of
which has a timeout; the runner's steps, the kernel's delivery of SIGKILL included, are not fair.
`AgenticSolver`: weak fairness of each solver: a request has a timeout, an execution a time limit.
`EvalProcess`: weak fairness of each parent thread, and of its deadline; a child need never do
anything. `OpenHandsBackend` has no liveness property; its fairness is that of the bridge.

**Finding.** `focus_unseen`: `_select_representative_traces` pins the focus task's trace out of what
`sample_traces` left, so with more tasks than `max_total` the pin may find nothing, although its
docstring says FORCE-INCLUDE. Run on the program itself with 36 passing tasks and the default limit
of 20, the trace was missing from 49 of 100 prompts.

## 4. Proofs

`Archive_proofs` proves for every set of tasks, outcomes and children:

- `ArchiveIsWellTyped`, with `TypeOK` itself inductive: one step per action, from what `Add` and
  `SetBaseFloor` do to each part (`AddParts`, `FloorParts`, `AddType`).
- `BestDominates`, `BestIsAttributed`, `BestNeverDrops` and `FloorHolds`, under `OrdinaryScale`: a
  crash scores 0 and a solve that ran scores more and leaves a script. On such a scale
  the score alone and the pair (success, score) agree; section 5 has a case where they do not. None
  of the properties is inductive alone. The invariant `IInv` adds that before the seed the archive is empty,
  that before the floor the seed alone is there and owns the index (so a floor that raises
  an entry replaces the seed's), that bars are of archived candidates, so that a new
  candidate brings none, and that every trace is ordinary.
- `MergeIsTheOracle`, on every scale: where the gate decides, it leaves the best mean below the oracle
  because a score range is never negative, which needs that every archived mean is a number
  (`MeansAreNumbers`) and hence that a sum over tasks is one (`SumFunctionIsInt`), so the merge becomes
  the best; where `--consolidate` forces the merge, the best stays only if it was as good. A routed
  trace has exactly the rank of the entry it comes from, so it takes nothing over.

`SearchRun_proofs` proves for any number of iterations, slots, tasks, kills and lost checkpoint
writes, with re-propagation, bars, refine and budget in any setting:

- `SearchIsWellTyped`: iterations and patience stay within the stop rule, parents are archived.
- `DiskIsTheTruth` and `WorkIsDoneOnce` from `IInv == IsTyped /\ (~rewritten => DiskInv)`. `DiskInv`
  says what each write leaves. Of the files: what kinds of them a directory may have (`FilesAreTyped`),
  and that where a last sidecar is of its own save, the summary, every trace and every sidecar below it
  are too (`SealsAreLast`), which is the reason why a sealed directory is whole. Of the process: what
  is not being written is on disk as it is in memory (`MemoryIsSaved`); the write under way is as far
  as `pc`, the traces left and the next sidecar say (`WriteIsInOrder`, `HasWritten`), over a directory
  that nothing has sealed (`WriteIsBounded`), and is of a candidate nothing was made from yet
  (`InFlightIsNew`); the child of a slot that is still ahead is unknown or will be skipped
  (`SlotsAheadAreFree`), so no slot breeds over an older child; a checkpoint, however stale, knows
  nothing that the directories do not (`CheckpointIsBehind`); and when no process runs the directories
  alone suffice for the next one (`DiskIsSound`). The step that needs care is the kill: the directory
  under way may be loadable over older sidecars, and is then a candidate all the same, with every task
  traced (`HalfWrittenIsComplete`), which the next process takes over as it is.
- `AKillIsInvisible`, under this module's `OrdinaryScale`, needs two more parts. A replay meets every
  directory once, in the order of the names (`NthEnumerates`, `ReplayExists`). What the disk holds, half-written
  directories included, is ordinary (`OrdinaryDisk`). In memory and in the
  replay every per-task best has the rank of the best contender of its task (`RankInv`), and the
  contenders are a matter of candidates, bars and floor alone, so the order, which differs, does not
  matter. The theorem speaks of ranks because the order does decide between contenders that tie.

`TypeOK` of this module is proved without a run that checks it; `IInv` and `RankInv` were checked by
TLC on both instances beforehand.

`ExternalSpine_proofs` proves for any number of executions, slots, faults and days:

- `SpineIsWellTyped` and `LeasesHold` from `IInv == TypeOK /\ LeasesAreAccounted /\
  ScoredRunsEnded`; the last is needed because `Score` writes the verdict as a row.
- `OvershootHolds` from `Exposure <= Limit`, with `Exposure == today + MaxCost *
  Cardinality(Running)`: what the agents under way can still add is counted before they add it. A
  start that passes the gate does so below the headroom, with fewer than `MaxDocker` others running
  (by `LeasesAreAccounted`), or past one more fault.
- `OneRowHolds` from the same property and `CancelledRunsStop`: a run marked cancelled is being
  unwound or over, so no handler that writes a row can follow.
- `UndercountHolds` from `UInv`: an execution that is over and whose spend is not booked as it was
  has a degraded row, was cancelled, or completed (`Fates`), and those that completed so are no more
  than the faults of the ledger (`Lapsed`).

`RunnerBridge_proofs` proves for any number of cancellations and docker faults:

- `BridgeIsWellTyped`, `KillPrecedesSweep`, `NothingStays` and `VerdictHolds` from one invariant,
  `IInv`, checked by TLC beforehand. It adds to the types that from the first step of an ending on
  the runner is not alive (`KilledFirst`); that the result is fixed together with the ending, and by
  a cancellation (`EndingIsFixed`); that a run over without a sweep never launched, completed, was
  broken off and cancelled, or was cancelled three times (`SweepIsOwed`); and what each step of a
  sweep without faults has removed (`Removed`).
- `BridgeIsAnAgentRun`: each action maps to a step of `AgentRun` or a stutter, by `KilledFirst` (a run
  that is over has no live runner) and `EndingIsFixed` (a cancelled one has no result).

`OpenHandsBackend_proofs` proves for every token budget and any number of cancellations and docker
faults:

- `BackendIsWellTyped` and `NoRunnerStays` from `IInv == TypeOK /\ RInv /\
  Launched /\ Stopped`. `RInv` is the runner's own invariant, with the marks a
  result may bear; `Launched` says what has been started at each await, `Stopped` that a runner on
  the host goes with its process, and one in a container with a `docker rm` that worked, which every
  way to the end has started.
- `VerdictsAreConsistent`: no step of the run fixes a result that contradicts itself, by the marks a
  runner can write (`MarksAreKnown`) and what reconciliation makes of each of them.
- `OpenHandsIsAnAgentRun`: the refinement of `AgentRun`, step by step.

`HelperLibrary_proofs` proves for any helpers, sources, layers, rebuilds and retries:

- `VerifiedHelpersAreWhole` from `IInv == TypeOK /\ Written /\ Vetted /\ Gated /\ BarStands`. At its
  heart is that the helpers the dependency-aware keep adds back are closed under calls (`Whole`): the
  helpers a set reaches are the least set that contains it and is closed. The theorem is about every
  helper where the library is prepended to one script, and where each helper is staged by itself about
  one that calls no other; section 5 has the rest.
- `BarsAreEarnedWhenLive`, for live families; for the others see section 5.

`AgenticSolver_proofs` proves for any number of solvers and other callers, turns and retries, every
budget and every cap:

- `SolversAreWellTyped`, `SpendOvershootHolds`, `UsageReportsHold` and `ConfirmationsAreTwofold` from
  `IInv == TypeOK /\ LoopsAreSound /\ CallsAreSound /\ CapIsKept /\ UsageIsKept`. What a solver may
  have spent depends on the await it is parked on (`Sound`); a request in flight counts with its full
  cost before it is answered (`CapIsKept`); what was counted lies between what the calls hold and
  what they hold and owe (`UsageIsKept`). The last one is about sums over all callers: `SumRemove`,
  `SumIsMonotone` and `SumChanges` say of the community modules' `SumFunction` that its order is
  immaterial and that it changes as its one changed term does.

`EvalProcess_proofs` proves for any number of pieces of work, workers, identifiers and calls:

- `EvaluationIsWellTyped`, `UsagesAreOwn`, `NoResultIsMissed` and `LossesAreBounded` from `IInv == TypeOK
  /\ ChildrenAreSound /\ LogIsKept /\ UsageIsTheChildsOwn /\ TotalIsKept`: live children have
  identifiers of their own, the lines that bear a child's identifier since it was started are the calls
  it noted and those of its heirs, no line by anyone else, and the total is the sum of what the answers
  taken report. The bounds of the last two theorems count the lines of heirs (`Strays`), so they say
  by how much an evaluation can be wrong and not that it is right.
- `FailuresEarnNothing`: the averages are monotone in their entries, for any dev map and any set of
  files with an error.

Sums of natural numbers are written as the number of their units told apart (`Units`, `Unbooked`): a
larger summand then gives a larger set, and the bounds follow from the library's theorems about
cardinality.

Assumptions are the named `ASSUME`s of the modules, which TLC evaluates in the runs, `OrdinaryScale`
for the five theorems that state it and `Live` for `BarsAreEarnedWhenLive`. The `ASSUME`s say that
sets of executions, callers, files and identifiers are finite, that bounds are natural numbers, that
there are at least as many process identifiers as workers, and in `SearchRun` that names are tuples
of numbers of which the merge's sorts last (`IdsAssumption`) and that `None` is none of the values it
stands for the absence of (`NoValueAssumption`). The instances of both search runs satisfy
`OrdinaryScale`.

**Induction.** The library's induction theorems take an operator as a parameter, which the installed
provers cannot instantiate. Where a proof needs induction over finite sets or numbers, it takes the
least counterexample instead, which exists because inclusion among finite sets is well founded
(`SmallestSubset`, `SmallestSet`, `LeastNat`).

**Model-checked only.** `TelemetryRows` and `Consolidation`, whose proofs are not written; the
liveness properties of all modules (fairness and ENABLED are out of the prover's reach).

## 5. Where code and comments disagree, beyond the run of section 3

Met while modelling; the models behave as the code does, and the properties except these cases by
name or leave them out.

- A floor with a negative score does not raise an entry won by a crash of score 0
  (`core/archive.py:335`; the docstring of `set_base_floor` says it RAISES the index to the floor).
  `FloorHolds` proves the promise where failures score no more than successes.
- `total_iterations` is one short when a run is resumed after its patience ran out
  (`core/evolutionary_orchestrator.py:796`, against the comment at 1560).
- A second merge after a resume is dropped by `add` as a duplicate id and written over the first on
  disk (`core/archive.py:151`). A fresh run over an old directory, and a refined child bred again
  after a kill, also write over what is there (`rewritten`).
- A kill can leave a candidate that a resume takes for complete and that is not. A save deletes
  nothing, and `rebuild_from_disk` asks for one sidecar for each depth of the summary it finds, whoever
  wrote it (`core/archive.py:816-831`, whose comment says that a clean write always yields
  `len(injected_codes) == depth - 1` and takes the converse for granted). Say a child of depth 3 is
  killed after its sidecar of depth 2; the resumed run breeds the slot again, from another parent, at
  depth 2. From the moment its summary is written its directory is loadable, with the traces and the
  code of the first attempt. A second kill in between makes that the candidate: its mean is of one
  chain, its traces and its code are of another, and as it is in `completed_set` it stays so. The two
  properties except it by `Sealed`.
- The comment at `core/evolutionary_orchestrator.py:1635-1638` says of the merge that it becomes the
  archive's best. Under `--consolidate` the gap gate is lifted (3762-3769): when the oracle is no
  better than the best chain the merge is added, saved and reported, and the chain stays the best.
- A helper that passed the check can fail where it is staged by itself. The container concatenates the
  library (`core/verified_code.py:200-205`), and the comment of the dependency-aware keep relies on
  deploy prepending every kept helper together (`core/evolutionary_orchestrator.py:2125`, 2150-2154);
  but the spine stages each as a module of its own (`core/external_agents/injection.py:314-316`) and a
  bash script writes each to a file of its own (`core/code_library.py:311-323`, 375-379), where a call
  of a sibling by its bare name raises NameError. `VerifiedHelpersFindTheirCalls` is about helpers that
  call no other there, and on these paths `BarsAreEarned` does not say that the helper a task is barred
  for would have worked.
- The report of a killed child can hold more than its own calls. It is read from the log by process
  identifier after the child was reaped (`integrations/_subprocess_utils.py:188-198`; its docstring,
  152-170, argues from the identifier of the child), so the calls of a sibling, or of a process that
  one forked, that got the identifier in between are counted for both: `Strays` in
  `UsageIsTheChildsOwn` and `LossIsBounded`. A kill misses what the child forked into a session of its
  own (97), and without psutil nothing of a child that had not detached is looked for (103-104).
- A cancelled execution has spent and leaves neither ledger line nor row
  (`core/external_agents/solver.py:401`, against the bound in `budget.py:67`).
- A runner that crashes leaves its containers (`_external_tb.py:445`, against 519): `communicate()`
  returns, so the run counts as completed.
- A failed gate's row is restamped when a floor is protected and another task clears, although a
  comment in the writer says that a gate-failed task is never reused.
- The OH-TB bridge's table has no entry for the `unknown_agent_error` its runner can emit
  (`src/scripts/_runner_common.py:210`): the run ends as `unknown`.
- A seed helper that was demoted still counts as verified and may bar its task
  (`core/evolutionary_orchestrator.py:2032`); a re-propagation rebuilds a layer under helpers verified
  against the old one (3385) and at depth 2 replaces the seed's (3277); with two verified helpers the
  deployed wrapper of one bars the task for the other (2257).
- The dependency-aware keep, which is to keep a dependency a kept helper needs
  (`core/evolutionary_orchestrator.py:2154`), follows calls from one helper of the layer to another
  and not through a lower layer's helper. When a lower layer calls a name it does not define, a new
  helper may call it by way of that layer and lose it: `VerifiedHelpersFindTheirCalls` asks that the
  layers below call nothing that is missing (`SelfContained`).
- The thread of a `pre_process` that timed out goes on (`core/meta_layer.py:306`).
- A torn result blocks the thread that reads it although the wait has a timeout
  (`integrations/_subprocess_utils.py:273`): `OnlyATornResultBlocks` says that nothing else does.
- Processes that `solve()` forks sign the log with their own identifier, so a killed child's report
  misses their calls, and they outlive a child that exits by itself.
- OpenEvolve's crash score of 0 outranks a valid fit with a negative score (`openevolve.py:592`).
- Without within-task recursion a sibling's inherited trace of the child's own depth counts as fresh,
  so `within_task_verdict` can pass a chain that never worked a task twice
  (`analysis/depth_attribution.py:104`). A focus that scored NaN can hand the wrong one to a
  grandchild. A crash stored as 0 is shown no inspiration from a successful negative best
  (`core/archive.py:702`), and a floor's draw counts as the seed's own (696).

## 6. Not modelled

- In the search: elite rotation, `no_early_stop`, the held-out test evaluation, the generator's state
  (parents are nondeterministic), the running summary and other derived output. A candidate write
  that raises ends the process like a kill. The floor of 1e-9 under the score range is 0.
- In the spine: the builtin backend that returns its own tokens, the snapshot of agent logs,
  other processes on the same ledger, the hooks of a lease. `shutdown_sweep` is no action: on
  cancellation the gather waits for its children, and `LeasesAreAccounted` says that it then finds
  nothing. A ledger with a non-finite total denies, as one that is used up does.
- In the bridge: the contents of the request, an unreadable result file (the runner renames it into
  place), children of a crashed runner that hold its pipes.
- Text: prompts, source transformations, redaction, the parsing of OpenHands' event log.
- Components marked `not_modelled` in PROJECT.json, each with its reason: Terminal-Bench's docker
  sessions and the executors are I/O around external programs, `main.py` is wiring, the reports and
  metrics are pure functions of finished runs.

## 7. Plan

1. `TelemetryRows.ComparisonIsExact` over the last readable row of each run_id; the types of
   `Consolidation`.
2. Abstract specifications: a search whose candidate and checkpoint are saved atomically,
   implemented by `SearchRun` between writes; a pool of leases with a budget, implemented by
   `ExternalSpine`.
3. The hooks of a lease and Terminal-Bench's sessions.
