---------------------------- MODULE RunnerBridge ----------------------------
(***************************************************************************)
(* One run of a subprocess backend, _ExternalTBBackend.run: the coroutine  *)
(* that launches the runner and waits for it, the runner, which is a       *)
(* process of its own and brings up a compose project, and the docker      *)
(* commands of _force_compose_down, which may outlive the coroutine.       *)
(*                                                                         *)
(* The coroutine's steps are its awaits.  It can be cancelled at each of   *)
(* them: by the spine's envelope, by Ctrl-C, by the loop that shuts down.  *)
(***************************************************************************)
EXTENDS Naturals

CONSTANTS
    MaxCancels,  \* bound: cancellations of the coroutine
    MaxFaults    \* bound: docker commands that fail, hang or act late

ASSUME BridgeAssumption == MaxCancels \in Nat /\ MaxFaults \in Nat

VARIABLES
    at,         \* the await the coroutine is parked on
    runner,     \* the runner; "dead" once its return code is known
    stack,      \* what there is of the compose project
    file,       \* the verdict in the runner's result file
    sweep,      \* how far _force_compose_down has come
    tornDown,   \* torn_down
    completed,  \* runner_completed
    broke,      \* communicate() raised
    ending,     \* what run() returns or raises, once known
    cancels,    \* cancellations so far
    faults      \* docker faults so far

flags == <<tornDown, completed, broke>>
bounds == <<cancels, faults>>
vars == <<at, runner, stack, file, sweep, flags, ending, bounds>>

Awaits == {"prep", "launch", "talk", "t_reap", "t_sweep", "c_reap", "c_sweep",
           "f_reap", "f_sweep", "over"}
Live == {"trial", "verdict"}
Running == {"ps", "rm", "net"}
Verdicts == {"resolved", "unresolved", "failed"}

-----------------------------------------------------------------------------
(* The pieces run() is made of.                                            *)

\* Mutant of Kill: nothing is signalled.
KillNothing == UNCHANGED runner

\* _sigkill_group, a no-op on a process that is gone.
Kill == runner' = IF runner \in Live THEN "killed" ELSE runner

\* Mutant of Scored: the verdict of a timed-out runner is not looked at.
ScoredBlind(timedOut) ==
    IF timedOut THEN "timeout" ELSE IF file = "resolved" THEN "completed" ELSE "degraded"

\* What the result file says.  The wall clock overrules all but a runner that
\* resolved the task or knows why it failed; without a file, a runner that was
\* not killed is an environment error.
Scored(timedOut) ==
    CASE file = "resolved" -> "completed"
      [] file = "failed" -> "degraded"
      [] OTHER -> IF timedOut THEN "timeout"
                  ELSE IF file = "none" THEN "degraded" ELSE "unknown"

\* The end of the finally: the sweep it makes unless one was made.
FinallySweep ==
    \/ /\ runner # "none" /\ ~completed /\ ~tornDown'
       /\ at' = "f_sweep" /\ sweep' = "ps"
    \/ /\ runner = "none" \/ completed \/ tornDown'
       /\ at' = "over" /\ UNCHANGED sweep

\* Mutant of Finally: it trusts the runner to be gone.
FinallyTrusting == FinallySweep /\ UNCHANGED runner

\* The finally: a runner whose return code is not known is killed and waited for.
Finally ==
    \/ runner \in Live \cup {"killed"} /\ Kill /\ at' = "f_reap" /\ UNCHANGED sweep
    \/ runner \in {"none", "dead"} /\ FinallySweep /\ UNCHANGED runner

\* Mutant of Shielded: the sweep is awaited bare.
Unshielded == sweep' = IF sweep \in Running THEN "idle" ELSE sweep

\* A cancelled wait for a shielded sweep leaves the sweep running.
Shielded == UNCHANGED sweep

-----------------------------------------------------------------------------
Init ==
    /\ at = "prep" /\ runner = "none" /\ stack = {} /\ file = "none"
    /\ sweep = "idle" /\ tornDown = FALSE /\ completed = FALSE /\ broke = FALSE
    /\ ending = "none" /\ cancels = 0 /\ faults = 0

\* _prepare_run, the working directory and the request file; each may fail.
Prepare ==
    /\ at = "prep"
    /\ \/ at' = "launch" /\ UNCHANGED ending
       \/ at' = "over" /\ ending' = "degraded"
    /\ UNCHANGED <<runner, stack, file, sweep, flags, bounds>>

\* create_subprocess_exec.
Launch ==
    /\ at = "launch"
    /\ \/ at' = "talk" /\ runner' = "trial" /\ UNCHANGED ending
       \/ at' = "over" /\ ending' = "degraded" /\ UNCHANGED runner
    /\ UNCHANGED <<stack, file, sweep, flags, bounds>>

\* communicate() returns, which it does whatever made the runner exit.
Completes ==
    /\ at = "talk" /\ runner = "dead"
    /\ completed' = TRUE /\ ending' = Scored(FALSE) /\ at' = "over"
    /\ UNCHANGED <<runner, stack, file, sweep, tornDown, broke, bounds>>

\* communicate() raises.
Breaks ==
    /\ at = "talk"
    /\ broke' = TRUE /\ ending' = "degraded"
    /\ UNCHANGED <<tornDown, completed>> /\ Finally
    /\ UNCHANGED <<stack, file, bounds>>

HardTimeout ==
    /\ at = "talk"
    /\ Kill /\ at' = "t_reap"
    /\ UNCHANGED <<stack, file, sweep, flags, ending, bounds>>

\* Mutant of Reaped: the wait for the killed runner is not bounded.
ReapedUnbounded ==
    /\ runner = "dead"
    /\ \/ /\ at = "t_reap" /\ at' = "t_sweep" /\ sweep' = "ps"
          /\ UNCHANGED tornDown
       \/ /\ at = "c_reap" /\ at' = "c_sweep" /\ sweep' = "ps"
          /\ tornDown' = TRUE
       \/ /\ at = "f_reap" /\ UNCHANGED tornDown
          /\ FinallySweep
    /\ UNCHANGED <<runner, stack, file, completed, broke, ending, bounds>>

\* The wait for the killed runner ends, or its 70 s do.
Reaped ==
    /\ \/ /\ at = "t_reap" /\ at' = "t_sweep" /\ sweep' = "ps"
          /\ UNCHANGED tornDown
       \/ /\ at = "c_reap" /\ at' = "c_sweep" /\ sweep' = "ps"
          /\ tornDown' = TRUE
       \/ /\ at = "f_reap" /\ UNCHANGED tornDown
          /\ FinallySweep
    /\ UNCHANGED <<runner, stack, file, completed, broke, ending, bounds>>

\* The timeout's own sweep, which is awaited bare, is done: what the runner
\* had written before the wall is scored.
TimedOut ==
    /\ at = "t_sweep" /\ sweep = "done"
    /\ tornDown' = TRUE /\ ending' = Scored(TRUE)
    /\ UNCHANGED <<completed, broke>> /\ Finally
    /\ UNCHANGED <<stack, file, bounds>>

\* A shielded sweep is done, or the 70 s it is waited for end.
SweepAwaited ==
    /\ \/ at = "c_sweep" /\ UNCHANGED tornDown /\ Finally
       \/ at = "f_sweep" /\ at' = "over" /\ UNCHANGED <<runner, sweep, tornDown>>
    /\ UNCHANGED <<stack, file, completed, broke, ending, bounds>>

CancelLaunch ==
    /\ at = "launch" /\ at' = "c_sweep" /\ sweep' = "ps" /\ tornDown' = TRUE
    /\ UNCHANGED runner

\* A first cancellation, also one of a timeout: the handler kills and waits.
CancelWait ==
    /\ at \in {"talk", "t_reap", "t_sweep"}
    /\ Kill /\ at' = "c_reap"
    /\ sweep' = IF at = "t_sweep" THEN "idle" ELSE sweep
    /\ UNCHANGED tornDown

\* A cancellation of the handler, or of the finally.
CancelTeardown ==
    /\ UNCHANGED tornDown
    /\ \/ at = "c_reap" /\ Finally
       \/ /\ at = "c_sweep" /\ Shielded /\ Kill
          /\ at' = IF runner \in {"none", "dead"} THEN "over" ELSE "f_reap"
       \/ at = "f_reap" /\ at' = "over" /\ UNCHANGED <<runner, sweep>>
       \/ at = "f_sweep" /\ at' = "over" /\ Shielded /\ UNCHANGED runner

Cancel ==
    /\ cancels < MaxCancels /\ cancels' = cancels + 1
    /\ \/ at = "prep" /\ at' = "over" /\ UNCHANGED <<runner, sweep, tornDown>>
       \/ CancelLaunch \/ CancelWait \/ CancelTeardown
    /\ ending' = "cancelled"
    /\ UNCHANGED <<stack, file, completed, broke, faults>>

-----------------------------------------------------------------------------
(* The runner.  It removes its containers before it writes its verdict.    *)

Fault == faults < MaxFaults /\ faults' = faults + 1

\* docker compose up: the network, then the container.
ComposeUp ==
    /\ runner = "trial"
    /\ \/ stack = {} /\ stack' = {"network"}
       \/ stack = {"network"} /\ stack' = {"network", "container"}
    /\ UNCHANGED <<at, runner, file, sweep, flags, ending, bounds>>

\* The trial ends, with docker compose down.
TrialEnds ==
    /\ runner = "trial" /\ runner' = "verdict"
    /\ \/ stack' = {} /\ UNCHANGED faults
       \/ Fault /\ UNCHANGED stack
    /\ UNCHANGED <<at, file, sweep, flags, ending, cancels>>

\* The result file is written aside and renamed.
WriteResult ==
    /\ runner = "verdict" /\ file = "none" /\ file' \in Verdicts
    /\ UNCHANGED <<at, runner, stack, sweep, flags, ending, bounds>>

\* The runner exits, crashes, or dies of the signal.
RunnerDies ==
    /\ runner \in Live \cup {"killed"} /\ runner' = "dead"
    /\ UNCHANGED <<at, stack, file, sweep, flags, ending, bounds>>

\* The daemon creates the container of a runner that is gone by now.
ContainerAppears ==
    /\ runner \in {"killed", "dead"} /\ stack = {"network"}
    /\ Fault /\ stack' = {"network", "container"}
    /\ UNCHANGED <<at, runner, file, sweep, flags, ending, cancels>>

-----------------------------------------------------------------------------
(* _force_compose_down: it gives up if the containers cannot be listed,    *)
(* and goes on if they cannot be removed.                                  *)

Unchanging == UNCHANGED <<at, runner, file, flags, ending, cancels>>

ListContainers ==
    /\ sweep = "ps"
    /\ \/ sweep' = (IF "container" \in stack THEN "rm" ELSE "net") /\ UNCHANGED faults
       \/ sweep' = "done" /\ Fault
    /\ UNCHANGED stack /\ Unchanging

RemoveContainers ==
    /\ sweep = "rm" /\ sweep' = "net"
    /\ \/ stack' = stack \ {"container"} /\ UNCHANGED faults
       \/ UNCHANGED stack /\ Fault
    /\ Unchanging

\* A network in use cannot be removed.
RemoveNetworks ==
    /\ sweep = "net" /\ sweep' = "done"
    /\ \/ stack' = (IF "container" \in stack THEN stack ELSE {}) /\ UNCHANGED faults
       \/ UNCHANGED stack /\ Fault
    /\ Unchanging

\* The loop is closed: it cancels the sweep that nobody waits for.
LoopCloses ==
    /\ at = "over" /\ sweep \in Running /\ sweep' = "cut"
    /\ UNCHANGED <<stack, faults>> /\ Unchanging

-----------------------------------------------------------------------------
Bridge ==
    \/ Prepare \/ Launch \/ Completes \/ Breaks \/ HardTimeout
    \/ Reaped \/ TimedOut \/ SweepAwaited

Runner == ComposeUp \/ TrialEnds \/ WriteResult \/ RunnerDies \/ ContainerAppears

Sweep == ListContainers \/ RemoveContainers \/ RemoveNetworks

Next == Bridge \/ Cancel \/ Runner \/ Sweep \/ LoopCloses

Spec == Init /\ [][Next]_vars

\* The loop resumes the coroutine, whose every wait is bounded, and each docker
\* command has a timeout of its own.  The runner may hang.
FairSpec == Spec /\ WF_vars(Bridge) /\ WF_vars(Sweep)

-----------------------------------------------------------------------------
(* Properties.                                                             *)

\* Every variable keeps its type, and a process that is talked to or reaped was
\* launched.
TypeOK ==
    /\ at \in Awaits
    /\ runner \in Live \cup {"none", "killed", "dead"}
    /\ stack \in SUBSET {"network", "container"}
    /\ file \in Verdicts \cup {"none"}
    /\ sweep \in Running \cup {"idle", "done", "cut"}
    /\ tornDown \in BOOLEAN /\ completed \in BOOLEAN /\ broke \in BOOLEAN
    /\ ending \in {"none", "completed", "unknown", "degraded", "timeout", "cancelled"}
    /\ cancels \in 0..MaxCancels /\ faults \in 0..MaxFaults
    /\ at \notin {"prep", "launch", "c_sweep", "over"} => runner # "none"
    /\ at \in {"prep", "launch"} => runner = "none"

\* _external_tb.py: the process group is killed before its containers are
\* looked for, so that the runner can bring up nothing behind the sweep; and
\* however the run ends, timeouts, cancellations and errors in any order
\* included, no runner goes on that was not killed.
SweepsFollowTheKill == sweep # "idle" \/ at = "over" => runner \notin Live

\* The run is over and the sweep was not cut off by a loop that closed.
Settled == at = "over" /\ sweep \in {"idle", "done"}

\* communicate() returned although the runner had crashed.
CrashedUnseen == completed /\ file = "none"

\* _external_tb.py: with docker at work, nothing of a run's compose project
\* outlives it, though it be cancelled a second time in the middle of the
\* teardown.  Excepted: a runner whose crash communicate() hides, and a run
\* cancelled while the finally waits for a runner it broke with.
NothingIsLeft ==
    Settled /\ faults = 0 /\ cancels <= 2 /\ ~CrashedUnseen /\ ~(broke /\ cancels > 0)
        => stack = {}

\* _external_tb.py: the result handed back tells what the file says when the
\* run is over: a task that was resolved before the wall stays resolved and
\* nothing else is reported so.
VerdictStands ==
    at = "over" /\ ending # "cancelled" /\ ~broke
        => /\ ending = "completed" <=> file = "resolved"
           /\ ending = "timeout" => file \in {"none", "unresolved"}

\* A run as AgentRun sees it.
Phase == IF at = "over" THEN "over" ELSE IF at \in {"prep", "launch"} THEN "idle" ELSE "busy"
AgentIs == IF runner \in Live THEN "alive" ELSE IF runner = "none" THEN "none" ELSE "stopped"
Outcome ==
    IF at # "over" THEN "none" ELSE IF ending = "cancelled" THEN "cancelled" ELSE "result"

Agent == INSTANCE AgentRun WITH
    phase <- Phase, agent <- AgentIs, calledOff <- cancels > 0, outcome <- Outcome

\* backend.py: the bridge keeps what every backend promises the spine: its runner
\* is stopped when the run is over, and only a cancelled run has no result.
ImplementsAgentRun == Agent!Spec

\* A run ends, though its runner hangs and cannot even be killed.
RunEnds == <>(at = "over")

=============================================================================
