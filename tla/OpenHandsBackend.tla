--------------------------- MODULE OpenHandsBackend ---------------------------
(***************************************************************************)
(* OpenHandsBackend.run around oh_runner, on the host or in a sandbox      *)
(* container, and what the bridge of the three Terminal-Bench runners      *)
(* (whose own steps are RunnerBridge's) reads of theirs.                   *)
(*                                                                         *)
(* In a sandbox the process that the backend talks to is the docker        *)
(* client: killing it leaves the runner alive in its container.            *)
(***************************************************************************)
EXTENDS RunnerProgram

CONSTANT MaxCancels  \* bound: cancellations of the coroutine

ASSUME BackendAssumption == MaxCancels \in Nat

VARIABLES
    sandbox, \* does this run use the sandbox?
    at,      \* the await the coroutine is parked on
    proc,    \* the process it launched: the runner, or the docker client
    rm,      \* the docker rm -f in flight
    timeout, \* did the wall clock expire?
    broke,   \* what an exception of the launch or of communicate() is classified as
    cancels,
    result   \* what run() returned, Cancelled, or None

vars == <<request, runnerVars, faults, sandbox, at, proc, rm, timeout, broke, cancels, result>>

Awaits == {"prep", "launch", "talk", "reap", "reap_rm", "f_rm", "parse", "over"}

-----------------------------------------------------------------------------
(* terminated.py: the tables from native marks to terminal states.         *)

OHStatus ==
    [finished |-> "completed", stuck |-> "agent_error", error |-> "agent_error",
     paused |-> "agent_error", budget_exhausted |-> "budget_usd",
     token_budget |-> "token_budget", max_iterations |-> "max_turns",
     agent_timeout |-> "timeout", env_error |-> "env_error",
     context_window_exceeded |-> "context_len", parse_error |-> "parse_error",
     agent_error |-> "agent_error"]

T2Failure ==
    [none |-> "completed", agent_timeout |-> "timeout", token_budget |-> "token_budget",
     unknown_agent_error |-> "agent_error", parse_error |-> "parse_error",
     test_timeout |-> "env_error", env_error |-> "env_error"]

Look(table, mark) == IF mark \in DOMAIN table THEN table[mark] ELSE "unknown"

FromOHStatus(mark) == Look(OHStatus, mark)

\* The tables of the three bridges' _resolve_terminated.
Resolve(mark) == IF kind = "oh_tb" THEN FromOHStatus(mark) ELSE Look(T2Failure, mark)

Failures == {"agent_error", "env_error", "parse_error", "context_len"}

Reported(term, failure, tokens, resolved) ==
    [term |-> term, failure |-> failure, tokens |-> tokens, resolved |-> resolved]

\* The run raised CancelledError.
Cancelled == Reported("cancelled", "none", 0, FALSE)

\* Mutant of Reconciled: a failure without a token of its own stays without.
ReconciledBlank(term, failure, status) == failure

\* _reconcile_termination: a failure carries a token, synthesized from the
\* status if need be; what is no failure carries none that is one.
Reconciled(term, failure, status) ==
    IF term \in Failures THEN (IF failure = "none" THEN status ELSE failure)
    ELSE IF FromOHStatus(failure) \in Failures THEN "none" ELSE failure

-----------------------------------------------------------------------------
(* What the backends read.                                                 *)

\* _ExternalTBBackend: the result file after the runner has gone; a wall clock
\* overrules what is unresolved and has no failure of its own to tell.
BridgeReads ==
    LET f == file
        resolved == f # None /\ f.ok /\ f.resolved
        mark == IF f = None THEN "env_error" ELSE f.mark
        walled == timeout /\ ~resolved /\ (f = None \/ mark = "none")
    IN  IF broke # "none" THEN Reported("env_error", "env_error", 0, FALSE)
        ELSE IF resolved THEN Reported("completed", "none", f.tokens, TRUE)
        ELSE Reported(IF walled THEN "timeout" ELSE IF mark = "none" THEN "unknown"
                      ELSE Resolve(mark),
                      IF walled THEN "agent_timeout" ELSE mark,
                      IF f = None THEN 0 ELSE f.tokens, FALSE)

\* OpenHandsBackend: the file, else a payload on the stdout that communicate()
\* delivered, else nothing; the wall clock and an exception come first.
OpenHandsReads ==
    LET data == IF file # None THEN file ELSE IF timeout \/ broke # "none" THEN None ELSE out
        failure == IF timeout THEN "agent_timeout"
                   ELSE IF broke # "none" THEN broke
                   ELSE IF data = None THEN "parse_error" ELSE data.error
        status == IF data = None THEN "agent_error" ELSE data.mark
        term == IF timeout THEN "timeout"
                ELSE IF failure # "none" THEN FromOHStatus(failure) ELSE FromOHStatus(status)
    IN  Reported(term, Reconciled(term, failure, status),
                 IF data = None THEN 0 ELSE data.tokens, FALSE)

Read == IF kind = "local" THEN OpenHandsReads ELSE BridgeReads

-----------------------------------------------------------------------------
(* The coroutine.                                                          *)

\* _killpg: on the host it ends the runner, with all its threads.
Kill ==
    /\ proc' = IF proc = "alive" THEN "dead" ELSE proc
    /\ pc' = IF proc = "alive" /\ ~sandbox THEN "dead" ELSE pc

Unread == UNCHANGED <<request, agent, given, calls, counted, pending, cap, trial, payload, file, out, sandbox>>

\* The checks of the interpreter and the script, and the input files.
Prepare ==
    /\ at = "prep"
    /\ \/ at' = "launch" /\ UNCHANGED result
       \/ at' = "over" /\ result' = Reported("env_error", "env_error", 0, FALSE)
    /\ UNCHANGED <<pc, proc, rm, timeout, broke, cancels, faults>> /\ Unread

\* The end of the finally: a sandbox is swept whatever happened.
FinallySweep ==
    IF sandbox THEN at' = "f_rm" /\ rm' = "running" ELSE at' = "parse" /\ rm' = "idle"

Launch ==
    /\ at = "launch"
    /\ \/ /\ at' = "talk" /\ proc' = "alive" /\ UNCHANGED <<rm, broke>>
          /\ pc' = IF sandbox THEN pc ELSE "load"
       \/ broke' \in {"env_error", "agent_error"} /\ FinallySweep /\ UNCHANGED <<proc, pc>>
    /\ UNCHANGED <<timeout, cancels, faults, result>> /\ Unread

\* communicate() returns: the process is gone.
Completes ==
    /\ at = "talk" /\ proc = "dead" /\ FinallySweep
    /\ UNCHANGED <<pc, proc, timeout, broke, cancels, faults, result>> /\ Unread

\* The hard timeout, or an exception of communicate(): kill, then wait.
HardTimeout ==
    /\ at = "talk" /\ Kill /\ at' = "reap"
    /\ \/ timeout' = TRUE /\ UNCHANGED broke
       \/ broke' \in {"env_error", "agent_error"} /\ UNCHANGED timeout
    /\ UNCHANGED <<rm, cancels, faults, result>> /\ Unread

Reaped ==
    /\ at = "reap"
    /\ IF sandbox THEN at' = "reap_rm" /\ rm' = "running" ELSE FinallySweep
    /\ UNCHANGED <<pc, proc, timeout, broke, cancels, faults, result>> /\ Unread

\* _docker_rm came to its end: the finally's own follows.
ReapSwept ==
    /\ at = "reap_rm" /\ rm # "running" /\ FinallySweep
    /\ UNCHANGED <<pc, proc, timeout, broke, cancels, faults, result>> /\ Unread

\* The finally's docker rm came to its end, or the 70 s it is waited for did.
Swept ==
    /\ at = "f_rm" /\ at' = "parse"
    /\ UNCHANGED <<pc, proc, rm, timeout, broke, cancels, faults, result>> /\ Unread

\* Past the finally: a cancelled run re-raises, the others read their result.
Parse ==
    /\ at = "parse" /\ at' = "over"
    /\ result' = IF cancels > 0 THEN Cancelled ELSE Read
    /\ UNCHANGED <<pc, proc, rm, timeout, broke, cancels, faults>> /\ Unread

\* Mutant of CancelSweep: the finally's docker rm is awaited bare.
CancelSweepBare ==
    /\ at = "f_rm" /\ at' = "over" /\ rm' = "idle" /\ result' = Cancelled
    /\ UNCHANGED <<pc, proc>>

\* A cancellation of the finally leaves the shielded docker rm running.
CancelSweep ==
    /\ at = "f_rm" /\ at' = "over" /\ result' = Cancelled
    /\ UNCHANGED <<pc, proc, rm>>

\* Mutant of CancelWait: the handler only waits.
CancelWaitOnly ==
    /\ \/ at = "talk"
       \/ at \in {"reap", "reap_rm"} /\ cancels = 0 /\ broke = "none"
    /\ at' = "reap" /\ rm' = "idle" /\ UNCHANGED <<pc, proc, result>>

\* The first cancellation, also one of the timeout's own reaping: reap anew.
CancelWait ==
    /\ \/ at = "talk"
       \/ at \in {"reap", "reap_rm"} /\ cancels = 0 /\ broke = "none"
    /\ Kill /\ at' = "reap" /\ rm' = "idle" /\ UNCHANGED result

\* A cancellation of a handler that reaps: on to the finally.
CancelReap ==
    /\ at \in {"reap", "reap_rm"} /\ (cancels > 0 \/ broke # "none")
    /\ IF sandbox THEN at' = "f_rm" /\ rm' = "running" ELSE at' = "parse" /\ rm' = "idle"
    /\ UNCHANGED <<pc, proc, result>>

\* No process yet: the finally sweeps, for all it knows, a container.
CancelEarly ==
    \/ at = "prep" /\ at' = "over" /\ result' = Cancelled /\ UNCHANGED <<pc, proc, rm>>
    \/ at = "launch" /\ FinallySweep /\ UNCHANGED <<pc, proc, result>>

Cancel ==
    /\ cancels < MaxCancels /\ cancels' = cancels + 1
    /\ CancelEarly \/ CancelWait \/ CancelReap \/ CancelSweep
    /\ UNCHANGED <<timeout, broke, faults>> /\ Unread

-----------------------------------------------------------------------------
(* The daemon and the processes.                                           *)

\* docker run brings the container up; late, if its client was killed first.
BoxStarts ==
    /\ sandbox /\ proc # "none" /\ pc = "off" /\ pc' = "load"
    /\ IF proc = "alive" THEN UNCHANGED faults ELSE Fault
    /\ UNCHANGED <<at, proc, rm, timeout, broke, cancels, result>> /\ Unread

\* The process goes with the runner, or dies on its own.
ProcessEnds ==
    /\ proc = "alive" /\ proc' = "dead"
    /\ pc' \in IF sandbox /\ pc = "off" THEN {"off"} ELSE {"dead"}
    /\ UNCHANGED <<at, rm, timeout, broke, cancels, faults, result>> /\ Unread

\* docker rm -f is done, which takes the runner with it, or fails.
Removes ==
    /\ rm = "running" /\ rm' = "done"
    /\ \/ pc' = (IF pc = "off" THEN pc ELSE "dead") /\ UNCHANGED faults
       \/ Fault /\ UNCHANGED pc
    /\ UNCHANGED <<at, proc, timeout, broke, cancels, result>> /\ Unread

Runs ==
    /\ Script
    /\ UNCHANGED <<sandbox, at, proc, rm, timeout, broke, cancels, result>>

Init ==
    /\ RunnerInit
    /\ sandbox \in (IF kind = "local" THEN BOOLEAN ELSE {FALSE})
    /\ at = "prep" /\ proc = "none" /\ rm = "idle" /\ timeout = FALSE /\ broke = "none"
    /\ cancels = 0 /\ result = None

Coroutine ==
    \/ Prepare \/ Launch \/ Completes \/ HardTimeout \/ Reaped \/ ReapSwept \/ Swept \/ Parse

Next == Coroutine \/ Cancel \/ BoxStarts \/ ProcessEnds \/ Removes \/ Runs

\* The loop resumes the coroutine, whose every wait is bounded; so is a docker rm.
Spec == Init /\ [][Next]_vars /\ WF_vars(Coroutine) /\ WF_vars(Removes)

-----------------------------------------------------------------------------
(* Properties.                                                             *)

\* Every variable keeps its type, and what is awaited was launched.
TypeOK ==
    /\ RunnerTypeOK
    /\ sandbox \in BOOLEAN /\ at \in Awaits /\ proc \in {"none", "alive", "dead"}
    /\ rm \in {"idle", "running", "done"} /\ timeout \in BOOLEAN
    /\ broke \in {"none", "env_error", "agent_error"} /\ cancels \in 0..MaxCancels
    /\ at \in {"talk", "reap", "reap_rm"} => proc # "none"
    /\ ~sandbox => rm = "idle"

Ended == at = "over" /\ result \notin {None, Cancelled}

\* openhands.py: no result pairs a terminal state that is a failure with no
\* token for it, or one that is none with a token that is.
VerdictIsConsistent ==
    Ended => IF result.term \in Failures THEN result.failure # "none"
             ELSE FromOHStatus(result.failure) \notin Failures

\* openhands.py: with docker at work no runner outlives its run, on the host or
\* in a container, however often it is cancelled and wherever.
NoRunnerIsLeft ==
    at = "over" /\ rm # "running" /\ faults = 0 => pc \in {"off", "dead"}

\* A run as AgentRun sees it.
Phase ==
    IF at = "over" THEN "over" ELSE IF proc = "none" /\ cancels = 0 THEN "idle" ELSE "busy"
AgentIs == CASE proc = "none" -> "none" [] proc = "alive" -> "alive" [] proc = "dead" -> "stopped"
Outcome ==
    IF at # "over" THEN "none" ELSE IF result = Cancelled THEN "cancelled" ELSE "result"

Agent == INSTANCE AgentRun WITH
    phase <- Phase, agent <- AgentIs, calledOff <- cancels > 0, outcome <- Outcome

\* backend.py: the OpenHands backend keeps what every backend promises the
\* spine: the process it launched is stopped when the run is over, and only a
\* cancelled run has no result.
ImplementsAgentRun == Agent!Spec
=============================================================================
