---------------------------- MODULE RunnerProgram ----------------------------
(***************************************************************************)
(* The runner scripts, the programs of scripts/ that a subprocess backend  *)
(* launches: builtin_tb_runner, t2_runner and oh_tb_runner drive one trial *)
(* of the Terminal-Bench harness, oh_runner one conversation of the        *)
(* OpenHands SDK.  Two threads matter: the script and, under the harness,  *)
(* the agent, which the harness may give up on while it goes on spending.  *)
(* How a runner is launched, killed and read is left to the modules that   *)
(* extend this one.                                                        *)
(***************************************************************************)
EXTENDS Naturals, FiniteSets

CONSTANTS
    Kinds,     \* the runners to look at
    Budgets,   \* token_budget; 0 disables the kill switch
    MaxCalls,  \* max_iterations, max_episodes: what a runner's ceiling allows
    MaxCost,   \* bound: tokens of one call
    MaxFaults, \* bound: writes and docker commands that fail
    None

ASSUME RunnerAssumption ==
    /\ Kinds \subseteq {"builtin", "t2", "oh_tb", "local"}
    /\ Budgets \subseteq Nat /\ MaxCalls \in Nat /\ MaxCost \in Nat /\ MaxFaults \in Nat

VARIABLES
    kind,    \* which runner this is
    budget,  \* what its kill switch enforces of the request's token_budget: 0,
             \* no kill switch, also when the SDK's telemetry hook is missing
    pc,      \* where the script is; "off" before it is launched
    agent,   \* what the agent does, or how its perform_task or conv.run() ended
    given,   \* has the harness given up on the agent?
    calls,   \* calls of the language model so far
    counted, \* their tokens, as the live counters of the LLM object show them
    pending, \* tokens of calls whose usage has not reached the counters
    cap,     \* the tokens the agent's end left in the capture
    trial,   \* the TrialResults of the harness, or None
    payload, \* what the script is about to write, or None
    file,    \* the result file, or None
    out,     \* a payload on stdout, or None
    faults

runnerVars == <<pc, agent, given, calls, counted, pending, cap, trial, payload, file, out>>
request == <<kind, budget>>

\* The threads of a runner that is "off" or "dead" do nothing.
Steps == {"off", "load", "trial", "collect", "write", "error", "dead"}
Alive == {"load", "trial", "collect", "write", "error"}
AgentEnds == {"returned", "stopped", "raised"}

Fault == faults < MaxFaults /\ faults' = faults + 1

-----------------------------------------------------------------------------
(* The pieces.                                                             *)

\* A result: mark is the failure_mode of a trial, or the status of a
\* conversation; error is what _classify_oh_error makes of the error text.
Result(ok, resolved, tokens, mark, error) ==
    [ok |-> ok, resolved |-> resolved, tokens |-> tokens, mark |-> mark, error |-> error]

\* classify_runner_error, on what the exception's text says.
ClassifyRunnerError ==
    {"env_error", "unknown_agent_error"}
    \cup (IF kind \in {"t2", "oh_tb"} /\ agent = "stopped" THEN {"token_budget"} ELSE {})

PartialSpend == IF kind = "t2" THEN counted ELSE cap

\* What the error path of main() writes.
ErrorPayload(mark) ==
    IF kind = "local" THEN Result(FALSE, FALSE, 0, "error", mark)
    ELSE Result(FALSE, FALSE, PartialSpend,
                IF kind = "oh_tb" /\ agent = "stopped" THEN "token_budget" ELSE mark, "none")

\* What an exception of conv.run() says, to _classify_oh_error.
OHErrors == {"budget_exhausted", "max_iterations", "context_window_exceeded",
             "parse_error", "env_error", "agent_timeout", "agent_error"}

Errors == IF kind = "local" THEN OHErrors ELSE ClassifyRunnerError

\* The token fallbacks of _run: the trial's results, else the capture, else the
\* live counters.
CollectedTokens ==
    IF trial.tokens # 0 THEN trial.tokens ELSE IF cap # 0 THEN cap ELSE PartialSpend

\* The status of a conversation that ended: the SDK overloads "error" for the
\* iteration cap, which the runner tells apart by the last error event.
Statuses == IF agent = "stopped" THEN {"token_budget"}
            ELSE {"finished", "stuck", "error", "paused", "max_iterations"}

\* What _run makes of a trial, or of a conversation, that came to its end.
Collected ==
    IF kind = "local"
    THEN {Result(TRUE, FALSE, counted, s, "none") : s \in Statuses}
    ELSE {Result(TRUE, trial.resolved, CollectedTokens,
                 IF kind = "oh_tb" /\ agent = "stopped" THEN "token_budget" ELSE trial.mark,
                 "none")}

-----------------------------------------------------------------------------
(* The script.                                                             *)

RunnerInit ==
    /\ kind \in Kinds /\ budget \in Budgets
    /\ pc = "off" /\ agent = "none" /\ given = FALSE /\ calls = 0 /\ counted = 0
    /\ pending = 0 /\ cap = 0 /\ trial = None /\ payload = None /\ file = None /\ out = None
    /\ faults = 0

\* An exception reaches main(): the error payload is what will be written.
Raises ==
    /\ pc' = "error" /\ \E mark \in Errors : payload' = ErrorPayload(mark)

\* _load_request and the checks of its fields, or of the arguments, and the
\* construction of the agent's class.
LoadRequest ==
    /\ pc = "load"
    /\ \/ pc' = "trial" /\ UNCHANGED payload
       \/ Raises
    /\ UNCHANGED <<request, agent, given, calls, counted, pending, cap, trial, file, out, faults>>

\* The agent starts: perform_task, or conv.run().
AgentStarts ==
    /\ pc = "trial" /\ agent = "none" /\ trial = None
    /\ agent' = "working"
    /\ UNCHANGED <<request, pc, given, calls, counted, pending, cap, trial, payload, file, out, faults>>

\* The kill switch, read before each call.
OverBudget == budget > 0 /\ counted > budget

\* Is the usage of a call counted before the call is over?  The metrics of the
\* OpenHands SDK are; t2's counters are fed by a callback of litellm's logging,
\* which comes when it comes, also after the agent's end, or never.
CountsInCall == kind # "t2"

\* A call of the model is let through.
Calls(cost) ==
    /\ pc \in Alive /\ agent = "working" /\ kind # "builtin"
    /\ calls < MaxCalls /\ calls' = calls + 1
    /\ ~OverBudget /\ (CountsInCall => pending = 0)
    /\ pending' = pending + cost
    /\ UNCHANGED <<request, pc, agent, given, counted, cap, trial, payload, file, out, faults>>

\* Usage reaches the counters.
Counts(tokens) ==
    /\ pc \in Alive /\ (CountsInCall => agent = "working" /\ tokens = pending)
    /\ counted' = counted + tokens /\ pending' = pending - tokens
    /\ UNCHANGED <<request, pc, agent, given, calls, cap, trial, payload, file, out, faults>>

\* oh_tb's perform_task fills the capture in its finally, from the metrics, t2's
\* only on return, from the totals that Terminus 2 keeps itself.
Captures(how) == kind = "oh_tb" \/ (kind = "t2" /\ how = "returned")

Captured == IF kind = "t2" THEN counted + pending ELSE counted

\* The agent ends: it returns, it is stopped by the kill switch, or it raises,
\* in the middle of a call perhaps.
AgentStops ==
    /\ pc \in Alive /\ agent = "working"
    /\ \E how \in AgentEnds :
          /\ how = "stopped" => OverBudget
          /\ CountsInCall /\ pending > 0 => how = "raised"
          /\ agent' = how
          /\ cap' = IF Captures(how) THEN Captured ELSE cap
    /\ UNCHANGED <<request, pc, given, calls, counted, pending, trial, payload, file, out, faults>>

\* What the harness makes of the agent's end.  builtin and oh_tb return a valid
\* AgentResult whatever happened; t2 lets the harness see the exception.
Marks ==
    CASE given -> {"agent_timeout"}
      [] agent = "returned" -> {"none", "test_timeout"}
      [] agent = "stopped" /\ kind = "oh_tb" -> {"unknown"}
      [] OTHER -> {"unknown_agent_error"}

AgentResultTokens ==
    IF given \/ (kind = "t2" /\ agent # "returned") \/ kind = "builtin" THEN 0 ELSE cap

\* Harness._run_trial: the agent has ended, or the harness gave up on it; the
\* tests run in any case.  A test that does not end resolves nothing.
TrialReturns(resolved) ==
    /\ pc = "trial" /\ kind # "local" /\ (agent \in AgentEnds \/ given)
    /\ \E mark \in Marks :
          /\ mark = "test_timeout" => ~resolved
          /\ trial' = [resolved |-> resolved, tokens |-> AgentResultTokens, mark |-> mark]
    /\ pc' = "collect"
    /\ UNCHANGED <<request, agent, given, calls, counted, pending, cap, payload, file, out, faults>>

\* The harness's wait for the agent times out; the agent's thread goes on.
HarnessGivesUp ==
    /\ pc = "trial" /\ kind # "local" /\ agent = "working" /\ ~given
    /\ given' = TRUE
    /\ UNCHANGED <<request, pc, agent, calls, counted, pending, cap, trial, payload, file, out, faults>>

\* The trial raises, docker failing say; a conversation raises what its agent did.
TrialRaises ==
    /\ pc = "trial" /\ (kind = "local" => agent = "raised")
    /\ Raises
    /\ UNCHANGED <<request, agent, given, calls, counted, pending, cap, trial, file, out, faults>>

\* _run reads the results, the capture and the counters.
Collect ==
    /\ pc = "collect" \/ (pc = "trial" /\ kind = "local" /\ agent \in {"returned", "stopped"})
    /\ payload' \in Collected /\ pc' = "write"
    /\ UNCHANGED <<request, agent, given, calls, counted, pending, cap, trial, file, out, faults>>

\* write_result: aside, then os.replace.  The script exits with it.
WriteResult ==
    /\ pc \in {"write", "error"}
    /\ file' = payload /\ pc' = "dead"
    /\ UNCHANGED <<request, agent, given, calls, counted, pending, cap, trial, payload, out, faults>>

\* The write fails: under the harness a result's failure is an exception like
\* any other, an error's is the end; oh_runner falls back to stdout.
WriteFails ==
    /\ pc \in {"write", "error"} /\ Fault
    /\ \/ kind = "local" /\ out' = payload /\ pc' = "dead" /\ UNCHANGED payload
       \/ kind # "local" /\ pc = "write" /\ Raises /\ UNCHANGED out
       \/ kind # "local" /\ pc = "error" /\ pc' = "dead" /\ UNCHANGED <<payload, out>>
    /\ UNCHANGED <<request, agent, given, calls, counted, pending, cap, trial, file>>

\* The script goes on, and the agent where it has a thread.
Script ==
    \/ LoadRequest \/ AgentStarts \/ AgentStops \/ HarnessGivesUp
    \/ (\E cost \in 0..MaxCost : Calls(cost)) \/ (\E tokens \in 1..pending : Counts(tokens))
    \/ (\E resolved \in BOOLEAN : TrialReturns(resolved))
    \/ TrialRaises \/ Collect \/ WriteResult \/ WriteFails

-----------------------------------------------------------------------------
\* What a runner can leave as the failure mode of a trial, or as a status.
NativeMarks ==
    {"none", "agent_timeout", "test_timeout", "token_budget", "env_error",
     "unknown_agent_error", "unknown",
     "error", "finished", "stuck", "paused", "max_iterations"}

Trials == [resolved: BOOLEAN, tokens: Nat, mark: NativeMarks]

Results == [ok: BOOLEAN, resolved: BOOLEAN, tokens: Nat, mark: NativeMarks,
            error: OHErrors \cup {"none"}]

RunnerTypeOK ==
    /\ kind \in Kinds /\ budget \in Budgets /\ pc \in Steps
    /\ agent \in AgentEnds \cup {"none", "working"} /\ given \in BOOLEAN
    /\ calls \in 0..MaxCalls /\ counted \in Nat /\ pending \in Nat /\ cap \in Nat
    /\ trial \in Trials \cup {None}
    /\ {payload, file, out} \subseteq Results \cup {None}
    /\ faults \in 0..MaxFaults
=============================================================================
