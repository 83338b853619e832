---------------------------- MODULE ExternalSpine ----------------------------
(***************************************************************************)
(* The executions of an external agent that one evaluation fans out:       *)
(* ExternalAgentSolver._execute_with_plan and _run_leased, the leases of   *)
(* DockerRunGuard and the day's budget of CostGuard over the ledger of     *)
(* CostTracker.                                                            *)
(*                                                                         *)
(* The executions are coroutines of one event loop: what an execution does *)
(* between two awaits is one step.  The registry's lock is never held      *)
(* across an await, so taking a lease and giving it back are one step each.*)
(***************************************************************************)
EXTENDS Integers, Sequences, FiniteSets

CONSTANTS
    Runs,       \* the executions: one task, one repeat
    Parallel,   \* --parallel
    MaxDocker,  \* the guard's slots, clamped to Parallel
    Headroom,   \* daily_cap_usd - reservation_usd
    MaxCost,    \* bound: what one run of the agent can spend
    TimeLimit,  \* whether time_limit_s is set
    MaxFaults,  \* bound: failed reads of and appends to the ledger
    MaxDays     \* bound: midnights

ASSUME SpineAssumption ==
    /\ IsFiniteSet(Runs)
    /\ Parallel \in Nat \ {0} /\ MaxDocker \in 1..Parallel
    /\ Headroom \in Nat \ {0} /\ MaxCost \in Nat \ {0}
    /\ TimeLimit \in BOOLEAN
    /\ MaxFaults \in Nat /\ MaxDays \in Nat

VARIABLES
    pc,        \* where an execution is
    verdict,   \* why an agent that is being stopped or scored ended
    spent,     \* what the agent of an execution truly spent
    booked,    \* what the ledger has of it
    rows,      \* the terminated_by of the telemetry rows it wrote
    free,      \* the value of the guard's semaphore
    inflight,  \* the guard's registry
    scratch,   \* the executions whose scratch directory exists
    today,     \* today_total_usd()
    stopping,  \* the evaluation was cancelled
    faults,    \* ledger faults so far
    days       \* midnights so far

ledger == <<booked, today>>
lease == <<free, inflight, scratch>>
vars == <<pc, verdict, spent, rows, ledger, lease, stopping, faults, days>>

-----------------------------------------------------------------------------
(* What an execution can end in: the agent's own reasons, a degraded row,  *)
(* a denial, or a cancellation, which writes no row.                       *)

Degraded == {"timeout", "agent_error"}
Reasons == {"completed"} \cup Degraded
Verdicts == Reasons \cup {"none", "cancelled"}
Where == {"queued", "waiting", "leased", "running", "scoring", "unwinding", "ended"}

Holding == {r \in Runs : pc[r] \in {"leased", "running", "scoring", "unwinding"}}
Running == {r \in Runs : pc[r] = "running"}
Active == Holding \cup {r \in Runs : pc[r] = "waiting"}

\* A row is written for good: the execution is over.
Ends(r, why) ==
    /\ pc' = [pc EXCEPT ![r] = "ended"]
    /\ rows' = [rows EXCEPT ![r] = Append(@, why)]

\* Mutant of Release: the slot is kept.
ReleaseWithoutSlot(rs) ==
    /\ inflight' = inflight \ rs
    /\ scratch' = scratch \ rs
    /\ UNCHANGED free

\* The lease's finally: the agent is killed, the lease leaves the registry,
\* its scratch directory is removed and its slot given back.
Release(rs) ==
    /\ free' = free + Cardinality(rs)
    /\ inflight' = inflight \ rs
    /\ scratch' = scratch \ rs

\* headroom_exhausted and the precheck read the ledger afresh.  A ledger that
\* cannot be read admits.
Gate(deny) ==
    \/ deny = (today >= Headroom) /\ UNCHANGED faults
    \/ ~deny /\ faults < MaxFaults /\ faults' = faults + 1

\* Mutant of Book: the spend is not folded in.
BookNothing(r, cost) == UNCHANGED <<ledger, faults>>

\* The fold of a run's spend into the ledger; an append that fails is logged.
Book(r, cost) ==
    \/ /\ booked' = [booked EXCEPT ![r] = cost]
       /\ today' = today + cost
       /\ UNCHANGED faults
    \/ faults < MaxFaults /\ faults' = faults + 1 /\ UNCHANGED ledger

-----------------------------------------------------------------------------
Init ==
    /\ pc = [r \in Runs |-> "queued"] /\ verdict = [r \in Runs |-> "none"]
    /\ spent = [r \in Runs |-> 0] /\ booked = [r \in Runs |-> 0]
    /\ rows = [r \in Runs |-> <<>>]
    /\ free = MaxDocker /\ inflight = {} /\ scratch = {}
    /\ today \in 0..Headroom
    /\ stopping = FALSE /\ faults = 0 /\ days = 0

\* One of the Parallel tasks of the evaluation starts: the record is opened,
\* the injection plan built, which may fail, and the budget prechecked.
Admit(r) ==
    /\ pc[r] = "queued" /\ Cardinality(Active) < Parallel
    /\ \/ Ends(r, "agent_error") /\ UNCHANGED faults
       \/ Gate(TRUE) /\ Ends(r, "budget_denied")
       \/ Gate(FALSE) /\ pc' = [pc EXCEPT ![r] = "waiting"] /\ UNCHANGED rows
    /\ UNCHANGED <<verdict, spent, ledger, lease, stopping, days>>

\* A slot of the guard: a scratch directory is made and the lease registered,
\* or the directory cannot be made and nothing is left.
Acquire(r) ==
    /\ pc[r] = "waiting" /\ free > 0
    /\ \/ /\ free' = free - 1
          /\ inflight' = inflight \cup {r}
          /\ scratch' = scratch \cup {r}
          /\ pc' = [pc EXCEPT ![r] = "leased"]
          /\ UNCHANGED rows
       \/ Ends(r, "agent_error") /\ UNCHANGED lease
    /\ UNCHANGED <<verdict, spent, ledger, stopping, faults, days>>

\* Mutant of Start: the budget is not checked again after the wait.
StartUnchecked(r) ==
    /\ pc[r] = "leased"
    /\ \/ Ends(r, "agent_error") /\ Release({r}) /\ UNCHANGED spent
       \/ /\ \E cost \in 0..MaxCost : spent' = [spent EXCEPT ![r] = cost]
          /\ pc' = [pc EXCEPT ![r] = "running"]
          /\ UNCHANGED <<rows, lease>>
    /\ UNCHANGED <<verdict, ledger, stopping, faults, days>>

\* _run_leased: the budget is checked again, the environment provisioned and
\* the files staged, which may fail, and the agent started.
Start(r) ==
    /\ pc[r] = "leased"
    /\ \/ Gate(TRUE) /\ Ends(r, "budget_denied") /\ Release({r}) /\ UNCHANGED spent
       \/ Gate(FALSE) /\ Ends(r, "agent_error") /\ Release({r}) /\ UNCHANGED spent
       \/ /\ Gate(FALSE)
          /\ \E cost \in 0..MaxCost : spent' = [spent EXCEPT ![r] = cost]
          /\ pc' = [pc EXCEPT ![r] = "running"]
          /\ UNCHANGED <<rows, lease>>
    /\ UNCHANGED <<verdict, ledger, stopping, days>>

\* backend.run returned and the metrics were collected: the spend they tell,
\* nothing when the agent was killed, is booked at once, before the solution
\* is extracted and scored.
AgentEnds(r) ==
    /\ pc[r] = "running"
    /\ \E why \in Reasons :
          /\ verdict' = [verdict EXCEPT ![r] = why]
          /\ \/ Book(r, spent[r])
             \/ why \in Degraded /\ Book(r, 0)
    /\ pc' = [pc EXCEPT ![r] = "scoring"]
    /\ UNCHANGED <<spent, rows, lease, stopping, days>>

\* Mutant of AgentRaises: the lease is not released on the way out.
AgentRaisesHolding(r) ==
    /\ pc[r] = "running"
    /\ Ends(r, "agent_error")
    /\ UNCHANGED <<verdict, spent, ledger, lease, stopping, faults, days>>

\* backend.run or collect_metrics raises, against their contract.
AgentRaises(r) ==
    /\ pc[r] = "running"
    /\ Ends(r, "agent_error") /\ Release({r})
    /\ UNCHANGED <<verdict, spent, ledger, stopping, faults, days>>

\* The solution is scored and the row written, or that raises.
Score(r) ==
    /\ pc[r] = "scoring"
    /\ Ends(r, verdict[r]) \/ \E why \in Degraded : Ends(r, why)
    /\ Release({r})
    /\ UNCHANGED <<verdict, spent, ledger, stopping, faults, days>>

\* The outer wall-clock envelope expires: an agent must be stopped first.
Envelope(r) ==
    /\ TimeLimit
    /\ \/ /\ pc[r] \in {"leased", "scoring"}
          /\ Ends(r, "timeout") /\ Release({r})
          /\ UNCHANGED verdict
       \/ /\ pc[r] = "running"
          /\ pc' = [pc EXCEPT ![r] = "unwinding"]
          /\ verdict' = [verdict EXCEPT ![r] = "timeout"]
          /\ UNCHANGED <<rows, lease>>
    /\ UNCHANGED <<spent, ledger, stopping, faults, days>>

\* Mutant of Unwind: a cancelled run is recorded as an error.
UnwindWithRow(r) ==
    /\ pc[r] = "unwinding"
    /\ Release({r})
    /\ Ends(r, IF verdict[r] = "timeout" THEN "timeout" ELSE "agent_error")
    /\ UNCHANGED <<verdict, spent, ledger, stopping, faults, days>>

\* The backend has stopped the agent of a run that timed out or was cancelled.
Unwind(r) ==
    /\ pc[r] = "unwinding"
    /\ Release({r})
    /\ \/ verdict[r] = "timeout" /\ Ends(r, "timeout")
       \/ /\ verdict[r] = "cancelled"
          /\ pc' = [pc EXCEPT ![r] = "ended"]
          /\ UNCHANGED rows
    /\ UNCHANGED <<verdict, spent, ledger, stopping, faults, days>>

\* Ctrl-C cancels the evaluation's gather and so each of its tasks at its await.
Interrupt ==
    LET stopped == {r \in Runs : pc[r] \in {"running", "unwinding"}}
        over == {r \in Runs : pc[r] = "ended"}
    IN  /\ ~stopping /\ stopping' = TRUE
        /\ pc' = [r \in Runs |-> IF r \in stopped THEN "unwinding" ELSE "ended"]
        /\ verdict' = [r \in Runs |-> IF r \in over THEN verdict[r] ELSE "cancelled"]
        /\ Release(Holding \ stopped)
        /\ UNCHANGED <<spent, rows, ledger, faults, days>>

\* Midnight: the ledger of the new day is empty.
NewDay ==
    /\ days < MaxDays /\ days' = days + 1 /\ today' = 0
    /\ UNCHANGED <<pc, verdict, spent, booked, rows, lease, stopping, faults>>

Execution(r) ==
    \/ Admit(r) \/ Acquire(r) \/ Start(r)
    \/ AgentEnds(r) \/ AgentRaises(r) \/ Score(r)
    \/ Envelope(r) \/ Unwind(r)

Next == (\E r \in Runs : Execution(r)) \/ Interrupt \/ NewDay

Spec == Init /\ [][Next]_vars

\* The event loop runs every execution that can go on.
FairSpec == Spec /\ \A r \in Runs : WF_vars(Execution(r))

-----------------------------------------------------------------------------
(* Properties.                                                             *)

\* Every variable keeps its type.
TypeOK ==
    /\ pc \in [Runs -> Where] /\ verdict \in [Runs -> Verdicts]
    /\ spent \in [Runs -> 0..MaxCost] /\ booked \in [Runs -> 0..MaxCost]
    /\ rows \in [Runs -> Seq(Reasons \cup {"budget_denied"})]
    /\ free \in 0..MaxDocker /\ inflight \subseteq Runs /\ scratch \subseteq Runs
    /\ today \in Nat
    /\ stopping \in BOOLEAN /\ faults \in 0..MaxFaults /\ days \in 0..MaxDays

\* concurrency.py: every exit path of an execution gives its slot back, leaves
\* the registry and removes the scratch directory, and none does so twice: at
\* most MaxDocker agents live at a time and, once all executions are over,
\* shutdown_sweep finds nothing.
LeasesAreAccounted ==
    /\ inflight = Holding /\ scratch = Holding
    /\ free + Cardinality(inflight) = MaxDocker

\* budget.py: there is no in-run stop, so runs admitted against the same total
\* overshoot the day's headroom; by the runs that hold a slot, not by those
\* that wait for one, and by one run for each fault of the ledger.
OvershootIsBounded == today <= Headroom - 1 + MaxCost * (MaxDocker + faults)

\* solver.py: an execution that is not cancelled writes one telemetry row
\* however it ends, and a cancelled one none.
OneRowPerExecution ==
    \A r \in Runs : Len(rows[r]) = IF pc[r] = "ended" /\ verdict[r] # "cancelled" THEN 1 ELSE 0

Over == {r \in Runs : pc[r] = "ended"}
HasDegradedRow(r) == \E n \in DOMAIN rows[r] : rows[r][n] \in Degraded
Unbooked == Cardinality(UNION {{r} \X ((booked[r] + 1)..spent[r]) : r \in Over})
DegradedRows == {r \in Over : HasDegradedRow(r)}

\* budget.py: what the ledger misses of the true spend, counted by units, is at
\* most one run for each degraded row, each execution that was cancelled and
\* each ledger fault; a run that completed is booked whatever happens to it afterwards.
UndercountIsBounded ==
    Unbooked <= MaxCost * (Cardinality(DegradedRows) + faults
                             + Cardinality({r \in Over : verdict[r] = "cancelled"}))

\* Under a time limit every execution ends, however the agent hangs and
\* whatever the others do.
EveryExecutionEnds == \A r \in Runs : <>(pc[r] = "ended")

=============================================================================
