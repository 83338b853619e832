---------------------------- MODULE TelemetryRows ----------------------------
(***************************************************************************)
(* The rows of telemetry/agent_runs.jsonl: who writes one, under which     *)
(* run_id, which later row replaces it, and what a reader then counts.     *)
(* A candidate is gated task by task, its gate traces are reused by the    *)
(* evaluation, and their rows are written a second time as "eval" rows.    *)
(* The process can be killed anywhere; a resumed process rebuilds its      *)
(* index from the file and executes the candidate again.                   *)
(*                                                                         *)
(* A row stands for the fields the readers group by; the file is what its  *)
(* readers get from it, the last readable row of every run_id.             *)
(***************************************************************************)
EXTENDS Integers, FiniteSets, Sequences, FiniteSetsExt

CONSTANTS
    Tasks,          \* the tasks of the benchmark
    MaxCandidates,  \* bound: candidates a run proposes
    GateN,          \* tasks a gate check samples
    Confs,          \* the settings a run may have, a set of Settings
    Outcomes,       \* how an execution can end, a set of Endings
    Parallel,       \* config.parallel: width of the evaluation's semaphore
    MaxKills,       \* bound: kills of the process
    MaxFaults,      \* bound: appends that fail
    NoRow, NoTrace  \* model values

\* gate_repeats, eval_repeats, eval_repeats_gate_topup; a protect_floor?
Settings == [gateR: 1..2, evalR: 1..2, topup: BOOLEAN, protect: BOOLEAN]

\* A backend's stop that was scored, or one of the degraded finishers, which
\* score nothing. "timeout" stands for the six faults of _DEGRADED_TERMINATED_BY.
Endings ==
    [tb: {"completed", "max_turns", "timeout"}, ok: BOOLEAN, unscored: {FALSE}]
    \cup [tb: {"timeout", "agent_error"}, ok: {FALSE}, unscored: {TRUE}]

ASSUME RowsAssumption ==
    /\ Confs \subseteq Settings /\ Outcomes \subseteq Endings
    /\ IsFiniteSet(Tasks) /\ Tasks # {}
    /\ MaxCandidates \in Nat \ {0} /\ Parallel \in Nat \ {0}
    /\ GateN \in 1..Max({1, Cardinality(Tasks) \div 2})
    /\ MaxKills \in Nat /\ MaxFaults \in Nat

VARIABLES
    conf,      \* gate_repeats, eval_repeats, top-up and protect_floor of this run
    view,      \* the last readable row of each run_id in the file
    torn,      \* does the file end in a fragment without a newline?
    seen,      \* _seen_run_ids
    degraded,  \* _degraded_run_ids
    gateRows,  \* _gate_rows: the gate rows that can still be restamped
    cand,      \* the candidate being resolved
    pc,        \* "propose", "gate" or "eval"
    queue,     \* gate tasks left, the one being gated first
    gated,     \* traces of the gate check, by task: did the run succeed?
    cleared,   \* has a gate task cleared?
    repeatIx,  \* solver.repeat_index, one attribute for all the tasks
    job,       \* evaluation of each task
    stamping,  \* the task whose gate rows are being restamped, or NoTrace
    evaluated, \* candidates whose evaluation ended
    ran,       \* executions of the current candidate: run and successful ones
    counted,   \* the same, summed over the evaluated candidates
    executed,  \* the same, summed over all the candidates since the last kill
    kills, faults, lost

mem  == <<seen, degraded, gateRows>>
disk == <<view, torn, lost, faults>>
ctl  == <<cand, pc, queue, gated, cleared>>
hist == <<evaluated, ran, counted, executed>>
vars == <<conf, view, torn, seen, degraded, gateRows, cand, pc, queue, gated,
          cleared, repeatIx, job, stamping, evaluated, ran, counted, executed,
          kills, faults, lost>>

Candidates == 1..MaxCandidates
Repeats    == 0..1

\* TerminatedBy, up to what the rows tell apart.
Terminations == {"completed", "max_turns", "timeout", "agent_error"}
DegradedBy   == {"timeout"}

Row == [phase: {"gate", "eval"}, tb: Terminations, ok: BOOLEAN]

\* Mutant of RunId: the task is not hashed.
RunIdTaskless(c, t, phase, r) == <<c, CHOOSE x \in Tasks : TRUE, phase, r>>

\* compute_run_id: a hash of the coordinates, the phase and the repeat.
RunId(c, t, phase, r) == <<c, t, phase, r>>
Ids == Candidates \X Tasks \X {"gate", "eval"} \X Repeats

\* _finish_control_scoring: the verdict corrects a clean stop, never a fault.
Settled(o) ==
    IF o.unscored \/ o.tb \in DegradedBy THEN o.tb
    ELSE IF o.ok THEN "completed"
    ELSE IF o.tb = "completed" THEN "agent_error" ELSE o.tb

RowOf(phase, o) == [phase |-> phase, tb |-> Settled(o), ok |-> o.ok]

-----------------------------------------------------------------------------
(* Appending a line *)

Faults == {"none"} \cup (IF faults < MaxFaults THEN {"nothing", "partial"} ELSE {})

\* flock_append_bytes under LLMIOLogger.log, which swallows every error. A line
\* appended after a fragment is glued to it and no reader can decode it.
Log(id, row, fault) ==
    LET readable == fault = "none" /\ ~torn
    IN  /\ view' = IF readable THEN [view EXCEPT ![id] = row] ELSE view
        /\ torn' = (fault = "partial" \/ (fault = "nothing" /\ torn))
        /\ lost' = IF readable THEN lost ELSE lost + 1
        /\ faults' = IF fault = "none" THEN faults ELSE faults + 1

\* A finished re-execution replaces a row that a fault left.
Supersedes(id, row, marked) ==
    /\ id \in marked
    /\ row.tb \notin DegradedBy
    /\ row.ok \/ row.tb = "completed"

\* _append_run, after _finish_degraded marked the run_id of an unscored row.
AppendRun(id, o, fault) ==
    LET row    == RowOf(id[3], o)
        marked == IF o.unscored THEN degraded \cup {id} ELSE degraded
        writes == id \notin seen \/ Supersedes(id, row, marked)
        ofCoord == [i \in Ids |-> IF i[1] = id[1] THEN gateRows[i] ELSE NoRow]
    IN  /\ degraded' = IF id \in seen /\ writes THEN marked \ {id} ELSE marked
        /\ seen' = seen \cup {id}
        /\ gateRows' = IF writes /\ id[3] = "gate" THEN [ofCoord EXCEPT ![id] = row]
                       ELSE gateRows
        /\ IF writes THEN Log(id, row, fault)
           ELSE fault = "none" /\ UNCHANGED disk

\* Mutant of Restampable: only the first repeat of a gate task is restamped.
RestampableFirst(t) ==
    {id \in Ids : id[1] = cand /\ id[2] = t /\ id[4] = 0 /\ gateRows[id] # NoRow}

\* The buffered rows restamp_reused_gate finds for a task.
Restampable(t) == {id \in Ids : id[1] = cand /\ id[2] = t /\ gateRows[id] # NoRow}

Clone(row) == [row EXCEPT !.phase = "eval"]

-----------------------------------------------------------------------------
(* The gate check *)

NoJob    == [st |-> "todo", r |-> 0, id |-> NoRow, oks |-> {}]
Idle     == [t \in Tasks |-> NoJob]
NotGated == [t \in Tasks |-> NoTrace]
Plus(sum, ok) == [n |-> sum.n + 1, ok |-> sum.ok + (IF ok THEN 1 ELSE 0)]
Count(ok) == ran' = Plus(ran, ok) /\ executed' = Plus(executed, ok)
Zero     == [n |-> 0, ok |-> 0]

\* A candidate's gate tasks are sampled, in the order they will be solved.
BeginGate ==
    /\ pc = "propose" /\ cand \in Candidates
    /\ \E s \in [1..GateN -> Tasks] :
          /\ \A i, k \in 1..GateN : s[i] = s[k] => i = k
          /\ queue' = s
    /\ pc' = "gate" /\ gated' = NotGated /\ cleared' = FALSE
    /\ job' = Idle /\ ran' = Zero
    /\ UNCHANGED <<conf, disk, mem, cand, repeatIx, stamping, evaluated, counted, executed, kills>>

\* The gate's answer on its current task: the gate accepts at the first task
\* that clears, or, with a floor to protect, at the end; harm rejects at once.
GateVerdicts(ok) ==
    {"fails"} \cup (IF ok THEN {"clears"} ELSE {}) \cup (IF conf.protect THEN {"harms"} ELSE {})

Reject  == pc' = "propose" /\ cand' = cand + 1 /\ queue' = <<>>
Accept  == pc' = "eval" /\ cand' = cand /\ queue' = <<>>
NextGateTask == pc' = "gate" /\ cand' = cand /\ queue' = Tail(queue)

GateDecides(t, ok, verdict) ==
    LET any == cleared \/ verdict = "clears"
    IN  /\ gated' = [gated EXCEPT ![t] = ok]
        /\ cleared' = any
        /\ CASE verdict = "harms" -> Reject
             [] verdict = "clears" /\ ~conf.protect -> Accept
             [] OTHER -> IF Len(queue) > 1 THEN NextGateTask
                         ELSE IF conf.protect /\ any THEN Accept ELSE Reject

\* One gate solve; the last of a task's repeats gives the trace its median.
GateSample(o, fault) ==
    /\ pc = "gate"
    /\ LET t  == Head(queue)
           id == RunId(cand, t, "gate", repeatIx)
           oks == job[t].oks \cup {o.ok}
       IN  /\ AppendRun(id, o, fault)
           /\ Count(o.ok)
           /\ IF repeatIx + 1 < conf.gateR
              THEN /\ repeatIx' = repeatIx + 1
                   /\ job' = [job EXCEPT ![t].oks = oks]
                   /\ UNCHANGED ctl
              ELSE /\ repeatIx' = 0
                   /\ job' = [job EXCEPT ![t].oks = {}]
                   /\ \E ok \in oks : \E v \in GateVerdicts(ok) : GateDecides(t, ok, v)
    /\ UNCHANGED <<conf, stamping, evaluated, counted, kills>>

-----------------------------------------------------------------------------
(* The evaluation: every task of its own, up to Parallel executing *)

Running == {t \in Tasks : job[t].st = "running"}

\* A gated task is not solved again: its rows are restamped first.
Reuse(t) ==
    /\ pc = "eval" /\ stamping = NoTrace
    /\ job[t].st = "todo" /\ gated[t] # NoTrace
    /\ stamping' = t
    /\ UNCHANGED <<conf, disk, mem, ctl, repeatIx, job, hist, kills>>

RestampOne(id, fault) ==
    /\ stamping # NoTrace /\ id \in Restampable(stamping)
    /\ gateRows' = [gateRows EXCEPT ![id] = NoRow]
    /\ Log(id, Clone(gateRows[id]), fault)
    /\ UNCHANGED <<conf, seen, degraded, ctl, repeatIx, job, stamping, hist, kills>>

\* With a top-up the gate trace is sample 0 of the task's repeats.
Restamped ==
    /\ stamping # NoTrace /\ Restampable(stamping) = {}
    /\ job' = [job EXCEPT ![stamping] =
                 IF conf.topup /\ conf.evalR > 1
                 THEN [NoJob EXCEPT !.st = "ready", !.r = 1, !.oks = {gated[stamping]}]
                 ELSE [NoJob EXCEPT !.st = "done"]]
    /\ stamping' = NoTrace
    /\ UNCHANGED <<conf, disk, mem, ctl, repeatIx, hist, kills>>

\* One sample starts: the repeat is stamped on the shared solver and read by
\* start_record before anything is awaited.
StartSample(t) ==
    /\ pc = "eval" /\ stamping = NoTrace
    /\ job[t].st = "ready" \/ (job[t].st = "todo" /\ gated[t] = NoTrace)
    /\ Cardinality(Running) < Parallel
    /\ repeatIx' = IF conf.evalR > 1 THEN job[t].r ELSE repeatIx
    /\ job' = [job EXCEPT ![t].st = "running", ![t].id = RunId(cand, t, "eval", repeatIx')]
    /\ UNCHANGED <<conf, disk, mem, ctl, stamping, hist, kills>>

FinishSample(t, o, fault) ==
    /\ pc = "eval" /\ stamping = NoTrace /\ job[t].st = "running"
    /\ AppendRun(job[t].id, o, fault)
    /\ Count(o.ok)
    /\ IF job[t].r + 1 < conf.evalR
       THEN /\ job' = [job EXCEPT ![t] = [@ EXCEPT !.st = "ready", !.r = @ + 1, !.id = NoRow]]
            /\ UNCHANGED repeatIx
       ELSE /\ job' = [job EXCEPT ![t] = [NoJob EXCEPT !.st = "done"]]
            /\ repeatIx' = 0
    /\ UNCHANGED <<conf, ctl, stamping, evaluated, counted, kills>>

EndEvaluation ==
    /\ pc = "eval" /\ \A t \in Tasks : job[t].st = "done"
    /\ pc' = "propose" /\ cand' = cand + 1
    /\ evaluated' = evaluated \cup {cand}
    /\ counted' = [n |-> counted.n + ran.n, ok |-> counted.ok + ran.ok]
    /\ job' = Idle /\ ran' = Zero /\ gated' = NotGated
    /\ UNCHANGED <<conf, disk, mem, queue, cleared, repeatIx, stamping, executed, kills>>

\* A kill, and the writer of the resumed process: the index is read from the
\* file, the buffer is empty, and the candidate at work is proposed again.
KillAndResume ==
    /\ pc \in {"gate", "eval"} /\ kills < MaxKills
    /\ kills' = kills + 1
    /\ seen' = {id \in Ids : view[id] # NoRow}
    /\ degraded' = {id \in seen' : view[id].tb \in DegradedBy}
    /\ gateRows' = [id \in Ids |-> NoRow]
    /\ pc' = "propose" /\ queue' = <<>> /\ gated' = NotGated /\ cleared' = FALSE
    /\ job' = Idle /\ ran' = Zero /\ executed' = Zero
    /\ repeatIx' = 0 /\ stamping' = NoTrace
    /\ UNCHANGED <<conf, disk, cand, evaluated, counted>>

Init ==
    /\ conf \in Confs
    /\ view = [id \in Ids |-> NoRow] /\ torn = FALSE
    /\ seen = {} /\ degraded = {} /\ gateRows = view
    /\ cand = 1 /\ pc = "propose" /\ queue = <<>> /\ gated = NotGated /\ cleared = FALSE
    /\ repeatIx = 0 /\ job = Idle /\ stamping = NoTrace
    /\ evaluated = {} /\ ran = Zero /\ counted = Zero /\ executed = Zero
    /\ kills = 0 /\ faults = 0 /\ lost = 0

Next ==
    \/ BeginGate
    \/ \E o \in Outcomes, f \in Faults : GateSample(o, f)
    \/ \E t \in Tasks : Reuse(t) \/ StartSample(t)
    \/ \E id \in Ids, f \in Faults : RestampOne(id, f)
    \/ Restamped
    \/ \E t \in Tasks, o \in Outcomes, f \in Faults : FinishSample(t, o, f)
    \/ EndEvaluation
    \/ KillAndResume

Spec == Init /\ [][Next]_vars

-----------------------------------------------------------------------------
(* What the readers make of it: load_runs keeps the last row of a run_id,   *)
(* fair_comparison drops the gate rows.                                     *)

EvalRows == {id \in Ids : view[id] # NoRow /\ view[id].phase = "eval"}

FairComparison ==
    [n |-> Cardinality(EvalRows), ok |-> Cardinality({id \in EvalRows : view[id].ok})]

\* read_agent_run_rows: the newest row of every run_id, of whatever phase.
ReadAgentRunRows == {id \in Ids : view[id] # NoRow}

\* aggregate_agent_rows, up to what a row stands for.
AggregateAgentRows(ids) ==
    [n |-> Cardinality(ids), ok |-> Cardinality({id \in ids : view[id].ok}),
     by |-> [tb \in Terminations |-> Cardinality({id \in ids : view[id].tb = tb})]]

\* The rollup of a candidate's summary.json, and that of the run.
CandidateRollup(c) == AggregateAgentRows({id \in ReadAgentRunRows : id[1] = c})
RunLevelRollup == AggregateAgentRows(ReadAgentRunRows)
-----------------------------------------------------------------------------
(* Properties *)

\* Every variable has the values the code gives it: rows under their run_ids,
\* one job per task, and a repeat index an execution can really be stamped with.
TypeOK ==
    /\ conf \in Confs
    /\ view \in [Ids -> Row \cup {NoRow}] /\ gateRows \in [Ids -> Row \cup {NoRow}]
    /\ torn \in BOOLEAN /\ seen \subseteq Ids /\ degraded \subseteq seen
    /\ cand \in 1..(MaxCandidates + 1) /\ pc \in {"propose", "gate", "eval"}
    /\ queue \in UNION {[1..n -> Tasks] : n \in 0..GateN}
    /\ gated \in [Tasks -> BOOLEAN \cup {NoTrace}] /\ cleared \in BOOLEAN
    /\ repeatIx \in Repeats
    /\ job \in [Tasks -> [st: {"todo", "ready", "running", "done"}, r: Repeats,
                          id: Ids \cup {NoRow}, oks: SUBSET BOOLEAN]]
    /\ stamping \in Tasks \cup {NoTrace} /\ evaluated \subseteq Candidates
    /\ kills \in 0..MaxKills /\ faults \in 0..MaxFaults /\ lost \in Nat

\* Between two candidates of a run that was never killed and lost no line, the
\* comparison counts every execution of an evaluated candidate once, with its
\* success: the reused gate runs among them, whatever their repeats, and no
\* gate run of a rejected one (restamp_reused_gate, fair_comparison).
ComparisonIsExact ==
    pc = "propose" /\ kills = 0 /\ lost = 0 => FairComparison = counted

\* Between two candidates of a run that was never killed, the rollup of the run
\* counts every execution once, those of rejected gates too: a gate row restamped
\* for the evaluation keeps its run_id. A failed append hides its own line and,
\* when it left a fragment, the one that is glued to it, never more
\* (flock_append_bytes, read_agent_run_rows). Nothing lost, the rollups of the
\* evaluated candidates add up to what these executed and, killed, resumed and
\* executed again or not, have a row for each of the tasks: a duplicate is only
\* dropped for a row that is there (_append_run's index).
RollupsCountEveryRun ==
    /\ pc = "propose" /\ kills = 0 =>
          /\ RunLevelRollup.n <= executed.n /\ executed.n <= RunLevelRollup.n + 2 * faults
          /\ lost = 0 =>
                /\ RunLevelRollup.ok = executed.ok
                /\ counted = [n  |-> MapThenSumSet(LAMBDA c : CandidateRollup(c).n, evaluated),
                              ok |-> MapThenSumSet(LAMBDA c : CandidateRollup(c).ok, evaluated)]
    /\ lost = 0 => \A c \in evaluated, t \in Tasks :
                       \E id \in ReadAgentRunRows : id[1] = c /\ id[2] = t
=============================================================================
