---------------------------- MODULE EvalProcess ----------------------------
(***************************************************************************)
(* How a benchmark runs a candidate's solve(): integrations/               *)
(* _subprocess_utils.py and the four harnesses built on it (co_bench,      *)
(* text_classification, openevolve, arc_agi), with the llm() and           *)
(* llm_batch() of core/llm_helpers.py inside the child.                    *)
(*                                                                         *)
(* An evaluation forks one child per piece of work, at most Workers of     *)
(* them at once, and a thread of the parent waits for each.  The child     *)
(* counts its model calls in a tracker it hands over with its result, and  *)
(* appends each one to a log shared by every child of the run.  A child    *)
(* that is killed takes its tracker with it: the parent then adds up the   *)
(* lines of the log that the child wrote since it was started.             *)
(*                                                                         *)
(* One call costs one token.  The kernel may hand out the identifier of a  *)
(* dead child again once it is reaped, which every start, look and join    *)
(* of a process does, before what it spent is read.  Two pairs of adjacent *)
(* lines are one step: the snapshot of the log with the fork, and the look *)
(* at a live child with the kill that follows it.                          *)
(***************************************************************************)
EXTENDS Integers, Sequences, FiniteSets, FiniteSetsExt

CONSTANTS Kinds,       \* "tracked": solve() is given llm(), as an instance of co_bench or a
                       \* chunk of text_classification; "program": openevolve; "attempts": arc_agi
          FileOf,      \* FileOf[c]: the case file of the c-th piece of work
          LoadFailed,  \* case files whose load_data() fails: they have no instance
          DevMaps,     \* dev maps: for some files, the instances the search is scored on
          Workers,     \* threads of the pool
          Pids,        \* process identifiers the kernel hands out, over and over
          Forkers,     \* bound: the pieces of work whose solve() may fork, for one call
          MaxBatch,    \* prompts of one llm_batch()
          MaxCalls     \* bound: MaxCalls[c] calls of the child of the c-th piece of work

ASSUME EvalAssumption ==
    /\ Kinds \subseteq {"tracked", "program", "attempts"}
    /\ IsFiniteSet(DOMAIN FileOf) /\ IsFiniteSet(Pids) /\ IsFiniteSet(LoadFailed)
    /\ \A dev \in DevMaps : IsFiniteSet(DOMAIN dev)
    /\ Workers \in Nat \ {0} /\ Pids \subseteq Nat \ {0} /\ Workers <= Cardinality(Pids)
    /\ MaxBatch \in Nat \ {0} /\ \A c \in DOMAIN FileOf : MaxCalls[c] \in Nat
    /\ 0 \notin DOMAIN FileOf  \* a line of the log by none of the children is by 0

VARIABLES kind,    \* the harness that runs
          logs,    \* is an inner log configured?
          child,   \* child[c]: a child process and the parent's thread that waits for it
          log,     \* the shared inner log: the identifier each line is signed with and,
                   \* as history, which child wrote it and the children it is an heir of
          total,   \* the usage the evaluation has added up
          folded   \* pieces of work whose answer has been taken into account

config == <<kind, logs>>
vars == <<config, child, log, total, folded>>

Children == DOMAIN FileOf
Files == {FileOf[c] : c \in Children} \cup LoadFailed

Alive(x) == x.proc \in {"young", "running", "handing", "handed"}

\* heirOf (history): the children whose identifier a process got after their death
\* and before what they spent was read.
Unstarted == [work |-> "queued", proc |-> "none", pid |-> 0, heirOf |-> {}, from |-> 0,
              asked |-> 0, answered |-> 0, noted |-> 0,
              forked |-> FALSE,
              pipe |-> "empty", item |-> [status |-> "error", use |-> 0],
              late |-> FALSE, delivered |-> FALSE, usage |-> 0]

Init == /\ kind \in Kinds
        /\ logs \in (IF kind = "tracked" THEN BOOLEAN ELSE {FALSE})
        /\ child = [c \in Children |-> Unstarted]
        /\ log = << >>
        /\ total = 0
        /\ folded = {}

Becomes(c, x) == child' = [child EXCEPT ![c] = x]

Busy == {c \in Children : child[c].work \notin {"queued", "returned"}}

\* The identifiers that dead children left while it is still to be read what they
\* spent, and those children.
Left == {child[c].pid : c \in {d \in Busy : ~ Alive(child[d])}}
Taken == {child[c].pid : c \in {d \in Children : Alive(child[d])}}
HeirOf(pid) == {c \in Busy : child[c].pid = pid}

\* One that no child not answered for has or had: which of them does not matter.
Fresh == Min(Pids \ {child[c].pid : c \in Busy})

\* A call is logged by a process that signs with pid; by is the child, or 0.
Logs(by, pid, heirOf) ==
    log' = IF logs THEN Append(log, [by |-> by, pid |-> pid, heirOf |-> heirOf]) ELSE log

(***************************************************************************)
(* The child.                                                              *)
(***************************************************************************)
\* setsid(): from here on the child leads a process group of its own.
Detach(c) ==
    /\ child[c].proc = "young"
    /\ Becomes(c, [child[c] EXCEPT !.proc = "running"])
    /\ UNCHANGED <<config, log, total, folded>>

\* solve() calls llm() with one prompt or llm_batch() with several.
Ask(c) ==
    LET x == child[c]
    IN  /\ kind = "tracked" /\ x.proc = "running" /\ x.asked + x.answered = 0
        /\ \E n \in 1..MaxBatch : /\ x.noted + n <= MaxCalls[c]
                                  /\ Becomes(c, [x EXCEPT !.asked = n])
        /\ UNCHANGED <<config, log, total, folded>>

Answer(c) ==
    LET x == child[c]
    IN  /\ x.proc = "running" /\ x.asked > 0
        /\ Becomes(c, [x EXCEPT !.asked = @ - 1, !.answered = @ + 1])
        /\ UNCHANGED <<config, log, total, folded>>

\* One call fails: its batch cancels the others, and keeps what was answered.
CallFails(c) ==
    LET x == child[c]
    IN  /\ x.proc = "running" /\ x.asked > 0
        /\ Becomes(c, [x EXCEPT !.asked = 0])
        /\ UNCHANGED <<config, log, total, folded>>

\* The batch has settled: each answered call goes to the tracker and to the log, in
\* one step, as a child killed between the two takes the tracker with it.
RecordAndLog(c) ==
    LET x == child[c]
    IN  /\ x.proc = "running" /\ x.asked = 0 /\ x.answered > 0
        /\ Becomes(c, [x EXCEPT !.answered = @ - 1, !.noted = @ + 1])
        /\ Logs(c, x.pid, x.heirOf)
        /\ UNCHANGED <<config, total, folded>>

\* A process that solve() forked, or one that it forked in turn, calls the model with
\* its own copy of llm(), under an identifier that a dead child left: a line with any
\* other counts for nobody, and is left out.  One that took a session of its own does
\* so also when the child is dead.  Without a log nothing is made of it.
ForkCalls(c) ==
    LET x == child[c]
    IN  /\ c \in Forkers /\ kind = "tracked" /\ logs /\ ~ x.forked
        /\ x.proc \in {"running", "handing", "handed", "dead"}
        /\ Becomes(c, [x EXCEPT !.forked = TRUE])
        /\ \E pid \in Left \ Taken : Logs(0, pid, HeirOf(pid))
        /\ UNCHANGED <<config, total, folded>>

\* What a target puts on its queue once solve() is over: the usage of a solve()
\* that was given llm() goes with it, after an error too.
TrackedItems(x) == [status : {"ok", "error"}, use : {x.noted}]

\* A program that ran may have been given the evaluator's failure sentinel.
ProgramItems == [status : {"ok", "sentinel", "error"}, use : {0}]

\* Only a module that cannot be loaded is an error: an attempt that fails is wrong.
AttemptsItems == [status : {"ok", "error"}, use : {0}]

Items(x) == CASE kind = "tracked"  -> TrackedItems(x)
              [] kind = "program"  -> ProgramItems
              [] kind = "attempts" -> AttemptsItems

Finish(c) ==
    LET x == child[c]
    IN  /\ x.proc = "running" /\ x.asked + x.answered = 0
        /\ \E i \in Items(x) : Becomes(c, [x EXCEPT !.proc = "handing", !.item = i])
        /\ UNCHANGED <<config, log, total, folded>>

\* The feeder thread of the queue has written the whole result to the pipe.
HandOver(c) ==
    /\ child[c].proc = "handing"
    /\ Becomes(c, [child[c] EXCEPT !.proc = "handed", !.pipe = "result"])
    /\ UNCHANGED <<config, log, total, folded>>

\* The child ends: after its result is in the pipe, or without one (a crash, an
\* exit of solve()'s own, a result that cannot be pickled).
Exit(c) ==
    /\ Alive(child[c])
    /\ Becomes(c, [child[c] EXCEPT !.proc = "dead"])
    /\ UNCHANGED <<config, log, total, folded>>

\* The child dies while its feeder thread writes.
Tear(c) ==
    /\ child[c].proc = "handing"
    /\ Becomes(c, [child[c] EXCEPT !.proc = "dead", !.pipe = "part"])
    /\ UNCHANGED <<config, log, total, folded>>

(***************************************************************************)
(* The parent's thread: run_process_with_timeout().                        *)
(***************************************************************************)
SnapshotLogOffset == Len(log)

\* The pool takes the pieces of work in the order they were submitted.  Starting a
\* process reaps the dead ones first, whose identifiers it may get.
Start(c) ==
    /\ child[c].work = "queued" /\ \A d \in 1..(c - 1) : child[d].work # "queued"
    /\ Cardinality(Busy) < Workers
    /\ \E pid \in {Fresh} \cup (Left \ Taken) :
          Becomes(c, [child[c] EXCEPT !.work = "polling", !.proc = "young",
                                      !.pid = pid, !.heirOf = HeirOf(pid),
                                      !.from = SnapshotLogOffset])
    /\ UNCHANGED <<config, log, total, folded>>

\* A get of the queue returns the result or, with only a part of it in the pipe,
\* blocks for good: the parent holds the writing end of the pipe too.
Read(x) == IF x.pipe = "result" THEN [x EXCEPT !.work = "joining", !.delivered = TRUE]
           ELSE [x EXCEPT !.work = "stuck"]

Get(c) ==
    /\ child[c].work = "polling" /\ child[c].pipe # "empty"
    /\ Becomes(c, Read(child[c]))
    /\ UNCHANGED <<config, log, total, folded>>

GetsNothing(c) ==
    /\ child[c].work = "polling" /\ child[c].pipe = "empty"
    /\ Becomes(c, [child[c] EXCEPT !.work = "empty"])
    /\ UNCHANGED <<config, log, total, folded>>

\* Nothing came: the loop goes on while the child is alive, and gives the pipe a
\* last chance once it is not.
LooksAtChild(c) ==
    LET x == child[c]
    IN  /\ x.work = "empty"
        /\ Becomes(c, [x EXCEPT !.work = IF Alive(x) THEN "polling" ELSE "final"])
        /\ UNCHANGED <<config, log, total, folded>>

\* Mutant of FinalGet: the code before its last get, which gave up on the spot.
FinalGetOmitted(c) ==
    /\ child[c].work = "final"
    /\ Becomes(c, [child[c] EXCEPT !.work = "over"])
    /\ UNCHANGED <<config, log, total, folded>>

FinalGet(c) ==
    LET x == child[c]
    IN  /\ x.work = "final"
        /\ Becomes(c, IF x.pipe = "empty" THEN [x EXCEPT !.work = "over"] ELSE Read(x))
        /\ UNCHANGED <<config, log, total, folded>>

\* Mutant of Expire: the loop looks at its deadline only when it sees the child dead.
ExpireOnDeath(c) ==
    /\ child[c].work = "polling" /\ ~ Alive(child[c])
    /\ Becomes(c, [child[c] EXCEPT !.work = "over", !.late = TRUE])
    /\ UNCHANGED <<config, log, total, folded>>

\* The deadline passes: the loop ends unless it has seen the child dead.
Expire(c) ==
    /\ child[c].work = "polling" \/ (child[c].work = "empty" /\ Alive(child[c]))
    /\ Becomes(c, [child[c] EXCEPT !.work = "over", !.late = TRUE])
    /\ UNCHANGED <<config, log, total, folded>>

\* _kill_process_tree(), terminate() and kill() end the child.  What it forked goes
\* with its process group or, in a session of its own, stays: ForkCalls.
Killed(x) == [x EXCEPT !.proc = "dead"]

\* The loop is over without a result: a live child is reaped.
Reap(c) ==
    LET x == child[c]
    IN  /\ x.work = "over"
        /\ Becomes(c, [(IF Alive(x) THEN Killed(x) ELSE x) EXCEPT !.work = "reaped"])
        /\ UNCHANGED <<config, log, total, folded>>

\* Mutant of UsageFromLogSince: the lines of an earlier child with the same pid count.
UsageFromLog(x) == Cardinality({k \in 1..Len(log) : log[k].pid = x.pid})

UsageFromLogSince(x) == Cardinality({k \in (x.from + 1)..Len(log) : log[k].pid = x.pid})

\* on_timeout / on_no_result: an error, with what the log, if there is one, says the
\* child spent.
ReportFailure(c) ==
    LET x == child[c]
    IN  /\ x.work = "reaped"
        /\ Becomes(c, [x EXCEPT !.work = "returned",
                                !.usage = IF kind = "tracked" THEN UsageFromLogSince(x) ELSE 0])
        /\ UNCHANGED <<config, log, total, folded>>

\* The result is in hand: the child is joined, and reaped if it lingers.
ReturnResult(c) ==
    LET x == child[c]
    IN  /\ x.work = "joining"
        /\ Becomes(c, [(IF Alive(x) THEN Killed(x) ELSE x)
                          EXCEPT !.work = "returned", !.usage = x.item.use])
        /\ UNCHANGED <<config, log, total, folded>>

(***************************************************************************)
(* The evaluation: every answer is waited for, whatever it is.             *)
(***************************************************************************)
Ran(x) == x.delivered /\ x.item.status # "error"

\* Mutant of ChunkUsage: a failed chunk raises a plain error, without its usage.
ChunkUsageOfSuccess(x) == IF Ran(x) THEN x.usage ELSE 0

\* A failed chunk raises a _ChunkError that carries its usage.
ChunkUsage(x) == x.usage

Fold(c) ==
    LET x == child[c]
    IN  /\ x.work = "returned" /\ c \notin folded
        /\ total' = total + ChunkUsage(x)
        /\ folded' = folded \cup {c}
        /\ UNCHANGED <<config, child, log>>

Done == folded = Children

ChildStep(c) == Detach(c) \/ Ask(c) \/ Answer(c) \/ CallFails(c) \/ RecordAndLog(c) \/ ForkCalls(c)
                    \/ Finish(c) \/ HandOver(c) \/ Exit(c) \/ Tear(c)

ParentStep(c) == Start(c) \/ Get(c) \/ GetsNothing(c) \/ LooksAtChild(c) \/ FinalGet(c)
                    \/ Reap(c) \/ ReportFailure(c) \/ ReturnResult(c) \/ Fold(c)

Next == \E c \in Children : ChildStep(c) \/ ParentStep(c) \/ Expire(c)

\* Nothing is assumed of the child: solve() may run for ever.  The parent's threads
\* are scheduled, and the clock reaches the deadline.
Spec == /\ Init /\ [][Next]_vars
        /\ \A c \in Children : WF_vars(ParentStep(c)) /\ WF_vars(Expire(c))

(***************************************************************************)
(* The score.  e[c] is the entry of a piece of work: the value that came   *)
(* back, or Failed, the error text that stands in its place.  Averages are *)
(* compared as multiples of 1 / Scale.                                     *)
(***************************************************************************)
Scale == 12
Failed == -1

\* A sum of natural numbers is the number of their units, told apart.
Units(n) == UNION {{x} \X (1..n[x]) : x \in DOMAIN n}

InstancesOf(f) == {c \in Children : FileOf[c] = f}
IndexOf(c) == Cardinality({d \in InstancesOf(FileOf[c]) : d < c})

\* The instances of a file that count in a split; an empty list of dev instances
\* stands for the first one.
Selected(split, dev, f) ==
    IF f \notin DOMAIN dev THEN InstancesOf(f)
    ELSE LET devSet == IF dev[f] = {} THEN {0} ELSE dev[f]
         IN  {c \in InstancesOf(f) : (IndexOf(c) \in devSet) <=> (split = "dev")}

\* The files that enter the average of a split, those with an error included.
CaseFiles(split, dev, errors) ==
    {f \in IF split = "dev" /\ DOMAIN dev # {} THEN DOMAIN dev ELSE Files :
        f \notin DOMAIN dev \/ Selected(split, dev, f) # {} \/ f \in errors}

MeanOver(e, cs) ==
    IF cs = {} THEN 0
    ELSE (Scale * Cardinality(Units([c \in cs |-> IF e[c] = Failed THEN 0 ELSE e[c]])))
            \div Cardinality(cs)

\* Mutant of Mean: what did not run is left out of the mean of its file.
MeanOfSuccesses(e, cs) == MeanOver(e, {c \in cs : e[c] # Failed})

\* A failed instance is an error text among the scores, and counts as a zero.
Mean(e, cs) == MeanOver(e, cs)

AverageScore(e, split, dev, errors) ==
    LET files == CaseFiles(split, dev, errors)
    IN  IF files = {} THEN 0
        ELSE Cardinality(Units([f \in files |-> IF f \in errors THEN 0
                                                ELSE Mean(e, Selected(split, dev, f))]))
                \div Cardinality(files)

\* One failed chunk voids the evaluation; otherwise the share of right cases.
ChunksScore(e) ==
    IF \E c \in Children : e[c] = Failed THEN 0 ELSE MeanOver(e, Children)

\* A crash and a failure sentinel both score the floor.
ProgramScore(x, v) == IF Ran(x) /\ x.item.status # "sentinel" THEN v ELSE 0

\* A pair of grids counts once, whichever of its two attempts is right.
PassAt2(right) == IF right # {} THEN 1 ELSE 0

AttemptsScore(x, right) == IF Ran(x) THEN PassAt2(right) ELSE 0

(***************************************************************************)
(* Properties.                                                             *)
(***************************************************************************)
TypeOK ==
    /\ kind \in Kinds /\ logs \in BOOLEAN
    /\ child \in [Children -> [work : {"queued", "polling", "empty", "final", "over", "reaped",
                                       "joining", "stuck", "returned"},
                               proc : {"none", "young", "running", "handing", "handed", "dead"},
                               pid : Pids \cup {0}, heirOf : SUBSET Children, from : Nat,
                               asked : 0..MaxBatch, answered : 0..MaxBatch, noted : Nat,
                               forked : BOOLEAN,
                               pipe : {"empty", "result", "part"},
                               item : [status : {"ok", "sentinel", "error"}, use : Nat],
                               late : BOOLEAN, delivered : BOOLEAN, usage : Nat]]
    /\ log \in Seq([by : Children \cup {0}, pid : Pids \cup {0}, heirOf : SUBSET Children])
    /\ total \in Nat
    /\ folded \subseteq Children

\* The lines of the log by processes that got the identifier of c after c was dead,
\* before what c spent was read.
Strays(c) == {k \in 1..Len(log) : c \in log[k].heirOf}

\* What a piece of work reports is what its own child had on record when it ended,
\* and nothing appended before the child was dead is missed: neither a concurrent
\* sibling's calls count nor those of an earlier process with its identifier.  Only
\* an heir's may, one that got the identifier while the report was still to be made.
UsageIsTheChildsOwn ==
    \A c \in Children :
        child[c].work = "returned" =>
            IF child[c].delivered \/ logs
            THEN /\ child[c].noted <= child[c].usage
                 /\ child[c].usage <= child[c].noted + Cardinality(Strays(c))
                 /\ child[c].delivered => child[c].usage = child[c].noted
            ELSE child[c].usage = 0

\* The evaluation reports at most what its children spent and, once for each child
\* it is an heir of, what an heir did.  It reports no more than one batch less for
\* each child that handed over no result, the answers that child had received but
\* not recorded; without a log, all that child spent.
LossIsBounded ==
    Done => LET spent == Units([c \in Children |-> child[c].noted + child[c].answered])
                mute == {c \in Children : ~ child[c].delivered}
                lost == IF logs THEN MaxBatch * Cardinality(mute)
                        ELSE Cardinality({u \in spent : u[1] \in mute})
            IN  /\ total <= Cardinality(spent) + Cardinality(UNION {{c} \X Strays(c) : c \in mute})
                /\ Cardinality(spent) - total <= lost

\* A result that a child has handed over is what the evaluation gets, unless the
\* deadline passed first: a child that ends between two looks of the parent is not
\* reported as one that returned nothing.
ResultIsNotMissed ==
    \A c \in Children :
        child[c].work = "returned" /\ child[c].pipe = "result" => child[c].delivered \/ child[c].late

\* No score is had for nothing. A piece of work that failed never earns more than
\* it would have earned by running, whatever its value had been and whatever the
\* others returned; and an instance the search is scored on is not part of the
\* held-out score, although each is part of one of the two.
FailuresNeverPay ==
    Done => \A c \in Children, vals \in [Children -> {0, 1}] :
        LET e == [d \in Children |-> IF Ran(child[d]) THEN vals[d] ELSE Failed]
            healed == [e EXCEPT ![c] = vals[c]]
        IN  CASE kind = "tracked"  ->
                    /\ \A dev \in DevMaps, split \in {"dev", "test"}, errors \in {LoadFailed, Files} :
                          AverageScore(e, split, dev, errors)
                              <= AverageScore(healed, split, dev, errors)
                    /\ ChunksScore(e) <= ChunksScore(healed)
              [] kind = "program"  -> ProgramScore(child[c], vals[c]) <= vals[c]
              [] kind = "attempts" -> ~ Ran(child[c]) => AttemptsScore(child[c], {1, 2}) = 0

DevStaysOutOfTest ==
    Done /\ kind = "tracked" =>
        \A dev \in DevMaps : \A f \in DOMAIN dev :
            /\ Selected("dev", dev, f) \cap Selected("test", dev, f) = {}
            /\ Selected("dev", dev, f) \cup Selected("test", dev, f) = InstancesOf(f)

NothingIsEarnedByFailing == FailuresNeverPay /\ DevStaysOutOfTest

\* A piece of work is answered, whatever its child does, unless the child died while
\* it was writing its result: the thread that reads the torn result never comes back,
\* and what is queued behind such threads is never started.
OnlyATornResultBlocks ==
    <>(\/ \A c \in Children : child[c].work \in {"returned", "stuck"}
       \/ Cardinality({c \in Children : child[c].work = "stuck"}) >= Workers)
============================================================================
