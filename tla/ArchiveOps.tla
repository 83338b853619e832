------------------------------ MODULE ArchiveOps ------------------------------
(***************************************************************************)
(* The evolutionary archive of Meta^n (core/archive.py) as a value and the *)
(* operations of class Archive as operators on that value.  The archive a  *)
(* process holds in memory, and the one --resume replays from disk, are    *)
(* two values built by the same operators.                                 *)
(*                                                                         *)
(* A candidate's traces are a function whose domain is the set of tasks it *)
(* has a FINITE score for: a task without a trace and a task whose trace   *)
(* scored NaN/inf are treated alike by every operation modelled here.      *)
(***************************************************************************)
EXTENDS Integers, Sequences, FiniteSets, SequencesExt

CONSTANTS
    Tasks,       \* the evaluated tasks: a set of naturals, sorted as task ids are
    MeanUnit,    \* means are integers in units of 1/MeanUnit
    SeedId,      \* "gen0_seed"
    None         \* Python's None

ASSUME TasksAssumption == Tasks \subseteq Nat /\ IsFiniteSet(Tasks)
ASSUME NoneAssumption == None \notin Int
ASSUME MeanUnitAssumption ==
    /\ MeanUnit \in Nat \ {0}
    /\ \A n \in 1..Cardinality(Tasks) : MeanUnit % n = 0

-----------------------------------------------------------------------------
(* Traces and their ranking.  A trace is [ok, score, script]: ok is the    *)
(* ran-vs-crashed channel, script whether there is a program to deploy.    *)

Trace == [ok : BOOLEAN, score : Int, script : BOOLEAN]

\* (success, score) compared as Python compares the tuple.
Better(a, b) == \/ a.ok /\ ~b.ok
                \/ (a.ok <=> b.ok) /\ a.score > b.score

AtLeast(a, b) == ~Better(b, a)

\* mean_score: over the finite traces, 0 when there is none.
MeanOf(traces) ==
    LET scores == [t \in DOMAIN traces |-> traces[t].score]
        n == Cardinality(DOMAIN traces)
    IN  IF n = 0 THEN 0 ELSE (MeanUnit * SumFunction(scores)) \div n

-----------------------------------------------------------------------------
(* The archive.                                                            *)
(*   cand   candidates in the archive, by id                               *)
(*   best   id of the candidate with the best mean, or None                *)
(*   ptb    per task: the best entry [ok, score, script, by], or None      *)
(*   floor  per task: the base floor's trace, or None                      *)
(*   bars   fired bars: pairs <<candidate id, task>>                       *)
(*   range  the frozen score range, or None                                *)

EmptyArchive ==
    [cand  |-> <<>>,
     best  |-> None,
     ptb   |-> [t \in Tasks |-> None],
     floor |-> [t \in Tasks |-> None],
     bars  |-> {},
     range |-> None]

\* A value with the six parts of an archive.
IsArchive(a) ==
    a = [cand |-> a.cand, best |-> a.best, ptb |-> a.ptb,
         floor |-> a.floor, bars |-> a.bars, range |-> a.range]

Entry(trace, id) ==
    [ok |-> trace.ok, score |-> trace.score, script |-> trace.script, by |-> id]

\* Mutant of TakesOver: the last writer wins.
TakesOverAlways(ar, t, trace, bar) ==
    /\ t \notin bar
    /\ ar.floor[t] # None => AtLeast(trace, ar.floor[t])

\* The filters a trace passes, in the order of the loop of add(), before it
\* becomes the per-task best.
TakesOver(ar, t, trace, bar) ==
    /\ t \notin bar
    /\ ar.floor[t] # None => AtLeast(trace, ar.floor[t])
    /\ ar.ptb[t] # None => Better(trace, ar.ptb[t])

Add(ar, id, c, bar) ==
    IF id \in DOMAIN ar.cand THEN ar
    ELSE [cand  |-> [x \in DOMAIN ar.cand \cup {id} |->
                        IF x = id THEN c ELSE ar.cand[x]],
          best  |-> IF ar.best = None \/ c.mean > ar.cand[ar.best].mean
                    THEN id ELSE ar.best,
          ptb   |-> [t \in Tasks |->
                        IF t \in DOMAIN c.traces /\ TakesOver(ar, t, c.traces[t], bar)
                        THEN Entry(c.traces[t], id) ELSE ar.ptb[t]],
          floor |-> ar.floor,
          bars  |-> ar.bars \cup {<<id, t>> : t \in bar \cap DOMAIN c.traces},
          range |-> ar.range]

\* Mutant of RaisedByFloor: a task without an entry is left without one.
RaisedOnlyIfPresent(ar, t, trace) ==
    /\ trace.script
    /\ ar.ptb[t] # None /\ trace.score > ar.ptb[t].score

\* fl: tasks with a finite floor |-> the floor's trace.  The index is raised on
\* the score alone, and only off a trace with a script.
RaisedByFloor(ar, t, trace) ==
    /\ trace.script
    /\ ar.ptb[t] = None \/ trace.score > ar.ptb[t].score

SetBaseFloor(ar, fl) ==
    [cand  |-> ar.cand,
     best  |-> ar.best,
     ptb   |-> [t \in Tasks |->
                   IF t \in DOMAIN fl /\ RaisedByFloor(ar, t, fl[t])
                   THEN Entry(fl[t], SeedId) ELSE ar.ptb[t]],
     floor |-> [t \in Tasks |-> IF t \in DOMAIN fl THEN fl[t] ELSE ar.floor[t]],
     bars  |-> ar.bars,
     range |-> ar.range]

\* The floor _establish_base_floor picks for a task: the seed's own trace, or a
\* fresh draw of the seed that outranks it (max keeps the first of equals).
Floors(outcomes, resamples, seedTraces, t) ==
    LET own == IF t \in DOMAIN seedTraces THEN {seedTraces[t]} ELSE {}
    IN  own \cup {o \in outcomes : resamples > 0 /\ \A s \in own : Better(o, s)}

\* A task has a floor when some draw scored.
FloorChoices(outcomes, resamples, seedTraces) ==
    {fl \in UNION {[S -> outcomes] : S \in SUBSET Tasks} :
        /\ DOMAIN seedTraces \subseteq DOMAIN fl
        /\ \A t \in DOMAIN fl : fl[t] \in Floors(outcomes, resamples, seedTraces, t)}

-----------------------------------------------------------------------------
(* Scores of the archive as a whole.                                       *)

BestMean(ar) == IF ar.best = None THEN 0 ELSE ar.cand[ar.best].mean

\* Mean of the per-task bests over ALL tasks, a missing one counting 0.
OracleMean(ar) ==
    LET score == [t \in Tasks |-> IF ar.ptb[t] = None THEN 0 ELSE ar.ptb[t].score]
    IN  (MeanUnit * SumFunction(score)) \div Cardinality(Tasks)

ScoreRange(ar) ==
    LET means == {ar.cand[x].mean : x \in DOMAIN ar.cand}
    IN  IF ar.range # None THEN ar.range
        ELSE IF means = {} THEN 0 ELSE Max(means) - Min(means)

Frozen(ar) == IF ar.range # None THEN ar ELSE [ar EXCEPT !.range = ScoreRange(ar)]

\* Winners of the per-task bests.
Sources(ar) == {ar.ptb[t].by : t \in {u \in Tasks : ar.ptb[u] # None}}

-----------------------------------------------------------------------------
(* Parent selection.                                                       *)

\* The archive-best, then the winner of each task in task-id order, each once.
EliteSeq(ar) ==
    LET won == SetToSortSeq({t \in Tasks : ar.ptb[t] # None}, <)
        AddOnce(s, x) == IF Contains(s, x) THEN s ELSE Append(s, x)
    IN  FoldLeft(AddOnce, IF ar.best = None THEN <<>> ELSE <<ar.best>>,
                 [i \in DOMAIN won |-> ar.ptb[won[i]].by])

\* tol is 5 percent of the score range; both sides are multiplied by 100.
Regressed(ar, c, parent) ==
    \/ 100 * c.mean < 100 * parent.mean - 5 * ScoreRange(ar)
    \/ \E t \in DOMAIN c.traces \cap DOMAIN parent.traces :
          100 * MeanUnit * c.traces[t].score
             < 100 * MeanUnit * parent.traces[t].score - 5 * ScoreRange(ar)

IsBreedable(ar, id) ==
    LET c == ar.cand[id]
    IN  \/ id \in ToSet(EliteSeq(ar))
        \/ c.parent \notin DOMAIN ar.cand     \* a seed, or an orphan
        \/ ~Regressed(ar, c, ar.cand[c.parent])

BreedablePool(ar, maxDepth) ==
    LET extendable == {x \in DOMAIN ar.cand :
                          ar.cand[x].depth < maxDepth /\ ~ar.cand[x].routed}
        pool     == {x \in extendable : IsBreedable(ar, x)}
        fallback == {x \in extendable :
                        ar.cand[x].parent = None \/ x \in ToSet(EliteSeq(ar))}
    IN  IF pool # {} THEN pool
        ELSE IF fallback # {} THEN fallback ELSE extendable

\* The possible results of select_parents(n): for n >= 2 the first n - 1 places
\* go to the elites of the pool, the rest is sampled with replacement.  Every
\* weight is positive, so every member of the pool can be drawn.
ParentChoices(ar, n, pool) ==
    LET elite    == SelectSeq(EliteSeq(ar), LAMBDA x : x \in pool)
        reserved == IF n >= 2 THEN SubSeq(elite, 1, IF Len(elite) < n - 1 THEN Len(elite) ELSE n - 1)
                    ELSE <<>>
    IN  {s \in [1..n -> pool] : \A i \in DOMAIN reserved : s[i] = reserved[i]}

-----------------------------------------------------------------------------
(* The end-of-run merge: a candidate that routes each task to its winner.  *)

\* force (the consolidate flag) lifts the gap gate and nothing else.
CanMerge(ar, force) ==
    /\ Cardinality(Tasks) > 1
    /\ Cardinality(Sources(ar)) > 1
    /\ force \/ 100 * (OracleMean(ar) - BestMean(ar)) > 5 * ScoreRange(ar)
    /\ \E t \in Tasks : ar.ptb[t] # None /\ ar.ptb[t].script

\* Mutant of MergedCandidate: the mean is taken over the routed tasks only.
MergedOverRouted(ar, iteration) ==
    LET routed == {t \in Tasks : ar.ptb[t] # None /\ ar.ptb[t].script}
        traces == [t \in routed |->
                      [ok |-> ar.ptb[t].ok, score |-> ar.ptb[t].score, script |-> TRUE]]
    IN  [parent |-> None, iter |-> iteration, depth |-> 2, routed |-> TRUE,
         mean   |-> MeanOf(traces), traces |-> traces]

MergedCandidate(ar, iteration) ==
    LET routed == {t \in Tasks : ar.ptb[t] # None /\ ar.ptb[t].script}
    IN  [parent |-> None, iter |-> iteration, depth |-> 2, routed |-> TRUE,
         mean   |-> OracleMean(ar),
         traces |-> [t \in routed |->
                        [ok |-> ar.ptb[t].ok, score |-> ar.ptb[t].score, script |-> TRUE]]]
=============================================================================
