---------------------------- MODULE Consolidation ----------------------------
(***************************************************************************)
(* Breeding under --consolidate: every child of a generation is given one  *)
(* focus task, inherits the archive's best trace of every other task       *)
(* frozen, and solves only the rest.  Two things are reconstructed from    *)
(* the depths that traces carry: the focus a deeper layer inherits under   *)
(* within_task_recursion, and the verdict of analysis/depth_attribution    *)
(* on whether a chain worked one task repeatedly.                          *)
(*                                                                         *)
(* The archive is the value of ArchiveOps.  A candidate keeps two trace    *)
(* maps: all, one trace per task as stored, and traces, the finite ones    *)
(* that make its per_task_scores.  Token counts, the text of prompts and   *)
(* resumption are not modelled here.                                       *)
(***************************************************************************)
EXTENDS ArchiveOps

CONSTANTS
    Outcomes,           \* what solving a task once can give
    SeedDraws,          \* bound: the draws of the seed for a task, its own first
    Modes,              \* the flags of the run: see ModeAssumption
    MaxIterations,      \* --max-iterations
    BeamWidth,          \* --beam-width
    BeamCandidates,     \* --beam-candidates
    MaxDepth,           \* --max-depth
    Ceiling,            \* score_scale()["hi"], None when the scale has none
    BarsFocus,          \* whether the verified-code check may bar the focus
    MaxTraces,          \* max_total of sample_traces
    TraceBudget,        \* traces that fit the token budget, all of one size
    MaxRepresentative,  \* max_representative of a deep prompt
    MaxInspiration      \* max_traces of get_inspiration_traces

ASSUME ModeAssumption ==
    Modes \subseteq [deepen  : BOOLEAN,   \* within_task_recursion
                     guard   : BOOLEAN,   \* regression_guard
                     current : BOOLEAN]   \* focus_current_headroom

ASSUME OutcomeAssumption ==
    LET Outcome == [ok : BOOLEAN, score : Int, script : BOOLEAN, finite : BOOLEAN]
    IN  Outcomes \subseteq Outcome /\ SeedDraws \subseteq Seq(Outcome) \ {<<>>}

ASSUME BoundAssumption ==
    /\ {MaxIterations, MaxDepth, MaxTraces, TraceBudget,
        MaxRepresentative, MaxInspiration} \subseteq Nat
    /\ BeamWidth \in Nat \ {0} /\ BeamCandidates \in Nat \ {0}
    /\ Ceiling \in Int \cup {None} /\ BarsFocus \in BOOLEAN

VARIABLES
    mode,       \* the flags
    base,       \* _base_focus_scores: tasks with a finite draw of the seed |-> median
    ar,         \* the archive
    iteration,  \* the generation under way
    parents,    \* its parents
    targets,    \* its consolidation targets
    slot,       \* children of it still to breed
    prompt,     \* what Omega was last shown
    waits       \* history: the tasks tied lowest at the last generation, and how
                \* long each has been among them, they staying the same, untargeted

vars == <<mode, base, ar, iteration, parents, targets, slot, prompt, waits>>

TaskSeq == SetToSortSeq(Tasks, <)

AtMost(n, m) == IF n < m THEN n ELSE m

-----------------------------------------------------------------------------
(* The seed, its floor and its focus scores.                               *)

FiniteTraces(all) == [t \in {u \in DOMAIN all : all[u].finite} |-> all[t]]

\* The trace a solve at some depth stores.
Solved(outcome, depth) ==
    [ok |-> outcome.ok, score |-> outcome.score, script |-> outcome.script,
     finite |-> outcome.finite, depth |-> depth]

NewCandidate(parent, depth, all, focus, solved) ==
    [parent |-> parent, depth |-> depth, routed |-> FALSE, all |-> all,
     traces |-> FiniteTraces(all), mean |-> MeanOf(FiniteTraces(all)),
     focus |-> focus,                                  \* the task it was given
     solved |-> {t \in solved : all[t].finite}]        \* history: what it scored itself

FiniteDraws(draws) == SelectSeq(draws, LAMBDA o : o.finite)

\* median-of-R: the upper median of the finite draws' scores.
Median(draws) ==
    LET sorted == SortSeq([i \in DOMAIN draws |-> draws[i].score], <)
    IN  sorted[(Len(sorted) \div 2) + 1]

\* Best-of-R: the first draw no other draw outranks.
BestDraw(draws) ==
    LET top == {i \in DOMAIN draws : \A j \in DOMAIN draws : AtLeast(draws[i], draws[j])}
    IN  Solved(draws[Min(top)], 1)

NoPrompt == [focus |-> None, deep |-> FALSE, sampled |-> <<>>, shown |-> <<>>,
             inspiration |-> <<>>, parent |-> None]

Init ==
    \E m \in Modes, draws \in [Tasks -> SeedDraws] :
       LET first == [t \in Tasks |-> Solved(draws[t][1], 1)]
           added == Add(EmptyArchive, SeedId,
                        NewCandidate(None, 1, first, None, Tasks), {})
           drawn == [t \in {u \in Tasks : FiniteDraws(draws[u]) # <<>>} |->
                        FiniteDraws(draws[t])]
       IN  /\ mode = m
           /\ IF m.guard
              THEN /\ ar = SetBaseFloor(added, [t \in DOMAIN drawn |-> BestDraw(drawn[t])])
                   /\ base = [t \in DOMAIN drawn |-> Median(drawn[t])]
              ELSE ar = added /\ base = <<>>
           /\ iteration = 0 /\ parents = <<>> /\ targets = <<>> /\ slot = 0
           /\ prompt = NoPrompt
           /\ waits = [group |-> {}, untried |-> [t \in Tasks |-> 0]]

-----------------------------------------------------------------------------
(* The targets of a generation.                                            *)

DenoisedBase(t) == IF t \in DOMAIN base THEN base[t] ELSE 0

\* A task that has improved past its floor ranks at its current best.
EffectiveScore(t) ==
    IF \/ ar.ptb[t] = None
       \/ ar.floor[t] # None /\ ar.ptb[t].score <= ar.floor[t].score
    THEN DenoisedBase(t)
    ELSE IF ar.ptb[t].score > DenoisedBase(t) THEN ar.ptb[t].score ELSE DenoisedBase(t)

\* Without the guard, or without a denoised score, all the tasks tie.
FocusScore(t) ==
    IF ~mode.guard \/ DOMAIN base = {} THEN 0
    ELSE IF mode.current THEN EffectiveScore(t) ELSE DenoisedBase(t)

Tied(score) == SelectSeq(TaskSeq, LAMBDA t : FocusScore(t) = score)

\* Mutant of Rotated: ties go to the first in task-id order.
RotatedNever(group, i) == group

\* A group of equals, rotated by the generation.
Rotated(group, i) ==
    LET off == (i * BeamCandidates) % Len(group)
    IN  SubSeq(group, off + 1, Len(group)) \o SubSeq(group, 1, off)

\* Lowest score first; the n first are this generation's targets.
ConsolidationTargets(i) ==
    LET scores == SetToSortSeq({FocusScore(t) : t \in Tasks}, <)
        ranked == FoldLeft(LAMBDA out, score : out \o Rotated(Tied(score), i), <<>>, scores)
    IN  SubSeq(ranked, 1, AtMost(BeamCandidates, Len(ranked)))

LowestTied == ToSet(Tied(Min({FocusScore(t) : t \in Tasks})))

-----------------------------------------------------------------------------
(* Which traces are a candidate's own.                                     *)

\* split_candidate_mean: the scored tasks whose trace has the candidate's depth.
FreshTasks(c) == {t \in DOMAIN c.traces : c.all[t].depth = c.depth}

\* Mutant of Focus: the parent's focus is never inherited.
FocusRoundRobin(parent, k) == targets[(k % Len(targets)) + 1]

\* The focus of the k-th child of a parent: under within_task_recursion the
\* one task the parent solved fresh, unless that task is saturated.
Focus(parent, k) ==
    LET roundRobin == targets[(k % Len(targets)) + 1]
        fresh == FreshTasks(parent)
        own == CHOOSE t \in fresh : TRUE
    IN  IF ~mode.deepen \/ Cardinality(fresh) # 1 THEN roundRobin
        ELSE IF Ceiling # None /\ parent.traces[own].score >= Ceiling THEN roundRobin
        ELSE own

\* ancestry_chain: from the seed to a candidate, by id.
AncestryChain(id) ==
    LET Up(chain, n) == IF ar.cand[Head(chain)].parent = None THEN chain
                        ELSE <<ar.cand[Head(chain)].parent>> \o chain
    IN  FoldLeft(Up, <<id>>, [n \in 1..MaxDepth |-> n])

\* In how many layers below the seed the chain solved a task fresh.
DeepMultiplicity(chain, t) ==
    Cardinality({ar.cand[x].depth : x \in {y \in ToSet(chain) :
                    /\ ar.cand[y].depth > ar.cand[Head(chain)].depth
                    /\ t \in FreshTasks(ar.cand[y])}})

\* The probe passes a chain that no router layer dominates (the layers'
\* classes are not modelled: all are taken to be within-task ones).
ProbePasses(id) ==
    /\ ar.cand[id].depth >= 3
    /\ \E t \in Tasks : DeepMultiplicity(AncestryChain(id), t) >= 2

-----------------------------------------------------------------------------
(* What a child inherits.                                                  *)

\* The depth of the trace behind a per-task best: its winner solved it.
BestDepth(t) == ar.cand[ar.ptb[t].by].all[t].depth

\* Mutant of FrozenDepth: the producing depth is kept.
FrozenDepthKept(t, childDepth) == BestDepth(t)

\* The clamp that keeps an inherited trace from looking fresh.
FrozenDepth(t, childDepth) ==
    IF mode.deepen THEN AtMost(BestDepth(t), childDepth - 1) ELSE BestDepth(t)

FrozenTrace(t, childDepth) ==
    Solved([ok |-> ar.ptb[t].ok, score |-> ar.ptb[t].score,
            script |-> ar.ptb[t].script, finite |-> TRUE], FrozenDepth(t, childDepth))

\* Mutant of Inherited: the traces of the archive-best candidate.
InheritedFromBest(focus, childDepth) ==
    [t \in {u \in Tasks \ {focus} : ar.cand[ar.best].all[u].script} |->
        [ar.cand[ar.best].all[t] EXCEPT !.depth = AtMost(@, childDepth - 1)]]

\* Every task but the focus whose best can be deployed.
Inherited(focus, childDepth) ==
    [t \in {u \in Tasks \ {focus} : ar.ptb[u] # None /\ ar.ptb[u].script} |->
        FrozenTrace(t, childDepth)]

-----------------------------------------------------------------------------
(* What Omega is shown of the parent.                                      *)

\* The first of a sequence with the greatest value.
FirstMost(s, Value(_)) ==
    LET most == {i \in DOMAIN s : \A j \in DOMAIN s : Value(s[i]) >= Value(s[j])}
    IN  s[Min(most)]

\* rng.sample when there are more than n, else all in their order.
Draws(s, n) ==
    IF Len(s) <= n THEN {s} ELSE {d \in [1..n -> ToSet(s)] : IsInjective(d)}

\* sample_traces: three failures to one success at most, failures first, and
\* what exceeds the token budget leaves from the back.
SampledTraces(c) ==
    LET failures  == SelectSeq(TaskSeq, LAMBDA t : ~c.all[t].ok)
        successes == SelectSeq(TaskSeq, LAMBDA t : c.all[t].ok)
        nf == AtMost(Len(failures), (3 * MaxTraces) \div 4)
        ns == AtMost(Len(successes), MaxTraces - nf)
    IN  {SubSeq(f \o s, 1, AtMost(Len(f \o s), TraceBudget)) :
            f \in Draws(failures, nf), s \in Draws(successes, ns)}

\* previous_scores: the seed's at depth 2, else the grandparent's, when any.
PreviousTraces(parent) ==
    ar.cand[IF parent.parent = None THEN SeedId ELSE parent.parent].traces

\* The traces a deep prompt keeps: the focus, a failure of the commonest kind,
\* the biggest regression, the best success.  Kinds of failure are not told
\* apart: any failure can stand for the commonest.
Representative(c, sampled, previous, focus) ==
    LET failures  == SelectSeq(sampled, LAMBDA t : ~c.all[t].ok)
        successes == SelectSeq(sampled, LAMBDA t : c.all[t].ok)
        Loss(t)   == (IF t \in DOMAIN previous THEN previous[t].score ELSE 0) - c.all[t].score
        Score(t)  == c.all[t].score
        lost      == SelectSeq(sampled, LAMBDA t : c.all[t].finite /\ Loss(t) > 0)
        Opt(s, Value(_)) == IF s = <<>> THEN <<>> ELSE <<FirstMost(s, Value)>>
        AddNew(s, t) == IF Contains(s, t) THEN s ELSE Append(s, t)
        Picks(f)  == FoldLeft(AddNew, <<>>,
                        (IF Contains(sampled, focus) THEN <<focus>> ELSE <<>>)
                        \o f \o Opt(lost, Loss) \o Opt(successes, Score))
    IN  {SubSeq(Picks(f), 1, AtMost(Len(Picks(f)), MaxRepresentative)) :
            f \in IF failures = <<>> THEN {<<>>} ELSE {<<t>> : t \in ToSet(failures)}}

\* Whether the archive's best of a task is worth showing to a parent.
Inspires(id, t) ==
    LET c == ar.cand[id]
    IN  /\ ar.ptb[t] # None /\ ar.ptb[t].by # id
        /\ IF t \in DOMAIN c.traces THEN ar.ptb[t].score > c.traces[t].score
           ELSE ar.ptb[t].score # 0

\* get_inspiration_traces: the biggest gaps, in task order among equals.
Inspiration(id) ==
    LET c == ar.cand[id]
        Gap(t) == ar.ptb[t].score - (IF t \in DOMAIN c.traces THEN c.traces[t].score ELSE 0)
        some == SetToSortSeq({t \in Tasks : Inspires(id, t)},
                             LAMBDA t, u : Gap(t) > Gap(u) \/ (Gap(t) = Gap(u) /\ t < u))
    IN  SubSeq(some, 1, AtMost(Len(some), MaxInspiration))

\* The prompts Omega may be given for a child of a candidate.
Prompts(id, focus) ==
    LET c == ar.cand[id]
        previous == PreviousTraces(c)
        deep == c.depth + 1 >= 3 /\ DOMAIN previous # {}
    IN  UNION {{[focus |-> focus, deep |-> deep, sampled |-> sampled, shown |-> shown,
                 inspiration |-> Inspiration(id), parent |-> id] :
                   shown \in IF deep THEN Representative(c, sampled, previous, focus)
                             ELSE {sampled}} : sampled \in SampledTraces(c)}

-----------------------------------------------------------------------------
(* The loop.                                                               *)

\* A generation starts: its parents and its targets.
StartGeneration ==
    /\ slot = 0 /\ iteration < MaxIterations
    /\ LET pool == BreedablePool(ar, MaxDepth)
       IN  pool # {} /\ parents' \in ParentChoices(ar, BeamWidth, pool)
    /\ iteration' = iteration + 1
    /\ targets' = ConsolidationTargets(iteration + 1)
    /\ slot' = 1
    /\ prompt' = NoPrompt
    /\ waits' = [group   |-> LowestTied,
                 untried |-> [t \in Tasks |->
                     IF t \notin LowestTied \/ t \in ToSet(targets') THEN 0
                     ELSE IF waits.group = LowestTied THEN waits.untried[t] + 1 ELSE 1]]
    /\ UNCHANGED <<mode, base, ar>>

\* Omega is asked for the focus (an answer without code is bred all the same:
\* the focus is sampled again), the child inherits the rest and is archived.
Breed ==
    /\ slot > 0
    /\ LET b == (slot - 1) \div BeamCandidates
           k == (slot - 1) % BeamCandidates
           id == parents[b + 1]
           parent == ar.cand[id]
           depth == parent.depth + 1
           focus == Focus(parent, k)
           inherited == Inherited(focus, depth)
           unsolved == Tasks \ DOMAIN inherited
       IN  /\ prompt' \in Prompts(id, focus)
           /\ \E outcome \in [unsolved -> Outcomes],
                 bar \in IF BarsFocus THEN {{}, {focus}} ELSE {{}} :
                 LET all == [t \in Tasks |-> IF t \in unsolved THEN Solved(outcome[t], depth)
                                             ELSE inherited[t]]
                 IN  ar' = Add(ar, <<iteration, b, k>>,
                               NewCandidate(id, depth, all, focus, unsolved), bar)
    /\ slot' = IF slot = BeamWidth * BeamCandidates THEN 0 ELSE slot + 1
    /\ UNCHANGED <<mode, base, iteration, parents, targets, waits>>

Next == StartGeneration \/ Breed

Spec == Init /\ [][Next]_vars

-----------------------------------------------------------------------------
(* Properties.                                                             *)

\* The state has the shape the operations assume.
TypeOK ==
    /\ mode \in Modes /\ IsArchive(ar)
    /\ DOMAIN base \subseteq Tasks
    /\ iteration \in 0..MaxIterations /\ slot \in 0..(BeamWidth * BeamCandidates)
    /\ ToSet(parents) \subseteq DOMAIN ar.cand /\ ToSet(targets) \subseteq Tasks

\* Under within_task_recursion a layer bred on a layer that scored its focus
\* and nothing else works the same task, unless it is saturated: the focus
\* _within_task_focus recovers from trace depths is the one the parent had.
FocusIsInherited ==
    mode.deepen =>
    \A x \in DOMAIN ar.cand \ {SeedId} :
        LET p == ar.cand[ar.cand[x].parent]
        IN  (/\ p.parent # None /\ p.solved = {p.focus}
             /\ Ceiling # None => p.traces[p.focus].score < Ceiling)
            => ar.cand[x].focus = p.focus

\* A chain that within_task_verdict passes has two layers below the seed that
\* themselves scored one and the same task: the depths of inherited traces
\* never make up for it.  (Without within_task_recursion they do: a sibling's
\* trace of the child's own depth counts as the child's.)
VerdictIsEarned ==
    mode.deepen =>
    \A x \in DOMAIN ar.cand : ProbePasses(x) =>
        \E t \in Tasks :
            Cardinality({y \in ToSet(AncestryChain(x)) :
                            ar.cand[y].parent # None /\ t \in ar.cand[y].solved}) >= 2

\* When every task's best can be deployed, a child that improves one of them
\* brings the best mean to the oracle's: consolidation needs no merge.
ImprovementReachesTheOracle ==
    [][(/\ ar'.ptb # ar.ptb
        /\ \A t \in Tasks : ar.ptb[t] # None /\ ar.ptb[t].script)
       => BestMean(ar') >= OracleMean(ar')]_vars

\* Tasks that stay tied at the bottom take turns: none of g of them waits for
\* g / beam_candidates generations.  (_consolidation_targets: "none is starved".)
NoTaskIsStarved ==
    \A t \in waits.group : waits.untried[t] * BeamCandidates < Cardinality(waits.group)

\* The focus's own trace is among those a deep prompt shows, as the docstring
\* of _select_representative_traces has it ("FORCE-INCLUDE").
FocusIsShown == prompt.deep => Contains(prompt.shown, prompt.focus)
=============================================================================
