------------------------------- MODULE Archive -------------------------------
(***************************************************************************)
(* The life of one live archive: the seed is added, the regression guard   *)
(* installs its base floor, children are bred from the breedable pool and  *)
(* the end-of-run merge is assembled from the per-task bests.              *)
(* core/archive.py, with the callers in core/evolutionary_orchestrator.py. *)
(***************************************************************************)
EXTENDS ArchiveOps

CONSTANTS
    Outcomes,         \* what a solve of one task can end in: a set of traces
    ChildIds,         \* ids of the children the search may breed
    MergeId,          \* "merge_oracle"
    MaxDepth,         \* --max-depth
    RegressionGuard,  \* the regression_guard flag
    Resamples,        \* regression_guard_repeats - 1: fresh draws of the seed
    VerifiedCode      \* the verified_code flag

Ids == {SeedId, MergeId} \cup ChildIds

\* An entry of the per-task-best index.
PtbEntry == [ok : BOOLEAN, score : Int, script : BOOLEAN, by : Ids]

ASSUME ArchiveAssumption ==
    /\ Outcomes \subseteq Trace
    /\ IsFiniteSet(ChildIds)
    /\ MaxDepth \in Nat
    /\ RegressionGuard \in BOOLEAN
    /\ Resamples \in Nat
    /\ VerifiedCode \in BOOLEAN
    /\ SeedId \notin ChildIds \cup {MergeId}
    /\ MergeId \notin ChildIds
    /\ None \notin Ids
    /\ None \notin Trace \cup PtbEntry

VARIABLES
    ar,          \* the archive
    phase,       \* "seed", then "floor", then "breed"
    consolidate  \* the --consolidate flag the run was started with

vars == <<ar, phase, consolidate>>

Init ==
    /\ ar = EmptyArchive
    /\ phase = "seed"
    /\ consolidate \in BOOLEAN

\* What evaluating a candidate can produce: a trace for each task, of which the
\* tasks with a finite score are the domain.
Evaluations == UNION {[S -> Outcomes] : S \in SUBSET Tasks}

Candidate(parent, depth, traces) ==
    [parent |-> parent, iter |-> depth - 1, depth |-> depth, routed |-> FALSE,
     mean |-> MeanOf(traces), traces |-> traces]

\* Tasks whose trace ignored a verified helper; empty unless verified_code.
BarChoices == IF VerifiedCode THEN SUBSET Tasks ELSE {{}}

EvaluateSeed ==
    /\ phase = "seed"
    /\ \E traces \in Evaluations :
          ar' = Add(ar, SeedId, Candidate(None, 1, traces), {})
    /\ phase' = IF RegressionGuard THEN "floor" ELSE "breed"
    /\ UNCHANGED consolidate

EstablishBaseFloor ==
    /\ phase = "floor"
    /\ \E fl \in FloorChoices(Outcomes, Resamples, ar.cand[SeedId].traces) : ar' = SetBaseFloor(ar, fl)
    /\ phase' = "breed"
    /\ UNCHANGED consolidate

\* A child of a member of the breedable pool.
AddChild(id, parent) ==
    /\ phase = "breed"
    /\ id \notin DOMAIN ar.cand
    /\ parent \in BreedablePool(ar, MaxDepth)
    /\ \E traces \in Evaluations, bar \in BarChoices :
          ar' = Add(ar, id, Candidate(parent, ar.cand[parent].depth + 1, traces), bar)
    /\ UNCHANGED <<phase, consolidate>>

Merge ==
    /\ phase = "breed"
    /\ MergeId \notin DOMAIN ar.cand
    /\ CanMerge(ar, consolidate)
    /\ ar' = Add(ar, MergeId, MergedCandidate(ar, 0), {})
    /\ UNCHANGED <<phase, consolidate>>

Next ==
    \/ EvaluateSeed
    \/ EstablishBaseFloor
    \/ \E id \in ChildIds, parent \in DOMAIN ar.cand : AddChild(id, parent)
    \/ Merge

Spec == Init /\ [][Next]_vars

-----------------------------------------------------------------------------
(* Properties.                                                             *)

\* Every part of the archive has its type, and the best is an archived
\* candidate.
TypeOK ==
    /\ IsArchive(ar)
    /\ phase \in {"seed", "floor", "breed"}
    /\ consolidate \in BOOLEAN
    /\ DOMAIN ar.cand \subseteq Ids
    /\ \A id \in DOMAIN ar.cand :
          /\ DOMAIN ar.cand[id].traces \subseteq Tasks
          /\ \A t \in DOMAIN ar.cand[id].traces : ar.cand[id].traces[t] \in Trace
    /\ ar.best \in DOMAIN ar.cand \cup {None}
    /\ ar.ptb \in [Tasks -> PtbEntry \cup {None}]
    /\ ar.floor \in [Tasks -> Trace \cup {None}]
    /\ ar.bars \subseteq Ids \X Tasks

\* On the scales the regression guard was written for a crash scores 0 and a
\* solve that ran scores more and leaves a script.
Ordinary(tr) == IF tr.ok THEN tr.score > 0 /\ tr.script ELSE tr.score = 0

OrdinaryScale == \A o \in Outcomes : Ordinary(o)

\* The traces that compete to be the best of task t: those of the archived
\* candidates that no bar excludes, and the floor when it can be deployed.
Contenders(t) ==
    {ar.cand[id].traces[t] : id \in {x \in DOMAIN ar.cand :
        t \in DOMAIN ar.cand[x].traces /\ <<x, t>> \notin ar.bars}}
    \cup (IF ar.floor[t] # None /\ ar.floor[t].script THEN {ar.floor[t]} ELSE {})

\* per_task_best := max(all archived candidates, base floor): whatever the
\* order the candidates, the floor and the bars arrived in, no contender
\* outranks the entry, and the entry is missing only when there is none.
PerTaskBestDominates ==
    \A t \in Tasks :
        IF ar.ptb[t] = None THEN Contenders(t) = {}
        ELSE \A tr \in Contenders(t) : AtLeast(ar.ptb[t], tr)

\* The entry of a task is the trace of the candidate it names, which no bar
\* excludes, or the base floor under the seed's name: what is deployed and
\* reported for a task was really measured for it.
PerTaskBestIsAttributed ==
    \A t \in Tasks : ar.ptb[t] # None =>
        LET e == ar.ptb[t]
        IN  \/ /\ e.by \in DOMAIN ar.cand
               /\ t \in DOMAIN ar.cand[e.by].traces
               /\ <<e.by, t>> \notin ar.bars
               /\ e = Entry(ar.cand[e.by].traces[t], e.by)
            \/ /\ e.by = SeedId
               /\ ar.floor[t] # None
               /\ e = Entry(ar.floor[t], SeedId)

\* What a live archive deploys for a task never gets worse in a step.
PerTaskBestNeverDrops ==
    [][\A t \in Tasks : ar.ptb[t] # None =>
          ar.ptb'[t] # None /\ AtLeast(ar.ptb'[t], ar.ptb[t])]_vars

\* The merge closes the gap between the best chain and the oracle: it has the
\* oracle's mean, takes no task away from the chain that won it, and leaves a
\* reported best that is not below the reported oracle.  It is that best itself,
\* unless --consolidate forced it and a chain was already as good.
MergeDeploysTheOracle ==
    [][MergeId \notin DOMAIN ar.cand /\ MergeId \in DOMAIN ar.cand' =>
          /\ ar.cand'[MergeId].mean = OracleMean(ar)
          /\ ar.ptb' = ar.ptb
          /\ BestMean(ar') >= OracleMean(ar')
          /\ ar.best' # MergeId => consolidate /\ OracleMean(ar) <= BestMean(ar)]_vars

\* archive.py: set_base_floor RAISES the per-task-best index to at least that
\* floor, so the deployable best can never regress below what the base solver
\* alone achieves.
FloorIsRespected ==
    \A t \in Tasks :
        ar.floor[t] # None /\ ar.floor[t].script =>
            ar.ptb[t] # None /\ AtLeast(ar.ptb[t], ar.floor[t])
=============================================================================
