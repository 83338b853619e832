------------------------------ MODULE SearchRun ------------------------------
(***************************************************************************)
(* The evolutionary search of Meta^n as a process that can be killed at    *)
(* any moment and started again with --resume: the loop of                 *)
(* EvolutionaryOrchestrator.run, what RunPersistence leaves on disk and in *)
(* which order, and how a resumed process reads it back.                   *)
(*                                                                         *)
(* One asyncio task runs the loop, so everything it does between two disk  *)
(* writes is one step; every disk write is a step, and a crash can fall    *)
(* before or after each.                                                   *)
(***************************************************************************)
EXTENDS ArchiveOps

CONSTANTS
    Evaluations,        \* what evaluating a candidate can give: a trace per task
    SeedEvaluations,    \* bound: what evaluating the seed can give
    MergeId,            \* "merge_oracle"
    MaxIterations,      \* --max-iterations
    BeamWidth,          \* --beam-width: parents of an iteration
    BeamCandidates,     \* --beam-candidates: children of a parent
    MaxDepth,           \* --max-depth
    Patience,           \* --patience
    EpsilonPermille,    \* 1000 times the epsilon of the improvement test
    RegressionGuard,    \* the regression_guard flag
    Resamples,          \* regression_guard_repeats - 1
    BarChoices,         \* what the verified-code check may bar; {{}} when off
    WithinLayerRefine,  \* the within_layer_refine flag
    Repropagation,      \* the repropagation flag
    DailyBudget,        \* whether a cost guard may halt the run
    MaxInterruptions,   \* bound: crashes and restarts of the process
    MaxLostCheckpoints  \* bound: checkpoint writes that fail

ASSUME SearchAssumption ==
    /\ Evaluations \subseteq [Tasks -> Trace] /\ SeedEvaluations \subseteq Evaluations
    /\ {MaxIterations, MaxDepth, Patience, EpsilonPermille, Resamples,
        MaxInterruptions, MaxLostCheckpoints} \subseteq Nat
    /\ BeamWidth \in Nat \ {0} /\ BeamCandidates \in Nat \ {0}
    /\ BarChoices \subseteq SUBSET Tasks /\ {} \in BarChoices

\* Names of candidates: see "Candidate ids".
Ids == Nat \X Nat \X Nat \X Nat

ASSUME IdsAssumption ==
    /\ SeedId = <<0, 0, 0, 0>>
    /\ MergeId \in Ids /\ MergeId[1] > MaxIterations /\ MergeId[4] = 0

\* None is no name, no trace, no entry of the per-task bests, no summary and no
\* candidate.
ASSUME NoValueAssumption ==
    /\ None \notin Ids
    /\ None \notin Trace
    /\ None \notin [ok : BOOLEAN, score : Int, script : BOOLEAN, by : Ids]
    /\ None \notin [parent : Ids \cup {None}, iter : Int, depth : Nat,
                    routed : BOOLEAN, mean : Int]
    /\ None \notin [parent : Ids \cup {None}, iter : Int, depth : Nat,
                    routed : BOOLEAN, mean : Int,
                    traces : UNION {[S -> Trace] : S \in SUBSET Tasks}]

VARIABLES
    ar,             \* the archive in memory
    loop,           \* the locals of run(): see Idle
    pc,             \* where the process is
    saving,         \* the candidate being written, and where the loop goes on
    dirs,           \* archive/<candidate id>/ on disk
    ckpt,           \* checkpoint.json, or None
    interruptions,  \* crashes and restarts so far
    lost,           \* checkpoint writes lost so far
    rewritten       \* history: a seed run over directories of an earlier run, or a
                    \* refined child or the merge bred again after a restart, was
                    \* written over what the disk had (or over more traces of a
                    \* merge than it writes)

memory == <<ar, loop, pc, saving>>
disk == <<dirs, ckpt>>
vars == <<ar, loop, pc, saving, dirs, ckpt, interruptions, lost, rewritten>>

-----------------------------------------------------------------------------
(* Candidate ids.  gen{i}_b{b}_k{k} is <<i, b, k, 0>>, its _refine has a   *)
(* last element 1 and its _reprop 2; the seed is <<0, 0, 0, 0>>, and the   *)
(* merge's name sorts after all of them.                                   *)

Slots == BeamWidth * BeamCandidates

\* The id of the child bred in slot n of iteration i.
ChildId(i, n) == <<i, (n - 1) \div BeamCandidates, (n - 1) % BeamCandidates, 0>>

Refined(id) == [id EXCEPT ![4] = 1]
Repropagated(id) == [id EXCEPT ![4] = 2]

\* Names sort as the tuples do.
NameBefore(x, y) ==
    \E n \in 1..4 : x[n] < y[n] /\ \A m \in 1..(n - 1) : x[m] = y[m]

-----------------------------------------------------------------------------
(* The disk.  A candidate directory is written summary first, traces next, *)
(* injected-code sidecars last, each file truncated and then written, and  *)
(* what an earlier save left is not deleted.  None is a truncated file.    *)
(*   sum    summary.json                                                   *)
(*   bars   its barred_from_best_task_ids                                  *)
(*   traces traces/<task>.json, by task                                    *)
(*   codes  injected_code_d<depth>.json, by depth: the candidate whose     *)
(*          chain it is a layer of                                         *)

NoDir == [sum |-> None, bars |-> {}, traces |-> <<>>, codes |-> <<>>]

DirOf(id) == IF id \in DOMAIN dirs THEN dirs[id] ELSE NoDir

Put(f, x, v) == [y \in DOMAIN f \cup {x} |-> IF y = x THEN v ELSE f[y]]

WriteDir(id, dir) == dirs' = Put(dirs, id, dir)

Summary(c) == [parent |-> c.parent, iter |-> c.iter, depth |-> c.depth,
               routed |-> c.routed, mean |-> c.mean]

\* The candidate rebuild_from_disk makes of a directory.
Loaded(dir) == [parent |-> dir.sum.parent, iter |-> dir.sum.iter, depth |-> dir.sum.depth,
                routed |-> dir.sum.routed, mean |-> dir.sum.mean, traces |-> dir.traces]

\* Those of the keys that name a file that can be read.
Readable(files, keys) == {k \in keys \cap DOMAIN files : files[k] # None}

\* Mutant of Loadable: one sidecar more is expected.
LoadableOffByOne ==
    {id \in DOMAIN dirs :
        /\ dirs[id].sum # None
        /\ Readable(dirs[id].traces, Tasks) = DOMAIN dirs[id].traces
        /\ Readable(dirs[id].codes, 1..dirs[id].sum.depth) = 1..dirs[id].sum.depth}

\* The directories rebuild_from_disk accepts: a readable summary, no trace
\* that cannot be read and, by the integrity check, a sidecar for each depth
\* from 2 to the summary's, whichever save wrote it.
Loadable ==
    {id \in DOMAIN dirs :
        /\ dirs[id].sum # None
        /\ Readable(dirs[id].traces, Tasks) = DOMAIN dirs[id].traces
        /\ Readable(dirs[id].codes, 2..dirs[id].sum.depth) = 2..dirs[id].sum.depth}

\* The element of a singleton (an argument bound this way is evaluated once).
OneOf(S) == CHOOSE x \in S : TRUE

\* The order of the replay: (iteration, name).
Before(x, y) ==
    \/ dirs[x].sum.iter < dirs[y].sum.iter
    \/ dirs[x].sum.iter = dirs[y].sum.iter /\ NameBefore(x, y)

Nth(n) == CHOOSE x \in Loadable : Cardinality({y \in Loadable : Before(y, x)}) = n - 1

\* The bars of a directory and of the checkpoint.
BarsOf(id) == dirs[id].bars \cup {t \in Tasks : ckpt # None /\ <<id, t>> \in ckpt.bars}

\* add() replayed over the directories.
Rebuilt ==
    LET replay[n \in 0..Cardinality(Loadable)] ==
            IF n = 0 THEN EmptyArchive
            ELSE OneOf({Add(a, id, Loaded(dirs[id]), BarsOf(id)) :
                           a \in {replay[n - 1]}, id \in {Nth(n)}})
    IN  replay[Cardinality(Loadable)]

\* What a solve of one task can end in.
Outcomes == UNION {Range(traces) : traces \in Evaluations}

\* Mutant of Resumed: the floor is not restored.
ResumedWithoutFloor == [Rebuilt EXCEPT !.range = ckpt.range]

\* The archive a resumed run continues with: the frozen range and the floor
\* come from the checkpoint, the floor after the replay.
Resumed ==
    LET floor == [t \in {u \in Tasks : ckpt.floor[u] # None} |-> ckpt.floor[t]]
    IN  OneOf({SetBaseFloor(a, floor) : a \in {[Rebuilt EXCEPT !.range = ckpt.range]}})

-----------------------------------------------------------------------------
(* The process.                                                            *)

\* patience clamped so that the stop rule can fire.
EffectivePatience ==
    LET most == IF MaxIterations > 2 THEN MaxIterations - 1 ELSE 1
    IN  IF Patience < most THEN Patience ELSE most

\* The locals of run() before anything is known.
Idle ==
    [iteration |-> 0, patience |-> 0, prevBest |-> 0, prevOracle |-> 0,
     conv |-> <<>>, orac |-> <<>>,  \* convergence and oracle history
     done |-> {},                   \* completed_set
     parents |-> <<>>, slot |-> 0, newWork |-> FALSE,
     halted |-> FALSE,              \* budget_halted or max_depth_halted
     completed |-> None]            \* result.total_iterations

\* No candidate is being written.
Nothing == [id |-> None, cand |-> None, then |-> None, left |-> {}, code |-> 2]

\* The save of a candidate: the tasks whose traces are left to write, the
\* depth of the next sidecar.
Save(id, c, then) ==
    [id |-> id, cand |-> c, then |-> then, left |-> DOMAIN c.traces, code |-> 2]

Init ==
    /\ ar = EmptyArchive /\ loop = Idle /\ pc = "boot" /\ saving = Nothing
    /\ dirs = <<>> /\ ckpt = None
    /\ interruptions = 0 /\ lost = 0 /\ rewritten = FALSE

\* Mutant of CompletedSet: it is not rebuilt.
CompletedSetEmpty == {}

\* The ids a resumed run skips.
CompletedSet == Loadable

\* --resume: the archive comes from the directories, the rest from the
\* checkpoint.  The iteration is re-entered, what is on disk is skipped.
Resume ==
    /\ pc = "boot" /\ ckpt # None /\ Loadable # {}
    /\ ar' = Resumed
    /\ loop' = [Idle EXCEPT
                   !.iteration = IF ckpt.iteration > 0 THEN ckpt.iteration - 1 ELSE 0,
                   !.patience = ckpt.patience,
                   !.prevBest = ckpt.prevBest, !.prevOracle = ckpt.prevOracle,
                   !.conv = ckpt.conv, !.orac = ckpt.orac,
                   !.done = CompletedSet]
    /\ pc' = "top"
    /\ UNCHANGED <<saving, disk, interruptions, lost, rewritten>>

\* No usable checkpoint: run the seed, establish its floor, save it.
RunSeed ==
    /\ pc = "boot" /\ (ckpt = None \/ Loadable = {})
    /\ \E traces \in SeedEvaluations :
          LET seed == [parent |-> None, iter |-> 0, depth |-> 1, routed |-> FALSE,
                       mean |-> MeanOf(traces), traces |-> traces]
              added == Add(EmptyArchive, SeedId, seed, {})
          IN  /\ IF RegressionGuard
                 THEN \E fl \in FloorChoices(Outcomes, Resamples, traces) :
                         ar' = SetBaseFloor(added, fl)
                 ELSE ar' = added
              /\ loop' = [Idle EXCEPT !.conv = <<seed.mean>>,
                                      !.prevBest = seed.mean, !.prevOracle = seed.mean]
              /\ saving' = Save(SeedId, seed, "top")
    /\ pc' = "open"
    /\ rewritten' = (rewritten \/ DOMAIN dirs \ {SeedId} # {})
    /\ UNCHANGED <<disk, interruptions, lost>>

\* save_candidate_incremental: the summary is truncated, then written, ...
OpenSummary ==
    /\ pc = "open"
    /\ WriteDir(saving.id, [DirOf(saving.id) EXCEPT !.sum = None])
    /\ pc' = "summary"
    /\ UNCHANGED <<ar, loop, saving, ckpt, interruptions, lost, rewritten>>

\* Mutant of WriteSummary: the bars are not written.
WriteSummaryUnbarred ==
    /\ pc = "summary"
    /\ WriteDir(saving.id, [DirOf(saving.id) EXCEPT !.sum = Summary(saving.cand)])
    /\ pc' = "files"
    /\ UNCHANGED <<ar, loop, saving, ckpt, interruptions, lost, rewritten>>

WriteSummary ==
    /\ pc = "summary"
    /\ WriteDir(saving.id, [DirOf(saving.id) EXCEPT
                               !.sum = Summary(saving.cand),
                               !.bars = {t \in Tasks : <<saving.id, t>> \in ar.bars}])
    /\ pc' = "files"
    /\ UNCHANGED <<ar, loop, saving, ckpt, interruptions, lost, rewritten>>

\* ... then the traces, one by one, ...
NextTrace == CHOOSE t \in saving.left : TRUE

OpenTrace ==
    /\ pc = "files" /\ saving.left # {}
    /\ NextTrace \in DOMAIN DirOf(saving.id).traces => DirOf(saving.id).traces[NextTrace] # None
    /\ WriteDir(saving.id, [DirOf(saving.id) EXCEPT !.traces = Put(@, NextTrace, None)])
    /\ UNCHANGED <<ar, loop, pc, saving, ckpt, interruptions, lost, rewritten>>

WriteTrace ==
    /\ pc = "files" /\ saving.left # {}
    /\ NextTrace \in DOMAIN DirOf(saving.id).traces /\ DirOf(saving.id).traces[NextTrace] = None
    /\ WriteDir(saving.id, [DirOf(saving.id) EXCEPT
                               !.traces = Put(@, NextTrace, saving.cand.traces[NextTrace])])
    /\ saving' = [saving EXCEPT !.left = @ \ {NextTrace}]
    /\ UNCHANGED <<ar, loop, pc, ckpt, interruptions, lost, rewritten>>

\* ... then the sidecars, one by one.
OpenCode ==
    /\ pc = "files" /\ saving.left = {} /\ saving.code <= saving.cand.depth
    /\ saving.code \in DOMAIN DirOf(saving.id).codes => DirOf(saving.id).codes[saving.code] # None
    /\ WriteDir(saving.id, [DirOf(saving.id) EXCEPT !.codes = Put(@, saving.code, None)])
    /\ UNCHANGED <<ar, loop, pc, saving, ckpt, interruptions, lost, rewritten>>

WriteCode ==
    /\ pc = "files" /\ saving.left = {} /\ saving.code <= saving.cand.depth
    /\ saving.code \in DOMAIN DirOf(saving.id).codes /\ DirOf(saving.id).codes[saving.code] = None
    /\ WriteDir(saving.id, [DirOf(saving.id) EXCEPT !.codes = Put(@, saving.code, saving.cand)])
    /\ saving' = [saving EXCEPT !.code = @ + 1]
    /\ UNCHANGED <<ar, loop, pc, ckpt, interruptions, lost, rewritten>>

\* The merge is saved last, with no checkpoint after it.
EndSave ==
    /\ pc = "files" /\ saving.left = {} /\ saving.code > saving.cand.depth
    /\ pc' = IF saving.then = "exit" THEN "exit" ELSE "persist"
    /\ UNCHANGED <<ar, loop, saving, disk, interruptions, lost, rewritten>>

Checkpoint ==
    [iteration |-> loop.iteration, patience |-> loop.patience,
     prevBest |-> loop.prevBest, prevOracle |-> loop.prevOracle,
     conv |-> loop.conv, orac |-> loop.orac,
     range |-> ar.range, floor |-> ar.floor, bars |-> ar.bars]

\* _persist_progress: the checkpoint is replaced atomically.  A failed write
\* is logged and the run goes on over a stale one.
Persist ==
    /\ pc = "persist"
    /\ \/ ckpt' = Checkpoint /\ UNCHANGED lost
       \/ lost < MaxLostCheckpoints /\ ckpt' = ckpt /\ lost' = lost + 1
    /\ pc' = saving.then
    /\ saving' = IF saving.then = "reprop" THEN saving ELSE Nothing
    /\ UNCHANGED <<ar, loop, dirs, interruptions, rewritten>>

\* Mutant of LeaveLoop: only the patience ends the search.
LeaveLoopOnPatience ==
    /\ pc = "top"
    /\ loop.patience >= EffectivePatience
    /\ pc' = "finish"
    /\ UNCHANGED <<ar, loop, saving, disk, interruptions, lost, rewritten>>

\* The loop's guard fails: max iterations reached or patience exhausted.
LeaveLoop ==
    /\ pc = "top"
    /\ \/ loop.iteration >= MaxIterations
       \/ loop.patience >= EffectivePatience
    /\ pc' = "finish"
    /\ UNCHANGED <<ar, loop, saving, disk, interruptions, lost, rewritten>>

\* The top of an iteration: halt when the day's budget is used up or no
\* candidate can be extended, else select the parents.
BeginIteration ==
    /\ pc = "top"
    /\ loop.iteration < MaxIterations
    /\ loop.patience < EffectivePatience
    /\ LET pool == BreedablePool(ar, MaxDepth)
           next == [loop EXCEPT !.iteration = @ + 1]
       IN  \/ /\ DailyBudget \/ pool = {}
              /\ loop' = [next EXCEPT !.halted = TRUE]
              /\ pc' = "finish"
           \/ /\ pool # {}
              /\ \E parents \in ParentChoices(ar, BeamWidth, pool) :
                    loop' = [next EXCEPT !.parents = parents, !.slot = 1, !.newWork = FALSE]
              /\ pc' = "slot"
    /\ UNCHANGED <<ar, saving, disk, interruptions, lost, rewritten>>

\* The child of this slot was on disk when the process resumed.
SkipSlot ==
    /\ pc = "slot" /\ loop.slot <= Slots
    /\ ChildId(loop.iteration, loop.slot) \in loop.done
    /\ loop' = [loop EXCEPT !.slot = @ + 1]
    /\ UNCHANGED <<ar, pc, saving, disk, interruptions, lost, rewritten>>

\* An empty injection, or a child the gate rejects: nothing is archived.
RejectChild ==
    /\ pc = "slot" /\ loop.slot <= Slots
    /\ ChildId(loop.iteration, loop.slot) \notin loop.done
    /\ loop' = [loop EXCEPT !.slot = @ + 1, !.newWork = TRUE]
    /\ UNCHANGED <<ar, pc, saving, disk, interruptions, lost, rewritten>>

\* A child of parent is evaluated and added under id; then it is saved, the
\* checkpoint written, and the loop goes on at then.  add() ignores an id it
\* has, the save does not.
Archived(id, parent, depth, traces, bar, then) ==
    LET child == [parent |-> parent, iter |-> loop.iteration, depth |-> depth,
                  routed |-> FALSE, mean |-> MeanOf(traces), traces |-> traces]
    IN  /\ ar' = Add(ar, id, child, bar)
        /\ saving' = Save(id, child, then)
        /\ pc' = "open"

\* The child passes the gate; or it fails, and the within-layer refine of it
\* passes.
BreedChild ==
    /\ pc = "slot" /\ loop.slot <= Slots
    /\ ChildId(loop.iteration, loop.slot) \notin loop.done
    /\ LET child  == ChildId(loop.iteration, loop.slot)
           parent == loop.parents[1 + (loop.slot - 1) \div BeamCandidates]
           depth  == ar.cand[parent].depth + 1
       IN  \E traces \in Evaluations, bar \in BarChoices :
              \/ Archived(child, parent, depth, traces, bar,
                          IF /\ Repropagation /\ depth >= 3
                             /\ MeanOf(traces) <= ar.cand[parent].mean
                          THEN "reprop" ELSE "slot")
                 /\ UNCHANGED rewritten
              \/ /\ WithinLayerRefine
                 /\ Archived(Refined(child), parent, depth, traces, bar, "slot")
                 /\ rewritten' = (rewritten \/ Refined(child) \in DOMAIN ar.cand)
    /\ loop' = [loop EXCEPT !.slot = @ + 1, !.newWork = TRUE]
    /\ UNCHANGED <<disk, interruptions, lost>>

\* A deep child that plateaued: an intermediate layer is regenerated, which
\* gives a new candidate or, when the injection is empty, nothing.
Repropagate ==
    /\ pc = "reprop"
    /\ \/ \E traces \in Evaluations, bar \in BarChoices :
             Archived(Repropagated(saving.id), saving.id, saving.cand.depth, traces, bar, "slot")
       \/ pc' = "slot" /\ saving' = Nothing /\ UNCHANGED ar
    /\ UNCHANGED <<loop, disk, interruptions, lost, rewritten>>

\* The best or the oracle rose by more than epsilon times the range.
Improved(a, best, oracle) ==
    \/ 1000 * (best - loop.prevBest) > EpsilonPermille * ScoreRange(a)
    \/ 1000 * (oracle - loop.prevOracle) > EpsilonPermille * ScoreRange(a)

\* The end of an iteration.  One whose slots were all skipped leaves no mark.
EndIteration ==
    /\ pc = "slot" /\ loop.slot > Slots
    /\ IF ~loop.newWork
       THEN pc' = "top" /\ UNCHANGED <<ar, loop, saving>>
       ELSE LET a == Frozen(ar)
                best == BestMean(ar)
                oracle == OracleMean(ar)
                up == Improved(a, best, oracle)
                Larger(x, y) == IF x > y THEN x ELSE y
            IN  /\ ar' = a
                /\ loop' = [loop EXCEPT
                               !.conv = Append(@, best),
                               !.orac = Append(@, oracle),
                               !.patience = IF up THEN 0 ELSE @ + 1,
                               !.prevBest = IF up THEN Larger(@, best) ELSE @,
                               !.prevOracle = IF up THEN Larger(@, oracle) ELSE @]
                /\ saving' = [Nothing EXCEPT !.then = "top"]
                /\ pc' = "persist"
    /\ UNCHANGED <<disk, interruptions, lost, rewritten>>

\* The result is assembled and, when the gate allows it, the oracle merged.
Finish ==
    /\ pc = "finish"
    /\ LET completed == IF loop.halted THEN loop.iteration - 1 ELSE loop.iteration
           merged == MergedCandidate(ar, completed)
       IN  /\ loop' = [loop EXCEPT !.completed = completed]
           /\ IF CanMerge(ar, FALSE)
              THEN /\ ar' = Add(ar, MergeId, merged, {})
                   /\ saving' = Save(MergeId, merged, "exit")
                   /\ rewritten' =
                         (\/ rewritten
                          \/ MergeId \in DOMAIN ar.cand
                          \/ ~(DOMAIN DirOf(MergeId).traces \subseteq DOMAIN merged.traces))
                   /\ pc' = "open"
              ELSE pc' = "exit" /\ UNCHANGED <<ar, saving, rewritten>>
    /\ UNCHANGED <<disk, interruptions, lost>>

\* The process is killed, or it ended, and is started again with --resume.
\* Only the disk survives.
Interrupt ==
    /\ pc # "boot" /\ interruptions < MaxInterruptions
    /\ interruptions' = interruptions + 1
    /\ ar' = EmptyArchive /\ loop' = Idle /\ pc' = "boot" /\ saving' = Nothing
    /\ UNCHANGED <<disk, lost, rewritten>>

Step ==
    \/ Resume \/ RunSeed
    \/ OpenSummary \/ WriteSummary \/ OpenTrace \/ WriteTrace \/ OpenCode \/ WriteCode
    \/ EndSave \/ Persist
    \/ LeaveLoop \/ BeginIteration
    \/ SkipSlot \/ RejectChild \/ BreedChild \/ Repropagate
    \/ EndIteration \/ Finish

Next == Step \/ Interrupt

Spec == Init /\ [][Next]_vars

\* The process takes its steps while it runs; interruptions need not happen.
FairSpec == Spec /\ WF_vars(Step)

-----------------------------------------------------------------------------
(* Properties.                                                             *)

\* The id being written, if any.
InFlight == {saving.id} \ {None}

\* The loop, the disk and the process counter have their types.
TypeOK ==
    /\ IsArchive(ar)
    /\ pc \in {"boot", "open", "summary", "files", "persist", "top", "slot",
               "reprop", "finish", "exit"}
    /\ loop.iteration \in 0..MaxIterations
    /\ loop.patience \in 0..EffectivePatience
    /\ loop.slot \in 0..(Slots + 1)
    /\ \A n \in DOMAIN loop.parents : loop.parents[n] \in DOMAIN ar.cand
    /\ pc \in {"open", "summary", "files"} => saving.id \in DOMAIN ar.cand
    /\ interruptions \in 0..MaxInterruptions
    /\ lost \in 0..MaxLostCheckpoints

\* The last sidecar the summary asks for was written for a chain of that depth.
\* It is not when a candidate is bred again, less deep, over the sidecars that a
\* killed save of a deeper chain left: its directory can be loaded from the
\* moment its summary is there.
Sealed(dir) ==
    dir.sum.depth > 1 => dir.codes[dir.sum.depth].depth = dir.sum.depth

\* The disk archive is the source of truth for what has been done: at any
\* moment of a run the directories a resume would load are the candidates of
\* the archive, with the bars that fired on them, but for the one being written.
\* Those that are sealed hold nothing that a kill left half-written: every layer
\* of the chain is this candidate's and the mean it is ranked by is that of its
\* traces.
MemoryMatchesDisk ==
    pc # "boot" /\ ~rewritten =>
        /\ DOMAIN ar.cand \ InFlight = Loadable \ InFlight
        /\ \A id \in Loadable \ InFlight :
              /\ Loaded(dirs[id]) = ar.cand[id]
              /\ dirs[id].bars = {t \in Tasks : <<id, t>> \in ar.bars}
              /\ Sealed(dirs[id]) =>
                    /\ \A d \in 2..ar.cand[id].depth : dirs[id].codes[d] = ar.cand[id]
                    /\ ~ar.cand[id].routed => ar.cand[id].mean = MeanOf(ar.cand[id].traces)

Ranks(a, b) == IF a = None \/ b = None THEN a = b ELSE AtLeast(a, b) /\ AtLeast(b, a)

\* Between two saves a kill is invisible: the archive the process would resume
\* with has the best mean, the floor and, task by task, a best of the same rank
\* as the archive in memory, although it is replayed in another order and the
\* floor reaches it last.
ResumeIsTransparent ==
    pc \in {"top", "slot"} /\ ckpt # None /\ ~rewritten =>
        LET resumed == Resumed
        IN  /\ BestMean(resumed) = BestMean(ar)
            /\ resumed.floor = ar.floor
            /\ \A t \in Tasks : Ranks(resumed.ptb[t], ar.ptb[t])

\* A candidate that a resume would load is never evaluated again, and one that
\* is complete on disk is never written again.
WorkIsNeverRepeated ==
    [][ckpt # None /\ ~rewritten' =>
          /\ saving'.id # saving.id => saving'.id \notin Loadable
          /\ \A id \in Loadable : Sealed(dirs[id]) => dirs'[id] = dirs[id]]_vars

\* A search that is resumed whenever it was interrupted ends.
Terminates == <>[](pc = "exit")

=============================================================================
