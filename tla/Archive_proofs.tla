--------------------------- MODULE Archive_proofs ---------------------------
(***************************************************************************)
(* Proofs about the archive: it is well typed whatever the constants, and  *)
(* on the scales the regression guard was written for its per-task bests   *)
(* dominate everything measured, are attributed to who measured it and     *)
(* never drop; whatever the scale, a merge deploys the oracle.             *)
(***************************************************************************)
EXTENDS Archive, FiniteSetTheorems, TLAPS

-----------------------------------------------------------------------------
(* The ranking of traces.                                                  *)

Scored(a) == a.ok \in BOOLEAN /\ a.score \in Int

\* (success, score) is a total preorder.
LEMMA BetterIsAtLeast ==
    ASSUME NEW a, NEW b, Scored(a), Scored(b), Better(a, b)
    PROVE  AtLeast(a, b)
BY DEF Scored, Better, AtLeast

LEMMA AtLeastIsReflexive ==
    ASSUME NEW a, Scored(a)
    PROVE  AtLeast(a, a)
BY DEF Scored, Better, AtLeast

LEMMA AtLeastIsTransitive ==
    ASSUME NEW a, NEW b, NEW c, Scored(a), Scored(b), Scored(c),
           AtLeast(a, b), AtLeast(b, c)
    PROVE  AtLeast(a, c)
BY DEF Scored, Better, AtLeast

-----------------------------------------------------------------------------
(* What the operations of the archive do to its parts.                     *)

\* add() of a new id touches the candidates, the best, the per-task bests and
\* the bars, and leaves the floor alone.
LEMMA AddParts ==
    ASSUME NEW a, IsArchive(a), NEW id, id \notin DOMAIN a.cand, NEW c, NEW bar
    PROVE  LET n == Add(a, id, c, bar)
           IN  /\ IsArchive(n)
               /\ DOMAIN n.cand = DOMAIN a.cand \cup {id}
               /\ n.cand[id] = c
               /\ \A x \in DOMAIN a.cand : n.cand[x] = a.cand[x]
               /\ n.best \in {a.best, id}
               /\ n.ptb = [t \in Tasks |->
                              IF t \in DOMAIN c.traces /\ TakesOver(a, t, c.traces[t], bar)
                              THEN Entry(c.traces[t], id) ELSE a.ptb[t]]
               /\ n.floor = a.floor
               /\ n.bars = a.bars \cup {<<id, t>> : t \in bar \cap DOMAIN c.traces}
BY DEF Add, IsArchive

\* set_base_floor() touches the floor and the per-task bests only.
LEMMA FloorParts ==
    ASSUME NEW a, IsArchive(a), NEW fl
    PROVE  LET n == SetBaseFloor(a, fl)
           IN  /\ IsArchive(n)
               /\ n.cand = a.cand
               /\ n.best = a.best
               /\ n.ptb = [t \in Tasks |->
                              IF t \in DOMAIN fl /\ RaisedByFloor(a, t, fl[t])
                              THEN Entry(fl[t], SeedId) ELSE a.ptb[t]]
               /\ n.floor = [t \in Tasks |->
                                IF t \in DOMAIN fl THEN fl[t] ELSE a.floor[t]]
               /\ n.bars = a.bars
BY DEF SetBaseFloor, IsArchive

\* An evaluation is a function from some of the tasks to outcomes.
LEMMA EvaluationType ==
    ASSUME NEW traces \in Evaluations
    PROVE  /\ DOMAIN traces \subseteq Tasks
           /\ \A t \in DOMAIN traces : traces[t] \in Outcomes /\ traces[t] \in Trace
BY ArchiveAssumption DEF Evaluations

LEMMA EntryType ==
    ASSUME NEW tr \in Trace, NEW id \in Ids
    PROVE  Entry(tr, id) \in PtbEntry
BY DEF Entry, Trace, PtbEntry

LEMMA BarType ==
    ASSUME NEW bar \in BarChoices
    PROVE  bar \subseteq Tasks
BY DEF BarChoices

-----------------------------------------------------------------------------
(* Type correctness.                                                       *)

\* add() of an evaluated candidate keeps the archive well typed.
LEMMA AddType ==
    ASSUME TypeOK, NEW id \in Ids, id \notin DOMAIN ar.cand, NEW c, NEW bar,
           bar \subseteq Tasks, DOMAIN c.traces \subseteq Tasks,
           \A t \in DOMAIN c.traces : c.traces[t] \in Trace,
           ar' = Add(ar, id, c, bar), phase' \in {"seed", "floor", "breed"},
           consolidate' = consolidate
    PROVE  TypeOK'
<1> DEFINE n == Add(ar, id, c, bar)
<1>1. IsArchive(ar)
  BY DEF TypeOK
<1>2. /\ IsArchive(n)
      /\ DOMAIN n.cand = DOMAIN ar.cand \cup {id}
      /\ n.cand[id] = c
      /\ \A x \in DOMAIN ar.cand : n.cand[x] = ar.cand[x]
      /\ n.best \in {ar.best, id}
      /\ n.ptb = [t \in Tasks |->
                     IF t \in DOMAIN c.traces /\ TakesOver(ar, t, c.traces[t], bar)
                     THEN Entry(c.traces[t], id) ELSE ar.ptb[t]]
      /\ n.floor = ar.floor
      /\ n.bars = ar.bars \cup {<<id, t>> : t \in bar \cap DOMAIN c.traces}
  BY <1>1, AddParts
<1>3. n.ptb \in [Tasks -> PtbEntry \cup {None}]
  <2>1. \A t \in DOMAIN c.traces : Entry(c.traces[t], id) \in PtbEntry
    BY EntryType
  <2>2. QED
    BY <1>2, <2>1 DEF TypeOK
<1>4. n.bars \subseteq Ids \X Tasks
  BY <1>2 DEF TypeOK
<1>5. \A x \in DOMAIN n.cand :
         /\ DOMAIN n.cand[x].traces \subseteq Tasks
         /\ \A t \in DOMAIN n.cand[x].traces : n.cand[x].traces[t] \in Trace
  BY <1>2 DEF TypeOK
<1>6. n.best \in DOMAIN n.cand \cup {None}
  BY <1>2 DEF TypeOK
<1>7. ar' = n
  OBVIOUS
<1> HIDE DEF n
<1>8. QED
  BY <1>2, <1>3, <1>4, <1>5, <1>6, <1>7 DEF TypeOK

\* The candidate the merge adds deploys traces of the per-task bests.
LEMMA MergedType ==
    ASSUME TypeOK
    PROVE  LET tr == MergedCandidate(ar, 0).traces
           IN  /\ DOMAIN tr \subseteq Tasks
               /\ \A t \in DOMAIN tr :
                     /\ tr[t] \in Trace
                     /\ ar.ptb[t] \in PtbEntry /\ ar.ptb[t].script
                     /\ tr[t] = [ok |-> ar.ptb[t].ok, score |-> ar.ptb[t].score,
                                 script |-> TRUE]
BY DEF TypeOK, MergedCandidate, PtbEntry, Trace

LEMMA FloorChoiceType ==
    ASSUME NEW traces, NEW fl \in FloorChoices(Outcomes, Resamples, traces)
    PROVE  /\ DOMAIN fl \subseteq Tasks
           /\ DOMAIN traces \subseteq DOMAIN fl
           /\ \A t \in DOMAIN fl : /\ fl[t] \in Outcomes /\ fl[t] \in Trace
                                   /\ fl[t] \in Floors(Outcomes, Resamples, traces, t)
BY ArchiveAssumption DEF FloorChoices

\* The initial archive is well typed.
LEMMA InitType == Init => TypeOK
BY DEF Init, TypeOK, EmptyArchive, IsArchive

\* Every action keeps the archive well typed.
LEMMA NextType == TypeOK /\ [Next]_vars => TypeOK'
<1> SUFFICES ASSUME TypeOK, [Next]_vars PROVE TypeOK'
  OBVIOUS
<1>1. CASE EvaluateSeed
  <2>1. PICK traces \in Evaluations :
            ar' = Add(ar, SeedId, Candidate(None, 1, traces), {})
    BY <1>1 DEF EvaluateSeed
  <2>2. CASE SeedId \in DOMAIN ar.cand
    BY <1>1, <2>1, <2>2 DEF EvaluateSeed, Add, TypeOK
  <2>3. CASE SeedId \notin DOMAIN ar.cand
    <3>1. Candidate(None, 1, traces).traces = traces
      BY DEF Candidate
    <3>2. SeedId \in Ids /\ phase' \in {"seed", "floor", "breed"} /\ consolidate' = consolidate
      BY <1>1 DEF Ids, EvaluateSeed
    <3>3. QED
      BY <2>1, <2>3, <3>1, <3>2, EvaluationType, AddType
  <2>4. QED
    BY <2>2, <2>3
<1>2. CASE EstablishBaseFloor
  <2>1. PICK fl \in FloorChoices(Outcomes, Resamples, ar.cand[SeedId].traces) : ar' = SetBaseFloor(ar, fl)
    BY <1>2 DEF EstablishBaseFloor
  <2> DEFINE n == SetBaseFloor(ar, fl)
  <2>2. /\ IsArchive(n)
        /\ n.cand = ar.cand
        /\ n.best = ar.best
        /\ n.ptb = [t \in Tasks |->
                       IF t \in DOMAIN fl /\ RaisedByFloor(ar, t, fl[t])
                       THEN Entry(fl[t], SeedId) ELSE ar.ptb[t]]
        /\ n.floor = [t \in Tasks |-> IF t \in DOMAIN fl THEN fl[t] ELSE ar.floor[t]]
        /\ n.bars = ar.bars
    BY FloorParts DEF TypeOK
  <2>3. \A t \in DOMAIN fl : fl[t] \in Trace /\ Entry(fl[t], SeedId) \in PtbEntry
    BY FloorChoiceType, EntryType DEF Ids
  <2>4. n.ptb \in [Tasks -> PtbEntry \cup {None}]
    BY <2>2, <2>3 DEF TypeOK
  <2>5. n.floor \in [Tasks -> Trace \cup {None}]
    BY <2>2, <2>3 DEF TypeOK
  <2>6. ar' = n /\ phase' = "breed" /\ consolidate' = consolidate
    BY <1>2, <2>1 DEF EstablishBaseFloor
  <2> HIDE DEF n
  <2>7. QED
    BY <2>2, <2>4, <2>5, <2>6 DEF TypeOK
<1>3. ASSUME NEW id \in ChildIds, NEW parent \in DOMAIN ar.cand, AddChild(id, parent)
      PROVE  TypeOK'
  <2>1. PICK traces \in Evaluations, bar \in BarChoices :
            ar' = Add(ar, id, Candidate(parent, ar.cand[parent].depth + 1, traces), bar)
    BY <1>3 DEF AddChild
  <2>2. Candidate(parent, ar.cand[parent].depth + 1, traces).traces = traces
    BY DEF Candidate
  <2>3. /\ id \in Ids /\ id \notin DOMAIN ar.cand
        /\ phase' \in {"seed", "floor", "breed"} /\ consolidate' = consolidate
    BY <1>3 DEF AddChild, Ids
  <2>4. QED
    BY <2>1, <2>2, <2>3, EvaluationType, BarType, AddType
<1>4. CASE Merge
  <2>1. /\ MergeId \in Ids /\ MergeId \notin DOMAIN ar.cand
        /\ ar' = Add(ar, MergeId, MergedCandidate(ar, 0), {})
        /\ phase' \in {"seed", "floor", "breed"} /\ consolidate' = consolidate
    BY <1>4 DEF Merge, Ids
  <2> DEFINE m == MergedCandidate(ar, 0)
  <2>2. /\ DOMAIN m.traces \subseteq Tasks
        /\ \A t \in DOMAIN m.traces : m.traces[t] \in Trace
    BY MergedType
  <2> HIDE DEF m
  <2>3. ar' = Add(ar, MergeId, m, {})
    BY <2>1 DEF m
  <2>4. QED
    BY <2>1, <2>2, <2>3, AddType
<1>5. CASE UNCHANGED vars
  BY <1>5 DEF vars, TypeOK
<1>6. QED
  BY <1>1, <1>2, <1>3, <1>4, <1>5 DEF Next

\* The archive is well typed in every state of every run.
THEOREM ArchiveIsWellTyped == Spec => []TypeOK
BY InitType, NextType, PTL DEF Spec

-----------------------------------------------------------------------------
(* The inductive invariant behind the ranking properties.  Dominance alone *)
(* is not inductive: add() refuses a trace below the floor, which is right *)
(* only while the entry already dominates that floor, and set_base_floor() *)
(* compares scores alone, which is right only because every trace is       *)
(* ordinary and the entries it finds are the seed's own.                   *)

\* Before the seed is evaluated the archive is empty.
SeedPhase == phase = "seed" => ar = EmptyArchive

\* The floor is installed over the seed's own traces.
FloorPhase ==
    phase = "floor" =>
        /\ DOMAIN ar.cand = {SeedId}
        /\ ar.bars = {}
        /\ ar.floor = [t \in Tasks |-> None]
        /\ ar.ptb = [t \in Tasks |-> IF t \in DOMAIN ar.cand[SeedId].traces
                                     THEN Entry(ar.cand[SeedId].traces[t], SeedId)
                                     ELSE None]

\* A bar names an archived candidate.
BarsAreArchived ==
    \A x \in Ids, t \in Tasks : <<x, t>> \in ar.bars => x \in DOMAIN ar.cand

\* Every trace the archive holds is ordinary.
AllOrdinary ==
    /\ \A x \in DOMAIN ar.cand : \A t \in DOMAIN ar.cand[x].traces :
          Ordinary(ar.cand[x].traces[t])
    /\ \A t \in Tasks : ar.floor[t] # None => Ordinary(ar.floor[t])
    /\ \A t \in Tasks : ar.ptb[t] # None => Ordinary(ar.ptb[t])

IInv ==
    /\ TypeOK
    /\ SeedPhase
    /\ FloorPhase
    /\ BarsAreArchived
    /\ AllOrdinary
    /\ PerTaskBestDominates
    /\ PerTaskBestIsAttributed

\* Whoever competes for a task is a trace, and so is the entry.
LEMMA ContendersAreTraces ==
    ASSUME TypeOK, NEW t \in Tasks
    PROVE  /\ \A tr \in Contenders(t) : tr \in Trace /\ Scored(tr)
           /\ ar.ptb[t] # None => ar.ptb[t] \in PtbEntry /\ Scored(ar.ptb[t])
           /\ ar.floor[t] # None => ar.floor[t] \in Trace /\ Scored(ar.floor[t])
<1>1. /\ \A x \in Trace : Scored(x)
      /\ \A x \in PtbEntry : Scored(x)
  BY DEF Trace, PtbEntry, Scored
<1>2. ASSUME NEW tr \in Contenders(t)
      PROVE  tr \in Trace
  <2>1. CASE tr = ar.floor[t] /\ ar.floor[t] # None
    BY <2>1 DEF TypeOK
  <2>2. CASE \E x \in DOMAIN ar.cand : t \in DOMAIN ar.cand[x].traces
                                       /\ tr = ar.cand[x].traces[t]
    BY <2>2 DEF TypeOK
  <2>3. QED
    BY <2>1, <2>2 DEF Contenders
<1>3. /\ ar.ptb[t] # None => ar.ptb[t] \in PtbEntry
      /\ ar.floor[t] # None => ar.floor[t] \in Trace
  BY DEF TypeOK
<1>4. QED
  BY <1>1, <1>2, <1>3

LEMMA EntryRanksAsItsTrace ==
    ASSUME NEW tr \in Trace, NEW id \in Ids
    PROVE  /\ Entry(tr, id) # None
           /\ Scored(tr) /\ Scored(Entry(tr, id))
           /\ Entry(tr, id).by = id
           /\ Entry(tr, id).ok = tr.ok
           /\ Entry(tr, id).score = tr.score
           /\ Entry(tr, id).script = tr.script
           /\ Ordinary(tr) => Ordinary(Entry(tr, id))
<1>1. Entry(tr, id) # None
  BY EntryType, ArchiveAssumption
<1>2. QED
  BY <1>1 DEF Entry, Trace, Scored, Ordinary

\* The clamp of add() is safe: a trace that no bar excludes and that does not
\* take a task over is dominated by the entry that is there, the clamp by the
\* floor included.
LEMMA RefusedIsDominated ==
    ASSUME IInv, NEW t \in Tasks, NEW tr \in Trace, Ordinary(tr), NEW bar,
           t \notin bar, ~TakesOver(ar, t, tr, bar)
    PROVE  ar.ptb[t] # None /\ AtLeast(ar.ptb[t], tr)
<1>0. TypeOK /\ AllOrdinary /\ PerTaskBestDominates /\ Scored(tr)
  BY DEF IInv, Scored, Trace
<1>1. CASE ar.floor[t] = None \/ AtLeast(tr, ar.floor[t])
  BY <1>1 DEF TakesOver, AtLeast
<1>2. CASE ar.floor[t] # None /\ Better(ar.floor[t], tr)
  <2>1. ar.floor[t] \in Trace /\ Scored(ar.floor[t]) /\ Ordinary(ar.floor[t])
    BY <1>0, <1>2, ContendersAreTraces DEF AllOrdinary
  <2>2. ar.floor[t].script
    BY <1>0, <1>2, <2>1 DEF Ordinary, Better, Scored, Trace
  <2>3. ar.floor[t] \in Contenders(t)
    BY <1>2, <2>2 DEF Contenders
  <2>4. ar.ptb[t] # None /\ AtLeast(ar.ptb[t], ar.floor[t])
    BY <1>0, <2>3 DEF PerTaskBestDominates
  <2>5. Scored(ar.ptb[t])
    BY <1>0, <2>4, ContendersAreTraces
  <2>6. AtLeast(ar.floor[t], tr)
    BY <1>0, <1>2, <2>1, BetterIsAtLeast
  <2>7. QED
    BY <1>0, <2>1, <2>4, <2>5, <2>6, AtLeastIsTransitive
<1>3. QED
  BY <1>1, <1>2 DEF AtLeast

\* add() of a new, ordinary candidate keeps the index dominant and attributed.
LEMMA AddKeepsTheIndex ==
    ASSUME IInv, NEW id \in Ids, id \notin DOMAIN ar.cand, NEW c, NEW bar,
           bar \subseteq Tasks, DOMAIN c.traces \subseteq Tasks,
           \A t \in DOMAIN c.traces : c.traces[t] \in Trace /\ Ordinary(c.traces[t]),
           ar' = Add(ar, id, c, bar)
    PROVE  /\ BarsAreArchived'
           /\ AllOrdinary'
           /\ PerTaskBestDominates'
           /\ PerTaskBestIsAttributed'
<1> DEFINE takes(t) == t \in DOMAIN c.traces /\ TakesOver(ar, t, c.traces[t], bar)
<1>0. /\ TypeOK /\ IsArchive(ar) /\ BarsAreArchived /\ AllOrdinary
      /\ PerTaskBestDominates /\ PerTaskBestIsAttributed
  BY DEF IInv, TypeOK
<1>1. /\ DOMAIN ar'.cand = DOMAIN ar.cand \cup {id}
      /\ ar'.cand[id] = c
      /\ \A x \in DOMAIN ar.cand : ar'.cand[x] = ar.cand[x]
      /\ \A t \in Tasks : ar'.ptb[t] = IF takes(t) THEN Entry(c.traces[t], id) ELSE ar.ptb[t]
      /\ ar'.floor = ar.floor
      /\ ar'.bars = ar.bars \cup {<<id, t>> : t \in bar \cap DOMAIN c.traces}
  <2> DEFINE n == Add(ar, id, c, bar)
  <2>1. /\ DOMAIN n.cand = DOMAIN ar.cand \cup {id}
        /\ n.cand[id] = c
        /\ \A x \in DOMAIN ar.cand : n.cand[x] = ar.cand[x]
        /\ n.ptb = [t \in Tasks |-> IF takes(t) THEN Entry(c.traces[t], id) ELSE ar.ptb[t]]
        /\ n.floor = ar.floor
        /\ n.bars = ar.bars \cup {<<id, t>> : t \in bar \cap DOMAIN c.traces}
    BY <1>0, AddParts
  <2>2. ar' = n
    OBVIOUS
  <2> HIDE DEF n, takes
  <2>3. QED
    BY <2>1, <2>2
<1>2. ASSUME NEW t \in Tasks, takes(t)
      PROVE  /\ t \notin bar
             /\ ar.ptb[t] # None => Better(c.traces[t], ar.ptb[t])
             /\ ar'.ptb[t] = Entry(c.traces[t], id)
             /\ ar'.ptb[t] # None
             /\ Scored(c.traces[t]) /\ Scored(ar'.ptb[t])
             /\ ar'.ptb[t].by = id
             /\ ar'.ptb[t].ok = c.traces[t].ok
             /\ ar'.ptb[t].score = c.traces[t].score
             /\ Ordinary(ar'.ptb[t])
  BY <1>1, <1>2, EntryRanksAsItsTrace DEF TakesOver
<1>3. ASSUME NEW t \in Tasks, ~takes(t), t \in DOMAIN c.traces, t \notin bar
      PROVE  ar.ptb[t] # None /\ AtLeast(ar.ptb[t], c.traces[t])
  BY <1>3, RefusedIsDominated
<1>4. ASSUME NEW t \in Tasks, ~takes(t)
      PROVE  ar'.ptb[t] = ar.ptb[t]
  BY <1>1, <1>4
<1>5. BarsAreArchived'
  BY <1>0, <1>1 DEF BarsAreArchived
<1>6. AllOrdinary'
  <2>1. \A t \in Tasks : ar'.ptb[t] # None => Ordinary(ar'.ptb[t])
    BY <1>0, <1>2, <1>4 DEF AllOrdinary
  <2>2. QED
    BY <1>0, <1>1, <2>1 DEF AllOrdinary
<1>7. PerTaskBestDominates'
  <2> SUFFICES ASSUME NEW t \in Tasks
               PROVE  IF ar'.ptb[t] = None THEN Contenders(t)' = {}
                      ELSE \A tr \in Contenders(t)' : AtLeast(ar'.ptb[t], tr)
    BY DEF PerTaskBestDominates
  <2>1. \A tr \in Contenders(t)' :
           \/ tr \in Contenders(t)
           \/ t \in DOMAIN c.traces /\ t \notin bar /\ tr = c.traces[t]
    BY <1>0, <1>1 DEF Contenders, BarsAreArchived
  <2>2. \A tr \in Contenders(t) : Scored(tr) /\ ar.ptb[t] # None /\ Scored(ar.ptb[t])
                                  /\ AtLeast(ar.ptb[t], tr)
    BY <1>0, ContendersAreTraces DEF PerTaskBestDominates
  <2>3. CASE takes(t)
    <3>1. AtLeast(ar'.ptb[t], c.traces[t])
      BY <1>2, <2>3 DEF AtLeast, Better, Scored
    <3>2. ASSUME NEW tr \in Contenders(t)
          PROVE  AtLeast(ar'.ptb[t], tr)
      <4>1. AtLeast(c.traces[t], ar.ptb[t])
        BY <1>2, <2>2, <2>3, BetterIsAtLeast
      <4>2. AtLeast(c.traces[t], tr)
        BY <1>2, <2>2, <2>3, <4>1, AtLeastIsTransitive
      <4>3. QED
        BY <1>2, <2>2, <2>3, <3>1, <4>2, AtLeastIsTransitive
    <3>3. QED
      BY <1>2, <2>1, <2>3, <3>1, <3>2
  <2>4. CASE ~takes(t)
    BY <1>3, <1>4, <2>1, <2>2, <2>4
  <2>5. QED
    BY <2>3, <2>4
<1>8. PerTaskBestIsAttributed'
  <2> SUFFICES ASSUME NEW t \in Tasks, ar'.ptb[t] # None
               PROVE  LET e == ar'.ptb[t]
                      IN  \/ /\ e.by \in DOMAIN ar'.cand
                             /\ t \in DOMAIN ar'.cand[e.by].traces
                             /\ <<e.by, t>> \notin ar'.bars
                             /\ e = Entry(ar'.cand[e.by].traces[t], e.by)
                          \/ /\ e.by = SeedId
                             /\ ar'.floor[t] # None
                             /\ e = Entry(ar'.floor[t], SeedId)
    BY DEF PerTaskBestIsAttributed
  <2>1. CASE takes(t)
    <3>1. <<id, t>> \notin ar.bars
      BY <1>0 DEF BarsAreArchived
    <3>2. <<id, t>> \notin ar'.bars
      BY <1>1, <1>2, <2>1, <3>1
    <3>3. QED
      BY <1>1, <1>2, <2>1, <3>2
  <2>2. CASE ~takes(t)
    <3>1. ar'.ptb[t] = ar.ptb[t]
      BY <1>4, <2>2
    <3>2. QED
      BY <1>0, <1>1, <3>1 DEF PerTaskBestIsAttributed
  <2>3. QED
    BY <2>1, <2>2
<1>9. QED
  BY <1>5, <1>6, <1>7, <1>8

\* set_base_floor() over the seed's own traces keeps the index dominant and
\* attributed: on an ordinary scale the score alone decides who outranks whom.
LEMMA FloorKeepsTheIndex ==
    ASSUME IInv, OrdinaryScale, EstablishBaseFloor
    PROVE  /\ BarsAreArchived'
           /\ AllOrdinary'
           /\ PerTaskBestDominates'
           /\ PerTaskBestIsAttributed'
           /\ \A t \in Tasks : ar.ptb[t] # None =>
                 ar'.ptb[t] # None /\ AtLeast(ar'.ptb[t], ar.ptb[t])
<1> DEFINE own == ar.cand[SeedId].traces
<1>0. /\ TypeOK /\ IsArchive(ar) /\ BarsAreArchived /\ AllOrdinary
      /\ DOMAIN ar.cand = {SeedId} /\ ar.bars = {}
      /\ \A t \in Tasks : ar.floor[t] = None
      /\ \A t \in Tasks : ar.ptb[t] = IF t \in DOMAIN own THEN Entry(own[t], SeedId) ELSE None
      /\ SeedId \in Ids
  BY DEF IInv, TypeOK, FloorPhase, EstablishBaseFloor, Ids
<1>1. PICK fl \in FloorChoices(Outcomes, Resamples, own) : ar' = SetBaseFloor(ar, fl)
  BY DEF EstablishBaseFloor
<1>2. /\ ar'.cand = ar.cand
      /\ ar'.bars = ar.bars
      /\ \A t \in Tasks : ar'.floor[t] = IF t \in DOMAIN fl THEN fl[t] ELSE None
      /\ \A t \in Tasks : ar'.ptb[t] =
            IF t \in DOMAIN fl /\ RaisedByFloor(ar, t, fl[t])
            THEN Entry(fl[t], SeedId) ELSE ar.ptb[t]
  <2> DEFINE n == SetBaseFloor(ar, fl)
  <2>1. /\ n.cand = ar.cand
        /\ n.bars = ar.bars
        /\ n.floor = [t \in Tasks |-> IF t \in DOMAIN fl THEN fl[t] ELSE ar.floor[t]]
        /\ n.ptb = [t \in Tasks |-> IF t \in DOMAIN fl /\ RaisedByFloor(ar, t, fl[t])
                                    THEN Entry(fl[t], SeedId) ELSE ar.ptb[t]]
    BY <1>0, FloorParts
  <2>2. ar' = n
    BY <1>1
  <2> HIDE DEF n
  <2>3. QED
    BY <1>0, <2>1, <2>2
<1>3. /\ DOMAIN fl \subseteq Tasks
      /\ DOMAIN own \subseteq DOMAIN fl
      /\ \A t \in DOMAIN fl : fl[t] \in Trace /\ Ordinary(fl[t]) /\ fl[t] \in Floors(Outcomes, Resamples, own, t)
  BY FloorChoiceType DEF OrdinaryScale
<1>4. \A t \in DOMAIN own : own[t] \in Trace /\ Ordinary(own[t])
  BY <1>0 DEF TypeOK, AllOrdinary
<1>5. ASSUME NEW t \in DOMAIN fl
      PROVE  /\ Scored(fl[t]) /\ Entry(fl[t], SeedId) # None
             /\ Scored(Entry(fl[t], SeedId))
             /\ Entry(fl[t], SeedId).by = SeedId
             /\ Entry(fl[t], SeedId).ok = fl[t].ok
             /\ Entry(fl[t], SeedId).score = fl[t].score
             /\ Ordinary(Entry(fl[t], SeedId))
  BY <1>0, <1>3, EntryRanksAsItsTrace
<1>6. ASSUME NEW t \in DOMAIN own
      PROVE  /\ Scored(own[t]) /\ Entry(own[t], SeedId) # None
             /\ Scored(Entry(own[t], SeedId))
             /\ Entry(own[t], SeedId).by = SeedId
             /\ Entry(own[t], SeedId).ok = own[t].ok
             /\ Entry(own[t], SeedId).score = own[t].score
             /\ Entry(own[t], SeedId).script = own[t].script
             /\ Ordinary(Entry(own[t], SeedId))
  BY <1>0, <1>4, EntryRanksAsItsTrace
<1>7. ASSUME NEW t \in DOMAIN own
      PROVE  AtLeast(fl[t], own[t])
  <2>1. fl[t] = own[t] \/ Better(fl[t], own[t])
    BY <1>3 DEF Floors
  <2>2. QED
    BY <1>3, <1>5, <1>6, <2>1, AtLeastIsReflexive, BetterIsAtLeast
<1>8. \A t \in Tasks : Contenders(t)' =
         (IF t \in DOMAIN own THEN {own[t]} ELSE {})
         \cup (IF t \in DOMAIN fl /\ fl[t].script THEN {fl[t]} ELSE {})
  <2> SUFFICES ASSUME NEW t \in Tasks
               PROVE  Contenders(t)' =
                         (IF t \in DOMAIN own THEN {own[t]} ELSE {})
                         \cup (IF t \in DOMAIN fl /\ fl[t].script THEN {fl[t]} ELSE {})
    OBVIOUS
  <2>1. \A t2 \in DOMAIN fl : fl[t2] # None
    BY <1>3, ArchiveAssumption
  <2>2. {ar'.cand[id].traces[t] : id \in {x \in DOMAIN ar'.cand :
            t \in DOMAIN ar'.cand[x].traces /\ <<x, t>> \notin ar'.bars}}
        = IF t \in DOMAIN own THEN {own[t]} ELSE {}
    BY <1>0, <1>2
  <2>3. (IF ar'.floor[t] # None /\ ar'.floor[t].script THEN {ar'.floor[t]} ELSE {})
        = IF t \in DOMAIN fl /\ fl[t].script THEN {fl[t]} ELSE {}
    BY <1>2, <2>1
  <2>4. QED
    BY <2>2, <2>3 DEF Contenders
<1>9. ASSUME NEW t \in DOMAIN fl, fl[t].script, ~RaisedByFloor(ar, t, fl[t])
      PROVE  ar.ptb[t] # None /\ t \in DOMAIN own /\ AtLeast(ar.ptb[t], fl[t])
  <2>1. ar.ptb[t] # None /\ ~(fl[t].score > ar.ptb[t].score)
    BY <1>9 DEF RaisedByFloor
  <2>2. t \in DOMAIN own /\ ar.ptb[t] = Entry(own[t], SeedId)
    BY <1>0, <1>3, <2>1
  <2>3. ~(fl[t].score > own[t].score) /\ AtLeast(fl[t], own[t])
    BY <1>6, <1>7, <2>1, <2>2
  <2>4. AtLeast(own[t], fl[t])
    BY <1>3, <1>4, <1>5, <1>6, <2>2, <2>3 DEF AtLeast, Better, Ordinary, Scored
  <2>5. QED
    BY <1>6, <2>1, <2>2, <2>4 DEF AtLeast, Better
<1>10. BarsAreArchived'
  BY <1>0, <1>2 DEF BarsAreArchived
<1>11. AllOrdinary'
  <2>1. \A t \in Tasks : ar'.floor[t] # None => Ordinary(ar'.floor[t])
    BY <1>2, <1>3
  <2>2. \A t \in Tasks : ar'.ptb[t] # None => Ordinary(ar'.ptb[t])
    BY <1>0, <1>2, <1>5 DEF AllOrdinary
  <2>3. QED
    BY <1>0, <1>2, <2>1, <2>2 DEF AllOrdinary
<1>12. \A t \in Tasks : ar.ptb[t] # None =>
          ar'.ptb[t] # None /\ AtLeast(ar'.ptb[t], ar.ptb[t])
  <2> SUFFICES ASSUME NEW t \in Tasks, ar.ptb[t] # None
               PROVE  ar'.ptb[t] # None /\ AtLeast(ar'.ptb[t], ar.ptb[t])
    OBVIOUS
  <2>1. t \in DOMAIN own /\ ar.ptb[t] = Entry(own[t], SeedId) /\ t \in DOMAIN fl
    BY <1>0, <1>3
  <2>2. CASE RaisedByFloor(ar, t, fl[t])
    <3>1. ar'.ptb[t] = Entry(fl[t], SeedId)
      BY <1>2, <2>1, <2>2
    <3>2. QED
      BY <1>5, <1>6, <1>7, <2>1, <3>1 DEF AtLeast, Better
  <2>3. CASE ~RaisedByFloor(ar, t, fl[t])
    BY <1>2, <1>6, <2>1, <2>3, AtLeastIsReflexive
  <2>4. QED
    BY <2>2, <2>3
<1>13. PerTaskBestDominates'
  <2> SUFFICES ASSUME NEW t \in Tasks
               PROVE  IF ar'.ptb[t] = None THEN Contenders(t)' = {}
                      ELSE \A tr \in Contenders(t)' : AtLeast(ar'.ptb[t], tr)
    BY DEF PerTaskBestDominates
  <2>1. CASE t \in DOMAIN fl /\ RaisedByFloor(ar, t, fl[t])
    <3>1. ar'.ptb[t] = Entry(fl[t], SeedId)
      BY <1>2, <2>1
    <3>2. AtLeast(ar'.ptb[t], fl[t])
      BY <1>5, <2>1, <3>1 DEF AtLeast, Better, Scored
    <3>3. t \in DOMAIN own => AtLeast(ar'.ptb[t], own[t])
      BY <1>5, <1>7, <2>1, <3>1 DEF AtLeast, Better
    <3>4. QED
      BY <1>5, <1>8, <2>1, <3>1, <3>2, <3>3
  <2>2. CASE ~(t \in DOMAIN fl /\ RaisedByFloor(ar, t, fl[t]))
    <3>1. ar'.ptb[t] = ar.ptb[t]
      BY <1>2, <2>2
    <3>2. t \in DOMAIN own => ar.ptb[t] # None /\ AtLeast(ar.ptb[t], own[t])
      BY <1>0, <1>6 DEF AtLeast, Better, Scored
    <3>3. t \in DOMAIN fl /\ fl[t].script => ar.ptb[t] # None /\ AtLeast(ar.ptb[t], fl[t])
      BY <1>9, <2>2
    <3>4. QED
      BY <1>8, <3>1, <3>2, <3>3
  <2>3. QED
    BY <2>1, <2>2
<1>14. PerTaskBestIsAttributed'
  <2> SUFFICES ASSUME NEW t \in Tasks, ar'.ptb[t] # None
               PROVE  LET e == ar'.ptb[t]
                      IN  \/ /\ e.by \in DOMAIN ar'.cand
                             /\ t \in DOMAIN ar'.cand[e.by].traces
                             /\ <<e.by, t>> \notin ar'.bars
                             /\ e = Entry(ar'.cand[e.by].traces[t], e.by)
                          \/ /\ e.by = SeedId
                             /\ ar'.floor[t] # None
                             /\ e = Entry(ar'.floor[t], SeedId)
    BY DEF PerTaskBestIsAttributed
  <2>1. CASE t \in DOMAIN fl /\ RaisedByFloor(ar, t, fl[t])
    <3>1. ar'.ptb[t] = Entry(fl[t], SeedId) /\ ar'.floor[t] = fl[t] /\ fl[t] # None
      BY <1>2, <1>3, <2>1, ArchiveAssumption
    <3>2. QED
      BY <1>5, <2>1, <3>1
  <2>2. CASE ~(t \in DOMAIN fl /\ RaisedByFloor(ar, t, fl[t]))
    <3>1. t \in DOMAIN own /\ ar'.ptb[t] = Entry(own[t], SeedId)
      BY <1>0, <1>2, <2>2
    <3>2. QED
      BY <1>0, <1>2, <1>6, <3>1
  <2>3. QED
    BY <2>1, <2>2
<1>15. QED
  BY <1>10, <1>11, <1>12, <1>13, <1>14

-----------------------------------------------------------------------------
(* The invariant is inductive.                                             *)

LEMMA InitInvariant == Init => IInv
<1> SUFFICES ASSUME Init PROVE IInv
  OBVIOUS
<1>1. /\ ar = EmptyArchive /\ phase = "seed"
      /\ DOMAIN ar.cand = {}
      /\ \A t \in Tasks : ar.ptb[t] = None /\ ar.floor[t] = None
      /\ ar.bars = {}
  BY DEF Init, EmptyArchive
<1>2. TypeOK
  BY InitType
<1>3. SeedPhase /\ FloorPhase /\ BarsAreArchived /\ AllOrdinary
  BY <1>1 DEF SeedPhase, FloorPhase, BarsAreArchived, AllOrdinary
<1>4. PerTaskBestDominates /\ PerTaskBestIsAttributed
  BY <1>1 DEF PerTaskBestDominates, PerTaskBestIsAttributed, Contenders
<1>5. QED
  BY <1>2, <1>3, <1>4 DEF IInv

\* The seed's evaluation leaves the index holding the seed's own traces.
LEMMA SeedOwnsTheIndex ==
    ASSUME ar = EmptyArchive, NEW traces \in Evaluations,
           ar' = Add(ar, SeedId, Candidate(None, 1, traces), {})
    PROVE  /\ DOMAIN ar'.cand = {SeedId}
           /\ ar'.cand[SeedId].traces = traces
           /\ ar'.bars = {}
           /\ ar'.floor = [t \in Tasks |-> None]
           /\ ar'.ptb = [t \in Tasks |-> IF t \in DOMAIN traces
                                         THEN Entry(traces[t], SeedId) ELSE None]
<1> DEFINE c == Candidate(None, 1, traces)
           n == Add(ar, SeedId, c, {})
<1>1. /\ IsArchive(ar)
      /\ DOMAIN ar.cand = {}
      /\ ar.bars = {}
      /\ ar.floor = [t \in Tasks |-> None]
      /\ ar.ptb = [t \in Tasks |-> None]
  BY DEF EmptyArchive, IsArchive
<1>2. c.traces = traces
  BY DEF Candidate
<1> HIDE DEF c
<1>3. /\ DOMAIN n.cand = DOMAIN ar.cand \cup {SeedId}
      /\ n.cand[SeedId] = c
      /\ n.ptb = [t \in Tasks |->
                     IF t \in DOMAIN c.traces /\ TakesOver(ar, t, c.traces[t], {})
                     THEN Entry(c.traces[t], SeedId) ELSE ar.ptb[t]]
      /\ n.floor = ar.floor
      /\ n.bars = ar.bars \cup {<<SeedId, t>> : t \in {} \cap DOMAIN c.traces}
  BY <1>1, AddParts
<1>4. \A t \in Tasks : \A tr : TakesOver(ar, t, tr, {})
  BY <1>1 DEF TakesOver
<1>5. ar' = n
  BY DEF c
<1> HIDE DEF n
<1>6. QED
  BY <1>1, <1>2, <1>3, <1>4, <1>5

\* One step of the archive: the invariant is kept, and no task's best drops.
LEMMA NextInvariant ==
    ASSUME IInv, OrdinaryScale, [Next]_vars
    PROVE  /\ IInv'
           /\ \A t \in Tasks : ar.ptb[t] # None =>
                 ar'.ptb[t] # None /\ AtLeast(ar'.ptb[t], ar.ptb[t])
<1> DEFINE Kept == /\ BarsAreArchived'
                   /\ AllOrdinary'
                   /\ PerTaskBestDominates'
                   /\ PerTaskBestIsAttributed'
           NoDrop == \A t \in Tasks : ar.ptb[t] # None =>
                        ar'.ptb[t] # None /\ AtLeast(ar'.ptb[t], ar.ptb[t])
<1>1. TypeOK /\ TypeOK'
  BY NextType DEF IInv
<1>2. \A traces \in Evaluations :
         /\ DOMAIN traces \subseteq Tasks
         /\ \A t \in DOMAIN traces : traces[t] \in Trace /\ Ordinary(traces[t])
  BY EvaluationType DEF OrdinaryScale
<1>3. ASSUME NEW id, id \notin DOMAIN ar.cand, NEW c, NEW bar,
             DOMAIN c.traces \subseteq Tasks,
             \A t \in DOMAIN c.traces : c.traces[t] \in Trace,
             id \in Ids, ar' = Add(ar, id, c, bar)
      PROVE  NoDrop
  <2> SUFFICES ASSUME NEW t \in Tasks, ar.ptb[t] # None
               PROVE  ar'.ptb[t] # None /\ AtLeast(ar'.ptb[t], ar.ptb[t])
    OBVIOUS
  <2>1. IsArchive(ar) /\ Scored(ar.ptb[t])
    BY <1>1, ContendersAreTraces DEF TypeOK
  <2>2. ar'.ptb[t] = IF t \in DOMAIN c.traces /\ TakesOver(ar, t, c.traces[t], bar)
                     THEN Entry(c.traces[t], id) ELSE ar.ptb[t]
    <3> DEFINE n == Add(ar, id, c, bar)
    <3>1. n.ptb = [u \in Tasks |->
                      IF u \in DOMAIN c.traces /\ TakesOver(ar, u, c.traces[u], bar)
                      THEN Entry(c.traces[u], id) ELSE ar.ptb[u]]
      BY <1>3, <2>1, AddParts
    <3>2. ar' = n
      BY <1>3
    <3> HIDE DEF n
    <3>3. QED
      BY <3>1, <3>2
  <2>3. CASE t \in DOMAIN c.traces /\ TakesOver(ar, t, c.traces[t], bar)
    <3>1. /\ Entry(c.traces[t], id) # None
          /\ Scored(c.traces[t])
          /\ Entry(c.traces[t], id).ok = c.traces[t].ok
          /\ Entry(c.traces[t], id).score = c.traces[t].score
      BY <1>3, <2>3, EntryRanksAsItsTrace
    <3>2. AtLeast(c.traces[t], ar.ptb[t])
      BY <2>1, <2>3, <3>1, BetterIsAtLeast DEF TakesOver
    <3>3. QED
      BY <2>2, <2>3, <3>1, <3>2 DEF AtLeast, Better
  <2>4. CASE ~(t \in DOMAIN c.traces /\ TakesOver(ar, t, c.traces[t], bar))
    BY <2>1, <2>2, <2>4, AtLeastIsReflexive
  <2>5. QED
    BY <2>3, <2>4
<1>4. CASE EvaluateSeed
  <2>1. PICK traces \in Evaluations :
            ar' = Add(ar, SeedId, Candidate(None, 1, traces), {})
    BY <1>4 DEF EvaluateSeed
  <2> DEFINE c == Candidate(None, 1, traces)
  <2>2. c.traces = traces
    BY DEF Candidate
  <2>3. ar = EmptyArchive /\ SeedId \notin DOMAIN ar.cand /\ SeedId \in Ids
    BY <1>4 DEF IInv, SeedPhase, EvaluateSeed, EmptyArchive, Ids
  <2> HIDE DEF c
  <2>4. ar' = Add(ar, SeedId, c, {})
    BY <2>1 DEF c
  <2>5. Kept
    BY <1>2, <2>2, <2>3, <2>4, AddKeepsTheIndex
  <2>6. NoDrop
    BY <1>2, <1>3, <2>2, <2>3, <2>4
  <2>7. SeedPhase'
    BY <1>4 DEF EvaluateSeed, SeedPhase
  <2>8. FloorPhase'
    BY <2>1, <2>3, SeedOwnsTheIndex DEF FloorPhase
  <2>9. QED
    BY <1>1, <2>5, <2>6, <2>7, <2>8 DEF IInv
<1>5. CASE EstablishBaseFloor
  <2>1. SeedPhase' /\ FloorPhase'
    BY <1>5 DEF EstablishBaseFloor, SeedPhase, FloorPhase
  <2>2. QED
    BY <1>1, <1>5, <2>1, FloorKeepsTheIndex DEF IInv
<1>6. ASSUME NEW id \in ChildIds, NEW parent \in DOMAIN ar.cand, AddChild(id, parent)
      PROVE  IInv' /\ NoDrop
  <2>1. PICK traces \in Evaluations, bar \in BarChoices :
            ar' = Add(ar, id, Candidate(parent, ar.cand[parent].depth + 1, traces), bar)
    BY <1>6 DEF AddChild
  <2> DEFINE c == Candidate(parent, ar.cand[parent].depth + 1, traces)
  <2>2. c.traces = traces
    BY DEF Candidate
  <2>3. id \in Ids /\ id \notin DOMAIN ar.cand /\ bar \subseteq Tasks
    BY <1>6, BarType DEF AddChild, Ids
  <2> HIDE DEF c
  <2>4. ar' = Add(ar, id, c, bar)
    BY <2>1 DEF c
  <2>5. Kept
    BY <1>2, <2>2, <2>3, <2>4, AddKeepsTheIndex
  <2>6. NoDrop
    BY <1>2, <1>3, <2>2, <2>3, <2>4
  <2>7. SeedPhase' /\ FloorPhase'
    BY <1>6 DEF AddChild, SeedPhase, FloorPhase
  <2>8. QED
    BY <1>1, <2>5, <2>6, <2>7 DEF IInv
<1>7. CASE Merge
  <2> DEFINE m == MergedCandidate(ar, 0)
  <2>1. /\ DOMAIN m.traces \subseteq Tasks
        /\ \A t \in DOMAIN m.traces : m.traces[t] \in Trace
    BY <1>1, MergedType
  <2>2. \A t \in DOMAIN m.traces : Ordinary(m.traces[t])
    <3> SUFFICES ASSUME NEW t \in DOMAIN m.traces PROVE Ordinary(m.traces[t])
      OBVIOUS
    <3>1. /\ t \in Tasks /\ ar.ptb[t] \in PtbEntry /\ ar.ptb[t].script
          /\ m.traces[t] = [ok |-> ar.ptb[t].ok, score |-> ar.ptb[t].score,
                            script |-> TRUE]
      BY <1>1, MergedType
    <3> HIDE DEF m
    <3>2. ar.ptb[t] # None
      BY <3>1, ArchiveAssumption
    <3>3. Ordinary(ar.ptb[t])
      BY <3>1, <3>2 DEF IInv, AllOrdinary
    <3>4. QED
      BY <3>1, <3>3 DEF Ordinary
  <2>3. MergeId \in Ids /\ MergeId \notin DOMAIN ar.cand
    BY <1>7 DEF Merge, Ids
  <2> HIDE DEF m
  <2>4. ar' = Add(ar, MergeId, m, {})
    BY <1>7 DEF Merge, m
  <2>5. Kept
    BY <2>1, <2>2, <2>3, <2>4, AddKeepsTheIndex
  <2>6. NoDrop
    BY <1>3, <2>1, <2>3, <2>4
  <2>7. SeedPhase' /\ FloorPhase'
    BY <1>7 DEF Merge, SeedPhase, FloorPhase
  <2>8. QED
    BY <1>1, <2>5, <2>6, <2>7 DEF IInv
<1>8. CASE UNCHANGED vars
  <2>1. ar' = ar /\ phase' = phase
    BY <1>8 DEF vars
  <2>2. IInv'
    <3>1. BarsAreArchived' /\ AllOrdinary'
      BY <2>1 DEF IInv, BarsAreArchived, AllOrdinary
    <3>2. SeedPhase' /\ FloorPhase'
      BY <2>1 DEF IInv, SeedPhase, FloorPhase
    <3>3. PerTaskBestDominates'
      <4>1. \A t \in Tasks : Contenders(t)' = Contenders(t)
        BY <2>1 DEF Contenders
      <4>2. QED
        BY <2>1, <4>1 DEF IInv, PerTaskBestDominates
    <3>4. PerTaskBestIsAttributed'
      BY <2>1 DEF IInv, PerTaskBestIsAttributed
    <3>5. QED
      BY <1>1, <3>1, <3>2, <3>3, <3>4 DEF IInv
  <2>3. NoDrop
    BY <1>1, <2>1, ContendersAreTraces, AtLeastIsReflexive
  <2>4. QED
    BY <2>2, <2>3
<1>9. QED
  BY <1>4, <1>5, <1>6, <1>7, <1>8 DEF Next

LEMMA InvariantHolds == OrdinaryScale => (Spec => []IInv)
<1> SUFFICES ASSUME OrdinaryScale PROVE Spec => []IInv
  OBVIOUS
<1>1. Init => IInv
  BY InitInvariant
<1>2. IInv /\ [Next]_vars => IInv'
  BY NextInvariant
<1>3. QED
  BY <1>1, <1>2, PTL DEF Spec

\* On an ordinary scale, whatever the order in which candidates, bars and the
\* floor reach the archive, nothing that competes for a task outranks its best.
THEOREM BestDominates == OrdinaryScale => (Spec => []PerTaskBestDominates)
<1> SUFFICES ASSUME OrdinaryScale PROVE Spec => []PerTaskBestDominates
  OBVIOUS
<1>1. IInv => PerTaskBestDominates
  BY DEF IInv
<1>2. QED
  BY <1>1, InvariantHolds, PTL

\* On an ordinary scale what is deployed for a task was measured, for that
\* task, by the candidate it is attributed to, which no bar excludes.
THEOREM BestIsAttributed == OrdinaryScale => (Spec => []PerTaskBestIsAttributed)
<1> SUFFICES ASSUME OrdinaryScale PROVE Spec => []PerTaskBestIsAttributed
  OBVIOUS
<1>1. IInv => PerTaskBestIsAttributed
  BY DEF IInv
<1>2. QED
  BY <1>1, InvariantHolds, PTL

\* On an ordinary scale what a live archive deploys for a task never drops.
THEOREM BestNeverDrops == OrdinaryScale => (Spec => PerTaskBestNeverDrops)
<1> SUFFICES ASSUME OrdinaryScale PROVE Spec => PerTaskBestNeverDrops
  OBVIOUS
<1>1. IInv /\ [Next]_vars =>
         [\A t \in Tasks : ar.ptb[t] # None =>
             ar.ptb'[t] # None /\ AtLeast(ar.ptb'[t], ar.ptb[t])]_vars
  BY NextInvariant
<1>2. QED
  BY <1>1, InvariantHolds, PTL DEF Spec, PerTaskBestNeverDrops

\* On an ordinary scale the deployable best never falls below what the base
\* solver alone achieved.
THEOREM FloorHolds == OrdinaryScale => (Spec => []FloorIsRespected)
<1> SUFFICES ASSUME OrdinaryScale PROVE Spec => []FloorIsRespected
  OBVIOUS
<1>1. PerTaskBestDominates => FloorIsRespected
  BY DEF PerTaskBestDominates, FloorIsRespected, Contenders
<1>2. QED
  BY <1>1, BestDominates, PTL

-----------------------------------------------------------------------------
(* Sums over a finite set, from the well-foundedness of the inclusion of   *)
(* finite sets: the least set a fact fails for cannot exist.               *)

Chosen(s) == CHOOSE x \in s : TRUE

\* g gives every subset of A its sum, element by element.
Adds(f, g, A) == g = [s \in SUBSET A |-> IF s = {} THEN 0 ELSE f[Chosen(s)] + g[s \ {Chosen(s)}]]

LEMMA SmallestSubset ==
    ASSUME NEW S, IsFiniteSet(S), NEW F \in SUBSET SUBSET S, F # {}
    PROVE  \E T \in F : \A U \in F : U \subseteq T => U = T
<1>1. F \in SUBSET FiniteSubsetsOf(S)
  BY FS_FiniteSubsetsOfFinite
<1>2. \E T \in F : \A U \in F : ~ (<<U, T>> \in StrictSubsetOrdering(S))
  BY <1>1, FS_StrictSubsetOrderingWellFounded, WFMin
<1>3. QED
  BY <1>1, <1>2 DEF StrictSubsetOrdering, FiniteSubsetsOf

LEMMA AddsAgree ==
    ASSUME NEW f, NEW A, IsFiniteSet(A), NEW B \in SUBSET A,
           NEW g, Adds(f, g, A), NEW h, Adds(f, h, B)
    PROVE  \A s \in SUBSET B : g[s] = h[s]
<1> DEFINE F == {s \in SUBSET B : g[s] # h[s]}
<1>1. SUFFICES ASSUME F # {} PROVE FALSE
  OBVIOUS
<1>2. IsFiniteSet(B)
  BY FS_Subset
<1>3. PICK T \in F : \A U \in F : U \subseteq T => U = T
  <2> HIDE DEF F
  <2>1. F \in SUBSET SUBSET B
    BY DEF F
  <2>2. QED
    BY <1>1, <1>2, <2>1, SmallestSubset
<1>4. CASE T = {}
  BY <1>4 DEF Adds
<1>5. CASE T # {}
  <2>1. Chosen(T) \in T
    BY <1>5 DEF Chosen
  <2>2. T \ {Chosen(T)} \in SUBSET B /\ T \ {Chosen(T)} \notin F
    BY <1>3, <2>1
  <2>3. g[T \ {Chosen(T)}] = h[T \ {Chosen(T)}]
    BY <2>2
  <2>4. g[T] = f[Chosen(T)] + g[T \ {Chosen(T)}] /\ h[T] = f[Chosen(T)] + h[T \ {Chosen(T)}]
    BY <1>5 DEF Adds
  <2>5. QED
    BY <2>3, <2>4
<1>6. QED
  BY <1>4, <1>5

LEMMA AddsExists ==
    ASSUME NEW f, NEW A, IsFiniteSet(A)
    PROVE  \E g : Adds(f, g, A)
<1> DEFINE F == {s \in SUBSET A : ~ \E g : Adds(f, g, s)}
<1>1. SUFFICES ASSUME F # {} PROVE FALSE
  OBVIOUS
<1>2. PICK T \in F : \A U \in F : U \subseteq T => U = T
  <2> HIDE DEF F
  <2>1. F \in SUBSET SUBSET A
    BY DEF F
  <2>2. QED
    BY <1>1, <2>1, SmallestSubset
<1> DEFINE h(U) == CHOOSE g : Adds(f, g, U)
           g == [s \in SUBSET T |->
                   IF s = {} THEN 0 ELSE f[Chosen(s)] + h(s \ {Chosen(s)})[s \ {Chosen(s)}]]
<1>3. ASSUME NEW U \in SUBSET T, U # T PROVE Adds(f, h(U), U)
  <2>1. \E k : Adds(f, k, U)
    BY <1>2, <1>3
  <2>2. QED
    BY <2>1
<1>4. ASSUME NEW s \in SUBSET T, s # {} PROVE g[s \ {Chosen(s)}] = h(s \ {Chosen(s)})[s \ {Chosen(s)}]
  <2> DEFINE U == s \ {Chosen(s)}
  <2>1. Chosen(s) \in s
    BY <1>4 DEF Chosen
  <2>2. U \in SUBSET T /\ U # T
    BY <2>1
  <2>3. Adds(f, h(U), U)
    BY <1>3, <2>2
  <2>4. CASE U = {}
    BY <2>3, <2>4 DEF Adds
  <2>5. CASE U # {}
    <3> DEFINE V == U \ {Chosen(U)}
    <3>1. Chosen(U) \in U
      BY <2>5 DEF Chosen
    <3>2. V \in SUBSET U /\ V # T /\ V \in SUBSET T
      BY <2>2, <3>1
    <3>3. Adds(f, h(V), V)
      BY <1>3, <3>2
    <3>4. IsFiniteSet(U)
      BY <2>2, FS_Subset
    <3>5. h(U)[V] = h(V)[V]
      <4> HIDE DEF h, U, V
      <4> QED
        BY <2>3, <3>2, <3>3, <3>4, AddsAgree
    <3>6. h(U)[U] = f[Chosen(U)] + h(U)[V]
      <4> HIDE DEF h, U
      <4> QED
        BY <2>3, <2>5 DEF Adds
    <3>7. g[U] = f[Chosen(U)] + h(V)[V]
      BY <2>2, <2>5
    <3>8. QED
      BY <3>5, <3>6, <3>7
  <2>6. QED
    BY <2>4, <2>5
<1>5. Adds(f, g, T)
  <2>1. \A s \in SUBSET T : g[s] = IF s = {} THEN 0 ELSE f[Chosen(s)] + g[s \ {Chosen(s)}]
    <3> TAKE s \in SUBSET T
    <3>1. CASE s = {}
      BY <3>1
    <3>2. CASE s # {}
      <4>1. g[s] = f[Chosen(s)] + h(s \ {Chosen(s)})[s \ {Chosen(s)}]
        BY <3>2
      <4>2. g[s \ {Chosen(s)}] = h(s \ {Chosen(s)})[s \ {Chosen(s)}]
        BY <1>4, <3>2
      <4> HIDE DEF g, h
      <4>3. QED
        BY <3>2, <4>1, <4>2
    <3>3. QED
      BY <3>1, <3>2
  <2>2. g = [s \in SUBSET T |-> g[s]]
    OBVIOUS
  <2> HIDE DEF g
  <2>3. QED
    BY <2>1, <2>2 DEF Adds
<1>6. QED
  <2> HIDE DEF g
  <2> QED
    BY <1>2, <1>5

Sum(f, S) == SumFunctionOnSet(f, S)

LEMMA SumIsChosen ==
    ASSUME NEW f, NEW A, IsFiniteSet(A)
    PROVE  Sum(f, A) = IF A = {} THEN 0 ELSE f[Chosen(A)] + Sum(f, A \ {Chosen(A)})
<1> DEFINE h(U) == CHOOSE g : Adds(f, g, U)
<1>1. \A U \in SUBSET A : IsFiniteSet(U) /\ Adds(f, h(U), U)
  <2> TAKE U \in SUBSET A
  <2>1. IsFiniteSet(U)
    BY FS_Subset
  <2>2. \E g : Adds(f, g, U)
    BY <2>1, AddsExists
  <2>3. QED
    BY <2>1, <2>2
<1>2. \A U \in SUBSET A : Sum(f, U) = h(U)[U]
  BY DEF Sum, SumFunctionOnSet, FoldFunctionOnSet, MapThenFoldSet, Adds, Chosen
<1> HIDE DEF h
<1>3. CASE A = {}
  BY <1>1, <1>2, <1>3 DEF Adds
<1>4. CASE A # {}
  <2> DEFINE V == A \ {Chosen(A)}
  <2>1. V \in SUBSET A
    OBVIOUS
  <2>2. h(A)[A] = f[Chosen(A)] + h(A)[V]
    BY <1>1, <1>4 DEF Adds
  <2>3. h(A)[V] = h(V)[V]
    <3>1. Adds(f, h(A), A) /\ Adds(f, h(V), V) /\ V \in SUBSET V
      BY <1>1, <2>1
    <3> HIDE DEF V
    <3>2. QED
      BY <2>1, <3>1, AddsAgree
  <2>4. QED
    BY <1>2, <1>4, <2>1, <2>2, <2>3
<1>5. QED
  BY <1>3, <1>4

LEMMA SumIsInt ==
    ASSUME NEW A, IsFiniteSet(A), NEW f \in [A -> Int]
    PROVE  \A s \in SUBSET A : Sum(f, s) \in Int
<1> DEFINE F == {s \in SUBSET A : Sum(f, s) \notin Int}
<1>1. SUFFICES ASSUME F # {} PROVE FALSE
  OBVIOUS
<1>2. PICK T \in F : \A U \in F : U \subseteq T => U = T
  <2> HIDE DEF F
  <2>1. F \in SUBSET SUBSET A
    BY DEF F
  <2>2. QED
    BY <1>1, <2>1, SmallestSubset
<1>3. Sum(f, T) = IF T = {} THEN 0 ELSE f[Chosen(T)] + Sum(f, T \ {Chosen(T)})
  <2>1. IsFiniteSet(T)
    BY <1>2, FS_Subset
  <2>2. QED
    BY <2>1, SumIsChosen
<1>4. T # {}
  BY <1>2, <1>3
<1>5. Chosen(T) \in T
  BY <1>4 DEF Chosen
<1>6. T \ {Chosen(T)} \in SUBSET A /\ T \ {Chosen(T)} \notin F
  BY <1>2, <1>5
<1>7. Sum(f, T \ {Chosen(T)}) \in Int /\ f[Chosen(T)] \in Int
  BY <1>5, <1>6
<1>8. QED
  BY <1>2, <1>3, <1>4, <1>7

LEMMA SumFunctionIsInt ==
    ASSUME NEW A, IsFiniteSet(A), NEW f \in [A -> Int]
    PROVE  SumFunction(f) \in Int
<1>1. SumFunction(f) = Sum(f, A)
  BY DEF SumFunction, Sum
<1>2. QED
  BY <1>1, SumIsInt

-----------------------------------------------------------------------------
(* The merge.                                                              *)

LEMMA ExtremesExist ==
    ASSUME NEW S, \A x \in S : x \in Int, IsFiniteSet(S), S # {}
    PROVE  /\ Max(S) \in S /\ \A y \in S : Max(S) >= y
           /\ Min(S) \in S /\ \A y \in S : Min(S) <= y
<1>1. \E x \in S : \A y \in S : x >= y
  <2> DEFINE F == {{y \in S : y >= x} : x \in S}
  <2>1. F \in SUBSET SUBSET S /\ F # {}
    OBVIOUS
  <2>2. \E T \in F : \A U \in F : U \subseteq T => U = T
    <3> HIDE DEF F
    <3>1. F \in SUBSET SUBSET S
      BY <2>1
    <3>2. QED
      BY <2>1, <3>1, SmallestSubset
  <2>3. PICK x \in S : \A U \in F : U \subseteq {y \in S : y >= x} => U = {y \in S : y >= x}
    BY <2>2
  <2>4. ASSUME NEW z \in S, z > x PROVE FALSE
    <3>1. \A y \in S : y >= z => y >= x
      <4> TAKE y \in S
      <4>1. x \in Int /\ y \in Int /\ z \in Int
        OBVIOUS
      <4>2. QED
        BY <2>4, <4>1
    <3>2. x \in {y \in S : y >= x} /\ x \notin {y \in S : y >= z}
      BY <2>4
    <3>3. QED
      BY <2>3, <3>1, <3>2
  <2> HIDE DEF F
  <2>5. \A y \in S : x >= y
    BY <2>4
  <2>6. QED
    BY <2>5
<1>2. \E x \in S : \A y \in S : x <= y
  <2> DEFINE F == {{y \in S : y <= x} : x \in S}
  <2>1. F \in SUBSET SUBSET S /\ F # {}
    OBVIOUS
  <2>2. \E T \in F : \A U \in F : U \subseteq T => U = T
    <3> HIDE DEF F
    <3>1. F \in SUBSET SUBSET S
      BY <2>1
    <3>2. QED
      BY <2>1, <3>1, SmallestSubset
  <2>3. PICK x \in S : \A U \in F : U \subseteq {y \in S : y <= x} => U = {y \in S : y <= x}
    BY <2>2
  <2>4. ASSUME NEW z \in S, z < x PROVE FALSE
    <3>1. \A y \in S : y <= z => y <= x
      <4> TAKE y \in S
      <4>1. x \in Int /\ y \in Int /\ z \in Int
        OBVIOUS
      <4>2. QED
        BY <2>4, <4>1
    <3>2. x \in {y \in S : y <= x} /\ x \notin {y \in S : y <= z}
      BY <2>4
    <3>3. QED
      BY <2>3, <3>1, <3>2
  <2> HIDE DEF F
  <2>5. \A y \in S : x <= y
    BY <2>4
  <2>6. QED
    BY <2>5
<1>3. QED
  BY <1>1, <1>2 DEF Max, Min

\* add() of a new id leaves the candidates that were there.
LEMMA AddCandidates ==
    ASSUME NEW a, NEW id, id \notin DOMAIN a.cand, NEW c, NEW bar
    PROVE  /\ DOMAIN Add(a, id, c, bar).cand = DOMAIN a.cand \cup {id}
           /\ Add(a, id, c, bar).cand[id] = c
           /\ \A x \in DOMAIN a.cand : Add(a, id, c, bar).cand[x] = a.cand[x]
BY DEF Add

\* What is archived has a mean, and nothing is frozen while the archive lives.
MeansAreNumbers ==
    /\ \A x \in DOMAIN ar.cand : ar.cand[x].mean \in Int
    /\ ar.range = None

LEMMA MeanIsInt ==
    ASSUME NEW S \in SUBSET Tasks, NEW traces \in [S -> Trace]
    PROVE  MeanOf(traces) \in Int
<1> DEFINE scores == [t \in DOMAIN traces |-> traces[t].score]
           n == Cardinality(DOMAIN traces)
<1>1. IsFiniteSet(S) /\ DOMAIN traces = S
  BY TasksAssumption, FS_Subset
<1>2. n \in Nat
  BY <1>1, FS_CardinalityType
<1>3. SumFunction(scores) \in Int
  <2>1. scores \in [S -> Int]
    BY <1>1 DEF Trace
  <2> HIDE DEF scores
  <2>2. QED
    BY <1>1, <2>1, SumFunctionIsInt
<1>4. MeanOf(traces) = IF n = 0 THEN 0 ELSE (MeanUnit * SumFunction(scores)) \div n
  BY DEF MeanOf
<1> DEFINE total == SumFunction(scores)
<1>5. total \in Int /\ MeanUnit \in Nat
  BY <1>3, MeanUnitAssumption
<1> HIDE DEF total, n
<1>6. ASSUME n # 0 PROVE (MeanUnit * total) \div n \in Int
  <2> DEFINE product == MeanUnit * total
  <2>1. product \in Int
    BY <1>5
  <2> HIDE DEF product
  <2>2. product \div n \in Int
    BY <1>2, <1>6, <2>1
  <2>3. QED
    BY <2>2 DEF product
<1>7. QED
  BY <1>4, <1>6 DEF total

LEMMA EvaluationMeanIsInt ==
    ASSUME NEW traces \in Evaluations
    PROVE  MeanOf(traces) \in Int
<1>1. PICK S \in SUBSET Tasks : traces \in [S -> Outcomes]
  BY DEF Evaluations
<1>2. traces \in [S -> Trace]
  BY <1>1, ArchiveAssumption
<1>3. QED
  BY <1>2, MeanIsInt

LEMMA OracleIsInt ==
    ASSUME TypeOK, Cardinality(Tasks) > 1
    PROVE  OracleMean(ar) \in Int
<1> DEFINE score == [t \in Tasks |-> IF ar.ptb[t] = None THEN 0 ELSE ar.ptb[t].score]
           total == SumFunction(score)
           n == Cardinality(Tasks)
<1>1. score \in [Tasks -> Int]
  BY DEF TypeOK, PtbEntry
<1>2. total \in Int
  <2> HIDE DEF score
  <2>1. QED
    BY <1>1, TasksAssumption, SumFunctionIsInt
<1>3. n \in Nat /\ n > 1 /\ MeanUnit \in Nat
  BY TasksAssumption, FS_CardinalityType, MeanUnitAssumption
<1>4. OracleMean(ar) = (MeanUnit * total) \div n
  BY DEF OracleMean
<1> HIDE DEF total, n
<1> DEFINE product == MeanUnit * total
<1>5. product \in Int
  BY <1>2, <1>3
<1> HIDE DEF product
<1>6. product \div n \in Int
  BY <1>3, <1>5
<1>7. QED
  BY <1>4, <1>6 DEF product

LEMMA RangeIsNat ==
    ASSUME TypeOK, MeansAreNumbers
    PROVE  ScoreRange(ar) \in Nat
<1> DEFINE means == {ar.cand[x].mean : x \in DOMAIN ar.cand}
<1>1. IsFiniteSet(DOMAIN ar.cand)
  <2>1. IsFiniteSet(Ids)
    <3>1. IsFiniteSet(ChildIds \cup {SeedId})
      BY ArchiveAssumption, FS_AddElement
    <3>2. IsFiniteSet((ChildIds \cup {SeedId}) \cup {MergeId})
      BY <3>1, FS_AddElement
    <3>3. Ids = (ChildIds \cup {SeedId}) \cup {MergeId}
      BY DEF Ids
    <3>4. QED
      BY <3>2, <3>3
  <2>2. QED
    BY <2>1, FS_Subset DEF TypeOK
<1>2. IsFiniteSet(means)
  <2> DEFINE f == [x \in DOMAIN ar.cand |-> ar.cand[x].mean]
  <2>1. f \in Surjection(DOMAIN ar.cand, means)
    BY DEF Surjection
  <2> HIDE DEF f, means
  <2>2. QED
    BY <1>1, <2>1, FS_Surjection
<1>3. means \in SUBSET Int
  BY DEF MeansAreNumbers
<1>4. ScoreRange(ar) = IF means = {} THEN 0 ELSE Max(means) - Min(means)
  BY DEF ScoreRange, MeansAreNumbers
<1> HIDE DEF means
<1>5. CASE means = {}
  BY <1>4, <1>5
<1>6. CASE means # {}
  <2>1. Max(means) \in Int /\ Min(means) \in Int /\ Max(means) >= Min(means)
    BY <1>2, <1>3, <1>6, ExtremesExist
  <2>2. QED
    BY <1>4, <1>6, <2>1
<1>7. QED
  BY <1>5, <1>6

\* add() of a candidate that has a mean.
LEMMA AddKeepsMeans ==
    ASSUME TypeOK, MeansAreNumbers, NEW id, id \notin DOMAIN ar.cand, NEW c, c.mean \in Int,
           NEW bar, ar' = Add(ar, id, c, bar)
    PROVE  MeansAreNumbers'
<1>1. /\ DOMAIN ar'.cand = DOMAIN ar.cand \cup {id}
      /\ ar'.cand[id] = c
      /\ \A x \in DOMAIN ar.cand : ar'.cand[x] = ar.cand[x]
  BY AddCandidates
<1>2. ar'.range = ar.range
  BY DEF Add
<1>3. QED
  BY <1>1, <1>2 DEF MeansAreNumbers

LEMMA MeansKeep == TypeOK /\ SeedPhase /\ MeansAreNumbers /\ [Next]_vars => MeansAreNumbers'
<1> SUFFICES ASSUME TypeOK, SeedPhase, MeansAreNumbers, [Next]_vars PROVE MeansAreNumbers'
  OBVIOUS
<1>1. CASE EvaluateSeed
  <2>1. PICK traces \in Evaluations : ar' = Add(ar, SeedId, Candidate(None, 1, traces), {})
    BY <1>1 DEF EvaluateSeed
  <2>2. Candidate(None, 1, traces).mean \in Int
    BY EvaluationMeanIsInt DEF Candidate
  <2>3. SeedId \notin DOMAIN ar.cand
    BY <1>1 DEF EvaluateSeed, SeedPhase, EmptyArchive
  <2>4. QED
    BY <2>1, <2>2, <2>3, AddKeepsMeans
<1>2. CASE EstablishBaseFloor
  <2>1. ar'.cand = ar.cand /\ ar'.range = ar.range
    BY <1>2 DEF EstablishBaseFloor, SetBaseFloor
  <2>2. QED
    BY <2>1 DEF MeansAreNumbers
<1>3. ASSUME NEW id \in ChildIds, NEW parent \in DOMAIN ar.cand, AddChild(id, parent)
      PROVE  MeansAreNumbers'
  <2>1. PICK traces \in Evaluations, bar \in BarChoices :
            ar' = Add(ar, id, Candidate(parent, ar.cand[parent].depth + 1, traces), bar)
    BY <1>3 DEF AddChild
  <2>2. Candidate(parent, ar.cand[parent].depth + 1, traces).mean \in Int
    BY EvaluationMeanIsInt DEF Candidate
  <2>3. id \notin DOMAIN ar.cand
    BY <1>3 DEF AddChild
  <2>4. QED
    BY <2>1, <2>2, <2>3, AddKeepsMeans
<1>4. CASE Merge
  <2>1. MergedCandidate(ar, 0).mean = OracleMean(ar)
    BY DEF MergedCandidate
  <2>2. OracleMean(ar) \in Int
    BY <1>4, OracleIsInt DEF Merge, CanMerge
  <2>3. QED
    BY <1>4, <2>1, <2>2, AddKeepsMeans DEF Merge
<1>5. CASE UNCHANGED vars
  BY <1>5 DEF vars, MeansAreNumbers
<1>6. QED
  BY <1>1, <1>2, <1>3, <1>4, <1>5 DEF Next

\* The gate of a merge nobody forces leaves the best mean below the oracle.
LEMMA OracleExceedsBest ==
    ASSUME TypeOK, MeansAreNumbers, CanMerge(ar, FALSE), ar.best # None
    PROVE  OracleMean(ar) > ar.cand[ar.best].mean
<1> DEFINE o == OracleMean(ar)
           b == ar.cand[ar.best].mean
           r == ScoreRange(ar)
<1>1. o \in Int
  BY OracleIsInt DEF CanMerge
<1>2. b \in Int
  BY DEF TypeOK, MeansAreNumbers
<1>3. r \in Nat
  BY RangeIsNat
<1>4. 100 * (o - b) > 5 * r
  BY DEF CanMerge, BestMean
<1> HIDE DEF o, b, r
<1>5. o > b
  BY <1>1, <1>2, <1>3, <1>4
<1>6. QED
  BY <1>5 DEF o, b

\* The merged candidate takes over from no one.
LEMMA MergeTakesNothing ==
    ASSUME TypeOK
    PROVE  LET c == MergedCandidate(ar, 0)
           IN  \A t \in Tasks \cap DOMAIN c.traces : ~TakesOver(ar, t, c.traces[t], {})
<1> DEFINE c == MergedCandidate(ar, 0)
           routed == {t \in Tasks : ar.ptb[t] # None /\ ar.ptb[t].script}
<1>1. SUFFICES ASSUME NEW t \in DOMAIN c.traces PROVE ~TakesOver(ar, t, c.traces[t], {})
  OBVIOUS
<1>2. c.traces = [u \in routed |->
                     [ok |-> ar.ptb[u].ok, score |-> ar.ptb[u].score, script |-> TRUE]]
  BY DEF MergedCandidate
<1>3. /\ t \in Tasks /\ ar.ptb[t] # None
      /\ c.traces[t].ok = ar.ptb[t].ok /\ c.traces[t].score = ar.ptb[t].score
  BY <1>1, <1>2
<1>4. ar.ptb[t] \in PtbEntry
  BY <1>3 DEF TypeOK
<1> HIDE DEF c
<1>5. ~Better(c.traces[t], ar.ptb[t])
  BY <1>3, <1>4 DEF Better, PtbEntry
<1>6. QED
  BY <1>3, <1>5 DEF TakesOver

\* What a merge leaves of the claims of MergeDeploysTheOracle.
MergeClaims ==
    /\ ar'.cand[MergeId].mean = OracleMean(ar)
    /\ ar'.ptb = ar.ptb
    /\ BestMean(ar') >= OracleMean(ar')
    /\ ar'.best # MergeId => consolidate /\ OracleMean(ar) <= BestMean(ar)

LEMMA MergeStep ==
    ASSUME TypeOK, MeansAreNumbers, Merge
    PROVE  MergeClaims
<1> DEFINE c == MergedCandidate(ar, 0)
<1>1. /\ MergeId \notin DOMAIN ar.cand /\ CanMerge(ar, consolidate)
      /\ ar' = Add(ar, MergeId, c, {})
  BY DEF Merge
<1>2. c.mean = OracleMean(ar)
  BY DEF MergedCandidate
<1>3. \A t \in Tasks \cap DOMAIN c.traces : ~TakesOver(ar, t, c.traces[t], {})
  BY MergeTakesNothing
<1> HIDE DEF c
<1>4. /\ ar'.cand[MergeId] = c
      /\ \A x \in DOMAIN ar.cand : ar'.cand[x] = ar.cand[x]
  BY <1>1, AddCandidates
<1>5. ar'.ptb = [t \in Tasks |-> IF t \in DOMAIN c.traces /\ TakesOver(ar, t, c.traces[t], {})
                                 THEN Entry(c.traces[t], MergeId) ELSE ar.ptb[t]]
  BY <1>1 DEF Add
<1>6. ar'.ptb = [t \in Tasks |-> ar.ptb[t]]
  BY <1>3, <1>5
<1>7. ar'.ptb = ar.ptb
  BY <1>6 DEF TypeOK
<1>8. OracleMean(ar') = OracleMean(ar)
  BY <1>7 DEF OracleMean
<1>9. OracleMean(ar) \in Int
  BY <1>1, OracleIsInt DEF CanMerge
<1>10. ar'.best = IF ar.best = None \/ c.mean > ar.cand[ar.best].mean THEN MergeId ELSE ar.best
  BY <1>1 DEF Add
<1>11. MergeId # None
  BY ArchiveAssumption DEF Ids
<1>12. CASE ar.best = None \/ c.mean > ar.cand[ar.best].mean
  <2>1. ar'.best = MergeId
    BY <1>10, <1>12
  <2>2. BestMean(ar') = OracleMean(ar)
    BY <1>2, <1>4, <1>11, <2>1 DEF BestMean
  <2>3. QED
    BY <1>2, <1>4, <1>7, <1>8, <1>9, <2>1, <2>2 DEF MergeClaims
<1>13. CASE ~(ar.best = None \/ c.mean > ar.cand[ar.best].mean)
  <2>1. ar.best # None /\ ~(OracleMean(ar) > ar.cand[ar.best].mean) /\ ar'.best = ar.best
    BY <1>2, <1>10, <1>13
  <2>2. ar.best \in DOMAIN ar.cand /\ ar.cand[ar.best].mean \in Int
    BY <2>1 DEF TypeOK, MeansAreNumbers
  <2>3. BestMean(ar) = ar.cand[ar.best].mean /\ BestMean(ar') = ar.cand[ar.best].mean
    BY <1>4, <2>1, <2>2 DEF BestMean
  <2>4. OracleMean(ar) <= ar.cand[ar.best].mean
    BY <1>9, <2>1, <2>2
  <2>5. ~CanMerge(ar, FALSE)
    BY <2>1, OracleExceedsBest
  <2>6. consolidate
    <3>1. consolidate \in BOOLEAN
      BY DEF TypeOK
    <3>2. QED
      BY <1>1, <2>5, <3>1
  <2>7. QED
    BY <1>2, <1>4, <1>7, <1>8, <2>3, <2>4, <2>6 DEF MergeClaims
<1>14. QED
  BY <1>12, <1>13

\* On every scale of scores the merge has the mean of the oracle, takes no task
\* from who won it and leaves no reported best below the oracle; it is that best
\* unless --consolidate forced it over a chain that was as good.
THEOREM MergeIsTheOracle == Spec => MergeDeploysTheOracle
<1> DEFINE MInv == TypeOK /\ SeedPhase /\ MeansAreNumbers
<1>1. Init => MInv
  BY InitType DEF Init, SeedPhase, MeansAreNumbers, EmptyArchive
<1>2. MInv /\ [Next]_vars => MInv'
  <2>1. SeedPhase /\ [Next]_vars => SeedPhase'
    BY DEF SeedPhase, Next, EvaluateSeed, EstablishBaseFloor, AddChild, Merge, vars
  <2>2. QED
    BY <2>1, NextType, MeansKeep
<1>3. MInv /\ [Next]_vars =>
         [MergeId \notin DOMAIN ar.cand /\ MergeId \in DOMAIN ar.cand' =>
             /\ ar.cand'[MergeId].mean = OracleMean(ar)
             /\ ar.ptb' = ar.ptb
             /\ BestMean(ar') >= OracleMean(ar')
             /\ ar.best' # MergeId => consolidate /\ OracleMean(ar) <= BestMean(ar)]_vars
  <2> SUFFICES ASSUME MInv, Next, MergeId \notin DOMAIN ar.cand, MergeId \in DOMAIN ar'.cand
               PROVE  MergeClaims
    BY DEF MergeClaims
  <2>1. CASE EvaluateSeed
    <3>1. SeedId \notin DOMAIN ar.cand
      BY <2>1 DEF EvaluateSeed, SeedPhase, EmptyArchive
    <3>2. \E c : ar' = Add(ar, SeedId, c, {})
      BY <2>1 DEF EvaluateSeed
    <3>3. DOMAIN ar'.cand = DOMAIN ar.cand \cup {SeedId}
      BY <3>1, <3>2, AddCandidates
    <3>4. QED
      BY <3>3, ArchiveAssumption
  <2>2. CASE EstablishBaseFloor
    <3>1. ar'.cand = ar.cand
      BY <2>2 DEF EstablishBaseFloor, SetBaseFloor
    <3>2. QED
      BY <3>1
  <2>3. ASSUME NEW id \in ChildIds, NEW parent \in DOMAIN ar.cand, AddChild(id, parent)
        PROVE  FALSE
    <3>1. id \notin DOMAIN ar.cand /\ \E c, bar : ar' = Add(ar, id, c, bar)
      BY <2>3 DEF AddChild
    <3>2. DOMAIN ar'.cand = DOMAIN ar.cand \cup {id}
      BY <3>1, AddCandidates
    <3>3. QED
      BY <3>2, ArchiveAssumption
  <2>4. CASE Merge
    BY <2>4, MergeStep
  <2>5. QED
    BY <2>1, <2>2, <2>3, <2>4 DEF Next
<1>4. QED
  BY <1>1, <1>2, <1>3, PTL DEF Spec, MergeDeploysTheOracle

=============================================================================
