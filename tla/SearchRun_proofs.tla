--------------------------- MODULE SearchRun_proofs ---------------------------
(***************************************************************************)
(* Proofs about the search that can be killed at any moment, for any       *)
(* number of iterations, slots, tasks, crashes and lost checkpoints: what  *)
(* is on disk is what is in memory, what was done is not done again, and a *)
(* resumed process goes on where the one before it was.                    *)
(***************************************************************************)
EXTENDS SearchRun, FiniteSetTheorems, TLAPS

-----------------------------------------------------------------------------
(* Sums over a finite set, from the well-foundedness of the inclusion of   *)
(* finite sets: the least set a fact fails for cannot exist.               *)

Chosen(s) == CHOOSE x \in s : TRUE

\* g gives every subset of A its sum, element by element.
Adds(f, g, A) == g = [s \in SUBSET A |-> IF s = {} THEN 0 ELSE f[Chosen(s)] + g[s \ {Chosen(s)}]]

LEMMA SmallestSubset ==
    ASSUME NEW S, IsFiniteSet(S), NEW F \in SUBSET SUBSET S, F # {}
    PROVE  \E T \in F : \A U \in F : U \subseteq T => U = T
<1>1. F \in SUBSET FiniteSubsetsOf(S)
  BY FS_FiniteSubsetsOfFinite
<1>2. \E T \in F : \A U \in F : ~ (<<U, T>> \in StrictSubsetOrdering(S))
  BY <1>1, FS_StrictSubsetOrderingWellFounded, WFMin
<1>3. QED
  BY <1>1, <1>2 DEF StrictSubsetOrdering, FiniteSubsetsOf

LEMMA AddsAgree ==
    ASSUME NEW f, NEW A, IsFiniteSet(A), NEW B \in SUBSET A,
           NEW g, Adds(f, g, A), NEW h, Adds(f, h, B)
    PROVE  \A s \in SUBSET B : g[s] = h[s]
<1> DEFINE F == {s \in SUBSET B : g[s] # h[s]}
<1>1. SUFFICES ASSUME F # {} PROVE FALSE
  OBVIOUS
<1>2. IsFiniteSet(B)
  BY FS_Subset
<1>3. PICK T \in F : \A U \in F : U \subseteq T => U = T
  <2> HIDE DEF F
  <2>1. F \in SUBSET SUBSET B
    BY DEF F
  <2>2. QED
    BY <1>1, <1>2, <2>1, SmallestSubset
<1>4. CASE T = {}
  BY <1>4 DEF Adds
<1>5. CASE T # {}
  <2>1. Chosen(T) \in T
    BY <1>5 DEF Chosen
  <2>2. T \ {Chosen(T)} \in SUBSET B /\ T \ {Chosen(T)} \notin F
    BY <1>3, <2>1
  <2>3. g[T \ {Chosen(T)}] = h[T \ {Chosen(T)}]
    BY <2>2
  <2>4. g[T] = f[Chosen(T)] + g[T \ {Chosen(T)}] /\ h[T] = f[Chosen(T)] + h[T \ {Chosen(T)}]
    BY <1>5 DEF Adds
  <2>5. QED
    BY <2>3, <2>4
<1>6. QED
  BY <1>4, <1>5

LEMMA AddsExists ==
    ASSUME NEW f, NEW A, IsFiniteSet(A)
    PROVE  \E g : Adds(f, g, A)
<1> DEFINE F == {s \in SUBSET A : ~ \E g : Adds(f, g, s)}
<1>1. SUFFICES ASSUME F # {} PROVE FALSE
  OBVIOUS
<1>2. PICK T \in F : \A U \in F : U \subseteq T => U = T
  <2> HIDE DEF F
  <2>1. F \in SUBSET SUBSET A
    BY DEF F
  <2>2. QED
    BY <1>1, <2>1, SmallestSubset
<1> DEFINE h(U) == CHOOSE g : Adds(f, g, U)
           g == [s \in SUBSET T |->
                   IF s = {} THEN 0 ELSE f[Chosen(s)] + h(s \ {Chosen(s)})[s \ {Chosen(s)}]]
<1>3. ASSUME NEW U \in SUBSET T, U # T PROVE Adds(f, h(U), U)
  <2>1. \E k : Adds(f, k, U)
    BY <1>2, <1>3
  <2>2. QED
    BY <2>1
<1>4. ASSUME NEW s \in SUBSET T, s # {} PROVE g[s \ {Chosen(s)}] = h(s \ {Chosen(s)})[s \ {Chosen(s)}]
  <2> DEFINE U == s \ {Chosen(s)}
  <2>1. Chosen(s) \in s
    BY <1>4 DEF Chosen
  <2>2. U \in SUBSET T /\ U # T
    BY <2>1
  <2>3. Adds(f, h(U), U)
    BY <1>3, <2>2
  <2>4. CASE U = {}
    BY <2>3, <2>4 DEF Adds
  <2>5. CASE U # {}
    <3> DEFINE V == U \ {Chosen(U)}
    <3>1. Chosen(U) \in U
      BY <2>5 DEF Chosen
    <3>2. V \in SUBSET U /\ V # T /\ V \in SUBSET T
      BY <2>2, <3>1
    <3>3. Adds(f, h(V), V)
      BY <1>3, <3>2
    <3>4. IsFiniteSet(U)
      BY <2>2, FS_Subset
    <3>5. h(U)[V] = h(V)[V]
      <4> HIDE DEF h, U, V
      <4> QED
        BY <2>3, <3>2, <3>3, <3>4, AddsAgree
    <3>6. h(U)[U] = f[Chosen(U)] + h(U)[V]
      <4> HIDE DEF h, U
      <4> QED
        BY <2>3, <2>5 DEF Adds
    <3>7. g[U] = f[Chosen(U)] + h(V)[V]
      BY <2>2, <2>5
    <3>8. QED
      BY <3>5, <3>6, <3>7
  <2>6. QED
    BY <2>4, <2>5
<1>5. Adds(f, g, T)
  <2>1. \A s \in SUBSET T : g[s] = IF s = {} THEN 0 ELSE f[Chosen(s)] + g[s \ {Chosen(s)}]
    <3> TAKE s \in SUBSET T
    <3>1. CASE s = {}
      BY <3>1
    <3>2. CASE s # {}
      <4>1. g[s] = f[Chosen(s)] + h(s \ {Chosen(s)})[s \ {Chosen(s)}]
        BY <3>2
      <4>2. g[s \ {Chosen(s)}] = h(s \ {Chosen(s)})[s \ {Chosen(s)}]
        BY <1>4, <3>2
      <4> HIDE DEF g, h
      <4>3. QED
        BY <3>2, <4>1, <4>2
    <3>3. QED
      BY <3>1, <3>2
  <2>2. g = [s \in SUBSET T |-> g[s]]
    OBVIOUS
  <2> HIDE DEF g
  <2>3. QED
    BY <2>1, <2>2 DEF Adds
<1>6. QED
  <2> HIDE DEF g
  <2> QED
    BY <1>2, <1>5

Sum(f, S) == SumFunctionOnSet(f, S)

LEMMA SumIsChosen ==
    ASSUME NEW f, NEW A, IsFiniteSet(A)
    PROVE  Sum(f, A) = IF A = {} THEN 0 ELSE f[Chosen(A)] + Sum(f, A \ {Chosen(A)})
<1> DEFINE h(U) == CHOOSE g : Adds(f, g, U)
<1>1. \A U \in SUBSET A : IsFiniteSet(U) /\ Adds(f, h(U), U)
  <2> TAKE U \in SUBSET A
  <2>1. IsFiniteSet(U)
    BY FS_Subset
  <2>2. \E g : Adds(f, g, U)
    BY <2>1, AddsExists
  <2>3. QED
    BY <2>1, <2>2
<1>2. \A U \in SUBSET A : Sum(f, U) = h(U)[U]
  BY DEF Sum, SumFunctionOnSet, FoldFunctionOnSet, MapThenFoldSet, Adds, Chosen
<1> HIDE DEF h
<1>3. CASE A = {}
  BY <1>1, <1>2, <1>3 DEF Adds
<1>4. CASE A # {}
  <2> DEFINE V == A \ {Chosen(A)}
  <2>1. V \in SUBSET A
    OBVIOUS
  <2>2. h(A)[A] = f[Chosen(A)] + h(A)[V]
    BY <1>1, <1>4 DEF Adds
  <2>3. h(A)[V] = h(V)[V]
    <3>1. Adds(f, h(A), A) /\ Adds(f, h(V), V) /\ V \in SUBSET V
      BY <1>1, <2>1
    <3> HIDE DEF V
    <3>2. QED
      BY <2>1, <3>1, AddsAgree
  <2>4. QED
    BY <1>2, <1>4, <2>1, <2>2, <2>3
<1>5. QED
  BY <1>3, <1>4

LEMMA SumIsInt ==
    ASSUME NEW A, IsFiniteSet(A), NEW f \in [A -> Int]
    PROVE  \A s \in SUBSET A : Sum(f, s) \in Int
<1> DEFINE F == {s \in SUBSET A : Sum(f, s) \notin Int}
<1>1. SUFFICES ASSUME F # {} PROVE FALSE
  OBVIOUS
<1>2. PICK T \in F : \A U \in F : U \subseteq T => U = T
  <2> HIDE DEF F
  <2>1. F \in SUBSET SUBSET A
    BY DEF F
  <2>2. QED
    BY <1>1, <2>1, SmallestSubset
<1>3. Sum(f, T) = IF T = {} THEN 0 ELSE f[Chosen(T)] + Sum(f, T \ {Chosen(T)})
  <2>1. IsFiniteSet(T)
    BY <1>2, FS_Subset
  <2>2. QED
    BY <2>1, SumIsChosen
<1>4. T # {}
  BY <1>2, <1>3
<1>5. Chosen(T) \in T
  BY <1>4 DEF Chosen
<1>6. T \ {Chosen(T)} \in SUBSET A /\ T \ {Chosen(T)} \notin F
  BY <1>2, <1>5
<1>7. Sum(f, T \ {Chosen(T)}) \in Int /\ f[Chosen(T)] \in Int
  BY <1>5, <1>6
<1>8. QED
  BY <1>2, <1>3, <1>4, <1>7

LEMMA SumFunctionIsInt ==
    ASSUME NEW A, IsFiniteSet(A), NEW f \in [A -> Int]
    PROVE  SumFunction(f) \in Int
<1>1. SumFunction(f) = Sum(f, A)
  BY DEF SumFunction, Sum
<1>2. QED
  BY <1>1, SumIsInt


\* The least number a fact fails for.
LEMMA LeastNat ==
    ASSUME NEW N \in Nat, NEW S \in SUBSET (0..N), S # {}
    PROVE  \E m \in S : \A n \in S : m <= n
<1> DEFINE F == {0..n : n \in S}
<1>1. F \in SUBSET SUBSET (0..N) /\ F # {}
  <2>1. \A n \in S : 0..n \subseteq 0..N
    OBVIOUS
  <2>2. QED
    BY <2>1
<1>2. IsFiniteSet(0..N)
  BY FS_Interval
<1>3. \E T \in F : \A U \in F : U \subseteq T => U = T
  <2> DEFINE I == 0..N
  <2>1. F \in SUBSET SUBSET I /\ F # {} /\ IsFiniteSet(I)
    BY <1>1, <1>2
  <2> HIDE DEF F, I
  <2> QED
    BY <2>1, SmallestSubset
<1>4. PICK m \in S : \A U \in F : U \subseteq 0..m => U = 0..m
  BY <1>3
<1>5. ASSUME NEW n \in S, n < m PROVE FALSE
  <2>1. 0..n \subseteq 0..m /\ m \in 0..m /\ m \notin 0..n
    BY <1>5
  <2>2. QED
    BY <1>4, <2>1
<1>6. QED
  BY <1>5

-----------------------------------------------------------------------------
(* Names.                                                                  *)

LEMMA IdParts ==
    ASSUME NEW x \in Ids
    PROVE  /\ x[1] \in Nat /\ x[2] \in Nat /\ x[3] \in Nat /\ x[4] \in Nat
           /\ x = <<x[1], x[2], x[3], x[4]>>
BY DEF Ids

LEMMA NamesDiffer ==
    ASSUME NEW x \in Ids
    PROVE  /\ Refined(x) \in Ids /\ Refined(x)[4] = 1 /\ Refined(x) = <<x[1], x[2], x[3], 1>>
           /\ Repropagated(x) \in Ids /\ Repropagated(x)[4] = 2
           /\ Repropagated(x) = <<x[1], x[2], x[3], 2>>
           /\ x[4] = 0 => [Repropagated(x) EXCEPT ![4] = 0] = x
<1>1. /\ Refined(x) \in Ids /\ Refined(x)[4] = 1 /\ Refined(x) = <<x[1], x[2], x[3], 1>>
      /\ Repropagated(x) \in Ids /\ Repropagated(x)[4] = 2
      /\ Repropagated(x) = <<x[1], x[2], x[3], 2>>
  BY DEF Ids, Refined, Repropagated
<1>2. [<<x[1], x[2], x[3], 2>> EXCEPT ![4] = 0] = <<x[1], x[2], x[3], 0>>
  OBVIOUS
<1>3. QED
  BY <1>1, <1>2, IdParts

LEMMA SlotParts ==
    ASSUME NEW n \in 1..Slots
    PROVE  /\ (n - 1) \div BeamCandidates \in Nat
           /\ (n - 1) % BeamCandidates \in Nat
           /\ n - 1 = BeamCandidates * ((n - 1) \div BeamCandidates) + ((n - 1) % BeamCandidates)
           /\ 1 + (n - 1) \div BeamCandidates \in 1..BeamWidth
<1> DEFINE c == BeamCandidates
           b == BeamWidth
           a == n - 1
<1>1. c \in Nat \ {0} /\ b \in Nat \ {0} /\ a \in Nat /\ a < b * c
  BY SearchAssumption DEF Slots
<1> HIDE DEF a, b, c
<1>2. a \div c \in Nat /\ a % c \in Nat /\ a = c * (a \div c) + (a % c)
  BY <1>1
<1>3. a \div c < b
  BY <1>1
<1>4. 1 + a \div c \in 1..b
  BY <1>1, <1>2, <1>3
<1>5. QED
  BY <1>2, <1>4 DEF a, b, c

\* Two slots breed two names, and no name but theirs.
LEMMA ChildIdType ==
    ASSUME NEW i \in Nat, NEW n \in 1..Slots
    PROVE  /\ ChildId(i, n) \in Ids /\ ChildId(i, n)[1] = i /\ ChildId(i, n)[4] = 0
           /\ i > 0 => ChildId(i, n) # SeedId
           /\ i <= MaxIterations => ChildId(i, n) # MergeId
<1>1. ChildId(i, n) \in Ids /\ ChildId(i, n)[1] = i /\ ChildId(i, n)[4] = 0
  BY SlotParts DEF ChildId, Ids
<1>2. MergeId[1] > MaxIterations /\ MergeId[1] \in Nat /\ SeedId[1] = 0 /\ MaxIterations \in Nat
  BY IdsAssumption, SearchAssumption, IdParts
<1> HIDE DEF ChildId
<1>3. QED
  BY <1>1, <1>2

LEMMA ChildIdInjective ==
    ASSUME NEW i \in Nat, NEW n \in 1..Slots, NEW j \in Nat, NEW m \in 1..Slots,
           ChildId(i, n) = ChildId(j, m)
    PROVE  i = j /\ n = m
<1>1. /\ i = j
      /\ (n - 1) \div BeamCandidates = (m - 1) \div BeamCandidates
      /\ (n - 1) % BeamCandidates = (m - 1) % BeamCandidates
  BY DEF ChildId
<1>2. n - 1 = m - 1
  BY <1>1, SlotParts
<1>3. QED
  BY <1>1, <1>2 DEF Slots

\* The names are in a strict total order.
LEMMA NamesAreOrdered ==
    /\ \A x \in Ids : ~NameBefore(x, x)
    /\ \A x, y \in Ids : x # y => NameBefore(x, y) \/ NameBefore(y, x)
    /\ \A x, y, z \in Ids : NameBefore(x, y) /\ NameBefore(y, z) => NameBefore(x, z)
<1>1. ASSUME NEW x \in Ids PROVE ~NameBefore(x, x)
  BY DEF Ids, NameBefore
<1>2. ASSUME NEW x \in Ids, NEW y \in Ids, x # y
      PROVE  NameBefore(x, y) \/ NameBefore(y, x)
  BY <1>2 DEF Ids, NameBefore
<1>3. ASSUME NEW x \in Ids, NEW y \in Ids, NEW z \in Ids, NameBefore(x, y), NameBefore(y, z)
      PROVE  NameBefore(x, z)
  BY <1>3 DEF Ids, NameBefore
<1>4. QED
  BY <1>1, <1>2, <1>3

-----------------------------------------------------------------------------
(* The archive: what its operations do to its parts.                       *)

\* A candidate, whole or read from a directory that was written in part.
IsCandidate(c) ==
    /\ c = [parent |-> c.parent, iter |-> c.iter, depth |-> c.depth,
            routed |-> c.routed, mean |-> c.mean, traces |-> c.traces]
    /\ c.parent \in Ids \cup {None} /\ c.iter \in Int /\ c.depth \in Nat \ {0}
    /\ c.routed \in BOOLEAN /\ c.mean \in Int
    /\ c.traces = [t \in DOMAIN c.traces |-> c.traces[t]]
    /\ DOMAIN c.traces \subseteq Tasks
    /\ \A t \in DOMAIN c.traces : c.traces[t] \in Trace

\* As the search makes them: the mean is that of the traces, unless it is the
\* merge.
Earned(c) == ~c.routed => c.mean = MeanOf(c.traces)

LEMMA CandidateIsSome ==
    ASSUME NEW c, IsCandidate(c)
    PROVE  c # None /\ Summary(c) # None
<1>1. c.traces \in [DOMAIN c.traces -> Trace]
  BY DEF IsCandidate
<1>2. c \in [parent : Ids \cup {None}, iter : Int, depth : Nat, routed : BOOLEAN, mean : Int,
             traces : UNION {[S -> Trace] : S \in SUBSET Tasks}]
  <2>1. c.traces \in UNION {[S -> Trace] : S \in SUBSET Tasks}
    BY <1>1 DEF IsCandidate
  <2> DEFINE U == UNION {[S -> Trace] : S \in SUBSET Tasks}
  <2> HIDE DEF U
  <2>2. c.traces \in U
    BY <2>1 DEF U
  <2>3. c \in [parent : Ids \cup {None}, iter : Int, depth : Nat, routed : BOOLEAN,
               mean : Int, traces : U]
    BY <2>2 DEF IsCandidate
  <2>4. QED
    BY <2>3 DEF U
<1>3. Summary(c) \in [parent : Ids \cup {None}, iter : Int, depth : Nat,
                      routed : BOOLEAN, mean : Int]
  BY DEF Summary, IsCandidate
<1>4. QED
  BY <1>2, <1>3, NoValueAssumption

PtbEntry == [ok : BOOLEAN, score : Int, script : BOOLEAN, by : Ids]

BestIsGreatest(a) ==
    IF a.best = None THEN DOMAIN a.cand = {}
    ELSE /\ a.best \in DOMAIN a.cand
         /\ \A x \in DOMAIN a.cand : a.cand[x].mean <= a.cand[a.best].mean

\* An archive made by add() and set_base_floor().
IsSound(a) ==
    /\ IsArchive(a)
    /\ DOMAIN a.cand \subseteq Ids
    /\ \A x \in DOMAIN a.cand : IsCandidate(a.cand[x])
    /\ a.ptb \in [Tasks -> PtbEntry \cup {None}]
    /\ a.floor \in [Tasks -> Trace \cup {None}]
    /\ \A p \in a.bars : \E x \in DOMAIN a.cand : \E t \in DOMAIN a.cand[x].traces : p = <<x, t>>
    /\ BestIsGreatest(a)

BarredIn(a, id) == {t \in Tasks : <<id, t>> \in a.bars}

LEMMA AddParts ==
    ASSUME NEW a, IsArchive(a), NEW id, id \notin DOMAIN a.cand, NEW c, NEW bar
    PROVE  LET n == Add(a, id, c, bar)
           IN  /\ IsArchive(n)
               /\ DOMAIN n.cand = DOMAIN a.cand \cup {id}
               /\ n.cand[id] = c
               /\ \A x \in DOMAIN a.cand : n.cand[x] = a.cand[x]
               /\ n.best = IF a.best = None \/ c.mean > a.cand[a.best].mean THEN id ELSE a.best
               /\ n.ptb = [t \in Tasks |->
                              IF t \in DOMAIN c.traces /\ TakesOver(a, t, c.traces[t], bar)
                              THEN Entry(c.traces[t], id) ELSE a.ptb[t]]
               /\ n.floor = a.floor
               /\ n.bars = a.bars \cup {<<id, t>> : t \in bar \cap DOMAIN c.traces}
               /\ n.range = a.range
BY DEF Add, IsArchive

LEMMA FloorParts ==
    ASSUME NEW a, IsArchive(a), NEW fl
    PROVE  LET n == SetBaseFloor(a, fl)
           IN  /\ IsArchive(n)
               /\ n.cand = a.cand
               /\ n.best = a.best
               /\ n.ptb = [t \in Tasks |->
                              IF t \in DOMAIN fl /\ RaisedByFloor(a, t, fl[t])
                              THEN Entry(fl[t], SeedId) ELSE a.ptb[t]]
               /\ n.floor = [t \in Tasks |-> IF t \in DOMAIN fl THEN fl[t] ELSE a.floor[t]]
               /\ n.bars = a.bars
               /\ n.range = a.range
BY DEF SetBaseFloor, IsArchive

LEMMA EntryType ==
    ASSUME NEW tr \in Trace, NEW id \in Ids
    PROVE  Entry(tr, id) \in PtbEntry /\ Entry(tr, id) # None
BY NoValueAssumption DEF Entry, Trace, PtbEntry

LEMMA AddBest ==
    ASSUME NEW a, IsSound(a), NEW id \in Ids, id \notin DOMAIN a.cand, NEW c, IsCandidate(c),
           NEW bar
    PROVE  BestIsGreatest(Add(a, id, c, bar))
<1> DEFINE n == Add(a, id, c, bar)
<1>0. IsArchive(a)
  BY DEF IsSound
<1>1. /\ DOMAIN n.cand = DOMAIN a.cand \cup {id}
      /\ n.cand[id] = c
      /\ \A x \in DOMAIN a.cand : n.cand[x] = a.cand[x]
      /\ n.best = IF a.best = None \/ c.mean > a.cand[a.best].mean THEN id ELSE a.best
  <2>1. n.best = IF a.best = None \/ c.mean > a.cand[a.best].mean THEN id ELSE a.best
    BY DEF Add
  <2>2. /\ DOMAIN n.cand = DOMAIN a.cand \cup {id}
        /\ n.cand[id] = c
        /\ \A x \in DOMAIN a.cand : n.cand[x] = a.cand[x]
    BY DEF Add
  <2>3. QED
    BY <2>1, <2>2, Zenon
<1>2. /\ BestIsGreatest(a) /\ \A x \in DOMAIN a.cand : a.cand[x].mean \in Int
      /\ c.mean \in Int /\ id # None
  BY NoValueAssumption DEF IsSound, IsCandidate
<1> SUFFICES BestIsGreatest(n)
  OBVIOUS
<1> HIDE DEF n
<1>3. CASE a.best = None
  BY <1>1, <1>2, <1>3 DEF BestIsGreatest
<1>4. CASE a.best # None /\ c.mean > a.cand[a.best].mean
  BY <1>1, <1>2, <1>4 DEF BestIsGreatest
<1>5. CASE a.best # None /\ ~ (c.mean > a.cand[a.best].mean)
  BY <1>1, <1>2, <1>5 DEF BestIsGreatest
<1>6. QED
  BY <1>3, <1>4, <1>5

\* add() of a new candidate.
LEMMA AddIsSound ==
    ASSUME NEW a, IsSound(a), NEW id \in Ids, id \notin DOMAIN a.cand, NEW c, IsCandidate(c),
           NEW bar
    PROVE  LET n == Add(a, id, c, bar)
           IN  /\ IsSound(n)
               /\ DOMAIN n.cand = DOMAIN a.cand \cup {id}
               /\ n.cand[id] = c
               /\ \A x \in DOMAIN a.cand : n.cand[x] = a.cand[x] /\ BarredIn(n, x) = BarredIn(a, x)
               /\ BarredIn(n, id) = bar \cap DOMAIN c.traces
               /\ n.floor = a.floor
<1> DEFINE n == Add(a, id, c, bar)
<1>0. IsArchive(a)
  BY DEF IsSound
<1>1. /\ IsArchive(n)
      /\ DOMAIN n.cand = DOMAIN a.cand \cup {id}
      /\ n.cand[id] = c
      /\ \A x \in DOMAIN a.cand : n.cand[x] = a.cand[x]
      /\ n.ptb = [t \in Tasks |->
                     IF t \in DOMAIN c.traces /\ TakesOver(a, t, c.traces[t], bar)
                     THEN Entry(c.traces[t], id) ELSE a.ptb[t]]
      /\ n.floor = a.floor
      /\ n.bars = a.bars \cup {<<id, t>> : t \in bar \cap DOMAIN c.traces}
  BY <1>0, AddParts
<1>2. BestIsGreatest(n)
  BY AddBest
<1> HIDE DEF n
<1>3. n.ptb \in [Tasks -> PtbEntry \cup {None}]
  <2>1. \A t \in DOMAIN c.traces : Entry(c.traces[t], id) \in PtbEntry
    BY EntryType DEF IsCandidate
  <2>2. a.ptb \in [Tasks -> PtbEntry \cup {None}]
    BY DEF IsSound
  <2>3. QED
    BY <1>1, <2>1, <2>2
<1>4. \A x \in DOMAIN n.cand : IsCandidate(n.cand[x])
  BY <1>1 DEF IsSound
<1>5. \A p \in n.bars : \E x \in DOMAIN n.cand : \E t \in DOMAIN n.cand[x].traces : p = <<x, t>>
  <2> TAKE p \in n.bars
  <2>1. CASE p \in a.bars
    BY <1>1, <2>1 DEF IsSound
  <2>2. CASE p \notin a.bars
    BY <1>1, <2>2
  <2>3. QED
    BY <2>1, <2>2
<1>6. n.floor \in [Tasks -> Trace \cup {None}] /\ DOMAIN n.cand \subseteq Ids
  BY <1>1 DEF IsSound
<1>7. IsSound(n)
  BY <1>1, <1>2, <1>3, <1>4, <1>5, <1>6 DEF IsSound
<1>8. \A x \in DOMAIN a.cand : BarredIn(n, x) = BarredIn(a, x)
  BY <1>1 DEF BarredIn
<1>9. BarredIn(n, id) = bar \cap DOMAIN c.traces
  <2>1. \A t : <<id, t>> \notin a.bars
    BY DEF IsSound
  <2>2. DOMAIN c.traces \subseteq Tasks
    BY DEF IsCandidate
  <2>3. QED
    BY <1>1, <2>1, <2>2 DEF BarredIn
<1>10. QED
  BY <1>1, <1>7, <1>8, <1>9 DEF n

\* set_base_floor().
LEMMA FloorIsSound ==
    ASSUME NEW a, IsSound(a), NEW fl, \A t \in DOMAIN fl : fl[t] \in Trace
    PROVE  LET n == SetBaseFloor(a, fl)
           IN  IsSound(n) /\ n.cand = a.cand /\ n.bars = a.bars
<1> DEFINE n == SetBaseFloor(a, fl)
<1>1. /\ IsArchive(n)
      /\ n.cand = a.cand
      /\ n.best = a.best
      /\ n.ptb = [t \in Tasks |->
                     IF t \in DOMAIN fl /\ RaisedByFloor(a, t, fl[t])
                     THEN Entry(fl[t], SeedId) ELSE a.ptb[t]]
      /\ n.floor = [t \in Tasks |-> IF t \in DOMAIN fl THEN fl[t] ELSE a.floor[t]]
      /\ n.bars = a.bars
  BY FloorParts DEF IsSound
<1> HIDE DEF n
<1>2. n.ptb \in [Tasks -> PtbEntry \cup {None}]
  <2>1. SeedId \in Ids
    BY IdsAssumption DEF Ids
  <2>2. \A t \in DOMAIN fl : Entry(fl[t], SeedId) \in PtbEntry
    BY <2>1, EntryType
  <2>3. a.ptb \in [Tasks -> PtbEntry \cup {None}]
    BY DEF IsSound
  <2>4. QED
    BY <1>1, <2>2, <2>3
<1>3. n.floor \in [Tasks -> Trace \cup {None}]
  <2>1. a.floor \in [Tasks -> Trace \cup {None}]
    BY DEF IsSound
  <2>2. QED
    BY <1>1, <2>1
<1>4. QED
  BY <1>1, <1>2, <1>3 DEF IsSound, BestIsGreatest, n

LEMMA EmptyIsSound == IsSound(EmptyArchive)
BY DEF IsSound, EmptyArchive, IsArchive, BestIsGreatest

LEMMA MeanIsInt ==
    ASSUME NEW traces, DOMAIN traces \subseteq Tasks, \A t \in DOMAIN traces : traces[t] \in Trace
    PROVE  MeanOf(traces) \in Int
<1> DEFINE D == DOMAIN traces
           scores == [t \in D |-> traces[t].score]
           n == Cardinality(D)
<1>1. IsFiniteSet(D)
  BY TasksAssumption, FS_Subset
<1>2. n \in Nat
  BY <1>1, FS_CardinalityType
<1>3. scores \in [D -> Int]
  BY DEF Trace
<1> HIDE DEF D, scores
<1>4. SumFunction(scores) \in Int
  BY <1>1, <1>3, SumFunctionIsInt
<1> HIDE DEF n
<1>5. n # 0 => (MeanUnit * SumFunction(scores)) \div n \in Int
  BY <1>2, <1>4, MeanUnitAssumption
<1>6. QED
  BY <1>5 DEF MeanOf, n, D, scores

LEMMA OracleMeanIsInt ==
    ASSUME NEW a, IsSound(a), Cardinality(Tasks) > 1
    PROVE  OracleMean(a) \in Int
<1> DEFINE score == [t \in Tasks |-> IF a.ptb[t] = None THEN 0 ELSE a.ptb[t].score]
           n == Cardinality(Tasks)
<1>1. score \in [Tasks -> Int]
  BY DEF IsSound, PtbEntry
<1> HIDE DEF score
<1>2. SumFunction(score) \in Int
  BY <1>1, TasksAssumption, SumFunctionIsInt
<1>3. n \in Nat
  BY TasksAssumption, FS_CardinalityType
<1> HIDE DEF n
<1>4. n > 1
  BY DEF n
<1>5. (MeanUnit * SumFunction(score)) \div n \in Int
  BY <1>2, <1>3, <1>4, MeanUnitAssumption
<1>6. QED
  BY <1>5 DEF OracleMean, n, score

-----------------------------------------------------------------------------
(* The per-task bests.  On the scales the regression guard was written for *)
(* an entry has the rank of the best of all that compete for the task, in  *)
(* whatever order they came.                                               *)

\* A crash scores 0, a solve that ran scores more and leaves a script.
Ordinary(tr) == IF tr.ok THEN tr.score > 0 /\ tr.script ELSE tr.score = 0

OrdinaryScale == \A traces \in Evaluations : \A t \in Tasks : Ordinary(traces[t])

\* The traces of the candidates that no bar excludes, and the floor when it can
\* be deployed.
Unbarred(a, t) == {y \in DOMAIN a.cand : t \in DOMAIN a.cand[y].traces /\ <<y, t>> \notin a.bars}

Deployable(a, t) == IF a.floor[t] # None /\ a.floor[t].script THEN {a.floor[t]} ELSE {}

Contenders(a, t) == {a.cand[x].traces[t] : x \in Unbarred(a, t)} \cup Deployable(a, t)

AllOrdinary(a) ==
    /\ \A x \in DOMAIN a.cand : \A t \in DOMAIN a.cand[x].traces : Ordinary(a.cand[x].traces[t])
    /\ \A t \in Tasks : a.floor[t] # None => Ordinary(a.floor[t])

\* e has the rank of the best of C.
Tops(e, C) ==
    IF e = None THEN C = {}
    ELSE /\ \A tr \in C : AtLeast(e, tr)
         /\ \E tr \in C : e.ok = tr.ok /\ e.score = tr.score

IsRanked(a) == AllOrdinary(a) /\ \A t \in Tasks : Tops(a.ptb[t], Contenders(a, t))

LEMMA ContendersAreTraces ==
    ASSUME NEW a, IsSound(a), AllOrdinary(a), NEW t \in Tasks
    PROVE  \A tr \in Contenders(a, t) : tr \in Trace /\ Ordinary(tr)
<1> TAKE tr \in Contenders(a, t)
<1>1. CASE \E x \in DOMAIN a.cand : t \in DOMAIN a.cand[x].traces /\ tr = a.cand[x].traces[t]
  <2>1. PICK x \in DOMAIN a.cand : t \in DOMAIN a.cand[x].traces /\ tr = a.cand[x].traces[t]
    BY <1>1
  <2>2. IsCandidate(a.cand[x])
    BY DEF IsSound
  <2>3. tr \in Trace
    BY <2>1, <2>2 DEF IsCandidate
  <2>4. QED
    BY <2>1, <2>3 DEF AllOrdinary
<1>2. CASE a.floor[t] # None /\ tr = a.floor[t]
  BY <1>2 DEF IsSound, AllOrdinary
<1>3. QED
  BY <1>1, <1>2 DEF Contenders, Unbarred, Deployable

\* One more contender, that took over.
LEMMA TopsTaken ==
    ASSUME NEW C, \A x \in C : x \in Trace, NEW tr \in Trace, NEW e,
           e # None => e.ok \in BOOLEAN /\ e.score \in Int /\ Better(tr, e), Tops(e, C),
           NEW n, n # None, n.ok = tr.ok, n.score = tr.score
    PROVE  Tops(n, C \cup {tr})
<1>1. tr.ok \in BOOLEAN /\ tr.score \in Int /\ \A x \in C : x.ok \in BOOLEAN /\ x.score \in Int
  BY DEF Trace
<1>2. AtLeast(n, tr)
  BY <1>1 DEF AtLeast, Better
<1>3. ASSUME NEW x \in C PROVE AtLeast(n, x)
  <2>1. e # None /\ AtLeast(e, x)
    BY <1>3 DEF Tops
  <2>2. QED
    BY <1>1, <2>1 DEF AtLeast, Better
<1>4. QED
  BY <1>2, <1>3 DEF Tops

\* One more contender, that is no better.
LEMMA TopsKept ==
    ASSUME NEW C, NEW tr, NEW e, e # None, Tops(e, C), AtLeast(e, tr)
    PROVE  Tops(e, C \cup {tr})
BY DEF Tops

\* The clamp of add() is safe: what it refuses is dominated by the entry.
LEMMA RefusedIsDominated ==
    ASSUME NEW a, IsSound(a), IsRanked(a), NEW t \in Tasks, NEW tr \in Trace, Ordinary(tr),
           NEW bar, t \notin bar, ~TakesOver(a, t, tr, bar)
    PROVE  a.ptb[t] # None /\ AtLeast(a.ptb[t], tr)
<1> DEFINE e == a.ptb[t]
           fl == a.floor[t]
<1>1. /\ tr.ok \in BOOLEAN /\ tr.score \in Int
      /\ fl # None => fl \in Trace /\ Ordinary(fl) /\ fl.ok \in BOOLEAN /\ fl.score \in Int
      /\ e # None => e.ok \in BOOLEAN /\ e.score \in Int
  BY DEF IsSound, IsRanked, AllOrdinary, Trace, PtbEntry
<1>2. Tops(e, Contenders(a, t))
  BY DEF IsRanked
<1>3. CASE fl = None \/ AtLeast(tr, fl)
  BY <1>3 DEF TakesOver, AtLeast
<1>4. CASE fl # None /\ Better(fl, tr)
  <2>1. fl.script
    BY <1>1, <1>4 DEF Ordinary, Better
  <2>2. fl \in Contenders(a, t)
    BY <1>4, <2>1 DEF Contenders, Deployable
  <2>3. e # None /\ AtLeast(e, fl)
    BY <1>2, <2>2 DEF Tops
  <2>4. AtLeast(e, tr)
    BY <1>1, <1>4, <2>3 DEF AtLeast, Better
  <2>5. QED
    BY <2>3, <2>4
<1>5. QED
  BY <1>3, <1>4 DEF AtLeast

LEMMA AddIsRanked ==
    ASSUME NEW a, IsSound(a), IsRanked(a), NEW id \in Ids, id \notin DOMAIN a.cand,
           NEW c, IsCandidate(c), NEW bar, \A t \in DOMAIN c.traces : Ordinary(c.traces[t])
    PROVE  IsRanked(Add(a, id, c, bar))
<1> DEFINE n == Add(a, id, c, bar)
           takes(t) == t \in DOMAIN c.traces /\ TakesOver(a, t, c.traces[t], bar)
<1>1. IsArchive(a) /\ AllOrdinary(a) /\ \A t : <<id, t>> \notin a.bars
  BY DEF IsSound, IsRanked
<1>2. /\ DOMAIN n.cand = DOMAIN a.cand \cup {id}
      /\ n.cand[id] = c
      /\ \A x \in DOMAIN a.cand : n.cand[x] = a.cand[x]
      /\ n.ptb = [t \in Tasks |-> IF takes(t) THEN Entry(c.traces[t], id) ELSE a.ptb[t]]
      /\ n.floor = a.floor
      /\ n.bars = a.bars \cup {<<id, t>> : t \in bar \cap DOMAIN c.traces}
  BY <1>1 DEF Add
<1>3. \A t \in DOMAIN c.traces : c.traces[t] \in Trace
  BY DEF IsCandidate
<1>4. ASSUME NEW t \in Tasks, takes(t)
      PROVE  /\ t \in DOMAIN c.traces /\ t \notin bar
             /\ a.ptb[t] # None => Better(c.traces[t], a.ptb[t])
  BY <1>4 DEF TakesOver
<1>5. ASSUME NEW t \in Tasks, ~takes(t), t \in DOMAIN c.traces, t \notin bar
      PROVE  a.ptb[t] # None /\ AtLeast(a.ptb[t], c.traces[t])
  BY <1>3, <1>5, RefusedIsDominated
<1> SUFFICES IsRanked(n)
  OBVIOUS
<1> HIDE DEF n, takes
<1>6. AllOrdinary(n)
  BY <1>1, <1>2 DEF AllOrdinary
<1>7. ASSUME NEW t \in Tasks PROVE Tops(n.ptb[t], Contenders(n, t))
  <2>1. Tops(a.ptb[t], Contenders(a, t)) /\ \A x \in Contenders(a, t) : x \in Trace
    BY <1>1, ContendersAreTraces DEF IsRanked
  <2>2. a.ptb[t] # None => a.ptb[t].ok \in BOOLEAN /\ a.ptb[t].score \in Int
    BY DEF IsSound, PtbEntry
  <2>3. Contenders(n, t) = IF t \in DOMAIN c.traces /\ t \notin bar
                           THEN Contenders(a, t) \cup {c.traces[t]} ELSE Contenders(a, t)
    <3>1. \A x \in DOMAIN a.cand : <<x, t>> \in n.bars <=> <<x, t>> \in a.bars
      BY <1>2
    <3>2. t \in DOMAIN c.traces => (<<id, t>> \in n.bars <=> t \in bar)
      BY <1>1, <1>2
    <3>3. Unbarred(n, t) = IF t \in DOMAIN c.traces /\ t \notin bar
                           THEN Unbarred(a, t) \cup {id} ELSE Unbarred(a, t)
      BY <1>1, <1>2, <3>1, <3>2 DEF Unbarred
    <3>4. /\ \A x \in Unbarred(a, t) : n.cand[x].traces[t] = a.cand[x].traces[t]
          /\ Deployable(n, t) = Deployable(a, t)
      BY <1>2 DEF Unbarred, Deployable
    <3>5. {n.cand[x].traces[t] : x \in Unbarred(n, t)} =
             IF t \in DOMAIN c.traces /\ t \notin bar
             THEN {a.cand[x].traces[t] : x \in Unbarred(a, t)} \cup {c.traces[t]}
             ELSE {a.cand[x].traces[t] : x \in Unbarred(a, t)}
      BY <1>2, <3>3, <3>4
    <3>6. QED
      BY <3>4, <3>5 DEF Contenders
  <2>4. CASE takes(t)
    <3>1. n.ptb[t] = Entry(c.traces[t], id)
      BY <1>2, <2>4
    <3>2. /\ n.ptb[t] # None
          /\ n.ptb[t].ok = c.traces[t].ok /\ n.ptb[t].score = c.traces[t].score
      BY <1>3, <1>4, <2>4, <3>1, EntryType DEF Entry
    <3>3. /\ c.traces[t] \in Trace
          /\ a.ptb[t] # None => Better(c.traces[t], a.ptb[t])
          /\ Contenders(n, t) = Contenders(a, t) \cup {c.traces[t]}
      BY <1>3, <1>4, <2>3, <2>4
    <3>4. Tops(n.ptb[t], Contenders(a, t) \cup {c.traces[t]})
      BY <2>1, <2>2, <3>2, <3>3, TopsTaken
    <3>5. QED
      BY <3>3, <3>4
  <2>5. CASE ~takes(t)
    <3>1. n.ptb[t] = a.ptb[t]
      BY <1>2, <2>5
    <3>2. QED
      BY <1>5, <2>1, <2>3, <2>5, <3>1, TopsKept
  <2>6. QED
    BY <2>4, <2>5
<1>8. QED
  BY <1>6, <1>7 DEF IsRanked

\* The floor is installed once, by the seed's run or after a replay, over
\* whatever is there.
LEMMA FloorIsRanked ==
    ASSUME NEW a, IsSound(a), IsRanked(a), \A t \in Tasks : a.floor[t] = None,
           NEW fl, \A t \in DOMAIN fl : fl[t] \in Trace /\ Ordinary(fl[t])
    PROVE  IsRanked(SetBaseFloor(a, fl))
<1> DEFINE n == SetBaseFloor(a, fl)
           up(t) == t \in DOMAIN fl /\ RaisedByFloor(a, t, fl[t])
<1>1. /\ n.cand = a.cand
      /\ n.ptb = [t \in Tasks |-> IF up(t) THEN Entry(fl[t], SeedId) ELSE a.ptb[t]]
      /\ n.floor = [t \in Tasks |-> IF t \in DOMAIN fl THEN fl[t] ELSE a.floor[t]]
      /\ n.bars = a.bars
  BY DEF SetBaseFloor
<1>2. ASSUME NEW t \in Tasks, t \in DOMAIN fl
      PROVE  up(t) <=> fl[t].script /\ (a.ptb[t] = None \/ fl[t].score > a.ptb[t].score)
  BY <1>2 DEF RaisedByFloor
<1>3. ASSUME NEW t \in Tasks, t \notin DOMAIN fl PROVE ~up(t)
  BY <1>3
<1> SUFFICES IsRanked(n)
  OBVIOUS
<1> HIDE DEF n, up
<1>4. AllOrdinary(n)
  <2>1. \A t \in Tasks : n.floor[t] # None => Ordinary(n.floor[t])
    BY <1>1
  <2>2. QED
    BY <1>1, <2>1 DEF AllOrdinary, IsRanked
<1>5. ASSUME NEW t \in Tasks PROVE Tops(n.ptb[t], Contenders(n, t))
  <2> DEFINE e == a.ptb[t]
             C == Contenders(a, t)
  <2>1. Tops(e, C) /\ \A x \in C : x \in Trace /\ Ordinary(x)
    BY ContendersAreTraces DEF IsRanked
  <2>2. e # None => e.ok \in BOOLEAN /\ e.score \in Int
    BY DEF IsSound, PtbEntry
  <2>3. Contenders(n, t) = IF t \in DOMAIN fl /\ fl[t].script THEN C \cup {fl[t]} ELSE C
    <3>1. \A tr \in Trace : tr # None
      BY NoValueAssumption
    <3>2. t \in DOMAIN fl => n.floor[t] = fl[t] /\ fl[t] # None
      BY <1>1, <3>1
    <3>3. t \notin DOMAIN fl => n.floor[t] = None
      BY <1>1
    <3>4. {n.cand[x].traces[t] : x \in Unbarred(n, t)} = {a.cand[x].traces[t] : x \in Unbarred(a, t)}
      BY <1>1 DEF Unbarred
    <3>5. Deployable(n, t) = (IF t \in DOMAIN fl /\ fl[t].script THEN {fl[t]} ELSE {})
          /\ Deployable(a, t) = {}
      BY <3>2, <3>3 DEF Deployable
    <3>6. QED
      BY <3>4, <3>5 DEF Contenders
  <2>4. n.ptb[t] = IF up(t) THEN Entry(fl[t], SeedId) ELSE e
    BY <1>1
  <2> HIDE DEF C
  <2>5. CASE t \in DOMAIN fl /\ fl[t].script
    <3>1. fl[t] \in Trace /\ Ordinary(fl[t]) /\ fl[t].ok \in BOOLEAN /\ fl[t].score \in Int
      BY <2>5 DEF Trace
    <3>2. e # None => \E x \in C : e.ok = x.ok /\ e.score = x.score /\ Ordinary(x)
      BY <2>1 DEF Tops
    <3>3. CASE up(t)
      <4>1. e # None => Better(fl[t], e)
        BY <1>2, <2>2, <2>5, <3>1, <3>2, <3>3 DEF Ordinary, Better
      <4>2. SeedId \in Ids
        BY IdsAssumption DEF Ids
      <4>3. /\ n.ptb[t] # None
            /\ n.ptb[t].ok = fl[t].ok /\ n.ptb[t].score = fl[t].score
        BY <2>4, <3>1, <3>3, <4>2, EntryType DEF Entry
      <4>4. QED
        BY <2>1, <2>2, <2>3, <2>5, <3>1, <4>1, <4>3, TopsTaken
    <3>4. CASE ~up(t)
      <4>1. e # None /\ AtLeast(e, fl[t])
        BY <1>2, <2>2, <2>5, <3>1, <3>2, <3>4 DEF Ordinary, AtLeast, Better
      <4>2. QED
        BY <2>1, <2>3, <2>4, <2>5, <3>4, <4>1, TopsKept
    <3>5. QED
      BY <3>3, <3>4
  <2>6. CASE ~ (t \in DOMAIN fl /\ fl[t].script)
    <3>1. ~up(t)
      BY <1>2, <1>3, <2>6
    <3>2. QED
      BY <2>1, <2>3, <2>4, <2>6, <3>1
  <2>7. QED
    BY <2>5, <2>6
<1>6. QED
  BY <1>4, <1>5 DEF IsRanked

LEMMA EmptyIsRanked == IsRanked(EmptyArchive)
BY DEF IsRanked, EmptyArchive, AllOrdinary, Tops, Contenders, Unbarred, Deployable

\* Two archives with the same contenders rank alike.
LEMMA SameContenders ==
    ASSUME NEW a, NEW b, IsSound(a), IsSound(b), IsRanked(a), IsRanked(b), NEW t \in Tasks,
           Contenders(a, t) = Contenders(b, t)
    PROVE  Ranks(a.ptb[t], b.ptb[t])
<1> DEFINE C == Contenders(a, t)
<1>1. Tops(a.ptb[t], C) /\ Tops(b.ptb[t], C)
  BY DEF IsRanked
<1>2. \A tr \in C : tr \in Trace
  BY ContendersAreTraces DEF IsRanked
<1> HIDE DEF C
<1>3. \A tr \in C : tr.ok \in BOOLEAN /\ tr.score \in Int
  BY <1>2 DEF Trace
<1>4. CASE a.ptb[t] = None \/ b.ptb[t] = None
  BY <1>1, <1>4 DEF Tops, Ranks
<1>5. CASE a.ptb[t] # None /\ b.ptb[t] # None
  BY <1>1, <1>3, <1>5 DEF Tops, Ranks, AtLeast, Better
<1>6. QED
  BY <1>4, <1>5

-----------------------------------------------------------------------------
(* The replay of --resume.                                                 *)

\* The directory of id holds a candidate.
Complete(id) ==
    /\ IsCandidate(Loaded(dirs[id]))
    /\ dirs[id].bars \subseteq DOMAIN dirs[id].traces

DiskIsTyped == IsFiniteSet(DOMAIN dirs) /\ DOMAIN dirs \subseteq Ids

\* The directory that is being written.
Writing == pc \in {"open", "summary", "files"}

BeingWritten == IF Writing THEN {saving.id} ELSE {}

\* What a checkpoint knows was on disk before it, and is there to stay.
CheckpointIsBehind ==
    ckpt # None =>
        /\ SeedId \in Loadable \ BeingWritten
        /\ ckpt.floor \in [Tasks -> Trace \cup {None}]
        /\ \A p \in ckpt.bars : \E id \in Loadable \ BeingWritten, t \in Tasks :
              p = <<id, t>> /\ t \in dirs[id].bars

\* The directories can be replayed.
Replayable ==
    /\ DiskIsTyped /\ CheckpointIsBehind /\ ckpt # None
    /\ \A id \in Loadable : Complete(id)

LEMMA LoadableType ==
    ASSUME DiskIsTyped
    PROVE  IsFiniteSet(Loadable) /\ Loadable \subseteq Ids /\ Cardinality(Loadable) \in Nat
<1>1. Loadable \subseteq DOMAIN dirs
  BY DEF Loadable
<1>2. QED
  BY <1>1, FS_Subset, FS_CardinalityType DEF DiskIsTyped

\* The directories before x, and how many they are.
Preceding(x) == {y \in Loadable : Before(y, x)}

LEMMA ReplayIsOrdered ==
    ASSUME Replayable
    PROVE  /\ \A x \in Loadable : ~Before(x, x)
           /\ \A x, y \in Loadable : x # y => Before(x, y) \/ Before(y, x)
           /\ \A x, y, z \in Loadable : Before(x, y) /\ Before(y, z) => Before(x, z)
<1>1. /\ Loadable \subseteq Ids
      /\ \A x \in Loadable : dirs[x].sum.iter \in Int
  BY LoadableType DEF Replayable, Complete, IsCandidate, Loaded
<1>2. QED
  BY <1>1, NamesAreOrdered DEF Before

LEMMA PositionsDiffer ==
    ASSUME Replayable, NEW x \in Loadable, NEW y \in Loadable, Before(x, y)
    PROVE  Cardinality(Preceding(x)) < Cardinality(Preceding(y))
<1>1. IsFiniteSet(Preceding(y)) /\ Preceding(x) \subseteq Preceding(y)
      /\ x \in Preceding(y) /\ x \notin Preceding(x)
  <2>1. IsFiniteSet(Loadable) /\ Preceding(y) \subseteq Loadable
    BY LoadableType DEF Replayable, Preceding
  <2>2. IsFiniteSet(Preceding(y))
    BY <2>1, FS_Subset
  <2>3. QED
    BY <2>2, ReplayIsOrdered DEF Preceding
<1>2. QED
  BY <1>1, FS_Subset, FS_CardinalityType

\* Nth enumerates the directories.
LEMMA NthEnumerates ==
    ASSUME Replayable
    PROVE  /\ \A n \in 1..Cardinality(Loadable) : Nth(n) \in Loadable
           /\ \A n, m \in 1..Cardinality(Loadable) : Nth(n) = Nth(m) => n = m
           /\ \A x \in Loadable : \E n \in 1..Cardinality(Loadable) : x = Nth(n)
<1> DEFINE N == Cardinality(Loadable)
           P(x) == Cardinality(Preceding(x))
           f == [x \in Loadable |-> P(x)]
           I == 0..(N - 1)
<1>1. IsFiniteSet(Loadable) /\ N \in Nat
  BY LoadableType DEF Replayable
<1>2. \A x \in Loadable : P(x) \in I
  <2> TAKE x \in Loadable
  <2>1. Preceding(x) \in SUBSET Loadable /\ Preceding(x) # Loadable
    BY ReplayIsOrdered DEF Preceding
  <2>2. P(x) \in Nat /\ P(x) <= N /\ P(x) # N
    BY <1>1, <2>1, FS_Subset, FS_CardinalityType
  <2>3. QED
    BY <1>1, <2>2
<1>3. \A x, y \in Loadable : P(x) = P(y) => x = y
  <2> SUFFICES ASSUME NEW x \in Loadable, NEW y \in Loadable, P(x) = P(y), x # y
               PROVE  FALSE
    OBVIOUS
  <2>1. P(x) \in Int /\ P(y) \in Int
    BY <1>2
  <2>2. P(x) < P(y) \/ P(y) < P(x)
    BY ReplayIsOrdered, PositionsDiffer
  <2> HIDE DEF P
  <2>3. QED
    BY <2>1, <2>2
<1>4. IsFiniteSet(I) /\ Cardinality(I) = N
  <2>1. 0 \in Int /\ N - 1 \in Int
    BY <1>1
  <2> HIDE DEF N
  <2>2. IsFiniteSet(I) /\ Cardinality(I) = IF 0 > N - 1 THEN 0 ELSE N - 1 - 0 + 1
    BY <2>1, FS_Interval
  <2>3. QED
    BY <1>1, <2>2
<1> HIDE DEF I, N, P
<1>5. f \in Injection(Loadable, I)
  BY <1>2, <1>3 DEF Injection, IsInjective
<1>6. f \in Surjection(Loadable, I)
  <2> HIDE DEF f
  <2>1. Cardinality(Loadable) = Cardinality(I)
    BY <1>4 DEF N
  <2>2. QED
    BY <1>4, <1>5, <2>1, FS_Injection
<1>7. \A i \in I : \E x \in Loadable : P(x) = i
  BY <1>6 DEF Surjection
<1>8. ASSUME NEW n \in 1..N PROVE Nth(n) \in Loadable /\ P(Nth(n)) = n - 1
  <2>1. n - 1 \in I
    BY <1>1, <1>8 DEF I
  <2>2. Nth(n) = CHOOSE x \in Loadable : P(x) = n - 1
    BY DEF Nth, P, Preceding
  <2>3. QED
    BY <1>7, <2>1, <2>2
<1>9. ASSUME NEW x \in Loadable PROVE \E n \in 1..N : x = Nth(n)
  <2>1. P(x) \in Int /\ 0 <= P(x) /\ P(x) <= N - 1
    BY <1>1, <1>2 DEF I
  <2>2. P(x) + 1 \in 1..N /\ (P(x) + 1) - 1 = P(x)
    BY <1>1, <2>1
  <2>3. x = Nth(P(x) + 1)
    BY <1>3, <1>8, <2>2
  <2>4. QED
    BY <2>2, <2>3
<1>10. \A n, m \in 1..N : Nth(n) = Nth(m) => n = m
  <2> SUFFICES ASSUME NEW n \in 1..N, NEW m \in 1..N, Nth(n) = Nth(m) PROVE n = m
    OBVIOUS
  <2>1. n - 1 = m - 1
    BY <1>8
  <2>2. QED
    BY <1>1, <2>1
<1>11. QED
  BY <1>8, <1>9, <1>10 DEF N

\* One step of the replay, and all of it.
Replayed(a, n) == Add(a, Nth(n), Loaded(dirs[Nth(n)]), BarsOf(Nth(n)))

Replays(f, N) == f = [n \in 0..N |-> IF n = 0 THEN EmptyArchive ELSE Replayed(f[n - 1], n)]

LEMMA ReplayExists == \A N \in Nat : \E f : Replays(f, N)
<1> SUFFICES ASSUME NEW N \in Nat, ~ \E f : Replays(f, N) PROVE FALSE
  OBVIOUS
<1> DEFINE S == {n \in 0..N : ~ \E f : Replays(f, n)}
<1>1. S \in SUBSET (0..N) /\ S # {}
  OBVIOUS
<1>2. PICK m \in S : \A n \in S : m <= n
  <2> HIDE DEF S
  <2> QED
    BY <1>1, LeastNat
<1>3. CASE m = 0
  <2> DEFINE g == [n \in 0..m |-> EmptyArchive]
  <2>1. Replays(g, m)
    BY <1>3 DEF Replays
  <2>2. QED
    BY <1>2, <2>1
<1>4. CASE m # 0
  <2>1. m \in Nat /\ m - 1 \in 0..N /\ m - 1 \notin S
    BY <1>2, <1>4
  <2>2. PICK g : Replays(g, m - 1)
    BY <2>1
  <2> DEFINE h == [n \in 0..m |-> IF n = m THEN Replayed(g[m - 1], m) ELSE g[n]]
  <2>3. \A n \in 0..m : h[n] = IF n = 0 THEN EmptyArchive ELSE Replayed(h[n - 1], n)
    <3> TAKE n \in 0..m
    <3>1. CASE n = m
      BY <1>4, <2>1, <3>1
    <3>2. CASE n # m
      <4>1. n \in 0..(m - 1) /\ (n # 0 => n - 1 \in 0..(m - 1) /\ n - 1 # m)
        BY <2>1, <3>2
      <4>2. h[n] = g[n] /\ (n # 0 => h[n - 1] = g[n - 1])
        BY <2>1, <3>2, <4>1
      <4>3. g[n] = IF n = 0 THEN EmptyArchive ELSE Replayed(g[n - 1], n)
        BY <2>2, <4>1 DEF Replays
      <4> HIDE DEF h
      <4>4. QED
        BY <4>2, <4>3
    <3>3. QED
      BY <3>1, <3>2
  <2>4. h = [n \in 0..m |-> h[n]]
    OBVIOUS
  <2> HIDE DEF h
  <2>5. Replays(h, m)
    BY <2>3, <2>4 DEF Replays
  <2>6. QED
    BY <1>2, <2>5
<1>5. QED
  BY <1>3, <1>4

LEMMA RebuiltIsReplay ==
    ASSUME Cardinality(Loadable) \in Nat
    PROVE  \E f : Replays(f, Cardinality(Loadable)) /\ Rebuilt = f[Cardinality(Loadable)]
<1> DEFINE N == Cardinality(Loadable)
           R(f) == f = [n \in 0..N |->
                           IF n = 0 THEN EmptyArchive
                           ELSE OneOf({Add(a, id, Loaded(dirs[id]), BarsOf(id)) :
                                          a \in {f[n - 1]}, id \in {Nth(n)}})]
<1>1. \A x : OneOf({x}) = x
  BY DEF OneOf
<1>2. \A g, m : {Add(a, id, Loaded(dirs[id]), BarsOf(id)) : a \in {g}, id \in {m}}
                = {Add(g, m, Loaded(dirs[m]), BarsOf(m))}
  OBVIOUS
<1>3. ASSUME NEW f PROVE R(f) <=> Replays(f, N)
  <2> DEFINE g(n) == OneOf({Add(a, id, Loaded(dirs[id]), BarsOf(id)) :
                               a \in {f[n - 1]}, id \in {Nth(n)}})
             h(n) == Replayed(f[n - 1], n)
  <2>1. ASSUME NEW n PROVE g(n) = h(n)
    <3> DEFINE one == Add(f[n - 1], Nth(n), Loaded(dirs[Nth(n)]), BarsOf(Nth(n)))
               S == {Add(a, id, Loaded(dirs[id]), BarsOf(id)) : a \in {f[n - 1]}, id \in {Nth(n)}}
    <3>1. S = {one}
      BY <1>2
    <3>2. g(n) = OneOf(S) /\ h(n) = one
      BY DEF Replayed
    <3> HIDE DEF S, one, g, h
    <3>3. QED
      BY <1>1, <3>1, <3>2
  <2> DEFINE G == [n \in 0..N |-> IF n = 0 THEN EmptyArchive ELSE g(n)]
             H == [n \in 0..N |-> IF n = 0 THEN EmptyArchive ELSE h(n)]
  <2>2. R(f) <=> f = G
    OBVIOUS
  <2>3. Replays(f, N) <=> f = H
    BY DEF Replays
  <2>4. G = H
    <3> HIDE DEF g, h
    <3> QED
      BY <2>1
  <2> HIDE DEF G, H, R
  <2>5. QED
    BY <2>2, <2>3, <2>4
<1>4. \E f : R(f)
  <2>1. N \in Nat
    OBVIOUS
  <2>2. PICK f : Replays(f, N)
    <3> HIDE DEF N
    <3> QED
      BY <2>1, ReplayExists
  <2> HIDE DEF R, N
  <2> QED
    BY <1>3, <2>2
<1>5. Rebuilt = (CHOOSE f : R(f))[N]
  BY DEF Rebuilt
<1> HIDE DEF R
<1>6. R(CHOOSE f : R(f))
  BY <1>4
<1>7. QED
  BY <1>3, <1>5, <1>6

\* a holds the directories of S, and no floor.
Holds(a, S) ==
    /\ IsSound(a)
    /\ DOMAIN a.cand = S
    /\ \A id \in S : a.cand[id] = Loaded(dirs[id]) /\ BarredIn(a, id) = dirs[id].bars
    /\ a.floor = [t \in Tasks |-> None]

OrdinaryDisk ==
    \A id \in DOMAIN dirs : \A t \in DOMAIN dirs[id].traces :
        dirs[id].traces[t] # None => Ordinary(dirs[id].traces[t])

LEMMA ReplayHolds ==
    ASSUME Replayable, NEW a, NEW S \in SUBSET Loadable, Holds(a, S),
           NEW id \in Loadable \ S
    PROVE  LET n == Add(a, id, Loaded(dirs[id]), BarsOf(id))
           IN  /\ Holds(n, S \cup {id})
               /\ OrdinaryDisk /\ IsRanked(a) => IsRanked(n)
<1> DEFINE c == Loaded(dirs[id])
           bar == BarsOf(id)
           n == Add(a, id, c, bar)
<1>1. IsCandidate(c) /\ id \in Ids /\ id \notin DOMAIN a.cand /\ IsSound(a)
  BY LoadableType DEF Replayable, Complete, Holds
<1>2. bar \cap DOMAIN c.traces = dirs[id].bars
  <2>1. c.traces = dirs[id].traces /\ dirs[id].bars \subseteq DOMAIN dirs[id].traces
    BY DEF Loaded, Replayable, Complete
  <2>2. \A t \in Tasks : <<id, t>> \in ckpt.bars => t \in dirs[id].bars
    BY DEF Replayable, CheckpointIsBehind
  <2>3. QED
    BY <2>1, <2>2 DEF BarsOf
<1>3. /\ IsSound(n)
      /\ DOMAIN n.cand = DOMAIN a.cand \cup {id}
      /\ n.cand[id] = c
      /\ \A x \in DOMAIN a.cand : n.cand[x] = a.cand[x] /\ BarredIn(n, x) = BarredIn(a, x)
      /\ BarredIn(n, id) = bar \cap DOMAIN c.traces
      /\ n.floor = a.floor
  <2> HIDE DEF c, bar
  <2> QED
    BY <1>1, AddIsSound
<1>4. OrdinaryDisk /\ IsRanked(a) => IsRanked(n)
  <2>1. OrdinaryDisk => \A t \in DOMAIN c.traces : Ordinary(c.traces[t])
    BY DEF OrdinaryDisk, Loaded, Loadable, Readable
  <2> HIDE DEF c, bar
  <2>2. QED
    BY <1>1, <2>1, AddIsRanked
<1> HIDE DEF n, bar
<1>5. Holds(n, S \cup {id})
  BY <1>2, <1>3 DEF Holds
<1>6. QED
  BY <1>4, <1>5 DEF n, bar

\* The replay gives back what the directories hold.
LEMMA RebuiltHolds ==
    ASSUME Replayable
    PROVE  Holds(Rebuilt, Loadable) /\ (OrdinaryDisk => IsRanked(Rebuilt))
<1> DEFINE N == Cardinality(Loadable)
           First(n) == {Nth(m) : m \in 1..n}
<1>1. N \in Nat
  BY LoadableType DEF Replayable
<1>2. PICK f : Replays(f, N) /\ Rebuilt = f[N]
  BY <1>1, RebuiltIsReplay
<1>3. /\ \A n \in 1..N : Nth(n) \in Loadable
      /\ \A n, m \in 1..N : Nth(n) = Nth(m) => n = m
      /\ \A x \in Loadable : \E n \in 1..N : x = Nth(n)
  BY NthEnumerates
<1> HIDE DEF N
<1> DEFINE Good(n) == Holds(f[n], First(n)) /\ (OrdinaryDisk => IsRanked(f[n]))
<1>4. \A n \in 0..N : Good(n)
  <2> SUFFICES ASSUME ~ \A n \in 0..N : Good(n) PROVE FALSE
    OBVIOUS
  <2> DEFINE B == {n \in 0..N : ~Good(n)}
  <2>1. B \in SUBSET (0..N) /\ B # {}
    OBVIOUS
  <2>2. PICK m \in B : \A n \in B : m <= n
    <3> HIDE DEF B
    <3> QED
      BY <1>1, <2>1, LeastNat
  <2>3. Good(0)
    <3>1. f[0] = EmptyArchive
      BY <1>1, <1>2 DEF Replays
    <3>2. First(0) = {}
      OBVIOUS
    <3>3. /\ DOMAIN EmptyArchive.cand = {}
          /\ EmptyArchive.floor = [t \in Tasks |-> None]
      BY DEF EmptyArchive
    <3>4. QED
      BY <3>1, <3>2, <3>3, EmptyIsSound, EmptyIsRanked DEF Holds
  <2>4. m # 0
    BY <2>2, <2>3
  <2>5. m \in 1..N /\ m - 1 \in 0..N /\ m - 1 \notin B
    <3>1. m \in 0..N
      BY <2>2
    <3> HIDE DEF B
    <3>2. m \in 1..N /\ m - 1 \in 0..N /\ ~ (m <= m - 1)
      BY <1>1, <2>4, <3>1
    <3>3. QED
      BY <2>2, <3>2
  <2>6. Good(m - 1)
    BY <2>5
  <2>7. f[m] = Replayed(f[m - 1], m)
    BY <1>1, <1>2, <2>5 DEF Replays
  <2>8. /\ First(m - 1) \in SUBSET Loadable
        /\ Nth(m) \in Loadable \ First(m - 1)
        /\ First(m) = First(m - 1) \cup {Nth(m)}
    <3>1. 1..m = (1..(m - 1)) \cup {m} /\ m \notin 1..(m - 1) /\ 1..m \subseteq 1..N
      BY <1>1, <2>5
    <3>2. QED
      BY <1>3, <2>5, <3>1
  <2> HIDE DEF First, Good
  <2>9. /\ Holds(f[m], First(m))
        /\ OrdinaryDisk /\ IsRanked(f[m - 1]) => IsRanked(f[m])
    BY <2>6, <2>7, <2>8, ReplayHolds DEF Replayed, Good
  <2>10. Good(m)
    BY <2>6, <2>9 DEF Good
  <2>11. QED
    BY <2>2, <2>10
<1>5. First(N) = Loadable
  BY <1>3
<1>6. N \in 0..N
  BY <1>1
<1>7. QED
  BY <1>2, <1>4, <1>5, <1>6

\* The archive a resumed run continues with.
LEMMA ResumedHolds ==
    ASSUME Replayable
    PROVE  /\ IsSound(Resumed)
           /\ DOMAIN Resumed.cand = Loadable
           /\ \A id \in Loadable : /\ Resumed.cand[id] = Loaded(dirs[id])
                                   /\ BarredIn(Resumed, id) = dirs[id].bars
           /\ Resumed.floor = ckpt.floor
           /\ OrdinaryDisk /\ (\A t \in Tasks : ckpt.floor[t] # None => Ordinary(ckpt.floor[t]))
                  => IsRanked(Resumed)
<1> DEFINE a == [Rebuilt EXCEPT !.range = ckpt.range]
           fl == [t \in {u \in Tasks : ckpt.floor[u] # None} |-> ckpt.floor[t]]
<1>1. Resumed = SetBaseFloor(a, fl)
  <2>1. \A x : OneOf({x}) = x
    BY DEF OneOf
  <2>2. {SetBaseFloor(x, fl) : x \in {a}} = {SetBaseFloor(a, fl)}
    OBVIOUS
  <2>3. Resumed = OneOf({SetBaseFloor(x, fl) : x \in {a}})
    BY DEF Resumed
  <2> HIDE DEF a, fl
  <2>4. QED
    BY <2>1, <2>2, <2>3
<1>2. Holds(Rebuilt, Loadable) /\ (OrdinaryDisk => IsRanked(Rebuilt))
  BY RebuiltHolds
<1>3. /\ IsArchive(a) /\ a.cand = Rebuilt.cand /\ a.best = Rebuilt.best /\ a.ptb = Rebuilt.ptb
      /\ a.floor = Rebuilt.floor /\ a.bars = Rebuilt.bars
  BY <1>2 DEF Holds, IsSound, IsArchive
<1> HIDE DEF a
<1>4. IsSound(a) /\ (IsRanked(Rebuilt) => IsRanked(a))
  <2>1. IsSound(Rebuilt)
    BY <1>2 DEF Holds
  <2>2. IsSound(a)
    BY <1>3, <2>1 DEF IsSound, BestIsGreatest
  <2>3. \A t \in Tasks : Contenders(a, t) = Contenders(Rebuilt, t)
    BY <1>3 DEF Contenders, Unbarred, Deployable
  <2>4. AllOrdinary(Rebuilt) => AllOrdinary(a)
    BY <1>3 DEF AllOrdinary
  <2>5. QED
    BY <1>3, <2>2, <2>3, <2>4 DEF IsRanked
<1>5. ckpt.floor \in [Tasks -> Trace \cup {None}]
  BY DEF Replayable, CheckpointIsBehind
<1>6. \A t \in DOMAIN fl : fl[t] \in Trace /\ fl[t] = ckpt.floor[t] /\ ckpt.floor[t] # None
  BY <1>5
<1>7. \A t \in Tasks : a.floor[t] = None
  BY <1>2, <1>3 DEF Holds
<1>8. SetBaseFloor(a, fl).floor = ckpt.floor
  <2>1. SetBaseFloor(a, fl).floor = [t \in Tasks |-> IF t \in DOMAIN fl THEN fl[t] ELSE a.floor[t]]
    BY DEF SetBaseFloor
  <2>2. \A t \in Tasks : (IF t \in DOMAIN fl THEN fl[t] ELSE a.floor[t]) = ckpt.floor[t]
    BY <1>7
  <2>3. QED
    BY <1>5, <2>1, <2>2
<1> HIDE DEF fl
<1>9. /\ IsSound(Resumed) /\ Resumed.cand = a.cand /\ Resumed.bars = a.bars
      /\ Resumed.floor = ckpt.floor
  BY <1>1, <1>4, <1>6, <1>8, FloorIsSound
<1>10. ASSUME OrdinaryDisk, \A t \in Tasks : ckpt.floor[t] # None => Ordinary(ckpt.floor[t])
       PROVE  IsRanked(Resumed)
  <2>1. \A t \in DOMAIN fl : fl[t] \in Trace /\ Ordinary(fl[t])
    BY <1>6, <1>10 DEF fl
  <2>2. QED
    BY <1>1, <1>2, <1>4, <1>7, <1>10, <2>1, FloorIsRanked
<1>11. QED
  BY <1>2, <1>3, <1>9, <1>10 DEF Holds, BarredIn

-----------------------------------------------------------------------------
(* Types.                                                                  *)

\* The slots of an iteration are being gone through.
Breeding ==
    \/ pc \in {"slot", "reprop"}
    \/ /\ pc \in {"open", "summary", "files", "persist"}
       /\ saving.then \in {"slot", "reprop"}

\* TypeOK with what it rests on, in four parts: the archive, ...
ArchiveIsTyped ==
    /\ IsArchive(ar)
    /\ \A n \in DOMAIN loop.parents : loop.parents[n] \in DOMAIN ar.cand
    /\ Breeding => loop.parents \in [1..BeamWidth -> DOMAIN ar.cand]
    /\ pc \in {"open", "summary", "files"} => saving.id \in DOMAIN ar.cand

\* ... the locals of the loop, ...
LocalsAreTyped ==
    /\ loop = [iteration |-> loop.iteration, patience |-> loop.patience,
               prevBest |-> loop.prevBest, prevOracle |-> loop.prevOracle,
               conv |-> loop.conv, orac |-> loop.orac, done |-> loop.done,
               parents |-> loop.parents, slot |-> loop.slot, newWork |-> loop.newWork,
               halted |-> loop.halted, completed |-> loop.completed]
    /\ loop.iteration \in 0..MaxIterations
    /\ loop.patience \in 0..EffectivePatience
    /\ loop.slot \in 0..(Slots + 1)
    /\ Breeding => /\ loop.slot >= 1 /\ loop.iteration >= 1
                   /\ loop.patience < EffectivePatience

\* ... the parts of a directory and a checkpoint's bounds, ...
DiskIsShaped ==
    /\ \A id \in DOMAIN dirs : dirs[id] = [sum |-> dirs[id].sum, bars |-> dirs[id].bars,
                                          traces |-> dirs[id].traces, codes |-> dirs[id].codes]
    /\ ckpt # None => /\ ckpt.iteration \in 0..MaxIterations
                      /\ ckpt.patience \in 0..EffectivePatience

\* ... and where the process is.
ProcessIsTyped ==
    /\ pc \in {"boot", "open", "summary", "files", "persist", "top", "slot", "reprop",
               "finish", "exit"}
    /\ pc \in {"open", "summary", "files"} =>
          saving.then \in {"top", "slot", "reprop", "exit"}
    /\ pc = "persist" => saving.then \in {"top", "slot", "reprop"}
    /\ interruptions \in 0..MaxInterruptions
    /\ lost \in 0..MaxLostCheckpoints

SavingIsShaped ==
    saving = [id |-> saving.id, cand |-> saving.cand, then |-> saving.then,
              left |-> saving.left, code |-> saving.code]

IsTyped ==
    ArchiveIsTyped /\ LocalsAreTyped /\ DiskIsShaped /\ ProcessIsTyped /\ SavingIsShaped

LEMMA BoundsAreNat ==
    /\ MaxIterations \in Nat /\ EffectivePatience \in Nat /\ Slots \in Nat
    /\ MaxInterruptions \in Nat /\ MaxLostCheckpoints \in Nat
    /\ BeamWidth \in Nat \ {0} /\ BeamCandidates \in Nat \ {0}
<1>1. /\ MaxIterations \in Nat /\ Patience \in Nat
      /\ MaxInterruptions \in Nat /\ MaxLostCheckpoints \in Nat
      /\ BeamWidth \in Nat \ {0} /\ BeamCandidates \in Nat \ {0}
  BY SearchAssumption
<1>2. Slots \in Nat
  <2> DEFINE c == BeamCandidates
             b == BeamWidth
  <2>1. b \in Nat /\ c \in Nat
    BY <1>1
  <2> HIDE DEF b, c
  <2>2. b * c \in Nat
    BY <2>1
  <2>3. QED
    BY <2>2 DEF Slots, b, c
<1>3. EffectivePatience \in Nat
  BY <1>1 DEF EffectivePatience
<1>4. QED
  BY <1>1, <1>2, <1>3

\* What add() leaves, whether or not it knows the id.
LEMMA AddKeeps ==
    ASSUME NEW a, IsArchive(a), NEW id, NEW c, NEW bar
    PROVE  /\ IsArchive(Add(a, id, c, bar))
           /\ DOMAIN Add(a, id, c, bar).cand = DOMAIN a.cand \cup {id}
<1>1. CASE id \in DOMAIN a.cand
  BY <1>1 DEF Add
<1>2. CASE id \notin DOMAIN a.cand
  <2> DEFINE n == Add(a, id, c, bar)
  <2>1. IsArchive(n) /\ DOMAIN n.cand = DOMAIN a.cand \cup {id}
    BY <1>2 DEF Add, IsArchive
  <2>2. QED
    BY <2>1
<1>3. QED
  BY <1>1, <1>2

LEMMA FloorIsArchive ==
    ASSUME NEW a, NEW fl
    PROVE  IsArchive(SetBaseFloor(a, fl)) /\ SetBaseFloor(a, fl).cand = a.cand
BY DEF SetBaseFloor, IsArchive

LEMMA ResumedIsArchive == IsArchive(Resumed)
<1> DEFINE a == [Rebuilt EXCEPT !.range = ckpt.range]
           fl == [t \in {u \in Tasks : ckpt.floor[u] # None} |-> ckpt.floor[t]]
<1>1. \A x : OneOf({x}) = x
  BY DEF OneOf
<1>2. {SetBaseFloor(x, fl) : x \in {a}} = {SetBaseFloor(a, fl)}
  OBVIOUS
<1>3. Resumed = OneOf({SetBaseFloor(x, fl) : x \in {a}})
  BY DEF Resumed
<1> HIDE DEF a, fl
<1>4. Resumed = SetBaseFloor(a, fl)
  BY <1>1, <1>2, <1>3
<1>5. QED
  BY <1>4, FloorIsArchive

LEMMA FrozenParts ==
    ASSUME NEW a, IsArchive(a)
    PROVE  /\ IsArchive(Frozen(a)) /\ Frozen(a).cand = a.cand /\ Frozen(a).best = a.best
           /\ Frozen(a).ptb = a.ptb /\ Frozen(a).floor = a.floor /\ Frozen(a).bars = a.bars
<1>1. CASE a.range # None
  BY <1>1 DEF Frozen
<1>2. CASE a.range = None
  <2>1. Frozen(a) = [a EXCEPT !.range = ScoreRange(a)]
    BY <1>2 DEF Frozen
  <2>2. Frozen(a) = [cand |-> a.cand, best |-> a.best, ptb |-> a.ptb,
                     floor |-> a.floor, bars |-> a.bars, range |-> ScoreRange(a)]
    BY <2>1 DEF IsArchive
  <2>3. QED
    BY <2>2 DEF IsArchive
<1>3. QED
  BY <1>1, <1>2

LEMMA PoolIsArchived == \A a, d : BreedablePool(a, d) \subseteq DOMAIN a.cand
BY DEF BreedablePool

LEMMA ParentsArePool ==
    ASSUME NEW a, NEW n, NEW pool, NEW s \in ParentChoices(a, n, pool)
    PROVE  s \in [1..n -> pool]
BY DEF ParentChoices

\* The parent of a slot.
LEMMA ParentIsArchived ==
    ASSUME IsTyped, pc = "slot", loop.slot <= Slots
    PROVE  /\ loop.slot \in 1..Slots /\ loop.iteration \in 1..MaxIterations
           /\ loop.parents[1 + (loop.slot - 1) \div BeamCandidates] \in DOMAIN ar.cand
<1>1. loop.slot \in 1..Slots /\ loop.iteration \in 1..MaxIterations
  BY BoundsAreNat DEF IsTyped, LocalsAreTyped, Breeding
<1> DEFINE k == 1 + (loop.slot - 1) \div BeamCandidates
<1>2. k \in 1..BeamWidth
  BY <1>1, SlotParts
<1> HIDE DEF k
<1>3. loop.parents[k] \in DOMAIN ar.cand
  BY <1>2 DEF IsTyped, ArchiveIsTyped, Breeding
<1>4. QED
  BY <1>1, <1>3 DEF k

LEMMA WrittenDir ==
    ASSUME NEW id, NEW d, WriteDir(id, d)
    PROVE  /\ DOMAIN dirs' = DOMAIN dirs \cup {id}
           /\ dirs'[id] = d
           /\ \A x \in DOMAIN dirs : x # id => dirs'[x] = dirs[x]
BY DEF WriteDir, Put

LEMMA DirParts ==
    ASSUME IsTyped, NEW id
    PROVE  DirOf(id) = [sum |-> DirOf(id).sum, bars |-> DirOf(id).bars,
                        traces |-> DirOf(id).traces, codes |-> DirOf(id).codes]
BY DEF IsTyped, DiskIsShaped, DirOf, NoDir

\* The start of a save, and no save.
LEMMA SaveParts ==
    ASSUME NEW id, NEW c, NEW then
    PROVE  LET s == Save(id, c, then)
           IN  /\ s.id = id /\ s.cand = c /\ s.then = then
               /\ s.left = DOMAIN c.traces /\ s.code = 2
               /\ s = [id |-> s.id, cand |-> s.cand, then |-> s.then,
                       left |-> s.left, code |-> s.code]
BY DEF Save

LEMMA NothingParts ==
    /\ Nothing.id = None /\ [Nothing EXCEPT !.then = "top"].id = None
    /\ [Nothing EXCEPT !.then = "top"].then = "top"
BY DEF Nothing

LEMMA SavingStep == SavingIsShaped /\ [Next]_vars => SavingIsShaped'
<1> SUFFICES ASSUME SavingIsShaped, [Next]_vars PROVE SavingIsShaped'
  OBVIOUS
<1>1. CASE UNCHANGED saving
  BY <1>1 DEF SavingIsShaped
<1>2. ASSUME NEW id, NEW c, NEW then, saving' = Save(id, c, then)
      PROVE  SavingIsShaped'
  BY <1>2, SaveParts DEF SavingIsShaped
<1>3. CASE RunSeed \/ BreedChild \/ Repropagate \/ Finish
  <2>1. UNCHANGED saving \/ saving' = Nothing \/ \E id, c, then : saving' = Save(id, c, then)
    <3>1. CASE RunSeed
      BY <3>1, Zenon DEF RunSeed
    <3>2. CASE BreedChild
      BY <3>2, Zenon DEF BreedChild, Archived
    <3>3. CASE Repropagate
      BY <3>3, Zenon DEF Repropagate, Archived
    <3>4. CASE Finish
      BY <3>4, Zenon DEF Finish
    <3>5. QED
      BY <1>3, <3>1, <3>2, <3>3, <3>4
  <2>2. QED
    BY <1>1, <1>2, <2>1 DEF SavingIsShaped, Nothing
<1>4. CASE WriteTrace
  BY <1>4 DEF WriteTrace, SavingIsShaped
<1>5. CASE WriteCode
  BY <1>5 DEF WriteCode, SavingIsShaped
<1>6. CASE Persist \/ EndIteration \/ Interrupt
  <2>1. \/ UNCHANGED saving
        \/ saving' = Nothing
        \/ saving' = [Nothing EXCEPT !.then = "top"]
    BY <1>6 DEF Persist, EndIteration, Interrupt
  <2>2. QED
    BY <1>1, <2>1 DEF SavingIsShaped, Nothing
<1>7. QED
  BY <1>1, <1>3, <1>4, <1>5, <1>6
     DEF Next, Step, vars, Resume, OpenSummary, WriteSummary, OpenTrace, OpenCode, EndSave,
         LeaveLoop, BeginIteration, SkipSlot, RejectChild

LEMMA TypeInit == Init => IsTyped
<1> SUFFICES ASSUME Init PROVE IsTyped
  OBVIOUS
<1>1. IsArchive(EmptyArchive)
  BY DEF EmptyArchive, IsArchive
<1>2. QED
  BY <1>1, BoundsAreNat DEF Init, Idle, IsTyped, Breeding, ArchiveIsTyped,
                          LocalsAreTyped, DiskIsShaped, ProcessIsTyped, SavingIsShaped, Nothing

LEMMA TypeStep == IsTyped /\ [Next]_vars => IsTyped'
<1> SUFFICES ASSUME IsTyped, [Next]_vars
             PROVE  (ArchiveIsTyped /\ LocalsAreTyped /\ DiskIsShaped /\ ProcessIsTyped)'
  BY SavingStep DEF IsTyped
<1> USE BoundsAreNat DEF IsTyped, Breeding
<1>1. CASE Resume
  <2>1. ArchiveIsTyped'
    BY <1>1, ResumedIsArchive DEF Resume, Idle, ArchiveIsTyped
  <2>2. LocalsAreTyped'
    <3>1. loop' = [iteration |-> IF ckpt.iteration > 0 THEN ckpt.iteration - 1 ELSE 0,
                  patience |-> ckpt.patience,
                  prevBest |-> ckpt.prevBest, prevOracle |-> ckpt.prevOracle,
                  conv |-> ckpt.conv, orac |-> ckpt.orac, done |-> CompletedSet,
                  parents |-> <<>>, slot |-> 0, newWork |-> FALSE,
                  halted |-> FALSE, completed |-> None]
      BY <1>1 DEF Resume, Idle
    <3>2. ckpt.iteration \in 0..MaxIterations /\ ckpt.patience \in 0..EffectivePatience
          /\ pc' = "top"
      BY <1>1 DEF Resume, DiskIsShaped
    <3>3. QED
      BY <3>1, <3>2 DEF LocalsAreTyped
  <2>3. DiskIsShaped' /\ ProcessIsTyped'
    BY <1>1 DEF Resume, DiskIsShaped, ProcessIsTyped, disk
  <2>4. QED
    BY <2>1, <2>2, <2>3
<1>2. CASE RunSeed
  <2>1. PICK traces \in SeedEvaluations :
          LET seed == [parent |-> None, iter |-> 0, depth |-> 1, routed |-> FALSE,
                       mean |-> MeanOf(traces), traces |-> traces]
              added == Add(EmptyArchive, SeedId, seed, {})
          IN  /\ IF RegressionGuard
                 THEN \E fl \in FloorChoices(Outcomes, Resamples, traces) :
                         ar' = SetBaseFloor(added, fl)
                 ELSE ar' = added
              /\ loop' = [Idle EXCEPT !.conv = <<seed.mean>>,
                                      !.prevBest = seed.mean, !.prevOracle = seed.mean]
              /\ saving' = Save(SeedId, seed, "top")
    BY <1>2 DEF RunSeed
  <2> DEFINE seed == [parent |-> None, iter |-> 0, depth |-> 1, routed |-> FALSE,
                      mean |-> MeanOf(traces), traces |-> traces]
             added == Add(EmptyArchive, SeedId, seed, {})
  <2>2. IsArchive(added) /\ SeedId \in DOMAIN added.cand
    <3>1. IsArchive(EmptyArchive)
      BY EmptyIsSound DEF IsSound
    <3>2. QED
      BY <3>1, AddKeeps
  <2>3. ar' = added \/ \E fl : ar' = SetBaseFloor(added, fl)
    BY <2>1
  <2>4. loop'.parents = <<>> /\ saving'.id = SeedId /\ saving'.then = "top" /\ pc' = "open"
    BY <1>2, <2>1, SaveParts DEF Idle, RunSeed
  <2>5. ArchiveIsTyped'
    <3> HIDE DEF added
    <3>1. IsArchive(ar') /\ ar'.cand = added.cand
      BY <2>2, <2>3, FloorIsArchive
    <3>2. QED
      BY <2>2, <2>4, <3>1 DEF ArchiveIsTyped
  <2>6. LocalsAreTyped'
    <3>1. loop' = [iteration |-> 0, patience |-> 0,
                   prevBest |-> seed.mean, prevOracle |-> seed.mean,
                   conv |-> <<seed.mean>>, orac |-> <<>>, done |-> {},
                   parents |-> <<>>, slot |-> 0, newWork |-> FALSE,
                   halted |-> FALSE, completed |-> None]
      BY <2>1 DEF Idle
    <3> HIDE DEF seed, added
    <3>2. saving'.then = "top"
      BY <2>4
    <3>3. QED
      BY <2>4, <3>1, <3>2 DEF LocalsAreTyped
  <2>7. DiskIsShaped' /\ ProcessIsTyped'
    BY <1>2, <2>4 DEF RunSeed, DiskIsShaped, ProcessIsTyped, disk
  <2>8. QED
    BY <2>5, <2>6, <2>7
<1>3. ASSUME NEW d, d = [sum |-> d.sum, bars |-> d.bars, traces |-> d.traces, codes |-> d.codes],
             NEW id, WriteDir(id, d), ckpt' = ckpt
      PROVE  DiskIsShaped'
  <2>1. /\ DOMAIN dirs' = DOMAIN dirs \cup {id}
        /\ dirs'[id] = d
        /\ \A x \in DOMAIN dirs : x # id => dirs'[x] = dirs[x]
    BY <1>3, WrittenDir
  <2>2. ASSUME NEW x \in DOMAIN dirs'
        PROVE  dirs'[x] = [sum |-> dirs'[x].sum, bars |-> dirs'[x].bars,
                           traces |-> dirs'[x].traces, codes |-> dirs'[x].codes]
    <3>1. CASE x = id
      BY <1>3, <2>1, <3>1
    <3>2. CASE x # id
      BY <2>1, <2>2, <3>2 DEF DiskIsShaped
    <3>3. QED
      BY <3>1, <3>2
  <2>3. QED
    BY <1>3, <2>2 DEF DiskIsShaped
<1>4. CASE OpenSummary
  <2>1. ArchiveIsTyped' /\ LocalsAreTyped' /\ ProcessIsTyped'
    BY <1>4 DEF OpenSummary, ArchiveIsTyped, LocalsAreTyped, ProcessIsTyped
  <2>2. DiskIsShaped'
    BY <1>3, <1>4, DirParts DEF OpenSummary
  <2>3. QED
    BY <2>1, <2>2
<1>5. CASE WriteSummary
  <2>1. ArchiveIsTyped' /\ LocalsAreTyped' /\ ProcessIsTyped'
    BY <1>5 DEF WriteSummary, ArchiveIsTyped, LocalsAreTyped, ProcessIsTyped
  <2>2. DiskIsShaped'
    <3> DEFINE bars == {t \in Tasks : <<saving.id, t>> \in ar.bars}
               base == DirOf(saving.id)
               sum == Summary(saving.cand)
               d == [base EXCEPT !.sum = sum, !.bars = bars]
    <3>1. WriteDir(saving.id, d) /\ ckpt' = ckpt
      BY <1>5 DEF WriteSummary
    <3>0. base = [sum |-> base.sum, bars |-> base.bars, traces |-> base.traces, codes |-> base.codes]
      BY DirParts
    <3> HIDE DEF bars, base, sum
    <3>2. d = [sum |-> sum, bars |-> bars, traces |-> base.traces, codes |-> base.codes]
      <4> DEFINE half == [base EXCEPT !.sum = sum]
      <4>1. half = [sum |-> sum, bars |-> base.bars, traces |-> base.traces, codes |-> base.codes]
        BY <3>0
      <4>2. d = [half EXCEPT !.bars = bars]
        OBVIOUS
      <4> HIDE DEF half, d
      <4>3. QED
        BY <4>1, <4>2
    <3>3. d = [sum |-> d.sum, bars |-> d.bars, traces |-> d.traces, codes |-> d.codes]
      <4> HIDE DEF d
      <4> QED
        BY <3>2
    <3> HIDE DEF d
    <3>4. QED
      BY <1>3, <3>1, <3>3
  <2>3. QED
    BY <2>1, <2>2
<1>6. CASE OpenTrace \/ WriteTrace \/ OpenCode \/ WriteCode
  <2> DEFINE base == DirOf(saving.id)
  <2>1. /\ \/ \E v : WriteDir(saving.id, [base EXCEPT !.traces = v])
           \/ \E v : WriteDir(saving.id, [base EXCEPT !.codes = v])
        /\ UNCHANGED <<ar, loop, pc, ckpt, interruptions, lost>>
    BY <1>6, Zenon DEF OpenTrace, WriteTrace, OpenCode, WriteCode
  <2>2. saving'.id = saving.id /\ saving'.then = saving.then
    BY <1>6 DEF OpenTrace, WriteTrace, OpenCode, WriteCode, SavingIsShaped
  <2>3. ArchiveIsTyped' /\ LocalsAreTyped' /\ ProcessIsTyped'
    BY <2>1, <2>2 DEF ArchiveIsTyped, LocalsAreTyped, ProcessIsTyped
  <2>4. base = [sum |-> base.sum, bars |-> base.bars, traces |-> base.traces, codes |-> base.codes]
    BY DirParts
  <2> HIDE DEF base
  <2>5. DiskIsShaped'
    <3>1. ASSUME NEW v PROVE LET x == [base EXCEPT !.traces = v]
                                 y == [base EXCEPT !.codes = v]
                             IN  /\ x = [sum |-> x.sum, bars |-> x.bars,
                                         traces |-> x.traces, codes |-> x.codes]
                                 /\ y = [sum |-> y.sum, bars |-> y.bars,
                                         traces |-> y.traces, codes |-> y.codes]
      BY <2>4
    <3>2. ckpt' = ckpt
      BY <2>1
    <3>3. CASE \E v : WriteDir(saving.id, [base EXCEPT !.traces = v])
      <4>1. PICK v : WriteDir(saving.id, [base EXCEPT !.traces = v])
        BY <3>3
      <4> DEFINE x == [base EXCEPT !.traces = v]
      <4>2. x = [sum |-> x.sum, bars |-> x.bars, traces |-> x.traces, codes |-> x.codes]
        BY <3>1
      <4>3. WriteDir(saving.id, x)
        BY <4>1
      <4> HIDE DEF x
      <4>4. QED
        BY <1>3, <3>2, <4>2, <4>3
    <3>4. CASE \E v : WriteDir(saving.id, [base EXCEPT !.codes = v])
      <4>1. PICK v : WriteDir(saving.id, [base EXCEPT !.codes = v])
        BY <3>4
      <4> DEFINE x == [base EXCEPT !.codes = v]
      <4>2. x = [sum |-> x.sum, bars |-> x.bars, traces |-> x.traces, codes |-> x.codes]
        BY <3>1
      <4>3. WriteDir(saving.id, x)
        BY <4>1
      <4> HIDE DEF x
      <4>4. QED
        BY <1>3, <3>2, <4>2, <4>3
    <3>5. QED
      BY <2>1, <3>3, <3>4
  <2>6. QED
    BY <2>3, <2>5
<1>7. CASE EndSave
  BY <1>7 DEF EndSave, ArchiveIsTyped, LocalsAreTyped, DiskIsShaped, ProcessIsTyped, disk
<1>8. CASE Persist
  <2>1. /\ pc = "persist" /\ pc' = saving.then /\ pc' \in {"top", "slot", "reprop"}
        /\ \/ ckpt' = Checkpoint /\ UNCHANGED lost
           \/ lost < MaxLostCheckpoints /\ ckpt' = ckpt /\ lost' = lost + 1
        /\ UNCHANGED <<ar, loop, dirs, interruptions>>
    BY <1>8 DEF Persist, ProcessIsTyped
  <2>2. ArchiveIsTyped'
    BY <2>1 DEF ArchiveIsTyped
  <2>3. LocalsAreTyped'
    BY <2>1 DEF LocalsAreTyped
  <2>4. DiskIsShaped'
    BY <2>1 DEF DiskIsShaped, LocalsAreTyped, Checkpoint
  <2>5. ProcessIsTyped'
    BY <2>1 DEF ProcessIsTyped
  <2>6. QED
    BY <2>2, <2>3, <2>4, <2>5
<1>9. CASE LeaveLoop
  BY <1>9 DEF LeaveLoop, ArchiveIsTyped, LocalsAreTyped, DiskIsShaped, ProcessIsTyped, disk
<1>10. CASE BeginIteration
  <2> DEFINE pool == BreedablePool(ar, MaxDepth)
             next == [loop EXCEPT !.iteration = @ + 1]
  <2>1. /\ pc = "top" /\ loop.iteration < MaxIterations /\ loop.patience < EffectivePatience
        /\ \/ loop' = [next EXCEPT !.halted = TRUE] /\ pc' = "finish"
           \/ /\ \E parents \in ParentChoices(ar, BeamWidth, pool) :
                    loop' = [next EXCEPT !.parents = parents, !.slot = 1, !.newWork = FALSE]
              /\ pc' = "slot"
        /\ UNCHANGED <<ar, saving, disk, interruptions, lost, rewritten>>
    BY <1>10 DEF BeginIteration
  <2>2. next = [iteration |-> loop.iteration + 1, patience |-> loop.patience,
               prevBest |-> loop.prevBest, prevOracle |-> loop.prevOracle,
               conv |-> loop.conv, orac |-> loop.orac, done |-> loop.done,
               parents |-> loop.parents, slot |-> loop.slot, newWork |-> loop.newWork,
               halted |-> loop.halted, completed |-> loop.completed]
    BY DEF LocalsAreTyped
  <2> HIDE DEF next
  <2>3. DiskIsShaped' /\ ProcessIsTyped'
    BY <2>1 DEF DiskIsShaped, ProcessIsTyped, disk
  <2>4. CASE loop' = [next EXCEPT !.halted = TRUE] /\ pc' = "finish"
    <3>1. loop' = [iteration |-> loop.iteration + 1, patience |-> loop.patience,
               prevBest |-> loop.prevBest, prevOracle |-> loop.prevOracle,
               conv |-> loop.conv, orac |-> loop.orac, done |-> loop.done,
               parents |-> loop.parents, slot |-> loop.slot, newWork |-> loop.newWork,
               halted |-> TRUE, completed |-> loop.completed]
      BY <2>2, <2>4
    <3>2. loop.iteration + 1 \in 0..MaxIterations /\ loop.patience \in 0..EffectivePatience
          /\ loop.slot \in 0..(Slots + 1)
      <4>1. loop.iteration \in 0..MaxIterations /\ loop.patience \in 0..EffectivePatience
            /\ loop.slot \in 0..(Slots + 1) /\ loop.iteration < MaxIterations
        BY <2>1 DEF LocalsAreTyped
      <4>2. QED
        BY <4>1
    <3>3. ArchiveIsTyped'
      BY <2>1, <2>4, <3>1 DEF ArchiveIsTyped
    <3>4. LocalsAreTyped'
      <4>1. ~Breeding'
        BY <2>4
      <4>2. QED
        BY <3>1, <3>2, <4>1 DEF LocalsAreTyped
    <3>5. QED
      BY <2>3, <3>3, <3>4
  <2>5. ASSUME NEW parents \in ParentChoices(ar, BeamWidth, pool), pc' = "slot",
               loop' = [next EXCEPT !.parents = parents, !.slot = 1, !.newWork = FALSE]
        PROVE  ArchiveIsTyped' /\ LocalsAreTyped'
    <3>1. parents \in [1..BeamWidth -> DOMAIN ar.cand]
      <4>1. parents \in [1..BeamWidth -> pool]
        BY ParentsArePool
      <4>2. pool \subseteq DOMAIN ar.cand
        BY PoolIsArchived
      <4> HIDE DEF pool
      <4>3. QED
        BY <4>1, <4>2
    <3> HIDE DEF pool
    <3>2. loop' = [iteration |-> loop.iteration + 1, patience |-> loop.patience,
               prevBest |-> loop.prevBest, prevOracle |-> loop.prevOracle,
               conv |-> loop.conv, orac |-> loop.orac, done |-> loop.done,
               parents |-> parents, slot |-> 1, newWork |-> FALSE,
               halted |-> loop.halted, completed |-> loop.completed]
      BY <2>2, <2>5
    <3>3. ArchiveIsTyped'
      BY <2>1, <2>5, <3>1, <3>2 DEF ArchiveIsTyped
    <3>4. LocalsAreTyped'
      <4>1. loop.iteration + 1 \in 1..MaxIterations /\ loop.patience \in 0..EffectivePatience
            /\ 1 \in 1..(Slots + 1) /\ loop.patience < EffectivePatience
        <5>1. loop.iteration \in 0..MaxIterations /\ loop.patience \in 0..EffectivePatience
              /\ loop.iteration < MaxIterations /\ loop.patience < EffectivePatience
          BY <2>1 DEF LocalsAreTyped
        <5>2. QED
          BY <5>1
      <4>2. QED
        BY <3>2, <4>1 DEF LocalsAreTyped
    <3>5. QED
      BY <3>3, <3>4
  <2>6. QED
    BY <2>1, <2>3, <2>4, <2>5
<1>11. ASSUME pc = "slot", loop.slot <= Slots, NEW w,
              loop' = [loop EXCEPT !.slot = @ + 1] \/ loop' = [loop EXCEPT !.slot = @ + 1, !.newWork = TRUE]
       PROVE  /\ LocalsAreTyped'
              /\ loop'.parents = loop.parents
  <2>1. loop' = [iteration |-> loop.iteration, patience |-> loop.patience,
               prevBest |-> loop.prevBest, prevOracle |-> loop.prevOracle,
               conv |-> loop.conv, orac |-> loop.orac, done |-> loop.done,
               parents |-> loop.parents, slot |-> loop.slot + 1, newWork |-> loop'.newWork,
               halted |-> loop.halted, completed |-> loop.completed]
    BY <1>11 DEF LocalsAreTyped
  <2>2. loop.slot \in 0..(Slots + 1) /\ loop.slot + 1 \in 0..(Slots + 1)
    BY <1>11 DEF LocalsAreTyped
  <2>3. loop.slot >= 1 /\ loop.iteration >= 1 /\ loop.patience < EffectivePatience
    BY <1>11 DEF LocalsAreTyped
  <2>4. LocalsAreTyped'
    BY <2>1, <2>2, <2>3 DEF LocalsAreTyped
  <2>5. QED
    BY <2>1, <2>4
<1>12. CASE SkipSlot
  BY <1>11, <1>12 DEF SkipSlot, ArchiveIsTyped, DiskIsShaped, ProcessIsTyped, disk
<1>13. CASE RejectChild
  BY <1>11, <1>13 DEF RejectChild, ArchiveIsTyped, DiskIsShaped, ProcessIsTyped, disk
<1>14. ASSUME NEW id, NEW parent, NEW depth, NEW traces, NEW bar, NEW then,
              Archived(id, parent, depth, traces, bar, then), loop'.parents = loop.parents,
              pc \in {"slot", "reprop"}, UNCHANGED <<disk, interruptions, lost>>,
              then \in {"slot", "reprop"}
       PROVE  ArchiveIsTyped' /\ DiskIsShaped' /\ ProcessIsTyped'
  <2> DEFINE child == [parent |-> parent, iter |-> loop.iteration, depth |-> depth,
                  routed |-> FALSE, mean |-> MeanOf(traces), traces |-> traces]
  <2>1. /\ ar' = Add(ar, id, child, bar) /\ saving'.id = id /\ saving'.then = then
        /\ pc' = "open"
    BY <1>14, SaveParts DEF Archived
  <2>2. IsArchive(ar') /\ DOMAIN ar'.cand = DOMAIN ar.cand \cup {id}
    <3> HIDE DEF child
    <3> QED
      BY <2>1, AddKeeps DEF ArchiveIsTyped
  <2> HIDE DEF child
  <2>3. ArchiveIsTyped'
    BY <1>14, <2>1, <2>2 DEF ArchiveIsTyped
  <2>4. QED
    BY <1>14, <2>1, <2>3 DEF DiskIsShaped, ProcessIsTyped, disk
<1>15. CASE BreedChild
  <2>1. pc = "slot" /\ loop.slot <= Slots /\ UNCHANGED <<disk, interruptions, lost>>
        /\ loop' = [loop EXCEPT !.slot = @ + 1, !.newWork = TRUE]
    BY <1>15 DEF BreedChild
  <2>2. \E id, parent, depth, traces, bar : \E then \in {"slot", "reprop"} :
            Archived(id, parent, depth, traces, bar, then)
    BY <1>15, Zenon DEF BreedChild
  <2>3. LocalsAreTyped' /\ loop'.parents = loop.parents
    BY <1>11, <2>1
  <2>4. QED
    BY <1>14, <2>1, <2>2, <2>3
<1>16. CASE Repropagate
  <2>1. pc = "reprop" /\ UNCHANGED <<loop, disk, interruptions, lost>>
    BY <1>16 DEF Repropagate
  <2>2. CASE \E id, parent, depth, traces, bar : Archived(id, parent, depth, traces, bar, "slot")
    <3>1. ArchiveIsTyped' /\ DiskIsShaped' /\ ProcessIsTyped'
      BY <1>14, <2>1, <2>2
    <3>2. LocalsAreTyped'
      BY <2>1 DEF LocalsAreTyped
    <3>3. QED
      BY <3>1, <3>2
  <2>3. CASE pc' = "slot" /\ UNCHANGED ar
    BY <2>1, <2>3 DEF ArchiveIsTyped, LocalsAreTyped, DiskIsShaped, ProcessIsTyped, disk
  <2>4. QED
    BY <1>16, <2>2, <2>3 DEF Repropagate
<1>17. CASE EndIteration
  <2>1. pc = "slot" /\ UNCHANGED <<disk, interruptions, lost, rewritten>>
    BY <1>17 DEF EndIteration
  <2>2. CASE pc' = "top" /\ UNCHANGED <<ar, loop, saving>>
    BY <2>1, <2>2 DEF ArchiveIsTyped, LocalsAreTyped, DiskIsShaped, ProcessIsTyped, disk
  <2>3. CASE ~ (pc' = "top" /\ UNCHANGED <<ar, loop, saving>>)
    <3>1. \E up \in BOOLEAN : \E best, oracle, x, y :
             /\ ar' = Frozen(ar)
             /\ loop' = [loop EXCEPT
                           !.conv = Append(@, best),
                           !.orac = Append(@, oracle),
                           !.patience = IF up THEN 0 ELSE @ + 1,
                           !.prevBest = x,
                           !.prevOracle = y]
             /\ saving' = [Nothing EXCEPT !.then = "top"]
             /\ pc' = "persist"
      <4> DEFINE a == Frozen(ar)
                 best == BestMean(ar)
                 oracle == OracleMean(ar)
                 up == Improved(a, best, oracle)
                 Larger(u, v) == IF u > v THEN u ELSE v
                 x == IF up THEN Larger(loop.prevBest, best) ELSE loop.prevBest
                 y == IF up THEN Larger(loop.prevOracle, oracle) ELSE loop.prevOracle
      <4>1. loop.newWork
        BY <1>17, <2>3 DEF EndIteration
      <4>2. /\ ar' = Frozen(ar)
            /\ loop' = [loop EXCEPT
                           !.conv = Append(@, best),
                           !.orac = Append(@, oracle),
                           !.patience = IF up THEN 0 ELSE @ + 1,
                           !.prevBest = x,
                           !.prevOracle = y]
            /\ saving' = [Nothing EXCEPT !.then = "top"]
            /\ pc' = "persist"
        BY <1>17, <4>1 DEF EndIteration
      <4>3. up \in BOOLEAN
        BY DEF Improved
      <4> HIDE DEF best, oracle, up, x, y
      <4>4. QED
        BY <4>2, <4>3
    <3>0. PICK up \in BOOLEAN : \E best, oracle, x, y :
             /\ ar' = Frozen(ar)
             /\ loop' = [loop EXCEPT
                           !.conv = Append(@, best),
                           !.orac = Append(@, oracle),
                           !.patience = IF up THEN 0 ELSE @ + 1,
                           !.prevBest = x,
                           !.prevOracle = y]
             /\ saving' = [Nothing EXCEPT !.then = "top"]
             /\ pc' = "persist"
      BY <3>1
    <3>2. PICK best, oracle, x, y :
             /\ ar' = Frozen(ar)
             /\ loop' = [loop EXCEPT
                           !.conv = Append(@, best),
                           !.orac = Append(@, oracle),
                           !.patience = IF up THEN 0 ELSE @ + 1,
                           !.prevBest = x,
                           !.prevOracle = y]
             /\ saving' = [Nothing EXCEPT !.then = "top"]
             /\ pc' = "persist"
      BY <3>0
    <3>3. loop' = [iteration |-> loop.iteration, patience |-> IF up THEN 0 ELSE loop.patience + 1,
               prevBest |-> x, prevOracle |-> y,
               conv |-> Append(loop.conv, best), orac |-> Append(loop.orac, oracle),
               done |-> loop.done,
               parents |-> loop.parents, slot |-> loop.slot, newWork |-> loop.newWork,
               halted |-> loop.halted, completed |-> loop.completed]
      BY <3>2 DEF LocalsAreTyped
    <3>4. IsArchive(ar') /\ ar'.cand = ar.cand
      BY <3>2, FrozenParts DEF ArchiveIsTyped
    <3>5. ArchiveIsTyped'
      BY <3>2, <3>3, <3>4 DEF ArchiveIsTyped
    <3>6. LocalsAreTyped'
      <4>1. /\ loop.patience + 1 \in 0..EffectivePatience /\ 0 \in 0..EffectivePatience
            /\ loop.iteration \in 0..MaxIterations /\ loop.slot \in 0..(Slots + 1)
        BY <2>1 DEF LocalsAreTyped
      <4>2. (IF up THEN 0 ELSE loop.patience + 1) \in 0..EffectivePatience
        BY <4>1
      <4>3. QED
        BY <3>2, <3>3, <4>1, <4>2, NothingParts DEF LocalsAreTyped
    <3>7. DiskIsShaped' /\ ProcessIsTyped'
      BY <2>1, <3>2 DEF DiskIsShaped, ProcessIsTyped, disk
    <3>8. QED
      BY <3>5, <3>6, <3>7
  <2>4. QED
    BY <2>2, <2>3
<1>18. CASE Finish
  <2>1. /\ pc = "finish" /\ UNCHANGED <<disk, interruptions, lost>>
        /\ \E c : loop' = [loop EXCEPT !.completed = c]
        /\ \/ /\ \E m : ar' = Add(ar, MergeId, m, {})
              /\ saving'.id = MergeId /\ saving'.then = "exit" /\ pc' = "open"
           \/ pc' = "exit" /\ UNCHANGED <<ar, saving>>
    <3>1. CASE CanMerge(ar, FALSE)
      <4> DEFINE completed == IF loop.halted THEN loop.iteration - 1 ELSE loop.iteration
                 merged == MergedCandidate(ar, completed)
      <4>1. /\ pc = "finish" /\ UNCHANGED <<disk, interruptions, lost>>
            /\ loop' = [loop EXCEPT !.completed = completed]
            /\ ar' = Add(ar, MergeId, merged, {})
            /\ saving' = Save(MergeId, merged, "exit")
            /\ pc' = "open"
        BY <1>18, <3>1 DEF Finish
      <4> HIDE DEF completed, merged
      <4>2. saving'.id = MergeId /\ saving'.then = "exit"
        BY <4>1, SaveParts
      <4>3. QED
        BY <4>1, <4>2, Zenon
    <3>2. CASE ~CanMerge(ar, FALSE)
      BY <1>18, <3>2 DEF Finish
    <3>3. QED
      BY <3>1, <3>2
  <2>2. PICK c : loop' = [loop EXCEPT !.completed = c]
    BY <2>1
  <2>3. loop' = [iteration |-> loop.iteration, patience |-> loop.patience,
               prevBest |-> loop.prevBest, prevOracle |-> loop.prevOracle,
               conv |-> loop.conv, orac |-> loop.orac, done |-> loop.done,
               parents |-> loop.parents, slot |-> loop.slot, newWork |-> loop.newWork,
               halted |-> loop.halted, completed |-> c]
    BY <2>2 DEF LocalsAreTyped
  <2>4. /\ IsArchive(ar') /\ DOMAIN ar.cand \subseteq DOMAIN ar'.cand
        /\ pc' = "open" => MergeId \in DOMAIN ar'.cand
    BY <2>1, AddKeeps DEF ArchiveIsTyped
  <2>5. ArchiveIsTyped'
    BY <2>1, <2>3, <2>4 DEF ArchiveIsTyped
  <2>6. LocalsAreTyped'
    BY <2>1, <2>3 DEF LocalsAreTyped
  <2>7. DiskIsShaped' /\ ProcessIsTyped'
    BY <2>1 DEF DiskIsShaped, ProcessIsTyped, disk
  <2>8. QED
    BY <2>5, <2>6, <2>7
<1>19. CASE Interrupt
  <2>1. IsArchive(EmptyArchive)
    BY EmptyIsSound DEF IsSound
  <2>2. QED
    BY <1>19, <2>1 DEF Interrupt, Idle, ArchiveIsTyped, LocalsAreTyped, DiskIsShaped,
                       ProcessIsTyped, disk
<1>20. CASE UNCHANGED vars
  BY <1>20 DEF vars, ArchiveIsTyped, LocalsAreTyped, DiskIsShaped, ProcessIsTyped
<1>21. QED
  BY <1>1, <1>2, <1>4, <1>5, <1>6, <1>7, <1>8, <1>9, <1>10, <1>12, <1>13, <1>15, <1>16,
     <1>17, <1>18, <1>19, <1>20 DEF Next, Step

LEMMA TypeInvariant == Spec => []IsTyped
BY TypeInit, TypeStep, PTL DEF Spec

\* The locals of the loop, the archive and the process keep their types: no
\* iteration beyond the bound, no patience beyond the stop rule, and parents
\* that are in the archive, through any number of crashes.
THEOREM SearchIsWellTyped == Spec => []TypeOK
<1>1. IsTyped => TypeOK
  BY DEF IsTyped, ArchiveIsTyped, LocalsAreTyped, ProcessIsTyped, TypeOK
<1>2. QED
  BY <1>1, TypeInvariant, PTL

-----------------------------------------------------------------------------
(* The archive in memory and the archive on disk.                          *)

\* The directory of id holds the candidate that is in memory.
Same(id) ==
    /\ id \in Loadable
    /\ Loaded(dirs[id]) = ar.cand[id]
    /\ dirs[id].bars = BarredIn(ar, id)

\* The files of the directory of id, those of killed saves included.
HasFiles(id, d) ==
    /\ d.traces = [t \in DOMAIN d.traces |-> d.traces[t]]
    /\ DOMAIN d.traces \subseteq Tasks
    /\ \A t \in DOMAIN d.traces : d.traces[t] \in Trace \cup {None}
    /\ d.sum # None => (d.sum.depth > 1 <=> id # SeedId)
    /\ \A e \in DOMAIN d.codes : id # SeedId /\ (d.codes[e] # None => Earned(d.codes[e]))
    /\ DOMAIN d.codes # {} /\ id # MergeId => DOMAIN d.traces = Tasks

FilesAreTyped == \A id \in DOMAIN dirs : HasFiles(id, dirs[id])

\* The sidecar at depth e is the last one of a save.
Seals(d, e) == e \in DOMAIN d.codes /\ d.codes[e] # None /\ d.codes[e].depth = e

\* The last sidecar is what a save writes last: where it is, so is the rest.
SealsAreLast ==
    \A id \in DOMAIN dirs : \A e :
        Seals(dirs[id], e) => /\ id \in Loadable
                              /\ Loaded(dirs[id]) = dirs[id].codes[e]
                              /\ \A f \in 2..e : dirs[id].codes[f] = dirs[id].codes[e]

\* A re-propagated child is younger than the child.
RepropsFollow(S) == \A y \in S : y[4] = 2 => [y EXCEPT ![4] = 0] \in S

\* Between two processes the disk is all there is.
DiskIsSound ==
    pc = "boot" /\ ckpt # None =>
        /\ \A id \in Loadable : Complete(id)
        /\ RepropsFollow(Loadable)
        /\ Earned(Loaded(dirs[SeedId]))

\* A process that runs has the seed, and the floor its checkpoints have.
MemoryIsSound ==
    pc # "boot" =>
        /\ IsSound(ar)
        /\ SeedId \in DOMAIN ar.cand /\ Earned(ar.cand[SeedId])
        /\ ckpt # None => ckpt.floor = ar.floor
        /\ RepropsFollow(DOMAIN ar.cand)

\* What is not being written is on disk as it is in memory.
MemoryIsSaved ==
    pc # "boot" =>
        /\ DOMAIN ar.cand \ InFlight = Loadable \ InFlight
        /\ \A id \in Loadable \ InFlight : Same(id)

\* Slot n of iteration i is still ahead.
Ahead(i, n) == i > loop.iteration \/ (i = loop.iteration /\ n >= loop.slot)

\* The child of a slot ahead is in the archive only if it will be skipped.
SlotsAheadAreFree ==
    pc # "boot" =>
        \A i \in 1..MaxIterations, n \in 1..Slots :
            Ahead(i, n) /\ ChildId(i, n) \in DOMAIN ar.cand => ChildId(i, n) \in loop.done

\* The candidate being written is in the archive, and nothing was made from it.
InFlightIsNew ==
    /\ pc \in {"boot", "top", "slot", "finish"} => saving = Nothing
    /\ saving.id # None =>
          /\ saving.id \in DOMAIN ar.cand
          /\ saving.cand = ar.cand[saving.id]
          /\ Earned(saving.cand)
          /\ saving.id # SeedId <=> saving.cand.depth > 1
          /\ saving.id = MergeId => BarredIn(ar, saving.id) = {}
          /\ saving.id # MergeId => DOMAIN saving.cand.traces = Tasks
          /\ saving.then = "reprop" => saving.id[4] = 0 /\ saving.id # SeedId
          /\ saving.id[4] = 0 => Repropagated(saving.id) \notin DOMAIN ar.cand
    /\ Writing \/ pc = "reprop" => saving.id # None
    /\ Writing /\ saving.id = SeedId => ckpt = None
    /\ pc = "persist" /\ saving.id = None => saving.then = "top"
    /\ pc = "reprop" => saving.then = "reprop"

\* What is left to write; no sidecar is the last one before the last one is
\* written, whatever a killed save left.
WriteIsBounded ==
    Writing =>
        /\ saving.left \subseteq DOMAIN saving.cand.traces
        /\ saving.code \in 2..(saving.cand.depth + 1)
        /\ DOMAIN DirOf(saving.id).traces \subseteq DOMAIN saving.cand.traces
        /\ saving.code <= saving.cand.depth => \A e : ~Seals(DirOf(saving.id), e)

\* What the save of c with these bars has written into d.
HasWritten(d, c, bars, left, code) ==
    /\ d.sum = Summary(c) /\ d.bars = bars
    /\ left # {} => code = 2
    /\ \A t \in DOMAIN c.traces \ left : t \in DOMAIN d.traces /\ d.traces[t] = c.traces[t]
    /\ \A e \in 2..(code - 1) : e \in DOMAIN d.codes /\ d.codes[e] = c

\* How far the directory of the candidate being written is.
WriteIsInOrder ==
    /\ pc \in {"open", "summary"} => saving.left = DOMAIN saving.cand.traces /\ saving.code = 2
    /\ pc = "open" /\ ckpt # None => saving.id \notin Loadable
    /\ pc \in {"summary", "files"} => saving.id \in DOMAIN dirs
    /\ pc = "summary" => dirs[saving.id].sum = None
    /\ pc = "files" => HasWritten(dirs[saving.id], saving.cand, BarredIn(ar, saving.id),
                                  saving.left, saving.code)
    /\ pc \in {"persist", "reprop", "exit"} /\ saving.id # None => Same(saving.id)

\* What holds as long as nothing was written over what an earlier process left.
DiskInv ==
    /\ DiskIsTyped /\ FilesAreTyped /\ SealsAreLast /\ CheckpointIsBehind /\ DiskIsSound
    /\ MemoryIsSound /\ MemoryIsSaved /\ SlotsAheadAreFree
    /\ InFlightIsNew /\ WriteIsBounded /\ WriteIsInOrder

IInv == IsTyped /\ (~rewritten => DiskInv)

\* Memory and disk agree on everything.
Saved ==
    /\ pc # "boot" /\ DOMAIN ar.cand = Loadable
    /\ \A id \in Loadable : Same(id)

LEMMA SavedUnlessWriting ==
    ASSUME IsTyped, DiskInv, pc # "boot", ~Writing
    PROVE  Saved
<1>1. CASE saving.id = None
  <2>1. InFlight = {}
    BY <1>1 DEF InFlight
  <2>2. QED
    BY <2>1 DEF DiskInv, MemoryIsSaved, Saved
<1>2. CASE saving.id # None
  <2>1. pc \in {"persist", "reprop", "exit"}
    <3>1. saving # Nothing
      BY <1>2 DEF Nothing
    <3>2. QED
      BY <3>1 DEF IsTyped, ProcessIsTyped, DiskInv, InFlightIsNew, Writing
  <2>2. Same(saving.id) /\ saving.id \in DOMAIN ar.cand
    BY <1>2, <2>1 DEF DiskInv, WriteIsInOrder, InFlightIsNew
  <2>3. /\ DOMAIN ar.cand \ InFlight = Loadable \ InFlight
        /\ \A id \in Loadable \ InFlight : Same(id)
    BY DEF DiskInv, MemoryIsSaved
  <2>4. InFlight = {saving.id} /\ saving.id \in Loadable
    BY <1>2, <2>2 DEF InFlight, Same
  <2> HIDE DEF Same
  <2>5. DOMAIN ar.cand = Loadable /\ \A id \in Loadable : Same(id)
    BY <2>2, <2>3, <2>4
  <2>6. QED
    BY <2>5 DEF Saved
<1>3. QED
  BY <1>1, <1>2

\* The candidate being written, and its directory before the last sidecar.
LEMMA WritingParts ==
    ASSUME IsTyped, DiskInv, Writing
    PROVE  /\ saving.id # None /\ saving.id \in Ids /\ saving.id \in DOMAIN ar.cand /\ pc # "boot"
           /\ saving.cand = ar.cand[saving.id] /\ IsCandidate(saving.cand) /\ Earned(saving.cand)
           /\ saving.id # SeedId <=> saving.cand.depth > 1
           /\ saving.cand.depth \in Nat \ {0} /\ DOMAIN saving.cand.traces \subseteq Tasks
           /\ saving.id # MergeId => DOMAIN saving.cand.traces = Tasks
           /\ InFlight = {saving.id} /\ BeingWritten = {saving.id}
<1>1. saving.id # None /\ pc # "boot"
  BY DEF DiskInv, InFlightIsNew, Writing
<1>2. /\ saving.id \in DOMAIN ar.cand /\ saving.cand = ar.cand[saving.id] /\ Earned(saving.cand)
      /\ saving.id # SeedId <=> saving.cand.depth > 1
      /\ saving.id # MergeId => DOMAIN saving.cand.traces = Tasks
  BY <1>1 DEF DiskInv, InFlightIsNew
<1>3. IsCandidate(saving.cand) /\ saving.id \in Ids
  BY <1>1, <1>2 DEF DiskInv, MemoryIsSound, IsSound
<1>4. InFlight = {saving.id} /\ BeingWritten = {saving.id}
  BY <1>1 DEF InFlight, BeingWritten
<1>5. saving.cand.depth \in Nat \ {0} /\ DOMAIN saving.cand.traces \subseteq Tasks
  BY <1>3 DEF IsCandidate
<1>6. QED
  BY <1>1, <1>2, <1>3, <1>4, <1>5

LEMMA FilesOfDir ==
    ASSUME DiskInv, NEW id
    PROVE  HasFiles(id, DirOf(id))
<1>1. CASE id \in DOMAIN dirs
  BY <1>1 DEF DiskInv, FilesAreTyped, DirOf
<1>2. CASE id \notin DOMAIN dirs
  BY <1>2 DEF DirOf, NoDir, HasFiles
<1>3. QED
  BY <1>1, <1>2

LEMMA NotSealedYet ==
    ASSUME IsTyped, DiskInv, Writing, saving.code = 2 \/ saving.code <= saving.cand.depth
    PROVE  \A e : ~Seals(DirOf(saving.id), e)
<1>1. saving.cand.depth \in Nat \ {0} /\ (saving.id # SeedId <=> saving.cand.depth > 1)
  BY WritingParts
<1>2. CASE saving.code <= saving.cand.depth
  BY <1>2 DEF DiskInv, WriteIsBounded
<1>3. CASE saving.code = 2 /\ saving.cand.depth = 1
  <2>1. saving.id = SeedId /\ HasFiles(saving.id, DirOf(saving.id))
    BY <1>1, <1>3, FilesOfDir
  <2>2. QED
    BY <2>1 DEF HasFiles, Seals
<1>4. QED
  BY <1>1, <1>2, <1>3

\* A write of what would be loaded leaves the last sidecar unwritten.
LEMMA SealedIsWritten ==
    ASSUME IsTyped, DiskInv, Writing, ckpt # None, saving.id \in Loadable,
           Sealed(dirs[saving.id])
    PROVE  pc = "files" /\ saving.left = {} /\ saving.code > saving.cand.depth
<1>1. /\ saving.id # SeedId /\ saving.cand.depth \in Nat /\ saving.cand.depth > 1
  BY WritingParts DEF DiskInv, InFlightIsNew
<1>2. pc = "files"
  BY DEF Writing, DiskInv, WriteIsInOrder, Loadable
<1>3. dirs[saving.id].sum.depth = saving.cand.depth /\ (saving.left # {} => saving.code = 2)
  BY <1>2 DEF DiskInv, WriteIsInOrder, HasWritten, Summary
<1>4. saving.code \in Int
  BY <1>1 DEF DiskInv, WriteIsBounded
<1>5. Seals(dirs[saving.id], saving.cand.depth)
  <2> DEFINE k == saving.cand.depth
             d == dirs[saving.id]
  <2>1. k \in 2..k /\ d.sum.depth = k
    BY <1>1, <1>3
  <2>2. d.codes[k].depth = k
    BY <1>1, <1>3 DEF Sealed
  <2>3. Readable(d.codes, 2..k) = 2..k
    BY <2>1 DEF Loadable
  <2> HIDE DEF k, d
  <2>4. k \in DOMAIN d.codes /\ d.codes[k] # None
    BY <2>1, <2>3 DEF Readable
  <2>5. QED
    BY <2>2, <2>4 DEF Seals, k, d
<1>6. DirOf(saving.id) = dirs[saving.id]
  BY DEF DirOf, Loadable
<1>7. ~(saving.code = 2 \/ saving.code <= saving.cand.depth)
  BY <1>5, <1>6, NotSealedYet
<1>8. QED
  BY <1>1, <1>2, <1>3, <1>4, <1>7

\* What a write does to the directories that are not being written.
LEMMA WriteTouchesOne ==
    ASSUME NEW id, NEW d, WriteDir(id, d)
    PROVE  /\ Loadable' \ {id} = Loadable \ {id}
           /\ \A x \in Loadable \ {id} : dirs'[x] = dirs[x]
<1>1. /\ DOMAIN dirs' = DOMAIN dirs \cup {id}
      /\ \A x \in DOMAIN dirs : x # id => dirs'[x] = dirs[x]
  BY WrittenDir
<1>2. QED
  BY <1>1 DEF Loadable

\* A write of the candidate in flight, as far as the others are concerned.
LEMMA WriteKeeps ==
    ASSUME IsTyped, DiskInv, Writing, NEW d, WriteDir(saving.id, d),
           UNCHANGED <<ar, loop, ckpt>>, saving'.id = saving.id, Writing',
           HasFiles(saving.id, d),
           \A e : Seals(d, e) => /\ saving.id \in Loadable'
                                 /\ Loaded(d) = d.codes[e]
                                 /\ \A f \in 2..e : d.codes[f] = d.codes[e],
           InFlightIsNew', WriteIsBounded', WriteIsInOrder'
    PROVE  DiskInv'
<1>1. /\ DOMAIN dirs' = DOMAIN dirs \cup {saving.id}
      /\ dirs'[saving.id] = d
      /\ \A x \in DOMAIN dirs : x # saving.id => dirs'[x] = dirs[x]
  BY WrittenDir
<1>2. /\ Loadable' \ {saving.id} = Loadable \ {saving.id}
      /\ \A x \in Loadable \ {saving.id} : dirs'[x] = dirs[x]
  BY WriteTouchesOne
<1>3. /\ saving.id # None /\ saving.id \in Ids /\ pc # "boot" /\ pc' # "boot"
      /\ InFlight = {saving.id} /\ BeingWritten = {saving.id}
  BY WritingParts DEF Writing
<1>4. DiskIsTyped'
  BY <1>1, <1>3, FS_AddElement DEF DiskInv, DiskIsTyped
<1>5. FilesAreTyped'
  <2>1. ASSUME NEW x \in DOMAIN dirs' PROVE HasFiles(x, dirs'[x])
    <3>1. CASE x = saving.id
      BY <1>1, <3>1
    <3>2. CASE x # saving.id
      BY <1>1, <3>2 DEF DiskInv, FilesAreTyped
    <3>3. QED
      BY <3>1, <3>2
  <2>2. QED
    BY <2>1 DEF FilesAreTyped, HasFiles
<1>6. SealsAreLast'
  <2>1. ASSUME NEW x \in DOMAIN dirs', NEW e, Seals(dirs'[x], e)
        PROVE  /\ x \in Loadable'
               /\ Loaded(dirs'[x]) = dirs'[x].codes[e]
               /\ \A f \in 2..e : dirs'[x].codes[f] = dirs'[x].codes[e]
    <3>1. CASE x = saving.id
      BY <1>1, <2>1, <3>1
    <3>2. CASE x # saving.id
      <4>1. x \in DOMAIN dirs /\ dirs'[x] = dirs[x]
        BY <1>1, <3>2
      <4>2. /\ x \in Loadable
            /\ Loaded(dirs[x]) = dirs[x].codes[e]
            /\ \A f \in 2..e : dirs[x].codes[f] = dirs[x].codes[e]
        BY <2>1, <4>1 DEF DiskInv, SealsAreLast
      <4>3. QED
        BY <1>2, <3>2, <4>1, <4>2
    <3>3. QED
      BY <3>1, <3>2
  <2>2. QED
    BY <2>1 DEF SealsAreLast, Seals, Loaded
<1>7. CheckpointIsBehind'
  <2>1. BeingWritten' = {saving.id}
    BY DEF BeingWritten
  <2>2. Loadable' \ BeingWritten' = Loadable \ BeingWritten
    BY <1>2, <1>3, <2>1
  <2>3. \A x \in Loadable \ BeingWritten : dirs'[x] = dirs[x]
    BY <1>2, <1>3
  <2>4. QED
    BY <2>2, <2>3 DEF DiskInv, CheckpointIsBehind
<1>8. DiskIsSound'
  BY <1>3 DEF DiskIsSound
<1>9. MemoryIsSound'
  <2>1. /\ IsSound(ar) /\ SeedId \in DOMAIN ar.cand /\ Earned(ar.cand[SeedId])
        /\ ckpt # None => ckpt.floor = ar.floor
        /\ RepropsFollow(DOMAIN ar.cand)
    BY <1>3 DEF DiskInv, MemoryIsSound
  <2>2. ar' = ar /\ ckpt' = ckpt
    OBVIOUS
  <2>3. QED
    BY <2>1, <2>2 DEF MemoryIsSound
<1>10. MemoryIsSaved'
  <2>1. InFlight' = {saving.id}
    BY <1>3 DEF InFlight
  <2>2. /\ DOMAIN ar.cand \ InFlight = Loadable \ InFlight
        /\ \A id \in Loadable \ InFlight : Same(id)
    BY <1>3 DEF DiskInv, MemoryIsSaved
  <2>3. \A id \in Loadable \ {saving.id} : Same(id)'
    BY <1>2, <1>3, <2>2 DEF Same, BarredIn, Loaded
  <2> HIDE DEF Same
  <2>4. QED
    BY <1>2, <1>3, <2>1, <2>2, <2>3 DEF MemoryIsSaved
<1>11. SlotsAheadAreFree'
  BY <1>3 DEF DiskInv, SlotsAheadAreFree, Ahead
<1>12. QED
  BY <1>4, <1>5, <1>6, <1>7, <1>8, <1>9, <1>10, <1>11 DEF DiskInv

\* The parts of InFlightIsNew that do not depend on where the process is.
LEMMA InFlightStays ==
    ASSUME IsTyped, DiskInv, Writing, UNCHANGED <<ar, ckpt>>, saving'.id = saving.id,
           saving'.cand = saving.cand, saving'.then = saving.then,
           pc' \in {"summary", "files", "persist", "exit"},
           pc' = "persist" => saving.then # "exit"
    PROVE  InFlightIsNew'
<1>1. saving.id # None
  BY WritingParts
<1>2. BarredIn(ar, saving.id)' = BarredIn(ar, saving.id)
  BY DEF BarredIn
<1>3. QED
  BY <1>1, <1>2 DEF DiskInv, InFlightIsNew, Writing, Repropagated, Earned

LEMMA OpenSummaryKeeps == IsTyped /\ DiskInv /\ OpenSummary => DiskInv'
<1> SUFFICES ASSUME IsTyped, DiskInv, OpenSummary PROVE DiskInv'
  OBVIOUS
<1> DEFINE base == DirOf(saving.id)
           d == [base EXCEPT !.sum = None]
<1>1. /\ pc = "open" /\ WriteDir(saving.id, d) /\ pc' = "summary" /\ Writing /\ Writing'
      /\ UNCHANGED <<ar, loop, saving, ckpt>>
  BY DEF OpenSummary, Writing
<1>2. HasFiles(saving.id, base) /\ saving.code = 2 /\ saving.left = DOMAIN saving.cand.traces
  BY <1>1, FilesOfDir DEF DiskInv, WriteIsInOrder
<1>3. \A e : ~Seals(base, e)
  BY <1>1, <1>2, NotSealedYet
<1>4. d.sum = None /\ d.traces = base.traces /\ d.codes = base.codes
  <2>1. base = [sum |-> base.sum, bars |-> base.bars, traces |-> base.traces, codes |-> base.codes]
    BY DirParts
  <2> HIDE DEF base
  <2>2. QED
    BY <2>1
<1>5. /\ saving.code \in 2..(saving.cand.depth + 1)
      /\ DOMAIN base.traces \subseteq DOMAIN saving.cand.traces
  BY <1>1 DEF DiskInv, WriteIsBounded
<1> HIDE DEF d, base
<1>6. saving.id \in DOMAIN dirs' /\ dirs'[saving.id] = d
  BY <1>1, WrittenDir
<1>7. DirOf(saving.id)' = d
  BY <1>1, <1>6 DEF DirOf
<1>8. HasFiles(saving.id, d) /\ \A e : ~Seals(d, e)
  BY <1>2, <1>3, <1>4 DEF HasFiles, Seals
<1>9. InFlightIsNew'
  BY <1>1, InFlightStays
<1>10. WriteIsBounded'
  <2>1. \A e : ~Seals(DirOf(saving.id)', e)
    BY <1>7, <1>8
  <2>2. \A e : ~Seals(DirOf(saving.id), e)'
    BY <1>1, <2>1 DEF Seals
  <2>3. QED
    BY <1>1, <1>2, <1>4, <1>5, <1>7, <2>2 DEF WriteIsBounded
<1>11. WriteIsInOrder'
  BY <1>1, <1>2, <1>4, <1>6 DEF WriteIsInOrder
<1>12. QED
  BY <1>1, <1>8, <1>9, <1>10, <1>11, WriteKeeps

LEMMA WriteSummaryKeeps == IsTyped /\ DiskInv /\ WriteSummary => DiskInv'
<1> SUFFICES ASSUME IsTyped, DiskInv, WriteSummary PROVE DiskInv'
  OBVIOUS
<1> DEFINE base == DirOf(saving.id)
           sum == Summary(saving.cand)
           bars == {t \in Tasks : <<saving.id, t>> \in ar.bars}
           d == [base EXCEPT !.sum = sum, !.bars = bars]
<1>1. /\ pc = "summary" /\ WriteDir(saving.id, d) /\ pc' = "files" /\ Writing /\ Writing'
      /\ UNCHANGED <<ar, loop, saving, ckpt>>
  BY DEF WriteSummary, Writing
<1>2. HasFiles(saving.id, base) /\ saving.code = 2 /\ saving.left = DOMAIN saving.cand.traces
  BY <1>1, FilesOfDir DEF DiskInv, WriteIsInOrder
<1>3. \A e : ~Seals(base, e)
  BY <1>1, <1>2, NotSealedYet
<1>4. d.sum = sum /\ d.bars = bars /\ d.traces = base.traces /\ d.codes = base.codes
  <2>1. base = [sum |-> base.sum, bars |-> base.bars, traces |-> base.traces, codes |-> base.codes]
    BY DirParts
  <2> DEFINE half == [base EXCEPT !.sum = sum]
  <2> HIDE DEF base, sum, bars
  <2>2. half = [sum |-> sum, bars |-> base.bars, traces |-> base.traces, codes |-> base.codes]
    BY <2>1
  <2>3. d = [half EXCEPT !.bars = bars]
    OBVIOUS
  <2> HIDE DEF half, d
  <2>4. QED
    BY <2>2, <2>3
<1>5. sum.depth > 1 <=> saving.id # SeedId
  BY <1>1, WritingParts DEF Summary
<1>6. /\ saving.code \in 2..(saving.cand.depth + 1)
      /\ DOMAIN base.traces \subseteq DOMAIN saving.cand.traces
  BY <1>1 DEF DiskInv, WriteIsBounded
<1>7. bars = BarredIn(ar, saving.id)
  BY DEF BarredIn
<1> HIDE DEF d, base, bars, sum
<1>8. saving.id \in DOMAIN dirs' /\ dirs'[saving.id] = d
  BY <1>1, WrittenDir
<1>9. DirOf(saving.id)' = d
  BY <1>1, <1>8 DEF DirOf
<1>10. HasFiles(saving.id, d) /\ \A e : ~Seals(d, e)
  BY <1>2, <1>3, <1>4, <1>5 DEF HasFiles, Seals
<1>11. InFlightIsNew'
  BY <1>1, InFlightStays
<1>12. WriteIsBounded'
  <2>1. \A e : ~Seals(DirOf(saving.id)', e)
    BY <1>9, <1>10
  <2>2. \A e : ~Seals(DirOf(saving.id), e)'
    BY <1>1, <2>1 DEF Seals
  <2>3. QED
    BY <1>1, <1>2, <1>4, <1>6, <1>9, <2>2 DEF WriteIsBounded
<1>13. WriteIsInOrder'
  <2>1. HasWritten(d, saving.cand, BarredIn(ar, saving.id), saving.left, saving.code)
    BY <1>2, <1>4, <1>7 DEF HasWritten, sum
  <2>2. HasWritten(dirs[saving.id], saving.cand, BarredIn(ar, saving.id), saving.left, saving.code)'
    BY <1>1, <1>8, <2>1 DEF HasWritten, Summary, BarredIn
  <2>3. QED
    BY <1>1, <1>8, <2>2 DEF WriteIsInOrder
<1>14. QED
  BY <1>1, <1>10, <1>11, <1>12, <1>13, WriteKeeps

\* A trace is truncated, or written.
LEMMA TraceKeeps ==
    ASSUME IsTyped, DiskInv, pc = "files", NEW t \in saving.left, NEW v \in Trace \cup {None},
           WriteDir(saving.id, [DirOf(saving.id) EXCEPT !.traces = Put(@, t, v)]),
           UNCHANGED <<ar, loop, pc, ckpt>>, saving'.id = saving.id, saving'.cand = saving.cand,
           saving'.then = saving.then, saving'.code = saving.code,
           \/ saving'.left = saving.left
           \/ saving'.left = saving.left \ {t} /\ v = saving.cand.traces[t]
    PROVE  DiskInv'
<1> DEFINE base == DirOf(saving.id)
           c == saving.cand
           traces == Put(base.traces, t, v)
           d == [base EXCEPT !.traces = traces]
           bars == BarredIn(ar, saving.id)
<1>1. Writing /\ Writing' /\ WriteDir(saving.id, d)
  BY DEF Writing
<1>2. d.sum = base.sum /\ d.bars = base.bars /\ d.traces = traces /\ d.codes = base.codes
  <2>1. base = [sum |-> base.sum, bars |-> base.bars, traces |-> base.traces, codes |-> base.codes]
    BY DirParts
  <2> HIDE DEF base, traces
  <2>2. QED
    BY <2>1
<1>3. /\ DOMAIN traces = DOMAIN base.traces \cup {t} /\ traces[t] = v
      /\ \A u \in DOMAIN base.traces : u # t => traces[u] = base.traces[u]
      /\ traces = [u \in DOMAIN traces |-> traces[u]]
  <2> DEFINE f == base.traces
  <2> HIDE DEF f
  <2>1. /\ DOMAIN Put(f, t, v) = DOMAIN f \cup {t} /\ Put(f, t, v)[t] = v
        /\ \A u \in DOMAIN f : u # t => Put(f, t, v)[u] = f[u]
        /\ Put(f, t, v) = [u \in DOMAIN Put(f, t, v) |-> Put(f, t, v)[u]]
    BY DEF Put
  <2>2. QED
    BY <2>1 DEF f
<1>4. /\ saving.left \subseteq DOMAIN c.traces /\ saving.code \in 2..(c.depth + 1)
      /\ DOMAIN base.traces \subseteq DOMAIN c.traces
  BY <1>1 DEF DiskInv, WriteIsBounded
<1>5. HasWritten(base, c, bars, saving.left, saving.code)
  BY DEF DiskInv, WriteIsInOrder, DirOf
<1>6. saving.code = 2 /\ t \in DOMAIN c.traces
  BY <1>4, <1>5 DEF HasWritten
<1>7. \A e : ~Seals(base, e)
  BY <1>1, <1>6, NotSealedYet
<1>8. DOMAIN c.traces \subseteq Tasks /\ HasFiles(saving.id, base)
  BY <1>1, WritingParts, FilesOfDir
<1> HIDE DEF base, c, traces, d, bars
<1>9. saving.id \in DOMAIN dirs' /\ dirs'[saving.id] = d
  BY <1>1, WrittenDir
<1>10. DirOf(saving.id)' = d
  BY <1>9 DEF DirOf
<1>11. HasFiles(saving.id, d)
  <2>1. DOMAIN d.traces \subseteq Tasks /\ DOMAIN base.traces \subseteq DOMAIN d.traces
    BY <1>2, <1>3, <1>6, <1>8 DEF HasFiles
  <2>2. \A u \in DOMAIN d.traces : d.traces[u] \in Trace \cup {None}
    BY <1>2, <1>3, <1>8 DEF HasFiles
  <2>3. QED
    BY <1>2, <1>3, <1>8, <2>1, <2>2 DEF HasFiles
<1>12. \A e : ~Seals(d, e)
  BY <1>2, <1>7 DEF Seals
<1>13. InFlightIsNew'
  BY <1>1, InFlightStays
<1>14. WriteIsBounded'
  <2>1. \A e : ~Seals(DirOf(saving.id)', e)
    BY <1>10, <1>12
  <2>2. \A e : ~Seals(DirOf(saving.id), e)'
    BY <2>1 DEF Seals
  <2>3. DOMAIN d.traces \subseteq DOMAIN c.traces /\ saving'.left \subseteq DOMAIN c.traces
    BY <1>2, <1>3, <1>4, <1>6
  <2>4. QED
    BY <1>4, <1>10, <2>2, <2>3 DEF WriteIsBounded, c
<1>15. WriteIsInOrder'
  <2>1. \A u \in DOMAIN c.traces \ saving'.left :
           u \in DOMAIN d.traces /\ d.traces[u] = c.traces[u]
    <3> TAKE u \in DOMAIN c.traces \ saving'.left
    <3>1. CASE u = t
      <4>1. v = c.traces[t]
        BY <3>1 DEF c
      <4>2. QED
        BY <1>2, <1>3, <3>1, <4>1
    <3>2. CASE u # t
      <4>1. u \in DOMAIN c.traces \ saving.left
        BY <3>2
      <4>2. QED
        BY <1>2, <1>3, <1>5, <3>2, <4>1 DEF HasWritten
    <3>3. QED
      BY <3>1, <3>2
  <2>2. HasWritten(d, c, bars, saving'.left, saving'.code)
    BY <1>2, <1>5, <1>6, <2>1 DEF HasWritten
  <2>3. HasWritten(dirs[saving.id], saving.cand, BarredIn(ar, saving.id), saving.left, saving.code)'
    BY <1>9, <2>2 DEF HasWritten, Summary, BarredIn, c, bars
  <2>4. QED
    BY <1>9, <2>3 DEF WriteIsInOrder
<1>16. QED
  BY <1>1, <1>11, <1>12, <1>13, <1>14, <1>15, WriteKeeps

LEMMA TracesKeep == IsTyped /\ DiskInv /\ (OpenTrace \/ WriteTrace) => DiskInv'
<1> SUFFICES ASSUME IsTyped, DiskInv, OpenTrace \/ WriteTrace PROVE DiskInv'
  OBVIOUS
<1> DEFINE t == NextTrace
<1>1. /\ pc = "files" /\ saving.left # {} /\ UNCHANGED <<ar, loop, pc, ckpt>>
      /\ \/ /\ WriteDir(saving.id, [DirOf(saving.id) EXCEPT !.traces = Put(@, t, None)])
            /\ saving' = saving
         \/ /\ WriteDir(saving.id, [DirOf(saving.id) EXCEPT
                                       !.traces = Put(@, t, saving.cand.traces[t])])
            /\ saving' = [saving EXCEPT !.left = @ \ {t}]
  BY DEF OpenTrace, WriteTrace
<1>2. t \in saving.left
  BY <1>1 DEF NextTrace
<1> HIDE DEF t
<1>3. saving.cand.traces[t] \in Trace
  <2>1. Writing
    BY <1>1 DEF Writing
  <2>2. t \in DOMAIN saving.cand.traces
    BY <1>2, <2>1 DEF DiskInv, WriteIsBounded
  <2>3. QED
    BY <2>1, <2>2, WritingParts DEF IsCandidate
<1>4. CASE /\ WriteDir(saving.id, [DirOf(saving.id) EXCEPT !.traces = Put(@, t, None)])
           /\ saving' = saving
  BY <1>1, <1>2, <1>4, TraceKeeps
<1>5. CASE /\ WriteDir(saving.id, [DirOf(saving.id) EXCEPT
                                    !.traces = Put(@, t, saving.cand.traces[t])])
           /\ saving' = [saving EXCEPT !.left = @ \ {t}]
  <2>1. /\ saving'.id = saving.id /\ saving'.cand = saving.cand /\ saving'.then = saving.then
        /\ saving'.left = saving.left \ {t} /\ saving'.code = saving.code
    BY <1>5 DEF IsTyped, SavingIsShaped
  <2> DEFINE v == saving.cand.traces[t]
  <2>2. v \in Trace \cup {None} /\ v = saving.cand.traces[t]
        /\ WriteDir(saving.id, [DirOf(saving.id) EXCEPT !.traces = Put(@, t, v)])
    BY <1>3, <1>5
  <2> HIDE DEF v
  <2>3. QED
    BY <1>1, <1>2, <2>1, <2>2, TraceKeeps
<1>6. QED
  BY <1>1, <1>4, <1>5

\* A directory into which all of c has been written gives c back.
LEMMA WholeDir ==
    ASSUME NEW c, IsCandidate(c), NEW d, NEW bars, HasWritten(d, c, bars, {}, c.depth + 1),
           d.traces = [t \in DOMAIN d.traces |-> d.traces[t]],
           DOMAIN d.traces \subseteq DOMAIN c.traces
    PROVE  /\ Loaded(d) = c /\ d.sum # None /\ d.sum.depth = c.depth
           /\ Readable(d.traces, Tasks) = DOMAIN d.traces
           /\ Readable(d.codes, 2..d.sum.depth) = 2..d.sum.depth
<1>1. d.sum = Summary(c) /\ d.sum # None /\ d.sum.depth = c.depth /\ c # None
      /\ c.depth \in Nat
  BY CandidateIsSome DEF HasWritten, Summary, IsCandidate
<1>2. d.traces = c.traces
  <2>1. DOMAIN d.traces = DOMAIN c.traces /\ \A t \in DOMAIN c.traces : d.traces[t] = c.traces[t]
    BY DEF HasWritten
  <2>2. c.traces = [t \in DOMAIN c.traces |-> c.traces[t]]
    BY DEF IsCandidate
  <2>3. QED
    BY <2>1, <2>2
<1>3. Loaded(d) = c
  <2>1. /\ d.sum.parent = c.parent /\ d.sum.iter = c.iter /\ d.sum.depth = c.depth
        /\ d.sum.routed = c.routed /\ d.sum.mean = c.mean
    BY <1>1 DEF Summary
  <2>2. c = [parent |-> c.parent, iter |-> c.iter, depth |-> c.depth,
             routed |-> c.routed, mean |-> c.mean, traces |-> c.traces]
    BY DEF IsCandidate
  <2>3. QED
    BY <1>2, <2>1, <2>2 DEF Loaded
<1>4. Readable(d.traces, Tasks) = DOMAIN d.traces
  <2>1. DOMAIN c.traces \subseteq Tasks /\ \A t \in DOMAIN c.traces : c.traces[t] # None
    BY NoValueAssumption DEF IsCandidate
  <2>2. QED
    BY <1>2, <2>1 DEF Readable
<1>5. Readable(d.codes, 2..d.sum.depth) = 2..d.sum.depth
  <2>1. \A e \in 2..c.depth : e \in DOMAIN d.codes /\ d.codes[e] = c
    <3>1. 2..((c.depth + 1) - 1) = 2..c.depth
      BY <1>1
    <3>2. QED
      BY <3>1 DEF HasWritten
  <2> DEFINE S == 2..c.depth
  <2> HIDE DEF S
  <2>2. Readable(d.codes, S) = S
    BY <1>1, <2>1 DEF Readable, S
  <2>3. QED
    BY <1>1, <2>2 DEF S
<1>6. QED
  BY <1>1, <1>3, <1>4, <1>5

\* A sidecar is truncated, or written: the one of the candidate's depth seals the
\* directory.
LEMMA CodeKeeps ==
    ASSUME IsTyped, DiskInv, pc = "files", saving.left = {}, saving.code <= saving.cand.depth,
           NEW v, WriteDir(saving.id, [DirOf(saving.id) EXCEPT !.codes = Put(@, saving.code, v)]),
           UNCHANGED <<ar, loop, pc, ckpt>>, saving'.id = saving.id, saving'.cand = saving.cand,
           saving'.then = saving.then, saving'.left = saving.left,
           \/ saving'.code = saving.code /\ v = None
           \/ saving'.code = saving.code + 1 /\ v = saving.cand
    PROVE  DiskInv'
<1> DEFINE base == DirOf(saving.id)
           c == saving.cand
           k == saving.code
           codes == Put(base.codes, k, v)
           d == [base EXCEPT !.codes = codes]
           bars == BarredIn(ar, saving.id)
<1>1. Writing /\ Writing' /\ WriteDir(saving.id, d)
  BY DEF Writing
<1>2. d.sum = base.sum /\ d.bars = base.bars /\ d.traces = base.traces /\ d.codes = codes
  <2>1. base = [sum |-> base.sum, bars |-> base.bars, traces |-> base.traces, codes |-> base.codes]
    BY DirParts
  <2> HIDE DEF base, codes
  <2>2. QED
    BY <2>1
<1>3. /\ DOMAIN codes = DOMAIN base.codes \cup {k} /\ codes[k] = v
      /\ \A e \in DOMAIN base.codes : e # k => codes[e] = base.codes[e]
  <2> DEFINE f == base.codes
  <2> HIDE DEF f, k
  <2>1. codes = Put(f, k, v)
    BY DEF f, k
  <2> HIDE DEF codes, base
  <2>2. /\ DOMAIN codes = DOMAIN f \cup {k} /\ codes[k] = v
        /\ \A e \in DOMAIN f : e # k => codes[e] = f[e]
    BY <2>1 DEF Put
  <2>3. QED
    BY <2>2 DEF f
<1>4. /\ k \in 2..(c.depth + 1) /\ k <= c.depth
      /\ DOMAIN base.traces \subseteq DOMAIN c.traces
  BY <1>1 DEF DiskInv, WriteIsBounded
<1>5. HasWritten(base, c, bars, {}, k)
  BY DEF DiskInv, WriteIsInOrder, DirOf
<1>6. \A e : ~Seals(base, e)
  BY <1>1, NotSealedYet
<1>7. /\ IsCandidate(c) /\ c.depth \in Nat \ {0} /\ Earned(c) /\ c # None
      /\ saving.id # SeedId <=> c.depth > 1
      /\ saving.id # MergeId => DOMAIN c.traces = Tasks
      /\ HasFiles(saving.id, base) /\ BarredIn(ar, saving.id) = bars
  BY <1>1, WritingParts, FilesOfDir, CandidateIsSome
<1>8. saving.id \in DOMAIN dirs' /\ dirs'[saving.id] = d
  <2> HIDE DEF d
  <2>1. QED
    BY <1>1 DEF WriteDir, Put
<1> HIDE DEF base, c, codes, d, bars, k
<1>9. k \in 2..c.depth /\ saving.id # SeedId
  BY <1>4, <1>7
<1>10. DirOf(saving.id)' = d
  BY <1>8 DEF DirOf
<1>11. HasFiles(saving.id, d)
  <2>1. \A e \in DOMAIN codes : codes[e] # None => Earned(codes[e])
    <3> SUFFICES ASSUME NEW e \in DOMAIN codes, codes[e] # None PROVE Earned(codes[e])
      OBVIOUS
    <3>1. CASE e = k
      BY <1>3, <1>7, <3>1 DEF c
    <3>2. CASE e # k
      BY <1>3, <1>7, <3>2 DEF HasFiles
    <3>3. QED
      BY <3>1, <3>2
  <2>2. saving.id # MergeId => DOMAIN base.traces = Tasks
    <3>1. DOMAIN c.traces \subseteq DOMAIN base.traces
      BY <1>5 DEF HasWritten
    <3>2. QED
      BY <1>4, <1>7, <3>1
  <2>3. QED
    BY <1>2, <1>7, <1>9, <2>1, <2>2 DEF HasFiles
<1>12. \A e \in 2..(saving'.code - 1) : e \in DOMAIN codes /\ codes[e] = c
  <2> TAKE e \in 2..(saving'.code - 1)
  <2>1. CASE e = k
    <3>1. v = c
      <4>1. saving'.code # k
        BY <1>9, <2>1 DEF k
      <4>2. QED
        BY <4>1 DEF c, k
    <3>2. QED
      BY <1>3, <2>1, <3>1
  <2>2. CASE e # k
    <3>1. e \in 2..(k - 1)
      <4>1. saving'.code = k \/ saving'.code = k + 1
        BY DEF k
      <4>2. QED
        BY <1>9, <2>2, <4>1
    <3>2. QED
      BY <1>3, <1>5, <2>2, <3>1 DEF HasWritten
  <2>3. QED
    BY <2>1, <2>2
<1>13. HasWritten(d, c, bars, {}, saving'.code)
  BY <1>2, <1>5, <1>12 DEF HasWritten
<1>14. ASSUME NEW e, Seals(d, e) PROVE e = k /\ c.depth = k /\ saving'.code = k + 1
  <2>1. e = k
    BY <1>2, <1>3, <1>6, <1>14 DEF Seals
  <2>2. v # None /\ v.depth = k
    BY <1>2, <1>3, <1>14, <2>1 DEF Seals
  <2>3. QED
    BY <2>1, <2>2 DEF c, k
<1>15. ASSUME NEW e, Seals(d, e)
       PROVE  /\ saving.id \in Loadable'
              /\ Loaded(d) = d.codes[e]
              /\ \A f \in 2..e : d.codes[f] = d.codes[e]
  <2>1. e = k /\ c.depth = k /\ saving'.code = k + 1
    BY <1>14, <1>15
  <2>2. HasWritten(d, c, bars, {}, c.depth + 1)
    BY <1>13, <2>1
  <2>3. d.traces = [t \in DOMAIN d.traces |-> d.traces[t]] /\ DOMAIN d.traces \subseteq DOMAIN c.traces
    BY <1>2, <1>4, <1>7 DEF HasFiles
  <2>4. /\ Loaded(d) = c /\ d.sum # None
        /\ Readable(d.traces, Tasks) = DOMAIN d.traces
        /\ Readable(d.codes, 2..d.sum.depth) = 2..d.sum.depth
    BY <1>7, <2>2, <2>3, WholeDir
  <2>5. saving.id \in Loadable'
    BY <1>8, <2>4 DEF Loadable, Readable
  <2>6. \A f \in 2..e : d.codes[f] = c
    BY <1>2, <1>9, <1>12, <2>1
  <2>7. d.codes[e] = c
    BY <1>9, <2>1, <2>6
  <2>8. QED
    BY <2>4, <2>5, <2>6, <2>7
<1>16. InFlightIsNew'
  BY <1>1, InFlightStays
<1>17. WriteIsBounded'
  <2>1. saving'.code <= c.depth => \A e : ~Seals(DirOf(saving.id)', e)
    BY <1>9, <1>10, <1>14
  <2>2. saving'.code <= c.depth => \A e : ~Seals(DirOf(saving.id), e)'
    BY <2>1 DEF Seals
  <2>3. saving'.code \in 2..(c.depth + 1)
    BY <1>7, <1>9 DEF k
  <2>4. DOMAIN d.traces \subseteq DOMAIN c.traces /\ saving'.left \subseteq DOMAIN c.traces
    BY <1>2, <1>4
  <2>5. QED
    BY <1>10, <2>2, <2>3, <2>4 DEF WriteIsBounded, c
<1>18. WriteIsInOrder'
  <2>1. HasWritten(dirs[saving.id], saving.cand, BarredIn(ar, saving.id), saving.left, saving.code)'
    BY <1>8, <1>13 DEF HasWritten, Summary, BarredIn, c, bars
  <2>2. QED
    BY <1>8, <2>1 DEF WriteIsInOrder
<1>19. QED
  BY <1>1, <1>11, <1>15, <1>16, <1>17, <1>18, WriteKeeps

LEMMA CodesKeep == IsTyped /\ DiskInv /\ (OpenCode \/ WriteCode) => DiskInv'
<1> SUFFICES ASSUME IsTyped, DiskInv, OpenCode \/ WriteCode PROVE DiskInv'
  OBVIOUS
<1>1. /\ pc = "files" /\ saving.left = {} /\ saving.code <= saving.cand.depth
      /\ UNCHANGED <<ar, loop, pc, ckpt>>
      /\ \/ /\ WriteDir(saving.id, [DirOf(saving.id) EXCEPT !.codes = Put(@, saving.code, None)])
            /\ saving' = saving
         \/ /\ WriteDir(saving.id, [DirOf(saving.id) EXCEPT
                                       !.codes = Put(@, saving.code, saving.cand)])
            /\ saving' = [saving EXCEPT !.code = @ + 1]
  BY DEF OpenCode, WriteCode
<1>2. CASE /\ WriteDir(saving.id, [DirOf(saving.id) EXCEPT !.codes = Put(@, saving.code, None)])
           /\ saving' = saving
  BY <1>1, <1>2, CodeKeeps
<1>3. CASE /\ WriteDir(saving.id, [DirOf(saving.id) EXCEPT
                                    !.codes = Put(@, saving.code, saving.cand)])
           /\ saving' = [saving EXCEPT !.code = @ + 1]
  <2>1. /\ saving'.id = saving.id /\ saving'.cand = saving.cand /\ saving'.then = saving.then
        /\ saving'.left = saving.left /\ saving'.code = saving.code + 1
    BY <1>3 DEF IsTyped, SavingIsShaped
  <2> DEFINE v == saving.cand
  <2>2. v = saving.cand
        /\ WriteDir(saving.id, [DirOf(saving.id) EXCEPT !.codes = Put(@, saving.code, v)])
    BY <1>3
  <2> HIDE DEF v
  <2>3. QED
    BY <1>1, <2>1, <2>2, CodeKeeps
<1>4. QED
  BY <1>1, <1>2, <1>3

\* The save is over.
LEMMA EndSaveKeeps == IsTyped /\ DiskInv /\ EndSave => DiskInv'
<1> SUFFICES ASSUME IsTyped, DiskInv, EndSave PROVE DiskInv'
  OBVIOUS
<1>1. /\ pc = "files" /\ saving.left = {} /\ saving.code > saving.cand.depth /\ Writing
      /\ pc' \in {"persist", "exit"}
      /\ pc' = "persist" => saving.then # "exit"
      /\ UNCHANGED <<ar, loop, saving, dirs, ckpt>>
  BY DEF EndSave, Writing, disk
<1> DEFINE c == saving.cand
           d == dirs[saving.id]
           bars == BarredIn(ar, saving.id)
<1>2. /\ IsCandidate(c) /\ c.depth \in Nat \ {0} /\ c = ar.cand[saving.id]
      /\ BeingWritten = {saving.id} /\ InFlight = {saving.id} /\ pc # "boot"
  BY <1>1, WritingParts
<1>3. saving.code = c.depth + 1
  <2>1. saving.code \in 2..(c.depth + 1) /\ saving.code > c.depth
    BY <1>1 DEF DiskInv, WriteIsBounded
  <2> HIDE DEF c
  <2>2. QED
    BY <1>2, <2>1
<1>4. saving.id \in DOMAIN dirs /\ HasWritten(d, c, bars, {}, c.depth + 1)
  <2>1. HasWritten(d, c, bars, {}, saving.code) /\ saving.id \in DOMAIN dirs
    BY <1>1 DEF DiskInv, WriteIsInOrder
  <2>2. QED
    BY <1>3, <2>1
<1>5. d.traces = [t \in DOMAIN d.traces |-> d.traces[t]] /\ DOMAIN d.traces \subseteq DOMAIN c.traces
  BY <1>1, <1>4 DEF DiskInv, WriteIsBounded, DirOf, FilesAreTyped, HasFiles
<1>6. Same(saving.id)
  <2>1. /\ Loaded(d) = c /\ d.sum # None
        /\ Readable(d.traces, Tasks) = DOMAIN d.traces
        /\ Readable(d.codes, 2..d.sum.depth) = 2..d.sum.depth
    <3> HIDE DEF c, d, bars
    <3> QED
      BY <1>2, <1>4, <1>5, WholeDir
  <2>2. d.bars = bars
    BY <1>4 DEF HasWritten
  <2>3. QED
    BY <1>2, <1>4, <2>1, <2>2 DEF Same, Loadable
<1> HIDE DEF c, d, bars
<1>7. Loadable' = Loadable /\ \A id : Same(id)' <=> Same(id)
  BY <1>1 DEF Loadable, Same, Loaded, BarredIn
<1> HIDE DEF Same
<1>8. DiskIsTyped' /\ FilesAreTyped' /\ DiskIsSound' /\ SlotsAheadAreFree'
  BY <1>1, <1>2 DEF DiskInv, DiskIsTyped, FilesAreTyped, HasFiles, DiskIsSound, SlotsAheadAreFree,
                    Ahead
<1>9. SealsAreLast'
  BY <1>1, <1>7 DEF DiskInv, SealsAreLast, Seals, Loaded
<1>10. CheckpointIsBehind'
  <2>1. BeingWritten' = {}
    BY <1>1 DEF BeingWritten, Writing
  <2>2. QED
    BY <1>1, <1>7, <2>1 DEF DiskInv, CheckpointIsBehind
<1>11. MemoryIsSound'
  <2>1. /\ IsSound(ar) /\ SeedId \in DOMAIN ar.cand /\ Earned(ar.cand[SeedId])
        /\ ckpt # None => ckpt.floor = ar.floor
        /\ RepropsFollow(DOMAIN ar.cand)
    BY <1>2 DEF DiskInv, MemoryIsSound
  <2>2. ar' = ar /\ ckpt' = ckpt
    BY <1>1
  <2>3. QED
    BY <2>1, <2>2 DEF MemoryIsSound
<1>12. MemoryIsSaved'
  <2>1. InFlight' = InFlight
    BY <1>1 DEF InFlight
  <2>2. QED
    BY <1>1, <1>2, <1>7, <2>1 DEF DiskInv, MemoryIsSaved
<1>13. InFlightIsNew'
  BY <1>1, InFlightStays
<1>14. WriteIsBounded' /\ WriteIsInOrder'
  <2>1. Same(saving.id)' /\ saving' = saving
    BY <1>1, <1>6, <1>7
  <2>2. QED
    BY <1>1, <2>1 DEF WriteIsBounded, WriteIsInOrder, Writing
<1>15. QED
  BY <1>8, <1>9, <1>10, <1>11, <1>12, <1>13, <1>14 DEF DiskInv

\* A step that leaves the disk alone and begins to write nothing a resume would
\* load.
LEMMA DiskStays ==
    ASSUME DiskInv, UNCHANGED <<dirs, ckpt>>, ckpt # None => BeingWritten' \cap Loadable = {}
    PROVE  /\ DiskIsTyped' /\ FilesAreTyped' /\ SealsAreLast' /\ CheckpointIsBehind'
           /\ Loadable' = Loadable
           /\ \A id : DirOf(id)' = DirOf(id)
<1>1. Loadable' = Loadable
  BY DEF Loadable
<1>2. DiskIsTyped' /\ FilesAreTyped'
  BY DEF DiskInv, DiskIsTyped, FilesAreTyped, HasFiles, Earned
<1>3. SealsAreLast'
  BY <1>1 DEF DiskInv, SealsAreLast, Seals, Loaded
<1>4. CheckpointIsBehind'
  <2> HIDE DEF BeingWritten
  <2>1. QED
    BY <1>1 DEF DiskInv, CheckpointIsBehind
<1>5. \A id : DirOf(id)' = DirOf(id)
  BY DEF DirOf
<1>6. QED
  BY <1>1, <1>2, <1>3, <1>4, <1>5

\* The checkpoint.
LEMMA PersistKeeps == IsTyped /\ DiskInv /\ Persist => DiskInv'
<1> SUFFICES ASSUME IsTyped, DiskInv, Persist PROVE DiskInv'
  OBVIOUS
<1>1. /\ pc = "persist" /\ pc' = saving.then /\ pc' \in {"top", "slot", "reprop"}
      /\ ckpt' = Checkpoint \/ ckpt' = ckpt
      /\ saving' = IF saving.then = "reprop" THEN saving ELSE Nothing
      /\ UNCHANGED <<ar, loop, dirs>>
  BY DEF Persist, IsTyped, ProcessIsTyped
<1>2. Saved
  BY <1>1, SavedUnlessWriting DEF Writing
<1>3. IsSound(ar) /\ SeedId \in DOMAIN ar.cand
  BY <1>1 DEF DiskInv, MemoryIsSound
<1>4. Loadable' = Loadable /\ \A id : Same(id)' <=> Same(id)
  BY <1>1 DEF Loadable, Same, Loaded, BarredIn
<1>5. DiskIsTyped' /\ FilesAreTyped' /\ SealsAreLast' /\ DiskIsSound' /\ SlotsAheadAreFree'
  <2>1. DiskIsTyped' /\ FilesAreTyped'
    BY <1>1 DEF DiskInv, DiskIsTyped, FilesAreTyped, HasFiles, Earned
  <2>2. SealsAreLast'
    BY <1>1, <1>4 DEF DiskInv, SealsAreLast, Seals, Loaded
  <2>3. DiskIsSound' /\ SlotsAheadAreFree'
    BY <1>1 DEF DiskInv, DiskIsSound, SlotsAheadAreFree, Ahead
  <2>4. QED
    BY <2>1, <2>2, <2>3
<1>6. CheckpointIsBehind'
  <2>0. BeingWritten' = {} /\ BeingWritten = {}
    BY <1>1 DEF BeingWritten, Writing
  <2> HIDE DEF BeingWritten
  <2>1. CASE ckpt' = ckpt
    BY <1>1, <1>4, <2>0, <2>1 DEF DiskInv, CheckpointIsBehind
  <2>2. CASE ckpt' = Checkpoint
    <3>1. ckpt'.floor = ar.floor /\ ckpt'.bars = ar.bars
      BY <2>2 DEF Checkpoint
    <3>2. SeedId \in Loadable /\ ar.floor \in [Tasks -> Trace \cup {None}]
      BY <1>2, <1>3 DEF Saved, IsSound
    <3>3. ASSUME NEW p \in ar.bars
          PROVE  \E id \in Loadable, t \in Tasks : p = <<id, t>> /\ t \in dirs[id].bars
      <4>0. PICK x \in DOMAIN ar.cand : \E t \in DOMAIN ar.cand[x].traces : p = <<x, t>>
        BY <1>3, <3>3 DEF IsSound
      <4>1. PICK t \in DOMAIN ar.cand[x].traces : p = <<x, t>>
        BY <4>0
      <4>2. t \in Tasks
        BY <1>3, <4>1 DEF IsSound, IsCandidate
      <4>3. x \in Loadable /\ dirs[x].bars = BarredIn(ar, x)
        BY <1>2, <4>1 DEF Saved, Same
      <4>4. t \in BarredIn(ar, x)
        BY <3>3, <4>1, <4>2 DEF BarredIn
      <4>5. QED
        BY <4>1, <4>2, <4>3, <4>4
    <3>4. QED
      BY <1>1, <1>4, <2>0, <3>1, <3>2, <3>3 DEF CheckpointIsBehind
  <2>3. QED
    BY <1>1, <2>1, <2>2
<1>7. MemoryIsSound'
  <2>1. ckpt' # None => ckpt'.floor = ar.floor
    BY <1>1 DEF DiskInv, MemoryIsSound, Checkpoint
  <2>2. RepropsFollow(DOMAIN ar.cand) /\ Earned(ar.cand[SeedId])
    BY <1>1 DEF DiskInv, MemoryIsSound
  <2>3. QED
    BY <1>1, <1>3, <2>1, <2>2 DEF MemoryIsSound, IsSound, BestIsGreatest, Earned
<1>8. MemoryIsSaved'
  <2> HIDE DEF Same
  <2>1. QED
    BY <1>1, <1>2, <1>4 DEF Saved, MemoryIsSaved
<1>9. InFlightIsNew' /\ WriteIsBounded' /\ WriteIsInOrder'
  <2>1. CASE saving.then = "reprop"
    <3>1. saving.id # None
      BY <1>1, <2>1 DEF DiskInv, InFlightIsNew
    <3>2. InFlightIsNew'
      <4>1. saving' = saving /\ ar' = ar /\ pc' = "reprop"
        BY <1>1, <2>1
      <4>2. BarredIn(ar, saving.id)' = BarredIn(ar, saving.id)
        BY <4>1 DEF BarredIn
      <4>3. QED
        BY <1>1, <2>1, <3>1, <4>1, <4>2 DEF DiskInv, InFlightIsNew, Writing, Repropagated, Earned
    <3>3. Same(saving.id)
      BY <1>1, <3>1 DEF DiskInv, WriteIsInOrder
    <3>4. Same(saving.id)'
      BY <1>1, <1>4, <2>1, <3>3
    <3> HIDE DEF Same
    <3>5. WriteIsInOrder' /\ WriteIsBounded'
      BY <1>1, <2>1, <3>4 DEF WriteIsInOrder, WriteIsBounded, Writing
    <3>6. QED
      BY <3>2, <3>5
  <2>2. CASE saving.then # "reprop"
    <3>1. saving' = Nothing /\ saving'.id = None /\ pc' \in {"top", "slot"}
      BY <1>1, <2>2 DEF Nothing
    <3>2. QED
      BY <3>1 DEF InFlightIsNew, WriteIsInOrder, WriteIsBounded, Writing
  <2>3. QED
    BY <2>1, <2>2
<1>10. QED
  BY <1>5, <1>6, <1>7, <1>8, <1>9 DEF DiskInv

\* A step that writes nothing and leaves nothing to be written.
LEMMA QuietKeeps ==
    ASSUME IsTyped, DiskInv, pc # "boot", Saved, IsArchive(ar'),
           ar'.cand = ar.cand, ar'.bars = ar.bars, ar'.best = ar.best, ar'.ptb = ar.ptb,
           ar'.floor = ar.floor, UNCHANGED <<dirs, ckpt>>, loop'.done = loop.done,
           saving'.id = None, pc' \in {"top", "slot", "finish", "persist", "exit"},
           pc' \in {"top", "slot", "finish"} => saving' = Nothing,
           pc' = "persist" => saving'.then = "top",
           \A i \in 1..MaxIterations, n \in 1..Slots : Ahead(i, n)' => Ahead(i, n)
    PROVE  DiskInv'
<1>1. DiskIsTyped' /\ FilesAreTyped' /\ SealsAreLast' /\ CheckpointIsBehind' /\ DiskIsSound'
  <2>1. BeingWritten' = {} /\ DiskIsSound'
    BY DEF BeingWritten, Writing, DiskIsSound
  <2> HIDE DEF BeingWritten
  <2>2. QED
    BY <2>1, DiskStays
<1>2. MemoryIsSound'
  <2>1. IsSound(ar) /\ SeedId \in DOMAIN ar.cand /\ (ckpt # None => ckpt.floor = ar.floor)
        /\ RepropsFollow(DOMAIN ar.cand) /\ Earned(ar.cand[SeedId])
    BY DEF DiskInv, MemoryIsSound
  <2>2. IsSound(ar')
    BY <2>1 DEF IsSound, BestIsGreatest
  <2>3. QED
    BY <2>1, <2>2 DEF MemoryIsSound, Earned
<1>3. MemoryIsSaved'
  <2>1. Loadable' = Loadable /\ \A id : Same(id)' <=> Same(id)
    BY DEF Loadable, Same, Loaded, BarredIn
  <2> HIDE DEF Same
  <2>2. QED
    BY <2>1 DEF Saved, MemoryIsSaved
<1>4. SlotsAheadAreFree'
  <2> HIDE DEF Ahead
  <2> QED
    BY DEF DiskInv, SlotsAheadAreFree
<1>5. InFlightIsNew' /\ WriteIsBounded' /\ WriteIsInOrder'
  BY DEF InFlightIsNew, WriteIsBounded, WriteIsInOrder, Writing
<1>6. QED
  BY <1>1, <1>2, <1>3, <1>4, <1>5 DEF DiskInv

\* --resume.
LEMMA BootIsReplayable ==
    ASSUME DiskInv, pc = "boot", ckpt # None
    PROVE  Replayable
BY DEF DiskInv, DiskIsSound, Replayable

LEMMA ResumeKeeps == IsTyped /\ DiskInv /\ Resume => DiskInv'
<1> SUFFICES ASSUME IsTyped, DiskInv, Resume PROVE DiskInv'
  OBVIOUS
<1>1. /\ pc = "boot" /\ ckpt # None /\ ar' = Resumed /\ loop'.done = CompletedSet
      /\ pc' = "top" /\ UNCHANGED <<saving, dirs, ckpt>>
  BY DEF Resume, Idle, disk
<1>2. Replayable
  BY <1>1, BootIsReplayable
<1>3. /\ IsSound(Resumed)
      /\ DOMAIN Resumed.cand = Loadable
      /\ \A id \in Loadable : /\ Resumed.cand[id] = Loaded(dirs[id])
                              /\ BarredIn(Resumed, id) = dirs[id].bars
      /\ Resumed.floor = ckpt.floor
  BY <1>2, ResumedHolds
<1>4. saving = Nothing /\ saving'.id = None
  BY <1>1 DEF DiskInv, InFlightIsNew, Nothing
<1>5. DiskIsTyped' /\ FilesAreTyped' /\ SealsAreLast' /\ CheckpointIsBehind' /\ DiskIsSound'
  <2>1. BeingWritten' = {} /\ DiskIsSound'
    BY <1>1 DEF BeingWritten, Writing, DiskIsSound
  <2> HIDE DEF BeingWritten
  <2>2. QED
    BY <1>1, <2>1, DiskStays
<1> DEFINE r == Resumed
<1>6. ar' = r /\ IsSound(r) /\ DOMAIN r.cand = Loadable /\ r.floor = ckpt.floor
      /\ \A id \in Loadable : r.cand[id] = Loaded(dirs[id]) /\ BarredIn(r, id) = dirs[id].bars
  BY <1>1, <1>3
<1> HIDE DEF r
<1>7. MemoryIsSound'
  <2>1. SeedId \in Loadable /\ RepropsFollow(Loadable) /\ Earned(Loaded(dirs[SeedId]))
    BY <1>1 DEF DiskInv, CheckpointIsBehind, DiskIsSound
  <2>2. IsSound(ar')
    BY <1>6
  <2>3. Earned(ar'.cand[SeedId])
    <3> HIDE DEF Earned, Loaded
    <3>1. QED
      BY <1>6, <2>1
  <2>4. Earned(ar.cand[SeedId])'
    BY <2>3 DEF Earned
  <2>5. QED
    BY <1>1, <1>6, <2>1, <2>2, <2>4 DEF MemoryIsSound
<1>8. MemoryIsSaved'
  <2>1. Loadable' = Loadable
    BY <1>1 DEF Loadable
  <2>2. ASSUME NEW id \in Loadable PROVE Same(id)'
    <3>1. Complete(id)
      BY <1>2 DEF Replayable
    <3>2. Loaded(dirs[id])' = Loaded(dirs[id])
      BY <1>1 DEF Loaded
    <3>3. BarredIn(ar, id)' = BarredIn(r, id)
      BY <1>6 DEF BarredIn
    <3>4. QED
      BY <1>1, <1>6, <2>1, <3>1, <3>2, <3>3 DEF Same, Complete
  <2> HIDE DEF Same
  <2>3. InFlight' = {}
    BY <1>4 DEF InFlight
  <2>4. QED
    BY <1>6, <2>1, <2>2, <2>3 DEF MemoryIsSaved
<1>9. SlotsAheadAreFree'
  BY <1>1, <1>6 DEF SlotsAheadAreFree, CompletedSet
<1>10. InFlightIsNew' /\ WriteIsBounded' /\ WriteIsInOrder'
  BY <1>1, <1>4 DEF InFlightIsNew, WriteIsBounded, WriteIsInOrder, Writing
<1>11. QED
  BY <1>5, <1>7, <1>8, <1>9, <1>10 DEF DiskInv

\* The traces a run can see, the seed's run and its floor.
LEMMA EvaluationsAreTraces ==
    ASSUME NEW traces \in Evaluations
    PROVE  /\ DOMAIN traces = Tasks /\ \A t \in Tasks : traces[t] \in Trace
           /\ MeanOf(traces) \in Int
<1>1. DOMAIN traces = Tasks /\ \A t \in Tasks : traces[t] \in Trace
  BY SearchAssumption
<1>2. QED
  BY <1>1, MeanIsInt

LEMMA FloorsAreOutcomes ==
    ASSUME NEW traces \in Evaluations, NEW fl \in FloorChoices(Outcomes, Resamples, traces)
    PROVE  \A t \in DOMAIN fl : \E e \in Evaluations : \E u \in Tasks : fl[t] = e[u]
<1>1. ASSUME NEW t \in DOMAIN fl PROVE fl[t] \in Outcomes
  BY <1>1 DEF FloorChoices
<1>2. ASSUME NEW o \in Outcomes PROVE \E e \in Evaluations : \E u \in Tasks : o = e[u]
  <2>1. PICK e \in Evaluations : o \in Range(e)
    BY <1>2 DEF Outcomes
  <2>2. QED
    BY <2>1, EvaluationsAreTraces DEF Range
<1>3. QED
  BY <1>1, <1>2

LEMMA EvaluatedIsCandidate ==
    ASSUME NEW traces \in Evaluations, NEW parent \in Ids \cup {None}, NEW iter \in Int,
           NEW depth \in Nat \ {0}
    PROVE  LET c == [parent |-> parent, iter |-> iter, depth |-> depth, routed |-> FALSE,
                     mean |-> MeanOf(traces), traces |-> traces]
           IN  IsCandidate(c) /\ Earned(c)
<1> DEFINE c == [parent |-> parent, iter |-> iter, depth |-> depth, routed |-> FALSE,
                 mean |-> MeanOf(traces), traces |-> traces]
<1>1. /\ c.parent = parent /\ c.iter = iter /\ c.depth = depth /\ c.routed = FALSE
      /\ c.mean = MeanOf(traces) /\ c.traces = traces
      /\ c = [parent |-> c.parent, iter |-> c.iter, depth |-> c.depth,
              routed |-> c.routed, mean |-> c.mean, traces |-> c.traces]
  OBVIOUS
<1>2. traces = [t \in DOMAIN traces |-> traces[t]]
  BY SearchAssumption
<1> HIDE DEF c
<1>3. IsCandidate(c)
  BY <1>1, <1>2, EvaluationsAreTraces DEF IsCandidate
<1>4. Earned(c)
  BY <1>1 DEF Earned
<1>5. QED
  BY <1>3, <1>4 DEF c

\* The archive after the seed.
LEMMA SeedArchive ==
    ASSUME RunSeed
    PROVE  /\ IsSound(ar') /\ DOMAIN ar'.cand = {SeedId}
           /\ saving' = Save(SeedId, ar'.cand[SeedId], "top")
           /\ ar'.cand[SeedId].depth = 1 /\ Earned(ar'.cand[SeedId])
           /\ DOMAIN ar'.cand[SeedId].traces = Tasks
           /\ OrdinaryScale => IsRanked(ar')
<1>1. PICK traces \in SeedEvaluations :
          LET seed == [parent |-> None, iter |-> 0, depth |-> 1, routed |-> FALSE,
                       mean |-> MeanOf(traces), traces |-> traces]
              added == Add(EmptyArchive, SeedId, seed, {})
          IN  /\ IF RegressionGuard
                 THEN \E fl \in FloorChoices(Outcomes, Resamples, traces) :
                         ar' = SetBaseFloor(added, fl)
                 ELSE ar' = added
              /\ saving' = Save(SeedId, seed, "top")
  BY DEF RunSeed
<1> DEFINE seed == [parent |-> None, iter |-> 0, depth |-> 1, routed |-> FALSE,
                    mean |-> MeanOf(traces), traces |-> traces]
           added == Add(EmptyArchive, SeedId, seed, {})
<1>2. /\ \/ ar' = added
         \/ \E fl \in FloorChoices(Outcomes, Resamples, traces) : ar' = SetBaseFloor(added, fl)
      /\ saving' = Save(SeedId, seed, "top")
  BY <1>1
<1>3. traces \in Evaluations
  BY SearchAssumption
<1>4. /\ IsCandidate(seed) /\ seed.depth = 1 /\ seed.traces = traces /\ DOMAIN traces = Tasks
      /\ Earned(seed)
  <2>1. 0 \in Int /\ 1 \in Nat \ {0} /\ None \in Ids \cup {None}
    OBVIOUS
  <2>2. IsCandidate(seed) /\ Earned(seed)
    BY <1>3, <2>1, EvaluatedIsCandidate
  <2>3. QED
    BY <1>3, <2>2, EvaluationsAreTraces
<1>5. SeedId \in Ids /\ SeedId \notin DOMAIN EmptyArchive.cand /\ DOMAIN EmptyArchive.cand = {}
  BY IdsAssumption DEF Ids, EmptyArchive
<1> HIDE DEF seed
<1>6. IsSound(added) /\ DOMAIN added.cand = {SeedId} /\ added.cand[SeedId] = seed
      /\ \A t \in Tasks : added.floor[t] = None
  <2>1. /\ IsSound(added)
        /\ DOMAIN added.cand = DOMAIN EmptyArchive.cand \cup {SeedId}
        /\ added.cand[SeedId] = seed
        /\ added.floor = EmptyArchive.floor
    BY <1>4, <1>5, EmptyIsSound, AddIsSound
  <2> HIDE DEF added
  <2>2. \A t \in Tasks : EmptyArchive.floor[t] = None
    BY DEF EmptyArchive
  <2>3. QED
    BY <1>5, <2>1, <2>2
<1>7. OrdinaryScale => IsRanked(added)
  <2>1. OrdinaryScale => \A t \in DOMAIN seed.traces : Ordinary(seed.traces[t])
    BY <1>3, <1>4, EvaluationsAreTraces DEF OrdinaryScale
  <2>2. QED
    BY <1>4, <1>5, <2>1, EmptyIsSound, EmptyIsRanked, AddIsRanked
<1> HIDE DEF added
<1>8. CASE ar' = added
  BY <1>2, <1>4, <1>6, <1>7, <1>8
<1>9. ASSUME NEW fl \in FloorChoices(Outcomes, Resamples, traces), ar' = SetBaseFloor(added, fl)
      PROVE  /\ IsSound(ar') /\ ar'.cand = added.cand
             /\ OrdinaryScale => IsRanked(ar')
  <2>1. \A t \in DOMAIN fl : fl[t] \in Trace /\ (OrdinaryScale => Ordinary(fl[t]))
    BY <1>3, FloorsAreOutcomes, EvaluationsAreTraces DEF OrdinaryScale
  <2>2. IsSound(ar') /\ ar'.cand = added.cand
    BY <1>6, <1>9, <2>1, FloorIsSound
  <2>3. OrdinaryScale => IsRanked(ar')
    BY <1>6, <1>7, <1>9, <2>1, FloorIsRanked
  <2>4. QED
    BY <2>2, <2>3
<1>10. QED
  BY <1>2, <1>4, <1>6, <1>8, <1>9

LEMMA RunSeedKeeps == IsTyped /\ DiskInv /\ RunSeed /\ ~rewritten' => DiskInv'
<1> SUFFICES ASSUME IsTyped, DiskInv, RunSeed, ~rewritten' PROVE DiskInv'
  OBVIOUS
<1>1. /\ pc = "boot"
      /\ ckpt = None \/ Loadable = {}
      /\ pc' = "open" /\ DOMAIN dirs \subseteq {SeedId} /\ UNCHANGED <<dirs, ckpt>>
  BY DEF RunSeed, disk
<1>2. ckpt = None
  BY <1>1 DEF DiskInv, CheckpointIsBehind
<1>3. /\ IsSound(ar') /\ DOMAIN ar'.cand = {SeedId}
      /\ saving' = Save(SeedId, ar'.cand[SeedId], "top")
      /\ ar'.cand[SeedId].depth = 1 /\ Earned(ar'.cand[SeedId])
      /\ DOMAIN ar'.cand[SeedId].traces = Tasks
  BY SeedArchive
<1> DEFINE c == ar'.cand[SeedId]
<1>31. /\ saving'.id = SeedId /\ saving'.cand = c /\ saving'.then = "top"
       /\ saving'.left = DOMAIN c.traces /\ saving'.code = 2
  BY <1>3, SaveParts
<1>4. SeedId \in Ids /\ SeedId # None /\ SeedId[4] = 0 /\ SeedId # MergeId
  <2>1. MaxIterations \in Nat /\ SeedId[1] = 0 /\ MergeId[1] > MaxIterations
    BY IdsAssumption, SearchAssumption
  <2>2. QED
    BY <2>1, IdsAssumption, NoValueAssumption DEF Ids
<1>5. DiskIsTyped' /\ FilesAreTyped' /\ SealsAreLast' /\ CheckpointIsBehind' /\ DiskIsSound'
  BY <1>1, <1>2, DiskStays DEF DiskIsSound
<1>6. MemoryIsSound'
  <2>1. RepropsFollow(DOMAIN ar'.cand)
    BY <1>3, <1>4 DEF RepropsFollow
  <2>2. QED
    BY <1>1, <1>2, <1>3, <2>1 DEF MemoryIsSound, Earned
<1>7. MemoryIsSaved'
  <2>1. InFlight' = {SeedId} /\ Loadable' \subseteq {SeedId}
    BY <1>1, <1>31, <1>4 DEF InFlight, Loadable
  <2>2. QED
    BY <1>3, <2>1 DEF MemoryIsSaved
<1>8. SlotsAheadAreFree'
  <2>1. ASSUME NEW i \in 1..MaxIterations, NEW n \in 1..Slots PROVE ChildId(i, n) # SeedId
    BY BoundsAreNat, ChildIdType
  <2>2. QED
    BY <1>3, <2>1 DEF SlotsAheadAreFree
<1>9. InFlightIsNew'
  <2>1. Repropagated(SeedId) \notin {SeedId}
    BY <1>4, NamesDiffer
  <2>2. Repropagated(SeedId) \notin DOMAIN ar'.cand /\ SeedId \in DOMAIN ar'.cand
    BY <1>3, <2>1
  <2>3. c.depth = 1 /\ Earned(c) /\ DOMAIN c.traces = Tasks /\ c = ar'.cand[SeedId]
    BY <1>3
  <2> HIDE DEF c
  <2>4. QED
    BY <1>1, <1>2, <1>31, <1>4, <2>2, <2>3 DEF InFlightIsNew, Writing, Earned, Repropagated
<1>10. WriteIsBounded' /\ WriteIsInOrder'
  <2>1. HasFiles(SeedId, DirOf(SeedId)) /\ DirOf(SeedId)' = DirOf(SeedId)
    BY <1>1, FilesOfDir DEF DirOf
  <2>2. DOMAIN DirOf(SeedId).codes = {} /\ DOMAIN DirOf(SeedId).traces \subseteq Tasks
    BY <2>1 DEF HasFiles
  <2>3. c.depth = 1 /\ DOMAIN c.traces = Tasks
    BY <1>3
  <2> HIDE DEF c
  <2>4. 2 \in 2..(c.depth + 1)
    BY <2>3
  <2>5. QED
    BY <1>1, <1>2, <1>31, <2>1, <2>2, <2>3, <2>4 DEF WriteIsBounded, WriteIsInOrder, Seals
<1>11. QED
  BY <1>5, <1>6, <1>7, <1>8, <1>9, <1>10 DEF DiskInv

\* A candidate that is new is added and will be saved.
LEMMA ArchivedKeeps ==
    ASSUME IsTyped, DiskInv, pc # "boot", Saved,
           NEW id \in Ids, id \notin DOMAIN ar.cand,
           NEW c, IsCandidate(c), Earned(c), c.depth > 1, NEW bar, ar' = Add(ar, id, c, bar),
           NEW then \in {"slot", "reprop", "exit"}, then = "reprop" => id[4] = 0,
           saving' = Save(id, c, then),
           IF id = MergeId THEN bar = {} ELSE DOMAIN c.traces = Tasks,
           DOMAIN DirOf(id).traces \subseteq DOMAIN c.traces,
           pc' = "open", UNCHANGED <<dirs, ckpt>>, loop'.done = loop.done,
           id[4] = 2 => [id EXCEPT ![4] = 0] \in DOMAIN ar.cand,
           \A i \in 1..MaxIterations, n \in 1..Slots :
              Ahead(i, n)' => Ahead(i, n) /\ ChildId(i, n) # id
    PROVE  DiskInv'
<1>1. /\ IsSound(ar) /\ SeedId \in DOMAIN ar.cand /\ Earned(ar.cand[SeedId])
      /\ ckpt # None => ckpt.floor = ar.floor
      /\ RepropsFollow(DOMAIN ar.cand)
  BY DEF DiskInv, MemoryIsSound
<1> DEFINE n == Add(ar, id, c, bar)
<1>2. /\ IsSound(n)
      /\ DOMAIN n.cand = DOMAIN ar.cand \cup {id}
      /\ n.cand[id] = c
      /\ \A x \in DOMAIN ar.cand : n.cand[x] = ar.cand[x] /\ BarredIn(n, x) = BarredIn(ar, x)
      /\ BarredIn(n, id) = bar \cap DOMAIN c.traces
      /\ n.floor = ar.floor
  BY <1>1, AddIsSound
<1>3. ar' = n
  OBVIOUS
<1> HIDE DEF n
<1>4. id # SeedId /\ id # None
  BY <1>1, NoValueAssumption
<1>41. /\ saving'.id = id /\ saving'.cand = c /\ saving'.then = then
       /\ saving'.left = DOMAIN c.traces /\ saving'.code = 2
  BY SaveParts
<1>5. id \notin Loadable /\ Loadable = DOMAIN ar.cand
  BY DEF Saved
<1>6. DiskIsTyped' /\ FilesAreTyped' /\ SealsAreLast' /\ CheckpointIsBehind' /\ DiskIsSound'
  <2>1. BeingWritten' \cap Loadable = {} /\ DiskIsSound'
    BY <1>41, <1>5 DEF BeingWritten, DiskIsSound
  <2> HIDE DEF BeingWritten
  <2>2. QED
    BY <2>1, DiskStays
<1>7. Repropagated(id) \notin DOMAIN n.cand \/ id[4] # 0
  <2> SUFFICES ASSUME id[4] = 0 PROVE Repropagated(id) \notin DOMAIN n.cand
    OBVIOUS
  <2>1. Repropagated(id)[4] = 2 /\ [Repropagated(id) EXCEPT ![4] = 0] = id
    BY NamesDiffer
  <2> HIDE DEF Repropagated
  <2>2. Repropagated(id) # id
    BY <2>1
  <2>3. Repropagated(id) \notin DOMAIN ar.cand
    BY <1>1, <2>1 DEF RepropsFollow
  <2>4. QED
    BY <1>2, <2>2, <2>3
<1>8. MemoryIsSound'
  <2>1. RepropsFollow(DOMAIN n.cand)
    BY <1>1, <1>2 DEF RepropsFollow
  <2>2. IsSound(ar') /\ RepropsFollow(DOMAIN ar'.cand)
    BY <1>2, <1>3, <2>1
  <2>3. ckpt' # None => ckpt'.floor = ar'.floor
    BY <1>1, <1>2, <1>3
  <2>4. SeedId \in DOMAIN ar'.cand /\ ar'.cand[SeedId] = ar.cand[SeedId]
    BY <1>1, <1>2, <1>3
  <2>5. Earned(ar.cand[SeedId])'
    BY <1>1, <2>4 DEF Earned
  <2>6. QED
    BY <2>2, <2>3, <2>4, <2>5 DEF MemoryIsSound
<1>9. MemoryIsSaved'
  <2>1. InFlight' = {id} /\ Loadable' = Loadable
    BY <1>4, <1>41 DEF InFlight, Loadable
  <2>2. ASSUME NEW x \in Loadable PROVE Same(x)'
    <3>1. Same(x) /\ x \in DOMAIN ar.cand
      BY <1>5 DEF Saved
    <3>2. Loaded(dirs[x])' = Loaded(dirs[x])
      BY DEF Loaded
    <3>3. BarredIn(ar, x)' = BarredIn(n, x)
      BY <1>3 DEF BarredIn
    <3>4. ar'.cand[x] = ar.cand[x] /\ BarredIn(n, x) = BarredIn(ar, x)
      BY <1>2, <1>3, <3>1
    <3>5. QED
      BY <2>1, <3>1, <3>2, <3>3, <3>4 DEF Same
  <2> HIDE DEF Same
  <2>3. DOMAIN ar'.cand \ {id} = Loadable \ {id}
    BY <1>2, <1>3, <1>5
  <2>4. QED
    BY <2>1, <2>2, <2>3 DEF MemoryIsSaved
<1>10. SlotsAheadAreFree'
  <2> HIDE DEF Ahead, ChildId
  <2>1. ASSUME NEW i \in 1..MaxIterations, NEW k \in 1..Slots, Ahead(i, k)',
               ChildId(i, k) \in DOMAIN n.cand
        PROVE  ChildId(i, k) \in loop.done
    <3>1. Ahead(i, k) /\ ChildId(i, k) # id
      BY <2>1
    <3>2. ChildId(i, k) \in DOMAIN ar.cand
      BY <1>2, <2>1, <3>1
    <3>3. QED
      BY <3>1, <3>2 DEF DiskInv, SlotsAheadAreFree
  <2>2. QED
    BY <1>3, <2>1 DEF SlotsAheadAreFree
<1>11. InFlightIsNew'
  <2>1. id \in DOMAIN ar'.cand /\ ar'.cand[id] = c
    BY <1>2, <1>3
  <2>2. BarredIn(ar, saving.id)' = BarredIn(n, id)
    BY <1>3, <1>41 DEF BarredIn
  <2>3. id = MergeId => BarredIn(n, id) = {}
    BY <1>2
  <2>4. id[4] = 0 => Repropagated(id) \notin DOMAIN ar'.cand
    BY <1>3, <1>7
  <2>5. id # MergeId => DOMAIN c.traces = Tasks
    OBVIOUS
  <2> HIDE DEF BarredIn
  <2>6. QED
    BY <1>4, <1>41, <2>1, <2>2, <2>3, <2>4, <2>5 DEF InFlightIsNew, Writing, Earned, Repropagated
<1>12. WriteIsBounded' /\ WriteIsInOrder'
  <2>1. DirOf(id)' = DirOf(id) /\ Loadable' = Loadable
    BY DEF DirOf, Loadable
  <2>2. \A e : ~Seals(DirOf(id), e)
    <3>1. CASE id \in DOMAIN dirs
      BY <1>5, <3>1 DEF DiskInv, SealsAreLast, DirOf
    <3>2. CASE id \notin DOMAIN dirs
      BY <3>2 DEF DirOf, NoDir, Seals
    <3>3. QED
      BY <3>1, <3>2
  <2>3. \A e : ~Seals(DirOf(id), e)'
    BY <2>1, <2>2 DEF Seals
  <2>4. 2 \in 2..(c.depth + 1)
    BY DEF IsCandidate
  <2>5. QED
    BY <1>4, <1>41, <1>5, <2>1, <2>3, <2>4 DEF WriteIsBounded, WriteIsInOrder
<1>13. QED
  BY <1>6, <1>8, <1>9, <1>10, <1>11, <1>12 DEF DiskInv

\* The candidate Archived makes.
Child(parent, depth, traces) ==
    [parent |-> parent, iter |-> loop.iteration, depth |-> depth,
     routed |-> FALSE, mean |-> MeanOf(traces), traces |-> traces]

LEMMA ChildIsCandidate ==
    ASSUME IsTyped, NEW parent \in Ids, NEW depth \in Nat \ {0}, NEW traces \in Evaluations
    PROVE  /\ IsCandidate(Child(parent, depth, traces)) /\ Earned(Child(parent, depth, traces))
           /\ Child(parent, depth, traces).depth = depth
           /\ Child(parent, depth, traces).traces = traces /\ DOMAIN traces = Tasks
<1>1. loop.iteration \in Int
  BY BoundsAreNat DEF IsTyped, LocalsAreTyped
<1>2. IsCandidate(Child(parent, depth, traces)) /\ Earned(Child(parent, depth, traces))
  BY <1>1, EvaluatedIsCandidate DEF Child
<1>3. QED
  BY <1>2, EvaluationsAreTraces DEF Child

\* What BreedChild does, in terms of ArchivedKeeps.
LEMMA BreedChildIs ==
    ASSUME IsTyped, DiskInv, BreedChild, ~rewritten'
    PROVE  \E id \in Ids, parent \in DOMAIN ar.cand, traces \in Evaluations, bar \in BarChoices :
           \E then \in {"slot", "reprop"} :
              LET c == Child(parent, ar.cand[parent].depth + 1, traces)
              IN  /\ id \notin DOMAIN ar.cand /\ id[4] # 2 /\ id # MergeId
                  /\ then = "reprop" => id[4] = 0
                  /\ ar' = Add(ar, id, c, bar)
                  /\ saving' = Save(id, c, then)
                  /\ pc' = "open"
                  /\ \A i \in 1..MaxIterations, n \in 1..Slots :
                        Ahead(i, n)' => Ahead(i, n) /\ ChildId(i, n) # id
<1> DEFINE child  == ChildId(loop.iteration, loop.slot)
           parent == loop.parents[1 + (loop.slot - 1) \div BeamCandidates]
           depth  == ar.cand[parent].depth + 1
<1>1. /\ pc = "slot" /\ loop.slot <= Slots /\ child \notin loop.done
      /\ loop' = [loop EXCEPT !.slot = @ + 1, !.newWork = TRUE]
  BY DEF BreedChild
<1>2. /\ loop.slot \in 1..Slots /\ loop.iteration \in 1..MaxIterations
      /\ parent \in DOMAIN ar.cand
  BY <1>1, ParentIsArchived
<1>3. loop'.slot = loop.slot + 1 /\ loop'.iteration = loop.iteration
  BY <1>1 DEF IsTyped, LocalsAreTyped
<1>4. child \in Ids /\ child[4] = 0 /\ child # MergeId
  BY <1>2, BoundsAreNat, ChildIdType
<1>5. child \notin DOMAIN ar.cand
  <2>1. Ahead(loop.iteration, loop.slot)
    BY <1>2 DEF Ahead
  <2> HIDE DEF Ahead
  <2>2. QED
    BY <1>1, <1>2, <2>1 DEF DiskInv, SlotsAheadAreFree
<1>6. ASSUME NEW i \in 1..MaxIterations, NEW n \in 1..Slots, Ahead(i, n)'
      PROVE  /\ Ahead(i, n) /\ ChildId(i, n) # child
             /\ ChildId(i, n) # Refined(child)
  <2>1. Ahead(i, n)
    BY <1>2, <1>3, <1>6 DEF Ahead
  <2>2. ChildId(i, n) # child
    <3>1. i # loop.iteration \/ n # loop.slot
      BY <1>2, <1>3, <1>6 DEF Ahead
    <3>2. i \in Nat /\ loop.iteration \in Nat
      BY <1>2, BoundsAreNat
    <3>3. QED
      BY <1>2, <3>1, <3>2, ChildIdInjective
  <2>3. ChildId(i, n)[4] = 0
    BY ChildIdType
  <2>4. Refined(child)[4] = 1
    BY <1>4, NamesDiffer
  <2>5. QED
    BY <2>1, <2>2, <2>3, <2>4
<1>7. Refined(child) \in Ids /\ Refined(child)[4] = 1 /\ Refined(child) # MergeId
  <2>1. Refined(child) \in Ids /\ Refined(child)[4] = 1
    BY <1>4, NamesDiffer
  <2>2. MergeId[4] = 0
    BY IdsAssumption
  <2> HIDE DEF child
  <2>3. QED
    BY <2>1, <2>2
<1> DEFINE then(traces) == IF /\ Repropagation /\ depth >= 3
                              /\ MeanOf(traces) <= ar.cand[parent].mean
                           THEN "reprop" ELSE "slot"
<1>8. PICK traces \in Evaluations, bar \in BarChoices :
              \/ Archived(child, parent, depth, traces, bar, then(traces))
                 /\ UNCHANGED rewritten
              \/ /\ Archived(Refined(child), parent, depth, traces, bar, "slot")
                 /\ rewritten' = (rewritten \/ Refined(child) \in DOMAIN ar.cand)
  BY DEF BreedChild
<1> HIDE DEF child, parent
<1>9. ASSUME NEW id \in Ids, NEW next \in {"slot", "reprop"},
             Archived(id, parent, depth, traces, bar, next)
      PROVE  /\ ar' = Add(ar, id, Child(parent, ar.cand[parent].depth + 1, traces), bar)
             /\ saving' = Save(id, Child(parent, ar.cand[parent].depth + 1, traces), next)
             /\ pc' = "open"
  BY <1>9 DEF Archived, Child
<1>10. CASE Archived(child, parent, depth, traces, bar, then(traces))
  <2>1. then(traces) \in {"slot", "reprop"}
    OBVIOUS
  <2> HIDE DEF then, depth
  <2>2. QED
    BY <1>2, <1>4, <1>5, <1>6, <1>9, <1>10, <2>1
<1>11. CASE /\ Archived(Refined(child), parent, depth, traces, bar, "slot")
            /\ rewritten' = (rewritten \/ Refined(child) \in DOMAIN ar.cand)
  <2> DEFINE id == Refined(child)
  <2> HIDE DEF depth
  <2>1. id \notin DOMAIN ar.cand
    BY <1>11
  <2>2. id \in Ids /\ id[4] = 1 /\ id # MergeId
    BY <1>7
  <2>3. \A i \in 1..MaxIterations, n \in 1..Slots :
           Ahead(i, n)' => Ahead(i, n) /\ ChildId(i, n) # id
    BY <1>6
  <2>4. /\ ar' = Add(ar, id, Child(parent, ar.cand[parent].depth + 1, traces), bar)
        /\ saving' = Save(id, Child(parent, ar.cand[parent].depth + 1, traces), "slot")
        /\ pc' = "open"
    BY <1>9, <1>11, <2>2
  <2>5. id[4] # 2
    BY <2>2
  <2> DEFINE next == "slot"
  <2>6. next \in {"slot", "reprop"} /\ next # "reprop"
    OBVIOUS
  <2> HIDE DEF id, next, Ahead
  <2>7. saving' = Save(id, Child(parent, ar.cand[parent].depth + 1, traces), next)
    BY <2>4 DEF next
  <2>8. QED
    BY <1>2, <2>1, <2>2, <2>3, <2>4, <2>5, <2>6, <2>7
<1>12. QED
  BY <1>8, <1>10, <1>11

\* What is needed of a parent.
LEMMA ArchivedParts ==
    ASSUME DiskInv, pc # "boot", NEW x \in DOMAIN ar.cand
    PROVE  x \in Ids /\ ar.cand[x].depth \in Nat \ {0}
BY DEF DiskInv, MemoryIsSound, IsSound, IsCandidate

LEMMA BreedChildKeeps == IsTyped /\ DiskInv /\ BreedChild /\ ~rewritten' => DiskInv'
<1> SUFFICES ASSUME IsTyped, DiskInv, BreedChild, ~rewritten' PROVE DiskInv'
  OBVIOUS
<1>1. pc = "slot" /\ UNCHANGED <<dirs, ckpt>> /\ loop'.done = loop.done
  BY DEF BreedChild, disk, IsTyped, LocalsAreTyped
<1>2. Saved
  BY <1>1, SavedUnlessWriting DEF Writing
<1>3. PICK id \in Ids, parent \in DOMAIN ar.cand, traces \in Evaluations, bar \in BarChoices :
           \E then \in {"slot", "reprop"} :
              LET c == Child(parent, ar.cand[parent].depth + 1, traces)
              IN  /\ id \notin DOMAIN ar.cand /\ id[4] # 2 /\ id # MergeId
                  /\ then = "reprop" => id[4] = 0
                  /\ ar' = Add(ar, id, c, bar)
                  /\ saving' = Save(id, c, then)
                  /\ pc' = "open"
                  /\ \A i \in 1..MaxIterations, n \in 1..Slots :
                        Ahead(i, n)' => Ahead(i, n) /\ ChildId(i, n) # id
  BY BreedChildIs
<1> DEFINE c == Child(parent, ar.cand[parent].depth + 1, traces)
<1>4. PICK then \in {"slot", "reprop"} :
              /\ id \notin DOMAIN ar.cand /\ id[4] # 2 /\ id # MergeId
              /\ then = "reprop" => id[4] = 0
              /\ ar' = Add(ar, id, c, bar)
              /\ saving' = Save(id, c, then)
              /\ pc' = "open"
              /\ \A i \in 1..MaxIterations, n \in 1..Slots :
                    Ahead(i, n)' => Ahead(i, n) /\ ChildId(i, n) # id
  BY <1>3
<1>5. IsCandidate(c) /\ Earned(c) /\ c.depth > 1 /\ DOMAIN c.traces = Tasks
  <2>1. parent \in Ids /\ ar.cand[parent].depth \in Nat \ {0}
    BY <1>1, ArchivedParts
  <2>2. ar.cand[parent].depth + 1 \in Nat \ {0} /\ ar.cand[parent].depth + 1 > 1
    BY <2>1
  <2>3. /\ IsCandidate(c) /\ Earned(c) /\ c.depth = ar.cand[parent].depth + 1
        /\ c.traces = traces /\ DOMAIN traces = Tasks
    BY <2>1, <2>2, ChildIsCandidate
  <2> HIDE DEF c
  <2>4. QED
    BY <2>2, <2>3
<1> HIDE DEF c
<1>6. DOMAIN DirOf(id).traces \subseteq DOMAIN c.traces
  BY <1>5, FilesOfDir DEF HasFiles
<1>7. QED
  BY <1>1, <1>2, <1>4, <1>5, <1>6, ArchivedKeeps

LEMMA RepropagateKeeps == IsTyped /\ DiskInv /\ Repropagate => DiskInv'
<1> SUFFICES ASSUME IsTyped, DiskInv, Repropagate PROVE DiskInv'
  OBVIOUS
<1>1. pc = "reprop" /\ UNCHANGED <<loop, dirs, ckpt>>
  BY DEF Repropagate, disk
<1>2. Saved
  BY <1>1, SavedUnlessWriting DEF Writing
<1>3. \A i \in 1..MaxIterations, n \in 1..Slots : Ahead(i, n)' => Ahead(i, n)
  BY <1>1 DEF Ahead
<1>4. CASE pc' = "slot" /\ saving' = Nothing /\ UNCHANGED ar
  <2>1. IsArchive(ar') /\ saving'.id = None
    BY <1>4 DEF IsTyped, ArchiveIsTyped, Nothing
  <2> HIDE DEF Ahead
  <2>2. QED
    BY <1>1, <1>2, <1>3, <1>4, <2>1, QuietKeeps
<1>5. ASSUME NEW traces \in Evaluations, NEW bar \in BarChoices,
             Archived(Repropagated(saving.id), saving.id, saving.cand.depth, traces, bar, "slot")
      PROVE  DiskInv'
  <2> DEFINE id == Repropagated(saving.id)
             c == Child(saving.id, saving.cand.depth, traces)
             then == "slot"
  <2>1. /\ saving.id # None /\ saving.then = "reprop" /\ saving.id # SeedId /\ saving.id[4] = 0
        /\ saving.id \in DOMAIN ar.cand /\ saving.cand = ar.cand[saving.id]
        /\ saving.cand.depth > 1 /\ id \notin DOMAIN ar.cand
    BY <1>1 DEF DiskInv, InFlightIsNew, Writing
  <2>2. saving.id \in Ids /\ saving.cand.depth \in Nat \ {0}
    BY <1>1, <2>1, ArchivedParts
  <2>3. id \in Ids /\ id[4] = 2 /\ [id EXCEPT ![4] = 0] = saving.id
    BY <2>1, <2>2, NamesDiffer
  <2>4. IsCandidate(c) /\ Earned(c) /\ c.depth > 1 /\ DOMAIN c.traces = Tasks
    <3>1. /\ IsCandidate(c) /\ Earned(c) /\ c.depth = saving.cand.depth
          /\ c.traces = traces /\ DOMAIN traces = Tasks
      BY <2>2, ChildIsCandidate
    <3> HIDE DEF c
    <3>2. QED
      BY <2>1, <3>1
  <2>5. /\ ar' = Add(ar, id, c, bar)
        /\ saving' = Save(id, c, then)
        /\ pc' = "open"
    BY <1>5 DEF Archived, Child
  <2>6. ASSUME NEW i \in 1..MaxIterations, NEW n \in 1..Slots PROVE ChildId(i, n) # id
    <3>1. ChildId(i, n)[4] = 0
      BY BoundsAreNat, ChildIdType
    <3>2. QED
      BY <2>3, <3>1
  <2> HIDE DEF id, c, Ahead, then
  <2>7. then = "slot"
    BY DEF then
  <2>8. then \in {"slot", "reprop", "exit"} /\ then # "reprop" /\ pc # "boot"
    BY <1>1, <2>7
  <2>9. loop'.done = loop.done /\ UNCHANGED <<dirs, ckpt>>
    BY <1>1
  <2>10. \A i \in 1..MaxIterations, n \in 1..Slots :
            Ahead(i, n)' => Ahead(i, n) /\ ChildId(i, n) # id
    BY <1>3, <2>6
  <2>11. [id EXCEPT ![4] = 0] \in DOMAIN ar.cand
    BY <2>1, <2>3
  <2>12. id # MergeId /\ DOMAIN DirOf(id).traces \subseteq DOMAIN c.traces
    <3>1. MergeId[4] = 0
      BY IdsAssumption
    <3>2. id # MergeId
      BY <2>3, <3>1
    <3>3. DOMAIN DirOf(id).traces \subseteq Tasks
      BY FilesOfDir DEF HasFiles
    <3>4. QED
      BY <2>4, <3>2, <3>3
  <2>13. QED
    BY <1>2, <2>1, <2>3, <2>4, <2>5, <2>8, <2>9, <2>10, <2>11, <2>12, ArchivedKeeps
<1>6. QED
  BY <1>4, <1>5 DEF Repropagate

LEMMA LeaveLoopKeeps == IsTyped /\ DiskInv /\ LeaveLoop => DiskInv'
<1> SUFFICES ASSUME IsTyped, DiskInv, LeaveLoop PROVE DiskInv'
  OBVIOUS
<1>1. pc = "top" /\ pc' = "finish" /\ UNCHANGED <<ar, loop, saving, dirs, ckpt>>
  BY DEF LeaveLoop, disk
<1>2. Saved
  BY <1>1, SavedUnlessWriting DEF Writing
<1>3. saving' = Nothing /\ saving'.id = None
  BY <1>1 DEF DiskInv, InFlightIsNew, Nothing
<1>4. IsArchive(ar') /\ \A i \in 1..MaxIterations, n \in 1..Slots : Ahead(i, n)' => Ahead(i, n)
  BY <1>1 DEF IsTyped, ArchiveIsTyped, Ahead
<1> HIDE DEF Ahead
<1>5. QED
  BY <1>1, <1>2, <1>3, <1>4, QuietKeeps

LEMMA BeginIterationKeeps == IsTyped /\ DiskInv /\ BeginIteration => DiskInv'
<1> SUFFICES ASSUME IsTyped, DiskInv, BeginIteration PROVE DiskInv'
  OBVIOUS
<1> DEFINE next == [loop EXCEPT !.iteration = @ + 1]
<1>1. /\ pc = "top" /\ pc' \in {"finish", "slot"} /\ UNCHANGED <<ar, saving, dirs, ckpt>>
      /\ \/ loop' = [next EXCEPT !.halted = TRUE]
         \/ \E parents : loop' = [next EXCEPT !.parents = parents, !.slot = 1, !.newWork = FALSE]
  BY DEF BeginIteration, disk
<1>2. next.iteration = loop.iteration + 1 /\ next.done = loop.done
  BY DEF IsTyped, LocalsAreTyped
<1>3. "iteration" \in DOMAIN next /\ "done" \in DOMAIN next
  BY DEF IsTyped, LocalsAreTyped
<1> HIDE DEF next
<1>4. loop'.iteration = loop.iteration + 1 /\ loop'.done = loop.done
  BY <1>1, <1>2, <1>3
<1>5. loop.iteration \in Nat
  BY BoundsAreNat DEF IsTyped, LocalsAreTyped
<1>6. Saved
  BY <1>1, SavedUnlessWriting DEF Writing
<1>7. saving' = Nothing /\ saving'.id = None
  <2>1. pc = "top" /\ saving' = saving
    BY <1>1
  <2>2. saving = Nothing
    BY <2>1 DEF DiskInv, InFlightIsNew
  <2>3. QED
    BY <2>1, <2>2 DEF Nothing
<1>8. IsArchive(ar')
  BY <1>1 DEF IsTyped, ArchiveIsTyped
<1>9. \A i \in 1..MaxIterations, n \in 1..Slots : Ahead(i, n)' => Ahead(i, n)
  BY <1>4, <1>5 DEF Ahead
<1> HIDE DEF Ahead
<1>10. QED
  BY <1>1, <1>4, <1>6, <1>7, <1>8, <1>9, QuietKeeps

\* A slot that archives nothing.
LEMMA SlotKeeps == IsTyped /\ DiskInv /\ (SkipSlot \/ RejectChild) => DiskInv'
<1> SUFFICES ASSUME IsTyped, DiskInv, SkipSlot \/ RejectChild PROVE DiskInv'
  OBVIOUS
<1>1. /\ pc = "slot" /\ UNCHANGED <<ar, pc, saving, dirs, ckpt>>
      /\ \/ loop' = [loop EXCEPT !.slot = @ + 1]
         \/ loop' = [loop EXCEPT !.slot = @ + 1, !.newWork = TRUE]
  BY DEF SkipSlot, RejectChild, disk
<1>2. loop'.iteration = loop.iteration /\ loop'.slot = loop.slot + 1 /\ loop'.done = loop.done
  BY <1>1 DEF IsTyped, LocalsAreTyped
<1>3. loop.slot \in Nat
  BY BoundsAreNat DEF IsTyped, LocalsAreTyped
<1>4. Saved
  BY <1>1, SavedUnlessWriting DEF Writing
<1>5. saving' = Nothing /\ saving'.id = None
  <2>1. pc = "slot" /\ saving' = saving
    BY <1>1
  <2>2. saving = Nothing
    BY <2>1 DEF DiskInv, InFlightIsNew
  <2>3. QED
    BY <2>1, <2>2 DEF Nothing
<1>6. IsArchive(ar')
  BY <1>1 DEF IsTyped, ArchiveIsTyped
<1>7. \A i \in 1..MaxIterations, n \in 1..Slots : Ahead(i, n)' => Ahead(i, n)
  BY <1>2, <1>3 DEF Ahead
<1> HIDE DEF Ahead
<1>8. QED
  BY <1>1, <1>2, <1>4, <1>5, <1>6, <1>7, QuietKeeps

\* The end of an iteration, as far as the disk is concerned.
LEMMA EndIterationIs ==
    ASSUME IsTyped, EndIteration
    PROVE  /\ pc = "slot" /\ UNCHANGED <<dirs, ckpt>>
           /\ ar' = ar \/ ar' = Frozen(ar)
           /\ loop'.iteration = loop.iteration /\ loop'.slot = loop.slot /\ loop'.done = loop.done
           /\ \/ pc' = "top" /\ saving' = saving
              \/ pc' = "persist" /\ saving' = [Nothing EXCEPT !.then = "top"]
<1>1. CASE ~loop.newWork
  BY <1>1 DEF EndIteration, disk
<1>2. CASE loop.newWork
  <2> DEFINE a == Frozen(ar)
             best == BestMean(ar)
             oracle == OracleMean(ar)
             up == Improved(a, best, oracle)
             Larger(u, v) == IF u > v THEN u ELSE v
             x == IF up THEN Larger(loop.prevBest, best) ELSE loop.prevBest
             y == IF up THEN Larger(loop.prevOracle, oracle) ELSE loop.prevOracle
  <2>1. /\ pc = "slot" /\ UNCHANGED <<dirs, ckpt>> /\ ar' = Frozen(ar)
        /\ loop' = [loop EXCEPT
                       !.conv = Append(@, best),
                       !.orac = Append(@, oracle),
                       !.patience = IF up THEN 0 ELSE @ + 1,
                       !.prevBest = x,
                       !.prevOracle = y]
        /\ saving' = [Nothing EXCEPT !.then = "top"]
        /\ pc' = "persist"
    BY <1>2 DEF EndIteration, disk
  <2> HIDE DEF best, oracle, up, x, y
  <2>2. loop'.iteration = loop.iteration /\ loop'.slot = loop.slot /\ loop'.done = loop.done
    BY <2>1 DEF IsTyped, LocalsAreTyped
  <2>3. QED
    BY <2>1, <2>2, Zenon
<1>3. QED
  BY <1>1, <1>2

LEMMA EndIterationKeeps == IsTyped /\ DiskInv /\ EndIteration => DiskInv'
<1> SUFFICES ASSUME IsTyped, DiskInv, EndIteration PROVE DiskInv'
  OBVIOUS
<1>1. /\ pc = "slot" /\ UNCHANGED <<dirs, ckpt>>
      /\ ar' = ar \/ ar' = Frozen(ar)
      /\ loop'.iteration = loop.iteration /\ loop'.slot = loop.slot /\ loop'.done = loop.done
      /\ \/ pc' = "top" /\ saving' = saving
         \/ pc' = "persist" /\ saving' = [Nothing EXCEPT !.then = "top"]
  BY EndIterationIs
<1>2. Saved
  BY <1>1, SavedUnlessWriting DEF Writing
<1>3. saving = Nothing /\ Nothing.id = None
  BY <1>1 DEF DiskInv, InFlightIsNew, Nothing
<1>4. /\ saving'.id = None /\ pc' \in {"top", "persist"}
      /\ pc' = "top" => saving' = Nothing
      /\ pc' = "persist" => saving'.then = "top"
  BY <1>1, <1>3, NothingParts
<1>5. IsArchive(ar)
  BY DEF IsTyped, ArchiveIsTyped
<1>6. /\ IsArchive(ar') /\ ar'.cand = ar.cand /\ ar'.bars = ar.bars /\ ar'.best = ar.best
      /\ ar'.ptb = ar.ptb /\ ar'.floor = ar.floor
  BY <1>1, <1>5, FrozenParts
<1>7. \A i \in 1..MaxIterations, n \in 1..Slots : Ahead(i, n)' => Ahead(i, n)
  BY <1>1 DEF Ahead
<1> HIDE DEF Ahead
<1>8. QED
  BY <1>1, <1>2, <1>4, <1>6, <1>7, QuietKeeps

\* The merge: a candidate of the per-task bests.
LEMMA MergedIsCandidate ==
    ASSUME NEW a, IsSound(a), Cardinality(Tasks) > 1, NEW k \in Int
    PROVE  /\ IsCandidate(MergedCandidate(a, k)) /\ MergedCandidate(a, k).depth = 2
           /\ Earned(MergedCandidate(a, k))
           /\ IsRanked(a) => \A t \in DOMAIN MergedCandidate(a, k).traces :
                                Ordinary(MergedCandidate(a, k).traces[t])
<1> DEFINE routed == {t \in Tasks : a.ptb[t] # None /\ a.ptb[t].script}
           traces == [t \in routed |->
                         [ok |-> a.ptb[t].ok, score |-> a.ptb[t].score, script |-> TRUE]]
           m == [parent |-> None, iter |-> k, depth |-> 2, routed |-> TRUE,
                 mean |-> OracleMean(a), traces |-> traces]
<1>1. MergedCandidate(a, k) = m
  BY DEF MergedCandidate
<1>2. \A t \in routed : /\ t \in Tasks /\ a.ptb[t] # None /\ a.ptb[t].script
                        /\ a.ptb[t].ok \in BOOLEAN /\ a.ptb[t].score \in Int
  BY DEF IsSound, PtbEntry
<1> HIDE DEF routed
<1>3. DOMAIN traces = routed /\ \A t \in routed : traces[t] \in Trace
  BY <1>2 DEF Trace
<1>4. OracleMean(a) \in Int
  BY OracleMeanIsInt
<1>5. IsCandidate(m) /\ Earned(m)
  <2>1. /\ DOMAIN traces \subseteq Tasks /\ \A t \in DOMAIN traces : traces[t] \in Trace
        /\ traces = [t \in DOMAIN traces |-> traces[t]]
    BY <1>2, <1>3
  <2> HIDE DEF traces
  <2>2. /\ m.parent = None /\ m.iter = k /\ m.depth = 2 /\ m.routed = TRUE
        /\ m.mean = OracleMean(a) /\ m.traces = traces
        /\ m = [parent |-> m.parent, iter |-> m.iter, depth |-> m.depth,
                routed |-> m.routed, mean |-> m.mean, traces |-> m.traces]
    OBVIOUS
  <2> HIDE DEF m
  <2>3. IsCandidate(m)
    <3>1. /\ m.parent \in Ids \cup {None} /\ m.iter \in Int /\ m.depth \in Nat \ {0}
          /\ m.routed \in BOOLEAN /\ m.mean \in Int
      <4>1. m.routed \in BOOLEAN
        BY <2>2
      <4>2. m.iter \in Int /\ m.depth \in Nat \ {0} /\ m.mean \in Int
        BY <1>4, <2>2
      <4>3. m.parent \in Ids \cup {None}
        BY <2>2
      <4>4. QED
        BY <4>1, <4>2, <4>3
    <3>2. /\ m.traces = [t \in DOMAIN m.traces |-> m.traces[t]]
          /\ DOMAIN m.traces \subseteq Tasks
          /\ \A t \in DOMAIN m.traces : m.traces[t] \in Trace
      <4>1. m.traces = traces
        BY <2>2
      <4>2. QED
        BY <2>1, <4>1
    <3>3. QED
      BY <2>2, <3>1, <3>2 DEF IsCandidate
  <2>4. Earned(m)
    BY <2>2 DEF Earned
  <2>5. QED
    BY <2>3, <2>4
<1>6. ASSUME IsRanked(a), NEW t \in routed PROVE Ordinary(traces[t])
  <2>1. Tops(a.ptb[t], Contenders(a, t))
    BY <1>2, <1>6 DEF IsRanked
  <2>2. PICK tr \in Contenders(a, t) : a.ptb[t].ok = tr.ok /\ a.ptb[t].score = tr.score
    BY <1>2, <2>1 DEF Tops
  <2>3. Ordinary(tr)
    BY <1>2, <1>6, ContendersAreTraces DEF IsRanked
  <2>4. QED
    BY <2>2, <2>3 DEF Ordinary
<1>7. m.depth = 2 /\ m.traces = traces
  OBVIOUS
<1> HIDE DEF traces
<1>8. \A t \in DOMAIN traces : IsRanked(a) => Ordinary(traces[t])
  BY <1>3, <1>6
<1> HIDE DEF m
<1>9. QED
  BY <1>1, <1>5, <1>7, <1>8

LEMMA FinishIs ==
    ASSUME IsTyped, Finish
    PROVE  /\ pc = "finish" /\ UNCHANGED <<dirs, ckpt>>
           /\ loop'.iteration = loop.iteration /\ loop'.slot = loop.slot /\ loop'.done = loop.done
           /\ \/ \E k \in Int :
                    /\ Cardinality(Tasks) > 1
                    /\ ar' = Add(ar, MergeId, MergedCandidate(ar, k), {})
                    /\ saving' = Save(MergeId, MergedCandidate(ar, k), "exit")
                    /\ rewritten' = (\/ rewritten
                                     \/ MergeId \in DOMAIN ar.cand
                                     \/ ~(DOMAIN DirOf(MergeId).traces
                                            \subseteq DOMAIN MergedCandidate(ar, k).traces))
                    /\ pc' = "open"
              \/ pc' = "exit" /\ UNCHANGED <<ar, saving>>
<1> DEFINE completed == IF loop.halted THEN loop.iteration - 1 ELSE loop.iteration
<1>1. loop' = [loop EXCEPT !.completed = completed] /\ UNCHANGED <<dirs, ckpt>> /\ pc = "finish"
  BY DEF Finish, disk
<1>2. completed \in Int
  <2>1. loop.iteration \in Int
    BY BoundsAreNat DEF IsTyped, LocalsAreTyped
  <2>2. QED
    BY <2>1
<1>3. CASE CanMerge(ar, FALSE)
  <2>1. /\ ar' = Add(ar, MergeId, MergedCandidate(ar, completed), {})
        /\ saving' = Save(MergeId, MergedCandidate(ar, completed), "exit")
        /\ rewritten' = (\/ rewritten
                         \/ MergeId \in DOMAIN ar.cand
                         \/ ~(DOMAIN DirOf(MergeId).traces
                                \subseteq DOMAIN MergedCandidate(ar, completed).traces))
        /\ pc' = "open"
    BY <1>3 DEF Finish
  <2>2. Cardinality(Tasks) > 1
    BY <1>3 DEF CanMerge
  <2> HIDE DEF completed
  <2>3. loop'.iteration = loop.iteration /\ loop'.slot = loop.slot /\ loop'.done = loop.done
    BY <1>1 DEF IsTyped, LocalsAreTyped
  <2>4. QED
    BY <1>1, <1>2, <2>1, <2>2, <2>3
<1>4. CASE ~CanMerge(ar, FALSE)
  <2>1. pc' = "exit" /\ UNCHANGED <<ar, saving>>
    BY <1>4 DEF Finish
  <2> HIDE DEF completed
  <2>2. loop'.iteration = loop.iteration /\ loop'.slot = loop.slot /\ loop'.done = loop.done
    BY <1>1 DEF IsTyped, LocalsAreTyped
  <2>3. QED
    BY <1>1, <2>1, <2>2
<1>5. QED
  BY <1>3, <1>4

LEMMA FinishKeeps == IsTyped /\ DiskInv /\ Finish /\ ~rewritten' => DiskInv'
<1> SUFFICES ASSUME IsTyped, DiskInv, Finish, ~rewritten' PROVE DiskInv'
  OBVIOUS
<1>1. /\ pc = "finish" /\ UNCHANGED <<dirs, ckpt>>
      /\ loop'.iteration = loop.iteration /\ loop'.slot = loop.slot /\ loop'.done = loop.done
  BY FinishIs
<1>2. Saved
  BY <1>1, SavedUnlessWriting DEF Writing
<1>3. \A i \in 1..MaxIterations, n \in 1..Slots : Ahead(i, n)' => Ahead(i, n)
  BY <1>1 DEF Ahead
<1>4. ASSUME NEW k \in Int, Cardinality(Tasks) > 1,
             ar' = Add(ar, MergeId, MergedCandidate(ar, k), {}),
             saving' = Save(MergeId, MergedCandidate(ar, k), "exit"),
             MergeId \notin DOMAIN ar.cand,
             DOMAIN DirOf(MergeId).traces \subseteq DOMAIN MergedCandidate(ar, k).traces,
             pc' = "open"
      PROVE  DiskInv'
  <2> DEFINE c == MergedCandidate(ar, k)
             then == "exit"
             bar == {}
  <2>1. IsCandidate(c) /\ Earned(c) /\ c.depth > 1
    <3>1. IsSound(ar)
      BY <1>1 DEF DiskInv, MemoryIsSound
    <3>2. IsCandidate(c) /\ Earned(c) /\ c.depth = 2
      BY <1>4, <3>1, MergedIsCandidate
    <3> HIDE DEF c
    <3>3. QED
      BY <3>2
  <2>2. MergeId \in Ids /\ MergeId[4] = 0 /\ MergeId \notin DOMAIN ar.cand
    BY <1>4, IdsAssumption
  <2>3. ASSUME NEW i \in 1..MaxIterations, NEW n \in 1..Slots PROVE ChildId(i, n) # MergeId
    BY BoundsAreNat, ChildIdType
  <2>4. then \in {"slot", "reprop", "exit"} /\ then # "reprop"
    OBVIOUS
  <2>5. /\ ar' = Add(ar, MergeId, c, bar) /\ saving' = Save(MergeId, c, then)
        /\ DOMAIN DirOf(MergeId).traces \subseteq DOMAIN c.traces /\ bar = {}
    BY <1>4
  <2>6. \A i \in 1..MaxIterations, n \in 1..Slots :
           Ahead(i, n)' => Ahead(i, n) /\ ChildId(i, n) # MergeId
    BY <1>3, <2>3
  <2> HIDE DEF c, then, bar, Ahead
  <2>7. pc # "boot" /\ pc' = "open" /\ MergeId[4] # 2
    BY <1>1, <1>4, <2>2
  <2>8. QED
    BY <1>1, <1>2, <2>1, <2>2, <2>4, <2>5, <2>6, <2>7, ArchivedKeeps
<1>5. CASE pc' = "exit" /\ UNCHANGED <<ar, saving>>
  <2>1. saving'.id = None
    BY <1>1, <1>5 DEF DiskInv, InFlightIsNew, Nothing
  <2>2. IsArchive(ar')
    BY <1>5 DEF IsTyped, ArchiveIsTyped
  <2> HIDE DEF Ahead
  <2>3. QED
    BY <1>1, <1>2, <1>3, <1>5, <2>1, <2>2, QuietKeeps
<1>6. QED
  <2>1. \/ \E k \in Int :
               /\ Cardinality(Tasks) > 1
               /\ ar' = Add(ar, MergeId, MergedCandidate(ar, k), {})
               /\ saving' = Save(MergeId, MergedCandidate(ar, k), "exit")
               /\ MergeId \notin DOMAIN ar.cand
               /\ DOMAIN DirOf(MergeId).traces \subseteq DOMAIN MergedCandidate(ar, k).traces
               /\ pc' = "open"
        \/ pc' = "exit" /\ UNCHANGED <<ar, saving>>
    BY FinishIs
  <2>2. QED
    BY <1>4, <1>5, <2>1

\* A candidate that would be loaded while it is being written is read from the
\* sidecars of a killed save; whatever it is made of, it is a candidate.
LEMMA HalfWrittenIsComplete ==
    ASSUME IsTyped, DiskInv, Writing, ckpt # None, saving.id \in Loadable
    PROVE  Complete(saving.id)
<1> DEFINE id == saving.id
           c == saving.cand
           d == dirs[id]
<1>1. /\ IsCandidate(c) /\ c = ar.cand[id] /\ c.depth \in Nat /\ id \in DOMAIN ar.cand
      /\ id # SeedId => c.depth > 1
      /\ pc # "boot"
  BY WritingParts
<1>2. pc = "files" /\ id # SeedId
  BY DEF Writing, DiskInv, WriteIsInOrder, Loadable, InFlightIsNew
<1>3. d.sum = Summary(c) /\ d.bars = BarredIn(ar, id)
  BY <1>2 DEF DiskInv, WriteIsInOrder, HasWritten
<1>4. HasFiles(id, d)
  BY DEF DiskInv, FilesAreTyped, Loadable
<1>5. /\ Readable(d.traces, Tasks) = DOMAIN d.traces
      /\ Readable(d.codes, 2..d.sum.depth) = 2..d.sum.depth
  BY DEF Loadable
<1>6. IsSound(ar)
  BY <1>1 DEF DiskInv, MemoryIsSound
<1>7. d.bars \subseteq DOMAIN d.traces
  <2>1. CASE id = MergeId
    BY <1>3, <2>1 DEF DiskInv, InFlightIsNew, Writing
  <2>2. CASE id # MergeId
    <3>1. d.sum.depth = c.depth /\ c.depth > 1
      BY <1>1, <1>2, <1>3 DEF Summary
    <3> HIDE DEF id, c, d
    <3>2. 2 \in 2..d.sum.depth
      BY <1>1, <3>1
    <3>3. DOMAIN d.codes # {}
      BY <1>5, <3>2 DEF Readable
    <3>4. DOMAIN d.traces = Tasks
      BY <1>4, <2>2, <3>3 DEF HasFiles
    <3>5. QED
      BY <1>3, <3>4 DEF BarredIn
  <2>3. QED
    BY <2>1, <2>2
<1> HIDE DEF id, c, d
<1>8. /\ d.traces = [t \in DOMAIN d.traces |-> d.traces[t]]
      /\ DOMAIN d.traces \subseteq Tasks
      /\ \A t \in DOMAIN d.traces : d.traces[t] \in Trace
  <2>1. \A t \in DOMAIN d.traces : d.traces[t] # None
    BY <1>5 DEF Readable
  <2>2. QED
    BY <1>4, <2>1 DEF HasFiles
<1>9. IsCandidate(Loaded(d))
  <2> DEFINE l == Loaded(d)
  <2>1. /\ l.parent = c.parent /\ l.iter = c.iter /\ l.depth = c.depth /\ l.routed = c.routed
        /\ l.mean = c.mean /\ l.traces = d.traces
        /\ l = [parent |-> l.parent, iter |-> l.iter, depth |-> l.depth,
                routed |-> l.routed, mean |-> l.mean, traces |-> l.traces]
    BY <1>3 DEF Loaded, Summary
  <2> HIDE DEF l
  <2>2. IsCandidate(l)
    <3>1. /\ c.parent \in Ids \cup {None} /\ c.iter \in Int /\ c.depth \in Nat \ {0}
          /\ c.routed \in BOOLEAN /\ c.mean \in Int
      BY <1>1 DEF IsCandidate
    <3>2. /\ l.traces = [t \in DOMAIN l.traces |-> l.traces[t]]
          /\ DOMAIN l.traces \subseteq Tasks
          /\ \A t \in DOMAIN l.traces : l.traces[t] \in Trace
      BY <1>8, <2>1
    <3>3. QED
      BY <2>1, <3>1, <3>2 DEF IsCandidate
  <2>3. QED
    BY <2>2 DEF l
<1>10. QED
  BY <1>7, <1>9 DEF Complete, d, id

\* What a kill leaves: every directory a resume would load is complete and was
\* in memory.
LEMMA KillLeavesSound ==
    ASSUME IsTyped, DiskInv, pc # "boot", ckpt # None
    PROVE  /\ Loadable \subseteq DOMAIN ar.cand
           /\ \A id \in Loadable : Complete(id)
           /\ \A id \in Loadable \ BeingWritten : Same(id)
           /\ RepropsFollow(Loadable)
           /\ Earned(Loaded(dirs[SeedId]))
<1>1. IsSound(ar) /\ RepropsFollow(DOMAIN ar.cand) /\ Earned(ar.cand[SeedId])
  BY DEF DiskInv, MemoryIsSound
<1>2. ASSUME NEW id \in DOMAIN ar.cand, Same(id) PROVE Complete(id)
  <2>1. IsCandidate(ar.cand[id])
    BY <1>1 DEF IsSound
  <2>2. ar.cand[id].traces = dirs[id].traces
    <3>1. Loaded(dirs[id]).traces = dirs[id].traces
      BY DEF Loaded
    <3>2. QED
      BY <1>2, <3>1 DEF Same
  <2>3. BarredIn(ar, id) \subseteq DOMAIN ar.cand[id].traces
    BY <1>1 DEF IsSound, BarredIn
  <2>4. QED
    BY <1>2, <2>1, <2>2, <2>3 DEF Same, Complete
<1>3. SeedId \in Loadable \ BeingWritten
  BY DEF DiskInv, CheckpointIsBehind
<1>4. /\ Loadable \subseteq DOMAIN ar.cand
      /\ \A id \in Loadable \ BeingWritten : Same(id)
      /\ RepropsFollow(Loadable)
  <2>1. CASE ~Writing
    <3>1. Saved
      BY <2>1, SavedUnlessWriting
    <3> HIDE DEF Same
    <3>2. QED
      BY <1>1, <3>1 DEF Saved
  <2>2. CASE Writing
    <3>1. saving.id # None /\ saving.id \in DOMAIN ar.cand /\ InFlight = {saving.id}
          /\ BeingWritten = {saving.id}
      BY <2>2, WritingParts
    <3>2. saving.id[4] = 0 => Repropagated(saving.id) \notin DOMAIN ar.cand
      BY <3>1 DEF DiskInv, InFlightIsNew
    <3>3. /\ DOMAIN ar.cand \ {saving.id} = Loadable \ {saving.id}
          /\ \A id \in Loadable \ {saving.id} : Same(id)
      BY <3>1 DEF DiskInv, MemoryIsSaved
    <3> HIDE DEF Same
    <3>4. Loadable \subseteq DOMAIN ar.cand
      BY <3>1, <3>3
    <3>5. ASSUME NEW y \in Loadable, y[4] = 2 PROVE [y EXCEPT ![4] = 0] \in Loadable
      <4> DEFINE z == [y EXCEPT ![4] = 0]
      <4>1. y \in DOMAIN ar.cand /\ y \in Ids
        BY <1>1, <3>4 DEF IsSound
      <4>2. z \in DOMAIN ar.cand
        BY <1>1, <3>5, <4>1 DEF RepropsFollow
      <4>3. z[4] = 0 /\ Repropagated(z) = y
        <5>1. y = <<y[1], y[2], y[3], 2>>
          BY <3>5, <4>1, IdParts
        <5> DEFINE p == y[1]
                   q == y[2]
                   r == y[3]
        <5>2. y = <<p, q, r, 2>>
          BY <5>1
        <5> HIDE DEF p, q, r
        <5>3. z = <<p, q, r, 0>>
          BY <5>2
        <5>4. [<<p, q, r, 0>> EXCEPT ![4] = 2] = <<p, q, r, 2>>
          OBVIOUS
        <5> HIDE DEF z
        <5>5. QED
          BY <5>2, <5>3, <5>4 DEF Repropagated
      <4> HIDE DEF z
      <4>4. z # saving.id
        BY <3>2, <4>1, <4>3
      <4>5. QED
        BY <3>3, <4>2, <4>4 DEF z
    <3>6. QED
      BY <3>1, <3>3, <3>4, <3>5 DEF RepropsFollow
  <2>3. QED
    BY <2>1, <2>2
<1>5. ASSUME NEW id \in Loadable PROVE Complete(id)
  <2>1. CASE id \notin BeingWritten
    BY <1>2, <1>4, <2>1
  <2>2. CASE id \in BeingWritten
    <3>1. Writing /\ id = saving.id
      BY <2>2 DEF BeingWritten
    <3>2. QED
      BY <3>1, HalfWrittenIsComplete
  <2>3. QED
    BY <2>1, <2>2
<1>6. Loaded(dirs[SeedId]) = ar.cand[SeedId]
  BY <1>3, <1>4 DEF Same
<1> HIDE DEF Earned, Loaded
<1>7. QED
  BY <1>1, <1>4, <1>5, <1>6

LEMMA InterruptKeeps == IsTyped /\ DiskInv /\ Interrupt => DiskInv'
<1> SUFFICES ASSUME IsTyped, DiskInv, Interrupt PROVE DiskInv'
  OBVIOUS
<1>1. pc # "boot" /\ pc' = "boot" /\ saving' = Nothing /\ UNCHANGED <<dirs, ckpt>>
  BY DEF Interrupt, disk
<1>2. DiskIsTyped' /\ FilesAreTyped' /\ SealsAreLast' /\ CheckpointIsBehind'
  <2>1. BeingWritten' = {}
    BY <1>1 DEF BeingWritten, Writing
  <2> HIDE DEF BeingWritten
  <2>2. QED
    BY <1>1, <2>1, DiskStays
<1>3. DiskIsSound'
  <2>1. Loadable' = Loadable /\ \A id : Complete(id)' <=> Complete(id)
    BY <1>1 DEF Loadable, Complete, Loaded, IsCandidate
  <2>2. ckpt # None => /\ \A id \in Loadable : Complete(id)
                       /\ RepropsFollow(Loadable) /\ Earned(Loaded(dirs[SeedId]))
    BY <1>1, KillLeavesSound
  <2>3. Earned(Loaded(dirs[SeedId]))' <=> Earned(Loaded(dirs[SeedId]))
    BY <1>1 DEF Earned, Loaded
  <2> HIDE DEF Complete, Earned, Loaded
  <2>4. QED
    BY <1>1, <2>1, <2>2, <2>3 DEF DiskIsSound, RepropsFollow
<1>4. MemoryIsSound' /\ MemoryIsSaved' /\ SlotsAheadAreFree'
  BY <1>1 DEF MemoryIsSound, MemoryIsSaved, SlotsAheadAreFree
<1>5. InFlightIsNew' /\ WriteIsBounded' /\ WriteIsInOrder'
  BY <1>1, NothingParts DEF InFlightIsNew, WriteIsBounded, WriteIsInOrder, Writing
<1>6. QED
  BY <1>2, <1>3, <1>4, <1>5 DEF DiskInv

LEMMA DiskInit == Init => DiskInv
<1> SUFFICES ASSUME Init PROVE DiskInv
  OBVIOUS
<1>1. /\ pc = "boot" /\ saving = Nothing /\ dirs = <<>> /\ ckpt = None
  BY DEF Init
<1>2. DOMAIN dirs = {}
  BY <1>1
<1>3. DiskIsTyped
  BY <1>2, FS_EmptySet DEF DiskIsTyped
<1>4. FilesAreTyped /\ SealsAreLast /\ CheckpointIsBehind /\ DiskIsSound
  BY <1>1, <1>2 DEF FilesAreTyped, SealsAreLast, CheckpointIsBehind, DiskIsSound
<1>5. MemoryIsSound /\ MemoryIsSaved /\ SlotsAheadAreFree
  BY <1>1 DEF MemoryIsSound, MemoryIsSaved, SlotsAheadAreFree
<1>6. InFlightIsNew /\ WriteIsBounded /\ WriteIsInOrder
  BY <1>1, NothingParts DEF InFlightIsNew, WriteIsBounded, WriteIsInOrder, Writing
<1>7. QED
  BY <1>3, <1>4, <1>5, <1>6 DEF DiskInv

LEMMA RewrittenStays == [Next]_vars /\ rewritten => rewritten'
BY DEF Next, Step, vars, Resume, RunSeed, OpenSummary, WriteSummary, OpenTrace, WriteTrace, OpenCode,
       WriteCode, EndSave, Persist, LeaveLoop, BeginIteration, SkipSlot, RejectChild, BreedChild, Repropagate,
       EndIteration, Finish, Interrupt

LEMMA DiskStep == IsTyped /\ DiskInv /\ [Next]_vars /\ ~rewritten' => DiskInv'
<1> SUFFICES ASSUME IsTyped, DiskInv, [Next]_vars, ~rewritten' PROVE DiskInv'
  OBVIOUS
<1>1. CASE UNCHANGED vars
  <2>1. /\ UNCHANGED <<ar, loop, pc, saving, dirs, ckpt>>
        /\ Loadable' = Loadable /\ InFlight' = InFlight
    BY <1>1 DEF vars, Loadable, InFlight
  <2>2. /\ \A id : Same(id)' <=> Same(id)
        /\ \A id : Complete(id)' <=> Complete(id)
        /\ \A id : BarredIn(ar, id)' = BarredIn(ar, id)
    BY <2>1 DEF Same, Complete, Loaded, BarredIn, IsCandidate
  <2>3. IsSound(ar)' <=> IsSound(ar)
    BY <2>1
  <2>4. DiskIsTyped' /\ FilesAreTyped' /\ SealsAreLast' /\ CheckpointIsBehind'
    <3>1. BeingWritten' = BeingWritten
      BY <2>1 DEF BeingWritten, Writing
    <3> HIDE DEF BeingWritten
    <3>2. DiskIsTyped' /\ FilesAreTyped'
      BY <2>1 DEF DiskInv, DiskIsTyped, FilesAreTyped, HasFiles, Earned
    <3>3. SealsAreLast'
      BY <2>1 DEF DiskInv, SealsAreLast, Seals, Loaded
    <3>4. CheckpointIsBehind'
      BY <2>1, <3>1 DEF DiskInv, CheckpointIsBehind
    <3>5. QED
      BY <3>2, <3>3, <3>4
  <2> HIDE DEF Same, Complete
  <2>5. DiskIsSound' /\ MemoryIsSound' /\ MemoryIsSaved' /\ SlotsAheadAreFree'
    BY <2>1, <2>2, <2>3 DEF DiskInv, DiskIsSound, MemoryIsSound, MemoryIsSaved,
                            SlotsAheadAreFree, RepropsFollow, Ahead, Earned, Loaded
  <2>6. InFlightIsNew' /\ WriteIsBounded' /\ WriteIsInOrder'
    <3>1. Writing' <=> Writing
      BY <2>1 DEF Writing
    <3>2. Same(saving.id)' <=> Same(saving.id)
      BY <2>1, <2>2
    <3>3. DirOf(saving.id)' = DirOf(saving.id) /\ BarredIn(ar, saving.id)' = BarredIn(ar, saving.id)
      BY <2>1 DEF DirOf, BarredIn
    <3>4. InFlightIsNew' /\ WriteIsBounded'
      BY <2>1, <3>1, <3>3 DEF DiskInv, InFlightIsNew, WriteIsBounded, Seals, Earned, Repropagated
    <3>5. WriteIsInOrder'
      BY <2>1, <2>2, <3>2, <3>3 DEF DiskInv, WriteIsInOrder, HasWritten, Summary
    <3>6. QED
      BY <3>4, <3>5
  <2>7. QED
    BY <2>4, <2>5, <2>6 DEF DiskInv
<1>2. CASE Next
  BY <1>2, ResumeKeeps, RunSeedKeeps, OpenSummaryKeeps, WriteSummaryKeeps, TracesKeep,
     CodesKeep, EndSaveKeeps, PersistKeeps, LeaveLoopKeeps, BeginIterationKeeps, SlotKeeps,
     BreedChildKeeps, RepropagateKeeps, EndIterationKeeps, FinishKeeps, InterruptKeeps
     DEF Next, Step
<1>3. QED
  BY <1>1, <1>2

\* The invariant is inductive.
LEMMA Inductive == IInv /\ [Next]_vars => IInv'
<1>1. IInv /\ [Next]_vars => IsTyped'
  BY TypeStep DEF IInv
<1>2. IInv /\ [Next]_vars /\ ~rewritten' => DiskInv'
  BY DiskStep, RewrittenStays DEF IInv
<1>3. QED
  BY <1>1, <1>2 DEF IInv

LEMMA Invariant == Spec => []IInv
<1>1. Init => IInv
  BY TypeInit, DiskInit DEF IInv
<1>2. QED
  BY <1>1, Inductive, PTL DEF Spec

\* The directories a resume would load are the candidates in memory, with the
\* bars that fired on them, but for the one being written; those that are sealed
\* hold one save, whole: after any number of kills between any two writes of a
\* save, with the files earlier ones left, and any number of lost checkpoints.
THEOREM DiskIsTheTruth == Spec => []MemoryMatchesDisk
<1>1. IInv => MemoryMatchesDisk
  <2> SUFFICES ASSUME IInv, pc # "boot", ~rewritten
               PROVE  /\ DOMAIN ar.cand \ InFlight = Loadable \ InFlight
                      /\ \A id \in Loadable \ InFlight :
                            /\ Loaded(dirs[id]) = ar.cand[id]
                            /\ dirs[id].bars = {t \in Tasks : <<id, t>> \in ar.bars}
                            /\ Sealed(dirs[id]) =>
                                  /\ \A d \in 2..ar.cand[id].depth : dirs[id].codes[d] = ar.cand[id]
                                  /\ ~ar.cand[id].routed =>
                                        ar.cand[id].mean = MeanOf(ar.cand[id].traces)
    BY DEF MemoryMatchesDisk
  <2>1. /\ DOMAIN ar.cand \ InFlight = Loadable \ InFlight
        /\ \A id \in Loadable \ InFlight : Same(id)
        /\ IsSound(ar) /\ Earned(ar.cand[SeedId])
    BY DEF IInv, DiskInv, MemoryIsSaved, MemoryIsSound
  <2>2. ASSUME NEW id \in Loadable \ InFlight, Sealed(dirs[id])
        PROVE  /\ \A d \in 2..ar.cand[id].depth : dirs[id].codes[d] = ar.cand[id]
               /\ Earned(ar.cand[id])
    <3> DEFINE f == dirs[id]
               c == ar.cand[id]
               e == f.sum.depth
    <3>1. IsCandidate(c) /\ c.depth \in Nat \ {0} /\ Loaded(f) = c /\ id \in DOMAIN dirs
      BY <2>1 DEF IsSound, Same, IsCandidate, Loadable
    <3>2. c.depth = e
      BY <3>1 DEF Loaded
    <3>3. f.sum # None /\ Readable(f.codes, 2..e) = 2..e
      BY DEF Loadable
    <3>4. HasFiles(id, f)
      BY <3>1 DEF IInv, DiskInv, FilesAreTyped
    <3>5. \A x : Seals(f, x) => Loaded(f) = f.codes[x] /\ \A y \in 2..x : f.codes[y] = f.codes[x]
      BY <3>1 DEF IInv, DiskInv, SealsAreLast
    <3>6. e > 1 => f.codes[e].depth = e
      BY <2>2 DEF Sealed
    <3>7. id = SeedId => Earned(c)
      BY <2>1
    <3>8. e > 1 <=> id # SeedId
      BY <3>3, <3>4 DEF HasFiles
    <3> HIDE DEF f, c, e
    <3>9. CASE e > 1
      <4>1. e \in 2..e
        BY <3>1, <3>2, <3>9
      <4>2. e \in DOMAIN f.codes /\ f.codes[e] # None
        BY <3>3, <4>1 DEF Readable
      <4>3. Seals(f, e)
        BY <3>6, <3>9, <4>2 DEF Seals
      <4>4. c = f.codes[e] /\ \A y \in 2..e : f.codes[y] = f.codes[e]
        BY <3>1, <3>5, <4>3
      <4>5. Earned(f.codes[e])
        BY <3>4, <4>2 DEF HasFiles
      <4>6. \A d \in 2..c.depth : f.codes[d] = c
        BY <3>2, <4>4
      <4>7. Earned(c)
        BY <4>4, <4>5
      <4>8. QED
        BY <4>6, <4>7 DEF f, c
    <3>10. CASE ~(e > 1)
      <4>1. 2..c.depth = {}
        BY <3>1, <3>2, <3>10
      <4>2. Earned(c)
        BY <3>7, <3>8, <3>10
      <4>3. QED
        BY <4>1, <4>2 DEF c
    <3>11. QED
      BY <3>9, <3>10
  <2>3. ASSUME NEW id \in Loadable \ InFlight
        PROVE  /\ Loaded(dirs[id]) = ar.cand[id]
               /\ dirs[id].bars = {t \in Tasks : <<id, t>> \in ar.bars}
    BY <2>1 DEF Same, BarredIn
  <2>4. QED
    BY <2>1, <2>2, <2>3 DEF Earned
<1>2. QED
  BY <1>1, Invariant, PTL

\* A step writes no directory that is sealed.
LEMMA WorkStays ==
    ASSUME IInv, [Next]_vars, ckpt # None, ~rewritten', NEW id \in Loadable, Sealed(dirs[id])
    PROVE  dirs'[id] = dirs[id]
<1>1. IsTyped /\ DiskInv
  BY RewrittenStays DEF IInv
<1>2. CASE UNCHANGED dirs
  BY <1>2
<1>3. CASE OpenSummary \/ WriteSummary \/ OpenTrace \/ WriteTrace \/ OpenCode \/ WriteCode
  <2>1. /\ Writing /\ \E d : WriteDir(saving.id, d)
        /\ ~(pc = "files" /\ saving.left = {} /\ saving.code > saving.cand.depth)
    <3>1. CASE OpenSummary \/ WriteSummary \/ OpenTrace \/ WriteTrace
      BY <3>1 DEF OpenSummary, WriteSummary, OpenTrace, WriteTrace, Writing
    <3>2. CASE OpenCode \/ WriteCode
      <4>1. Writing /\ (\E d : WriteDir(saving.id, d)) /\ saving.code <= saving.cand.depth
        BY <3>2 DEF OpenCode, WriteCode, Writing
      <4>2. saving.cand.depth \in Nat /\ saving.code \in Int
        BY <1>1, <4>1, WritingParts DEF DiskInv, WriteIsBounded
      <4>3. QED
        BY <4>1, <4>2
    <3>3. QED
      BY <1>3, <3>1, <3>2
  <2>2. id # saving.id
    BY <1>1, <2>1, SealedIsWritten
  <2>3. QED
    BY <2>1, <2>2, WriteTouchesOne
<1>4. QED
  BY <1>2, <1>3 DEF Next, Step, vars, disk, Resume, RunSeed, EndSave, Persist, LeaveLoop,
                    BeginIteration, SkipSlot, RejectChild, BreedChild, Repropagate, EndIteration,
                    Finish, Interrupt

\* No candidate is made that a resume would load.
LEMMA NewIsNotLoadable ==
    ASSUME IInv, [Next]_vars, ckpt # None, ~rewritten', saving'.id # saving.id
    PROVE  saving'.id \notin Loadable
<1>1. IsTyped /\ DiskInv
  BY RewrittenStays DEF IInv
<1>2. None \notin Loadable
  BY <1>1, LoadableType, NoValueAssumption DEF DiskInv
<1>3. ASSUME pc \in {"slot", "reprop", "finish"} PROVE DOMAIN ar.cand = Loadable
  BY <1>1, <1>3, SavedUnlessWriting DEF Saved, Writing
<1>4. CASE RunSeed
  BY <1>4 DEF RunSeed
<1>5. CASE WriteTrace \/ WriteCode
  <2>1. saving'.id = saving.id
    BY <1>1, <1>5 DEF WriteTrace, WriteCode, IsTyped, SavingIsShaped
  <2>2. QED
    BY <2>1
<1>6. CASE Persist \/ EndIteration \/ Interrupt
  <2>1. \/ UNCHANGED saving
        \/ saving' = Nothing
        \/ saving' = [Nothing EXCEPT !.then = "top"]
    BY <1>6 DEF Persist, EndIteration, Interrupt
  <2>2. QED
    BY <1>2, <2>1, NothingParts
<1>7. CASE BreedChild
  <2>1. pc = "slot"
    BY <1>7 DEF BreedChild
  <2>2. \E id, c, then : id \notin DOMAIN ar.cand /\ saving' = Save(id, c, then)
    BY <1>1, <1>7, BreedChildIs
  <2>3. QED
    BY <1>3, <2>1, <2>2, SaveParts
<1>8. CASE Repropagate
  <2>1. pc = "reprop"
    BY <1>8 DEF Repropagate
  <2>2. Repropagated(saving.id) \notin DOMAIN ar.cand
    BY <1>1, <2>1 DEF DiskInv, InFlightIsNew
  <2>3. saving' = Nothing \/ \E c, then : saving' = Save(Repropagated(saving.id), c, then)
    BY <1>8, Zenon DEF Repropagate, Archived
  <2>4. QED
    BY <1>2, <1>3, <2>1, <2>2, <2>3, SaveParts, NothingParts
<1>9. CASE Finish
  <2>1. pc = "finish"
    BY <1>9 DEF Finish
  <2>2. \/ UNCHANGED saving
        \/ \E c, then : MergeId \notin DOMAIN ar.cand /\ saving' = Save(MergeId, c, then)
    BY <1>1, <1>9, FinishIs
  <2>3. QED
    BY <1>3, <2>1, <2>2, SaveParts
<1>10. QED
  BY <1>4, <1>5, <1>6, <1>7, <1>8, <1>9
     DEF Next, Step, vars, Resume, OpenSummary, WriteSummary, OpenTrace, OpenCode, EndSave,
         LeaveLoop, BeginIteration, SkipSlot, RejectChild

\* Once there is a checkpoint no candidate that a resume would load is evaluated
\* again, and a sealed directory is never written again: no kill can damage what
\* was done before it.
THEOREM WorkIsDoneOnce == Spec => WorkIsNeverRepeated
<1>1. IInv /\ [Next]_vars =>
         [ckpt # None /\ ~rewritten' =>
             /\ saving'.id # saving.id => saving'.id \notin Loadable
             /\ \A id \in Loadable : Sealed(dirs[id]) => dirs'[id] = dirs[id]]_vars
  BY WorkStays, NewIsNotLoadable
<1>2. QED
  BY <1>1, Invariant, PTL DEF Spec, WorkIsNeverRepeated

-----------------------------------------------------------------------------
(* The per-task bests of the process that is killed and of the one that    *)
(* goes on.                                                                *)

\* The per-task bests have the rank of the best that competes for the task, and
\* what is on disk, however it got there, can give them back.
RankInv ==
    ~rewritten =>
        /\ OrdinaryDisk
        /\ pc # "boot" => IsRanked(ar)
        /\ pc = "boot" /\ ckpt # None =>
              \A t \in Tasks : ckpt.floor[t] # None => Ordinary(ckpt.floor[t])

LEMMA SameRanked ==
    ASSUME NEW a, NEW b, IsRanked(a), b.cand = a.cand, b.bars = a.bars, b.ptb = a.ptb,
           b.floor = a.floor
    PROVE  IsRanked(b)
<1>1. AllOrdinary(b)
  BY DEF AllOrdinary, IsRanked
<1>2. \A t \in Tasks : Contenders(b, t) = Contenders(a, t)
  BY DEF Contenders, Unbarred, Deployable
<1>3. QED
  BY <1>1, <1>2 DEF IsRanked

\* A save writes the traces that are in memory.
LEMMA OrdinaryStays ==
    ASSUME IsTyped, DiskInv, OrdinaryDisk, AllOrdinary(ar),
           \/ OpenSummary \/ WriteSummary \/ OpenTrace \/ WriteTrace \/ OpenCode \/ WriteCode
    PROVE  OrdinaryDisk'
<1> DEFINE base == DirOf(saving.id)
           k == NextTrace
           Fine(f) == \A t \in DOMAIN f : f[t] # None => Ordinary(f[t])
<1>1. Writing
  BY DEF OpenSummary, WriteSummary, OpenTrace, WriteTrace, OpenCode, WriteCode, Writing
<1>2. Fine(base.traces)
  BY DEF OrdinaryDisk, DirOf, NoDir
<1>3. base = [sum |-> base.sum, bars |-> base.bars, traces |-> base.traces, codes |-> base.codes]
  BY DirParts
<1>4. \A t \in DOMAIN saving.cand.traces : Ordinary(saving.cand.traces[t])
  BY <1>1, WritingParts DEF AllOrdinary
<1>5. ASSUME NEW d, WriteDir(saving.id, d), Fine(d.traces) PROVE OrdinaryDisk'
  <2>1. /\ DOMAIN dirs' = DOMAIN dirs \cup {saving.id} /\ dirs'[saving.id] = d
        /\ \A x \in DOMAIN dirs : x # saving.id => dirs'[x] = dirs[x]
    BY <1>5, WrittenDir
  <2>2. \A x \in DOMAIN dirs : Fine(dirs[x].traces)
    BY DEF OrdinaryDisk
  <2>3. Fine(d.traces)
    BY <1>5
  <2> HIDE DEF Fine
  <2>4. \A x \in DOMAIN dirs' : Fine(dirs'[x].traces)
    BY <2>1, <2>2, <2>3
  <2>5. QED
    BY <2>4 DEF Fine, OrdinaryDisk, Ordinary
<1>6. ASSUME NEW v, v # None => Ordinary(v) PROVE Fine(Put(base.traces, k, v))
  <2> DEFINE f == base.traces
             g == Put(f, k, v)
  <2> HIDE DEF base, k
  <2>1. /\ DOMAIN g = DOMAIN f \cup {k} /\ g[k] = v
        /\ \A t \in DOMAIN f : t # k => g[t] = f[t]
    BY DEF Put
  <2>2. Fine(f)
    BY <1>2
  <2> HIDE DEF f, g
  <2>3. Fine(g)
    BY <1>6, <2>1, <2>2
  <2>4. QED
    BY <2>3 DEF f, g
<1> HIDE DEF base, Fine, k
<1>7. CASE OpenSummary \/ WriteSummary \/ OpenCode \/ WriteCode
  <2>1. \/ \E x : WriteDir(saving.id, [base EXCEPT !.sum = x])
        \/ \E x, y : WriteDir(saving.id, [base EXCEPT !.sum = x, !.bars = y])
        \/ \E x : WriteDir(saving.id, [base EXCEPT !.codes = x])
    BY <1>7 DEF OpenSummary, WriteSummary, OpenCode, WriteCode, base
  <2>2. /\ \A x : [base EXCEPT !.sum = x].traces = base.traces
        /\ \A x, y : [base EXCEPT !.sum = x, !.bars = y].traces = base.traces
        /\ \A x : [base EXCEPT !.codes = x].traces = base.traces
    BY <1>3
  <2>3. PICK d : WriteDir(saving.id, d) /\ d.traces = base.traces
    <3> DEFINE X(x) == [base EXCEPT !.sum = x]
               Y(x, y) == [base EXCEPT !.sum = x, !.bars = y]
               Z(x) == [base EXCEPT !.codes = x]
    <3>1. /\ \/ \E x : WriteDir(saving.id, X(x))
             \/ \E x, y : WriteDir(saving.id, Y(x, y))
             \/ \E x : WriteDir(saving.id, Z(x))
          /\ \A x : X(x).traces = base.traces
          /\ \A x, y : Y(x, y).traces = base.traces
          /\ \A x : Z(x).traces = base.traces
      BY <2>1, <2>2
    <3> HIDE DEF X, Y, Z
    <3>2. QED
      BY <3>1
  <2>4. Fine(d.traces)
    BY <1>2, <2>3
  <2>5. QED
    BY <1>5, <2>3, <2>4
<1>8. CASE OpenTrace \/ WriteTrace
  <2>1. \E v : /\ v # None => Ordinary(v)
               /\ WriteDir(saving.id, [base EXCEPT !.traces = Put(base.traces, k, v)])
    <3>1. CASE OpenTrace
      <4>1. WriteDir(saving.id, [base EXCEPT !.traces = Put(base.traces, k, None)])
        BY <1>3, <3>1 DEF OpenTrace, base, k
      <4>2. QED
        BY <4>1
    <3>2. CASE WriteTrace
      <4>1. /\ saving.left # {}
            /\ WriteDir(saving.id, [base EXCEPT
                                        !.traces = Put(base.traces, k, saving.cand.traces[k])])
        BY <1>3, <3>2 DEF WriteTrace, base, k
      <4>2. k \in saving.left
        BY <4>1 DEF k, NextTrace
      <4>3. k \in DOMAIN saving.cand.traces
        BY <1>1, <4>2 DEF DiskInv, WriteIsBounded
      <4>4. QED
        BY <1>4, <4>1, <4>3
    <3>3. QED
      BY <1>8, <3>1, <3>2
  <2>2. PICK v : /\ v # None => Ordinary(v)
                 /\ WriteDir(saving.id, [base EXCEPT !.traces = Put(base.traces, k, v)])
    BY <2>1
  <2> DEFINE f == Put(base.traces, k, v)
             d == [base EXCEPT !.traces = f]
  <2>3. Fine(f)
    BY <1>6, <2>2
  <2>4. WriteDir(saving.id, d)
    BY <2>2
  <2> HIDE DEF f
  <2>5. d.traces = f
    BY <1>3
  <2> HIDE DEF d
  <2>6. QED
    BY <1>5, <2>3, <2>4, <2>5
<1>9. QED
  BY <1>7, <1>8

LEMMA RankStep ==
    ASSUME OrdinaryScale, IInv, RankInv, [Next]_vars
    PROVE  RankInv'
<1> SUFFICES ASSUME ~rewritten' PROVE RankInv'
  BY DEF RankInv
<1>1. IsTyped /\ DiskInv /\ ~rewritten
  BY RewrittenStays DEF IInv
<1>2. pc # "boot" => IsRanked(ar) /\ IsSound(ar)
  BY <1>1 DEF RankInv, DiskInv, MemoryIsSound
<1>31. OrdinaryDisk'
  <2>1. CASE UNCHANGED dirs
    BY <1>1, <2>1 DEF RankInv, OrdinaryDisk
  <2>2. CASE OpenSummary \/ WriteSummary \/ OpenTrace \/ WriteTrace \/ OpenCode \/ WriteCode
    <3>1. pc # "boot"
      BY <2>2 DEF OpenSummary, WriteSummary, OpenTrace, WriteTrace, OpenCode, WriteCode
    <3>2. OrdinaryDisk /\ AllOrdinary(ar)
      BY <1>1, <1>2, <3>1 DEF RankInv, IsRanked
    <3>3. QED
      BY <1>1, <2>2, <3>2, OrdinaryStays
  <2>3. QED
    BY <2>1, <2>2 DEF Next, Step, vars, disk, Resume, RunSeed, EndSave, Persist, LeaveLoop,
                      BeginIteration, SkipSlot, RejectChild, BreedChild, Repropagate,
                      EndIteration, Finish, Interrupt
<1>3. SUFFICES /\ pc' # "boot" => IsRanked(ar')
               /\ pc' = "boot" /\ ckpt' # None =>
                     \A t \in Tasks : ckpt'.floor[t] # None => Ordinary(ckpt'.floor[t])
  BY <1>31 DEF RankInv
<1>4. CASE UNCHANGED vars
  <2>1. UNCHANGED <<ar, pc, dirs, ckpt>>
    BY <1>4 DEF vars
  <2>2. QED
    BY <1>1, <1>2, <2>1 DEF RankInv
<1>5. CASE Resume
  <2>1. pc = "boot" /\ ckpt # None /\ ar' = Resumed /\ pc' = "top"
    BY <1>5 DEF Resume
  <2>2. Replayable /\ OrdinaryDisk /\ \A t \in Tasks : ckpt.floor[t] # None => Ordinary(ckpt.floor[t])
    BY <1>1, <2>1, BootIsReplayable DEF RankInv
  <2>3. IsRanked(Resumed)
    BY <2>2, ResumedHolds
  <2>4. QED
    BY <2>1, <2>3
<1>6. CASE RunSeed
  <2>1. pc' = "open"
    BY <1>6 DEF RunSeed
  <2>2. QED
    BY <1>6, <2>1, SeedArchive
<1>7. CASE UNCHANGED ar /\ pc # "boot" /\ pc' # "boot"
  BY <1>2, <1>7
<1>8. CASE BreedChild
  <2>1. pc = "slot"
    BY <1>8 DEF BreedChild
  <2>2. PICK id \in Ids, parent \in DOMAIN ar.cand, traces \in Evaluations, bar \in BarChoices :
           \E then \in {"slot", "reprop"} :
              LET c == Child(parent, ar.cand[parent].depth + 1, traces)
              IN  /\ id \notin DOMAIN ar.cand /\ id[4] # 2 /\ id # MergeId
                  /\ then = "reprop" => id[4] = 0
                  /\ ar' = Add(ar, id, c, bar)
                  /\ saving' = Save(id, c, then)
                  /\ pc' = "open"
                  /\ \A i \in 1..MaxIterations, n \in 1..Slots :
                        Ahead(i, n)' => Ahead(i, n) /\ ChildId(i, n) # id
    BY <1>1, <1>8, BreedChildIs
  <2> DEFINE c == Child(parent, ar.cand[parent].depth + 1, traces)
  <2>3. id \notin DOMAIN ar.cand /\ ar' = Add(ar, id, c, bar) /\ pc' = "open"
    BY <2>2
  <2>4. IsCandidate(c) /\ c.traces = traces
    <3>1. parent \in Ids /\ ar.cand[parent].depth \in Nat \ {0}
      BY <1>1, <2>1, ArchivedParts
    <3>2. ar.cand[parent].depth + 1 \in Nat \ {0}
      BY <3>1
    <3>3. c.traces = traces
      BY DEF Child
    <3>4. QED
      BY <1>1, <3>1, <3>2, <3>3, ChildIsCandidate
  <2>5. \A t \in DOMAIN c.traces : Ordinary(c.traces[t])
    BY <2>4, EvaluationsAreTraces DEF OrdinaryScale
  <2> HIDE DEF c
  <2>6. QED
    BY <1>2, <2>1, <2>3, <2>4, <2>5, AddIsRanked
<1>9. CASE Repropagate
  <2>1. pc = "reprop"
    BY <1>9 DEF Repropagate
  <2>2. CASE pc' = "slot" /\ UNCHANGED ar
    BY <1>2, <2>1, <2>2
  <2>3. ASSUME NEW traces \in Evaluations, NEW bar \in BarChoices,
               Archived(Repropagated(saving.id), saving.id, saving.cand.depth, traces, bar, "slot")
        PROVE  pc' = "open" /\ IsRanked(ar')
    <3> DEFINE id == Repropagated(saving.id)
               c == Child(saving.id, saving.cand.depth, traces)
    <3>1. /\ saving.id # None /\ saving.then = "reprop" /\ saving.id[4] = 0
          /\ saving.id \in DOMAIN ar.cand /\ saving.cand = ar.cand[saving.id]
          /\ id \notin DOMAIN ar.cand
      BY <1>1, <2>1 DEF DiskInv, InFlightIsNew
    <3>2. saving.id \in Ids /\ saving.cand.depth \in Nat \ {0}
      BY <1>1, <2>1, <3>1, ArchivedParts
    <3>3. id \in Ids
      BY <3>2, NamesDiffer
    <3>4. IsCandidate(c) /\ c.traces = traces
      <4>1. c.traces = traces
        BY DEF Child
      <4>2. QED
        BY <1>1, <3>2, <4>1, ChildIsCandidate
    <3>5. ar' = Add(ar, id, c, bar) /\ pc' = "open"
      BY <2>3 DEF Archived, Child
    <3>6. \A t \in DOMAIN c.traces : Ordinary(c.traces[t])
      BY <3>4, EvaluationsAreTraces DEF OrdinaryScale
    <3> HIDE DEF id, c
    <3>7. QED
      BY <1>2, <2>1, <3>1, <3>3, <3>4, <3>5, <3>6, AddIsRanked
  <2>4. QED
    BY <1>9, <2>2, <2>3 DEF Repropagate
<1>10. CASE EndIteration
  <2>1. /\ pc = "slot" /\ pc' \in {"top", "persist"}
        /\ ar' = ar \/ ar' = Frozen(ar)
    BY <1>1, <1>10, EndIterationIs
  <2>2. IsArchive(ar)
    BY <1>2, <2>1 DEF IsSound
  <2>3. ar'.cand = ar.cand /\ ar'.bars = ar.bars /\ ar'.ptb = ar.ptb /\ ar'.floor = ar.floor
    BY <2>1, <2>2, FrozenParts
  <2>4. QED
    BY <1>2, <2>1, <2>3, SameRanked
<1>11. CASE Finish
  <2>1. pc = "finish"
    BY <1>11 DEF Finish
  <2>2. CASE pc' = "exit" /\ UNCHANGED <<ar, saving>>
    BY <1>2, <2>1, <2>2
  <2>3. ASSUME NEW k \in Int, Cardinality(Tasks) > 1,
               ar' = Add(ar, MergeId, MergedCandidate(ar, k), {}),
               MergeId \notin DOMAIN ar.cand, pc' = "open"
        PROVE  pc' = "open" /\ IsRanked(ar')
    <3> DEFINE c == MergedCandidate(ar, k)
               bar == {}
    <3>1. MergeId \in Ids /\ MergeId \notin DOMAIN ar.cand
      BY <2>3, IdsAssumption
    <3>2. IsCandidate(c) /\ \A t \in DOMAIN c.traces : Ordinary(c.traces[t])
      BY <1>2, <2>1, <2>3, MergedIsCandidate
    <3>3. ar' = Add(ar, MergeId, c, bar)
      BY <2>3
    <3> HIDE DEF c, bar
    <3>4. QED
      BY <1>2, <2>1, <2>3, <3>1, <3>2, <3>3, AddIsRanked
  <2>4. \/ pc' = "exit" /\ UNCHANGED <<ar, saving>>
        \/ \E k \in Int : /\ Cardinality(Tasks) > 1 /\ MergeId \notin DOMAIN ar.cand
                           /\ ar' = Add(ar, MergeId, MergedCandidate(ar, k), {})
                           /\ pc' = "open"
    BY <1>1, <1>11, FinishIs
  <2>5. QED
    BY <2>2, <2>3, <2>4
<1>12. CASE Interrupt
  <2>1. pc # "boot" /\ pc' = "boot" /\ UNCHANGED <<dirs, ckpt>>
    BY <1>12 DEF Interrupt, disk
  <2>2. ASSUME ckpt # None, NEW t \in Tasks, ckpt.floor[t] # None PROVE Ordinary(ckpt.floor[t])
    <3>1. AllOrdinary(ar) /\ ckpt.floor = ar.floor
      BY <1>1, <1>2, <2>1, <2>2 DEF IsRanked, DiskInv, MemoryIsSound
    <3>2. QED
      BY <2>2, <3>1 DEF AllOrdinary
  <2>3. QED
    BY <2>1, <2>2
<1>13. CASE OpenSummary \/ WriteSummary \/ OpenTrace \/ WriteTrace \/ OpenCode \/ WriteCode
            \/ EndSave \/ Persist \/ LeaveLoop \/ BeginIteration \/ SkipSlot \/ RejectChild
  <2>1. UNCHANGED ar /\ pc # "boot"
    BY <1>13 DEF OpenSummary, WriteSummary, OpenTrace, WriteTrace, OpenCode, WriteCode, EndSave,
                 Persist, LeaveLoop, BeginIteration, SkipSlot, RejectChild
  <2>2. pc' # "boot"
    BY <1>1, <1>13 DEF OpenSummary, WriteSummary, OpenTrace, WriteTrace, OpenCode, WriteCode,
                       EndSave, Persist, LeaveLoop, BeginIteration, SkipSlot, RejectChild,
                       IsTyped, ProcessIsTyped
  <2>3. QED
    BY <1>2, <2>1, <2>2
<1>14. QED
  BY <1>4, <1>5, <1>6, <1>8, <1>9, <1>10, <1>11, <1>12, <1>13 DEF Next, Step

LEMMA RankInvariant ==
    ASSUME OrdinaryScale
    PROVE  Spec => []RankInv
<1>1. Init => RankInv
  <2> SUFFICES ASSUME Init PROVE RankInv
    OBVIOUS
  <2>1. DOMAIN dirs = {} /\ pc = "boot" /\ ckpt = None
    BY DEF Init
  <2>2. QED
    BY <2>1 DEF RankInv, OrdinaryDisk
<1>2. IInv /\ RankInv /\ [Next]_vars => RankInv'
  BY RankStep
<1>3. QED
  BY <1>1, <1>2, Invariant, PTL DEF Spec

\* An archive with the same candidates has the same best mean.
LEMMA SameBestMean ==
    ASSUME NEW a, NEW b, IsSound(a), IsSound(b), DOMAIN b.cand = DOMAIN a.cand,
           \A x \in DOMAIN a.cand : b.cand[x] = a.cand[x]
    PROVE  BestMean(b) = BestMean(a)
<1>1. BestIsGreatest(a) /\ BestIsGreatest(b) /\ \A x \in DOMAIN a.cand : a.cand[x].mean \in Int
  BY DEF IsSound, IsCandidate
<1>2. CASE DOMAIN a.cand = {}
  BY <1>1, <1>2 DEF BestIsGreatest, BestMean
<1>3. CASE DOMAIN a.cand # {}
  <2> DEFINE x == a.best
             y == b.best
  <2>1. a.best # None /\ b.best # None
    BY <1>1, <1>3 DEF BestIsGreatest
  <2>2. /\ x \in DOMAIN a.cand /\ y \in DOMAIN a.cand
        /\ \A z \in DOMAIN a.cand : a.cand[z].mean <= a.cand[x].mean
        /\ \A z \in DOMAIN a.cand : a.cand[z].mean <= a.cand[y].mean
    BY <1>1, <2>1 DEF BestIsGreatest
  <2>3. BestMean(a) = a.cand[x].mean /\ BestMean(b) = a.cand[y].mean
    BY <2>1, <2>2 DEF BestMean
  <2> HIDE DEF x, y
  <2>4. a.cand[x].mean <= a.cand[y].mean /\ a.cand[y].mean <= a.cand[x].mean
        /\ a.cand[x].mean \in Int /\ a.cand[y].mean \in Int
    BY <1>1, <2>2
  <2>5. QED
    BY <2>3, <2>4
<1>4. QED
  BY <1>2, <1>3

\* Between two saves a kill is invisible: whatever the order of the replay, the
\* process goes on with the best mean, the floor and, for every task, a best of
\* the rank it had.  On the scale the floor was written for: a solve that ran
\* scores more than a crash.
THEOREM AKillIsInvisible ==
    ASSUME OrdinaryScale
    PROVE  Spec => []ResumeIsTransparent
<1>1. IInv /\ RankInv => ResumeIsTransparent
  <2> SUFFICES ASSUME IInv, RankInv, pc \in {"top", "slot"}, ckpt # None, ~rewritten
               PROVE  /\ BestMean(Resumed) = BestMean(ar)
                      /\ Resumed.floor = ar.floor
                      /\ \A t \in Tasks : Ranks(Resumed.ptb[t], ar.ptb[t])
    BY DEF ResumeIsTransparent
  <2>1. IsTyped /\ DiskInv /\ IsSound(ar) /\ IsRanked(ar) /\ ckpt.floor = ar.floor
    BY DEF IInv, RankInv, DiskInv, MemoryIsSound
  <2>2. Saved
    BY <2>1, SavedUnlessWriting DEF Writing
  <2>3. Replayable
    BY <2>1, KillLeavesSound DEF Replayable, DiskInv
  <2>5. OrdinaryDisk /\ \A t \in Tasks : ckpt.floor[t] # None => Ordinary(ckpt.floor[t])
    BY <2>1 DEF RankInv, IsRanked, AllOrdinary
  <2> DEFINE r == Resumed
  <2>6. /\ IsSound(r) /\ DOMAIN r.cand = Loadable
        /\ \A id \in Loadable : /\ r.cand[id] = Loaded(dirs[id])
                                /\ BarredIn(r, id) = dirs[id].bars
        /\ r.floor = ckpt.floor /\ IsRanked(r)
    BY <2>3, <2>5, ResumedHolds
  <2> HIDE DEF r
  <2>7. /\ DOMAIN r.cand = DOMAIN ar.cand
        /\ \A x \in DOMAIN ar.cand : r.cand[x] = ar.cand[x] /\ BarredIn(r, x) = BarredIn(ar, x)
    BY <2>2, <2>6 DEF Saved, Same
  <2>8. BestMean(r) = BestMean(ar)
    BY <2>1, <2>6, <2>7, SameBestMean
  <2>9. ASSUME NEW t \in Tasks PROVE Ranks(r.ptb[t], ar.ptb[t])
    <3>1. \A x \in DOMAIN ar.cand : <<x, t>> \in r.bars <=> <<x, t>> \in ar.bars
      BY <2>7 DEF BarredIn
    <3>2. Unbarred(r, t) = Unbarred(ar, t)
      BY <2>7, <3>1 DEF Unbarred
    <3>3. Deployable(r, t) = Deployable(ar, t)
      BY <2>1, <2>6 DEF Deployable
    <3>4. Contenders(r, t) = Contenders(ar, t)
      <4>1. \A x \in Unbarred(ar, t) : r.cand[x].traces[t] = ar.cand[x].traces[t]
        BY <2>7 DEF Unbarred
      <4>2. QED
        BY <3>2, <3>3, <4>1 DEF Contenders
    <3>5. QED
      BY <2>1, <2>6, <3>4, SameContenders
  <2>10. QED
    BY <2>1, <2>6, <2>8, <2>9 DEF r
<1>2. QED
  BY <1>1, Invariant, RankInvariant, PTL
=============================================================================
