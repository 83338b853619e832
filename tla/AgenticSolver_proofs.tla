------------------------ MODULE AgenticSolver_proofs ------------------------
(***************************************************************************)
(* Proofs about solvers that share a client, for any number of callers,    *)
(* turns, retries and failed appends, and any budget and cap.              *)
(***************************************************************************)
EXTENDS AgenticSolver, FiniteSetTheorems, TLAPS

-----------------------------------------------------------------------------
(* Sums over a finite set, from the well-foundedness of the inclusion of   *)
(* finite sets: the least set a fact fails for cannot exist.               *)

Any(s) == CHOOSE x \in s : TRUE

\* g gives every subset of A its sum, element by element.
Adds(f, g, A) == g = [s \in SUBSET A |-> IF s = {} THEN 0 ELSE f[Any(s)] + g[s \ {Any(s)}]]

LEMMA SmallestSubset ==
    ASSUME NEW S, IsFiniteSet(S), NEW F \in SUBSET SUBSET S, F # {}
    PROVE  \E T \in F : \A U \in F : U \subseteq T => U = T
<1>1. F \in SUBSET FiniteSubsetsOf(S)
  BY FS_FiniteSubsetsOfFinite
<1>2. \E T \in F : \A U \in F : ~ (<<U, T>> \in StrictSubsetOrdering(S))
  BY <1>1, FS_StrictSubsetOrderingWellFounded, WFMin
<1>3. QED
  BY <1>1, <1>2 DEF StrictSubsetOrdering, FiniteSubsetsOf

LEMMA AddsAgree ==
    ASSUME NEW f, NEW A, IsFiniteSet(A), NEW B \in SUBSET A,
           NEW g, Adds(f, g, A), NEW h, Adds(f, h, B)
    PROVE  \A s \in SUBSET B : g[s] = h[s]
<1> DEFINE F == {s \in SUBSET B : g[s] # h[s]}
<1>1. SUFFICES ASSUME F # {} PROVE FALSE
  OBVIOUS
<1>2. IsFiniteSet(B)
  BY FS_Subset
<1>3. PICK T \in F : \A U \in F : U \subseteq T => U = T
  <2> HIDE DEF F
  <2>1. F \in SUBSET SUBSET B
    BY DEF F
  <2>2. QED
    BY <1>1, <1>2, <2>1, SmallestSubset
<1>4. CASE T = {}
  BY <1>4 DEF Adds
<1>5. CASE T # {}
  <2>1. Any(T) \in T
    BY <1>5 DEF Any
  <2>2. T \ {Any(T)} \in SUBSET B /\ T \ {Any(T)} \notin F
    BY <1>3, <2>1
  <2>3. g[T \ {Any(T)}] = h[T \ {Any(T)}]
    BY <2>2
  <2>4. g[T] = f[Any(T)] + g[T \ {Any(T)}] /\ h[T] = f[Any(T)] + h[T \ {Any(T)}]
    BY <1>5 DEF Adds
  <2>5. QED
    BY <2>3, <2>4
<1>6. QED
  BY <1>4, <1>5

LEMMA AddsExists ==
    ASSUME NEW f, NEW A, IsFiniteSet(A)
    PROVE  \E g : Adds(f, g, A)
<1> DEFINE F == {s \in SUBSET A : ~ \E g : Adds(f, g, s)}
<1>1. SUFFICES ASSUME F # {} PROVE FALSE
  OBVIOUS
<1>2. PICK T \in F : \A U \in F : U \subseteq T => U = T
  <2> HIDE DEF F
  <2>1. F \in SUBSET SUBSET A
    BY DEF F
  <2>2. QED
    BY <1>1, <2>1, SmallestSubset
<1> DEFINE h(U) == CHOOSE g : Adds(f, g, U)
           g == [s \in SUBSET T |->
                   IF s = {} THEN 0 ELSE f[Any(s)] + h(s \ {Any(s)})[s \ {Any(s)}]]
<1>3. ASSUME NEW U \in SUBSET T, U # T PROVE Adds(f, h(U), U)
  <2>1. \E k : Adds(f, k, U)
    BY <1>2, <1>3
  <2>2. QED
    BY <2>1
<1>4. ASSUME NEW s \in SUBSET T, s # {} PROVE g[s \ {Any(s)}] = h(s \ {Any(s)})[s \ {Any(s)}]
  <2> DEFINE U == s \ {Any(s)}
  <2>1. Any(s) \in s
    BY <1>4 DEF Any
  <2>2. U \in SUBSET T /\ U # T
    BY <2>1
  <2>3. Adds(f, h(U), U)
    BY <1>3, <2>2
  <2>4. CASE U = {}
    BY <2>3, <2>4 DEF Adds
  <2>5. CASE U # {}
    <3> DEFINE V == U \ {Any(U)}
    <3>1. Any(U) \in U
      BY <2>5 DEF Any
    <3>2. V \in SUBSET U /\ V # T /\ V \in SUBSET T
      BY <2>2, <3>1
    <3>3. Adds(f, h(V), V)
      BY <1>3, <3>2
    <3>4. IsFiniteSet(U)
      BY <2>2, FS_Subset
    <3>5. h(U)[V] = h(V)[V]
      <4> HIDE DEF h, U, V
      <4> QED
        BY <2>3, <3>2, <3>3, <3>4, AddsAgree
    <3>6. h(U)[U] = f[Any(U)] + h(U)[V]
      <4> HIDE DEF h, U
      <4> QED
        BY <2>3, <2>5 DEF Adds
    <3>7. g[U] = f[Any(U)] + h(V)[V]
      BY <2>2, <2>5
    <3>8. QED
      BY <3>5, <3>6, <3>7
  <2>6. QED
    BY <2>4, <2>5
<1>5. Adds(f, g, T)
  <2>1. \A s \in SUBSET T : g[s] = IF s = {} THEN 0 ELSE f[Any(s)] + g[s \ {Any(s)}]
    <3> TAKE s \in SUBSET T
    <3>1. CASE s = {}
      BY <3>1
    <3>2. CASE s # {}
      <4>1. g[s] = f[Any(s)] + h(s \ {Any(s)})[s \ {Any(s)}]
        BY <3>2
      <4>2. g[s \ {Any(s)}] = h(s \ {Any(s)})[s \ {Any(s)}]
        BY <1>4, <3>2
      <4> HIDE DEF g, h
      <4>3. QED
        BY <3>2, <4>1, <4>2
    <3>3. QED
      BY <3>1, <3>2
  <2>2. g = [s \in SUBSET T |-> g[s]]
    OBVIOUS
  <2> HIDE DEF g
  <2>3. QED
    BY <2>1, <2>2 DEF Adds
<1>6. QED
  <2> HIDE DEF g
  <2> QED
    BY <1>2, <1>5

Sum(f, S) == SumFunctionOnSet(f, S)

LEMMA SumIsAny ==
    ASSUME NEW f, NEW A, IsFiniteSet(A)
    PROVE  Sum(f, A) = IF A = {} THEN 0 ELSE f[Any(A)] + Sum(f, A \ {Any(A)})
<1> DEFINE h(U) == CHOOSE g : Adds(f, g, U)
<1>1. \A U \in SUBSET A : IsFiniteSet(U) /\ Adds(f, h(U), U)
  <2> TAKE U \in SUBSET A
  <2>1. IsFiniteSet(U)
    BY FS_Subset
  <2>2. \E g : Adds(f, g, U)
    BY <2>1, AddsExists
  <2>3. QED
    BY <2>1, <2>2
<1>2. \A U \in SUBSET A : Sum(f, U) = h(U)[U]
  BY DEF Sum, SumFunctionOnSet, FoldFunctionOnSet, MapThenFoldSet, Adds, Any
<1> HIDE DEF h
<1>3. CASE A = {}
  BY <1>1, <1>2, <1>3 DEF Adds
<1>4. CASE A # {}
  <2> DEFINE V == A \ {Any(A)}
  <2>1. V \in SUBSET A
    OBVIOUS
  <2>2. h(A)[A] = f[Any(A)] + h(A)[V]
    BY <1>1, <1>4 DEF Adds
  <2>3. h(A)[V] = h(V)[V]
    <3>1. Adds(f, h(A), A) /\ Adds(f, h(V), V) /\ V \in SUBSET V
      BY <1>1, <2>1
    <3> HIDE DEF V
    <3>2. QED
      BY <2>1, <3>1, AddsAgree
  <2>4. QED
    BY <1>2, <1>4, <2>1, <2>2, <2>3
<1>5. QED
  BY <1>3, <1>4

LEMMA SumIsInt ==
    ASSUME NEW A, IsFiniteSet(A), NEW f \in [A -> Int]
    PROVE  \A s \in SUBSET A : Sum(f, s) \in Int
<1> DEFINE F == {s \in SUBSET A : Sum(f, s) \notin Int}
<1>1. SUFFICES ASSUME F # {} PROVE FALSE
  OBVIOUS
<1>2. PICK T \in F : \A U \in F : U \subseteq T => U = T
  <2> HIDE DEF F
  <2>1. F \in SUBSET SUBSET A
    BY DEF F
  <2>2. QED
    BY <1>1, <2>1, SmallestSubset
<1>3. Sum(f, T) = IF T = {} THEN 0 ELSE f[Any(T)] + Sum(f, T \ {Any(T)})
  <2>1. IsFiniteSet(T)
    BY <1>2, FS_Subset
  <2>2. QED
    BY <2>1, SumIsAny
<1>4. T # {}
  BY <1>2, <1>3
<1>5. Any(T) \in T
  BY <1>4 DEF Any
<1>6. T \ {Any(T)} \in SUBSET A /\ T \ {Any(T)} \notin F
  BY <1>2, <1>5
<1>7. Sum(f, T \ {Any(T)}) \in Int /\ f[Any(T)] \in Int
  BY <1>5, <1>6
<1>8. QED
  BY <1>2, <1>3, <1>4, <1>7

\* The order of a sum is immaterial.
LEMMA SumRemove ==
    ASSUME NEW A, IsFiniteSet(A), NEW f \in [A -> Int]
    PROVE  \A s \in SUBSET A : \A x \in s : Sum(f, s) = f[x] + Sum(f, s \ {x})
<1> DEFINE F == {s \in SUBSET A : \E x \in s : Sum(f, s) # f[x] + Sum(f, s \ {x})}
<1>1. SUFFICES ASSUME F # {} PROVE FALSE
  OBVIOUS
<1>2. PICK T \in F : \A U \in F : U \subseteq T => U = T
  <2> HIDE DEF F
  <2>1. F \in SUBSET SUBSET A
    BY DEF F
  <2>2. QED
    BY <1>1, <2>1, SmallestSubset
<1>3. PICK x \in T : Sum(f, T) # f[x] + Sum(f, T \ {x})
  BY <1>2
<1> DEFINE a == Any(T)
<1>4. a \in T
  BY <1>3 DEF Any
<1>5. Sum(f, T) = f[a] + Sum(f, T \ {a})
  <2>1. IsFiniteSet(T)
    BY <1>2, FS_Subset
  <2>2. QED
    BY <1>3, <2>1, SumIsAny
<1> HIDE DEF a
<1>6. a # x
  BY <1>3, <1>5
<1>7. Sum(f, T \ {a}) = f[x] + Sum(f, (T \ {a}) \ {x})
  <2>1. T \ {a} \in SUBSET A /\ T \ {a} \notin F /\ x \in T \ {a}
    BY <1>2, <1>4, <1>6
  <2>2. QED
    BY <2>1
<1>8. Sum(f, T \ {x}) = f[a] + Sum(f, (T \ {x}) \ {a})
  <2>1. T \ {x} \in SUBSET A /\ T \ {x} \notin F /\ a \in T \ {x}
    BY <1>2, <1>4, <1>6
  <2>2. QED
    BY <2>1
<1>9. Sum(f, T \ {x}) = f[a] + Sum(f, (T \ {a}) \ {x})
  <2>1. (T \ {x}) \ {a} = (T \ {a}) \ {x}
    OBVIOUS
  <2>2. QED
    BY <1>8, <2>1
<1>10. f[a] \in Int /\ f[x] \in Int /\ Sum(f, (T \ {a}) \ {x}) \in Int
  BY <1>4, SumIsInt
<1>11. Sum(f, T) = f[x] + Sum(f, T \ {x})
  BY <1>5, <1>7, <1>9, <1>10
<1>12. QED
  BY <1>3, <1>11

LEMMA SumIsMonotone ==
    ASSUME NEW A, IsFiniteSet(A), NEW f \in [A -> Int], NEW g \in [A -> Int]
    PROVE  \A s \in SUBSET A : (\A x \in s : f[x] <= g[x]) => Sum(f, s) <= Sum(g, s)
<1> DEFINE F == {s \in SUBSET A : (\A x \in s : f[x] <= g[x]) /\ ~ (Sum(f, s) <= Sum(g, s))}
<1>1. SUFFICES ASSUME F # {} PROVE FALSE
  OBVIOUS
<1>2. PICK T \in F : \A U \in F : U \subseteq T => U = T
  <2> HIDE DEF F
  <2>1. F \in SUBSET SUBSET A
    BY DEF F
  <2>2. QED
    BY <1>1, <2>1, SmallestSubset
<1> DEFINE a == Any(T)
<1>3. /\ Sum(f, T) = IF T = {} THEN 0 ELSE f[a] + Sum(f, T \ {a})
      /\ Sum(g, T) = IF T = {} THEN 0 ELSE g[a] + Sum(g, T \ {a})
  <2>1. IsFiniteSet(T)
    BY <1>2, FS_Subset
  <2>2. QED
    BY <2>1, SumIsAny
<1>4. T # {}
  BY <1>2, <1>3
<1>5. a \in T
  BY <1>4 DEF Any
<1> HIDE DEF a
<1>6. Sum(f, T \ {a}) <= Sum(g, T \ {a})
  <2>1. T \ {a} \in SUBSET A /\ T \ {a} \notin F /\ \A x \in T \ {a} : f[x] <= g[x]
    BY <1>2, <1>5
  <2>2. QED
    BY <2>1
<1>7. /\ f[a] \in Int /\ g[a] \in Int /\ f[a] <= g[a]
      /\ Sum(f, T \ {a}) \in Int /\ Sum(g, T \ {a}) \in Int
  BY <1>2, <1>5, SumIsInt
<1>8. Sum(f, T) <= Sum(g, T)
  BY <1>3, <1>4, <1>6, <1>7
<1>9. QED
  BY <1>2, <1>8

\* A sum changes as its one changed term does.
LEMMA SumChanges ==
    ASSUME NEW A, IsFiniteSet(A), NEW f \in [A -> Int], NEW g \in [A -> Int],
           NEW x \in A, \A y \in A \ {x} : f[y] = g[y]
    PROVE  Sum(g, A) = Sum(f, A) - f[x] + g[x]
<1>1. /\ Sum(f, A) = f[x] + Sum(f, A \ {x})
      /\ Sum(g, A) = g[x] + Sum(g, A \ {x})
  BY SumRemove
<1>2. /\ Sum(f, A \ {x}) <= Sum(g, A \ {x})
      /\ Sum(g, A \ {x}) <= Sum(f, A \ {x})
  <2>1. \A y \in A \ {x} : f[y] <= g[y] /\ g[y] <= f[y]
    OBVIOUS
  <2>2. A \ {x} \in SUBSET A
    OBVIOUS
  <2>3. QED
    BY <2>1, <2>2, SumIsMonotone
<1>3. /\ f[x] \in Int /\ g[x] \in Int
      /\ Sum(f, A \ {x}) \in Int /\ Sum(g, A \ {x}) \in Int
  BY SumIsInt
<1>4. QED
  BY <1>1, <1>2, <1>3

LEMMA SumFunctionChanges ==
    ASSUME NEW A, IsFiniteSet(A), NEW f \in [A -> Int], NEW g \in [A -> Int],
           NEW x \in A, \A y \in A \ {x} : f[y] = g[y]
    PROVE  SumFunction(f) \in Int /\ SumFunction(g) = SumFunction(f) - f[x] + g[x]
<1>1. SumFunction(f) = Sum(f, A) /\ SumFunction(g) = Sum(g, A)
  BY DEF SumFunction, Sum
<1>2. Sum(f, A) \in Int
  BY SumIsInt
<1>3. QED
  BY <1>1, <1>2, SumChanges

LEMMA SumFunctionIsInt ==
    ASSUME NEW A, IsFiniteSet(A), NEW f \in [A -> Int]
    PROVE  SumFunction(f) \in Int
<1>1. SumFunction(f) = Sum(f, A)
  BY DEF SumFunction, Sum
<1>2. QED
  BY <1>1, SumIsInt

LEMMA SumOfZeros ==
    ASSUME NEW A, IsFiniteSet(A)
    PROVE  SumFunction([a \in A |-> 0]) = 0
<1> DEFINE f == [a \in A |-> 0]
           F == {s \in SUBSET A : Sum(f, s) # 0}
<1>1. SumFunction(f) = Sum(f, A)
  BY DEF SumFunction, Sum
<1>2. SUFFICES ASSUME F # {} PROVE FALSE
  BY <1>1
<1>3. PICK T \in F : \A U \in F : U \subseteq T => U = T
  <2> HIDE DEF F
  <2>1. F \in SUBSET SUBSET A
    BY DEF F
  <2>2. QED
    BY <1>2, <2>1, SmallestSubset
<1> DEFINE a == Any(T)
<1>4. Sum(f, T) = IF T = {} THEN 0 ELSE f[a] + Sum(f, T \ {a})
  BY <1>3, FS_Subset, SumIsAny
<1>5. T # {} => a \in T /\ a \in A
  BY <1>3 DEF Any
<1> HIDE DEF a
<1>6. T # {} => f[a] = 0 /\ Sum(f, T \ {a}) = 0
  <2>1. ASSUME T # {} PROVE T \ {a} \notin F /\ T \ {a} \in SUBSET A
    BY <1>3, <1>5, <2>1
  <2>2. QED
    BY <1>5, <2>1
<1>7. Sum(f, T) = 0
  BY <1>4, <1>6
<1>8. QED
  BY <1>3, <1>7

-----------------------------------------------------------------------------
(* The invariant.  Of a loop: what it has spent is bounded by where it is, *)
(* and a pending completion was declared by the last answer.               *)

USE ClientAssumption, SolverAssumption DEF ClientAssumption, SolverAssumption

Spend(l) == l.total + l.inner

Sound(l) ==
    /\ l.pending \/ l.pc = "declare" => l.streak >= 1
    /\ l.pc # "done" => l.stop = "none"
    /\ l.stop = "confirmed" => l.streak = 2 /\ l.best # NoScore
    /\ l.pc = "summary" => Spend(l) < SpendBudget
    /\ l.pc = "turn" => Spend(l) < SpendBudget + 2 * MaxCost
    /\ l.pc \in {"declare", "work"} => Spend(l) < SpendBudget + 4 * MaxCost
    /\ Spend(l) < SpendBudget + 4 * MaxCost + MaxInner

LoopsAreSound == \A s \in Solvers : Sound(loop[s])

\* Of a call: what it holds depends on where it is, and a solver has one in
\* flight exactly while its loop awaits one.
Held(r) == r.first + r.tokens

CallsAreSound ==
    /\ \A c \in Callers :
          /\ call[c].st # "returned" => call[c].tokens = 0
          /\ call[c].st \in {"idle", "returned"} => call[c].first = 0
          /\ ~call[c].escalated => call[c].first = 0
    /\ \A s \in Solvers : call[s].st = "idle" <=> loop[s].pc \notin {"summary", "turn"}

\* Of the day: a request in flight may still add its cost to a ledger that
\* was below the threshold when it was admitted.
Flying == {c \in Callers : call[c].st = "flying"}

CapIsKept ==
    /\ spent = ledger + unread
    /\ spent + Cardinality(Flying) * MaxCost
           <= Threshold - 1 + Cardinality(Callers) * MaxCost + unread

\* Of the usage: a call that gave up owes at most what it lapsed with.
Owed(r) == Held(r) - (IF r.st \in {"raised", "halted"} THEN MaxCost ELSE 0)

Totals == [s \in Solvers |-> loop[s].total]
Holdings == [c \in Callers |-> Held(call[c])]
Debts == [c \in Callers |-> Owed(call[c])]

UsageIsKept ==
    /\ SumFunction(Totals) + SumFunction(Holdings) <= usage
    /\ usage <= SumFunction(Totals) + SumFunction(Debts) + lapsed * MaxCost

IInv == TypeOK /\ LoopsAreSound /\ CallsAreSound /\ CapIsKept /\ UsageIsKept

-----------------------------------------------------------------------------
(* The loops *)

LStates == {l \in LoopStates : Sound(l)}

\* What Continue and End are applied to.
Going(l) ==
    /\ l \in LoopStates
    /\ l.pending => l.streak >= 1
    /\ l.stop = "none"
    /\ Spend(l) < SpendBudget + 4 * MaxCost + MaxInner

LEMMA ContinueIsSound ==
    ASSUME NEW l, Going(l)
    PROVE  Continue(l) \subseteq LStates
<1> SUFFICES ASSUME NEW f \in l.fill..2
             PROVE  [l EXCEPT !.pc = "top", !.msgs = @ + 2, !.fill = f] \in LStates
  BY DEF Continue
<1> DEFINE m == [l EXCEPT !.pc = "top", !.msgs = @ + 2, !.fill = f]
<1>1. m \in LoopStates
  <2>1. l \in LoopStates
    BY DEF Going
  <2>2. f \in 0..2 /\ l.msgs + 2 \in Nat
    BY <2>1 DEF LoopStates
  <2>3. QED
    BY <2>1, <2>2 DEF LoopStates, PCs
<1>2. Sound(m)
  BY DEF Going, LoopStates, Sound, Spend
<1>3. QED
  BY <1>1, <1>2 DEF LStates

LEMMA EndIsSound ==
    ASSUME NEW l, Going(l), NEW why \in Stops,
           why = "confirmed" => l.streak = 2 /\ l.best # NoScore
    PROVE  End(l, why) \in LStates
<1>1. End(l, why) \in LoopStates
  BY DEF Going, LoopStates, PCs, End
<1>2. Sound(End(l, why))
  BY DEF Going, LoopStates, Sound, Spend, End
<1>3. QED
  BY <1>1, <1>2 DEF LStates

LEMMA WithdrawnIsGoing ==
    ASSUME NEW l \in LoopStates, l.stop = "none",
           Spend(l) < SpendBudget + 4 * MaxCost + MaxInner
    PROVE  Going(Withdrawn(l))
BY DEF Going, LoopStates, Withdrawn, Spend

LEMMA DeclaredIsSound ==
    ASSUME NEW l, Going(l), l.streak >= 1
    PROVE  Declared(l) \subseteq LStates
<1>1. CASE l.turn = MaxTurns
  <2>1. End(l, "max_turns_unconfirmed_complete") \in LStates
    BY EndIsSound DEF Stops
  <2>2. QED
    BY <1>1, <2>1 DEF Declared
<1>2. CASE l.turn # MaxTurns
  <2>1. Going([l EXCEPT !.pending = TRUE])
    BY DEF Going, LoopStates, Spend
  <2>2. QED
    BY <1>2, <2>1, ContinueIsSound DEF Declared
<1>3. QED
  BY <1>1, <1>2

\* What an answer makes of the loop, when the streak already counts it.
LEMMA ReadIsSound ==
    ASSUME NEW l \in LoopStates, l.stop = "none", Spend(l) < SpendBudget + 4 * MaxCost,
           NEW p, p.complete \in BOOLEAN, p.code \in BOOLEAN,
           p.complete => l.streak >= 1,
           p.complete /\ l.pending => l.streak = 2
    PROVE  Read(l, p) \subseteq LStates
<1>1. Spend(l) \in Nat /\ Spend(l) < SpendBudget + 4 * MaxCost + MaxInner
  BY DEF LoopStates, Spend
<1>2. Going(Withdrawn(l))
  BY <1>1, WithdrawnIsGoing
<1>3. CASE p.complete /\ l.pending
  <2>1. Going(l)
    BY <1>1, <1>3 DEF Going
  <2>2. Read(l, p) = Confirmed(l)
    BY <1>3 DEF Read, LoopStates
  <2>3. CASE l.best # NoScore
    <3>1. End(l, "confirmed") \in LStates
      BY <1>3, <2>1, <2>3, EndIsSound DEF Stops
    <3>2. QED
      BY <2>2, <2>3, <3>1 DEF Confirmed
  <2>4. CASE l.best = NoScore
    BY <1>2, <2>2, <2>4, ContinueIsSound DEF Confirmed
  <2>5. QED
    BY <2>3, <2>4
<1>4. CASE p.complete /\ ~l.pending /\ p.code
  <2>1. Read(l, p) = {[l EXCEPT !.pc = "declare"]}
    BY <1>4 DEF Read, LoopStates
  <2>2. [l EXCEPT !.pc = "declare"] \in LoopStates
    BY DEF LoopStates, PCs
  <2>3. Sound([l EXCEPT !.pc = "declare"])
    BY <1>1, <1>4 DEF LoopStates, Sound, Spend
  <2>4. QED
    BY <2>1, <2>2, <2>3 DEF LStates
<1>5. CASE p.complete /\ ~l.pending /\ ~p.code
  <2>1. Read(l, p) = Declared(l)
    BY <1>5 DEF Read, LoopStates
  <2>2. Going(l)
    BY <1>1, <1>5 DEF Going
  <2>3. QED
    BY <1>5, <2>1, <2>2, DeclaredIsSound
<1>6. CASE ~p.complete /\ p.code
  <2> DEFINE m == [Withdrawn(l) EXCEPT !.pc = "work"]
  <2>1. Read(l, p) = {m}
    BY <1>6 DEF Read, LoopStates
  <2>2. m \in LoopStates
    BY DEF LoopStates, PCs, Withdrawn
  <2>3. Sound(m)
    BY <1>1 DEF LoopStates, Sound, Spend, Withdrawn
  <2>4. QED
    BY <2>1, <2>2, <2>3 DEF LStates
<1>7. CASE ~p.complete /\ ~p.code
  <2>1. Read(l, p) = Codeless(l)
    BY <1>7 DEF Read, LoopStates
  <2>2. QED
    BY <1>2, <2>1, ContinueIsSound DEF Codeless
<1>8. QED
  BY <1>3, <1>4, <1>5, <1>6, <1>7 DEF LoopStates

LEMMA ExecutedIsGoing ==
    ASSUME NEW l \in LStates, l.pc \in {"declare", "work"},
           NEW score \in Outcomes, NEW cost \in 0..MaxInner
    PROVE  Going(Executed(l, score, cost)) /\ Executed(l, score, cost).streak = l.streak
<1> DEFINE m == Executed(l, score, cost)
<1>1. m \in LoopStates
  <2>1. l \in LoopStates
    BY DEF LStates
  <2> DEFINE b == IF Higher(score, l.best) THEN score ELSE l.best
  <2>2. l.inner + cost \in Nat /\ b \in Outcomes
    BY <2>1 DEF LoopStates
  <2>3. m = [l EXCEPT !.inner = l.inner + cost, !.best = b]
    BY DEF Executed
  <2> HIDE DEF b, m
  <2>4. QED
    BY <2>1, <2>2, <2>3 DEF LoopStates
<1>2. m.streak = l.streak /\ m.pending = l.pending /\ m.stop = l.stop
  BY DEF LStates, LoopStates, Executed
<1>3. Spend(m) = Spend(l) + cost
  BY DEF LStates, LoopStates, Executed, Spend
<1>4. Spend(l) \in Nat /\ Spend(l) < SpendBudget + 4 * MaxCost
  BY DEF LStates, LoopStates, Sound, Spend
<1>5. QED
  BY <1>1, <1>2, <1>3, <1>4 DEF Going, LStates, Sound

LInv == loop \in [Solvers -> LoopStates] /\ LoopsAreSound

LEMMA MovesAreSound ==
    ASSUME LInv, NEW s \in Solvers, NEW outcomes \in SUBSET LStates, Moves(s, outcomes)
    PROVE  LInv'
<1>1. PICK l \in outcomes : loop' = [loop EXCEPT ![s] = l]
  BY DEF Moves
<1>2. l \in LoopStates /\ Sound(l)
  BY DEF LStates
<1>3. loop' \in [Solvers -> LoopStates]
  BY <1>1, <1>2 DEF LInv
<1>4. \A t \in Solvers : loop'[t] = IF t = s THEN l ELSE loop[t]
  BY <1>1 DEF LInv
<1>5. LoopsAreSound'
  BY <1>2, <1>4 DEF LInv, LoopsAreSound
<1>6. QED
  BY <1>3, <1>5 DEF LInv

LEMMA SmallerOfTwo ==
    ASSUME NEW n \in Nat
    PROVE  Min({n, 2}) = IF n < 2 THEN n ELSE 2
<1> DEFINE least == IF n < 2 THEN n ELSE 2
<1>1. least \in {n, 2} /\ \A y \in {n, 2} : least <= y
  OBVIOUS
<1>2. \A x \in {n, 2} : (\A y \in {n, 2} : x <= y) => x = least
  OBVIOUS
<1>3. QED
  BY <1>1, <1>2 DEF Min

LEMMA ParseGivesFlags ==
    ASSUME NEW r \in Replies
    PROVE  ParseResponse(r).complete \in BOOLEAN /\ ParseResponse(r).code \in BOOLEAN
BY DEF Replies, ParseResponse

LEMMA LoopStep ==
    ASSUME TypeOK, LInv, NEW s \in Solvers, Step(s)
    PROVE  LInv'
<1> DEFINE l == loop[s]
<1>1. l \in LoopStates /\ Sound(l) /\ l \in LStates /\ s \in Callers
  BY DEF LInv, LoopsAreSound, LStates
<1>2. call[s].tokens \in 0..(2 * MaxCost)
  BY <1>1 DEF TypeOK, ClientTypeOK
<1>3. Spend(l) \in Nat
  BY <1>1 DEF LoopStates, Spend
<1>4. CASE ClientStep(s) /\ UNCHANGED loop
  BY <1>4 DEF LInv, LoopsAreSound
<1>5. CASE Top(s)
  <2>1. l.pc = "top" /\ Going(l)
    BY <1>1, <1>5 DEF Top, Going, Sound
  <2>2. \A why \in Stops \ {"confirmed"} : {End(l, why)} \subseteq LStates
    BY <2>1, EndIsSound
  <2>3. CASE l.turn = MaxTurns
    <3>1. Exhausted(l) \in Stops \ {"confirmed"}
      BY DEF Exhausted, Stops
    <3>2. Moves(s, {End(l, Exhausted(l))})
      BY <1>5, <2>3 DEF Top
    <3>3. QED
      BY <2>2, <3>1, <3>2, MovesAreSound
  <2>4. CASE l.turn # MaxTurns /\ OverSpent(l)
    <3>1. PICK why \in Stops \ {"confirmed"} : Moves(s, {End(l, why)})
      BY <1>5, <2>4 DEF Top, Stops
    <3>2. QED
      BY <2>2, <3>1, MovesAreSound
  <2>5. CASE l.turn # MaxTurns /\ ~OverSpent(l) /\ l.fill = 2
    <3>1. PICK why \in Stops \ {"confirmed"} : Moves(s, {End(l, why)})
      BY <1>5, <2>5 DEF Top, Stops
    <3>2. QED
      BY <2>2, <3>1, MovesAreSound
  <2>6. CASE l.turn # MaxTurns /\ ~OverSpent(l) /\ l.fill # 2
    <3> DEFINE m(pc) == [l EXCEPT !.turn = @ + 1, !.pc = pc]
    <3>1. Spend(l) < SpendBudget
      BY <1>1, <2>6 DEF OverSpent, Spend, LoopStates
    <3>2. ASSUME NEW pc \in {"summary", "turn"} PROVE m(pc) \in LStates
      <4>1. l.turn + 1 \in 0..MaxTurns
        BY <1>1, <2>6 DEF LoopStates
      <4>2. m(pc) \in LoopStates
        BY <1>1, <4>1 DEF LoopStates, PCs
      <4>3. Sound(m(pc))
        BY <1>1, <2>1, <3>1 DEF LoopStates, Sound, Spend
      <4>4. QED
        BY <4>2, <4>3 DEF LStates
    <3>3. PICK pc \in {"summary", "turn"} : Moves(s, {m(pc)})
      BY <1>5, <2>6 DEF Top
    <3>4. QED
      BY <3>2, <3>3, MovesAreSound
  <2>7. QED
    BY <2>3, <2>4, <2>5, <2>6
<1>6. CASE Summarized(s)
  <2> DEFINE m == [l EXCEPT !.pc = "turn"]
             n(f) == [m EXCEPT !.total = @ + call[s].tokens, !.msgs = 6, !.fill = f]
  <2>1. l.pc = "summary" /\ Spend(l) < SpendBudget
    BY <1>1, <1>6 DEF Summarized, Sound
  <2>2. m \in LStates
    BY <1>1, <2>1 DEF LStates, LoopStates, PCs, Sound, Spend
  <2>3. ASSUME NEW f \in 0..l.fill PROVE n(f) \in LStates
    <3>1. f \in 0..2 /\ l.total + call[s].tokens \in Nat
      BY <1>1, <1>2 DEF LoopStates
    <3>2. n(f) \in LoopStates
      BY <1>1, <3>1 DEF LoopStates, PCs
    <3>3. Spend(n(f)) = Spend(l) + call[s].tokens
      BY <1>1, <1>2 DEF LoopStates, Spend
    <3>4. Sound(n(f))
      BY <1>1, <1>2, <1>3, <2>1, <3>3 DEF LoopStates, Sound
    <3>5. QED
      BY <3>2, <3>4 DEF LStates
  <2>4. m.total = l.total /\ m.fill = l.fill
    BY <1>1 DEF LoopStates
  <2>5. PICK O \in {{m}, {n(f) : f \in 0..l.fill}} : Moves(s, O)
    BY <1>6, <2>4 DEF Summarized
  <2> HIDE DEF m, n
  <2>6. O \subseteq LStates
    BY <2>2, <2>3
  <2>7. QED
    BY <2>5, <2>6, MovesAreSound
<1>7. CASE TurnAnswers(s)
  <2>1. PICK r \in RepliesOf(s) :
            LET p == ParseResponse(r)
            IN  Moves(s, Read([l EXCEPT !.total = @ + call[s].tokens,
                                        !.streak = IF p.complete THEN Min({@ + 1, 2}) ELSE 0], p))
    BY <1>7 DEF TurnAnswers
  <2> DEFINE p == ParseResponse(r)
             k == IF p.complete THEN Min({l.streak + 1, 2}) ELSE 0
             m == [l EXCEPT !.total = @ + call[s].tokens, !.streak = k]
  <2>2. r \in Replies
    <3>1. [code |-> "none", analysis |-> FALSE, status |-> "none", text |-> FALSE] \in Replies
      BY DEF Replies
    <3>2. RepliesOf(s) \subseteq Replies
      <4> HIDE DEF Replies
      <4> QED
        BY <3>1 DEF RepliesOf
    <3>3. QED
      BY <3>2
  <2>3. p.complete \in BOOLEAN /\ p.code \in BOOLEAN
    BY <2>2, ParseGivesFlags
  <2>4. /\ k \in 0..2
        /\ p.complete => k >= 1
        /\ p.complete /\ l.streak >= 1 => k = 2
    <3>1. l.streak \in 0..2 /\ l.streak + 1 \in Nat
      BY <1>1 DEF LoopStates
    <3>2. QED
      BY <3>1, SmallerOfTwo
  <2>5. Moves(s, Read(m, p))
    BY <2>1
  <2> HIDE DEF p, k
  <2>6. /\ m.streak = k /\ m.pending = l.pending /\ m.stop = l.stop
        /\ Spend(m) = Spend(l) + call[s].tokens
    BY <1>1, <1>2 DEF LoopStates, Spend
  <2>7. m \in LoopStates
    <3>1. l.total + call[s].tokens \in Nat
      BY <1>1, <1>2 DEF LoopStates
    <3>2. QED
      BY <1>1, <2>4, <3>1 DEF LoopStates
  <2>8. l.pc = "turn" /\ l.stop = "none" /\ Spend(l) < SpendBudget + 2 * MaxCost
    BY <1>1, <1>7 DEF TurnAnswers, Sound
  <2>9. l.pending => l.streak >= 1
    BY <1>1 DEF Sound
  <2> HIDE DEF m
  <2>10. Spend(m) < SpendBudget + 4 * MaxCost
    BY <1>2, <1>3, <2>6, <2>8
  <2>11. Read(m, p) \subseteq LStates
    BY <2>3, <2>4, <2>6, <2>7, <2>8, <2>9, <2>10, ReadIsSound
  <2>12. QED
    BY <2>5, <2>11, MovesAreSound
<1>8. CASE TurnFails(s)
  <2>1. Going(l)
    BY <1>1, <1>8 DEF TurnFails, Going, Sound
  <2>2. End(l, "env_error") \in LStates
    BY <2>1, EndIsSound DEF Stops
  <2>3. Moves(s, {End(l, "env_error")})
    BY <1>8 DEF TurnFails
  <2>4. QED
    BY <2>2, <2>3, MovesAreSound
<1>9. CASE Halt(s)
  <2> DEFINE m == [l EXCEPT !.pc = "halted"]
  <2>1. l.pc \in {"summary", "turn"} /\ Moves(s, {m})
    BY <1>9 DEF Halt
  <2>2. m \in LoopStates
    BY <1>1 DEF LoopStates, PCs
  <2>3. Sound(m)
    BY <1>1, <2>1 DEF LoopStates, Sound, Spend
  <2>4. m \in LStates
    BY <2>2, <2>3 DEF LStates
  <2>5. QED
    BY <2>1, <2>4, MovesAreSound
<1>10. ASSUME NEW score \in Outcomes, NEW cost \in 0..MaxInner, ExecuteDeclared(s, score, cost)
       PROVE  LInv'
  <2>1. l.pc = "declare" /\ Moves(s, Declared(Executed(l, score, cost)))
    BY <1>10 DEF ExecuteDeclared
  <2>2. Going(Executed(l, score, cost)) /\ Executed(l, score, cost).streak >= 1
    BY <1>1, <2>1, ExecutedIsGoing DEF Sound
  <2>3. Declared(Executed(l, score, cost)) \subseteq LStates
    BY <2>2, DeclaredIsSound
  <2>4. QED
    BY <2>1, <2>3, MovesAreSound
<1>11. ASSUME NEW score \in Outcomes, NEW cost \in 0..MaxInner, ExecuteWork(s, score, cost)
       PROVE  LInv'
  <2> DEFINE m == Executed(l, score, cost)
  <2>1. l.pc = "work"
    BY <1>11 DEF ExecuteWork
  <2>2. PICK O \in {{End(m, "perfect_score")}, Continue(m)} : Moves(s, O)
    BY <1>11 DEF ExecuteWork
  <2>3. Going(m)
    BY <1>1, <2>1, ExecutedIsGoing
  <2> HIDE DEF m
  <2>4. O \subseteq LStates
    BY <2>3, EndIsSound, ContinueIsSound DEF Stops
  <2>5. QED
    BY <2>2, <2>4, MovesAreSound
<1>12. QED
  BY <1>4, <1>5, <1>6, <1>7, <1>8, <1>9, <1>10, <1>11 DEF Step

\* Only a solver's own steps move its loop.
LEMMA LoopsKeepTheirInvariant ==
    ASSUME TypeOK, LoopsAreSound, [Next]_vars
    PROVE  LInv'
<1>1. LInv
  BY DEF TypeOK, LInv
<1>2. CASE UNCHANGED loop
  BY <1>1, <1>2 DEF LInv, LoopsAreSound
<1>3. CASE \E s \in Solvers : Step(s)
  BY <1>1, <1>3, LoopStep
<1>4. QED
  BY <1>2, <1>3 DEF Next, Other, vars

-----------------------------------------------------------------------------
(* The calls.  Every step of the client or of a solver changes one call.   *)

CallStates == [st: States, attempt: 0..MaxRetries, first: 0..MaxCost,
               escalated: BOOLEAN, text: BOOLEAN, tokens: 0..(2 * MaxCost)]

LEMMA FreshCalls ==
    Free \in CallStates /\ [Free EXCEPT !.st = "check"] \in CallStates
<1>1. 0 \in 0..MaxRetries /\ 0 \in 0..MaxCost /\ 0 \in 0..(2 * MaxCost)
  OBVIOUS
<1>2. QED
  BY <1>1 DEF Free, CallStates, States

\* The fields of the answered calls.
LEMMA AnsweredCalls ==
    ASSUME NEW c \in Callers, call \in [Callers -> CallStates], NEW a \in Answers
    PROVE  /\ Escalated(c, a) \in CallStates
           /\ Escalated(c, a).st = "check" /\ Escalated(c, a).escalated
           /\ Escalated(c, a).first = a.tokens /\ Escalated(c, a).tokens = 0
           /\ Returned(c, a) \in CallStates
           /\ Returned(c, a).st = "returned"
           /\ Returned(c, a).first = 0 /\ Returned(c, a).tokens = call[c].first + a.tokens
<1>1. a.tokens \in 0..MaxCost /\ a.kind \in {"text", "empty", "cut"}
  BY DEF Answers
<1>2. call[c] \in CallStates
  OBVIOUS
<1>3. /\ Escalated(c, a) \in CallStates
      /\ Escalated(c, a).st = "check" /\ Escalated(c, a).escalated
      /\ Escalated(c, a).first = a.tokens /\ Escalated(c, a).tokens = 0
  <2>1. Escalated(c, a) \in CallStates
    BY <1>1, FreshCalls DEF Escalated, CallStates, States
  <2>2. Free.tokens = 0
    BY DEF Free
  <2>3. QED
    BY <2>1, <2>2, FreshCalls DEF Escalated, CallStates
<1>4. call[c].first + a.tokens \in 0..(2 * MaxCost)
  BY <1>1, <1>2 DEF CallStates
<1>5. /\ Returned(c, a) \in CallStates
      /\ Returned(c, a).st = "returned"
      /\ Returned(c, a).first = 0 /\ Returned(c, a).tokens = call[c].first + a.tokens
  <2>1. 0 \in 0..MaxCost /\ (a.kind = "text") \in BOOLEAN
    OBVIOUS
  <2>2. QED
    BY <1>2, <1>4, <2>1 DEF Returned, CallStates, States
<1>6. QED
  BY <1>3, <1>5

\* What a step may do to a call, which becomes r: admit it, give it up, ask for
\* another attempt, take an answer, or drop what it left.
Carries(c, r) ==
    r.first = call[c].first /\ r.tokens = call[c].tokens /\ r.escalated = call[c].escalated

Admitted(c, r) ==
    /\ call[c].st = "check" /\ r.st = "flying" /\ Carries(c, r)
    /\ ledger < Threshold
    /\ UNCHANGED <<usage, ledger, spent, unread, lapsed>>

GivesUp(c, r) ==
    /\ call[c].st \in {"check", "flying"} /\ r.st \in {"halted", "raised"} /\ Carries(c, r)
    /\ lapsed' = lapsed + 1 /\ usage' = usage /\ ledger' = ledger
    /\ \E cost \in 0..MaxCost : spent' = spent + cost /\ unread' = unread + cost

Retried(c, r) ==
    /\ call[c].st = "flying" /\ r.st = "check" /\ Carries(c, r)
    /\ UNCHANGED <<usage, ledger, spent, unread, lapsed>>

Answered(c, r) ==
    /\ call[c].st = "flying"
    /\ lapsed' = lapsed
    /\ \E cost \in 0..MaxCost :
          /\ usage' = usage + cost /\ spent' = spent + cost
          /\ \/ ledger' = ledger + cost /\ unread' = unread
             \/ ledger' = ledger /\ unread' = unread + cost
          /\ \/ /\ r.st = "check" /\ ~call[c].escalated /\ r.escalated
                /\ r.first = cost /\ r.tokens = 0
             \/ r.st = "returned" /\ r.first = 0 /\ r.tokens = call[c].first + cost

Requested(c, r) == Admitted(c, r) \/ GivesUp(c, r) \/ Retried(c, r) \/ Answered(c, r)

Dropped(c, r) ==
    /\ call[c].st \notin {"check", "flying"} /\ r.st \in {"idle", "check"}
    /\ r.first = 0 /\ r.tokens = 0
    /\ UNCHANGED <<usage, ledger, spent, unread, lapsed>>

Becomes(c, r) == r \in CallStates /\ call' = [call EXCEPT ![c] = r]

BooksTyped ==
    /\ usage \in Nat /\ ledger \in Nat /\ torn \in BOOLEAN /\ spent \in Nat
    /\ unread \in Nat /\ lapsed \in Nat /\ faults \in 0..MaxFaults

LEMMA ClientTypeParts == ClientTypeOK <=> call \in [Callers -> CallStates] /\ BooksTyped
BY DEF ClientTypeOK, CallStates, BooksTyped

\* A step of complete() does one of these.
LEMMA ClientMoves ==
    ASSUME ClientTypeOK, NEW c \in Callers, ClientStep(c)
    PROVE  BooksTyped' /\ \E r \in CallStates : Becomes(c, r) /\ Requested(c, r)
<1>1. call \in [Callers -> CallStates] /\ BooksTyped
  BY ClientTypeParts
<1>2. ASSUME NEW how \in States
      PROVE  LET r == [call[c] EXCEPT !.st = how]
             IN  /\ Ends(c, how) = [call EXCEPT ![c] = r]
                 /\ r \in CallStates /\ r.st = how /\ Carries(c, r)
  BY <1>1 DEF Ends, CallStates, Carries
<1>3. ASSUME NEW a \in Answers PROVE a.tokens \in 0..MaxCost /\ a.tokens \in Nat
  BY DEF Answers
<1>4. 0 \in 0..MaxCost
  OBVIOUS
<1>5. CASE Check(c)
  <2> DEFINE how == IF ledger >= Threshold THEN "halted" ELSE "flying"
             r == [call[c] EXCEPT !.st = how]
  <2>1. how \in States
    BY DEF States
  <2>2. Becomes(c, r) /\ r.st = how /\ Carries(c, r) /\ r \in CallStates
    BY <1>2, <1>5, <2>1 DEF Check, Becomes
  <2>3. BooksTyped'
    BY <1>1, <1>5 DEF Check, BooksTyped
  <2> HIDE DEF r
  <2>4. CASE ledger >= Threshold
    <3>1. spent' = spent + 0 /\ unread' = unread + 0
      BY <1>1, <1>5 DEF Check, BooksTyped
    <3>2. GivesUp(c, r)
      BY <1>4, <1>5, <2>2, <2>4, <3>1 DEF Check, GivesUp
    <3>3. QED
      BY <2>2, <2>3, <3>2 DEF Requested
  <2>5. CASE ~(ledger >= Threshold)
    <3>1. ledger < Threshold
      BY <1>1, <2>5 DEF BooksTyped
    <3>2. Admitted(c, r)
      BY <1>5, <2>2, <2>5, <3>1 DEF Check, Admitted
    <3>3. QED
      BY <2>2, <2>3, <3>2 DEF Requested
  <2>6. QED
    BY <2>4, <2>5
<1>6. ASSUME NEW a \in Answers, Answer(c, a)
      PROVE  BooksTyped' /\ \E r \in CallStates : Becomes(c, r) /\ Requested(c, r)
  <2> DEFINE r == IF Escalates(c, a) THEN Escalated(c, a) ELSE Returned(c, a)
  <2>1. /\ Escalated(c, a) \in CallStates
        /\ Escalated(c, a).st = "check" /\ Escalated(c, a).escalated
        /\ Escalated(c, a).first = a.tokens /\ Escalated(c, a).tokens = 0
        /\ Returned(c, a) \in CallStates
        /\ Returned(c, a).st = "returned"
        /\ Returned(c, a).first = 0 /\ Returned(c, a).tokens = call[c].first + a.tokens
    BY <1>1, AnsweredCalls
  <2>2. r \in CallStates
    BY <2>1
  <2>3. \/ /\ r.st = "check" /\ ~call[c].escalated /\ r.escalated
           /\ r.first = a.tokens /\ r.tokens = 0
        \/ r.st = "returned" /\ r.first = 0 /\ r.tokens = call[c].first + a.tokens
    <3>1. CASE Escalates(c, a)
      <4>1. r = Escalated(c, a) /\ ~call[c].escalated
        BY <3>1 DEF Escalates
      <4>2. QED
        BY <2>1, <4>1
    <3>2. CASE ~Escalates(c, a)
      <4>1. r = Returned(c, a)
        BY <3>2
      <4>2. QED
        BY <2>1, <4>1
    <3>3. QED
      BY <3>1, <3>2
  <2>4. call[c].st = "flying" /\ call' = [call EXCEPT ![c] = r]
        /\ lapsed' = lapsed /\ faults' = faults /\ usage' = usage + a.tokens
    BY <1>6 DEF Answer
  <2>5. /\ spent' = spent + a.tokens /\ torn' \in BOOLEAN
        /\ \/ ledger' = ledger + a.tokens /\ unread' = unread
           \/ ledger' = ledger /\ unread' = unread + a.tokens
    <3>1. Booked(a.tokens)
      BY <1>6 DEF Answer
    <3>2. CASE a.tokens = 0
      BY <1>1, <3>1, <3>2 DEF Booked, BooksTyped
    <3>3. CASE a.tokens > 0
      BY <1>1, <3>1, <3>3 DEF Booked, BooksTyped
    <3>4. QED
      BY <1>3, <3>2, <3>3
  <2> HIDE DEF r
  <2>6. BooksTyped'
    BY <1>1, <1>3, <2>4, <2>5 DEF BooksTyped
  <2>7. Answered(c, r)
    BY <1>3, <2>3, <2>4, <2>5 DEF Answered
  <2>8. QED
    BY <2>2, <2>4, <2>6, <2>7 DEF Becomes, Requested
<1>7. ASSUME NEW a \in Answers, NEW fragment \in BOOLEAN, AnswerUnbooked(c, a, fragment)
      PROVE  BooksTyped' /\ \E r \in CallStates : Becomes(c, r) /\ Requested(c, r)
  <2> DEFINE r == [call[c] EXCEPT !.st = "raised"]
  <2>1. Becomes(c, r) /\ r.st = "raised" /\ Carries(c, r) /\ r \in CallStates
    BY <1>2, <1>7 DEF AnswerUnbooked, Becomes, States
  <2>2. BooksTyped'
    BY <1>1, <1>3, <1>7 DEF AnswerUnbooked, BooksTyped
  <2> HIDE DEF r
  <2>3. GivesUp(c, r)
    BY <1>3, <1>7, <2>1 DEF AnswerUnbooked, GivesUp
  <2>4. QED
    BY <2>1, <2>2, <2>3 DEF Requested
<1>8. ASSUME NEW transient \in BOOLEAN, Fail(c, transient)
      PROVE  BooksTyped' /\ \E r \in CallStates : Becomes(c, r) /\ Requested(c, r)
  <2>1. BooksTyped'
    BY <1>1, <1>8 DEF Fail, BooksTyped
  <2>2. CASE transient /\ call[c].attempt < MaxRetries
    <3> DEFINE r == [call[c] EXCEPT !.st = "check", !.attempt = @ + 1]
    <3>1. call' = [call EXCEPT ![c] = r]
      BY <1>1, <1>8, <2>2 DEF Fail
    <3>2. call[c].attempt + 1 \in 0..MaxRetries
      BY <1>1, <2>2 DEF CallStates
    <3>3. r \in CallStates /\ r.st = "check" /\ Carries(c, r)
      BY <1>1, <3>2 DEF CallStates, States, Carries
    <3> HIDE DEF r
    <3>4. Retried(c, r)
      BY <1>8, <2>2, <3>3 DEF Fail, Retried
    <3>5. QED
      BY <2>1, <3>1, <3>3, <3>4 DEF Becomes, Requested
  <2>3. CASE ~(transient /\ call[c].attempt < MaxRetries)
    <3> DEFINE r == [call[c] EXCEPT !.st = "raised"]
    <3>1. Becomes(c, r) /\ r.st = "raised" /\ Carries(c, r) /\ r \in CallStates
      BY <1>2, <1>8, <2>3 DEF Fail, Becomes, States
    <3>2. spent' = spent + 0 /\ unread' = unread + 0
      BY <1>1, <1>8 DEF Fail, BooksTyped
    <3> HIDE DEF r
    <3>3. GivesUp(c, r)
      BY <1>4, <1>8, <2>3, <3>1, <3>2 DEF Fail, GivesUp
    <3>4. QED
      BY <2>1, <3>1, <3>3 DEF Requested
  <2>4. QED
    BY <2>2, <2>3
<1>9. QED
  BY <1>5, <1>6, <1>7, <1>8 DEF ClientStep

\* Outside complete() a solver starts or drops a call, or leaves the client
\* alone.  It books what the call returned, and nothing else.
Consumed(s) == IF call[s].st = "returned" THEN call[s].tokens ELSE 0

Awaits(l) == l.pc \in {"summary", "turn"}

Untouched(s, l) ==
    /\ UNCHANGED client
    /\ l.total = loop[s].total
    /\ ~Awaits(loop[s]) /\ ~Awaits(l)

Consumes(s, l) ==
    /\ BooksTyped'
    /\ l.total = loop[s].total + Consumed(s)
    /\ \E r \in CallStates : /\ Becomes(s, r) /\ Dropped(s, r)
                             /\ r.st = "idle" <=> ~Awaits(l)

\* A finished or an idle call gives way to none, or to a new one.
LEMMA DroppedCalls ==
    ASSUME TypeOK, NEW s \in Solvers, call[s].st \notin {"check", "flying"}, UNCHANGED books,
           NEW l, l.total = loop[s].total + Consumed(s), Consume(s), ~Awaits(l)
    PROVE  Consumes(s, l)
<1>1. BooksTyped'
  BY DEF TypeOK, ClientTypeOK, BooksTyped, books
<1>2. Free.st = "idle" /\ Free.first = 0 /\ Free.tokens = 0
  BY DEF Free
<1>3. UNCHANGED <<usage, ledger, spent, unread, lapsed>>
  BY DEF books
<1>4. Becomes(s, Free)
  BY FreshCalls DEF Becomes, Consume
<1>5. Dropped(s, Free)
  BY <1>2, <1>3 DEF Dropped
<1>6. QED
  BY <1>1, <1>2, <1>4, <1>5, FreshCalls DEF Consumes

LEMMA ReplacedCalls ==
    ASSUME TypeOK, NEW s \in Solvers, call[s].st \notin {"check", "flying"}, UNCHANGED books,
           NEW l, l.total = loop[s].total + Consumed(s), Complete(s), Awaits(l)
    PROVE  Consumes(s, l)
<1> DEFINE r == [Free EXCEPT !.st = "check"]
<1>1. BooksTyped'
  BY DEF TypeOK, ClientTypeOK, BooksTyped, books
<1>2. r \in CallStates /\ r.st = "check" /\ r.first = 0 /\ r.tokens = 0
  BY FreshCalls DEF Free
<1>3. UNCHANGED <<usage, ledger, spent, unread, lapsed>>
  BY DEF books
<1>4. Becomes(s, r)
  BY <1>2 DEF Becomes, Complete
<1> HIDE DEF r
<1>5. Dropped(s, r)
  BY <1>2, <1>3 DEF Dropped
<1>6. QED
  BY <1>1, <1>2, <1>4, <1>5 DEF Consumes

\* What becomes of a loop that does not await a call.
LEMMA OutcomesRest ==
    ASSUME NEW l \in LoopStates
    PROVE  /\ \A m \in Continue(l) : m.total = l.total /\ ~Awaits(m)
           /\ \A why \in Stops : End(l, why).total = l.total /\ ~Awaits(End(l, why))
           /\ \A m \in Declared(l) : m.total = l.total /\ ~Awaits(m)
           /\ \A p : \A m \in Read(l, p) : m.total = l.total /\ ~Awaits(m)
<1>1. \A k \in LoopStates : \A m \in Continue(k) : m.total = k.total /\ ~Awaits(m)
  BY DEF Continue, LoopStates, Awaits
<1>2. \A why \in Stops : End(l, why).total = l.total /\ ~Awaits(End(l, why))
  BY DEF End, LoopStates, Awaits
<1>3. \A m \in Declared(l) : m.total = l.total /\ ~Awaits(m)
  <2>1. [l EXCEPT !.pending = TRUE] \in LoopStates /\ [l EXCEPT !.pending = TRUE].total = l.total
    BY DEF LoopStates
  <2>2. QED
    BY <1>1, <1>2, <2>1 DEF Declared, Stops
<1>4. ASSUME NEW p, NEW m \in Read(l, p) PROVE m.total = l.total /\ ~Awaits(m)
  <2>1. Withdrawn(l) \in LoopStates /\ Withdrawn(l).total = l.total
    BY DEF Withdrawn, LoopStates
  <2>2. \A k \in Continue(Withdrawn(l)) : k.total = l.total /\ ~Awaits(k)
    BY <1>1, <2>1
  <2>3. \A k \in Confirmed(l) \cup Codeless(l) : k.total = l.total /\ ~Awaits(k)
    BY <1>2, <2>2 DEF Confirmed, Codeless, Stops
  <2>4. \A k \in {[l EXCEPT !.pc = "declare"], [Withdrawn(l) EXCEPT !.pc = "work"]} :
            k.total = l.total /\ ~Awaits(k)
    BY DEF LoopStates, Withdrawn, Awaits
  <2>5. m \in Confirmed(l) \cup Codeless(l) \cup Declared(l)
                \cup {[l EXCEPT !.pc = "declare"], [Withdrawn(l) EXCEPT !.pc = "work"]}
    BY <1>4 DEF Read
  <2>6. QED
    BY <1>3, <2>3, <2>4, <2>5
<1>5. QED
  BY <1>1, <1>2, <1>3, <1>4

\* A solver's own step.
LEMMA SolverMoves ==
    ASSUME TypeOK, CallsAreSound, LoopsAreSound, NEW s \in Solvers,
           \/ Top(s) \/ Summarized(s) \/ TurnAnswers(s) \/ TurnFails(s) \/ Halt(s)
           \/ \E score \in Outcomes, cost \in 0..MaxInner :
                 ExecuteDeclared(s, score, cost) \/ ExecuteWork(s, score, cost)
    PROVE  \E l : loop' = [loop EXCEPT ![s] = l] /\ (Untouched(s, l) \/ Consumes(s, l))
<1> DEFINE k == loop[s]
<1>1. k \in LoopStates /\ s \in Callers /\ call[s].tokens \in 0..(2 * MaxCost)
  BY DEF TypeOK, ClientTypeOK
<1>2. call[s].st = "idle" <=> ~Awaits(k)
  BY DEF CallsAreSound, Awaits
<1>4. k.total \in Nat
  BY <1>1 DEF LoopStates
<1>5. CASE Top(s)
  <2>1. ~Awaits(k) /\ call[s].st = "idle" /\ UNCHANGED books
    BY <1>2, <1>5 DEF Top, Awaits
  <2>2. ASSUME NEW why \in Stops, Moves(s, {End(k, why)}), UNCHANGED call
        PROVE  \E l : loop' = [loop EXCEPT ![s] = l] /\ (Untouched(s, l) \/ Consumes(s, l))
    <3>1. Untouched(s, End(k, why))
      BY <1>1, <2>1, <2>2, OutcomesRest DEF Untouched, client, books
    <3>2. QED
      BY <2>2, <3>1 DEF Moves
  <2>3. \/ \E why \in Stops : Moves(s, {End(k, why)}) /\ UNCHANGED call
        \/ /\ Complete(s)
           /\ \E pc \in {"summary", "turn"} : Moves(s, {[k EXCEPT !.turn = @ + 1, !.pc = pc]})
    BY <1>5 DEF Top, Stops, Exhausted
  <2>4. ASSUME Complete(s), NEW pc \in {"summary", "turn"},
               Moves(s, {[k EXCEPT !.turn = @ + 1, !.pc = pc]})
        PROVE  \E l : loop' = [loop EXCEPT ![s] = l] /\ (Untouched(s, l) \/ Consumes(s, l))
    <3> DEFINE l == [k EXCEPT !.turn = @ + 1, !.pc = pc]
    <3>1. l.total = k.total /\ Awaits(l)
      BY <1>1 DEF LoopStates, Awaits
    <3>2. l.total = loop[s].total + Consumed(s)
      BY <1>4, <2>1, <3>1 DEF Consumed
    <3> HIDE DEF l
    <3>3. call[s].st \notin {"check", "flying"}
      BY <2>1
    <3>4. Consumes(s, l)
      BY <2>1, <2>4, <3>1, <3>2, <3>3, ReplacedCalls
    <3>5. loop' = [loop EXCEPT ![s] = l]
      BY <2>4 DEF Moves, l
    <3>6. QED
      BY <3>4, <3>5
  <2>5. QED
    BY <2>2, <2>3, <2>4
<1>6. CASE Summarized(s)
  <2>1. call[s].st \in {"returned", "raised"} /\ Complete(s) /\ UNCHANGED books
    BY <1>6 DEF Summarized
  <2>2. PICK l : /\ loop' = [loop EXCEPT ![s] = l]
                 /\ l.pc = "turn" /\ l.total = k.total + Consumed(s)
    <3> DEFINE m == [k EXCEPT !.pc = "turn"]
               n(f) == [m EXCEPT !.total = @ + call[s].tokens, !.msgs = 6, !.fill = f]
    <3>1. m.pc = "turn" /\ m.total = k.total
      BY <1>1 DEF LoopStates
    <3>2. \A f : n(f).pc = "turn" /\ n(f).total = k.total + call[s].tokens
      BY <1>1 DEF LoopStates
    <3>3. CASE call[s].st = "raised"
      <4>1. loop' = [loop EXCEPT ![s] = m]
        BY <1>6, <3>3 DEF Summarized, Moves
      <4>2. Consumed(s) = 0
        BY <3>3 DEF Consumed
      <4>3. m.total = k.total + Consumed(s)
        BY <1>4, <3>1, <4>2
      <4> HIDE DEF m
      <4>4. QED
        BY <3>1, <4>1, <4>3
    <3>4. CASE call[s].st = "returned"
      <4>1. PICK f : loop' = [loop EXCEPT ![s] = n(f)]
        <5>1. Moves(s, {n(f) : f \in 0..m.fill})
          BY <1>6, <3>4 DEF Summarized
        <5> HIDE DEF n, m
        <5>2. QED
          BY <5>1 DEF Moves
      <4>2. Consumed(s) = call[s].tokens
        BY <3>4 DEF Consumed
      <4> HIDE DEF n
      <4>3. QED
        BY <3>2, <4>1, <4>2
    <3>5. QED
      BY <2>1, <3>3, <3>4
  <2>3. Awaits(l) /\ call[s].st \notin {"check", "flying"}
    BY <2>1, <2>2 DEF Awaits
  <2>4. Consumes(s, l)
    BY <2>1, <2>2, <2>3, ReplacedCalls
  <2>5. QED
    BY <2>2, <2>4
<1>7. CASE TurnAnswers(s)
  <2>1. call[s].st = "returned" /\ Consume(s) /\ UNCHANGED books
    BY <1>7 DEF TurnAnswers
  <2>2. PICK r \in RepliesOf(s) :
            LET p == ParseResponse(r)
            IN  Moves(s, Read([k EXCEPT !.total = @ + call[s].tokens,
                                        !.streak = IF p.complete THEN Min({@ + 1, 2}) ELSE 0], p))
    BY <1>7 DEF TurnAnswers
  <2> DEFINE p == ParseResponse(r)
             n == IF p.complete THEN Min({k.streak + 1, 2}) ELSE 0
             m == [k EXCEPT !.total = @ + call[s].tokens, !.streak = n]
  <2>3. Moves(s, Read(m, p))
    BY <2>2
  <2>4. n \in 0..2
    <3>1. k.streak \in 0..2 /\ k.streak + 1 \in Nat
      BY <1>1 DEF LoopStates
    <3>2. QED
      BY <3>1, SmallerOfTwo
  <2> HIDE DEF p, n
  <2>5. m \in LoopStates /\ m.total = k.total + call[s].tokens
    <3>1. k.total + call[s].tokens \in Nat
      BY <1>1, <1>4
    <3>2. QED
      BY <1>1, <2>4, <3>1 DEF LoopStates
  <2> HIDE DEF m
  <2>6. PICK l \in Read(m, p) : loop' = [loop EXCEPT ![s] = l]
    BY <2>3 DEF Moves
  <2>7. l.total = k.total + Consumed(s) /\ ~Awaits(l)
    BY <2>1, <2>5, <2>6, OutcomesRest DEF Consumed
  <2>8. Consumes(s, l)
    BY <2>1, <2>7, DroppedCalls
  <2>9. QED
    BY <2>6, <2>8
<1>8. CASE TurnFails(s)
  <2>1. /\ call[s].st = "raised" /\ Consume(s) /\ UNCHANGED books
        /\ loop' = [loop EXCEPT ![s] = End(k, "env_error")]
    BY <1>8 DEF TurnFails, Moves
  <2>2. End(k, "env_error").total = k.total /\ ~Awaits(End(k, "env_error"))
    BY <1>1, OutcomesRest DEF Stops
  <2>3. Consumed(s) = 0
    BY <2>1 DEF Consumed
  <2>4. End(k, "env_error").total = loop[s].total + Consumed(s)
    BY <1>4, <2>2, <2>3
  <2>5. Consumes(s, End(k, "env_error"))
    BY <2>1, <2>2, <2>4, DroppedCalls
  <2>6. QED
    BY <2>1, <2>5
<1>9. CASE Halt(s)
  <2> DEFINE l == [k EXCEPT !.pc = "halted"]
  <2>1. /\ call[s].st = "halted" /\ Consume(s) /\ UNCHANGED books
        /\ loop' = [loop EXCEPT ![s] = l]
    BY <1>9 DEF Halt, Moves
  <2>2. l.total = k.total /\ ~Awaits(l)
    BY <1>1 DEF LoopStates, Awaits
  <2>3. Consumed(s) = 0
    BY <2>1 DEF Consumed
  <2> HIDE DEF l
  <2>4. l.total = loop[s].total + Consumed(s)
    BY <1>4, <2>2, <2>3
  <2>5. Consumes(s, l)
    BY <2>1, <2>2, <2>4, DroppedCalls
  <2>6. QED
    BY <2>1, <2>5
<1>10. ASSUME NEW score \in Outcomes, NEW cost \in 0..MaxInner,
              ExecuteDeclared(s, score, cost) \/ ExecuteWork(s, score, cost)
       PROVE  \E l : loop' = [loop EXCEPT ![s] = l] /\ (Untouched(s, l) \/ Consumes(s, l))
  <2> DEFINE m == Executed(k, score, cost)
  <2>1. k.pc \in {"declare", "work"} /\ UNCHANGED client
    BY <1>10 DEF ExecuteDeclared, ExecuteWork
  <2>2. PICK O \in {Declared(m), {End(m, "perfect_score")}, Continue(m)} : Moves(s, O)
    BY <1>10 DEF ExecuteDeclared, ExecuteWork
  <2>3. m \in LoopStates
    BY <1>1, <2>1, ExecutedIsGoing DEF LStates, LoopsAreSound, Going
  <2>4. m.total = k.total
    BY <1>1 DEF LoopStates, Executed
  <2> HIDE DEF m
  <2>5. \A l \in O : l.total = k.total /\ ~Awaits(l)
    BY <2>2, <2>3, <2>4, OutcomesRest DEF Stops
  <2>6. \A l \in O : Untouched(s, l)
    BY <2>1, <2>5 DEF Untouched, Awaits
  <2>7. QED
    BY <2>2, <2>6 DEF Moves
<1>11. QED
  BY <1>5, <1>6, <1>7, <1>8, <1>9, <1>10

-----------------------------------------------------------------------------
(* What a step of the specification is: nothing that concerns a call, a    *)
(* request of a call, the end of a solver's call, or another caller's.     *)

Rests ==
    /\ UNCHANGED client
    /\ \/ UNCHANGED loop
       \/ \E s \in Solvers, l \in LoopStates : loop' = [loop EXCEPT ![s] = l] /\ Untouched(s, l)

Asks(c, r) == BooksTyped' /\ Becomes(c, r) /\ Requested(c, r) /\ UNCHANGED loop

Leaves(s, r, l) ==
    /\ BooksTyped' /\ Becomes(s, r) /\ Dropped(s, r)
    /\ r.st = "idle" <=> ~Awaits(l)
    /\ loop' = [loop EXCEPT ![s] = l]
    /\ l.total = loop[s].total + Consumed(s)

Begins(c, r) ==
    /\ BooksTyped' /\ Becomes(c, r) /\ Dropped(c, r)
    /\ c \notin Solvers /\ call[c].st = "idle" /\ UNCHANGED loop

LEMMA KindsOfStep ==
    ASSUME TypeOK, CallsAreSound, LoopsAreSound, [Next]_vars
    PROVE  \/ Rests
           \/ \E c \in Callers, r \in CallStates : Asks(c, r) \/ Begins(c, r)
           \/ \E s \in Solvers, r \in CallStates, l \in LoopStates : Leaves(s, r, l)
<1>1. CASE UNCHANGED vars
  BY <1>1 DEF vars, Rests
<1>2. ASSUME NEW c \in Callers, ClientStep(c), UNCHANGED loop
      PROVE  \E r \in CallStates : Asks(c, r)
  BY <1>2, ClientMoves DEF TypeOK, Asks
<1>3. ASSUME NEW c \in Callers, c \notin Solvers, call[c].st = "idle", Complete(c),
             UNCHANGED books, UNCHANGED loop
      PROVE  \E r \in CallStates : Begins(c, r)
  <2> DEFINE r == [Free EXCEPT !.st = "check"]
  <2>1. r \in CallStates /\ r.st = "check" /\ r.first = 0 /\ r.tokens = 0
    BY FreshCalls DEF Free
  <2>2. BooksTyped' /\ UNCHANGED <<usage, ledger, spent, unread, lapsed>>
    BY <1>3 DEF TypeOK, ClientTypeOK, BooksTyped, books
  <2>3. Becomes(c, r)
    BY <1>3, <2>1 DEF Becomes, Complete
  <2> HIDE DEF r
  <2>4. Dropped(c, r)
    BY <1>3, <2>1, <2>2 DEF Dropped
  <2>5. QED
    BY <1>3, <2>1, <2>2, <2>3, <2>4 DEF Begins
<1>4. ASSUME NEW s \in Solvers,
             \/ Top(s) \/ Summarized(s) \/ TurnAnswers(s) \/ TurnFails(s) \/ Halt(s)
             \/ \E score \in Outcomes, cost \in 0..MaxInner :
                   ExecuteDeclared(s, score, cost) \/ ExecuteWork(s, score, cost)
      PROVE  Rests \/ \E r \in CallStates, l \in LoopStates : Leaves(s, r, l)
  <2>1. PICK l : loop' = [loop EXCEPT ![s] = l] /\ (Untouched(s, l) \/ Consumes(s, l))
    BY <1>4, SolverMoves
  <2>2. Step(s)
    BY <1>4 DEF Step
  <2>3. loop' \in [Solvers -> LoopStates]
    BY <2>2, LoopStep DEF TypeOK, LInv
  <2>4. l \in LoopStates
    BY <2>1, <2>3 DEF TypeOK
  <2>5. CASE Untouched(s, l)
    BY <2>1, <2>4, <2>5 DEF Rests, Untouched
  <2>6. CASE Consumes(s, l)
    BY <2>1, <2>4, <2>6 DEF Consumes, Leaves
  <2>7. QED
    BY <2>1, <2>5, <2>6
<1>5. ASSUME NEW s \in Solvers, Step(s)
      PROVE  \/ Rests
             \/ \E r \in CallStates : Asks(s, r)
             \/ \E r \in CallStates, l \in LoopStates : Leaves(s, r, l)
  BY <1>2, <1>4, <1>5 DEF Step
<1>6. ASSUME NEW c \in Callers, Other(c)
      PROVE  \E r \in CallStates : Asks(c, r) \/ Begins(c, r)
  BY <1>2, <1>3, <1>6 DEF Other
<1>7. QED
  BY <1>1, <1>5, <1>6 DEF Next

LEMMA CallsStayTyped ==
    ASSUME TypeOK, NEW c \in Callers, NEW r \in CallStates, BooksTyped', Becomes(c, r)
    PROVE  /\ ClientTypeOK'
           /\ \A d \in Callers : call'[d] = IF d = c THEN r ELSE call[d]
BY ClientTypeParts DEF TypeOK, ClientTypeOK, CallStates, BooksTyped, Becomes

LEMMA TypesAreKept ==
    ASSUME TypeOK, CallsAreSound, LoopsAreSound, [Next]_vars
    PROVE  TypeOK' /\ LoopsAreSound'
<1>1. LInv'
  BY LoopsKeepTheirInvariant
<1>2. ASSUME Rests PROVE ClientTypeOK'
  BY <1>2 DEF Rests, TypeOK, ClientTypeOK, client
<1>3. ASSUME NEW c \in Callers, NEW r \in CallStates, Asks(c, r) \/ Begins(c, r)
      PROVE  ClientTypeOK'
  BY <1>3, CallsStayTyped DEF Asks, Begins
<1>4. ASSUME NEW s \in Solvers, NEW r \in CallStates, NEW l \in LoopStates, Leaves(s, r, l)
      PROVE  ClientTypeOK'
  BY <1>4, CallsStayTyped DEF Leaves
<1>5. ClientTypeOK'
  BY <1>2, <1>3, <1>4, KindsOfStep
<1>6. QED
  BY <1>1, <1>5 DEF LInv, TypeOK

SoundCall(r) ==
    /\ r.st # "returned" => r.tokens = 0
    /\ r.st \in {"idle", "returned"} => r.first = 0
    /\ ~r.escalated => r.first = 0

LEMMA CallsStaySound ==
    ASSUME TypeOK, CallsAreSound, LoopsAreSound, [Next]_vars
    PROVE  CallsAreSound'
<1>1. /\ \A c \in Callers : SoundCall(call[c])
      /\ \A s \in Solvers : call[s].st = "idle" <=> ~Awaits(loop[s])
  BY DEF CallsAreSound, SoundCall, Awaits
<1>2. SUFFICES /\ \A c \in Callers : SoundCall(call'[c])
               /\ \A s \in Solvers : call'[s].st = "idle" <=> ~Awaits(loop'[s])
  BY DEF CallsAreSound, SoundCall, Awaits
<1>3. CASE Rests
  <2>1. call' = call
    BY <1>3 DEF Rests, client
  <2>2. \A s \in Solvers : Awaits(loop'[s]) <=> Awaits(loop[s])
    BY <1>3 DEF Rests, Untouched, TypeOK
  <2>3. QED
    BY <1>1, <2>1, <2>2
<1>4. ASSUME NEW c \in Callers, NEW r \in CallStates, Asks(c, r)
      PROVE  /\ \A d \in Callers : SoundCall(call'[d])
             /\ \A s \in Solvers : call'[s].st = "idle" <=> ~Awaits(loop'[s])
  <2>1. \A d \in Callers : call'[d] = IF d = c THEN r ELSE call[d]
    BY <1>4, CallsStayTyped DEF Asks
  <2>2. SoundCall(call[c]) /\ Requested(c, r) /\ loop' = loop
    BY <1>1, <1>4 DEF Asks
  <2>3. SoundCall(r)
    <3>1. CASE Admitted(c, r)
      BY <2>2, <3>1 DEF Admitted, Carries, SoundCall
    <3>2. CASE GivesUp(c, r)
      BY <2>2, <3>2 DEF GivesUp, Carries, SoundCall
    <3>3. CASE Retried(c, r)
      BY <2>2, <3>3 DEF Retried, Carries, SoundCall
    <3>4. CASE Answered(c, r)
      BY <2>2, <3>4 DEF Answered, SoundCall
    <3>5. QED
      BY <2>2, <3>1, <3>2, <3>3, <3>4 DEF Requested
  <2>4. call[c].st # "idle" /\ r.st # "idle"
    BY <2>2 DEF Requested, Admitted, GivesUp, Retried, Answered
  <2>5. QED
    BY <1>1, <2>1, <2>2, <2>3, <2>4
<1>5. ASSUME NEW c \in Callers, NEW r \in CallStates, Dropped(c, r)
      PROVE  SoundCall(r)
  BY <1>5 DEF Dropped, SoundCall
<1>6. ASSUME NEW c \in Callers, NEW r \in CallStates, Begins(c, r)
      PROVE  /\ \A d \in Callers : SoundCall(call'[d])
             /\ \A s \in Solvers : call'[s].st = "idle" <=> ~Awaits(loop'[s])
  <2>1. \A d \in Callers : call'[d] = IF d = c THEN r ELSE call[d]
    BY <1>6, CallsStayTyped DEF Begins
  <2>2. SoundCall(r) /\ c \notin Solvers /\ loop' = loop
    BY <1>5, <1>6 DEF Begins
  <2>3. QED
    BY <1>1, <2>1, <2>2
<1>7. ASSUME NEW s \in Solvers, NEW r \in CallStates, NEW l \in LoopStates, Leaves(s, r, l)
      PROVE  /\ \A d \in Callers : SoundCall(call'[d])
             /\ \A t \in Solvers : call'[t].st = "idle" <=> ~Awaits(loop'[t])
  <2>1. \A d \in Callers : call'[d] = IF d = s THEN r ELSE call[d]
    BY <1>7, CallsStayTyped DEF Leaves
  <2>2. SoundCall(r) /\ (r.st = "idle" <=> ~Awaits(l))
    BY <1>5, <1>7 DEF Leaves
  <2>3. \A t \in Solvers : loop'[t] = IF t = s THEN l ELSE loop[t]
    BY <1>7 DEF Leaves, TypeOK
  <2>4. QED
    BY <1>1, <2>1, <2>2, <2>3
<1>8. QED
  BY <1>3, <1>4, <1>6, <1>7, KindsOfStep

-----------------------------------------------------------------------------
(* The cap *)

LEMMA FlyingIsFinite ==
    /\ IsFiniteSet(Flying) /\ Cardinality(Flying) \in Nat
    /\ Cardinality(Flying) <= Cardinality(Callers) /\ Cardinality(Callers) \in Nat
<1>1. Flying \subseteq Callers
  BY DEF Flying
<1>2. QED
  BY <1>1, FS_Subset, FS_CardinalityType

\* Each call but c keeps where it is.
LEMMA FlyingChanges ==
    ASSUME TypeOK, NEW c \in Callers, NEW r \in CallStates, BooksTyped', Becomes(c, r)
    PROVE  /\ Cardinality(Flying') \in Nat
           /\ Cardinality(Flying') <= Cardinality(Callers)
           /\ r.st # "flying" =>
                 Cardinality(Flying') = Cardinality(Flying) - (IF call[c].st = "flying" THEN 1 ELSE 0)
<1>1. Flying' = {d \in Callers : (IF d = c THEN r ELSE call[d]).st = "flying"}
  BY CallsStayTyped DEF Flying
<1>2. IsFiniteSet(Flying) /\ Cardinality(Flying) \in Nat /\ Cardinality(Callers) \in Nat
  BY FlyingIsFinite
<1>3. Flying' \subseteq Callers
  BY <1>1
<1>4. Cardinality(Flying') \in Nat /\ Cardinality(Flying') <= Cardinality(Callers)
  BY <1>3, FS_Subset, FS_CardinalityType
<1>5. ASSUME r.st # "flying"
      PROVE  Cardinality(Flying') = Cardinality(Flying) - (IF call[c].st = "flying" THEN 1 ELSE 0)
  <2>1. Flying' = Flying \ {c}
    BY <1>1, <1>5 DEF Flying
  <2>2. c \in Flying <=> call[c].st = "flying"
    BY DEF Flying
  <2>3. Cardinality(Flying \ {c})
           = IF c \in Flying THEN Cardinality(Flying) - 1 ELSE Cardinality(Flying)
    BY <1>2, FS_RemoveElement
  <2>4. QED
    BY <1>2, <2>1, <2>2, <2>3
<1>6. QED
  BY <1>4, <1>5

\* What a request may cost, a number of times.
LEMMA Multiples ==
    ASSUME NEW k \in Nat, NEW n \in Nat, NEW m \in Nat
    PROVE  /\ k * m \in Nat /\ n * m \in Nat
           /\ (n + 1) * m = n * m + m /\ (k - 1) * m = k * m - m
           /\ k <= n => k * m <= n * m
<1>1. k * m \in Nat /\ n * m \in Nat
  OBVIOUS
<1>2. (n + 1) * m = n * m + m /\ (k - 1) * m = k * m - m
  OBVIOUS
<1>3. ASSUME k <= n PROVE k * m <= n * m
  <2>1. n - k \in Nat
    BY <1>3
  <2>2. (n - k) * m \in Nat
    BY <2>1
  <2>3. (n - k) * m = n * m - k * m
    OBVIOUS
  <2>4. QED
    BY <1>1, <2>2, <2>3
<1>4. QED
  BY <1>1, <1>2, <1>3

LEMMA CapStaysKept ==
    ASSUME TypeOK, CallsAreSound, LoopsAreSound, CapIsKept, [Next]_vars
    PROVE  CapIsKept'
<1> DEFINE k == Cardinality(Flying)
           n == Cardinality(Callers)
<1>1. /\ k \in Nat /\ n \in Nat /\ k <= n
      /\ spent \in Nat /\ ledger \in Nat /\ unread \in Nat /\ MaxCost \in Nat
  BY FlyingIsFinite DEF TypeOK, ClientTypeOK
<1>2. spent = ledger + unread /\ spent + k * MaxCost <= Threshold - 1 + n * MaxCost + unread
  BY DEF CapIsKept
<1>3. k * MaxCost \in Nat /\ n * MaxCost \in Nat /\ (k - 1) * MaxCost = k * MaxCost - MaxCost
  BY <1>1, Multiples
<1>4. ASSUME UNCHANGED <<call, ledger, spent, unread>> PROVE CapIsKept'
  BY <1>4 DEF CapIsKept, Flying
<1>5. ASSUME NEW c \in Callers, NEW r \in CallStates, BooksTyped', Becomes(c, r),
             Requested(c, r)
      PROVE  CapIsKept'
  <2> DEFINE k1 == Cardinality(Flying')
  <2>1. /\ k1 \in Nat /\ k1 <= n
        /\ r.st # "flying" => k1 = k - (IF call[c].st = "flying" THEN 1 ELSE 0)
    BY <1>5, FlyingChanges
  <2>2. k1 * MaxCost \in Nat /\ k1 * MaxCost <= n * MaxCost
    BY <1>1, <2>1, Multiples
  <2>3. SUFFICES /\ spent' = ledger' + unread'
                 /\ spent' + k1 * MaxCost <= Threshold - 1 + n * MaxCost + unread'
    BY DEF CapIsKept
  <2> HIDE DEF k, k1, n
  <2>4. CASE Admitted(c, r)
    <3>1. ledger < Threshold /\ spent' = spent /\ ledger' = ledger /\ unread' = unread
      BY <2>4 DEF Admitted
    <3>2. QED
      BY <1>1, <1>2, <1>3, <2>2, <3>1
  <2>5. CASE GivesUp(c, r)
    <3>1. PICK cost \in 0..MaxCost :
              ledger' = ledger /\ spent' = spent + cost /\ unread' = unread + cost
      BY <2>5 DEF GivesUp
    <3>2. k1 = k \/ k1 = k - 1
      BY <1>1, <2>1, <2>5 DEF GivesUp
    <3>3. k1 * MaxCost = k * MaxCost \/ k1 * MaxCost = k * MaxCost - MaxCost
      BY <1>3, <3>2
    <3>4. QED
      BY <1>1, <1>2, <1>3, <2>2, <3>1, <3>3
  <2>6. CASE Retried(c, r)
    <3>1. spent' = spent /\ ledger' = ledger /\ unread' = unread
      BY <2>6 DEF Retried
    <3>2. k1 = k - 1
      BY <1>1, <2>1, <2>6 DEF Retried
    <3>3. k1 * MaxCost = k * MaxCost - MaxCost
      BY <1>3, <3>2
    <3>4. QED
      BY <1>1, <1>2, <1>3, <2>2, <3>1, <3>3
  <2>7. CASE Answered(c, r)
    <3>1. PICK cost \in 0..MaxCost :
              /\ spent' = spent + cost
              /\ \/ ledger' = ledger + cost /\ unread' = unread
                 \/ ledger' = ledger /\ unread' = unread + cost
      BY <2>7 DEF Answered
    <3>2. r.st # "flying" /\ call[c].st = "flying"
      BY <2>7 DEF Answered
    <3>3. k1 = k - 1
      BY <1>1, <2>1, <3>2
    <3>4. k1 * MaxCost = k * MaxCost - MaxCost
      BY <1>3, <3>3
    <3>5. QED
      BY <1>1, <1>2, <1>3, <2>2, <3>1, <3>4
  <2>8. QED
    BY <1>5, <2>4, <2>5, <2>6, <2>7 DEF Requested
<1>6. ASSUME NEW c \in Callers, NEW r \in CallStates, BooksTyped', Becomes(c, r), Dropped(c, r)
      PROVE  CapIsKept'
  <2>1. r.st # "flying" /\ call[c].st # "flying"
    BY <1>6 DEF Dropped
  <2>2. Cardinality(Flying') = k
    BY <1>1, <1>6, <2>1, FlyingChanges
  <2>3. spent' = spent /\ ledger' = ledger /\ unread' = unread
    BY <1>6 DEF Dropped
  <2>4. QED
    BY <1>2, <2>2, <2>3 DEF CapIsKept
<1>7. QED
  <2>1. Rests => UNCHANGED <<call, ledger, spent, unread>>
    BY DEF Rests, client
  <2>2. QED
    BY <1>4, <1>5, <1>6, <2>1, KindsOfStep DEF Asks, Begins, Leaves

-----------------------------------------------------------------------------
(* The usage *)

LEMMA FunctionsSummed ==
    ASSUME TypeOK
    PROVE  /\ IsFiniteSet(Solvers) /\ IsFiniteSet(Callers)
           /\ Totals \in [Solvers -> Int]
           /\ Holdings \in [Callers -> Int] /\ Debts \in [Callers -> Int]
<1>1. IsFiniteSet(Solvers)
  BY FS_Subset
<1>2. \A s \in Solvers : loop[s].total \in Int
  BY DEF TypeOK, LoopStates
<1>3. \A c \in Callers : Held(call[c]) \in Int /\ Owed(call[c]) \in Int
  <2> TAKE c \in Callers
  <2>1. call[c].first \in Nat /\ call[c].tokens \in Nat
    BY DEF TypeOK, ClientTypeOK
  <2>2. QED
    BY <2>1 DEF Held, Owed
<1>4. QED
  BY <1>1, <1>2, <1>3 DEF Totals, Holdings, Debts

LEMMA SumsOfCalls ==
    ASSUME TypeOK, NEW c \in Callers, NEW r \in CallStates, BooksTyped', Becomes(c, r), TypeOK'
    PROVE  /\ SumFunction(Holdings') = SumFunction(Holdings) - Held(call[c]) + Held(r)
           /\ SumFunction(Debts') = SumFunction(Debts) - Owed(call[c]) + Owed(r)
<1>1. \A d \in Callers : call'[d] = IF d = c THEN r ELSE call[d]
  BY CallsStayTyped
<1>2. /\ Holdings \in [Callers -> Int] /\ Debts \in [Callers -> Int]
      /\ Holdings' \in [Callers -> Int] /\ Debts' \in [Callers -> Int]
  <2>1. Holdings \in [Callers -> Int] /\ Debts \in [Callers -> Int]
    BY FunctionsSummed
  <2>2. \A d \in Callers : Held(call'[d]) \in Int /\ Owed(call'[d]) \in Int
    <3> TAKE d \in Callers
    <3>1. call'[d].first \in Nat /\ call'[d].tokens \in Nat
      BY DEF TypeOK, ClientTypeOK
    <3>2. QED
      BY <3>1 DEF Held, Owed
  <2>3. Holdings' \in [Callers -> Int] /\ Debts' \in [Callers -> Int]
    BY <2>2 DEF Holdings, Debts
  <2>4. QED
    BY <2>1, <2>3
<1>3. /\ \A d \in Callers \ {c} : Holdings[d] = Holdings'[d] /\ Debts[d] = Debts'[d]
      /\ Holdings[c] = Held(call[c]) /\ Holdings'[c] = Held(r)
      /\ Debts[c] = Owed(call[c]) /\ Debts'[c] = Owed(r)
  BY <1>1 DEF Holdings, Debts
<1>4. SumFunction(Holdings') = SumFunction(Holdings) - Holdings[c] + Holdings'[c]
  BY <1>2, <1>3, SumFunctionChanges
<1>5. SumFunction(Debts') = SumFunction(Debts) - Debts[c] + Debts'[c]
  BY <1>2, <1>3, SumFunctionChanges
<1>6. QED
  BY <1>3, <1>4, <1>5

LEMMA SumsOfTotals ==
    ASSUME TypeOK, NEW s \in Solvers, NEW l \in LoopStates, loop' = [loop EXCEPT ![s] = l]
    PROVE  SumFunction(Totals') = SumFunction(Totals) - loop[s].total + l.total
<1>1. \A t \in Solvers : loop'[t] = IF t = s THEN l ELSE loop[t]
  BY DEF TypeOK
<1>2. l.total \in Int
  BY DEF LoopStates
<1>3. Totals \in [Solvers -> Int] /\ IsFiniteSet(Solvers)
  BY FunctionsSummed
<1>4. Totals' \in [Solvers -> Int]
  BY <1>1, <1>2 DEF TypeOK, LoopStates, Totals
<1>5. /\ \A t \in Solvers \ {s} : Totals[t] = Totals'[t]
      /\ Totals[s] = loop[s].total /\ Totals'[s] = l.total
  BY <1>1 DEF Totals
<1>6. SumFunction(Totals') = SumFunction(Totals) - Totals[s] + Totals'[s]
  BY <1>3, <1>4, <1>5, SumFunctionChanges
<1>7. QED
  BY <1>5, <1>6

LEMMA UsageStaysKept ==
    ASSUME TypeOK, CallsAreSound, LoopsAreSound, UsageIsKept, [Next]_vars
    PROVE  UsageIsKept'
<1> DEFINE T == SumFunction(Totals)
           H == SumFunction(Holdings)
           D == SumFunction(Debts)
<1>1. TypeOK'
  BY TypesAreKept
<1>2. /\ T \in Int /\ H \in Int /\ D \in Int
      /\ usage \in Nat /\ lapsed \in Nat /\ MaxCost \in Nat /\ lapsed * MaxCost \in Nat
      /\ (lapsed + 1) * MaxCost = lapsed * MaxCost + MaxCost
  <2>1. T \in Int /\ H \in Int /\ D \in Int
    BY FunctionsSummed, SumFunctionIsInt
  <2>2. usage \in Nat /\ lapsed \in Nat /\ MaxCost \in Nat
    BY DEF TypeOK, ClientTypeOK
  <2> HIDE DEF T, H, D
  <2>3. QED
    BY <2>1, <2>2, Multiples
<1>3. T + H <= usage /\ usage <= T + D + lapsed * MaxCost
  BY DEF UsageIsKept
<1>4. CASE Rests
  <2>1. /\ call' = call /\ usage' = usage /\ lapsed' = lapsed
    BY <1>4 DEF Rests, client
  <2>2. SumFunction(Totals') = SumFunction(Totals)
    <3>1. CASE UNCHANGED loop
      BY <3>1 DEF Totals
    <3>2. ASSUME NEW s \in Solvers, NEW l \in LoopStates,
                 loop' = [loop EXCEPT ![s] = l], Untouched(s, l)
          PROVE  SumFunction(Totals') = SumFunction(Totals)
      <4>1. SumFunction(Totals') = SumFunction(Totals) - loop[s].total + l.total
        BY <3>2, SumsOfTotals
      <4>2. l.total = loop[s].total /\ l.total \in Int
        BY <3>2 DEF Untouched, LoopStates
      <4>3. QED
        BY <1>2, <4>1, <4>2
    <3>3. QED
      BY <1>4, <3>1, <3>2 DEF Rests
  <2>3. QED
    BY <1>3, <2>1, <2>2 DEF UsageIsKept, Holdings, Debts
<1>5. ASSUME NEW c \in Callers, NEW r \in CallStates, BooksTyped', Becomes(c, r)
      PROVE  /\ SumFunction(Holdings') = H - Held(call[c]) + Held(r)
             /\ SumFunction(Debts') = D - Owed(call[c]) + Owed(r)
             /\ call[c].first \in Nat /\ call[c].tokens \in Nat /\ SoundCall(call[c])
             /\ r.first \in 0..MaxCost /\ r.tokens \in Nat
             /\ call[c].first <= MaxCost
  <2>1. call[c].first \in 0..MaxCost /\ call[c].tokens \in 0..(2 * MaxCost)
    BY DEF TypeOK, ClientTypeOK
  <2>2. r.first \in 0..MaxCost /\ r.tokens \in 0..(2 * MaxCost)
    BY DEF CallStates
  <2>3. SoundCall(call[c])
    BY DEF CallsAreSound, SoundCall
  <2>4. QED
    BY <1>1, <1>5, <2>1, <2>2, <2>3, SumsOfCalls
<1>6. ASSUME NEW c \in Callers, NEW r \in CallStates, BooksTyped', Becomes(c, r),
             Requested(c, r), UNCHANGED loop
      PROVE  UsageIsKept'
  <2>1. SumFunction(Totals') = T
    BY <1>6 DEF Totals
  <2> DEFINE f == call[c].first
             t == call[c].tokens
  <2>2. /\ SumFunction(Holdings') = H - Held(call[c]) + Held(r)
        /\ SumFunction(Debts') = D - Owed(call[c]) + Owed(r)
        /\ f \in Nat /\ t \in Nat /\ SoundCall(call[c])
        /\ r.first \in 0..MaxCost /\ r.tokens \in Nat /\ f <= MaxCost
    BY <1>5, <1>6
  <2>3. SUFFICES /\ T + SumFunction(Holdings') <= usage'
                 /\ usage' <= T + SumFunction(Debts') + lapsed' * MaxCost
    BY <2>1 DEF UsageIsKept
  <2>4. call[c].st \in {"check", "flying"} /\ t = 0 /\ Held(call[c]) = f /\ Owed(call[c]) = f
    BY <1>6, <2>2 DEF Requested, Admitted, GivesUp, Retried, Answered, SoundCall, Held, Owed
  <2>5. CASE Admitted(c, r) \/ Retried(c, r)
    <3>1. Held(r) = f /\ Owed(r) = f /\ usage' = usage /\ lapsed' = lapsed
      BY <2>2, <2>4, <2>5 DEF Admitted, Retried, Carries, Held, Owed
    <3> HIDE DEF T, H, D, f, t
    <3>2. QED
      BY <1>2, <1>3, <2>2, <2>4, <3>1
  <2>6. CASE GivesUp(c, r)
    <3>1. Held(r) = f /\ Owed(r) = f - MaxCost /\ usage' = usage /\ lapsed' = lapsed + 1
      BY <2>2, <2>4, <2>6 DEF GivesUp, Carries, Held, Owed
    <3> HIDE DEF T, H, D, f, t
    <3>2. QED
      BY <1>2, <1>3, <2>2, <2>4, <3>1
  <2>7. CASE Answered(c, r)
    <3>1. PICK cost \in 0..MaxCost :
              /\ usage' = usage + cost
              /\ \/ /\ r.st = "check" /\ ~call[c].escalated
                    /\ r.first = cost /\ r.tokens = 0
                 \/ r.st = "returned" /\ r.first = 0 /\ r.tokens = call[c].first + cost
      BY <2>7 DEF Answered
    <3>2. lapsed' = lapsed
      BY <2>7 DEF Answered
    <3>3. Held(r) = f + cost /\ Owed(r) = f + cost
      BY <2>2, <3>1 DEF SoundCall, Held, Owed
    <3> HIDE DEF T, H, D, f, t
    <3>4. QED
      BY <1>2, <1>3, <2>2, <2>4, <3>1, <3>2, <3>3
  <2>8. QED
    BY <1>6, <2>5, <2>6, <2>7 DEF Requested
<1>7. ASSUME NEW c \in Callers, NEW r \in CallStates, BooksTyped', Becomes(c, r), Dropped(c, r),
             NEW n \in Nat, SumFunction(Totals') = T + n,
             n = IF call[c].st = "returned" THEN call[c].tokens ELSE 0
      PROVE  UsageIsKept'
  <2> DEFINE f == call[c].first
             t == call[c].tokens
  <2>1. /\ SumFunction(Holdings') = H - Held(call[c]) + Held(r)
        /\ SumFunction(Debts') = D - Owed(call[c]) + Owed(r)
        /\ f \in Nat /\ t \in Nat /\ SoundCall(call[c]) /\ f <= MaxCost
    BY <1>5, <1>7
  <2>2. SUFFICES /\ T + n + SumFunction(Holdings') <= usage'
                 /\ usage' <= T + n + SumFunction(Debts') + lapsed' * MaxCost
    BY <1>7 DEF UsageIsKept
  <2>3. Held(r) = 0 /\ Owed(r) = 0 /\ usage' = usage /\ lapsed' = lapsed
    <3>1. /\ r.st \in {"idle", "check"} /\ r.first = 0 /\ r.tokens = 0
          /\ usage' = usage /\ lapsed' = lapsed
      BY <1>7 DEF Dropped
    <3>2. Held(r) = 0
      BY <3>1 DEF Held
    <3>3. Owed(r) = Held(r) - 0
      BY <3>1 DEF Owed
    <3>4. QED
      BY <3>1, <3>2, <3>3
  <2>4. n <= Held(call[c]) /\ Owed(call[c]) <= n /\ Held(call[c]) \in Nat /\ Owed(call[c]) \in Int
    <3>1. call[c].st \in {"idle", "returned", "raised", "halted"}
      <4>1. call[c].st \in States
        BY DEF TypeOK, ClientTypeOK
      <4>2. QED
        BY <1>7, <4>1 DEF Dropped, States
    <3>2. CASE call[c].st = "returned"
      <4>1. f = 0 /\ n = t
        BY <1>7, <2>1, <3>2 DEF SoundCall
      <4>2. Held(call[c]) = t /\ Owed(call[c]) = t
        BY <2>1, <3>2, <4>1 DEF Held, Owed
      <4>3. QED
        BY <2>1, <4>1, <4>2
    <3>3. CASE call[c].st = "idle"
      <4>1. f = 0 /\ t = 0 /\ n = 0
        BY <1>7, <2>1, <3>3 DEF SoundCall
      <4>2. Held(call[c]) = 0
        BY <4>1 DEF Held
      <4>3. Owed(call[c]) = Held(call[c]) - 0
        BY <3>3 DEF Owed
      <4>4. QED
        BY <4>1, <4>2, <4>3
    <3>4. CASE call[c].st \in {"raised", "halted"}
      <4>1. t = 0 /\ n = 0
        BY <1>7, <2>1, <3>4 DEF SoundCall
      <4>2. Held(call[c]) = f /\ Owed(call[c]) = f - MaxCost
        BY <2>1, <3>4, <4>1 DEF Held, Owed
      <4> HIDE DEF f
      <4>3. QED
        BY <1>2, <2>1, <4>1, <4>2
    <3>5. QED
      BY <3>1, <3>2, <3>3, <3>4
  <2> HIDE DEF T, H, D, f, t
  <2>5. QED
    BY <1>2, <1>3, <2>1, <2>3, <2>4
<1>8. ASSUME NEW c \in Callers, NEW r \in CallStates, Begins(c, r)
      PROVE  UsageIsKept'
  <2>1. /\ BooksTyped' /\ Becomes(c, r) /\ Dropped(c, r) /\ call[c].st = "idle"
        /\ loop' = loop
    BY <1>8 DEF Begins
  <2>2. SumFunction(Totals') = T + 0
    BY <1>2, <2>1 DEF Totals
  <2>3. QED
    BY <1>7, <2>1, <2>2
<1>9. ASSUME NEW s \in Solvers, NEW r \in CallStates, NEW l \in LoopStates, Leaves(s, r, l)
      PROVE  UsageIsKept'
  <2>1. /\ BooksTyped' /\ Becomes(s, r) /\ Dropped(s, r) /\ s \in Callers
        /\ loop' = [loop EXCEPT ![s] = l] /\ l.total = loop[s].total + Consumed(s)
    BY <1>9 DEF Leaves
  <2>2. call[s].tokens \in Nat /\ loop[s].total \in Nat
    BY <2>1 DEF TypeOK, ClientTypeOK, LoopStates
  <2>3. Consumed(s) \in Nat
    BY <2>2 DEF Consumed
  <2>4. SumFunction(Totals') = T - loop[s].total + l.total
    BY <2>1, SumsOfTotals
  <2>5. SumFunction(Totals') = T + Consumed(s)
    BY <1>2, <2>1, <2>2, <2>3, <2>4
  <2>6. QED
    BY <1>7, <2>1, <2>3, <2>5 DEF Consumed
<1>10. QED
  BY <1>4, <1>6, <1>8, <1>9, KindsOfStep DEF Asks

-----------------------------------------------------------------------------
(* The theorems *)

LEMMA InitIInv ==
    ASSUME Init
    PROVE  IInv
<1>1. PICK f \in [Solvers -> 0..2] : loop = [s \in Solvers |-> Fresh(f[s])]
  BY DEF Init
<1>2. \A s \in Solvers : Fresh(f[s]) \in LoopStates /\ Sound(Fresh(f[s]))
  <2> TAKE s \in Solvers
  <2>1. f[s] \in 0..2 /\ 0 \in 0..MaxTurns /\ 0 \in 0..2 /\ NoScore \in Outcomes
    BY DEF Outcomes
  <2>2. Fresh(f[s]) \in LoopStates
    BY <2>1 DEF Fresh, LoopStates, PCs
  <2>3. Sound(Fresh(f[s]))
    BY DEF Fresh, Sound, Spend
  <2>4. QED
    BY <2>2, <2>3
<1>3. call = [c \in Callers |-> Free] /\ BooksTyped
  <2>1. 0 \in 0..MaxFaults
    OBVIOUS
  <2>2. QED
    BY <2>1 DEF Init, ClientInit, BooksTyped
<1>4. TypeOK
  BY <1>1, <1>2, <1>3, FreshCalls, ClientTypeParts DEF TypeOK
<1>5. LoopsAreSound
  BY <1>1, <1>2 DEF LoopsAreSound
<1>6. CallsAreSound
  <2>1. \A c \in Callers : call[c] = Free
    BY <1>3
  <2>2. \A s \in Solvers : loop[s].pc = "top" /\ s \in Callers
    BY <1>1 DEF Fresh
  <2>3. QED
    BY <2>1, <2>2 DEF CallsAreSound, Free
<1>7. CapIsKept
  <2>1. Flying = {}
    BY <1>3 DEF Flying, Free
  <2>2. Cardinality(Flying) = 0 /\ Cardinality(Callers) \in Nat
    BY <2>1, FS_EmptySet, FlyingIsFinite
  <2>3. Cardinality(Callers) * MaxCost \in Nat /\ 0 * MaxCost = 0
    BY <2>2, Multiples
  <2>4. spent = 0 /\ ledger = 0 /\ unread = 0
    BY DEF Init, ClientInit
  <2>5. QED
    BY <2>2, <2>3, <2>4 DEF CapIsKept
<1>8. UsageIsKept
  <2>1. /\ Totals = [s \in Solvers |-> 0]
        /\ Holdings = [c \in Callers |-> 0] /\ Debts = [c \in Callers |-> 0]
    <3>1. \A s \in Solvers : loop[s].total = 0
      BY <1>1 DEF Fresh
    <3>2. \A c \in Callers : Held(call[c]) = 0 /\ Owed(call[c]) = 0
      BY <1>3 DEF Free, Held, Owed
    <3>3. QED
      BY <3>1, <3>2 DEF Totals, Holdings, Debts
  <2>2. ASSUME NEW A, IsFiniteSet(A) PROVE SumFunction([a \in A |-> 0]) = 0
    BY <2>2, SumOfZeros
  <2>3. IsFiniteSet(Solvers) /\ IsFiniteSet(Callers)
    BY FS_Subset
  <2>4. SumFunction(Totals) = 0 /\ SumFunction(Holdings) = 0 /\ SumFunction(Debts) = 0
    BY <2>1, <2>2, <2>3
  <2>5. usage = 0 /\ lapsed = 0
    BY DEF Init, ClientInit
  <2>6. QED
    BY <2>4, <2>5 DEF UsageIsKept
<1>9. QED
  BY <1>4, <1>5, <1>6, <1>7, <1>8 DEF IInv

LEMMA NextIInv ==
    ASSUME IInv, [Next]_vars
    PROVE  IInv'
<1>1. TypeOK /\ LoopsAreSound /\ CallsAreSound /\ CapIsKept /\ UsageIsKept
  BY DEF IInv
<1>2. TypeOK' /\ LoopsAreSound'
  BY <1>1, TypesAreKept
<1>3. CallsAreSound' /\ CapIsKept' /\ UsageIsKept'
  BY <1>1, CallsStaySound, CapStaysKept, UsageStaysKept
<1>4. QED
  BY <1>2, <1>3 DEF IInv

\* The invariant, of every behaviour.
THEOREM IInvHolds == Spec => []IInv
<1>1. Init => IInv
  BY InitIInv
<1>2. IInv /\ [Next]_vars => IInv'
  BY NextIInv
<1>3. QED
  BY <1>1, <1>2, PTL DEF Spec

\* Counters, verdicts, messages and the books of the client have the values the
\* loop and complete() give them.
THEOREM SolversAreWellTyped == Spec => []TypeOK
<1>1. IInv => TypeOK
  BY DEF IInv
<1>2. QED
  BY <1>1, IInvHolds, PTL

\* However many solvers and other callers interleave, retry and escalate, a
\* solver overspends its budget by at most one turn, and the day its cap by what
\* the last admitted requests cost.
THEOREM SpendOvershootHolds == Spec => []SpendIsBounded
<1>1. IInv => SpendIsBounded
  <2> SUFFICES ASSUME IInv PROVE SpendIsBounded
    OBVIOUS
  <2>1. \A s \in Solvers : loop[s].total + loop[s].inner < SpendBudget + 4 * MaxCost + MaxInner
    BY DEF IInv, LoopsAreSound, Sound, Spend
  <2> DEFINE k == Cardinality(Flying)
             n == Cardinality(Callers)
  <2>2. k \in Nat /\ n \in Nat /\ spent \in Nat /\ unread \in Nat /\ MaxCost \in Nat
    BY FlyingIsFinite DEF IInv, TypeOK, ClientTypeOK
  <2>3. spent + k * MaxCost <= Threshold - 1 + n * MaxCost + unread
    BY DEF IInv, CapIsKept
  <2> HIDE DEF k, n
  <2>4. k * MaxCost \in Nat /\ n * MaxCost \in Nat
    BY <2>2, Multiples
  <2>5. spent <= Threshold - 1 + n * MaxCost + unread
    BY <2>2, <2>3, <2>4
  <2>6. CapOvershootIsBounded
    BY <2>5 DEF CapOvershootIsBounded, n
  <2>7. QED
    BY <2>1, <2>6 DEF SpendIsBounded
<1>2. QED
  BY <1>1, IInvHolds, PTL

\* What the results of the solvers add up to is what the client counted, up to
\* the first, cut answer of each call that then failed.
THEOREM UsageReportsHold == Spec => []UsageIsReported
<1>1. IInv => UsageIsReported
  <2> SUFFICES ASSUME IInv PROVE UsageIsReported
    OBVIOUS
  <2> DEFINE T == SumFunction(Totals)
             H == SumFunction(Holdings)
             D == SumFunction(Debts)
  <2>1. TypeOK /\ T + H <= usage /\ usage <= T + D + lapsed * MaxCost
    BY DEF IInv, UsageIsKept
  <2>2. T \in Int /\ H \in Int /\ D \in Int
    BY <2>1, FunctionsSummed, SumFunctionIsInt
  <2>3. D <= H
    <3>1. \A c \in Callers : Debts[c] <= Holdings[c]
      <4> TAKE c \in Callers
      <4>1. call[c].first \in Nat /\ call[c].tokens \in Nat
        BY <2>1 DEF TypeOK, ClientTypeOK
      <4>2. QED
        BY <4>1 DEF Debts, Holdings, Held, Owed
    <3>2. Sum(Debts, Callers) <= Sum(Holdings, Callers)
      BY <2>1, <3>1, FunctionsSummed, SumIsMonotone
    <3>3. D = Sum(Debts, Callers) /\ H = Sum(Holdings, Callers)
      BY <2>1, FunctionsSummed DEF SumFunction, Sum
    <3>4. QED
      BY <3>2, <3>3
  <2>4. Reported = T + H
    BY DEF Reported, Totals, Holdings, Held
  <2>5. usage \in Nat /\ lapsed \in Nat /\ lapsed * MaxCost \in Nat
    <3>1. usage \in Nat /\ lapsed \in Nat /\ MaxCost \in Nat
      BY <2>1 DEF TypeOK, ClientTypeOK
    <3>2. QED
      BY <3>1, Multiples
  <2> HIDE DEF T, H, D
  <2>6. QED
    BY <2>1, <2>2, <2>3, <2>4, <2>5 DEF UsageIsReported
<1>2. QED
  BY <1>1, IInvHolds, PTL

\* A solver that ends as confirmed declared completion in two answers in a row,
\* and a run of it was scored.
THEOREM ConfirmationsAreTwofold == Spec => []ConfirmationIsTwofold
<1>1. IInv => ConfirmationIsTwofold
  BY DEF IInv, LoopsAreSound, Sound, ConfirmationIsTwofold
<1>2. QED
  BY <1>1, IInvHolds, PTL
=============================================================================
