------------------------ MODULE ExternalSpine_proofs ------------------------
(***************************************************************************)
(* Proofs about the external-agent executions, for any number of them and  *)
(* any budget: the state is well typed, the leases are accounted for on    *)
(* every path and the day's headroom is overshot by the runs that hold a   *)
(* slot at most.                                                           *)
(***************************************************************************)
EXTENDS ExternalSpine, FiniteSetTheorems, TLAPS

USE SpineAssumption DEF SpineAssumption

-----------------------------------------------------------------------------
(* The sets of executions that hold a lease and whose agent runs.          *)

LEMMA HoldingIsFinite ==
    /\ IsFiniteSet(Holding) /\ Cardinality(Holding) \in Nat
    /\ IsFiniteSet(Running) /\ Cardinality(Running) \in Nat
    /\ Cardinality(Running) <= Cardinality(Holding)
<1>1. Holding \in SUBSET Runs /\ Running \in SUBSET Holding
  BY DEF Holding, Running
<1>2. IsFiniteSet(Holding) /\ Cardinality(Holding) \in Nat
  BY <1>1, FS_Subset, FS_CardinalityType
<1>3. QED
  BY <1>1, <1>2, FS_Subset, FS_CardinalityType

\* One execution takes or loses its place in a set.
LEMMA OneLess ==
    ASSUME NEW S, IsFiniteSet(S), NEW r \in S
    PROVE  /\ Cardinality(S \ {r}) = Cardinality(S) - 1
           /\ Cardinality({r}) = 1
BY FS_RemoveElement, FS_Singleton

LEMMA OneMore ==
    ASSUME NEW S, IsFiniteSet(S), NEW r, r \notin S
    PROVE  Cardinality(S \cup {r}) = Cardinality(S) + 1
BY FS_AddElement

\* Each set of leases given back is made of what it held.
LEMMA Split ==
    ASSUME NEW S, IsFiniteSet(S), NEW T
    PROVE  Cardinality(S) = Cardinality(S \ T) + Cardinality(S \cap T)
<1>1. /\ IsFiniteSet(S \ T) /\ IsFiniteSet(S \cap T)
      /\ Cardinality(S \ T) \in Nat /\ Cardinality(S \cap T) \in Nat
  BY FS_Subset, FS_CardinalityType
<1>2. Cardinality((S \ T) \cup (S \cap T))
         = Cardinality(S \ T) + Cardinality(S \cap T) - Cardinality((S \ T) \cap (S \cap T))
  BY <1>1, FS_Union
<1>3. (S \ T) \cup (S \cap T) = S /\ (S \ T) \cap (S \cap T) = {}
  OBVIOUS
<1>4. Cardinality((S \ T) \cup (S \cap T)) = Cardinality(S)
  BY <1>3, Zenon
<1>5. Cardinality((S \ T) \cap (S \cap T)) = 0
  BY <1>3, FS_EmptySet, Zenon
<1>6. QED
  BY <1>1, <1>2, <1>4, <1>5

-----------------------------------------------------------------------------
(* Types.  The type of free needs the accounting of the leases and that of *)
(* the rows the verdict of the runs being scored, so the three are shown   *)
(* together.                                                               *)

ScoredRunsEnded == \A r \in Runs : pc[r] = "scoring" => verdict[r] \in Reasons

IInv == TypeOK /\ LeasesAreAccounted /\ ScoredRunsEnded

LEMMA InitIInv == Init => IInv
<1> SUFFICES ASSUME Init PROVE IInv
  OBVIOUS
<1>1. TypeOK
  <2>1. rows \in [Runs -> Seq(Reasons \cup {"budget_denied"})]
    BY DEF Init
  <2>2. pc \in [Runs -> Where] /\ verdict \in [Runs -> Verdicts]
    BY DEF Init, Where, Verdicts
  <2>3. spent \in [Runs -> 0..MaxCost] /\ booked \in [Runs -> 0..MaxCost]
    BY DEF Init
  <2>4. free \in 0..MaxDocker /\ today \in Nat /\ faults \in 0..MaxFaults /\ days \in 0..MaxDays
    BY DEF Init
  <2>5. inflight \subseteq Runs /\ scratch \subseteq Runs /\ stopping \in BOOLEAN
    BY DEF Init
  <2>6. QED
    BY <2>1, <2>2, <2>3, <2>4, <2>5 DEF TypeOK
<1>2. Holding = {}
  BY DEF Init, Holding
<1>3. LeasesAreAccounted
  BY <1>2, FS_EmptySet DEF Init, LeasesAreAccounted
<1>4. QED
  BY <1>1, <1>3 DEF IInv, ScoredRunsEnded, Init

\* Giving back the leases of rs, all of which are held.
LEMMA ReleaseAccounts ==
    ASSUME IInv, NEW rs \in SUBSET Holding, Release(rs), Holding' = Holding \ rs
    PROVE  /\ LeasesAreAccounted'
           /\ free' \in 0..MaxDocker /\ inflight' \subseteq Runs /\ scratch' \subseteq Runs
<1>1. IsFiniteSet(Holding) /\ Cardinality(Holding) \in Nat
  BY HoldingIsFinite
<1>2. Cardinality(Holding) = Cardinality(Holding \ rs) + Cardinality(rs)
  <2>1. Holding \cap rs = rs
    OBVIOUS
  <2>2. QED
    BY <1>1, <2>1, Split
<1>3. Cardinality(Holding \ rs) \in Nat /\ Cardinality(rs) \in Nat
  BY <1>1, FS_Subset, FS_CardinalityType
<1>4. inflight' = Holding' /\ scratch' = Holding'
  BY DEF IInv, LeasesAreAccounted, Release
<1>5. free' + Cardinality(Holding') = MaxDocker
  BY <1>2, <1>3 DEF IInv, TypeOK, LeasesAreAccounted, Release
<1>6. free' \in 0..MaxDocker
  BY <1>3, <1>5 DEF IInv, TypeOK, Release
<1>7. QED
  BY <1>4, <1>5, <1>6 DEF LeasesAreAccounted, IInv, TypeOK, Release

\* Nothing is given back and nobody starts or stops holding a lease.
LEMMA NoReleaseAccounts ==
    ASSUME IInv, UNCHANGED lease, Holding' = Holding
    PROVE  /\ LeasesAreAccounted'
           /\ free' \in 0..MaxDocker /\ inflight' \subseteq Runs /\ scratch' \subseteq Runs
BY DEF IInv, TypeOK, LeasesAreAccounted, lease

\* An execution that ends keeps the rows typed and loses its lease.
LEMMA EndsIsTyped ==
    ASSUME TypeOK, NEW r \in Runs, NEW why \in Reasons \cup {"budget_denied"}, Ends(r, why)
    PROVE  /\ pc' \in [Runs -> Where] /\ pc'[r] = "ended"
           /\ \A x \in Runs \ {r} : pc'[x] = pc[x]
           /\ rows' \in [Runs -> Seq(Reasons \cup {"budget_denied"})]
           /\ Holding' = Holding \ {r}
BY DEF TypeOK, Ends, Where, Holding

LEMMA GateIsTyped ==
    ASSUME TypeOK, NEW deny \in BOOLEAN, Gate(deny)
    PROVE  faults' \in 0..MaxFaults
BY DEF TypeOK, Gate

LEMMA BookIsTyped ==
    ASSUME TypeOK, NEW r \in Runs, NEW cost \in 0..MaxCost, Book(r, cost)
    PROVE  /\ booked' \in [Runs -> 0..MaxCost] /\ today' \in Nat
           /\ faults' \in 0..MaxFaults
<1>1. CASE booked' = [booked EXCEPT ![r] = cost] /\ today' = today + cost /\ UNCHANGED faults
  BY <1>1 DEF TypeOK
<1>2. CASE faults < MaxFaults /\ faults' = faults + 1 /\ UNCHANGED ledger
  BY <1>2 DEF TypeOK, ledger
<1>3. QED
  BY <1>1, <1>2 DEF Book

-----------------------------------------------------------------------------
(* The actions, one lemma each.                                            *)

LEMMA AdmitKeepsIInv == ASSUME IInv, NEW r \in Runs, Admit(r) PROVE IInv'
<1>1. /\ TypeOK /\ pc[r] = "queued" /\ r \notin Holding
      /\ UNCHANGED <<verdict, spent, ledger, lease, stopping, days>>
  BY DEF IInv, Admit, Holding
<1>2. CASE Ends(r, "agent_error") /\ UNCHANGED faults
  <2>1. /\ pc' \in [Runs -> Where] /\ rows' \in [Runs -> Seq(Reasons \cup {"budget_denied"})]
        /\ Holding' = Holding /\ ScoredRunsEnded'
    <3>1. "agent_error" \in Reasons \cup {"budget_denied"}
      BY DEF Reasons, Degraded
    <3>2. QED
      BY <1>1, <1>2, <3>1, EndsIsTyped DEF IInv, ScoredRunsEnded
  <2>2. QED
    BY <1>1, <1>2, <2>1, NoReleaseAccounts DEF IInv, TypeOK, ledger
<1>3. CASE Gate(TRUE) /\ Ends(r, "budget_denied")
  <2>1. /\ pc' \in [Runs -> Where] /\ rows' \in [Runs -> Seq(Reasons \cup {"budget_denied"})]
        /\ Holding' = Holding /\ ScoredRunsEnded'
    BY <1>1, <1>3, EndsIsTyped DEF IInv, ScoredRunsEnded
  <2>2. faults' \in 0..MaxFaults
    BY <1>1, <1>3, GateIsTyped
  <2>3. QED
    BY <1>1, <2>1, <2>2, NoReleaseAccounts DEF IInv, TypeOK, ledger
<1>4. CASE Gate(FALSE) /\ pc' = [pc EXCEPT ![r] = "waiting"] /\ UNCHANGED rows
  <2>1. pc' \in [Runs -> Where] /\ Holding' = Holding /\ ScoredRunsEnded'
    BY <1>1, <1>4 DEF TypeOK, Where, Holding, IInv, ScoredRunsEnded
  <2>2. faults' \in 0..MaxFaults
    BY <1>1, <1>4, GateIsTyped
  <2>3. QED
    BY <1>1, <1>4, <2>1, <2>2, NoReleaseAccounts DEF IInv, TypeOK, ledger
<1>5. QED
  BY <1>2, <1>3, <1>4 DEF Admit

LEMMA AcquireKeepsIInv == ASSUME IInv, NEW r \in Runs, Acquire(r) PROVE IInv'
<1>1. /\ TypeOK /\ pc[r] = "waiting" /\ free > 0 /\ r \notin Holding
      /\ UNCHANGED <<verdict, spent, ledger, stopping, faults, days>>
  BY DEF IInv, Acquire, Holding
<1>2. CASE /\ free' = free - 1
           /\ inflight' = inflight \cup {r} /\ scratch' = scratch \cup {r}
           /\ pc' = [pc EXCEPT ![r] = "leased"]
           /\ UNCHANGED rows
  <2>1. pc' \in [Runs -> Where] /\ Holding' = Holding \cup {r} /\ ScoredRunsEnded'
    BY <1>1, <1>2 DEF TypeOK, Where, Holding, IInv, ScoredRunsEnded
  <2>2. Cardinality(Holding') = Cardinality(Holding) + 1
    BY <1>1, <2>1, HoldingIsFinite, OneMore
  <2>3. inflight' = Holding' /\ scratch' = Holding'
    BY <1>2, <2>1 DEF IInv, LeasesAreAccounted
  <2>4. LeasesAreAccounted'
    <3>1. free + Cardinality(Holding) = MaxDocker
      BY DEF IInv, LeasesAreAccounted
    <3>2. free' + Cardinality(Holding') = MaxDocker
      BY <1>1, <1>2, <2>2, <3>1, HoldingIsFinite DEF TypeOK
    <3>3. QED
      BY <2>3, <3>2 DEF LeasesAreAccounted
  <2>5. free' \in 0..MaxDocker /\ inflight' \subseteq Runs /\ scratch' \subseteq Runs
    BY <1>1, <1>2 DEF TypeOK
  <2>6. QED
    BY <1>1, <1>2, <2>1, <2>4, <2>5 DEF IInv, TypeOK, ledger
<1>3. CASE Ends(r, "agent_error") /\ UNCHANGED lease
  <2>1. /\ pc' \in [Runs -> Where] /\ rows' \in [Runs -> Seq(Reasons \cup {"budget_denied"})]
        /\ Holding' = Holding /\ ScoredRunsEnded'
    <3>1. "agent_error" \in Reasons \cup {"budget_denied"}
      BY DEF Reasons, Degraded
    <3>2. QED
      BY <1>1, <1>3, <3>1, EndsIsTyped DEF IInv, ScoredRunsEnded
  <2>2. QED
    BY <1>1, <1>3, <2>1, NoReleaseAccounts DEF IInv, TypeOK, ledger
<1>4. QED
  BY <1>2, <1>3 DEF Acquire

\* An execution that holds a lease and ends gives it back.
LEMMA EndsWithRelease ==
    ASSUME IInv, NEW r \in Runs, r \in Holding,
           NEW why \in Reasons \cup {"budget_denied"}, Ends(r, why), Release({r}),
           UNCHANGED <<verdict, ledger, stopping, days>>,
           spent' \in [Runs -> 0..MaxCost], faults' \in 0..MaxFaults
    PROVE  IInv'
<1>1. /\ pc' \in [Runs -> Where] /\ rows' \in [Runs -> Seq(Reasons \cup {"budget_denied"})]
      /\ Holding' = Holding \ {r} /\ ScoredRunsEnded'
  BY EndsIsTyped DEF IInv, ScoredRunsEnded
<1>2. /\ LeasesAreAccounted'
      /\ free' \in 0..MaxDocker /\ inflight' \subseteq Runs /\ scratch' \subseteq Runs
  BY <1>1, ReleaseAccounts
<1>3. QED
  BY <1>1, <1>2 DEF IInv, TypeOK, ledger

LEMMA StartKeepsIInv == ASSUME IInv, NEW r \in Runs, Start(r) PROVE IInv'
<1>1. /\ TypeOK /\ pc[r] = "leased" /\ r \in Holding
      /\ UNCHANGED <<verdict, ledger, stopping, days>>
  BY DEF IInv, Start, Holding
<1>2. CASE Gate(TRUE) /\ Ends(r, "budget_denied") /\ Release({r}) /\ UNCHANGED spent
  BY <1>1, <1>2, GateIsTyped, EndsWithRelease DEF TypeOK
<1>3. CASE Gate(FALSE) /\ Ends(r, "agent_error") /\ Release({r}) /\ UNCHANGED spent
  BY <1>1, <1>3, GateIsTyped, EndsWithRelease DEF TypeOK, Reasons, Degraded
<1>4. CASE /\ Gate(FALSE)
           /\ \E cost \in 0..MaxCost : spent' = [spent EXCEPT ![r] = cost]
           /\ pc' = [pc EXCEPT ![r] = "running"]
           /\ UNCHANGED <<rows, lease>>
  <2>1. pc' \in [Runs -> Where] /\ Holding' = Holding /\ ScoredRunsEnded'
    BY <1>1, <1>4 DEF TypeOK, Where, Holding, IInv, ScoredRunsEnded
  <2>2. faults' \in 0..MaxFaults /\ spent' \in [Runs -> 0..MaxCost]
    BY <1>1, <1>4, GateIsTyped DEF TypeOK
  <2>3. QED
    BY <1>1, <1>4, <2>1, <2>2, NoReleaseAccounts DEF IInv, TypeOK, ledger
<1>5. QED
  BY <1>2, <1>3, <1>4 DEF Start

LEMMA AgentEndsKeepsIInv == ASSUME IInv, NEW r \in Runs, AgentEnds(r) PROVE IInv'
<1>1. TypeOK /\ pc[r] = "running" /\ UNCHANGED <<spent, rows, lease, stopping, days>>
  BY DEF IInv, AgentEnds
<1>2. PICK why \in Reasons : verdict' = [verdict EXCEPT ![r] = why]
  BY DEF AgentEnds
<1>3. pc' = [pc EXCEPT ![r] = "scoring"]
  BY DEF AgentEnds
<1>4. /\ pc' \in [Runs -> Where] /\ verdict' \in [Runs -> Verdicts]
      /\ Holding' = Holding /\ ScoredRunsEnded'
  BY <1>1, <1>2, <1>3 DEF TypeOK, Where, Verdicts, Holding, IInv, ScoredRunsEnded
<1>5. PICK cost \in 0..MaxCost : Book(r, cost)
  BY <1>1 DEF AgentEnds, TypeOK
<1>6. booked' \in [Runs -> 0..MaxCost] /\ today' \in Nat /\ faults' \in 0..MaxFaults
  BY <1>1, <1>5, BookIsTyped
<1>7. QED
  BY <1>1, <1>4, <1>6, NoReleaseAccounts DEF IInv, TypeOK

LEMMA AgentRaisesKeepsIInv == ASSUME IInv, NEW r \in Runs, AgentRaises(r) PROVE IInv'
<1>1. r \in Holding /\ "agent_error" \in Reasons \cup {"budget_denied"}
  BY DEF AgentRaises, Holding, Reasons, Degraded
<1>2. spent' \in [Runs -> 0..MaxCost] /\ faults' \in 0..MaxFaults
  BY DEF IInv, TypeOK, AgentRaises
<1>3. QED
  BY <1>1, <1>2, EndsWithRelease DEF AgentRaises

LEMMA ScoreKeepsIInv == ASSUME IInv, NEW r \in Runs, Score(r) PROVE IInv'
<1>1. r \in Holding /\ spent' \in [Runs -> 0..MaxCost] /\ faults' \in 0..MaxFaults
  BY DEF IInv, TypeOK, Score, Holding
<1>2. PICK why \in Reasons : Ends(r, why)
  BY DEF Score, IInv, ScoredRunsEnded, Reasons
<1>3. QED
  BY <1>1, <1>2, EndsWithRelease DEF Score

LEMMA EnvelopeKeepsIInv == ASSUME IInv, NEW r \in Runs, Envelope(r) PROVE IInv'
<1>1. TypeOK /\ UNCHANGED <<spent, ledger, stopping, faults, days>>
  BY DEF IInv, Envelope
<1>2. CASE /\ pc[r] \in {"leased", "scoring"}
           /\ Ends(r, "timeout") /\ Release({r})
           /\ UNCHANGED verdict
  <2>1. r \in Holding /\ "timeout" \in Reasons \cup {"budget_denied"}
    BY <1>2 DEF Holding, Reasons, Degraded
  <2>2. QED
    BY <1>1, <1>2, <2>1, EndsWithRelease DEF TypeOK
<1>3. CASE /\ pc[r] = "running"
           /\ pc' = [pc EXCEPT ![r] = "unwinding"]
           /\ verdict' = [verdict EXCEPT ![r] = "timeout"]
           /\ UNCHANGED <<rows, lease>>
  <2>1. /\ pc' \in [Runs -> Where] /\ verdict' \in [Runs -> Verdicts]
        /\ Holding' = Holding
    BY <1>1, <1>3 DEF TypeOK, Where, Verdicts, Reasons, Degraded, Holding
  <2>2. ScoredRunsEnded'
    BY <1>1, <1>3 DEF TypeOK, IInv, ScoredRunsEnded
  <2>3. QED
    BY <1>1, <1>3, <2>1, <2>2, NoReleaseAccounts DEF IInv, TypeOK, ledger
<1>4. QED
  BY <1>2, <1>3 DEF Envelope

LEMMA UnwindKeepsIInv == ASSUME IInv, NEW r \in Runs, Unwind(r) PROVE IInv'
<1>1. /\ TypeOK /\ r \in Holding /\ pc[r] = "unwinding" /\ Release({r})
      /\ UNCHANGED <<verdict, spent, ledger, stopping, faults, days>>
  BY DEF IInv, Unwind, Holding
<1>2. CASE Ends(r, "timeout")
  <2>1. "timeout" \in Reasons \cup {"budget_denied"}
    BY DEF Reasons, Degraded
  <2>2. QED
    BY <1>1, <1>2, <2>1, EndsWithRelease DEF TypeOK
<1>3. CASE pc' = [pc EXCEPT ![r] = "ended"] /\ UNCHANGED rows
  <2>1. pc' \in [Runs -> Where] /\ Holding' = Holding \ {r} /\ ScoredRunsEnded'
    BY <1>1, <1>3 DEF TypeOK, Where, Holding, IInv, ScoredRunsEnded
  <2>2. /\ LeasesAreAccounted'
        /\ free' \in 0..MaxDocker /\ inflight' \subseteq Runs /\ scratch' \subseteq Runs
    BY <1>1, <2>1, ReleaseAccounts
  <2>3. QED
    BY <1>1, <1>3, <2>1, <2>2 DEF IInv, TypeOK, ledger
<1>4. QED
  BY <1>2, <1>3 DEF Unwind

LEMMA InterruptKeepsIInv == ASSUME IInv, Interrupt PROVE IInv'
<1> DEFINE stopped == {r \in Runs : pc[r] \in {"running", "unwinding"}}
           over == {r \in Runs : pc[r] = "ended"}
<1>1. /\ TypeOK /\ stopping' = TRUE
      /\ pc' = [r \in Runs |-> IF r \in stopped THEN "unwinding" ELSE "ended"]
      /\ verdict' = [r \in Runs |-> IF r \in over THEN verdict[r] ELSE "cancelled"]
      /\ Release(Holding \ stopped)
      /\ UNCHANGED <<spent, rows, ledger, faults, days>>
  BY DEF IInv, Interrupt
<1>2. pc' \in [Runs -> Where] /\ verdict' \in [Runs -> Verdicts]
  BY <1>1 DEF TypeOK, Where, Verdicts
<1>3. ScoredRunsEnded'
  BY <1>1 DEF ScoredRunsEnded
<1>4. Holding' = Holding \ (Holding \ stopped)
  BY <1>1 DEF Holding
<1>5. /\ LeasesAreAccounted'
      /\ free' \in 0..MaxDocker /\ inflight' \subseteq Runs /\ scratch' \subseteq Runs
  BY <1>1, <1>4, ReleaseAccounts
<1>6. QED
  BY <1>1, <1>2, <1>3, <1>5 DEF IInv, TypeOK, ledger

LEMMA NewDayKeepsIInv == ASSUME IInv, NewDay PROVE IInv'
<1>1. Holding' = Holding /\ ScoredRunsEnded'
  BY DEF NewDay, Holding, IInv, ScoredRunsEnded
<1>2. QED
  BY <1>1, NoReleaseAccounts DEF NewDay, IInv, TypeOK

LEMMA NextKeepsIInv == IInv /\ [Next]_vars => IInv'
<1> SUFFICES ASSUME IInv, [Next]_vars PROVE IInv'
  OBVIOUS
<1>1. CASE UNCHANGED vars
  <2>1. Holding' = Holding /\ ScoredRunsEnded'
    BY <1>1 DEF vars, Holding, IInv, ScoredRunsEnded
  <2>2. QED
    BY <1>1, <2>1, NoReleaseAccounts DEF vars, ledger, IInv, TypeOK
<1>2. CASE \E r \in Runs : Execution(r)
  BY <1>2, AdmitKeepsIInv, AcquireKeepsIInv, StartKeepsIInv, AgentEndsKeepsIInv,
     AgentRaisesKeepsIInv, ScoreKeepsIInv, EnvelopeKeepsIInv, UnwindKeepsIInv
  DEF Execution
<1>3. CASE Interrupt
  BY <1>3, InterruptKeepsIInv
<1>4. CASE NewDay
  BY <1>4, NewDayKeepsIInv
<1>5. QED
  BY <1>1, <1>2, <1>3, <1>4 DEF Next

LEMMA IInvHolds == Spec => []IInv
BY InitIInv, NextKeepsIInv, PTL DEF Spec

\* The state is well typed whatever the executions, the slots and the budget.
THEOREM SpineIsWellTyped == Spec => []TypeOK
<1>1. IInv => TypeOK
  BY DEF IInv
<1>2. QED
  BY <1>1, IInvHolds, PTL

\* On every path an execution gives back its slot, its place in the registry
\* and its scratch directory, once: no more than MaxDocker agents ever live.
THEOREM LeasesHold == Spec => []LeasesAreAccounted
<1>1. IInv => LeasesAreAccounted
  BY DEF IInv
<1>2. QED
  BY <1>1, IInvHolds, PTL

-----------------------------------------------------------------------------
(* The overshoot.  What the running agents may still book counts: each is  *)
(* good for MaxCost until it is booked or lost.                            *)

Exposure == today + MaxCost * Cardinality(Running)
Limit == Headroom - 1 + MaxCost * (MaxDocker + faults)
Bounded == Exposure <= Limit

\* One run more, or less, exposes MaxCost more, or less.
LEMMA Distribute ==
    ASSUME NEW m \in Nat, NEW a \in Int, NEW b \in Int
    PROVE  m * (a + b) = m * a + m * b
OBVIOUS

LEMMA Monotone ==
    ASSUME NEW m \in Nat, NEW a \in Nat, NEW b \in Nat, a <= b
    PROVE  m * a <= m * b /\ m * a \in Nat /\ m * b \in Nat
OBVIOUS

LEMMA Numbers ==
    ASSUME IInv
    PROVE  /\ MaxCost \in Nat /\ MaxDocker \in Nat /\ Headroom \in Nat
           /\ today \in Nat /\ faults \in Nat /\ Cardinality(Running) \in Nat
           /\ Cardinality(Running) <= MaxDocker
<1>1. /\ MaxCost \in Nat /\ MaxDocker \in Nat /\ Headroom \in Nat
      /\ today \in Nat /\ faults \in Nat /\ free \in Nat
  BY DEF IInv, TypeOK
<1>2. free + Cardinality(Holding) = MaxDocker
  BY DEF IInv, LeasesAreAccounted
<1>3. QED
  BY <1>1, <1>2, HoldingIsFinite

\* The room below the limit, in products of MaxCost.
LEMMA LimitIs ==
    ASSUME IInv
    PROVE  /\ MaxCost * MaxDocker \in Nat /\ MaxCost * faults \in Nat
           /\ MaxCost * Cardinality(Running) \in Nat
           /\ MaxCost * (MaxDocker + faults) = MaxCost * MaxDocker + MaxCost * faults
<1>1. MaxCost \in Nat /\ MaxDocker \in Nat /\ faults \in Nat /\ Cardinality(Running) \in Nat
  BY Numbers
<1>2. MaxCost * MaxDocker \in Nat /\ MaxCost * faults \in Nat
  BY <1>1, Monotone
<1>3. MaxCost * Cardinality(Running) \in Nat
  BY <1>1, Monotone
<1>4. QED
  BY <1>1, <1>2, <1>3, Distribute

\* The bounds hold after the step as before it.
LEMMA NumbersNext ==
    ASSUME IInv'
    PROVE  /\ today' \in Nat /\ faults' \in Nat /\ Cardinality(Running') \in Nat
           /\ Cardinality(Running') <= MaxDocker
<1>1. MaxDocker \in Nat /\ today' \in Nat /\ faults' \in Nat /\ free' \in Nat
  BY DEF IInv, TypeOK
<1>2. free' + Cardinality(Holding') = MaxDocker
  BY DEF IInv, LeasesAreAccounted
<1>3. Holding' \in SUBSET Runs /\ Running' \in SUBSET Holding'
  BY DEF Holding, Running
<1>4. /\ IsFiniteSet(Holding') /\ Cardinality(Holding') \in Nat
      /\ Cardinality(Running') \in Nat /\ Cardinality(Running') <= Cardinality(Holding')
  <2>1. IsFiniteSet(Holding') /\ Cardinality(Holding') \in Nat
    BY <1>3, FS_Subset, FS_CardinalityType
  <2>2. QED
    BY <1>3, <2>1, FS_Subset, FS_CardinalityType
<1>5. QED
  BY <1>1, <1>2, <1>4

\* The same agents run, or fewer, and the ledger did not grow.
LEMMA NoMoreExposed ==
    ASSUME IInv, IInv', Bounded,
           Running' \subseteq Running, today' <= today, faults <= faults'
    PROVE  Bounded'
<1> DEFINE t == today'
           f == faults'
           n == Cardinality(Running')
<1>1. /\ MaxCost \in Nat /\ MaxDocker \in Nat /\ Headroom \in Nat
      /\ today \in Nat /\ faults \in Nat /\ Cardinality(Running) \in Nat
      /\ t \in Nat /\ f \in Nat /\ n \in Nat
  BY Numbers, NumbersNext
<1>2. n <= Cardinality(Running) /\ t <= today /\ faults <= f
  BY HoldingIsFinite, FS_Subset
<1>3. Bounded' <=> t + MaxCost * n <= Headroom - 1 + MaxCost * (MaxDocker + f)
  BY DEF Bounded, Exposure, Limit
<1> HIDE DEF t, f, n
<1>4. MaxCost * n <= MaxCost * Cardinality(Running)
  BY <1>1, <1>2, Monotone
<1>5. MaxCost * (MaxDocker + faults) <= MaxCost * (MaxDocker + f)
  <2>1. /\ MaxDocker + faults \in Nat /\ MaxDocker + f \in Nat
        /\ MaxDocker + faults <= MaxDocker + f
    BY <1>1, <1>2
  <2>2. QED
    BY <1>1, <2>1, Monotone
<1>6. t + MaxCost * n <= Headroom - 1 + MaxCost * (MaxDocker + f)
  <2> DEFINE k == MaxCost * Cardinality(Running)
             kk == MaxCost * n
             l == MaxCost * (MaxDocker + faults)
             ll == MaxCost * (MaxDocker + f)
  <2>1. k \in Int /\ kk \in Int /\ l \in Int /\ ll \in Int
    BY <1>1
  <2>2. today + k <= Headroom - 1 + l
    BY DEF Bounded, Exposure, Limit
  <2>3. kk <= k /\ l <= ll
    BY <1>4, <1>5
  <2> HIDE DEF k, kk, l, ll
  <2>4. t + kk <= Headroom - 1 + ll
    BY <1>1, <1>2, <2>1, <2>2, <2>3
  <2>5. QED
    BY <2>4 DEF kk, ll
<1>7. QED
  BY <1>3, <1>6

\* A run that passes the gate: below the headroom the slots bound what all the
\* running agents can add; past a ledger fault this run adds one MaxCost.
LEMMA StartExposes ==
    ASSUME IInv, IInv', Bounded, NEW r \in Runs, Gate(FALSE),
           r \notin Running, Running' = Running \cup {r}, today' = today
    PROVE  Bounded'
<1> DEFINE f == faults'
           n == Cardinality(Running')
<1>1. /\ MaxCost \in Nat /\ MaxDocker \in Nat /\ Headroom \in Nat
      /\ today \in Nat /\ faults \in Nat /\ Cardinality(Running) \in Nat
      /\ f \in Nat /\ n \in Nat /\ n <= MaxDocker
  BY Numbers, NumbersNext
<1>2. n = Cardinality(Running) + 1
  BY HoldingIsFinite, OneMore
<1>3. today < Headroom \/ f = faults + 1
  BY <1>1 DEF Gate
<1>4. Bounded' <=> today + MaxCost * n <= Headroom - 1 + MaxCost * (MaxDocker + f)
  BY DEF Bounded, Exposure, Limit
<1> HIDE DEF f, n
<1> DEFINE k == MaxCost * Cardinality(Running)
           kk == MaxCost * n
           d == MaxCost * MaxDocker
           l == MaxCost * (MaxDocker + faults)
           ll == MaxCost * (MaxDocker + f)
           m == MaxCost * f
<1>5. k \in Int /\ kk \in Int /\ d \in Int /\ l \in Int /\ ll \in Int /\ m \in Nat
  <2>1. m \in Nat
    BY <1>1, Monotone
  <2>2. QED
    BY <1>1, <2>1
<1>6. CASE today < Headroom
  <2>1. kk <= d
    BY <1>1, Monotone
  <2>2. ll = d + m
    BY <1>1, Distribute
  <2> HIDE DEF kk, d, ll, m
  <2>3. today + kk <= Headroom - 1 + ll
    BY <1>1, <1>5, <1>6, <2>1, <2>2
  <2>4. QED
    BY <1>4, <2>3 DEF kk, ll
<1>7. CASE f = faults + 1
  <2>1. kk = k + MaxCost
    BY <1>1, <1>2, Distribute
  <2>2. ll = l + MaxCost
    <3>1. MaxDocker + f = (MaxDocker + faults) + 1 /\ MaxDocker + faults \in Int
      BY <1>1, <1>7
    <3>2. MaxCost * ((MaxDocker + faults) + 1) = l + MaxCost * 1
      BY <1>1, <3>1, Distribute
    <3>3. QED
      BY <1>1, <3>1, <3>2
  <2>3. today + k <= Headroom - 1 + l
    BY DEF Bounded, Exposure, Limit
  <2> HIDE DEF k, kk, l, ll
  <2>4. today + kk <= Headroom - 1 + ll
    BY <1>1, <1>5, <2>1, <2>2, <2>3
  <2>5. QED
    BY <1>4, <2>4 DEF kk, ll
<1>8. QED
  BY <1>3, <1>6, <1>7

\* The fold moves what a run was good for into the ledger.
LEMMA BookExposes ==
    ASSUME IInv, IInv', Bounded, NEW r \in Running, NEW cost \in 0..MaxCost,
           Book(r, cost), Running' = Running \ {r}
    PROVE  Bounded'
<1>1. CASE today' = today + cost /\ UNCHANGED faults
  <2> DEFINE t == today'
             n == Cardinality(Running')
  <2>1. /\ MaxCost \in Nat /\ MaxDocker \in Nat /\ Headroom \in Nat
        /\ today \in Nat /\ faults \in Nat /\ Cardinality(Running) \in Nat
        /\ t \in Nat /\ n \in Nat /\ t = today + cost
    BY <1>1, Numbers, NumbersNext
  <2>2. n = Cardinality(Running) - 1
    BY HoldingIsFinite, OneLess
  <2>3. Bounded' <=> t + MaxCost * n <= Headroom - 1 + MaxCost * (MaxDocker + faults)
    BY <1>1 DEF Bounded, Exposure, Limit
  <2> HIDE DEF t, n
  <2> DEFINE k == MaxCost * Cardinality(Running)
             kk == MaxCost * n
             l == MaxCost * (MaxDocker + faults)
  <2>4. k \in Int /\ kk \in Int /\ l \in Int
    BY <2>1
  <2>5. k = kk + MaxCost
    <3>1. Cardinality(Running) = n + 1
      BY <2>1, <2>2
    <3>2. QED
      BY <2>1, <3>1, Distribute
  <2>6. today + k <= Headroom - 1 + l
    BY DEF Bounded, Exposure, Limit
  <2> HIDE DEF k, kk, l
  <2>7. t + kk <= Headroom - 1 + l
    BY <2>1, <2>4, <2>5, <2>6
  <2>8. QED
    BY <2>3, <2>7 DEF kk, l
<1>2. CASE faults' = faults + 1 /\ UNCHANGED ledger
  BY <1>2, Numbers, NoMoreExposed DEF ledger
<1>3. QED
  BY <1>1, <1>2 DEF Book

LEMMA InitExposure == Init => Bounded
<1> SUFFICES ASSUME Init PROVE Bounded
  OBVIOUS
<1>1. IInv
  BY InitIInv
<1>2. Cardinality(Running) = 0
  <2>1. Running = {}
    BY DEF Init, Running
  <2>2. QED
    BY <2>1, FS_EmptySet
<1>3. today <= Headroom /\ faults = 0
  BY DEF Init
<1>4. MaxCost * MaxDocker >= 1
  <2>1. MaxCost \in Nat /\ MaxDocker \in Nat /\ 1 <= MaxDocker /\ 1 <= MaxCost /\ MaxCost * 1 = MaxCost
    OBVIOUS
  <2>2. MaxCost * 1 <= MaxCost * MaxDocker
    BY <2>1, Monotone
  <2>3. QED
    BY <2>1, <2>2
<1> DEFINE d == MaxCost * MaxDocker
<1>5. d \in Nat /\ d >= 1
  BY <1>1, <1>4, LimitIs
<1>6. Exposure = today /\ Limit = Headroom - 1 + d
  BY <1>1, <1>2, <1>3, Numbers DEF Bounded, Exposure, Limit
<1> HIDE DEF d
<1>7. QED
  BY <1>1, <1>3, <1>5, <1>6, Numbers DEF Bounded

LEMMA ExecutionKeepsExposure ==
    ASSUME IInv, IInv', Bounded, NEW r \in Runs, Execution(r)
    PROVE  Bounded'
<1>1. TypeOK /\ today \in Nat /\ faults \in Nat
  BY Numbers DEF IInv
<1>2. CASE Admit(r) \/ Acquire(r)
  <2>1. Running' \subseteq Running /\ today' = today
    BY <1>1, <1>2 DEF Admit, Acquire, Ends, Running, ledger, TypeOK
  <2>2. faults' = faults \/ Gate(TRUE) \/ Gate(FALSE)
    BY <1>2 DEF Admit, Acquire
  <2>3. faults <= faults'
    BY <1>1, <2>2 DEF Gate
  <2>4. QED
    BY <1>1, <2>1, <2>3, NoMoreExposed
<1>3. CASE Start(r)
  <2>1. Gate(TRUE) \/ Gate(FALSE)
    BY <1>3 DEF Start
  <2>2. pc[r] = "leased" /\ today' = today /\ faults <= faults'
    BY <1>1, <1>3, <2>1 DEF Start, Gate, ledger
  <2>3. CASE \E why \in {"budget_denied", "agent_error"} : Ends(r, why)
    <3>1. Running' \subseteq Running
      BY <1>1, <2>2, <2>3 DEF Ends, Running, TypeOK
    <3>2. QED
      BY <1>1, <2>2, <3>1, NoMoreExposed
  <2>4. CASE Gate(FALSE) /\ pc' = [pc EXCEPT ![r] = "running"]
    <3>1. r \notin Running /\ Running' = Running \cup {r}
      BY <1>1, <2>2, <2>4 DEF Running, TypeOK
    <3>2. QED
      BY <2>2, <2>4, <3>1, StartExposes
  <2>5. QED
    BY <1>3, <2>3, <2>4 DEF Start
<1>4. CASE AgentEnds(r)
  <2>1. r \in Running /\ Running' = Running \ {r}
    BY <1>1, <1>4 DEF AgentEnds, Running, TypeOK
  <2>2. PICK cost \in 0..MaxCost : Book(r, cost)
    BY <1>1, <1>4 DEF AgentEnds, TypeOK
  <2>3. QED
    BY <2>1, <2>2, BookExposes
<1>5. CASE AgentRaises(r) \/ Score(r) \/ Envelope(r) \/ Unwind(r)
  <2>1. Running' \subseteq Running /\ today' = today /\ faults' = faults
    BY <1>1, <1>5 DEF AgentRaises, Score, Envelope, Unwind, Ends, Running, ledger, TypeOK
  <2>2. QED
    BY <1>1, <2>1, NoMoreExposed
<1>6. QED
  BY <1>2, <1>3, <1>4, <1>5 DEF Execution

LEMMA NextKeepsExposure ==
    IInv /\ IInv' /\ Bounded /\ [Next]_vars => Bounded'
<1> SUFFICES ASSUME IInv, IInv', Bounded, [Next]_vars PROVE Bounded'
  OBVIOUS
<1>1. today \in Nat /\ faults \in Nat
  BY Numbers
<1>2. CASE UNCHANGED vars
  <2>1. Running' = Running /\ today' = today /\ faults' = faults
    BY <1>2 DEF vars, ledger, Running
  <2>2. QED
    BY <1>1, <2>1, NoMoreExposed
<1>3. CASE \E r \in Runs : Execution(r)
  BY <1>3, ExecutionKeepsExposure
<1>4. CASE Interrupt
  <2>1. Running' \subseteq Running /\ today' = today /\ faults' = faults
    BY <1>4 DEF Interrupt, Running, ledger
  <2>2. QED
    BY <1>1, <2>1, NoMoreExposed
<1>5. CASE NewDay
  <2>1. Running' = Running /\ today' <= today /\ faults' = faults
    BY <1>1, <1>5 DEF NewDay, Running
  <2>2. QED
    BY <1>1, <2>1, NoMoreExposed
<1>6. QED
  BY <1>2, <1>3, <1>4, <1>5 DEF Next

\* What the day's ledger can reach: below the headroom, plus one run for each
\* slot, plus one run for each fault of the ledger, whatever the number of the
\* executions, of those that wait for a slot and of the evaluations cancelled.
THEOREM OvershootHolds == Spec => []OvershootIsBounded
<1>1. IInv /\ Bounded => OvershootIsBounded
  <2> SUFFICES ASSUME IInv, Bounded PROVE OvershootIsBounded
    OBVIOUS
  <2> DEFINE k == MaxCost * Cardinality(Running)
             l == MaxCost * (MaxDocker + faults)
  <2>1. k \in Nat /\ l \in Int /\ today + k <= Headroom - 1 + l
    BY LimitIs, Numbers DEF Bounded, Exposure, Limit
  <2> HIDE DEF k, l
  <2>2. today <= Headroom - 1 + l
    BY <2>1, Numbers
  <2>3. QED
    BY <2>2 DEF OvershootIsBounded, l
<1>2. QED
  BY <1>1, IInvHolds, InitExposure, NextKeepsExposure, PTL DEF Spec
-----------------------------------------------------------------------------
(* The telemetry rows.  That a cancelled execution never gets to a row     *)
(* takes that only its unwinding is left to it.                            *)

CancelledRunsStop ==
    \A r \in Runs : verdict[r] = "cancelled" => pc[r] \in {"unwinding", "ended"}

RowInv == TypeOK /\ OneRowPerExecution /\ CancelledRunsStop

LEMMA InitRowInv == Init => OneRowPerExecution /\ CancelledRunsStop
BY DEF Init, OneRowPerExecution, CancelledRunsStop

\* An execution that is not over and not cancelled ends with its row.
LEMMA EndsWritesItsRow ==
    ASSUME RowInv, NEW r \in Runs, pc[r] # "ended", verdict[r] # "cancelled",
           NEW why \in Reasons \cup {"budget_denied"}, Ends(r, why), UNCHANGED verdict
    PROVE  OneRowPerExecution' /\ CancelledRunsStop'
<1>1. TypeOK /\ rows' = [rows EXCEPT ![r] = Append(@, why)] /\ pc' = [pc EXCEPT ![r] = "ended"]
  BY DEF RowInv, Ends
<1>2. Len(rows[r]) = 0
  BY DEF RowInv, OneRowPerExecution
<1>3. Len(rows'[r]) = 1
  <2>1. rows[r] \in Seq(Reasons \cup {"budget_denied"}) /\ rows'[r] = Append(rows[r], why)
    BY <1>1 DEF TypeOK
  <2>2. QED
    BY <1>2, <2>1
<1>4. \A x \in Runs \ {r} : rows'[x] = rows[x] /\ pc'[x] = pc[x]
  BY <1>1 DEF TypeOK
<1>5. pc'[r] = "ended"
  BY <1>1 DEF TypeOK
<1>6. QED
  BY <1>3, <1>4, <1>5 DEF RowInv, OneRowPerExecution, CancelledRunsStop

LEMMA ExecutionKeepsRows ==
    ASSUME RowInv, ScoredRunsEnded, NEW r \in Runs, Execution(r)
    PROVE  OneRowPerExecution' /\ CancelledRunsStop'
<1>1. {"timeout", "agent_error", "completed", "budget_denied"} = Reasons \cup {"budget_denied"}
  BY DEF Reasons, Degraded
<1>2. CASE Admit(r)
  <2>1. pc[r] = "queued" /\ verdict[r] # "cancelled" /\ UNCHANGED verdict
    BY <1>2 DEF Admit, RowInv, CancelledRunsStop
  <2>2. CASE \E why \in {"agent_error", "budget_denied"} : Ends(r, why)
    BY <1>1, <2>1, <2>2, EndsWritesItsRow
  <2>3. CASE pc' = [pc EXCEPT ![r] = "waiting"] /\ UNCHANGED rows
    BY <2>1, <2>3 DEF RowInv, TypeOK, OneRowPerExecution, CancelledRunsStop
  <2>4. QED
    BY <1>2, <2>2, <2>3 DEF Admit
<1>3. CASE Acquire(r)
  <2>1. pc[r] = "waiting" /\ verdict[r] # "cancelled" /\ UNCHANGED verdict
    BY <1>3 DEF Acquire, RowInv, CancelledRunsStop
  <2>2. CASE Ends(r, "agent_error")
    BY <1>1, <2>1, <2>2, EndsWritesItsRow
  <2>3. CASE pc' = [pc EXCEPT ![r] = "leased"] /\ UNCHANGED rows
    BY <2>1, <2>3 DEF RowInv, TypeOK, OneRowPerExecution, CancelledRunsStop
  <2>4. QED
    BY <1>3, <2>2, <2>3 DEF Acquire
<1>4. CASE Start(r)
  <2>1. pc[r] = "leased" /\ verdict[r] # "cancelled" /\ UNCHANGED verdict
    BY <1>4 DEF Start, RowInv, CancelledRunsStop
  <2>2. CASE \E why \in {"agent_error", "budget_denied"} : Ends(r, why)
    BY <1>1, <2>1, <2>2, EndsWritesItsRow
  <2>3. CASE pc' = [pc EXCEPT ![r] = "running"] /\ UNCHANGED rows
    BY <2>1, <2>3 DEF RowInv, TypeOK, OneRowPerExecution, CancelledRunsStop
  <2>4. QED
    BY <1>4, <2>2, <2>3 DEF Start
<1>5. CASE AgentEnds(r)
  <2>1. pc[r] = "running" /\ UNCHANGED rows /\ pc' = [pc EXCEPT ![r] = "scoring"]
    BY <1>5 DEF AgentEnds
  <2>2. PICK why \in Reasons : verdict' = [verdict EXCEPT ![r] = why]
    BY <1>5 DEF AgentEnds
  <2>3. why # "cancelled"
    BY DEF Reasons, Degraded
  <2>4. QED
    BY <2>1, <2>2, <2>3 DEF RowInv, TypeOK, OneRowPerExecution, CancelledRunsStop
<1>6. CASE AgentRaises(r)
  <2>1. pc[r] = "running" /\ verdict[r] # "cancelled" /\ UNCHANGED verdict
    BY <1>6 DEF AgentRaises, RowInv, CancelledRunsStop
  <2>2. QED
    BY <1>1, <1>6, <2>1, EndsWritesItsRow DEF AgentRaises
<1>7. CASE Score(r)
  <2>1. pc[r] = "scoring" /\ verdict[r] # "cancelled" /\ UNCHANGED verdict
    BY <1>7 DEF Score, RowInv, CancelledRunsStop
  <2>2. PICK why \in Reasons : Ends(r, why)
    BY <1>7 DEF Score, Reasons, ScoredRunsEnded
  <2>3. QED
    BY <2>1, <2>2, EndsWritesItsRow
<1>8. CASE Envelope(r)
  <2>1. CASE pc[r] \in {"leased", "scoring"} /\ Ends(r, "timeout") /\ UNCHANGED verdict
    <3>1. verdict[r] # "cancelled"
      BY <2>1 DEF RowInv, CancelledRunsStop
    <3>2. QED
      BY <1>1, <2>1, <3>1, EndsWritesItsRow
  <2>2. CASE /\ pc[r] = "running" /\ UNCHANGED rows
             /\ pc' = [pc EXCEPT ![r] = "unwinding"]
             /\ verdict' = [verdict EXCEPT ![r] = "timeout"]
    BY <2>2 DEF RowInv, TypeOK, OneRowPerExecution, CancelledRunsStop
  <2>3. QED
    BY <1>8, <2>1, <2>2 DEF Envelope
<1>9. CASE Unwind(r)
  <2>1. pc[r] = "unwinding" /\ UNCHANGED verdict
    BY <1>9 DEF Unwind
  <2>2. CASE verdict[r] = "timeout" /\ Ends(r, "timeout")
    BY <1>1, <2>1, <2>2, EndsWritesItsRow
  <2>3. CASE verdict[r] = "cancelled" /\ pc' = [pc EXCEPT ![r] = "ended"] /\ UNCHANGED rows
    BY <2>1, <2>3 DEF RowInv, TypeOK, OneRowPerExecution, CancelledRunsStop
  <2>4. QED
    BY <1>9, <2>2, <2>3 DEF Unwind
<1>10. QED
  BY <1>2, <1>3, <1>4, <1>5, <1>6, <1>7, <1>8, <1>9 DEF Execution
LEMMA NextKeepsRows ==
    IInv /\ OneRowPerExecution /\ CancelledRunsStop /\ [Next]_vars
        => OneRowPerExecution' /\ CancelledRunsStop'
<1> SUFFICES ASSUME IInv, OneRowPerExecution, CancelledRunsStop, [Next]_vars
             PROVE  OneRowPerExecution' /\ CancelledRunsStop'
  OBVIOUS
<1>1. RowInv /\ ScoredRunsEnded
  BY DEF IInv, RowInv
<1>2. CASE UNCHANGED vars
  BY <1>2 DEF vars, OneRowPerExecution, CancelledRunsStop
<1>3. CASE \E r \in Runs : Execution(r)
  BY <1>1, <1>3, ExecutionKeepsRows
<1>4. CASE Interrupt
  <2>1. \A r \in Runs : pc'[r] \in {"unwinding", "ended"}
    BY <1>4 DEF Interrupt
  <2>2. \A r \in Runs : pc[r] = "ended" => pc'[r] = "ended" /\ verdict'[r] = verdict[r]
    BY <1>4 DEF Interrupt
  <2>3. \A r \in Runs : pc[r] # "ended" => verdict'[r] = "cancelled"
    BY <1>4 DEF Interrupt
  <2>4. UNCHANGED rows
    BY <1>4 DEF Interrupt
  <2>5. QED
    BY <2>1, <2>2, <2>3, <2>4 DEF OneRowPerExecution, CancelledRunsStop
<1>5. CASE NewDay
  BY <1>5 DEF NewDay, OneRowPerExecution, CancelledRunsStop
<1>6. QED
  BY <1>2, <1>3, <1>4, <1>5 DEF Next

\* However an execution ends, by itself, by its budget, its envelope or an
\* exception, it writes one row, and none when it was cancelled.
THEOREM OneRowHolds == Spec => []OneRowPerExecution
BY InitRowInv, NextKeepsRows, IInvHolds, PTL DEF Spec
-----------------------------------------------------------------------------
(* The undercount.  An execution whose spend is not booked as it was, once *)
(* over, has a degraded row, was cancelled, or completed at a ledger       *)
(* fault; the executions of the last kind are counted by the faults.       *)

Undisturbed(r) ==
    /\ pc[r] \in {"queued", "waiting", "leased"} =>
          spent[r] = 0 /\ booked[r] = 0 /\ verdict[r] = "none"
    /\ pc[r] = "running" => booked[r] = 0 /\ verdict[r] = "none"
    /\ pc[r] = "unwinding" => verdict[r] \in {"timeout", "cancelled"}

Excused(r) ==
    pc[r] = "ended" /\ booked[r] # spent[r] =>
        HasDegradedRow(r) \/ verdict[r] \in {"cancelled", "completed"}

Lapsed == {r \in Runs : verdict[r] = "completed" /\ booked[r] # spent[r]}

Fates == \A r \in Runs : Undisturbed(r) /\ Excused(r)

UInv == Fates /\ Cardinality(Lapsed) <= faults

\* The other executions of a step keep all that is theirs.
Still(x) ==
    /\ pc'[x] = pc[x] /\ verdict'[x] = verdict[x] /\ rows'[x] = rows[x]
    /\ spent'[x] = spent[x] /\ booked'[x] = booked[x]

LEMMA StillKeepsFate ==
    ASSUME NEW x \in Runs, Still(x), Undisturbed(x), Excused(x)
    PROVE  Undisturbed(x)' /\ Excused(x)'
BY DEF Still, Undisturbed, Excused, HasDegradedRow

\* The row an execution ends with is one of its rows.
LEMMA EndsWithDegradedRow ==
    ASSUME TypeOK, NEW r \in Runs, NEW why \in Degraded, Ends(r, why)
    PROVE  HasDegradedRow(r)'
<1>1. why \in Reasons \cup {"budget_denied"} /\ rows[r] \in Seq(Reasons \cup {"budget_denied"})
  BY DEF TypeOK, Reasons
<1>2. rows'[r] = Append(rows[r], why)
  BY DEF Ends, TypeOK
<1>3. Len(rows[r]) + 1 \in DOMAIN rows'[r] /\ rows'[r][Len(rows[r]) + 1] = why
  BY <1>1, <1>2
<1>4. QED
  BY <1>3 DEF HasDegradedRow

\* Ends touches the execution that ends alone.
LEMMA EndsStill ==
    ASSUME TypeOK, NEW r \in Runs, NEW why, Ends(r, why), UNCHANGED <<verdict, spent, booked>>
    PROVE  /\ \A x \in Runs \ {r} : Still(x)
           /\ pc'[r] = "ended" /\ verdict'[r] = verdict[r]
           /\ spent'[r] = spent[r] /\ booked'[r] = booked[r]
BY DEF TypeOK, Ends, Still

\* An execution that ends with a degraded row, or whose spend is booked, is
\* excused.
LEMMA EndsExcused ==
    ASSUME TypeOK, Fates, NEW r \in Runs, NEW why, Ends(r, why),
           UNCHANGED <<verdict, spent, booked>>,
           why \in Degraded \/ booked[r] = spent[r] \/ verdict[r] = "completed"
    PROVE  Fates'
<1>1. /\ \A x \in Runs \ {r} : Still(x)
      /\ pc'[r] = "ended" /\ verdict'[r] = verdict[r]
      /\ spent'[r] = spent[r] /\ booked'[r] = booked[r]
  BY EndsStill
<1>2. Undisturbed(r)'
  BY <1>1 DEF Undisturbed
<1>3. Excused(r)'
  <2>1. CASE why \in Degraded
    BY <2>1, EndsWithDegradedRow DEF Excused
  <2>2. CASE booked[r] = spent[r] \/ verdict[r] = "completed"
    BY <1>1, <2>2 DEF Excused
  <2>3. QED
    BY <2>1, <2>2
<1>4. QED
  BY <1>1, <1>2, <1>3, StillKeepsFate DEF Fates

\* An execution that goes on: what is left to show is its own fate.
LEMMA GoesOn ==
    ASSUME Fates, NEW r \in Runs, \A x \in Runs \ {r} : Still(x),
           pc'[r] # "ended", Undisturbed(r)'
    PROVE  Fates'
BY StillKeepsFate DEF Fates, Excused

LEMMA ExecutionKeepsFates ==
    ASSUME TypeOK, ScoredRunsEnded, Fates, NEW r \in Runs, Execution(r)
    PROVE  Fates'
<1>1. Undisturbed(r) /\ Excused(r)
  BY DEF Fates
<1>2. "agent_error" \in Degraded /\ "timeout" \in Degraded
  BY DEF Degraded
<1>3. CASE Admit(r)
  <2>1. booked[r] = spent[r] /\ UNCHANGED <<verdict, spent, booked>>
    BY <1>1, <1>3 DEF Admit, Undisturbed, ledger
  <2>2. CASE \E why \in {"agent_error", "budget_denied"} : Ends(r, why)
    BY <2>1, <2>2, EndsExcused
  <2>3. CASE pc' = [pc EXCEPT ![r] = "waiting"] /\ UNCHANGED rows
    <3>1. pc[r] = "queued"
      BY <1>3 DEF Admit
    <3>2. (\A x \in Runs \ {r} : Still(x)) /\ pc'[r] = "waiting" /\ Undisturbed(r)'
      BY <1>1, <2>1, <2>3, <3>1 DEF TypeOK, Still, Undisturbed
    <3>3. QED
      BY <3>2, GoesOn
  <2>4. QED
    BY <1>3, <2>2, <2>3 DEF Admit
<1>4. CASE Acquire(r)
  <2>1. booked[r] = spent[r] /\ UNCHANGED <<verdict, spent, booked>>
    BY <1>1, <1>4 DEF Acquire, Undisturbed, ledger
  <2>2. CASE Ends(r, "agent_error")
    BY <2>1, <2>2, EndsExcused
  <2>3. CASE pc' = [pc EXCEPT ![r] = "leased"] /\ UNCHANGED rows
    <3>1. pc[r] = "waiting"
      BY <1>4 DEF Acquire
    <3>2. (\A x \in Runs \ {r} : Still(x)) /\ pc'[r] = "leased" /\ Undisturbed(r)'
      BY <1>1, <2>1, <2>3, <3>1 DEF TypeOK, Still, Undisturbed
    <3>3. QED
      BY <3>2, GoesOn
  <2>4. QED
    BY <1>4, <2>2, <2>3 DEF Acquire
<1>5. CASE Start(r)
  <2>1. pc[r] = "leased" /\ booked[r] = spent[r] /\ UNCHANGED <<verdict, booked>>
    BY <1>1, <1>5 DEF Start, Undisturbed, ledger
  <2>2. CASE (\E why \in {"agent_error", "budget_denied"} : Ends(r, why)) /\ UNCHANGED spent
    BY <2>1, <2>2, EndsExcused
  <2>3. CASE /\ \E cost \in 0..MaxCost : spent' = [spent EXCEPT ![r] = cost]
             /\ pc' = [pc EXCEPT ![r] = "running"] /\ UNCHANGED rows
    <3>1. (\A x \in Runs \ {r} : Still(x)) /\ pc'[r] = "running" /\ Undisturbed(r)'
      BY <1>1, <2>1, <2>3 DEF TypeOK, Still, Undisturbed
    <3>2. QED
      BY <3>1, GoesOn
  <2>4. QED
    BY <1>5, <2>2, <2>3 DEF Start
<1>6. CASE AgentEnds(r)
  <2>1. pc' = [pc EXCEPT ![r] = "scoring"] /\ UNCHANGED <<spent, rows>>
    BY <1>6 DEF AgentEnds
  <2>2. \E why \in Reasons : verdict' = [verdict EXCEPT ![r] = why]
    BY <1>6 DEF AgentEnds
  <2>3. PICK cost \in 0..MaxCost : Book(r, cost)
    BY <1>6 DEF AgentEnds, TypeOK
  <2>4. \A x \in Runs \ {r} : booked'[x] = booked[x]
    BY <2>3 DEF Book, ledger, TypeOK
  <2>5. (\A x \in Runs \ {r} : Still(x)) /\ pc'[r] = "scoring"
    BY <2>1, <2>2, <2>4 DEF TypeOK, Still
  <2>6. Undisturbed(r)'
    BY <2>5 DEF Undisturbed
  <2>7. QED
    BY <2>5, <2>6, GoesOn
<1>7. CASE AgentRaises(r)
  BY <1>2, <1>7, EndsExcused DEF AgentRaises, ledger
<1>8. CASE Score(r)
  <2>1. verdict[r] \in {"completed"} \cup Degraded /\ UNCHANGED <<verdict, spent, booked>>
    BY <1>8 DEF Score, ScoredRunsEnded, Reasons, ledger
  <2>2. PICK why : Ends(r, why) /\ why \in {verdict[r]} \cup Degraded
    BY <1>8 DEF Score
  <2>3. why \in Degraded \/ verdict[r] = "completed"
    BY <2>1, <2>2
  <2>4. QED
    BY <2>1, <2>2, <2>3, EndsExcused
<1>9. CASE Envelope(r)
  <2>1. CASE Ends(r, "timeout") /\ UNCHANGED verdict
    BY <1>2, <1>9, <2>1, EndsExcused DEF Envelope, ledger
  <2>2. CASE /\ pc' = [pc EXCEPT ![r] = "unwinding"] /\ UNCHANGED rows
             /\ verdict' = [verdict EXCEPT ![r] = "timeout"]
    <3>1. UNCHANGED <<spent, booked>>
      BY <1>9 DEF Envelope, ledger
    <3>2. (\A x \in Runs \ {r} : Still(x)) /\ pc'[r] = "unwinding" /\ Undisturbed(r)'
      BY <2>2, <3>1 DEF TypeOK, Still, Undisturbed
    <3>3. QED
      BY <3>2, GoesOn
  <2>3. QED
    BY <1>9, <2>1, <2>2 DEF Envelope
<1>10. CASE Unwind(r)
  <2>1. UNCHANGED <<verdict, spent, booked>>
    BY <1>10 DEF Unwind, ledger
  <2>2. CASE Ends(r, "timeout")
    BY <1>2, <2>1, <2>2, EndsExcused
  <2>3. CASE verdict[r] = "cancelled" /\ pc' = [pc EXCEPT ![r] = "ended"] /\ UNCHANGED rows
    <3>1. \A x \in Runs \ {r} : Still(x)
      BY <2>1, <2>3 DEF TypeOK, Still
    <3>2. Undisturbed(r)' /\ Excused(r)'
      BY <2>1, <2>3 DEF TypeOK, Undisturbed, Excused
    <3>3. QED
      BY <3>1, <3>2, StillKeepsFate DEF Fates
  <2>4. QED
    BY <1>10, <2>2, <2>3 DEF Unwind
<1>11. QED
  BY <1>3, <1>4, <1>5, <1>6, <1>7, <1>8, <1>9, <1>10 DEF Execution

LEMMA InterruptKeepsFates ==
    ASSUME TypeOK, Fates, Interrupt
    PROVE  Fates'
<1> SUFFICES ASSUME NEW r \in Runs PROVE Undisturbed(r)' /\ Excused(r)'
  BY DEF Fates
<1>1. Undisturbed(r) /\ Excused(r) /\ UNCHANGED <<spent, booked, rows>>
  BY DEF Fates, Interrupt, ledger
<1>2. CASE pc[r] = "ended"
  <2>1. Still(r)
    BY <1>1, <1>2 DEF Interrupt, Still
  <2>2. QED
    BY <1>1, <2>1, StillKeepsFate
<1>3. CASE pc[r] # "ended"
  <2>1. pc'[r] \in {"unwinding", "ended"} /\ verdict'[r] = "cancelled"
    BY <1>3 DEF Interrupt
  <2>2. QED
    BY <2>1 DEF Undisturbed, Excused
<1>4. QED
  BY <1>2, <1>3

-----------------------------------------------------------------------------
(* The executions that completed at a fault of the ledger.                 *)

LEMMA LapsedIsFinite ==
    IsFiniteSet(Lapsed) /\ Cardinality(Lapsed) \in Nat
<1>1. Lapsed \subseteq Runs
  BY DEF Lapsed
<1>2. QED
  BY <1>1, FS_Subset, FS_CardinalityType

LEMMA LapsedShrinks ==
    ASSUME Cardinality(Lapsed) <= faults, faults \in Nat, faults' \in Nat,
           faults <= faults', Lapsed' \subseteq Lapsed
    PROVE  Cardinality(Lapsed)' <= faults'
<1>1. IsFiniteSet(Lapsed') /\ Cardinality(Lapsed') \in Nat /\ Cardinality(Lapsed') <= Cardinality(Lapsed)
  BY LapsedIsFinite, FS_Subset, FS_CardinalityType
<1>2. QED
  BY <1>1, LapsedIsFinite

LEMMA LapsedGrows ==
    ASSUME Cardinality(Lapsed) <= faults, faults \in Nat,
           faults' = faults + 1, NEW r, Lapsed' \subseteq Lapsed \cup {r}
    PROVE  Cardinality(Lapsed)' <= faults'
<1>1. /\ IsFiniteSet(Lapsed \cup {r}) /\ Cardinality(Lapsed \cup {r}) \in Nat
      /\ Cardinality(Lapsed \cup {r}) <= Cardinality(Lapsed) + 1
  <2>1. CASE r \in Lapsed
    <3>1. Lapsed \cup {r} = Lapsed
      BY <2>1
    <3>2. Cardinality(Lapsed \cup {r}) = Cardinality(Lapsed) /\ IsFiniteSet(Lapsed \cup {r})
      BY <3>1, LapsedIsFinite, Zenon
    <3>3. QED
      BY <3>2, LapsedIsFinite
  <2>2. CASE r \notin Lapsed
    <3>1. /\ IsFiniteSet(Lapsed \cup {r})
          /\ Cardinality(Lapsed \cup {r}) = Cardinality(Lapsed) + 1
      BY <2>2, LapsedIsFinite, FS_AddElement
    <3>2. QED
      BY <3>1, LapsedIsFinite
  <2>3. QED
    BY <2>1, <2>2
<1>2. Cardinality(Lapsed') \in Nat /\ Cardinality(Lapsed') <= Cardinality(Lapsed \cup {r})
  BY <1>1, FS_Subset, FS_CardinalityType
<1>3. QED
  BY <1>1, <1>2, LapsedIsFinite

LEMMA ExecutionKeepsLapsed ==
    ASSUME TypeOK, TypeOK', Fates, Cardinality(Lapsed) <= faults,
           NEW r \in Runs, Execution(r)
    PROVE  Cardinality(Lapsed)' <= faults'
<1>1. faults \in Nat /\ faults' \in Nat
  BY DEF TypeOK
<1>2. Undisturbed(r)
  BY DEF Fates
<1>3. CASE Admit(r) \/ Acquire(r) \/ Start(r)
  <2>1. faults' = faults \/ Gate(TRUE) \/ Gate(FALSE)
    BY <1>3 DEF Admit, Acquire, Start
  <2>2. faults <= faults'
    BY <1>1, <2>1 DEF Gate
  <2>3. verdict[r] # "completed" /\ UNCHANGED <<verdict, booked>>
    BY <1>2, <1>3 DEF Undisturbed, Admit, Acquire, Start, ledger
  <2>4. \A x \in Runs \ {r} : spent'[x] = spent[x]
    BY <1>3 DEF Admit, Acquire, Start, TypeOK
  <2>5. Lapsed' \subseteq Lapsed
    BY <2>3, <2>4 DEF Lapsed
  <2>6. QED
    BY <1>1, <2>2, <2>5, LapsedShrinks
<1>4. CASE AgentEnds(r)
  <2>1. PICK why \in Reasons :
           /\ verdict' = [verdict EXCEPT ![r] = why]
           /\ \/ Book(r, spent[r])
              \/ why \in Degraded /\ Book(r, 0)
    BY <1>4, Zenon DEF AgentEnds
  <2>2. UNCHANGED spent
    BY <1>4 DEF AgentEnds
  <2>3. CASE faults' = faults + 1 /\ UNCHANGED ledger
    <3>1. Lapsed' \subseteq Lapsed \cup {r}
      BY <2>1, <2>2, <2>3 DEF Lapsed, ledger, TypeOK
    <3>2. QED
      BY <1>1, <2>3, <3>1, LapsedGrows
  <2>4. CASE booked' = [booked EXCEPT ![r] = spent[r]] /\ UNCHANGED faults
    <3>1. Lapsed' \subseteq Lapsed
      BY <2>1, <2>2, <2>4 DEF Lapsed, TypeOK
    <3>2. QED
      BY <1>1, <2>4, <3>1, LapsedShrinks
  <2>5. CASE why \in Degraded /\ booked' = [booked EXCEPT ![r] = 0] /\ UNCHANGED faults
    <3>1. Lapsed' \subseteq Lapsed
      BY <2>1, <2>2, <2>5 DEF Lapsed, TypeOK, Degraded
    <3>2. QED
      BY <1>1, <2>5, <3>1, LapsedShrinks
  <2>6. QED
    BY <2>1, <2>3, <2>4, <2>5 DEF Book
<1>5. CASE AgentRaises(r) \/ Score(r) \/ Unwind(r)
  <2>1. UNCHANGED <<verdict, spent, booked, faults>>
    BY <1>5 DEF AgentRaises, Score, Unwind, ledger
  <2>2. Lapsed' \subseteq Lapsed
    BY <2>1 DEF Lapsed
  <2>3. QED
    BY <1>1, <2>1, <2>2, LapsedShrinks
<1>6. CASE Envelope(r)
  <2>1. UNCHANGED <<spent, booked, faults>>
    BY <1>6 DEF Envelope, ledger
  <2>2. UNCHANGED verdict \/ verdict' = [verdict EXCEPT ![r] = "timeout"]
    BY <1>6 DEF Envelope
  <2>3. Lapsed' \subseteq Lapsed
    BY <2>1, <2>2 DEF Lapsed, TypeOK
  <2>4. QED
    BY <1>1, <2>1, <2>3, LapsedShrinks
<1>7. QED
  BY <1>3, <1>4, <1>5, <1>6 DEF Execution

LEMMA InitUInv == Init => UInv
<1> SUFFICES ASSUME Init PROVE UInv
  OBVIOUS
<1>1. Fates
  BY DEF Init, Fates, Undisturbed, Excused
<1>2. Lapsed = {}
  BY DEF Init, Lapsed
<1>3. Cardinality(Lapsed) = 0
  BY <1>2, FS_EmptySet
<1>4. QED
  BY <1>1, <1>3 DEF UInv, Init

LEMMA NextKeepsUInv ==
    IInv /\ IInv' /\ UInv /\ [Next]_vars => UInv'
<1> SUFFICES ASSUME IInv, IInv', UInv, [Next]_vars PROVE UInv'
  OBVIOUS
<1>1. /\ TypeOK /\ TypeOK' /\ ScoredRunsEnded /\ Fates /\ Cardinality(Lapsed) <= faults
      /\ faults \in Nat /\ faults' \in Nat
  <2>1. TypeOK /\ ScoredRunsEnded
    BY Zenon DEF IInv
  <2>2. TypeOK'
    BY Zenon DEF IInv
  <2>3. Fates /\ Cardinality(Lapsed) <= faults
    BY Zenon DEF UInv
  <2>4. faults \in Nat /\ faults' \in Nat
    BY <2>1, <2>2 DEF TypeOK
  <2>5. QED
    BY <2>1, <2>2, <2>3, <2>4, Zenon
<1>2. CASE \E r \in Runs : Execution(r)
  BY <1>1, <1>2, ExecutionKeepsFates, ExecutionKeepsLapsed DEF UInv
<1>3. CASE Interrupt
  <2>1. Fates' /\ UNCHANGED <<spent, booked, faults>>
    BY <1>1, <1>3, InterruptKeepsFates DEF Interrupt, ledger
  <2>2. Lapsed' \subseteq Lapsed
    BY <1>3, <2>1 DEF Interrupt, Lapsed
  <2>3. QED
    BY <1>1, <2>1, <2>2, LapsedShrinks DEF UInv
<1>4. CASE NewDay \/ UNCHANGED vars
  <2>1. UNCHANGED <<pc, verdict, spent, booked, rows, faults>>
    BY <1>4 DEF NewDay, vars, ledger
  <2>2. \A r \in Runs : Still(r)
    BY <2>1 DEF Still
  <2>3. Fates'
    BY <1>1, <2>2, StillKeepsFate DEF Fates
  <2>4. Lapsed' \subseteq Lapsed
    BY <2>1 DEF Lapsed
  <2>5. QED
    BY <1>1, <2>1, <2>3, <2>4, LapsedShrinks DEF UInv
<1>5. QED
  BY <1>2, <1>3, <1>4 DEF Next

-----------------------------------------------------------------------------
(* From the executions to the units of spend the ledger misses.            *)

Short == {r \in Over : booked[r] # spent[r]}
Cancelled == {r \in Over : verdict[r] = "cancelled"}

LEMMA OverIsFinite ==
    /\ IsFiniteSet(DegradedRows) /\ Cardinality(DegradedRows) \in Nat
    /\ IsFiniteSet(Cancelled) /\ Cardinality(Cancelled) \in Nat
    /\ IsFiniteSet(Short) /\ Cardinality(Short) \in Nat
<1>1. DegradedRows \subseteq Runs /\ Cancelled \subseteq Runs /\ Short \subseteq Runs
  BY DEF DegradedRows, Cancelled, Short, Over
<1>2. QED
  BY <1>1, FS_Subset, FS_CardinalityType

LEMMA TwoSets ==
    ASSUME NEW S, IsFiniteSet(S), NEW T, IsFiniteSet(T)
    PROVE  /\ IsFiniteSet(S \cup T)
           /\ Cardinality(S \cup T) \in Nat
           /\ Cardinality(S \cup T) <= Cardinality(S) + Cardinality(T)
<1>1. /\ IsFiniteSet(S \cup T)
      /\ Cardinality(S \cup T) = Cardinality(S) + Cardinality(T) - Cardinality(S \cap T)
  BY FS_Union
<1>2. Cardinality(S \cap T) \in Nat /\ Cardinality(S) \in Nat /\ Cardinality(T) \in Nat
  <2>1. IsFiniteSet(S \cap T)
    BY FS_Intersection
  <2>2. QED
    BY <2>1, FS_CardinalityType
<1>3. QED
  BY <1>1, <1>2, FS_CardinalityType

LEMMA ShortIsFew ==
    ASSUME IInv, UInv
    PROVE  Cardinality(Short) <= Cardinality(DegradedRows) + faults + Cardinality(Cancelled)
<1>1. Short \subseteq (DegradedRows \cup Cancelled) \cup Lapsed
  BY DEF UInv, Fates, Excused, Short, Over, DegradedRows, Cancelled, Lapsed
<1> DEFINE D == DegradedRows
           C == Cancelled
           L == Lapsed
           U == D \cup C
<1>2. /\ IsFiniteSet(D) /\ Cardinality(D) \in Nat /\ IsFiniteSet(C) /\ Cardinality(C) \in Nat
      /\ IsFiniteSet(L) /\ Cardinality(L) \in Nat /\ Cardinality(Short) \in Nat
  BY OverIsFinite, LapsedIsFinite
<1>3. Cardinality(L) <= faults /\ faults \in Nat
  <2>1. TypeOK
    BY Zenon DEF IInv
  <2>2. Cardinality(L) <= faults
    BY Zenon DEF UInv
  <2>3. QED
    BY <2>1, <2>2 DEF TypeOK
<1> HIDE DEF D, C, L
<1>4. IsFiniteSet(U) /\ Cardinality(U) \in Nat /\ Cardinality(U) <= Cardinality(D) + Cardinality(C)
  BY <1>2, TwoSets
<1> HIDE DEF U
<1>5. /\ IsFiniteSet(U \cup L) /\ Cardinality(U \cup L) \in Nat
      /\ Cardinality(U \cup L) <= Cardinality(U) + Cardinality(L)
  BY <1>2, <1>4, TwoSets
<1>6. Short \subseteq U \cup L
  BY <1>1 DEF U, D, C, L
<1>7. Cardinality(Short) <= Cardinality(U \cup L)
  BY <1>5, <1>6, FS_Subset
<1>8. Cardinality(Short) <= Cardinality(D) + faults + Cardinality(C)
  BY <1>2, <1>3, <1>4, <1>5, <1>7
<1>9. QED
  BY <1>8 DEF D, C

\* However many executions are over, and whatever each of them spent: what the
\* ledger misses is at most one run for each of them that was degraded or
\* cancelled, and one for each fault of the ledger.
THEOREM UndercountHolds == Spec => []UndercountIsBounded
<1>1. IInv /\ UInv => UndercountIsBounded
  <2> SUFFICES ASSUME IInv, UInv PROVE UndercountIsBounded
    OBVIOUS
  <2> DEFINE missed == UNION {{r} \X ((booked[r] + 1)..spent[r]) : r \in Over}
             units == 1..MaxCost
             n == Cardinality(Short)
             k == Cardinality(DegradedRows) + faults + Cardinality(Cancelled)
  <2>1. missed \subseteq Short \X units
    <3> SUFFICES ASSUME NEW r \in Over, NEW u \in (booked[r] + 1)..spent[r]
                 PROVE  r \in Short /\ u \in units
      OBVIOUS
    <3>1. booked[r] \in 0..MaxCost /\ spent[r] \in 0..MaxCost
      BY DEF Over, IInv, TypeOK
    <3>2. booked[r] + 1 <= u /\ u <= spent[r] /\ u \in Int
      BY <3>1
    <3>3. QED
      BY <3>1, <3>2 DEF Short
  <2>2. IsFiniteSet(Short) /\ n \in Nat
    BY OverIsFinite
  <2>3. IsFiniteSet(units) /\ Cardinality(units) = MaxCost
    <3>1. 1 \in Int /\ MaxCost \in Int /\ 1 <= MaxCost
      OBVIOUS
    <3>2. QED
      BY <3>1, FS_Interval
  <2> HIDE DEF units
  <2>4. IsFiniteSet(Short \X units) /\ Cardinality(Short \X units) = n * MaxCost
    BY <2>2, <2>3, FS_Product
  <2>5. Cardinality(missed) <= n * MaxCost
    BY <2>1, <2>4, FS_Subset
  <2>6. n <= k
    BY ShortIsFew
  <2>7. k \in Nat
    BY OverIsFinite DEF IInv, TypeOK
  <2>8. Cardinality(missed) \in Nat /\ MaxCost \in Nat
    BY <2>1, <2>4, FS_Subset, FS_CardinalityType
  <2>9. UndercountIsBounded <=> Cardinality(missed) <= MaxCost * k
    BY DEF UndercountIsBounded, Unbooked, Cancelled
  <2> HIDE DEF n, k, missed
  <2>10. n * MaxCost <= MaxCost * k
    <3>1. MaxCost * n <= MaxCost * k
      BY <2>2, <2>6, <2>7, <2>8, Monotone
    <3>2. n * MaxCost = MaxCost * n
      BY <2>2, <2>8
    <3>3. QED
      BY <3>1, <3>2
  <2>11. QED
    BY <2>2, <2>5, <2>7, <2>8, <2>9, <2>10
<1>2. QED
  BY <1>1, IInvHolds, InitUInv, NextKeepsUInv, PTL DEF Spec
=============================================================================
