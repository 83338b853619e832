------------------------ MODULE RunnerBridge_proofs ------------------------
(***************************************************************************)
(* Proofs about one run of the bridge, for every number of cancellations   *)
(* and of docker faults.                                                   *)
(***************************************************************************)
EXTENDS RunnerBridge, TLAPS

USE BridgeAssumption DEF BridgeAssumption

-----------------------------------------------------------------------------
(* The inductive invariant.                                                *)

BeforeTheEnd == {"prep", "launch", "talk"}

\* From the first step of an ending on the runner is dead or killed.
KilledFirst ==
    /\ at \notin BeforeTheEnd => runner \notin Live
    /\ sweep # "idle" => at \notin BeforeTheEnd
    /\ runner = "none" => stack = {} /\ file = "none"

\* The result is fixed when the ending is known, and a cancellation fixes it.
EndingIsFixed ==
    /\ at \in BeforeTheEnd \cup {"t_reap", "t_sweep"} =>
          cancels = 0 /\ ending = "none" /\ ~tornDown
    /\ at \in {"c_reap", "c_sweep"} => cancels > 0
    /\ ending = "cancelled" <=> cancels > 0
    /\ at \in {"f_reap", "f_sweep", "over"} => ending # "none"
    /\ ~broke /\ ending \notin {"none", "cancelled"} =>
          /\ ending = "completed" <=> file = "resolved"
          /\ ending = "timeout" => file \in {"none", "unresolved"}

\* Which endings made, or are about to make, a sweep.
SweepIsOwed ==
    /\ at \in {"t_sweep", "c_sweep", "f_sweep"} \/ tornDown => sweep # "idle"
    /\ at = "t_reap" \/ at = "c_reap" => ~tornDown
    /\ at = "c_sweep" => tornDown
    /\ completed => at = "over"
    /\ at = "f_reap" => tornDown \/ broke \/ cancels >= 2
    /\ at = "over" /\ sweep = "idle" =>
          runner = "none" \/ completed \/ (broke /\ cancels > 0) \/ cancels >= 3

\* What a sweep without faults, or a runner that reached its verdict, has removed.
Removed ==
    faults = 0 =>
        /\ sweep = "net" => "container" \notin stack
        /\ sweep = "done" => stack = {}
        /\ runner = "verdict" => stack = {}
        /\ file # "none" => stack = {} /\ runner # "trial"

IInv == TypeOK /\ KilledFirst /\ EndingIsFixed /\ SweepIsOwed /\ Removed

-----------------------------------------------------------------------------
(* It holds at first and every action keeps it.                            *)

LEMMA InitIInv == Init => IInv
<1> SUFFICES ASSUME Init PROVE IInv
  OBVIOUS
<1>1. 0 \in 0..MaxCancels /\ 0 \in 0..MaxFaults /\ {} \in SUBSET {"network", "container"}
  OBVIOUS
<1>2. TypeOK
  BY <1>1 DEF Init, TypeOK, Awaits, Live, Running, Verdicts
<1>3. KilledFirst /\ EndingIsFixed /\ SweepIsOwed /\ Removed
  BY DEF Init, KilledFirst, EndingIsFixed, SweepIsOwed, Removed, BeforeTheEnd, Live
<1>4. QED
  BY <1>2, <1>3 DEF IInv

LEMMA PrepareKeepsIInv == IInv /\ Prepare => IInv'
BY DEF IInv, TypeOK, KilledFirst, EndingIsFixed, SweepIsOwed, Removed, BeforeTheEnd,
     Awaits, Live, Running, Verdicts, flags, bounds, Prepare

LEMMA LaunchKeepsIInv == IInv /\ Launch => IInv'
BY DEF IInv, TypeOK, KilledFirst, EndingIsFixed, SweepIsOwed, Removed, BeforeTheEnd,
     Awaits, Live, Running, Verdicts, flags, bounds, Launch

LEMMA CompletesKeepsIInv == IInv /\ Completes => IInv'
BY DEF IInv, TypeOK, KilledFirst, EndingIsFixed, SweepIsOwed, Removed, BeforeTheEnd,
     Awaits, Live, Running, Verdicts, flags, bounds, Completes, Scored

LEMMA BreaksKeepsIInv == IInv /\ Breaks => IInv'
BY DEF IInv, TypeOK, KilledFirst, EndingIsFixed, SweepIsOwed, Removed, BeforeTheEnd,
     Awaits, Live, Running, Verdicts, flags, bounds, Breaks, Finally, FinallySweep, Kill

LEMMA HardTimeoutKeepsIInv == IInv /\ HardTimeout => IInv'
BY DEF IInv, TypeOK, KilledFirst, EndingIsFixed, SweepIsOwed, Removed, BeforeTheEnd,
     Awaits, Live, Running, Verdicts, flags, bounds, HardTimeout, Kill

LEMMA ReapedKeepsIInv == IInv /\ Reaped => IInv'
<1> SUFFICES ASSUME IInv, Reaped PROVE IInv'
  OBVIOUS
<1>1. at' \in {"t_sweep", "c_sweep", "f_sweep", "over"} /\ sweep' \in {sweep, "ps"}
  BY DEF Reaped, FinallySweep
<1>2. tornDown' = tornDown \/ tornDown' = TRUE
  BY DEF Reaped, FinallySweep
<1>3. at' \notin {"over", "c_sweep"} => runner # "none"
  BY DEF IInv, TypeOK, Reaped, FinallySweep
<1>4. TypeOK'
  <2>1. UNCHANGED <<runner, stack, file, completed, broke, ending, cancels, faults>>
    BY DEF Reaped, bounds
  <2>2. at' \in Awaits /\ sweep' \in Running \cup {"idle", "done", "cut"}
    BY <1>1 DEF IInv, TypeOK, Awaits, Running
  <2>3. tornDown' \in BOOLEAN
    BY <1>2 DEF IInv, TypeOK
  <2>4. at' \notin {"prep", "launch"}
    BY <1>1
  <2>5. QED
    BY <1>3, <2>1, <2>2, <2>3, <2>4 DEF IInv, TypeOK
<1> USE DEF IInv, TypeOK, KilledFirst, EndingIsFixed, SweepIsOwed, Removed, BeforeTheEnd,
       Awaits, Live, Running, Verdicts, flags, bounds, Reaped, FinallySweep
<1>5. KilledFirst'
  OBVIOUS
<1>6. EndingIsFixed'
  OBVIOUS
<1>7. SweepIsOwed'
  OBVIOUS
<1>8. Removed'
  OBVIOUS
<1>9. QED
  BY <1>4, <1>5, <1>6, <1>7, <1>8 DEF IInv

LEMMA TimedOutKeepsIInv == IInv /\ TimedOut => IInv'
BY DEF IInv, TypeOK, KilledFirst, EndingIsFixed, SweepIsOwed, Removed, BeforeTheEnd,
     Awaits, Live, Running, Verdicts, flags, bounds, TimedOut, Scored, Finally, FinallySweep, Kill

LEMMA SweepAwaitedKeepsIInv == IInv /\ SweepAwaited => IInv'
<1> SUFFICES ASSUME IInv, SweepAwaited PROVE IInv'
  OBVIOUS
<1> USE DEF IInv, TypeOK, KilledFirst, EndingIsFixed, SweepIsOwed, Removed, BeforeTheEnd,
       Awaits, Live, Running, Verdicts, flags, bounds, SweepAwaited, Finally, FinallySweep, Kill
<1>1. TypeOK'
  OBVIOUS
<1>2. KilledFirst'
  OBVIOUS
<1>3. EndingIsFixed'
  OBVIOUS
<1>4. SweepIsOwed'
  OBVIOUS
<1>5. Removed'
  OBVIOUS
<1>6. QED
  BY <1>1, <1>2, <1>3, <1>4, <1>5 DEF IInv

LEMMA CancelKeepsIInv == IInv /\ Cancel => IInv'
<1> SUFFICES ASSUME IInv, Cancel PROVE IInv'
  OBVIOUS
<1> USE DEF IInv, TypeOK, KilledFirst, EndingIsFixed, SweepIsOwed, Removed, BeforeTheEnd,
       Awaits, Live, Running, Verdicts, flags, bounds, Cancel, CancelLaunch, CancelWait,
       CancelTeardown, Finally, FinallySweep, Kill, Shielded
<1>1. cancels' \in 0..MaxCancels /\ faults' \in 0..MaxFaults
  OBVIOUS
<1>2. TypeOK'
  BY <1>1
<1>3. KilledFirst'
  OBVIOUS
<1>4. EndingIsFixed'
  OBVIOUS
<1>5. SweepIsOwed'
  OBVIOUS
<1>6. Removed'
  OBVIOUS
<1>7. QED
  BY <1>2, <1>3, <1>4, <1>5, <1>6 DEF IInv

LEMMA ComposeUpKeepsIInv == IInv /\ ComposeUp => IInv'
BY DEF IInv, TypeOK, KilledFirst, EndingIsFixed, SweepIsOwed, Removed, BeforeTheEnd,
     Awaits, Live, Running, Verdicts, flags, bounds, ComposeUp

LEMMA TrialEndsKeepsIInv == IInv /\ TrialEnds => IInv'
<1> SUFFICES ASSUME IInv, TrialEnds PROVE IInv'
  OBVIOUS
<1>1. stack \in SUBSET {"network", "container"} /\ faults \in 0..MaxFaults
  BY DEF IInv, TypeOK
<1>2. stack' \in SUBSET stack
  BY DEF TrialEnds, bounds
<1>3. faults' = faults \/ (faults < MaxFaults /\ faults' = faults + 1)
  BY DEF TrialEnds, Fault, bounds
<1>4. stack' \in SUBSET {"network", "container"} /\ faults' \in 0..MaxFaults
  BY <1>1, <1>2, <1>3
<1> USE DEF IInv, TypeOK, KilledFirst, EndingIsFixed, SweepIsOwed, Removed, BeforeTheEnd,
       Awaits, Live, Running, Verdicts, flags, bounds, TrialEnds, Fault
<1>5. TypeOK'
  BY <1>4
<1>6. KilledFirst'
  OBVIOUS
<1>7. EndingIsFixed'
  OBVIOUS
<1>8. SweepIsOwed'
  OBVIOUS
<1>9. Removed'
  OBVIOUS
<1>10. QED
  BY <1>5, <1>6, <1>7, <1>8, <1>9 DEF IInv

LEMMA WriteResultKeepsIInv == IInv /\ WriteResult => IInv'
BY DEF IInv, TypeOK, KilledFirst, EndingIsFixed, SweepIsOwed, Removed, BeforeTheEnd,
     Awaits, Live, Running, Verdicts, flags, bounds, WriteResult

LEMMA RunnerDiesKeepsIInv == IInv /\ RunnerDies => IInv'
BY DEF IInv, TypeOK, KilledFirst, EndingIsFixed, SweepIsOwed, Removed, BeforeTheEnd,
     Awaits, Live, Running, Verdicts, flags, bounds, RunnerDies

LEMMA ContainerAppearsKeepsIInv == IInv /\ ContainerAppears => IInv'
BY DEF IInv, TypeOK, KilledFirst, EndingIsFixed, SweepIsOwed, Removed, BeforeTheEnd,
     Awaits, Live, Running, Verdicts, flags, bounds, ContainerAppears, Fault

LEMMA ListContainersKeepsIInv == IInv /\ ListContainers => IInv'
BY DEF IInv, TypeOK, KilledFirst, EndingIsFixed, SweepIsOwed, Removed, BeforeTheEnd,
     Awaits, Live, Running, Verdicts, flags, bounds, ListContainers, Fault, Unchanging

LEMMA RemoveContainersKeepsIInv == IInv /\ RemoveContainers => IInv'
<1> SUFFICES ASSUME IInv, RemoveContainers PROVE IInv'
  OBVIOUS
<1>1. stack \in SUBSET {"network", "container"} /\ faults \in 0..MaxFaults
  BY DEF IInv, TypeOK
<1>2. stack' \in SUBSET stack
  BY DEF RemoveContainers, bounds
<1>3. faults' = faults \/ (faults < MaxFaults /\ faults' = faults + 1)
  BY DEF RemoveContainers, Fault, Unchanging, bounds
<1>4. stack' \in SUBSET {"network", "container"} /\ faults' \in 0..MaxFaults
  BY <1>1, <1>2, <1>3
<1> USE DEF IInv, TypeOK, KilledFirst, EndingIsFixed, SweepIsOwed, Removed, BeforeTheEnd,
       Awaits, Live, Running, Verdicts, flags, bounds, RemoveContainers, Fault, Unchanging
<1>5. TypeOK'
  BY <1>4
<1>6. KilledFirst'
  OBVIOUS
<1>7. EndingIsFixed'
  OBVIOUS
<1>8. SweepIsOwed'
  OBVIOUS
<1>9. Removed'
  <2>1. stack = {} => stack' = {}
    BY <1>2
  <2>2. faults' = 0 => "container" \notin stack' /\ faults = 0
    BY <1>1, <1>3
  <2>3. QED
    BY <2>1, <2>2
<1>10. QED
  BY <1>5, <1>6, <1>7, <1>8, <1>9 DEF IInv

LEMMA RemoveNetworksKeepsIInv == IInv /\ RemoveNetworks => IInv'
<1> SUFFICES ASSUME IInv, RemoveNetworks PROVE IInv'
  OBVIOUS
<1>1. stack \in SUBSET {"network", "container"} /\ faults \in 0..MaxFaults
  BY DEF IInv, TypeOK
<1>2. stack' \in SUBSET stack
  BY DEF RemoveNetworks, bounds
<1>3. faults' = faults \/ (faults < MaxFaults /\ faults' = faults + 1)
  BY DEF RemoveNetworks, Fault, Unchanging, bounds
<1>4. stack' \in SUBSET {"network", "container"} /\ faults' \in 0..MaxFaults
  BY <1>1, <1>2, <1>3
<1> USE DEF IInv, TypeOK, KilledFirst, EndingIsFixed, SweepIsOwed, Removed, BeforeTheEnd,
       Awaits, Live, Running, Verdicts, flags, bounds, RemoveNetworks, Fault, Unchanging
<1>5. TypeOK'
  BY <1>4
<1>6. KilledFirst'
  OBVIOUS
<1>7. EndingIsFixed'
  OBVIOUS
<1>8. SweepIsOwed'
  OBVIOUS
<1>9. Removed'
  OBVIOUS
<1>10. QED
  BY <1>5, <1>6, <1>7, <1>8, <1>9 DEF IInv

LEMMA LoopClosesKeepsIInv == IInv /\ LoopCloses => IInv'
BY DEF IInv, TypeOK, KilledFirst, EndingIsFixed, SweepIsOwed, Removed, BeforeTheEnd,
     Awaits, Live, Running, Verdicts, flags, bounds, LoopCloses, Unchanging

LEMMA NextKeepsIInv == IInv /\ [Next]_vars => IInv'
<1>1. CASE Next
  BY <1>1, PrepareKeepsIInv, LaunchKeepsIInv, CompletesKeepsIInv, BreaksKeepsIInv,
     HardTimeoutKeepsIInv, ReapedKeepsIInv, TimedOutKeepsIInv,
     SweepAwaitedKeepsIInv, CancelKeepsIInv, ComposeUpKeepsIInv,
     TrialEndsKeepsIInv, WriteResultKeepsIInv, RunnerDiesKeepsIInv,
     ContainerAppearsKeepsIInv, ListContainersKeepsIInv,
     RemoveContainersKeepsIInv, RemoveNetworksKeepsIInv,
     LoopClosesKeepsIInv
  DEF Next, Bridge, Runner, Sweep
<1>2. CASE UNCHANGED vars
  BY <1>2 DEF vars, flags, bounds, IInv, TypeOK, KilledFirst, EndingIsFixed, SweepIsOwed,
              Removed, BeforeTheEnd
<1>3. QED
  BY <1>1, <1>2

LEMMA IInvHolds == Spec => []IInv
BY InitIInv, NextKeepsIInv, PTL DEF Spec

-----------------------------------------------------------------------------
(* What the runs check, for every number of cancellations and faults.      *)

\* Type correctness.
THEOREM BridgeIsWellTyped == Spec => []TypeOK
<1>1. IInv => TypeOK
  BY DEF IInv
<1>2. QED
  BY <1>1, IInvHolds, PTL

\* _run_bridge kills the runner's group before it looks for its containers and
\* before it returns or raises, on every path.
THEOREM KillPrecedesSweep == Spec => []SweepsFollowTheKill
<1>1. IInv => SweepsFollowTheKill
  BY DEF IInv, KilledFirst, BeforeTheEnd, SweepsFollowTheKill
<1>2. QED
  BY <1>1, IInvHolds, PTL

\* _run_bridge leaves nothing of its compose project behind when docker works,
\* the exceptions that NothingIsLeft names aside.
THEOREM NothingStays == Spec => []NothingIsLeft
<1>1. IInv => NothingIsLeft
  <2>1. SUFFICES ASSUME IInv, Settled, faults = 0, cancels <= 2, ~CrashedUnseen,
                        ~(broke /\ cancels > 0)
                 PROVE  stack = {}
    BY DEF NothingIsLeft
  <2>2. CASE sweep = "done"
    BY <2>1, <2>2 DEF IInv, Removed
  <2>3. CASE sweep = "idle"
    <3>1. cancels \in Nat
      BY <2>1 DEF IInv, TypeOK
    <3>2. runner = "none" \/ completed
      BY <2>1, <2>3, <3>1 DEF IInv, SweepIsOwed, Settled
    <3>3. CASE runner = "none"
      BY <2>1, <3>3 DEF IInv, KilledFirst
    <3>4. CASE completed
      BY <2>1, <3>4 DEF IInv, Removed, CrashedUnseen
    <3>5. QED
      BY <3>2, <3>3, <3>4
  <2>4. QED
    BY <2>1, <2>2, <2>3 DEF Settled
<1>2. QED
  BY <1>1, IInvHolds, PTL

\* The result of a run that was neither cancelled nor broken off agrees with
\* the result file.
THEOREM VerdictHolds == Spec => []VerdictStands
<1>1. IInv => VerdictStands
  BY DEF IInv, EndingIsFixed, VerdictStands
<1>2. QED
  BY <1>1, IInvHolds, PTL

-----------------------------------------------------------------------------
(* The bridge implements AgentRun: each of its steps is one of AgentRun or *)
(* leaves the mapped state alone.                                          *)

LEMMA InitIsMapped == Init => Agent!Init
BY DEF Init, Agent!Init, Live, Phase, AgentIs, Outcome

LEMMA PrepareIsMapped == IInv /\ Prepare => [Agent!Next]_(Agent!agentVars)
BY DEF IInv, TypeOK, KilledFirst, EndingIsFixed, SweepIsOwed, BeforeTheEnd, Awaits, Live,
       Verdicts, flags, bounds, Prepare,
       Phase, AgentIs, Outcome, Agent!Next, Agent!agentVars,
       Agent!Start, Agent!Stop, Agent!CallOff, Agent!End

LEMMA LaunchIsMapped == IInv /\ Launch => [Agent!Next]_(Agent!agentVars)
BY DEF IInv, TypeOK, KilledFirst, EndingIsFixed, SweepIsOwed, BeforeTheEnd, Awaits, Live,
       Verdicts, flags, bounds, Launch,
       Phase, AgentIs, Outcome, Agent!Next, Agent!agentVars,
       Agent!Start, Agent!Stop, Agent!CallOff, Agent!End

LEMMA CompletesIsMapped == IInv /\ Completes => [Agent!Next]_(Agent!agentVars)
BY DEF IInv, TypeOK, KilledFirst, EndingIsFixed, SweepIsOwed, BeforeTheEnd, Awaits, Live,
       Verdicts, flags, bounds, Completes, Scored,
       Phase, AgentIs, Outcome, Agent!Next, Agent!agentVars,
       Agent!Start, Agent!Stop, Agent!CallOff, Agent!End

LEMMA BreaksIsMapped == IInv /\ Breaks => [Agent!Next]_(Agent!agentVars)
BY DEF IInv, TypeOK, KilledFirst, EndingIsFixed, SweepIsOwed, BeforeTheEnd, Awaits, Live,
       Verdicts, flags, bounds, Breaks, Finally, FinallySweep, Kill,
       Phase, AgentIs, Outcome, Agent!Next, Agent!agentVars,
       Agent!Start, Agent!Stop, Agent!CallOff, Agent!End

LEMMA HardTimeoutIsMapped == IInv /\ HardTimeout => [Agent!Next]_(Agent!agentVars)
BY DEF IInv, TypeOK, KilledFirst, EndingIsFixed, SweepIsOwed, BeforeTheEnd, Awaits, Live,
       Verdicts, flags, bounds, HardTimeout, Kill,
       Phase, AgentIs, Outcome, Agent!Next, Agent!agentVars,
       Agent!Start, Agent!Stop, Agent!CallOff, Agent!End

LEMMA ReapedIsMapped == IInv /\ Reaped => [Agent!Next]_(Agent!agentVars)
BY DEF IInv, TypeOK, KilledFirst, EndingIsFixed, SweepIsOwed, BeforeTheEnd, Awaits, Live,
       Verdicts, flags, bounds, Reaped, FinallySweep,
       Phase, AgentIs, Outcome, Agent!Next, Agent!agentVars,
       Agent!Start, Agent!Stop, Agent!CallOff, Agent!End

LEMMA TimedOutIsMapped == IInv /\ TimedOut => [Agent!Next]_(Agent!agentVars)
BY DEF IInv, TypeOK, KilledFirst, EndingIsFixed, SweepIsOwed, BeforeTheEnd, Awaits, Live,
       Verdicts, flags, bounds, TimedOut, Scored, Finally, FinallySweep, Kill,
       Phase, AgentIs, Outcome, Agent!Next, Agent!agentVars,
       Agent!Start, Agent!Stop, Agent!CallOff, Agent!End

LEMMA SweepAwaitedIsMapped == IInv /\ SweepAwaited => [Agent!Next]_(Agent!agentVars)
BY DEF IInv, TypeOK, KilledFirst, EndingIsFixed, SweepIsOwed, BeforeTheEnd, Awaits, Live,
       Verdicts, flags, bounds, SweepAwaited, Finally, FinallySweep, Kill,
       Phase, AgentIs, Outcome, Agent!Next, Agent!agentVars,
       Agent!Start, Agent!Stop, Agent!CallOff, Agent!End

LEMMA CancelIsMapped == IInv /\ Cancel => [Agent!Next]_(Agent!agentVars)
<1> SUFFICES ASSUME IInv, Cancel PROVE Agent!CallOff
  BY DEF Agent!Next
<1>1. cancels' > 0 /\ ending' = "cancelled" /\ at # "over"
  BY DEF IInv, TypeOK, Cancel, CancelLaunch, CancelWait, CancelTeardown, Finally
<1>2. /\ runner' = runner \/ (runner \in Live /\ runner' = "killed")
      /\ at' \notin {"prep", "launch"}
  BY DEF Cancel, CancelLaunch, CancelWait, CancelTeardown, Finally, FinallySweep, Kill, Live
<1>3. at' = "over" => runner' \notin Live
  BY CancelKeepsIInv DEF IInv, KilledFirst, BeforeTheEnd
<1>4. CASE at' = "over"
  BY <1>1, <1>2, <1>3, <1>4 DEF Agent!CallOff, Live, Phase, AgentIs, Outcome
<1>5. CASE at' # "over"
  <2>1. Phase' = "busy" /\ Outcome' = Outcome
    BY <1>1, <1>2, <1>5 DEF Phase, Outcome
  <2>2. AgentIs' = AgentIs \/ (AgentIs = "alive" /\ AgentIs' = "stopped")
    BY <1>2 DEF AgentIs, Live
  <2>3. (cancels > 0)' = TRUE /\ Phase # "over"
    BY <1>1 DEF Phase
  <2>4. QED
    BY <2>1, <2>2, <2>3 DEF Agent!CallOff
<1>6. QED
  BY <1>4, <1>5

LEMMA RunnerIsMapped == IInv /\ Runner => [Agent!Next]_(Agent!agentVars)
BY DEF IInv, TypeOK, KilledFirst, BeforeTheEnd, Awaits, Live, flags, bounds,
       Runner, ComposeUp, TrialEnds, WriteResult, RunnerDies, ContainerAppears, Fault,
       Phase, AgentIs, Outcome, Agent!Next, Agent!agentVars, Agent!Stop

LEMMA SweepIsMapped == Sweep \/ LoopCloses => [Agent!Next]_(Agent!agentVars)
BY DEF Sweep, ListContainers, RemoveContainers, RemoveNetworks, LoopCloses, Fault,
       Unchanging, flags, Phase, AgentIs, Outcome, Agent!agentVars

LEMMA NextIsMapped == IInv /\ [Next]_vars => [Agent!Next]_(Agent!agentVars)
<1>1. CASE Next
  BY <1>1, PrepareIsMapped, LaunchIsMapped, CompletesIsMapped, BreaksIsMapped,
     HardTimeoutIsMapped, ReapedIsMapped, TimedOutIsMapped, SweepAwaitedIsMapped,
     CancelIsMapped, RunnerIsMapped, SweepIsMapped DEF Next, Bridge
<1>2. CASE UNCHANGED vars
  BY <1>2 DEF vars, flags, bounds, Phase, AgentIs, Outcome, Agent!agentVars
<1>3. QED
  BY <1>1, <1>2

\* A run is not over before its runner has been killed or has died, and one that
\* was cancelled hands back no result: what the spine relies on.
THEOREM BridgeIsAnAgentRun == Spec => ImplementsAgentRun
BY InitIsMapped, NextIsMapped, IInvHolds, PTL DEF Spec, ImplementsAgentRun, Agent!Spec

=============================================================================
