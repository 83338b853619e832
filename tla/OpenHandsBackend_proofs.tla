----------------------- MODULE OpenHandsBackend_proofs -----------------------
(***************************************************************************)
(* Proofs about a runner program and the OpenHands backend around it, for  *)
(* every budget, number of calls, of cancellations and of faults.          *)
(***************************************************************************)
EXTENDS OpenHandsBackend, TLAPS

USE RunnerAssumption, BackendAssumption DEF RunnerAssumption, BackendAssumption

-----------------------------------------------------------------------------
(* The runner.  Its results carry marks that the tables know, which the    *)
(* consistency of a verdict rests on.                                      *)

\* The marks that a runner of this kind can leave.
Marked ==
    IF kind = "local"
    THEN {"error", "token_budget", "finished", "stuck", "paused", "max_iterations"}
    ELSE {"none", "agent_timeout", "test_timeout", "token_budget", "env_error",
          "unknown_agent_error"} \cup (IF kind = "oh_tb" THEN {"unknown"} ELSE {})

Known(r) == r \in Results /\ r.mark \in Marked

MarksAreKnown ==
    /\ pc = "collect" => kind # "local" /\ trial \in Trials /\ trial.mark \in Marked
    /\ pc \in {"write", "error"} => Known(payload)
    /\ file # None => Known(file)
    /\ out # None => Known(out)

RInv == RunnerTypeOK /\ MarksAreKnown

LEMMA InitRInv == RunnerInit => RInv
<1> SUFFICES ASSUME RunnerInit PROVE RInv
  OBVIOUS
<1>1. 0 \in 0..MaxCalls /\ 0 \in 0..MaxFaults
  OBVIOUS
<1>2. RunnerTypeOK
  BY <1>1 DEF RunnerInit, RunnerTypeOK, Steps, AgentEnds
<1>3. MarksAreKnown
  BY DEF RunnerInit, MarksAreKnown
<1>4. QED
  BY <1>2, <1>3 DEF RInv

\* Whatever an error says, its payload is a result that the tables know.
LEMMA ErrorsAreKnown ==
    ASSUME RInv, NEW mark \in Errors
    PROVE  Known(ErrorPayload(mark))
<1> USE DEF RInv, RunnerTypeOK
<1>1. CASE kind = "local"
  BY <1>1 DEF Errors, ErrorPayload, Result, Known, Marked, Results, NativeMarks, OHErrors
<1>2. CASE kind # "local"
  <2>1. mark \in {"env_error", "unknown_agent_error", "token_budget"}
    BY <1>2 DEF Errors, ClassifyRunnerError
  <2>2. PartialSpend \in Nat
    BY DEF PartialSpend
  <2>3. QED
    BY <1>2, <2>1, <2>2 DEF ErrorPayload, Result, Known, Marked, Results, NativeMarks, OHErrors
<1>3. QED
  BY <1>1, <1>2

\* So is what the script makes of a trial or of a conversation.
LEMMA CollectedIsKnown ==
    ASSUME RInv, pc = "collect" \/ kind = "local", NEW r \in Collected
    PROVE  Known(r)
<1> USE DEF RInv, RunnerTypeOK
<1>1. CASE kind = "local"
  <2>1. PICK s \in Statuses : r = Result(TRUE, FALSE, counted, s, "none")
    BY <1>1 DEF Collected
  <2>2. s \in NativeMarks /\ s \in Marked
    BY <1>1 DEF Statuses, NativeMarks, Marked
  <2>3. QED
    BY <2>1, <2>2 DEF Result, Known, Results
<1>2. CASE kind # "local"
  <2>1. trial \in Trials /\ trial.mark \in Marked
    BY <1>2 DEF MarksAreKnown
  <2>2. CollectedTokens \in Nat
    BY <2>1 DEF CollectedTokens, PartialSpend, Trials
  <2>3. PICK m \in {"token_budget", trial.mark} :
           r = Result(TRUE, trial.resolved, CollectedTokens, m, "none")
    BY <1>2 DEF Collected
  <2>4. m \in NativeMarks /\ m \in Marked /\ trial.resolved \in BOOLEAN
    BY <1>2, <2>1, <2>3 DEF Trials, NativeMarks, Marked
  <2>5. QED
    BY <2>2, <2>3, <2>4 DEF Result, Known, Results
<1>3. QED
  BY <1>1, <1>2

LEMMA RaisesKeepsRInv ==
    ASSUME RInv, Raises, pc \in Alive,
           UNCHANGED <<request, agent, given, calls, counted, pending, cap, trial, file, out>>,
           faults' \in 0..MaxFaults
    PROVE  RInv'
<1>1. PICK mark \in Errors : pc' = "error" /\ payload' = ErrorPayload(mark)
  BY DEF Raises
<1>2. Known(payload')
  BY <1>1, ErrorsAreKnown
<1>3. QED
  BY <1>1, <1>2 DEF RInv, RunnerTypeOK, MarksAreKnown, Known, Marked,
                    Steps, request

LEMMA LoadRequestKeepsRInv == RInv /\ LoadRequest => RInv'
<1> SUFFICES ASSUME RInv, LoadRequest PROVE RInv'
  OBVIOUS
<1>1. CASE Raises
  BY <1>1, RaisesKeepsRInv DEF LoadRequest, Alive, RInv, RunnerTypeOK
<1>2. CASE pc' = "trial" /\ UNCHANGED payload
  BY <1>2 DEF LoadRequest, RInv, RunnerTypeOK, MarksAreKnown, Known,
              Marked, Steps, request
<1>3. QED
  BY <1>1, <1>2 DEF LoadRequest

LEMMA AgentStartsKeepsRInv == RInv /\ AgentStarts => RInv'
BY DEF AgentStarts, RInv, RunnerTypeOK, MarksAreKnown, Known,
       Marked, Steps, request

LEMMA CallsKeepsRInv ==
    ASSUME RInv, NEW cost \in 0..MaxCost, Calls(cost)
    PROVE  RInv'
<1>1. pending' \in Nat /\ calls' \in 0..MaxCalls
  BY RunnerAssumption DEF Calls, RInv, RunnerTypeOK
<1>2. RunnerTypeOK'
  BY <1>1 DEF Calls, RInv, RunnerTypeOK, request
<1>3. MarksAreKnown'
  BY DEF Calls, RInv, MarksAreKnown, Known, Marked, request
<1>4. QED
  BY <1>2, <1>3 DEF RInv

LEMMA CountsKeepsRInv ==
    ASSUME RInv, NEW tokens \in 1..pending, Counts(tokens)
    PROVE  RInv'
<1>1. pending' \in Nat /\ counted' \in Nat
  BY DEF Counts, RInv, RunnerTypeOK
<1>2. RunnerTypeOK'
  BY <1>1 DEF Counts, RInv, RunnerTypeOK, request
<1>3. MarksAreKnown'
  BY DEF Counts, RInv, MarksAreKnown, Known, Marked, request
<1>4. QED
  BY <1>2, <1>3 DEF RInv

LEMMA AgentStopsKeepsRInv == RInv /\ AgentStops => RInv'
<1> SUFFICES ASSUME RInv, AgentStops PROVE RInv'
  OBVIOUS
<1>1. cap' \in Nat /\ agent' \in AgentEnds
  BY DEF AgentStops, Captured, RInv, RunnerTypeOK
<1>2. QED
  BY <1>1 DEF AgentStops, RInv, RunnerTypeOK, MarksAreKnown, Known,
              Marked, request

LEMMA TrialReturnsKeepsRInv ==
    ASSUME RInv, NEW resolved \in BOOLEAN, TrialReturns(resolved)
    PROVE  RInv'
<1>1. PICK mark \in Marks :
          trial' = [resolved |-> resolved, tokens |-> AgentResultTokens, mark |-> mark]
  BY DEF TrialReturns
<1>2. kind # "local" /\ AgentResultTokens \in Nat
  BY DEF TrialReturns, AgentResultTokens, RInv, RunnerTypeOK
<1>3. mark \in {"none", "agent_timeout", "test_timeout", "unknown_agent_error"}
         \cup (IF kind = "oh_tb" THEN {"unknown"} ELSE {})
  BY DEF Marks, TrialReturns, AgentEnds
<1>4. trial' \in Trials /\ trial'.mark \in Marked
  BY <1>1, <1>2, <1>3 DEF Trials, NativeMarks, Marked
<1>5. MarksAreKnown'
  BY <1>2, <1>4 DEF TrialReturns, RInv, MarksAreKnown, Known, Marked, request
<1>6. QED
  BY <1>4, <1>5 DEF TrialReturns, RInv, RunnerTypeOK, Steps, Trials,
                    request

LEMMA HarnessGivesUpKeepsRInv == RInv /\ HarnessGivesUp => RInv'
BY DEF HarnessGivesUp, RInv, RunnerTypeOK, MarksAreKnown, Known,
       Marked, Steps, request

LEMMA TrialRaisesKeepsRInv == RInv /\ TrialRaises => RInv'
BY RaisesKeepsRInv DEF TrialRaises, Alive, RInv, RunnerTypeOK

LEMMA CollectKeepsRInv == RInv /\ Collect => RInv'
<1> SUFFICES ASSUME RInv, Collect PROVE RInv'
  OBVIOUS
<1>1. Known(payload')
  BY CollectedIsKnown DEF Collect
<1>2. QED
  BY <1>1 DEF Collect, RInv, RunnerTypeOK, MarksAreKnown, Known,
              Marked, Steps, request

LEMMA WriteResultKeepsRInv == RInv /\ WriteResult => RInv'
BY DEF WriteResult, RInv, RunnerTypeOK, MarksAreKnown, Known,
       Marked, Steps, request

LEMMA WriteFailsKeepsRInv == RInv /\ WriteFails => RInv'
<1> SUFFICES ASSUME RInv, WriteFails PROVE RInv'
  OBVIOUS
<1>1. faults' \in 0..MaxFaults
  BY DEF WriteFails, Fault, RInv, RunnerTypeOK
<1>2. CASE Raises /\ UNCHANGED out
  BY <1>1, <1>2, RaisesKeepsRInv DEF WriteFails, Alive
<1>3. CASE pc' = "dead" /\ UNCHANGED payload /\ out' \in {out, payload}
  BY <1>1, <1>3 DEF WriteFails, RInv, RunnerTypeOK, MarksAreKnown, Known, Marked, Steps, request
<1>4. QED
  BY <1>2, <1>3 DEF WriteFails

LEMMA ScriptKeepsRInv == RInv /\ Script => RInv'
BY LoadRequestKeepsRInv, AgentStartsKeepsRInv, CallsKeepsRInv, CountsKeepsRInv, AgentStopsKeepsRInv,
   TrialReturnsKeepsRInv, HarnessGivesUpKeepsRInv, TrialRaisesKeepsRInv, CollectKeepsRInv,
   WriteResultKeepsRInv, WriteFailsKeepsRInv DEF Script

\* The backend reads of the runner only, apart from starting and killing it.
LEMMA UnreadKeepsRInv ==
    ASSUME RInv, Unread, pc' \in {pc, "load", "dead"}, faults' \in 0..MaxFaults
    PROVE  RInv'
BY DEF Unread, RInv, RunnerTypeOK, MarksAreKnown, Known, Marked,
       Steps, request

\* A runner that has not been started, or has ended, takes no step.
LEMMA ScriptIsAlive ==
    ASSUME RInv, Script
    PROVE  /\ pc \in Alive /\ pc' \in Alive \cup {"dead"}
           /\ faults' = 0 => faults = 0
<1>1. pc \in Alive /\ pc' \in Alive \cup {"dead"}
  BY DEF Script, LoadRequest, AgentStarts, Calls, Counts, AgentStops, TrialReturns, HarnessGivesUp,
         TrialRaises, Collect, WriteResult, WriteFails, Raises, Alive
<1>2. faults' = 0 => faults = 0
  BY DEF Script, LoadRequest, AgentStarts, Calls, Counts, AgentStops, TrialReturns, HarnessGivesUp,
         TrialRaises, Collect, WriteResult, WriteFails, Fault, RInv, RunnerTypeOK
<1>3. QED
  BY <1>1, <1>2

-----------------------------------------------------------------------------
(* The coroutine, its process and its container.                           *)

\* What has been launched, and that it is killed or gone before it is reaped.
Launched ==
    /\ at \in {"prep", "launch"} => proc = "none" /\ cancels = 0 /\ broke = "none"
    /\ proc = "none" => pc = "off"
    /\ proc = "alive" => at = "talk"
    /\ at \in {"prep", "launch", "talk", "reap"} => rm = "idle"

\* On the host the runner goes with its process; in a container it goes with a
\* docker rm that worked, which every way to the end has started.
Stopped ==
    /\ ~sandbox /\ pc \in Alive => proc = "alive"
    /\ sandbox /\ rm = "done" /\ faults = 0 => pc \notin Alive
    /\ sandbox /\ at \in {"f_rm", "parse", "over"} /\ rm = "idle" => proc = "none"

IInv == TypeOK /\ RInv /\ Launched /\ Stopped

LEMMA InitIInv == Init => IInv
<1> SUFFICES ASSUME Init PROVE IInv
  OBVIOUS
<1>1. RInv /\ pc = "off" /\ 0 \in 0..MaxCancels
  BY InitRInv DEF Init, RunnerInit
<1>2. QED
  BY <1>1 DEF Init, IInv, RInv, TypeOK, Launched, Stopped, Awaits, Alive

LEMMA PrepareKeepsIInv == IInv /\ Prepare => IInv'
<1> SUFFICES ASSUME IInv, Prepare PROVE IInv'
  OBVIOUS
<1>1. pc' \in {pc, "load", "dead"} /\ faults' \in 0..MaxFaults
  BY DEF IInv, TypeOK, RunnerTypeOK, Prepare
<1>2. RInv'
  BY <1>1, UnreadKeepsRInv DEF IInv, Prepare
<1>3. TypeOK'
  BY <1>2 DEF IInv, TypeOK, Launched, RInv, Awaits, Prepare, Unread
<1>4. Launched'
  BY DEF IInv, TypeOK, Launched, Awaits, Prepare, Unread
<1>5. Stopped'
  BY DEF IInv, TypeOK, RunnerTypeOK, Launched, Stopped, Awaits, Alive, Prepare, Unread
<1>6. QED
  BY <1>2, <1>3, <1>4, <1>5 DEF IInv

LEMMA LaunchKeepsIInv == IInv /\ Launch => IInv'
<1> SUFFICES ASSUME IInv, Launch PROVE IInv'
  OBVIOUS
<1>1. pc' \in {pc, "load", "dead"} /\ faults' \in 0..MaxFaults
  BY DEF IInv, TypeOK, RunnerTypeOK, Launch, FinallySweep
<1>2. RInv'
  BY <1>1, UnreadKeepsRInv DEF IInv, Launch
<1>3. TypeOK'
  BY <1>2 DEF IInv, TypeOK, Launched, RInv, Awaits, Launch, FinallySweep, Unread
<1>4. Launched'
  BY DEF IInv, TypeOK, Launched, Awaits, Launch, FinallySweep, Unread
<1>5. Stopped'
  BY DEF IInv, TypeOK, RunnerTypeOK, Launched, Stopped, Awaits, Alive, Launch, FinallySweep, Unread
<1>6. QED
  BY <1>2, <1>3, <1>4, <1>5 DEF IInv

LEMMA CompletesKeepsIInv == IInv /\ Completes => IInv'
<1> SUFFICES ASSUME IInv, Completes PROVE IInv'
  OBVIOUS
<1>1. pc' \in {pc, "load", "dead"} /\ faults' \in 0..MaxFaults
  BY DEF IInv, TypeOK, RunnerTypeOK, Completes, FinallySweep
<1>2. RInv'
  BY <1>1, UnreadKeepsRInv DEF IInv, Completes
<1>3. TypeOK'
  BY <1>2 DEF IInv, TypeOK, Launched, RInv, Awaits, Completes, FinallySweep, Unread
<1>4. Launched'
  BY DEF IInv, TypeOK, Launched, Awaits, Completes, FinallySweep, Unread
<1>5. Stopped'
  BY DEF IInv, TypeOK, RunnerTypeOK, Launched, Stopped, Awaits, Alive, Completes, FinallySweep, Unread
<1>6. QED
  BY <1>2, <1>3, <1>4, <1>5 DEF IInv

LEMMA HardTimeoutKeepsIInv == IInv /\ HardTimeout => IInv'
<1> SUFFICES ASSUME IInv, HardTimeout PROVE IInv'
  OBVIOUS
<1>1. pc' \in {pc, "load", "dead"} /\ faults' \in 0..MaxFaults
  BY DEF IInv, TypeOK, RunnerTypeOK, HardTimeout, Kill
<1>2. RInv'
  BY <1>1, UnreadKeepsRInv DEF IInv, HardTimeout
<1>3. TypeOK'
  BY <1>2 DEF IInv, TypeOK, Launched, RInv, Awaits, HardTimeout, Kill, Unread
<1>4. Launched'
  BY DEF IInv, TypeOK, Launched, Awaits, HardTimeout, Kill, Unread
<1>5. Stopped'
  BY DEF IInv, TypeOK, RunnerTypeOK, Launched, Stopped, Awaits, Alive, HardTimeout, Kill, Unread
<1>6. QED
  BY <1>2, <1>3, <1>4, <1>5 DEF IInv

LEMMA ReapedKeepsIInv == IInv /\ Reaped => IInv'
<1> SUFFICES ASSUME IInv, Reaped PROVE IInv'
  OBVIOUS
<1>1. pc' \in {pc, "load", "dead"} /\ faults' \in 0..MaxFaults
  BY DEF IInv, TypeOK, RunnerTypeOK, Reaped, FinallySweep
<1>2. RInv'
  BY <1>1, UnreadKeepsRInv DEF IInv, Reaped
<1>3. TypeOK'
  BY <1>2 DEF IInv, TypeOK, Launched, RInv, Awaits, Reaped, FinallySweep, Unread
<1>4. Launched'
  BY DEF IInv, TypeOK, Launched, Awaits, Reaped, FinallySweep, Unread
<1>5. Stopped'
  BY DEF IInv, TypeOK, RunnerTypeOK, Launched, Stopped, Awaits, Alive, Reaped, FinallySweep, Unread
<1>6. QED
  BY <1>2, <1>3, <1>4, <1>5 DEF IInv

LEMMA ReapSweptKeepsIInv == IInv /\ ReapSwept => IInv'
<1> SUFFICES ASSUME IInv, ReapSwept PROVE IInv'
  OBVIOUS
<1>1. pc' \in {pc, "load", "dead"} /\ faults' \in 0..MaxFaults
  BY DEF IInv, TypeOK, RunnerTypeOK, ReapSwept, FinallySweep
<1>2. RInv'
  BY <1>1, UnreadKeepsRInv DEF IInv, ReapSwept
<1>3. TypeOK'
  BY <1>2 DEF IInv, TypeOK, Launched, RInv, Awaits, ReapSwept, FinallySweep, Unread
<1>4. Launched'
  BY DEF IInv, TypeOK, Launched, Awaits, ReapSwept, FinallySweep, Unread
<1>5. Stopped'
  BY DEF IInv, TypeOK, RunnerTypeOK, Launched, Stopped, Awaits, Alive, ReapSwept, FinallySweep, Unread
<1>6. QED
  BY <1>2, <1>3, <1>4, <1>5 DEF IInv

LEMMA SweptKeepsIInv == IInv /\ Swept => IInv'
<1> SUFFICES ASSUME IInv, Swept PROVE IInv'
  OBVIOUS
<1>1. pc' \in {pc, "load", "dead"} /\ faults' \in 0..MaxFaults
  BY DEF IInv, TypeOK, RunnerTypeOK, Swept
<1>2. RInv'
  BY <1>1, UnreadKeepsRInv DEF IInv, Swept
<1>3. TypeOK'
  BY <1>2 DEF IInv, TypeOK, Launched, RInv, Awaits, Swept, Unread
<1>4. Launched'
  BY DEF IInv, TypeOK, Launched, Awaits, Swept, Unread
<1>5. Stopped'
  BY DEF IInv, TypeOK, RunnerTypeOK, Launched, Stopped, Awaits, Alive, Swept, Unread
<1>6. QED
  BY <1>2, <1>3, <1>4, <1>5 DEF IInv

LEMMA ParseKeepsIInv == IInv /\ Parse => IInv'
<1> SUFFICES ASSUME IInv, Parse PROVE IInv'
  OBVIOUS
<1>1. pc' \in {pc, "load", "dead"} /\ faults' \in 0..MaxFaults
  BY DEF IInv, TypeOK, RunnerTypeOK, Parse
<1>2. RInv'
  BY <1>1, UnreadKeepsRInv DEF IInv, Parse
<1>3. TypeOK'
  BY <1>2 DEF IInv, TypeOK, Launched, RInv, Awaits, Parse, Unread
<1>4. Launched'
  BY DEF IInv, TypeOK, Launched, Awaits, Parse, Unread
<1>5. Stopped'
  BY DEF IInv, TypeOK, RunnerTypeOK, Launched, Stopped, Awaits, Alive, Parse, Unread
<1>6. QED
  BY <1>2, <1>3, <1>4, <1>5 DEF IInv

LEMMA CancelKeepsIInv == IInv /\ Cancel => IInv'
<1> SUFFICES ASSUME IInv, Cancel PROVE IInv'
  OBVIOUS
<1>1. pc' \in {pc, "load", "dead"} /\ faults' \in 0..MaxFaults
  BY DEF IInv, TypeOK, RunnerTypeOK, Cancel, CancelEarly, CancelWait, CancelReap, CancelSweep, Kill, FinallySweep
<1>2. RInv'
  BY <1>1, UnreadKeepsRInv DEF IInv, Cancel
<1>3. TypeOK'
  BY <1>2 DEF IInv, TypeOK, Launched, RInv, Awaits, Cancel, CancelEarly, CancelWait, CancelReap, CancelSweep, Kill, FinallySweep, Unread
<1>4. Launched'
  BY DEF IInv, TypeOK, Launched, Awaits, Cancel, CancelEarly, CancelWait, CancelReap, CancelSweep, Kill, FinallySweep, Unread
<1>5. Stopped'
  BY DEF IInv, TypeOK, RunnerTypeOK, Launched, Stopped, Awaits, Alive, Cancel, CancelEarly, CancelWait, CancelReap, CancelSweep, Kill, FinallySweep, Unread
<1>6. QED
  BY <1>2, <1>3, <1>4, <1>5 DEF IInv

LEMMA BoxStartsKeepsIInv == IInv /\ BoxStarts => IInv'
<1> SUFFICES ASSUME IInv, BoxStarts PROVE IInv'
  OBVIOUS
<1>1. pc' \in {pc, "load", "dead"} /\ faults' \in 0..MaxFaults
  BY DEF IInv, TypeOK, RunnerTypeOK, BoxStarts, Fault
<1>2. RInv'
  BY <1>1, UnreadKeepsRInv DEF IInv, BoxStarts
<1>3. TypeOK'
  BY <1>2 DEF IInv, TypeOK, Launched, RInv, Awaits, BoxStarts, Fault, Unread
<1>4. Launched'
  BY DEF IInv, TypeOK, Launched, Awaits, BoxStarts, Fault, Unread
<1>5. Stopped'
  BY DEF IInv, TypeOK, RunnerTypeOK, Launched, Stopped, Awaits, Alive, BoxStarts, Fault, Unread
<1>6. QED
  BY <1>2, <1>3, <1>4, <1>5 DEF IInv

LEMMA ProcessEndsKeepsIInv == IInv /\ ProcessEnds => IInv'
<1> SUFFICES ASSUME IInv, ProcessEnds PROVE IInv'
  OBVIOUS
<1>1. pc' \in {pc, "load", "dead"} /\ faults' \in 0..MaxFaults
  BY DEF IInv, TypeOK, RunnerTypeOK, ProcessEnds
<1>2. RInv'
  BY <1>1, UnreadKeepsRInv DEF IInv, ProcessEnds
<1>3. TypeOK'
  BY <1>2 DEF IInv, TypeOK, Launched, RInv, Awaits, ProcessEnds, Unread
<1>4. Launched'
  BY DEF IInv, TypeOK, Launched, Awaits, ProcessEnds, Unread
<1>5. Stopped'
  BY DEF IInv, TypeOK, RunnerTypeOK, Launched, Stopped, Awaits, Alive, ProcessEnds, Unread
<1>6. QED
  BY <1>2, <1>3, <1>4, <1>5 DEF IInv

LEMMA RemovesKeepsIInv == IInv /\ Removes => IInv'
<1> SUFFICES ASSUME IInv, Removes PROVE IInv'
  OBVIOUS
<1>1. pc' \in {pc, "load", "dead"} /\ faults' \in 0..MaxFaults
  BY DEF IInv, TypeOK, RunnerTypeOK, Removes, Fault
<1>2. RInv'
  BY <1>1, UnreadKeepsRInv DEF IInv, Removes
<1>3. TypeOK'
  BY <1>2 DEF IInv, TypeOK, Launched, RInv, Awaits, Removes, Fault, Unread
<1>4. Launched'
  BY DEF IInv, TypeOK, Launched, Awaits, Removes, Fault, Unread
<1>5. Stopped'
  BY DEF IInv, TypeOK, RunnerTypeOK, Launched, Stopped, Awaits, Alive, Removes, Fault, Unread
<1>6. QED
  BY <1>2, <1>3, <1>4, <1>5 DEF IInv

LEMMA RunsKeepsIInv == IInv /\ Runs => IInv'
<1> SUFFICES ASSUME IInv, Runs PROVE IInv'
  OBVIOUS
<1>1. RInv'
  BY ScriptKeepsRInv DEF IInv, Runs
<1>2. /\ pc \in Alive /\ pc' \in Alive \cup {"dead"}
      /\ faults' = 0 => faults = 0
  BY ScriptIsAlive DEF IInv, Runs
<1>3. QED
  BY <1>1, <1>2 DEF IInv, RInv, TypeOK, Launched, Stopped, Alive, Runs

LEMMA NextKeepsIInv == IInv /\ [Next]_vars => IInv'
<1> SUFFICES ASSUME IInv, [Next]_vars PROVE IInv'
  OBVIOUS
<1>1. CASE Next
  BY <1>1, PrepareKeepsIInv, LaunchKeepsIInv, CompletesKeepsIInv, HardTimeoutKeepsIInv,
     ReapedKeepsIInv, ReapSweptKeepsIInv, SweptKeepsIInv, ParseKeepsIInv, CancelKeepsIInv,
     BoxStartsKeepsIInv, ProcessEndsKeepsIInv, RemovesKeepsIInv, RunsKeepsIInv
  DEF Next, Coroutine
<1>2. CASE UNCHANGED vars
  <2>1. Unread /\ pc' = pc /\ faults' = faults
    BY <1>2 DEF vars, runnerVars, request, Unread
  <2>2. faults' \in 0..MaxFaults
    BY <2>1 DEF IInv, TypeOK, RunnerTypeOK
  <2>3. RInv'
    BY <2>1, <2>2, UnreadKeepsRInv DEF IInv
  <2>4. QED
    BY <1>2, <2>3 DEF vars, runnerVars, IInv, RInv, TypeOK, Launched, Stopped
<1>3. QED
  BY <1>1, <1>2

LEMMA IInvHolds == Spec => []IInv
BY InitIInv, NextKeepsIInv, PTL DEF Spec

-----------------------------------------------------------------------------
(* What is read of a runner, whatever it left.                             *)

LEMMA TablesNeverCancel ==
    \A mark : /\ Look(OHStatus, mark) # "cancelled"
              /\ Look(T2Failure, mark) # "cancelled"
BY DEF Look, OHStatus, T2Failure

\* The failure mode "none" is in no table, or is none of the failures.
LEMMA NoneIsNoFailure == FromOHStatus("none") \notin Failures
BY DEF FromOHStatus, Look, OHStatus, Failures

\* The tables agree on the failure modes that Terminal-Bench's runners leave:
\* what the one calls no failure, the other does not call one.
LEMMA TablesAgree ==
    \A mark \in {"agent_timeout", "test_timeout", "token_budget", "env_error",
                 "unknown_agent_error"} :
        Look(T2Failure, mark) \notin Failures => FromOHStatus(mark) \notin Failures
BY DEF FromOHStatus, Look, OHStatus, T2Failure, Failures

\* A terminal state and a token that VerdictIsConsistent allows together.
Consistent(r) ==
    IF r.term \in Failures THEN r.failure # "none" ELSE FromOHStatus(r.failure) \notin Failures

LEMMA ReconciledIsConsistent ==
    ASSUME NEW term, NEW failure, NEW status, status # "none", NEW tokens, NEW resolved
    PROVE  Consistent(Reported(term, Reconciled(term, failure, status), tokens, resolved))
BY NoneIsNoFailure DEF Consistent, Reported, Reconciled

LEMMA OpenHandsReadsConsistently ==
    ASSUME IInv, kind = "local"
    PROVE  Consistent(OpenHandsReads) /\ OpenHandsReads.term # "cancelled"
<1> DEFINE data == IF file # None THEN file
                   ELSE IF timeout \/ broke # "none" THEN None ELSE out
           failure == IF timeout THEN "agent_timeout"
                      ELSE IF broke # "none" THEN broke
                      ELSE IF data = None THEN "parse_error" ELSE data.error
           status == IF data = None THEN "agent_error" ELSE data.mark
           term == IF timeout THEN "timeout"
                   ELSE IF failure # "none" THEN FromOHStatus(failure) ELSE FromOHStatus(status)
           tokens == IF data = None THEN 0 ELSE data.tokens
<1>1. OpenHandsReads = Reported(term, Reconciled(term, failure, status), tokens, FALSE)
  BY DEF OpenHandsReads
<1>2. status # "none"
  <2>1. data # None => Known(data)
    BY DEF IInv, RInv, MarksAreKnown
  <2>2. QED
    BY <2>1 DEF Known, Marked
<1>3. term # "cancelled"
  BY TablesNeverCancel DEF FromOHStatus
<1> HIDE DEF data, failure, status, term, tokens
<1>4. Consistent(OpenHandsReads)
  BY <1>1, <1>2, ReconciledIsConsistent
<1>5. QED
  BY <1>1, <1>3, <1>4 DEF Reported

LEMMA BridgeReadsConsistently ==
    ASSUME IInv, kind # "local"
    PROVE  Consistent(BridgeReads) /\ BridgeReads.term # "cancelled"
<1> DEFINE resolved == file # None /\ file.ok /\ file.resolved
           mark == IF file = None THEN "env_error" ELSE file.mark
           walled == timeout /\ ~resolved /\ (file = None \/ mark = "none")
           tokens == IF file = None THEN 0 ELSE file.tokens
           term == IF walled THEN "timeout" ELSE IF mark = "none" THEN "unknown"
                   ELSE Resolve(mark)
           failure == IF walled THEN "agent_timeout" ELSE mark
<1>1. BridgeReads = IF broke # "none" THEN Reported("env_error", "env_error", 0, FALSE)
                    ELSE IF resolved THEN Reported("completed", "none", file.tokens, TRUE)
                    ELSE Reported(term, failure, tokens, FALSE)
  BY DEF BridgeReads
<1>2. mark \in Marked
  BY DEF IInv, RInv, MarksAreKnown, Known, Marked
<1>3. term # "cancelled"
  BY TablesNeverCancel DEF Resolve, FromOHStatus
<1>4. Consistent(Reported(term, failure, tokens, FALSE))
  <2>1. CASE walled
    BY <2>1 DEF Consistent, Reported, FromOHStatus, Look, OHStatus, Failures
  <2>2. CASE ~walled /\ mark = "none"
    BY <2>2, NoneIsNoFailure DEF Consistent, Reported, Failures
  <2>3. CASE ~walled /\ mark # "none"
    <3>1. term = Resolve(mark) /\ failure = mark
      BY <2>3
    <3>2. Resolve(mark) \notin Failures => FromOHStatus(mark) \notin Failures
      BY <1>2, <2>3, TablesAgree DEF Resolve, FromOHStatus, Marked
    <3>3. QED
      BY <2>3, <3>1, <3>2 DEF Consistent, Reported
  <2>4. QED
    BY <2>1, <2>2, <2>3
<1>5. Consistent(Reported("env_error", "env_error", 0, FALSE))
  BY DEF Consistent, Reported, Failures
<1>6. \A n : Consistent(Reported("completed", "none", n, TRUE))
  BY NoneIsNoFailure DEF Consistent, Reported, Failures
<1> HIDE DEF resolved, mark, walled, tokens, term, failure
<1>7. Consistent(BridgeReads)
  BY <1>1, <1>4, <1>5, <1>6
<1>8. QED
  BY <1>1, <1>3, <1>7 DEF Reported

LEMMA ReadIsConsistent == IInv => Consistent(Read) /\ Read.term # "cancelled"
BY OpenHandsReadsConsistently, BridgeReadsConsistently DEF Read

\* What a run returned stays, and is consistent and no cancellation when it was
\* read.
LEMMA VerdictIsKept ==
    ASSUME IInv, VerdictIsConsistent, [Next]_vars
    PROVE  VerdictIsConsistent'
<1>1. CASE Parse /\ cancels = 0
  <2>1. result' = Read
    BY <1>1 DEF Parse
  <2>2. Consistent(result')
    BY <2>1, ReadIsConsistent
  <2>3. QED
    BY <2>2 DEF VerdictIsConsistent, Consistent
<1>2. CASE at' = "over" /\ at # "over" /\ ~(Parse /\ cancels = 0)
  <2>1. Prepare \/ Parse \/ Cancel
    BY <1>2 DEF Next, Coroutine, Launch, Completes, HardTimeout, Reaped, ReapSwept, Swept,
                FinallySweep, BoxStarts, ProcessEnds, Removes, Runs, vars
  <2>2. result' \in {Cancelled, Reported("env_error", "env_error", 0, FALSE)}
    <3>1. CASE Prepare
      BY <1>2, <3>1 DEF Prepare
    <3>2. CASE Parse
      <4>1. cancels # 0
        BY <1>2, <3>2
      <4>2. cancels > 0
        BY <4>1 DEF IInv, TypeOK
      <4>3. QED
        BY <3>2, <4>2 DEF Parse
    <3>3. CASE Cancel
      BY <1>2, <3>3 DEF Cancel, CancelEarly, CancelWait, CancelReap, CancelSweep, FinallySweep
    <3>4. QED
      BY <2>1, <3>1, <3>2, <3>3
  <2>3. QED
    BY <2>2 DEF VerdictIsConsistent, Ended, Reported, Failures
<1>3. CASE at' # "over" \/ at = "over"
  <2>1. at' # "over" \/ (at = "over" /\ result' = result)
    BY <1>3 DEF Next, Coroutine, Prepare, Launch, Completes, HardTimeout, Reaped, ReapSwept,
                Swept, Parse, Cancel, CancelEarly, CancelWait, CancelReap, CancelSweep,
                BoxStarts, ProcessEnds, Removes, Runs, vars
  <2>2. QED
    BY <2>1 DEF VerdictIsConsistent, Ended
<1>4. QED
  BY <1>1, <1>2, <1>3

-----------------------------------------------------------------------------
(* What the runs check, for all budgets, cancellations and faults.         *)

\* Type correctness, of the runner and of the backend.
THEOREM BackendIsWellTyped == Spec => []TypeOK
<1>1. IInv => TypeOK
  BY DEF IInv
<1>2. QED
  BY <1>1, IInvHolds, PTL

\* No result of the four backends pairs a failure with no token for it, or no
\* failure with a token that is one.
THEOREM VerdictsAreConsistent == Spec => []VerdictIsConsistent
<1>1. Init => VerdictIsConsistent
  BY DEF Init, VerdictIsConsistent, Ended
<1>2. QED
  BY <1>1, IInvHolds, VerdictIsKept, PTL DEF Spec

\* With docker at work no runner outlives its run, however often the run is
\* cancelled and wherever.
THEOREM NoRunnerStays == Spec => []NoRunnerIsLeft
<1>1. IInv => NoRunnerIsLeft
  BY DEF IInv, RInv, RunnerTypeOK, TypeOK, Launched, Stopped, NoRunnerIsLeft, Steps, Alive
<1>2. QED
  BY <1>1, IInvHolds, PTL

-----------------------------------------------------------------------------
(* The backend implements AgentRun.                                        *)

LEMMA InitIsMapped == Init => Agent!Init
BY DEF Init, Agent!Init, Phase, AgentIs, Outcome

LEMMA PrepareIsMapped == IInv /\ Prepare => [Agent!Next]_(Agent!agentVars)
BY DEF IInv, TypeOK, Launched, Awaits, Prepare, Reported, Cancelled,
       Phase, AgentIs, Outcome, Agent!Next, Agent!agentVars,
       Agent!Start, Agent!Stop, Agent!CallOff, Agent!End

LEMMA LaunchIsMapped == IInv /\ Launch => [Agent!Next]_(Agent!agentVars)
BY DEF IInv, TypeOK, Launched, Awaits, Launch, FinallySweep,
       Phase, AgentIs, Outcome, Agent!Next, Agent!agentVars,
       Agent!Start, Agent!Stop, Agent!CallOff, Agent!End

LEMMA CompletesIsMapped == IInv /\ Completes => [Agent!Next]_(Agent!agentVars)
BY DEF IInv, TypeOK, Launched, Awaits, Completes, FinallySweep,
       Phase, AgentIs, Outcome, Agent!Next, Agent!agentVars,
       Agent!Start, Agent!Stop, Agent!CallOff, Agent!End

LEMMA HardTimeoutIsMapped == IInv /\ HardTimeout => [Agent!Next]_(Agent!agentVars)
BY DEF IInv, TypeOK, Launched, Awaits, HardTimeout, Kill,
       Phase, AgentIs, Outcome, Agent!Next, Agent!agentVars,
       Agent!Start, Agent!Stop, Agent!CallOff, Agent!End

LEMMA ReapedIsMapped == IInv /\ Reaped => [Agent!Next]_(Agent!agentVars)
BY DEF IInv, TypeOK, Launched, Awaits, Reaped, FinallySweep,
       Phase, AgentIs, Outcome, Agent!Next, Agent!agentVars,
       Agent!Start, Agent!Stop, Agent!CallOff, Agent!End

LEMMA ReapSweptIsMapped == IInv /\ ReapSwept => [Agent!Next]_(Agent!agentVars)
BY DEF IInv, TypeOK, Launched, Awaits, ReapSwept, FinallySweep,
       Phase, AgentIs, Outcome, Agent!Next, Agent!agentVars,
       Agent!Start, Agent!Stop, Agent!CallOff, Agent!End

LEMMA SweptIsMapped == IInv /\ Swept => [Agent!Next]_(Agent!agentVars)
BY DEF IInv, TypeOK, Launched, Awaits, Swept,
       Phase, AgentIs, Outcome, Agent!Next, Agent!agentVars,
       Agent!Start, Agent!Stop, Agent!CallOff, Agent!End

LEMMA ParseIsMapped == IInv /\ Parse => [Agent!Next]_(Agent!agentVars)
<1> SUFFICES ASSUME IInv, Parse PROVE Agent!End
  BY DEF Agent!Next
<1>1. (result' = Cancelled) <=> cancels > 0
  <2>1. Read.term # Cancelled.term
    BY ReadIsConsistent DEF Cancelled, Reported
  <2>2. QED
    BY <2>1 DEF Parse
<1>2. AgentIs # "alive"
  BY DEF IInv, TypeOK, Launched, Parse, AgentIs
<1>3. QED
  BY <1>1, <1>2 DEF Parse, Phase, AgentIs, Outcome, Agent!End

LEMMA CancelIsMapped == IInv /\ Cancel => [Agent!Next]_(Agent!agentVars)
<1> SUFFICES ASSUME IInv, Cancel PROVE Agent!CallOff
  BY DEF Agent!Next
<1>1. cancels' > 0 /\ at # "over"
  BY DEF IInv, TypeOK, Cancel, CancelEarly, CancelWait, CancelReap, CancelSweep
<1>2. proc' = proc \/ (proc = "alive" /\ proc' = "dead")
  BY DEF Cancel, CancelEarly, CancelWait, CancelReap, CancelSweep, Kill
<1>3. at' = "over" => proc' # "alive" /\ result' = Cancelled
  BY DEF IInv, Launched, Cancel, CancelEarly, CancelWait, CancelReap, CancelSweep, FinallySweep
<1>4. AgentIs' \in {AgentIs, IF AgentIs = "alive" THEN "stopped" ELSE AgentIs}
  BY <1>2 DEF AgentIs, IInv, TypeOK
<1>5. Phase # "over" /\ (cancels > 0)' = TRUE
  BY <1>1 DEF Phase
<1>6. CASE at' = "over"
  BY <1>3, <1>4, <1>5, <1>6, CancelKeepsIInv DEF Agent!CallOff, Phase, AgentIs, Outcome, IInv, TypeOK
<1>7. CASE at' # "over"
  <2>1. Phase' = "busy" /\ Outcome' = Outcome
    BY <1>1, <1>7 DEF Phase, Outcome
  <2>2. QED
    BY <1>4, <1>5, <2>1 DEF Agent!CallOff
<1>8. QED
  BY <1>6, <1>7

\* The end of the process is the end of the agent; the daemon, the docker rm and
\* what the runner does meanwhile change nothing that AgentRun sees.
LEMMA ProcessesAreMapped ==
    IInv /\ (BoxStarts \/ ProcessEnds \/ Removes \/ Runs) => [Agent!Next]_(Agent!agentVars)
BY DEF IInv, Launched, BoxStarts, ProcessEnds, Removes, Runs, Phase, AgentIs, Outcome,
       Agent!Next, Agent!agentVars, Agent!Stop

LEMMA NextIsMapped == IInv /\ [Next]_vars => [Agent!Next]_(Agent!agentVars)
<1>1. CASE Next
  BY <1>1, PrepareIsMapped, LaunchIsMapped, CompletesIsMapped, HardTimeoutIsMapped,
     ReapedIsMapped, ReapSweptIsMapped, SweptIsMapped, ParseIsMapped, CancelIsMapped,
     ProcessesAreMapped DEF Next, Coroutine
<1>2. CASE UNCHANGED vars
  BY <1>2 DEF vars, Phase, AgentIs, Outcome, Agent!agentVars
<1>3. QED
  BY <1>1, <1>2

\* OpenHandsBackend.run keeps what every backend promises the spine: the process
\* it launched is stopped when the run is over, and only a cancelled run has no
\* result.
THEOREM OpenHandsIsAnAgentRun == Spec => ImplementsAgentRun
BY InitIsMapped, NextIsMapped, IInvHolds, PTL DEF Spec, ImplementsAgentRun, Agent!Spec

=============================================================================
