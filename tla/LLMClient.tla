------------------------------ MODULE LLMClient ------------------------------
(***************************************************************************)
(* LLMClient.complete_with_breakdown and the CostTracker under it, for     *)
(* several coroutines of one process: the check against the daily cap      *)
(* before every attempt, the retries, the line in the day's ledger, the    *)
(* process-wide usage counters and the single escalation of an answer that *)
(* was cut before any text. Other modules extend this one: they call       *)
(* Complete and consume what a call returned or raised.                    *)
(***************************************************************************)
EXTENDS Integers, FiniteSets, FiniteSetsExt

CONSTANTS
    Callers,     \* coroutines that may have one call each in flight
    Threshold,   \* daily_cap_usd - reservation_usd, in units of cost
    MaxCost,     \* bound: tokens, and cost, of one request
    MaxRetries,  \* config.max_retries
    MaxFaults    \* bound: ledger appends that fail

ASSUME ClientAssumption ==
    /\ IsFiniteSet(Callers) /\ Callers # {}
    /\ Threshold \in Nat \ {0} /\ MaxCost \in Nat \ {0}
    /\ MaxRetries \in Nat /\ MaxFaults \in Nat

VARIABLES
    call,    \* the call of each caller
    usage,   \* cumulative_usage["total"] of the process
    ledger,  \* what today_total_usd reads back from the day's file
    torn,    \* does the day's file end in a fragment?
    spent,   \* what the day's requests really cost
    unread,  \* the part of it that no readable line carries
    lapsed,  \* calls that ended without returning
    faults

\* Everything but the calls themselves.
books  == <<usage, ledger, torn, spent, unread, lapsed, faults>>
client == <<call, usage, ledger, torn, spent, unread, lapsed, faults>>

States == {"idle", "check", "flying", "returned", "raised", "halted"}

\* What a request may come back with: text, no choices or no text, or nothing
\* but the length limit; a provider that reports no usage reports 0 tokens.
Answers == [kind: {"text", "empty", "cut"}, tokens: 0..MaxCost]

Free == [st |-> "idle", attempt |-> 0, first |-> 0, escalated |-> FALSE,
         text |-> FALSE, tokens |-> 0]

\* A caller enters complete().
Complete(c) == call' = [call EXCEPT ![c] = [Free EXCEPT !.st = "check"]]

\* A caller takes what its call left.
Consume(c) == call' = [call EXCEPT ![c] = Free]

Ends(c, how) == [call EXCEPT ![c].st = how]

\* assert_under_cap, before each attempt: nothing is awaited between the read
\* of the ledger and the request, but other callers may be in flight.
Check(c) ==
    /\ call[c].st = "check"
    /\ call' = Ends(c, IF ledger >= Threshold THEN "halted" ELSE "flying")
    /\ lapsed' = IF ledger >= Threshold THEN lapsed + 1 ELSE lapsed
    /\ UNCHANGED <<usage, ledger, torn, spent, unread, faults>>

\* _append_ledger_record: the line is readable unless it is glued to a fragment.
Booked(cost) ==
    /\ spent' = spent + cost
    /\ ledger' = IF cost > 0 /\ ~torn THEN ledger + cost ELSE ledger
    /\ unread' = IF cost > 0 /\ torn THEN unread + cost ELSE unread
    /\ torn' = (torn /\ cost = 0)

\* An empty answer at the length limit is asked for once more, with more room.
Escalates(c, a) == a.kind = "cut" /\ ~call[c].escalated

\* Mutant of Escalated: the tokens of the first answer are forgotten.
EscalatedForgetting(c, a) ==
    [Free EXCEPT !.st = "check", !.escalated = TRUE]

Escalated(c, a) ==
    [Free EXCEPT !.st = "check", !.escalated = TRUE, !.first = a.tokens]

Returned(c, a) ==
    [call[c] EXCEPT !.st = "returned", !.text = (a.kind = "text"),
                    !.first = 0,
                    !.tokens = call[c].first + a.tokens]

\* A request answers and is booked: the ledger first, then the counters.
Answer(c, a) ==
    /\ call[c].st = "flying"
    /\ Booked(a.tokens)
    /\ usage' = usage + a.tokens
    /\ call' = [call EXCEPT ![c] = IF Escalates(c, a) THEN Escalated(c, a) ELSE Returned(c, a)]
    /\ UNCHANGED <<lapsed, faults>>

\* The append raises: an OSError is not retried, the counters do not move, and
\* the request has been paid for.
AnswerUnbooked(c, a, fragment) ==
    /\ call[c].st = "flying" /\ a.tokens > 0 /\ faults < MaxFaults
    /\ faults' = faults + 1
    /\ spent' = spent + a.tokens /\ unread' = unread + a.tokens
    /\ torn' = (torn \/ fragment)
    /\ call' = Ends(c, "raised") /\ lapsed' = lapsed + 1
    /\ UNCHANGED <<usage, ledger>>

\* Mutant of Fail: the retries of a transient error are not counted.
FailUncounted(c, transient) ==
    /\ call[c].st = "flying"
    /\ call' = Ends(c, IF transient THEN "check" ELSE "raised")
    /\ lapsed' = IF transient THEN lapsed ELSE lapsed + 1
    /\ UNCHANGED <<usage, ledger, torn, spent, unread, faults>>

\* An attempt fails: retried after a delay if the error is of a transient kind
\* and attempts are left.
Fail(c, transient) ==
    /\ call[c].st = "flying"
    /\ IF transient /\ call[c].attempt < MaxRetries
       THEN /\ call' = [call EXCEPT ![c].st = "check", ![c].attempt = @ + 1]
            /\ UNCHANGED lapsed
       ELSE call' = Ends(c, "raised") /\ lapsed' = lapsed + 1
    /\ UNCHANGED <<usage, ledger, torn, spent, unread, faults>>

ClientInit ==
    /\ call = [c \in Callers |-> Free]
    /\ usage = 0 /\ ledger = 0 /\ torn = FALSE /\ spent = 0 /\ unread = 0
    /\ lapsed = 0 /\ faults = 0

ClientStep(c) ==
    \/ Check(c)
    \/ \E a \in Answers : Answer(c, a)
    \/ \E a \in Answers, fragment \in BOOLEAN : AnswerUnbooked(c, a, fragment)
    \/ \E transient \in BOOLEAN : Fail(c, transient)

ClientTypeOK ==
    /\ call \in [Callers -> [st: States, attempt: 0..MaxRetries, first: 0..MaxCost,
                             escalated: BOOLEAN, text: BOOLEAN, tokens: 0..(2 * MaxCost)]]
    /\ usage \in Nat /\ ledger \in Nat /\ torn \in BOOLEAN /\ spent \in Nat
    /\ unread \in Nat /\ lapsed \in Nat /\ faults \in 0..MaxFaults

-----------------------------------------------------------------------------
(* Properties *)

\* However the callers interleave, retry and escalate, the day costs at most what
\* the last admitted requests can add to a ledger below the threshold, and what
\* failed appends hid from it.
CapOvershootIsBounded ==
    spent <= Threshold - 1 + Cardinality(Callers) * MaxCost + unread
=============================================================================
