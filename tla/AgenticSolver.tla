---------------------------- MODULE AgenticSolver ----------------------------
(***************************************************************************)
(* AgenticSolver._agentic_loop: turns of one language-model call each,     *)
(* whose answer is parsed, executed and scored, until the model declares   *)
(* the task complete twice in a row, scores perfectly, or runs out of      *)
(* turns, of context or of spend. Several solvers share one LLMClient.     *)
(***************************************************************************)
EXTENDS LLMClient

CONSTANTS
    Solvers,      \* the callers that are solvers; the others make one call each
    MaxTurns,
    SpendBudget,  \* spend_budget
    MaxInner,     \* bound: inner tokens of one execution
    Perfect,      \* the score 1.0; scores are 0..Perfect
    NoScore       \* a score that is not finite, or no trace yet

ASSUME SolverAssumption ==
    /\ Solvers \subseteq Callers
    /\ MaxTurns \in Nat \ {0} /\ SpendBudget \in Nat /\ MaxInner \in Nat /\ Perfect \in Nat \ {0}

VARIABLE
    loop  \* of each solver: the state of its loop, a record of LoopStates

vars == <<client, loop>>

PCs == {"top", "summary", "turn", "declare", "work", "done", "halted"}

\* How the loop can end, _AgenticResult.terminated_by.
Stops == {"confirmed", "perfect_score", "env_error", "spend_budget",
          "spend_budget_unconfirmed_complete", "token_budget",
          "token_budget_unconfirmed_complete", "max_turns",
          "max_turns_unconfirmed_complete"}

-----------------------------------------------------------------------------
(* Parsing *)

\* What an answer looks like: its code block, its analysis and its status tag.
Replies == [code: {"closed", "unclosed", "fenced", "none"}, analysis: BOOLEAN,
            status: {"none", "working", "complete"}, text: BOOLEAN]

\* Tags are tried before fences, and an answer without any of them is code.
ParseResponse(r) ==
    LET untagged == r.code = "none" /\ ~r.analysis /\ r.status = "none"
    IN  [code     |-> r.code # "none" \/ (untagged /\ r.text),
         errors   |-> r.code = "unclosed" \/ untagged,
         status   |-> r.status # "none",
         complete |-> r.status = "complete"]

\* The answers of a call: an empty one has none of the parts.
RepliesOf(c) ==
    IF call[c].text THEN {r \in Replies : r.text}
    ELSE {[code |-> "none", analysis |-> FALSE, status |-> "none", text |-> FALSE]}

-----------------------------------------------------------------------------
(* One turn: what it makes of the loop's state, as a set of outcomes *)

Outcomes == 0..Perfect \cup {NoScore}

LoopStates ==
    [pc: PCs,            \* what the solver awaits or is about to do
     turn: 0..MaxTurns,  \* turns that began
     pending: BOOLEAN,   \* pending_completion
     fill: 0..2,         \* _estimate_tokens: 1 above 85%, 2 above 95% of token_budget
     msgs: Nat,          \* len(messages)
     total: Nat, inner: Nat,       \* total_tokens, inner_tokens_total
     best: Outcomes,     \* score of best_trace
     streak: 0..2,       \* history: answers in a row that declared completion, up to two
     stop: Stops \cup {"none"}]    \* terminated_by of the result

End(l, why) == [l EXCEPT !.pc = "done", !.stop = why]

\* The loop goes round: two messages longer, and perhaps fuller.
Continue(l) == {[l EXCEPT !.pc = "top", !.msgs = @ + 2, !.fill = f] : f \in l.fill..2}

Withdrawn(l) == [l EXCEPT !.pending = FALSE]

\* Mutant of OverSpent: what the executions spent is not counted.
OverSpentOuter(l) == l.total >= SpendBudget

OverSpent(l) == l.total + l.inner >= SpendBudget

\* The reason of a loop that ran out, or was left at the context limit.
Exhausted(l) == IF l.fill = 2 THEN "token_budget" ELSE "max_turns"

\* Completion declared while it was pending: accepted when a run was scored.
Confirmed(l) ==
    IF l.best # NoScore THEN {End(l, "confirmed")}
    ELSE Continue(Withdrawn(l))

\* Completion declared for the first time, any code of the answer executed: the
\* next turn must confirm, and on the last turn there is none.
Declared(l) ==
    IF l.turn = MaxTurns THEN {End(l, "max_turns_unconfirmed_complete")}
    ELSE Continue([l EXCEPT !.pending = TRUE])

\* Mutant of Codeless: a completion stays pending over an answer without code.
CodelessPending(l) == Continue(l)

\* An answer without code, a turn that is wasted or that declines to confirm.
Codeless(l) == Continue(Withdrawn(l))

Read(l, p) ==
    CASE p.complete /\ l.pending            -> Confirmed(l)
      [] p.complete /\ ~l.pending /\ p.code  -> {[l EXCEPT !.pc = "declare"]}
      [] p.complete /\ ~l.pending /\ ~p.code -> Declared(l)
      [] ~p.complete /\ p.code              -> {[Withdrawn(l) EXCEPT !.pc = "work"]}
      [] ~p.complete /\ ~p.code             -> Codeless(l)

Higher(score, b) == score # NoScore /\ (b = NoScore \/ score > b)

\* _execute_and_track: the first of the best finite scores is kept; a crash of
\* the executor is an execution that scores 0.
Executed(l, score, cost) ==
    [l EXCEPT !.inner = @ + cost,
              !.best = IF Higher(score, @) THEN score ELSE @]

-----------------------------------------------------------------------------
(* Actions *)

Moves(s, outcomes) == \E l \in outcomes : loop' = [loop EXCEPT ![s] = l]

\* The guards at the head of a turn; then the turn's first call.
Top(s) ==
    LET l == loop[s]
        Stop(why, unconfirmed) ==
            Moves(s, {End(l, IF l.pending THEN unconfirmed ELSE why)}) /\ UNCHANGED call
    IN  /\ l.pc = "top"
        /\ IF l.turn = MaxTurns THEN Moves(s, {End(l, Exhausted(l))}) /\ UNCHANGED call
           ELSE IF OverSpent(l) THEN Stop("spend_budget", "spend_budget_unconfirmed_complete")
           ELSE IF l.fill = 2 THEN Stop("token_budget", "token_budget_unconfirmed_complete")
           ELSE /\ Complete(s)
                /\ Moves(s, {[l EXCEPT !.turn = @ + 1,
                                !.pc = IF l.fill = 1 /\ l.msgs >= 6 THEN "summary" ELSE "turn"]})
        /\ UNCHANGED books

\* _summarize_context: the oldest messages give way to one; a failure is
\* ignored. The turn's own call follows in any case.
Summarized(s) ==
    LET l == [loop[s] EXCEPT !.pc = "turn"]
    IN  /\ loop[s].pc = "summary" /\ call[s].st \in {"returned", "raised"}
        /\ Moves(s, IF call[s].st = "raised" THEN {l}
                    ELSE {[l EXCEPT !.total = @ + call[s].tokens, !.msgs = 6, !.fill = f] :
                             f \in 0..l.fill})
        /\ Complete(s) /\ UNCHANGED books

\* The turn's call returned: its tokens are booked, its answer is parsed.
TurnAnswers(s) ==
    /\ loop[s].pc = "turn" /\ call[s].st = "returned"
    /\ \E p \in {ParseResponse(r) : r \in RepliesOf(s)} :
       LET l == [loop[s] EXCEPT !.total = @ + call[s].tokens,
                                !.streak = IF p.complete THEN Min({@ + 1, 2}) ELSE 0]
       IN  Moves(s, Read(l, p))
    /\ Consume(s) /\ UNCHANGED books

\* A call that gave up ends the loop; the best trace so far is the result.
TurnFails(s) ==
    /\ loop[s].pc = "turn" /\ call[s].st = "raised"
    /\ Moves(s, {End(loop[s], "env_error")})
    /\ Consume(s) /\ UNCHANGED books

\* BudgetExceededError is a BaseException: it leaves the solver without a trace.
Halt(s) ==
    /\ loop[s].pc \in {"summary", "turn"} /\ call[s].st = "halted"
    /\ Moves(s, {[loop[s] EXCEPT !.pc = "halted"]})
    /\ Consume(s) /\ UNCHANGED books

\* The code of a first declaration is executed before the model is asked to
\* confirm; any other code is a turn's work.
ExecuteDeclared(s, score, cost) ==
    /\ loop[s].pc = "declare"
    /\ Moves(s, Declared(Executed(loop[s], score, cost)))
    /\ UNCHANGED client

ExecuteWork(s, score, cost) ==
    LET l == Executed(loop[s], score, cost)
    IN  /\ loop[s].pc = "work"
        /\ Moves(s, IF score = Perfect THEN {End(l, "perfect_score")} ELSE Continue(l))
        /\ UNCHANGED client

Fresh(f) ==
    [pc |-> "top", turn |-> 0, pending |-> FALSE, fill |-> f, msgs |-> 1, total |-> 0,
     inner |-> 0, best |-> NoScore, streak |-> 0, stop |-> "none"]

Init ==
    /\ ClientInit
    /\ \E f \in [Solvers -> 0..2] : loop = [s \in Solvers |-> Fresh(f[s])]

Step(s) ==
    \/ ClientStep(s) /\ UNCHANGED loop
    \/ Top(s) \/ Summarized(s) \/ TurnAnswers(s) \/ TurnFails(s) \/ Halt(s)
    \/ \E score \in Outcomes, cost \in 0..MaxInner :
          ExecuteDeclared(s, score, cost) \/ ExecuteWork(s, score, cost)

\* Another coroutine of the process, Omega's say, has a call of its own.
Other(c) ==
    /\ c \notin Solvers
    /\ \/ call[c].st = "idle" /\ Complete(c) /\ UNCHANGED books
       \/ ClientStep(c)
    /\ UNCHANGED loop

Next == \/ \E s \in Solvers : Step(s)
        \/ \E c \in Callers : Other(c)

\* A coroutine that can go on is resumed: requests have a timeout
\* (request_timeout) and executions a time limit.
Spec == Init /\ [][Next]_vars /\ \A s \in Solvers : WF_vars(Step(s))

-----------------------------------------------------------------------------
(* Properties *)

\* Counters, verdicts and messages have the values the loop gives them.
TypeOK == ClientTypeOK /\ loop \in [Solvers -> LoopStates]

Reported ==
    SumFunction([s \in Solvers |-> loop[s].total])
    + SumFunction([c \in Callers |-> call[c].first + call[c].tokens])

\* What the results of the solvers add up to is what the client counted, up to
\* the first, cut answer of each call that then failed (complete raises, and
\* with it go the tokens of the answer it had escalated).
UsageIsReported ==
    Reported <= usage /\ usage <= Reported + lapsed * MaxCost

\* Neither limit stops a call in flight: a solver overspends its budget by at most
\* one turn (a summary, an answer and an execution, each call escalated at most
\* once), and the day its cap by what the last admitted requests cost.
SpendIsBounded ==
    /\ \A s \in Solvers : loop[s].total + loop[s].inner < SpendBudget + 4 * MaxCost + MaxInner
    /\ CapOvershootIsBounded

\* A solver that ends as confirmed declared completion in two answers in a row,
\* and a run of it was scored (the two-stage completion).
ConfirmationIsTwofold ==
    \A s \in Solvers : loop[s].stop = "confirmed" => loop[s].streak = 2 /\ loop[s].best # NoScore

\* Every solver ends, with a result or by the cap, whatever its calls do.
EverySolverEnds == <>(\A s \in Solvers : loop[s].pc \in {"done", "halted"})
=============================================================================
