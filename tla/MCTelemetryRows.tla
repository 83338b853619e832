-------------------------- MODULE MCTelemetryRows --------------------------
(***************************************************************************)
(* A small instance of TelemetryRows: no repeats, gate repeats and a       *)
(* protected floor, and repeated evaluations topping up the gate's trace.  *)
(***************************************************************************)
EXTENDS TelemetryRows, TLC

Plain == [gateR |-> 1, evalR |-> 1, topup |-> FALSE, protect |-> FALSE]

MCConfs ==
    {Plain, [Plain EXCEPT !.gateR = 2, !.protect = TRUE],
     [Plain EXCEPT !.evalR = 2, !.topup = TRUE]}

Ending(tb, ok, unscored) == [tb |-> tb, ok |-> ok, unscored |-> unscored]

MCOutcomes ==
    {Ending("completed", TRUE, FALSE), Ending("completed", FALSE, FALSE),
     Ending("timeout", TRUE, FALSE), Ending("agent_error", FALSE, TRUE)}

Symmetric == Permutations(Tasks)
=============================================================================
