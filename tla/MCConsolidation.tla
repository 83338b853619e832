--------------------------- MODULE MCConsolidation ---------------------------
(* A small instance of Consolidation: three tasks on a scale from -1 to 2. *)
EXTENDS Consolidation

MCTasks == {1, 2, 3}
MCSeedId == <<0, 0, 0>>

Ran(score) == [ok |-> TRUE, score |-> score, script |-> TRUE, finite |-> TRUE]
Crashed == [ok |-> FALSE, score |-> 0, script |-> FALSE, finite |-> TRUE]
NotANumber == [ok |-> FALSE, score |-> 0, script |-> TRUE, finite |-> FALSE]

\* A loss, a saturated score, a solve that raised, a score that is no number.
MCOutcomes == {Ran(-1), Ran(2), Crashed, NotANumber}

\* Two draws of the seed: the second is better, or is no number.
MCSeedDraws == {<<Ran(0), Ran(1)>>, <<Crashed, NotANumber>>}

\* Deepening over the current headroom, the frozen ranking, and plain rounds.
MCModes == {[deepen |-> TRUE, guard |-> TRUE, current |-> TRUE],
            [deepen |-> FALSE, guard |-> TRUE, current |-> FALSE],
            [deepen |-> TRUE, guard |-> FALSE, current |-> FALSE]}
=============================================================================
