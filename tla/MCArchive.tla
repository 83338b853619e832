------------------------------ MODULE MCArchive ------------------------------
(* Small instances of Archive: two tasks, a crash and two grades of success. *)
EXTENDS Archive

MCSymmetry == Permutations(ChildIds)

MCTasks == {1, 2}

Crash == [ok |-> FALSE, score |-> 0, script |-> FALSE]
Ran(score) == [ok |-> TRUE, score |-> score, script |-> TRUE]

\* A unit scale: a crash is the lowest score.
UnitOutcomes == {Crash, Ran(1), Ran(2)}
=============================================================================
