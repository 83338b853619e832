----------------------------- MODULE MCSearchRun -----------------------------
(* Small instances of SearchRun: two tasks, a crash and one success. *)
EXTENDS SearchRun

MCTasks == {1, 2}

MCSeedId == <<0, 0, 0, 0>>
MCMergeId == <<MaxIterations + 1, 0, 0, 0>>

Crash == [ok |-> FALSE, score |-> 0, script |-> FALSE]
Ran(score) == [ok |-> TRUE, score |-> score, script |-> TRUE]

\* Two ways to win one task each.
DisjointWins == {<<Ran(1), Crash>>, <<Crash, Ran(1)>>}

\* The seed fails the task whose later win may be barred.
SecondWin == {<<Crash, Ran(1)>>}

\* The verified-code check may bar the first task.
MCBarChoices == {{}, {1}}
NoBars == {{}}
=============================================================================
