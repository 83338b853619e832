--------------------------- MODULE MCEvalProcess ---------------------------
(* Small instances of EvalProcess. *)
EXTENDS EvalProcess, TLC

AllKinds == {"tracked", "program", "attempts"}
FilesOfTwo == <<"f1", "f1">>
TwoAndOne == <<2, 1>>
Unreadable == {"f3"}
SomeDevMaps == {[f \in {} |-> {}], "f1" :> {}, "f1" :> {1}, ("f1" :> {0, 5}) @@ ("f3" :> {0})}
============================================================================
