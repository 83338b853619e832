-------------------------- MODULE MCHelperLibrary --------------------------
(* Two helpers that may call each other, over a seed and two layers. *)
EXTENDS HelperLibrary

MCNames == {1, 2}
Code(calls, flagged, broken) == [calls |-> calls, flagged |-> flagged, broken |-> broken]
MCSources ==
    {Code({}, FALSE, FALSE), Code({1, 2}, FALSE, FALSE),
     Code({}, TRUE, FALSE), Code({}, FALSE, TRUE)}
SomeSeeds == {<<>>, [n \in {1} |-> Code({}, FALSE, FALSE)]}

=============================================================================
