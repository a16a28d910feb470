------------------------------- MODULE MCOutput -------------------------------
(* Output with two displays, of which only the first is reassigned. *)
EXTENDS Output, TLC

CONSTANTS s1, s2, a1, a2

Displays == {s1, s2}

Views == {a1, a2}

FirstView == [s \in Displays |-> a1]

AssignsOf == s1 :> 2 @@ s2 :> 0
=============================================================================
