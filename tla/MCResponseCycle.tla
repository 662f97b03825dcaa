-------------------------- MODULE MCResponseCycle --------------------------
(* Instances of ResponseCycle for TLC: three responses. *)
EXTENDS ResponseCycle, TLC

CONSTANTS c1, c2, c3

\* The second response is returned twice, the third three times in a row.
OneTwoThree == (0 :> 0) @@ (1 :> 2) @@ (2 :> 3)

\* No repeat behaviour: the field is absent, or says 1.
NoRepeats == (0 :> 0) @@ (1 :> 1) @@ (2 :> 0)

CallersSymmetric == Permutations(Callers)
=============================================================================
