------------------------------- MODULE MCDesk -------------------------------
(* Instances of Desk for TLC.                                                 *)
EXTENDS Desk, TLC

CONSTANTS p1, p2, n1, n2, w1, w2

Everywhere == [n \in Nannies |-> Windows]

SwapNannies == Permutations(Nannies)
SwapPeople == SwapNannies \cup Permutations(Parents)
=============================================================================
