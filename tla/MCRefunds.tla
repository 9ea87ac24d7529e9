----------------------------- MODULE MCRefunds -----------------------------
(* Instances of Refunds for TLC: one job with one or two paid requests.       *)
EXTENDS Refunds, TLC

CONSTANTS j1, q1, q2, w1, w2

OneJob == [r \in Requests |-> j1]
WagePaid == [r \in Requests |-> 1]
FeePaid == [r \in Requests |-> 1]
OvertimeCharged == [r \in Requests |-> IF r = 1 THEN 1 ELSE 0]

SwapQueries == Permutations(Queries)
============================================================================
