--------------------------- MODULE MCNotifications ---------------------------
(* Instances of Notifications for TLC.                                        *)
EXTENDS Notifications, TLC

CONSTANTS a, b, h1, h2, i1, i2

ChatThenEmail == [n \in Notes |-> <<"whatsapp", "email">>]
OneAhead == [i \in Instances |-> IF i = i1 THEN 1 ELSE 0]

SwapHandlers == Permutations(Handlers)
=============================================================================
