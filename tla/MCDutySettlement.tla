-------------------------- MODULE MCDutySettlement --------------------------
(* Instances of DutySettlement for TLC: one booking, and one with a request   *)
(* beside one without.                                                        *)
EXTENDS DutySettlement, TLC

CONSTANTS b1, b2, h1, h2, k1, k2

SwapBookings == Permutations(Bookings)
============================================================================
