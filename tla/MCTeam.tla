------------------------------- MODULE MCTeam --------------------------------
(* Instances of Team for TLC.                                                 *)
EXTENDS Team

(* The rates of the settings when none are saved, and higher ones.            *)
SavedRates == {[half |-> PricingRates.half, full |-> PricingRates.full],
               [half |-> [week |-> 280, weekend |-> 310], full |-> [week |-> 340, weekend |-> 340]]}
=============================================================================
