----------------------------- MODULE MCMatching ------------------------------
(* Instances of Matching for TLC: three nannies around a parent's places.     *)
EXTENDS Matching

(* Two positions of one house, and two others.                               *)
Houses == [gate |-> "house", door |-> "house", gran |-> "gran", work |-> "work"]

(* Seen from the house each nanny is six hundred metres further than the one  *)
(* before her; one of them is too far from work.                             *)
Distances ==
    <<[gate |-> 0, door |-> 0, gran |-> 9, work |-> 20],
      [gate |-> 6, door |-> 6, gran |-> 9, work |-> 310],
      [gate |-> 12, door |-> 12, gran |-> 5, work |-> 15]>>

OneReviewEach == [n \in Nannies |-> [stars |-> n + 1, count |-> 1]]

(* The nanny is free in the evening of the first day, until after midnight in *)
(* Johannesburg and before it in UTC; the morning is the other way round.     *)
OneEvening == <<Entry(1, <<9, 1>>, <<21, 25>>, "available", TRUE, "nanny", TRUE)>>
MorningAndNight == {<<1, 5>>, <<9, 1>>}
=============================================================================
