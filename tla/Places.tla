------------------------------- MODULE Places --------------------------------
(* The places a parent saves (public.py, parent_locations): which of them is  *)
(* her default, the copy of it in her profile, and what a request, the        *)
(* booking that comes of it and the nanny's check-in know of a place.         *)
(*                                                                            *)
(* A handler reads what it needs and decides (`Begin...`), then writes and    *)
(* commits.  Deleting the default place takes two commits: the deletion, and  *)
(* the promotion of another place.  Two workers interleave, and `crossed`     *)
(* tells whether one has ever committed while the other was busy.  Labels and *)
(* addresses are left out, as is the older form of a home address, which the  *)
(* client does not send.                                                      *)
EXTENDS Integers, Sequences, FiniteSets

CONSTANTS
    Workers, Jobs,
    Positions,                   \* coordinates
    Cell,                        \* position -> the coordinates as rounded
    MaxCalls, MaxCrashes         \* bounds

ASSUME PlacesTyped ==
    /\ DOMAIN Cell = Positions
    /\ {MaxCalls, MaxCrashes} \subseteq Nat

VARIABLES
    places,     \* saved places in the order of their creation
    home,       \* position in the parent's profile
    job,        \* request, its booking and the check-in
    sess,       \* what a worker has read and is about to write
    crossed, orphaned,   \* history
    calls, crashes

vars == <<places, home, job, sess, crossed, orphaned, calls, crashes>>

Nowhere == "nowhere"
Somewhere == Positions \union {Nowhere}
Idle == [op |-> "idle"]

Live == {i \in DOMAIN places : places[i].live}
Defaults == {i \in Live : places[i].default}
Latest == CHOOSE i \in Live : \A k \in Live : k <= i

(* A search without a position of its own starts at the default place.        *)
SearchFrom ==
    IF Defaults = {} THEN Nowhere ELSE places[CHOOSE i \in Defaults : TRUE].at

Init ==
    /\ places = <<>> /\ home = Nowhere
    /\ job = [j \in Jobs |-> [status |-> "none", asked |-> Nowhere, place |-> 0,
                              spot |-> Nowhere, met |-> Nowhere]]
    /\ sess = [w \in Workers |-> Idle]
    /\ crossed = FALSE /\ orphaned = FALSE /\ calls = 0 /\ crashes = 0

Begin(w, s) ==
    /\ sess[w] = Idle /\ calls < MaxCalls
    /\ calls' = calls + 1
    /\ sess' = [sess EXCEPT ![w] = s]
    /\ UNCHANGED <<places, home, job, crossed, orphaned, crashes>>

Commits(w, op, next) ==
    /\ sess[w].op = op
    /\ sess' = [sess EXCEPT ![w] = next]
    /\ crossed' = (crossed \/ \E v \in Workers \ {w} : sess[v] # Idle)
    /\ UNCHANGED <<calls, crashes>>

(* Mutant: the place that was the default stays so.                           *)
PreferredBeside(ps, i) == [ps EXCEPT ![i].default = TRUE]

(* Place i is the default, and no other.                                      *)
Preferred(ps, i) == [k \in DOMAIN ps |-> [ps[k] EXCEPT !.default = k = i]]

HomeAt(ps, i) == ps[i].at

----------------------------------------------------------------------------
(* Places                                                                    *)

SamePlace(p, q) == Cell[p] = Cell[q]

First(asked) == asked \/ Live = {}

(* create_parent_location; a place that is there already is returned as it is *)
BeginCreate(w) ==
    \E p \in Positions, asked \in BOOLEAN :
        /\ ~\E i \in Live : SamePlace(places[i].at, p)
        /\ Begin(w, [op |-> "create", at |-> p, default |-> First(asked)])

CommitCreate(w) ==
    /\ Commits(w, "create", Idle)
    /\ LET s == sess[w]
           with == Append(places, [at |-> s.at, default |-> FALSE, live |-> TRUE])
           i == Len(with)
       IN IF s.default
          THEN places' = Preferred(with, i) /\ home' = HomeAt(with, i) /\ orphaned' = FALSE
          ELSE places' = with /\ UNCHANGED <<home, orphaned>>
    /\ UNCHANGED job

(* set_parent_location_default                                               *)
BeginPrefer(w) ==
    \E i \in Live : Begin(w, [op |-> "prefer", id |-> i])

(* The update of a place that is gone fails, and all of it is rolled back.    *)
CommitPrefer(w) ==
    /\ Commits(w, "prefer", Idle)
    /\ LET i == sess[w].id IN
        IF i \in Live
        THEN places' = Preferred(places, i) /\ home' = HomeAt(places, i) /\ orphaned' = FALSE
        ELSE UNCHANGED <<places, home, orphaned>>
    /\ UNCHANGED job

(* delete_parent_location                                                    *)
BeginDelete(w) ==
    \E i \in Live : Begin(w, [op |-> "delete", id |-> i, default |-> places[i].default])

(* Requests for the place lose it (ON DELETE SET NULL).                       *)
WithoutPlace(i) == [j \in Jobs |-> IF job[j].place = i THEN [job[j] EXCEPT !.place = 0] ELSE job[j]]

CommitDelete(w) ==
    /\ Commits(w, "delete", IF sess[w].default THEN [op |-> "promote"] ELSE Idle)
    /\ LET i == sess[w].id IN
        /\ places' = [places EXCEPT ![i].live = FALSE]
        /\ job' = WithoutPlace(i)
    /\ UNCHANGED <<home, orphaned>>

Promote(w) ==
    /\ Commits(w, "promote", Idle)
    /\ IF Live = {} THEN UNCHANGED <<places, home, orphaned>>
       ELSE /\ places' = [places EXCEPT ![Latest].default = TRUE]
            /\ home' = HomeAt(places, Latest)
            /\ orphaned' = FALSE
    /\ UNCHANGED job

(* The process ends; between the two commits of a deletion, that leaves the   *)
(* places without a default.                                                  *)
Crash(w) ==
    /\ sess[w] # Idle /\ crashes < MaxCrashes
    /\ crashes' = crashes + 1
    /\ sess' = [sess EXCEPT ![w] = Idle]
    /\ orphaned' = (orphaned \/ sess[w].op = "promote")
    /\ UNCHANGED <<places, home, job, crossed, calls>>

----------------------------------------------------------------------------
(* Requests, bookings and check-ins                                          *)

(* create_booking_request_bulk, with a place of hers or none                  *)
Request(j) ==
    \E i \in Live \union {0} :
        /\ job[j].status = "none"
        /\ job' = [job EXCEPT ![j].status = "waiting", ![j].place = i,
                              ![j].asked = IF i = 0 THEN Nowhere ELSE places[i].at]
        /\ UNCHANGED <<places, home, sess, crossed, orphaned, calls, crashes>>

(* Mutant: the booking is where the parent's home is.                         *)
SpotAtHome(j) == home
SpotOf(j) == IF job[j].place = 0 THEN Nowhere ELSE places[job[j].place].at

(* accept_booking_request and the other ways to a booking copy the place.     *)
Accept(j) ==
    /\ job[j].status = "waiting"
    /\ job' = [job EXCEPT ![j].status = "booked", ![j].spot = SpotOf(j)]
    /\ UNCHANGED <<places, home, sess, crossed, orphaned, calls, crashes>>

(* nanny_check_in_booking: within 100 m of a position that the booking has   *)
CloseEnough(p, spot) == spot # Nowhere /\ SamePlace(p, spot)

CheckIn(j) ==
    \E p \in Positions :
        /\ job[j].status = "booked" /\ CloseEnough(p, job[j].spot)
        /\ job' = [job EXCEPT ![j].status = "started", ![j].met = p]
        /\ UNCHANGED <<places, home, sess, crossed, orphaned, calls, crashes>>

Next ==
    \/ \E w \in Workers :
        \/ BeginCreate(w) \/ CommitCreate(w) \/ BeginPrefer(w) \/ CommitPrefer(w)
        \/ BeginDelete(w) \/ CommitDelete(w) \/ Promote(w) \/ Crash(w)
    \/ \E j \in Jobs : Request(j) \/ Accept(j) \/ CheckIn(j)

Spec == Init /\ [][Next]_vars

----------------------------------------------------------------------------

(* With the references that the database keeps: a request names a place that  *)
(* is there.                                                                  *)
TypeOK ==
    /\ \A i \in DOMAIN places : places[i] \in [at : Positions, default : BOOLEAN, live : BOOLEAN]
    /\ home \in Somewhere
    /\ job \in [Jobs -> [status : {"none", "waiting", "booked", "started"}, asked : Somewhere,
                         place : Nat, spot : Somewhere, met : Somewhere]]
    /\ \A j \in Jobs : job[j].place \in Live \union {0}

Promoting == \E w \in Workers : sess[w].op = "promote"

(* Whatever is created, chosen and deleted, a parent who has places has one   *)
(* default, from which a search starts and which her profile shows; there is  *)
(* none while a deletion is under way and after it was cut off.               *)
OneDefaultFollowed ==
    \/ crossed
    \/ /\ Cardinality(Defaults) <= 1
       /\ Live = {} \/ Promoting \/ orphaned \/ Defaults # {}
       /\ Defaults # {} => home = SearchFrom

(* A booking is where the parent asked for it, though she has moved, chosen   *)
(* another default or deleted places since; it is without a position only if  *)
(* the place went before the nanny accepted.  Whoever has checked in was at   *)
(* the place that was asked for.                                              *)
ServedWhereAsked ==
    /\ \A j \in Jobs : job[j].status \in {"booked", "started"} =>
          \/ job[j].spot = job[j].asked
          \/ job[j].spot = Nowhere /\ job[j].place = 0
    /\ \A j \in Jobs : job[j].status = "started" =>
          job[j].asked # Nowhere /\ Cell[job[j].met] = Cell[job[j].asked]

=============================================================================
