------------------------------ MODULE Matching -------------------------------
(* How a parent finds a nanny: from one of her places (Places), among the     *)
(* nannies who may be listed and, for given times, whose calendars are open   *)
(* (Calendar), in the order of `_search_nannies_by_area`; and how the desk    *)
(* finds one for a request.                                                   *)
(*                                                                            *)
(* One nanny, the Planner, has the calendar of the module Calendar; what      *)
(* another's says is any answer.  Distances are in hundreds of metres.  Which *)
(* nannies may be listed at all is the module Screening's.                    *)
EXTENDS Places, Calendar

CONSTANTS
    Nannies, Planner,
    Away,             \* nanny -> position -> distance
    Stars,            \* averages of reviews
    Reviewed,         \* reviews at the start
    Radius,           \* how far the desk looks, in hundreds of metres
    MaxReviews        \* bound

VARIABLES
    rated,            \* average and number of a nanny's reviews of 12 months
    found,            \* the list that was answered last
    reviews

matching == <<vars, calendar, rated, found, reviews>>

NoList == [for |-> "nobody", list |-> <<>>]
Unknown == -1

MatchingInit ==
    /\ Init /\ CalendarInit
    /\ rated = Reviewed /\ found = NoList /\ reviews = 0

(* The approved reviews of a year (get_rating_12m_for_nanny).                 *)
Review ==
    \E n \in Nannies, s \in Stars :
        /\ reviews < MaxReviews /\ s # rated[n].stars
        /\ rated' = [rated EXCEPT ![n] = [stars |-> s, count |-> IF s = 0 THEN 0 ELSE @.count + 1]]
        /\ reviews' = reviews + 1
        /\ found' = NoList
        /\ UNCHANGED <<vars, calendar>>

----------------------------------------------------------------------------
(* The order of a list                                                       *)

BetterRated(a, b) == a.stars > b.stars \/ (a.stars = b.stars /\ a.count > b.count)
SameRated(a, b) == a.stars = b.stars /\ a.count = b.count

Distance(a, b) == IF a.km > b.km THEN a.km - b.km ELSE b.km - a.km

(* compare: within a kilometre of each other the better rated nanny is first, *)
(* else the closer one; a nanny at no known distance is behind the others.    *)
Beats(a, b) ==
    \/ a.km # Unknown /\ b.km = Unknown
    \/ /\ a.km = Unknown <=> b.km = Unknown
       /\ LET near == a.km = Unknown \/ Distance(a, b) < 10 IN
          \/ near /\ BetterRated(a, b)
          \/ (near => SameRated(a, b)) /\ (a.km < b.km \/ (a.km = b.km /\ a.id < b.id))

(* Python's sort of a short list with that comparison, which is not           *)
(* transitive: the run that the list starts with, then the others in turn,    *)
(* each at the place that a binary search finds.                              *)
Placed(s, x) ==
    LET at[lo \in 0..Len(s), hi \in 0..Len(s)] ==
            LET mid == (lo + hi) \div 2 IN
            IF lo >= hi THEN lo
            ELSE IF Beats(x, s[mid + 1]) THEN at[lo, mid] ELSE at[mid + 1, hi]
    IN InsertAt(s, at[0, Len(s)] + 1, x)

FirstRun(s) ==
    LET falls == Len(s) > 1 /\ Beats(s[2], s[1])
        run == {k \in 1..Len(s) : \A i \in 2..k : Beats(s[i], s[i - 1]) <=> falls}
        k == CHOOSE k \in run : \A m \in run : m <= k
    IN IF s = <<>> THEN <<>> ELSE IF falls THEN Reverse(SubSeq(s, 1, k)) ELSE SubSeq(s, 1, k)

Sorted(s) == FoldLeft(Placed, FirstRun(s), SubSeq(s, Len(FirstRun(s)) + 1, Len(s)))

Row(n, from) ==
    [id |-> n, km |-> IF from = Nowhere THEN Unknown ELSE Away[n][from],
     stars |-> rated[n].stars, count |-> rated[n].count]

(* The rows come from the database in any order.                              *)
Listed(S, from) ==
    {Sorted([i \in 1..Cardinality(S) |-> Row(o[i], from)]) : o \in SetToSeqs(S)}

----------------------------------------------------------------------------
(* Searches                                                                  *)

Within(n, from, cap) == cap = Unknown \/ (from # Nowhere /\ Away[n][from] <= cap)

(* _normalize_booking_slots                                                   *)
Times == {S \in SUBSET Windows : S # {} /\ \A x, y \in S : x # y => ~Overlap(x, y)}

(* Whoever is free at all of the times (_is_nanny_available).                 *)
FreeAt(c, S) == {n \in {Planner} : \A x \in S : Offered(c, x)}
Free == {free \union others :
            free \in {FreeAt(c, S) : c \in Clients, S \in Times},
            others \in SUBSET (Nannies \ {Planner})}

(* Where a parent searches: where she says, or from her default place.        *)
(* Bound: from there, once she has saved places.                              *)
Origins == IF calls + edits = 0 THEN Positions \union {Nowhere} ELSE {SearchFrom}

(* Bound: searches are answered while nobody else is being served.            *)
AtRest ==
    /\ found = NoList
    /\ \A w \in Workers : sess[w] = Idle
    /\ \A e \in Devices : edit[e] = NoEdit

Answer(for, list) ==
    /\ found' = [for |-> for, list |-> list]
    /\ UNCHANGED <<vars, calendar, rated, reviews>>

(* search_nannies_post, of whoever is free or not                             *)
Search ==
    \E from \in Origins :
        /\ AtRest /\ from # Nowhere
        /\ \E S \in {{n \in Nannies : Within(n, from, cap) /\ rated[n].stars >= low} :
                       cap \in {Unknown, Radius}, low \in Stars} :
              \E list \in Listed(S, from) : Answer("parent", list)

(* search_nannies_by_time                                                     *)
SearchByTime ==
    \E from \in Origins :
        /\ AtRest
        /\ LET lists == UNION {Listed({n \in Nannies : Within(n, from, cap)}, from) :
                                   cap \in {Unknown, Radius}}
               among(list, free) == SelectSeq(list, LAMBDA x : x.id \in free)
           IN \E answer \in {among(l, free) : l \in lists, free \in Free} : Answer("parent", answer)

(* Mutant: the desk gets the order of the search.                             *)
ByDistanceAsSearched(a, b) == Beats(a, b)

(* The desk's list is sorted anew, by distance, then rating, then name.       *)
ByDistance(a, b) ==
    \/ a.km < b.km
    \/ a.km = b.km /\ (BetterRated(a, b) \/ (SameRated(a, b) /\ a.id < b.id))

(* get_admin_booking_request_available_nannies: near the place of the         *)
(* request, or the parent's home.                                             *)
Candidates ==
    \E j \in Jobs, free \in Free :
        LET from == IF job[j].place = 0 THEN home ELSE places[job[j].place].at IN
        /\ AtRest /\ job[j].status = "waiting" /\ from # Nowhere
        /\ Answer("desk", SetToSortSeq({Row(n, from) : n \in {n \in free : Within(n, from, Radius)}},
                                       ByDistance))

(* Bound: a behaviour has calls on places, edits of the calendar or reviews,  *)
(* which share nothing but the lists that are made of them.                   *)
Apart == Cardinality({k \in {"calls", "edits", "reviews"} :
            CASE k = "calls" -> calls' > 0 [] k = "edits" -> edits' > 0 [] OTHER -> reviews' > 0}) <= 1

MatchingNext ==
    /\ \/ Next /\ found' = NoList /\ UNCHANGED <<calendar, rated, reviews>>
       \/ CalendarNext /\ found' = NoList /\ UNCHANGED <<vars, rated, reviews>>
       \/ Review
       \/ Search \/ SearchByTime \/ Candidates
    /\ Apart

MatchingSpec == MatchingInit /\ [][MatchingNext]_matching

----------------------------------------------------------------------------

(* A nanny who is at least a kilometre closer than another and no worse rated *)
(* is listed before her, although the comparison goes round in circles; the   *)
(* desk's list goes from the closest nanny to the furthest (the products      *)
(* specification's manual assignment).                                        *)
CloserListedFirst ==
    \A i, k \in DOMAIN found.list :
        LET a == found.list[i]
            b == found.list[k]
        IN i < k =>
            /\ found.for = "parent" =>
                  ~(/\ b.km # Unknown /\ b.km + 10 <= a.km
                    /\ BetterRated(b, a) \/ SameRated(b, a))
            /\ found.for = "desk" => a.km <= b.km

=============================================================================
