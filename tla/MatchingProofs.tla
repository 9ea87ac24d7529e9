--------------------------- MODULE MatchingProofs ----------------------------
(* Proofs about Places, Calendar and Matching, for any number of workers,     *)
(* requests, positions, calls, crashes, devices, days and edits.  Wherever    *)
(* the parent's places go, a booking is where she asked for it, whoever has   *)
(* checked in was there, and she has one default place.  A nanny's calendar   *)
(* means what she entered, and has a day once.  And what is proved of the     *)
(* places holds as well beside calendars, reviews and searches.               *)
EXTENDS Matching, SequenceTheorems, FiniteSetTheorems, WellFoundedInduction, TLAPS

----------------------------------------------------------------------------
(* The parent's places                                                       *)

Place == [at : Positions, default : BOOLEAN, live : BOOLEAN]

(* What a worker is about to write names places and positions that exist.     *)
SessionsTyped ==
    /\ DOMAIN sess = Workers
    /\ \A w \in Workers :
        /\ sess[w].op = "create" => sess[w].at \in Positions /\ sess[w].default \in BOOLEAN
        /\ sess[w].op = "delete" => sess[w].id \in DOMAIN places

(* The place that a request names is where it was asked for; a booking has    *)
(* that position, or none when the request has lost its place; and the nanny  *)
(* has met the family there.                                                  *)
JobKept(s) ==
    /\ s.place # 0 => places[s.place].at = s.asked
    /\ s.status \in {"booked", "started"} =>
          s.spot = s.asked \/ (s.spot = Nowhere /\ s.place = 0)
    /\ s.status = "started" => s.asked # Nowhere /\ Cell[s.met] = Cell[s.asked]

(* The inductive invariant.                                                   *)
IInv ==
    /\ TypeOK
    /\ places \in Seq(Place)
    /\ SessionsTyped
    /\ \A j \in Jobs : JobKept(job[j])

----------------------------------------------------------------------------

(* Choosing another default moves no place and removes none.                  *)
LEMMA PreferredKeeps ==
    ASSUME NEW ps \in Seq(Place), NEW i \in DOMAIN ps
    PROVE  /\ Preferred(ps, i) \in Seq(Place)
           /\ Len(Preferred(ps, i)) = Len(ps)
           /\ \A k \in DOMAIN ps : /\ Preferred(ps, i)[k].at = ps[k].at
                                   /\ Preferred(ps, i)[k].live = ps[k].live
  <1> DEFINE new == Preferred(ps, i)
  <1>1. DOMAIN new = DOMAIN ps
    BY DEF Preferred
  <1>2. ASSUME NEW k \in DOMAIN ps
        PROVE  new[k] \in Place /\ new[k].at = ps[k].at /\ new[k].live = ps[k].live
    <2> DEFINE chosen == (k = i)
    <2>1. new[k] = [ps[k] EXCEPT !.default = chosen] /\ ps[k] \in Place
      BY DEF Preferred
    <2>2. chosen \in BOOLEAN
      OBVIOUS
    <2> HIDE DEF chosen
    <2> QED
      BY <2>1, <2>2 DEF Place
  <1>3. \A k \in DOMAIN ps : new[k] \in Place /\ new[k].at = ps[k].at /\ new[k].live = ps[k].live
    BY <1>2
  <1>4. new \in Seq(Place)
    BY <1>1, <1>3 DEF Preferred
  <1>5. Len(new) = Len(ps)
    BY <1>1, <1>4
  <1> QED
    BY <1>3, <1>4, <1>5

(* There is a latest place as long as there is any.                           *)
LEMMA LatestLives ==
    ASSUME places \in Seq(Place), Live # {}
    PROVE  Latest \in Live
  <1> DEFINE n == Len(places)
             Ages == {n - i : i \in Live}
             Younger == {ages \in Nat \X Nat : ages[1] < ages[2]}
  <1>1. Live \subseteq 1..n /\ n \in Nat
    BY DEF Live
  <1>2. Ages \subseteq Nat /\ Ages # {}
    <2>1. \A i \in Live : n - i \in Nat
      BY <1>1
    <2> HIDE DEF n
    <2> QED
      BY <2>1
  <1>3. IsWellFoundedOn(Younger, Nat)
    BY NatLessThanWellFounded DEF OpToRel
  <1>4. PICK a \in Ages : \A b \in Ages : ~ (<<b, a>> \in Younger)
    BY <1>2, <1>3, WFMin
  <1>5. \A b \in Ages : ~ (b < a)
    BY <1>2, <1>4
  <1>6. PICK i \in Live : a = n - i
    OBVIOUS
  <1>7. \A k \in Live : n - k \in Ages
    OBVIOUS
  <1>8. ASSUME NEW k \in Live PROVE k <= i
    <2>1. ~ (n - k < n - i)
      BY <1>5, <1>6, <1>7
    <2>2. k \in 1..n /\ i \in 1..n
      BY <1>1
    <2> HIDE DEF n
    <2> QED
      BY <1>1, <2>1, <2>2
  <1> QED
    BY <1>8 DEF Latest

(* As long as places stay where they are and those that requests name stay,   *)
(* requests are kept.                                                         *)
LEMMA JobsStay ==
    ASSUME IInv, places' \in Seq(Place), Len(places) <= Len(places'),
           \A k \in DOMAIN places : places'[k].at = places[k].at,
           \A k \in DOMAIN places : places'[k].live = places[k].live,
           home' \in Somewhere, UNCHANGED job
    PROVE  /\ \A j \in Jobs : JobKept(job[j])'
           /\ TypeOK'
  <1>1. DOMAIN places \subseteq DOMAIN places' /\ Live \subseteq Live'
    BY DEF IInv, Live
  <1>2. \A j \in Jobs : job[j].place \in Live' \union {0}
    BY <1>1 DEF IInv, TypeOK
  <1>3. TypeOK'
    <2>1. \A i \in DOMAIN places' : places'[i] \in Place
      OBVIOUS
    <2> QED
      BY <1>2, <2>1 DEF IInv, TypeOK, Place
  <1>4. \A j \in Jobs : job[j].place # 0 => places'[job[j].place].at = job[j].asked
    BY DEF IInv, TypeOK, Live, JobKept
  <1> QED
    BY <1>3, <1>4 DEF IInv, JobKept

(* A worker that starts or ends a call leaves the others as they are.         *)
LEMMA SessionsStay ==
    ASSUME IInv, NEW w \in Workers, NEW s, sess' = [sess EXCEPT ![w] = s],
           DOMAIN places \subseteq DOMAIN places',
           s.op = "create" => s.at \in Positions /\ s.default \in BOOLEAN,
           s.op = "delete" => s.id \in DOMAIN places'
    PROVE  SessionsTyped'
  BY DEF IInv, SessionsTyped

LEMMA InitHolds == Init => IInv
  <1> SUFFICES ASSUME Init PROVE IInv
    OBVIOUS
  <1>1. places \in Seq(Place) /\ DOMAIN places = {} /\ Live = {}
    BY DEF Init, Live
  <1>2. TypeOK
    BY <1>1 DEF Init, TypeOK, Somewhere
  <1>3. SessionsTyped
    BY DEF Init, SessionsTyped, Idle
  <1>4. \A j \in Jobs : JobKept(job[j])
    BY DEF Init, JobKept
  <1> QED
    BY <1>1, <1>2, <1>3, <1>4 DEF IInv

LEMMA NextHolds == IInv /\ [Next]_vars => IInv'
  <1> SUFFICES ASSUME IInv, [Next]_vars PROVE IInv'
    OBVIOUS
  <1> Idle.op = "idle"
    BY DEF Idle
  <1> places \in Seq(Place) /\ TypeOK /\ home \in Somewhere
    BY DEF IInv, TypeOK
  <1>1. ASSUME NEW w \in Workers, BeginCreate(w) PROVE IInv'
    <2>1. PICK p \in Positions, asked \in BOOLEAN :
              Begin(w, [op |-> "create", at |-> p, default |-> First(asked)])
      BY <1>1 DEF BeginCreate
    <2>2. First(asked) \in BOOLEAN
      BY DEF First
    <2>3. UNCHANGED <<places, home, job>>
      BY <2>1 DEF Begin
    <2>4. SessionsTyped'
      BY <2>1, <2>2, <2>3, SessionsStay DEF Begin
    <2> QED
      BY <2>3, <2>4, JobsStay DEF IInv
  <1>2. ASSUME NEW w \in Workers, BeginPrefer(w) \/ BeginDelete(w) PROVE IInv'
    <2>1. \E i \in Live : \E s : /\ s.op \in {"prefer", "delete"} /\ s.id = i /\ Begin(w, s)
      <3>1. CASE BeginPrefer(w)
        <4>1. PICK i \in Live : Begin(w, [op |-> "prefer", id |-> i])
          BY <3>1 DEF BeginPrefer
        <4>2. [op |-> "prefer", id |-> i].op = "prefer" /\ [op |-> "prefer", id |-> i].id = i
          OBVIOUS
        <4> QED
          BY <4>1, <4>2
      <3>2. CASE BeginDelete(w)
        <4> DEFINE s(i) == [op |-> "delete", id |-> i, default |-> places[i].default]
        <4>1. PICK i \in Live : Begin(w, s(i))
          BY <3>2 DEF BeginDelete
        <4>2. s(i).op = "delete" /\ s(i).id = i
          OBVIOUS
        <4> HIDE DEF s
        <4> QED
          BY <4>1, <4>2
      <3> QED
        BY <1>2, <3>1, <3>2
    <2> PICK i \in Live : \E t : t.op \in {"prefer", "delete"} /\ t.id = i /\ Begin(w, t)
      BY <2>1
    <2> PICK s : s.op \in {"prefer", "delete"} /\ s.id = i /\ Begin(w, s)
      OBVIOUS
    <2>2. UNCHANGED <<places, home, job>>
      BY DEF Begin
    <2>3. i \in DOMAIN places
      BY DEF Live
    <2>4. SessionsTyped'
      BY <2>2, <2>3, SessionsStay DEF Begin
    <2> QED
      BY <2>2, <2>4, JobsStay DEF IInv
  <1>3. ASSUME NEW w \in Workers, CommitCreate(w) PROVE IInv'
    <2> DEFINE s == sess[w]
               new == [at |-> s.at, default |-> FALSE, live |-> TRUE]
               with == Append(places, new)
               i == Len(with)
    <2>1. new \in Place
      BY <1>3 DEF CommitCreate, Commits, IInv, SessionsTyped, Place
    <2>2. /\ with \in Seq(Place) /\ Len(with) = Len(places) + 1 /\ i \in DOMAIN with
          /\ \A k \in DOMAIN places : k \in DOMAIN with /\ with[k] = places[k]
      BY <2>1
    <2>3. /\ places' \in Seq(Place) /\ Len(places) <= Len(places')
          /\ \A k \in DOMAIN places : places'[k].at = places[k].at
          /\ \A k \in DOMAIN places : places'[k].live = places[k].live
          /\ home' \in Somewhere
      <3>1. CASE s.default
        <4>1. places' = Preferred(with, i) /\ home' = HomeAt(with, i)
          BY <1>3, <3>1 DEF CommitCreate
        <4>2. Preferred(with, i) \in Seq(Place) /\ Len(Preferred(with, i)) = Len(with)
          BY <2>2, PreferredKeeps
        <4>3. \A k \in DOMAIN places : /\ places'[k].at = places[k].at
                                       /\ places'[k].live = places[k].live
          <5> HIDE DEF with, i
          <5> DEFINE other == Preferred(with, i)
          <5>1. \A k \in DOMAIN with : other[k].at = with[k].at /\ other[k].live = with[k].live
            BY <2>2, PreferredKeeps
          <5> HIDE DEF other
          <5> QED
            BY <2>2, <4>1, <5>1 DEF other
        <4>4. home' \in Somewhere
          BY <2>2, <4>1 DEF HomeAt, Somewhere, Place
        <4> HIDE DEF with
        <4> QED
          BY <2>2, <4>1, <4>2, <4>3, <4>4
      <3>2. CASE ~s.default
        BY <1>3, <2>2, <3>2 DEF CommitCreate
      <3> QED
        BY <3>1, <3>2
    <2>4. UNCHANGED job /\ sess' = [sess EXCEPT ![w] = Idle]
      BY <1>3 DEF CommitCreate, Commits
    <2>5. SessionsTyped'
      <3>1. DOMAIN places \subseteq DOMAIN places'
        BY <2>3
      <3> QED
        BY <2>4, <3>1, SessionsStay
    <2> QED
      BY <2>3, <2>4, <2>5, JobsStay DEF IInv
  <1>4. ASSUME NEW w \in Workers, CommitPrefer(w) PROVE IInv'
    <2>1. /\ places' \in Seq(Place) /\ Len(places') = Len(places)
          /\ \A k \in DOMAIN places : places'[k].at = places[k].at
          /\ \A k \in DOMAIN places : places'[k].live = places[k].live
          /\ home' \in Somewhere
      <3>1. CASE sess[w].id \in Live
        <4> DEFINE i == sess[w].id
        <4>1. i \in DOMAIN places
          BY <3>1 DEF Live
        <4>2. places' = Preferred(places, i) /\ home' = HomeAt(places, i)
          BY <1>4, <3>1 DEF CommitPrefer
        <4>3. Preferred(places, i) \in Seq(Place) /\ Len(Preferred(places, i)) = Len(places)
          BY <4>1, PreferredKeeps
        <4>4. home' \in Somewhere
          <5>1. places[i] \in Place
            BY <4>1
          <5> QED
            BY <4>2, <5>1 DEF HomeAt, Somewhere, Place
        <4> QED
          BY <4>1, <4>2, <4>3, <4>4, PreferredKeeps
      <3>2. CASE sess[w].id \notin Live
        BY <1>4, <3>2 DEF CommitPrefer
      <3> QED
        BY <3>1, <3>2
    <2>2. UNCHANGED job /\ sess' = [sess EXCEPT ![w] = Idle]
      BY <1>4 DEF CommitPrefer, Commits
    <2>3. SessionsTyped'
      <3>1. DOMAIN places \subseteq DOMAIN places'
        BY <2>1
      <3> QED
        BY <2>2, <3>1, SessionsStay
    <2> QED
      BY <2>1, <2>2, <2>3, JobsStay DEF IInv
  <1>5. ASSUME NEW w \in Workers, CommitDelete(w) PROVE IInv'
    <2> DEFINE i == sess[w].id
    <2>1. i \in DOMAIN places
      BY <1>5 DEF CommitDelete, Commits, IInv, SessionsTyped
    <2>2. places' = [places EXCEPT ![i].live = FALSE] /\ job' = WithoutPlace(i) /\ home' = home
      BY <1>5 DEF CommitDelete
    <2>3. /\ places' \in Seq(Place) /\ DOMAIN places' = DOMAIN places
          /\ \A k \in DOMAIN places : places'[k].at = places[k].at
          /\ \A k \in DOMAIN places \ {i} : places'[k].live = places[k].live
      <3>1. DOMAIN places' = DOMAIN places /\ Len(places) \in Nat
        BY <2>2
      <3>2. ASSUME NEW k \in DOMAIN places
            PROVE  /\ places'[k] \in Place /\ places'[k].at = places[k].at
                   /\ k # i => places'[k].live = places[k].live
        <4>1. places'[k] = IF k = i THEN [places[k] EXCEPT !.live = FALSE] ELSE places[k]
          BY <2>2
        <4>2. places[k] \in Place
          OBVIOUS
        <4> QED
          BY <4>1, <4>2 DEF Place
      <3>3. places' \in Seq(Place)
        <4>1. places' = [places EXCEPT ![i] = places'[i]]
          BY <2>1, <2>2
        <4>2. places'[i] \in Place /\ i \in 1..Len(places)
          BY <2>1, <3>2
        <4> QED
          BY <4>1, <4>2, ExceptSeq
      <3> QED
        BY <3>1, <3>2, <3>3
    <2>4. \A j \in Jobs : IF job[j].place = i THEN job'[j] = [job[j] EXCEPT !.place = 0]
                          ELSE job'[j] = job[j]
      BY <2>2 DEF WithoutPlace
    <2>5. \A k \in Live \ {i} : k \in Live'
      BY <2>3 DEF Live
    <2>6. ASSUME NEW j \in Jobs PROVE JobKept(job[j])' /\ job'[j].place \in Live' \union {0}
      <3>1. JobKept(job[j]) /\ job[j].place \in Live \union {0} /\ Live \subseteq DOMAIN places
        BY DEF IInv, TypeOK, Live
      <3>2. CASE job[j].place = i
        <4>1. job'[j] = [job[j] EXCEPT !.place = 0]
          BY <2>4, <3>2
        <4>2. /\ job'[j].place = 0 /\ job'[j].status = job[j].status
              /\ job'[j].spot = job[j].spot /\ job'[j].asked = job[j].asked
              /\ job'[j].met = job[j].met
          BY <4>1 DEF TypeOK
        <4> QED
          BY <3>1, <4>2 DEF JobKept
      <3>3. CASE job[j].place # i
        BY <2>3, <2>4, <2>5, <3>1, <3>3 DEF JobKept
      <3> QED
        BY <3>2, <3>3
    <2>7. TypeOK'
      <3>1. job' \in [Jobs -> [status : {"none", "waiting", "booked", "started"}, asked : Somewhere,
                               place : Nat, spot : Somewhere, met : Somewhere]]
        BY <2>2 DEF WithoutPlace, TypeOK
      <3> QED
        BY <2>2, <2>3, <2>6, <3>1 DEF TypeOK, Place
    <2>8. SessionsTyped'
      <3>1. PICK s : s \in {[op |-> "promote"], Idle} /\ sess' = [sess EXCEPT ![w] = s]
        BY <1>5 DEF CommitDelete, Commits
      <3> QED
        BY <2>3, <3>1, SessionsStay
    <2> QED
      BY <2>3, <2>6, <2>7, <2>8 DEF IInv
  <1>6. ASSUME NEW w \in Workers, Promote(w) PROVE IInv'
    <2>1. /\ places' \in Seq(Place) /\ Len(places') = Len(places)
          /\ \A k \in DOMAIN places : places'[k].at = places[k].at
          /\ \A k \in DOMAIN places : places'[k].live = places[k].live
      <3>1. CASE Live = {}
        BY <1>6, <3>1 DEF Promote
      <3>2. CASE Live # {}
        <4>1. places' = [places EXCEPT ![Latest].default = TRUE] /\ Latest \in DOMAIN places
          BY <1>6, <3>2, LatestLives DEF Promote, Live
        <4>2. DOMAIN places' = DOMAIN places /\ Len(places) \in Nat
          BY <4>1
        <4>3. ASSUME NEW k \in DOMAIN places
              PROVE  /\ places'[k] \in Place
                     /\ places'[k].at = places[k].at /\ places'[k].live = places[k].live
          <5>1. places'[k] = IF k = Latest THEN [places[k] EXCEPT !.default = TRUE] ELSE places[k]
            BY <4>1
          <5>2. places[k] \in Place
            OBVIOUS
          <5> QED
            BY <5>1, <5>2 DEF Place
        <4>4. places' \in Seq(Place) /\ Len(places') = Len(places)
          <5>1. places' = [places EXCEPT ![Latest] = places'[Latest]]
            BY <4>1
          <5>2. places'[Latest] \in Place
            BY <4>1, <4>3
          <5>3. Latest \in 1..Len(places)
            BY <4>1
          <5> QED
            BY <5>1, <5>2, <5>3, ExceptSeq
        <4> QED
          BY <4>3, <4>4
      <3> QED
        BY <3>1, <3>2
    <2>2. home' \in Somewhere
      <3>1. CASE Live = {}
        BY <1>6, <3>1 DEF Promote
      <3>2. CASE Live # {}
        <4>1. home' = places[Latest].at /\ Latest \in DOMAIN places
          BY <1>6, <3>2, LatestLives DEF Promote, HomeAt, Live
        <4>2. places[Latest] \in Place
          BY <4>1
        <4> QED
          BY <4>1, <4>2 DEF Somewhere, Place
      <3> QED
        BY <3>1, <3>2
    <2>3. UNCHANGED job /\ sess' = [sess EXCEPT ![w] = Idle]
      BY <1>6 DEF Promote, Commits
    <2>4. SessionsTyped'
      <3>1. DOMAIN places \subseteq DOMAIN places'
        BY <2>1
      <3> QED
        BY <2>3, <3>1, SessionsStay
    <2> QED
      BY <2>1, <2>2, <2>3, <2>4, JobsStay DEF IInv
  <1>7. ASSUME NEW w \in Workers, Crash(w) PROVE IInv'
    <2>1. UNCHANGED <<places, home, job>> /\ sess' = [sess EXCEPT ![w] = Idle]
      BY <1>7 DEF Crash
    <2>2. SessionsTyped'
      BY <2>1, SessionsStay
    <2> QED
      BY <2>1, <2>2, JobsStay DEF IInv
  <1>8. ASSUME NEW j \in Jobs, Request(j) \/ Accept(j) \/ CheckIn(j) PROVE IInv'
    <2>1. UNCHANGED <<places, home, sess>> /\ Live' = Live
      BY <1>8 DEF Request, Accept, CheckIn, Live
    <2>2. /\ job' \in [Jobs -> [status : {"none", "waiting", "booked", "started"},
                                asked : Somewhere, place : Nat, spot : Somewhere,
                                met : Somewhere]]
          /\ job'[j].place \in Live \union {0} /\ JobKept(job[j])'
          /\ \A k \in Jobs \ {j} : job'[k] = job[k]
      <3> DEFINE JobState == [status : {"none", "waiting", "booked", "started"},
                              asked : Somewhere, place : Nat, spot : Somewhere, met : Somewhere]
      <3>1. JobKept(job[j]) /\ job \in [Jobs -> JobState] /\ job[j].place \in Live \union {0}
        BY DEF IInv, TypeOK
      <3>2. Live \subseteq DOMAIN places /\ \A i \in Live : i \in Nat \ {0} /\ places[i].at \in Somewhere
        <4>1. Live \subseteq DOMAIN places /\ DOMAIN places \subseteq Nat \ {0}
          BY DEF Live
        <4>2. \A i \in Live : places[i] \in Place
          BY <4>1
        <4> QED
          BY <4>1, <4>2 DEF Place, Somewhere
      <3>3. PICK s : /\ job' = [job EXCEPT ![j] = s] /\ s \in JobState
                     /\ s.place \in Live \union {0} /\ JobKept(s)
        <4>1. CASE Request(j)
          <5>1. PICK i \in Live \union {0} :
                    job' = [job EXCEPT ![j].status = "waiting", ![j].place = i,
                                ![j].asked = IF i = 0 THEN Nowhere ELSE places[i].at]
            BY <4>1 DEF Request
          <5> DEFINE at == IF i = 0 THEN Nowhere ELSE places[i].at
                     s == [job[j] EXCEPT !.status = "waiting", !.place = i, !.asked = at]
          <5>2. at \in Somewhere /\ i \in Nat
            BY <3>2 DEF Somewhere
          <5>3. job' = [job EXCEPT ![j] = s]
            BY <3>1, <5>1
          <5>4. s \in JobState
            BY <3>1, <5>2
          <5>5. s.status = "waiting" /\ s.place = i /\ s.asked = at
            BY <3>1
          <5>6. i # 0 => places[i].at = at
            OBVIOUS
          <5>7. JobKept(s)
            BY <5>5, <5>6 DEF JobKept
          <5> QED
            BY <5>3, <5>4, <5>5, <5>7
        <4>2. CASE Accept(j)
          <5> DEFINE s == [job[j] EXCEPT !.status = "booked", !.spot = SpotOf(j)]
          <5>1. job' = [job EXCEPT ![j] = s]
            BY <3>1, <4>2 DEF Accept
          <5>2. SpotOf(j) \in Somewhere
            BY <3>1, <3>2 DEF SpotOf, Somewhere
          <5>3. s \in JobState /\ s.status = "booked" /\ s.place = job[j].place
                /\ s.asked = job[j].asked /\ s.spot = SpotOf(j)
            BY <3>1, <5>2
          <5>4. JobKept(s)
            BY <3>1, <5>3 DEF JobKept, SpotOf
          <5> QED
            BY <3>1, <5>1, <5>3, <5>4
        <4>3. CASE CheckIn(j)
          <5>1. PICK p \in Positions :
                    /\ job[j].status = "booked" /\ CloseEnough(p, job[j].spot)
                    /\ job' = [job EXCEPT ![j].status = "started", ![j].met = p]
            BY <4>3 DEF CheckIn
          <5> DEFINE s == [job[j] EXCEPT !.status = "started", !.met = p]
          <5>2. job' = [job EXCEPT ![j] = s]
            BY <3>1, <5>1
          <5>3. s \in JobState /\ s.status = "started" /\ s.place = job[j].place
                /\ s.asked = job[j].asked /\ s.spot = job[j].spot /\ s.met = p
            BY <3>1 DEF Somewhere
          <5>4. JobKept(s)
            BY <3>1, <5>1, <5>3 DEF JobKept, CloseEnough, SamePlace
          <5> QED
            BY <3>1, <5>2, <5>3, <5>4
        <4> QED
          BY <1>8, <4>1, <4>2, <4>3
      <3>4. job'[j] = s /\ job' \in [Jobs -> JobState]
        BY <3>1, <3>3
      <3>5. JobKept(job[j])'
        BY <2>1, <3>3, <3>4 DEF JobKept
      <3> QED
        BY <2>1, <3>1, <3>3, <3>4, <3>5
    <2>3. TypeOK'
      BY <2>1, <2>2 DEF TypeOK
    <2>4. \A k \in Jobs : JobKept(job[k])'
      BY <2>1, <2>2 DEF IInv, JobKept
    <2>5. SessionsTyped'
      BY <2>1 DEF IInv, SessionsTyped
    <2> QED
      BY <2>1, <2>3, <2>4, <2>5 DEF IInv
  <1>9. CASE UNCHANGED vars
    BY <1>9 DEF vars, IInv, TypeOK, SessionsTyped, JobKept, Live
  <1> QED
    BY <1>1, <1>2, <1>3, <1>4, <1>5, <1>6, <1>7, <1>8, <1>9 DEF Next

----------------------------------------------------------------------------
(* The default place                                                         *)

(* What a worker has read of the places is still so.                          *)
ReadStillHolds(s) ==
    /\ s.op = "create" /\ ~s.default => Live # {}
    /\ s.op = "delete" => s.id \in Live /\ s.default = places[s.id].default

(* One default at most, none while the next is sought, and her profile shows  *)
(* it.                                                                        *)
DefaultKept ==
    /\ \A i, k \in Defaults : i = k
    /\ Live = {} \/ Promoting \/ orphaned \/ Defaults # {}
    /\ \A i \in Defaults : home = places[i].at
    /\ Promoting => Defaults = {}
    /\ \A w \in Workers : ReadStillHolds(sess[w])

(* The invariant that is inductive together with IInv: as long as no worker   *)
(* has committed while another was busy.                                      *)
DefaultIInv == ~crossed => DefaultKept

(* Whoever commits without crossing another was the only one busy.            *)
LEMMA CommitsAlone ==
    ASSUME IInv, NEW w \in Workers, NEW op, NEW next, Commits(w, op, next), ~crossed'
    PROVE  /\ ~crossed /\ sess[w].op = op
           /\ DOMAIN sess' = Workers /\ sess'[w] = next
           /\ \A v \in Workers \ {w} : sess[v].op = "idle" /\ sess'[v].op = "idle"
  <1>1. \A v \in Workers \ {w} : sess[v] = Idle /\ sess'[v] = sess[v]
    BY DEF Commits, IInv, SessionsTyped
  <1>2. Idle.op = "idle"
    BY DEF Idle
  <1> QED
    BY <1>1, <1>2 DEF Commits, IInv, SessionsTyped

(* One place, chosen among those that are there, is the default afterwards.   *)
LEMMA OneIsPreferred ==
    ASSUME IInv, NEW i, Defaults' = {i}, home' = places'[i].at,
           \A w \in Workers : sess'[w].op = "idle"
    PROVE  DefaultKept'
  <1>1. ~Promoting'
    BY DEF Promoting
  <1>2. \A w \in Workers : ReadStillHolds(sess[w])'
    BY DEF ReadStillHolds
  <1> QED
    BY <1>1, <1>2 DEF DefaultKept

(* A worker that begins or gives up changes nothing that another has read.    *)
LEMMA ReadsStay ==
    ASSUME IInv, DefaultKept, UNCHANGED <<places, home>>,
           NEW w \in Workers, NEW s, sess' = [sess EXCEPT ![w] = s],
           s.op # "promote", ReadStillHolds(s),
           sess[w].op = "promote" \/ orphaned => orphaned'
    PROVE  DefaultKept'
  <1>1. /\ DOMAIN sess = Workers /\ sess'[w] = s
        /\ \A v \in Workers \ {w} : sess'[v] = sess[v]
    BY DEF IInv, SessionsTyped
  <1>2. Live' = Live /\ Defaults' = Defaults
    BY DEF Live, Defaults
  <1>3. Promoting' => Promoting
    BY <1>1 DEF Promoting
  <1>4. Promoting => Promoting' \/ orphaned'
    BY <1>1 DEF Promoting
  <1>5. \A v \in Workers : ReadStillHolds(sess[v])'
    BY <1>1, <1>2 DEF ReadStillHolds, DefaultKept
  <1> QED
    BY <1>2, <1>3, <1>4, <1>5 DEF DefaultKept

LEMMA DefaultInit == Init => DefaultIInv
  <1> SUFFICES ASSUME Init PROVE DefaultKept
    BY DEF DefaultIInv
  <1>1. Live = {} /\ Defaults = {}
    BY DEF Init, Live, Defaults
  <1>2. \A w \in Workers : sess[w].op = "idle"
    BY DEF Init, Idle
  <1> QED
    BY <1>1, <1>2 DEF DefaultKept, Promoting, ReadStillHolds

LEMMA DefaultNext == IInv /\ DefaultIInv /\ [Next]_vars => DefaultIInv'
  <1> SUFFICES ASSUME IInv, DefaultIInv, [Next]_vars, ~crossed' PROVE DefaultKept'
    BY DEF DefaultIInv
  <1> places \in Seq(Place) /\ Idle.op = "idle"
    BY DEF IInv, Idle
  <1>0. \A s : s.op = "idle" => ReadStillHolds(s)
    BY DEF ReadStillHolds
  <1>1. ASSUME NEW w \in Workers, NEW s, Begin(w, s), s.op # "promote", ReadStillHolds(s)
        PROVE  DefaultKept'
    <2>1. DefaultKept /\ sess[w].op = "idle" /\ orphaned' = orphaned
      BY <1>1 DEF Begin, DefaultIInv
    <2>2. UNCHANGED <<places, home>> /\ sess' = [sess EXCEPT ![w] = s]
      BY <1>1 DEF Begin
    <2> QED
      BY <1>1, <2>1, <2>2, ReadsStay
  <1>2. ASSUME NEW w \in Workers, BeginCreate(w) PROVE DefaultKept'
    <2> DEFINE s(p, asked) == [op |-> "create", at |-> p, default |-> First(asked)]
    <2>1. PICK p \in Positions, asked \in BOOLEAN : Begin(w, s(p, asked))
      BY <1>2 DEF BeginCreate
    <2>2. s(p, asked).op = "create" /\ (~s(p, asked).default => Live # {})
      BY DEF First
    <2> HIDE DEF s
    <2>3. ReadStillHolds(s(p, asked))
      BY <2>2 DEF ReadStillHolds
    <2> QED
      BY <1>1, <2>1, <2>2, <2>3
  <1>3. ASSUME NEW w \in Workers, BeginPrefer(w) PROVE DefaultKept'
    <2> DEFINE s(i) == [op |-> "prefer", id |-> i]
    <2>1. PICK i \in Live : Begin(w, s(i))
      BY <1>3 DEF BeginPrefer
    <2>2. s(i).op = "prefer"
      OBVIOUS
    <2> HIDE DEF s
    <2>3. ReadStillHolds(s(i))
      BY <2>2 DEF ReadStillHolds
    <2> QED
      BY <1>1, <2>1, <2>2, <2>3
  <1>4. ASSUME NEW w \in Workers, BeginDelete(w) PROVE DefaultKept'
    <2> DEFINE s(i) == [op |-> "delete", id |-> i, default |-> places[i].default]
    <2>1. PICK i \in Live : Begin(w, s(i))
      BY <1>4 DEF BeginDelete
    <2>2. s(i).op = "delete" /\ s(i).id = i /\ s(i).default = places[i].default
      OBVIOUS
    <2> HIDE DEF s
    <2>3. ReadStillHolds(s(i))
      BY <2>2 DEF ReadStillHolds
    <2> QED
      BY <1>1, <2>1, <2>2, <2>3
  <1>5. ASSUME NEW w \in Workers, CommitCreate(w) PROVE DefaultKept'
    <2> DEFINE s == sess[w]
               new == [at |-> s.at, default |-> FALSE, live |-> TRUE]
               with == Append(places, new)
               i == Len(with)
    <2>1. DefaultKept /\ s.op = "create" /\ \A v \in Workers : sess'[v].op = "idle"
      BY <1>5, CommitsAlone DEF CommitCreate, DefaultIInv
    <2>2. new \in Place
      BY <2>1 DEF IInv, SessionsTyped, Place
    <2>3. /\ with \in Seq(Place) /\ Len(with) = Len(places) + 1 /\ i \in DOMAIN with
          /\ \A k \in DOMAIN places : k \in DOMAIN with /\ with[k] = places[k]
          /\ with[i] = new /\ i \notin DOMAIN places /\ DOMAIN with = DOMAIN places \union {i}
      BY <2>2
    <2>4. CASE s.default
      <3>1. places' = Preferred(with, i) /\ home' = HomeAt(with, i)
        BY <1>5, <2>4 DEF CommitCreate
      <3> HIDE DEF with, i, new
      <3>2. DOMAIN places' = DOMAIN with
        BY <3>1 DEF Preferred
      <3>3. \A k \in DOMAIN with : places'[k] = [with[k] EXCEPT !.default = (k = i)]
        BY <3>1 DEF Preferred
      <3>4. \A k \in DOMAIN with : with[k] \in Place
        BY <2>3
      <3>5. \A k \in DOMAIN with : /\ places'[k].default = (k = i)
                                   /\ places'[k].live = with[k].live
                                   /\ places'[k].at = with[k].at
        BY <3>3, <3>4 DEF Place
      <3>6. new.live
        BY DEF new
      <3>7. Defaults' = {i}
        BY <2>3, <3>2, <3>5, <3>6 DEF Defaults, Live
      <3>8. home' = places'[i].at
        BY <2>3, <3>1, <3>5 DEF HomeAt
      <3> QED
        BY <2>1, <3>7, <3>8, OneIsPreferred
    <2>5. CASE ~s.default
      <3>1. places' = with /\ UNCHANGED <<home, orphaned>>
        BY <1>5, <2>5 DEF CommitCreate
      <3>2. new.live /\ ~new.default
        OBVIOUS
      <3> HIDE DEF with, i, new
      <3>3. Live' = Live \union {i} /\ Defaults' = Defaults
        BY <2>3, <3>1, <3>2 DEF Defaults, Live
      <3>4. \A k \in Defaults : places'[k].at = places[k].at
        BY <2>3, <3>1 DEF Defaults, Live
      <3>5. Live # {} /\ ~Promoting
        <4>1. \A v \in Workers \ {w} : sess[v].op = "idle"
          BY <1>5, CommitsAlone DEF CommitCreate
        <4> QED
          BY <2>1, <2>5, <4>1 DEF DefaultKept, ReadStillHolds, Promoting
      <3>6. ~Promoting' /\ \A v \in Workers : ReadStillHolds(sess[v])'
        BY <2>1 DEF Promoting, ReadStillHolds
      <3> QED
        BY <2>1, <3>1, <3>3, <3>4, <3>5, <3>6 DEF DefaultKept
    <2> QED
      BY <2>4, <2>5
  <1>6. ASSUME NEW w \in Workers, CommitPrefer(w) PROVE DefaultKept'
    <2> DEFINE i == sess[w].id
    <2>1. DefaultKept /\ \A v \in Workers : sess'[v].op = "idle"
      BY <1>6, CommitsAlone DEF CommitPrefer, DefaultIInv
    <2>2. \A v \in Workers : sess[v].op # "promote"
      BY <1>6, CommitsAlone DEF CommitPrefer
    <2>3. CASE i \in Live
      <3>1. places' = Preferred(places, i) /\ home' = HomeAt(places, i)
        BY <1>6, <2>3 DEF CommitPrefer
      <3>2. DOMAIN places' = DOMAIN places /\ i \in DOMAIN places /\ places[i].live
        BY <2>3, <3>1 DEF Preferred, Live
      <3> HIDE DEF i
      <3>3. \A k \in DOMAIN places : places'[k] = [places[k] EXCEPT !.default = (k = i)]
        BY <3>1 DEF Preferred
      <3>4. \A k \in DOMAIN places : places[k] \in Place
        OBVIOUS
      <3>5. \A k \in DOMAIN places : /\ places'[k].default = (k = i)
                                     /\ places'[k].live = places[k].live
                                     /\ places'[k].at = places[k].at
        BY <3>3, <3>4 DEF Place
      <3>6. Defaults' = {i} /\ home' = places'[i].at
        BY <3>1, <3>2, <3>5 DEF Defaults, Live, HomeAt
      <3> QED
        BY <2>1, <3>6, OneIsPreferred
    <2>4. CASE i \notin Live
      <3>1. UNCHANGED <<places, home, orphaned>>
        BY <1>6, <2>4 DEF CommitPrefer
      <3>2. Live' = Live /\ Defaults' = Defaults
        BY <3>1 DEF Live, Defaults
      <3>3. ~Promoting /\ ~Promoting' /\ \A v \in Workers : ReadStillHolds(sess[v])'
        BY <2>1, <2>2 DEF Promoting, ReadStillHolds
      <3> QED
        BY <2>1, <3>1, <3>2, <3>3 DEF DefaultKept
    <2> QED
      BY <2>3, <2>4
  <1>7. ASSUME NEW w \in Workers, CommitDelete(w) PROVE DefaultKept'
    <2> DEFINE i == sess[w].id
               next == IF sess[w].default THEN [op |-> "promote"] ELSE Idle
    <2>1. /\ DefaultKept /\ sess[w].op = "delete" /\ sess'[w] = next
          /\ \A v \in Workers \ {w} : sess[v].op = "idle" /\ sess'[v].op = "idle"
      BY <1>7, CommitsAlone DEF CommitDelete, DefaultIInv
    <2>2. i \in Live /\ sess[w].default = places[i].default /\ ~Promoting
      BY <2>1 DEF DefaultKept, ReadStillHolds, Promoting
    <2>3. places' = [places EXCEPT ![i].live = FALSE] /\ UNCHANGED <<home, orphaned>>
      BY <1>7 DEF CommitDelete
    <2>4. /\ DOMAIN places' = DOMAIN places /\ i \in DOMAIN places
          /\ \A k \in DOMAIN places \ {i} : places'[k] = places[k]
          /\ ~places'[i].live
      <3>1. i \in DOMAIN places /\ places[i] \in Place
        BY <2>2 DEF Live
      <3>2. places'[i] = [places[i] EXCEPT !.live = FALSE]
        BY <2>3, <3>1
      <3> QED
        BY <2>3, <3>1, <3>2 DEF Place
    <2>5. Live' = Live \ {i} /\ Defaults' = Defaults \ {i}
      BY <2>4 DEF Live, Defaults
    <2>6. \A k \in Defaults' : places'[k].at = places[k].at
      BY <2>4, <2>5 DEF Defaults, Live
    <2>7. \A v \in Workers : ReadStillHolds(sess[v])'
      BY <2>1 DEF ReadStillHolds
    <2>8. CASE sess[w].default
      <3>1. i \in Defaults /\ Defaults' = {}
        BY <2>1, <2>2, <2>5, <2>8 DEF Defaults, DefaultKept
      <3>2. Promoting'
        BY <2>1, <2>8 DEF Promoting
      <3> QED
        BY <2>7, <3>1, <3>2 DEF DefaultKept
    <2>9. CASE ~sess[w].default
      <3>1. Defaults' = Defaults
        BY <2>2, <2>5, <2>9 DEF Defaults
      <3>2. ~Promoting'
        BY <2>1, <2>9 DEF Promoting
      <3> QED
        BY <2>1, <2>2, <2>3, <2>5, <2>6, <2>7, <3>1, <3>2 DEF DefaultKept
    <2> QED
      BY <2>8, <2>9
  <1>8. ASSUME NEW w \in Workers, Promote(w) PROVE DefaultKept'
    <2>1. /\ DefaultKept /\ sess[w].op = "promote"
          /\ \A v \in Workers : sess'[v].op = "idle"
      BY <1>8, CommitsAlone DEF Promote, DefaultIInv
    <2>2. Defaults = {}
      BY <2>1 DEF DefaultKept, Promoting
    <2>3. CASE Live = {}
      <3>1. UNCHANGED <<places, home, orphaned>>
        BY <1>8, <2>3 DEF Promote
      <3>2. Live' = {} /\ Defaults' = {}
        BY <2>2, <2>3, <3>1 DEF Live, Defaults
      <3> QED
        BY <2>1, <3>2 DEF DefaultKept, Promoting, ReadStillHolds
    <2>4. CASE Live # {}
      <3> DEFINE i == Latest
      <3>1. i \in Live /\ i \in DOMAIN places /\ places[i] \in Place
        BY <2>4, LatestLives DEF Live
      <3>2. places' = [places EXCEPT ![i].default = TRUE] /\ home' = HomeAt(places, i)
        BY <1>8, <2>4 DEF Promote
      <3> HIDE DEF i
      <3>3. /\ DOMAIN places' = DOMAIN places
            /\ \A k \in DOMAIN places \ {i} : places'[k] = places[k]
            /\ places'[i] = [places[i] EXCEPT !.default = TRUE]
        BY <3>1, <3>2
      <3>4. places'[i].default /\ places'[i].live = places[i].live /\ places'[i].at = places[i].at
        BY <3>1, <3>3 DEF Place
      <3>5. Defaults' = {i}
        BY <2>2, <3>1, <3>3, <3>4 DEF Defaults, Live
      <3>6. home' = places'[i].at
        BY <3>2, <3>4 DEF HomeAt
      <3> QED
        BY <2>1, <3>5, <3>6, OneIsPreferred
    <2> QED
      BY <2>3, <2>4
  <1>9. ASSUME NEW w \in Workers, Crash(w) PROVE DefaultKept'
    <2>1. DefaultKept /\ UNCHANGED <<places, home>> /\ sess' = [sess EXCEPT ![w] = Idle]
      BY <1>9 DEF Crash, DefaultIInv
    <2>2. sess[w].op = "promote" \/ orphaned => orphaned'
      BY <1>9 DEF Crash
    <2> QED
      BY <1>0, <2>1, <2>2, ReadsStay
  <1>10. CASE UNCHANGED <<places, home, sess, crossed, orphaned>>
    <2>1. DefaultKept /\ Live' = Live /\ Defaults' = Defaults /\ Promoting' = Promoting
      BY <1>10 DEF DefaultIInv, Live, Defaults, Promoting
    <2> QED
      BY <1>10, <2>1 DEF DefaultKept, ReadStillHolds
  <1>11. ASSUME NEW j \in Jobs, Request(j) \/ Accept(j) \/ CheckIn(j)
         PROVE  UNCHANGED <<places, home, sess, crossed, orphaned>>
    BY <1>11 DEF Request, Accept, CheckIn
  <1>12. CASE UNCHANGED vars
    BY <1>10, <1>12 DEF vars
  <1> QED
    BY <1>2, <1>3, <1>4, <1>5, <1>6, <1>7, <1>8, <1>9, <1>10, <1>11, <1>12 DEF Next

(* What the inductive invariant says to whoever searches.                     *)
LEMMA KeptIsFollowed == DefaultIInv => OneDefaultFollowed
  <1> SUFFICES ASSUME DefaultKept PROVE OneDefaultFollowed
    BY DEF DefaultIInv, OneDefaultFollowed
  <1>1. Cardinality(Defaults) <= 1
    <2>1. CASE Defaults = {}
      BY <2>1, FS_EmptySet
    <2>2. CASE Defaults # {}
      <3>1. PICK i \in Defaults : Defaults = {i}
        BY <2>2 DEF DefaultKept
      <3>2. Cardinality({i}) = 1
        BY FS_Singleton
      <3> QED
        BY <3>1, <3>2
    <2> QED
      BY <2>1, <2>2
  <1>2. Defaults # {} => home = SearchFrom
    BY DEF DefaultKept, SearchFrom
  <1> QED
    BY <1>1, <1>2 DEF DefaultKept, OneDefaultFollowed

----------------------------------------------------------------------------

(* Places, requests and bookings stay typed, and no request names a place     *)
(* that is gone (parent_locations and the foreign key of booking_requests).   *)
THEOREM PlacesTypedAlways == Spec => []TypeOK
  <1>1. IInv => TypeOK
    BY DEF IInv
  <1> QED
    BY InitHolds, NextHolds, <1>1, PTL DEF Spec

(* A booking is where the parent asked for it, or nowhere when the place was  *)
(* deleted before the nanny accepted (accept_booking_request), and whoever    *)
(* has checked in was where the parent asked for her, whatever happened to    *)
(* the place since (nanny_check_in_booking).                                  *)
THEOREM NanniesServeWhereAsked == Spec => []ServedWhereAsked
  <1>1. IInv => ServedWhereAsked
    BY DEF IInv, JobKept, ServedWhereAsked
  <1> QED
    BY InitHolds, NextHolds, <1>1, PTL DEF Spec

(* A parent with places has one default, from which a search starts and which *)
(* her profile shows, whatever is created, chosen and deleted                 *)
(* (create_parent_location, set_parent_location_default and                   *)
(* delete_parent_location), but for workers that cross and while a deletion   *)
(* is under way or was cut off.                                               *)
THEOREM OneDefaultAlways == Spec => []OneDefaultFollowed
  <1>1. Init => IInv /\ DefaultIInv
    BY InitHolds, DefaultInit
  <1>2. IInv /\ DefaultIInv /\ [Next]_vars => (IInv /\ DefaultIInv)'
    BY NextHolds, DefaultNext
  <1> QED
    BY <1>1, <1>2, KeptIsFollowed, PTL DEF Spec

----------------------------------------------------------------------------
(* The nanny's calendar, and searches                                       *)

CalendarSpec == CalendarInit /\ [][CalendarNext]_calendar

Writers == {"nanny", "admin", "booking"}

(* A row of the calendar, and the hours that it stands for.                   *)
EntryRow == [date : Int, starts : Int, ends : Int, from : Int, to : Int, type : Types,
             open : BOOLEAN, live : BOOLEAN, by : Writers,
             zoned : BOOLEAN, said : Int \X Int]

HoursRight(x) == x.live /\ x.zoned => <<x.from, x.to>> = x.said

(* What a device is about to write.                                           *)
EditTyped(s) ==
    /\ s.op = "enter" => /\ s.adds \in Seq(EntryRow)
                         /\ \A k \in DOMAIN s.adds : HoursRight(s.adds[k])
    /\ s.op = "amend" => s.id \in DOMAIN entries /\ s.to \in EntryRow /\ HoursRight(s.to)

OfNanny(x) == x.live /\ x.by = "nanny"
Differ(x, y) == x.date # y.date \/ x.type # y.type

DaysApart ==
    \A i, k \in DOMAIN entries :
        i # k /\ OfNanny(entries[i]) /\ OfNanny(entries[k]) => Differ(entries[i], entries[k])

(* What it adds is for days that have no such entry yet, and an entry that is *)
(* amended stays of whoever made it.                                          *)
EditFits(s) ==
    /\ s.op = "enter" =>
          /\ \A k, m \in DOMAIN s.adds : k # m => Differ(s.adds[k], s.adds[m])
          /\ \A k \in DOMAIN s.adds, i \in DOMAIN entries :
                OfNanny(s.adds[k]) /\ OfNanny(entries[i]) => Differ(s.adds[k], entries[i])
    /\ s.op = "amend" => (entries[s.id].live => s.to.by = entries[s.id].by)

(* The inductive invariant of the calendar.                                   *)
CalendarInv ==
    /\ entries \in Seq(EntryRow)
    /\ \A i \in DOMAIN entries : HoursRight(entries[i])
    /\ DOMAIN edit = Devices
    /\ \A e \in Devices : EditTyped(edit[e])
    /\ moved \/ mixed \/ (DaysApart /\ \A e \in Devices : EditFits(edit[e]))

----------------------------------------------------------------------------
(* Entries                                                                   *)

LEMMA DaysFinite == IsFiniteSet(Days)
  BY CalendarTyped

LEMMA SpanTyped ==
    ASSUME NEW d \in Days, NEW h \in Hours
    PROVE  /\ Span(d, h) \in Int \X Int /\ SpanLocal(d, h) = Span(d, h)
           /\ SpanUtc(d, h) \in Int \X Int
           /\ Span(d, h) = <<Span(d, h)[1], Span(d, h)[2]>>
  <1>1. d \in Int /\ h \in Nat \X Nat /\ DayLen \in Int /\ Shift \in Int
    BY CalendarTyped
  <1> DEFINE start == d * DayLen
             end == IF h[2] > h[1] THEN h[2] ELSE h[2] + DayLen
  <1>2. start \in Int /\ end \in Int /\ h[1] \in Int
    BY <1>1
  <1>3. Span(d, h) = <<start + h[1], start + end>>
    BY DEF Span
  <1> HIDE DEF start, end
  <1>4. Span(d, h) \in Int \X Int
    BY <1>2, <1>3
  <1> QED
    BY <1>1, <1>3, <1>4 DEF SpanLocal, SpanUtc

LEMMA EntryTyped ==
    ASSUME NEW d \in Days, NEW h \in Hours, NEW span \in Int \X Int, NEW type \in Types,
           NEW open \in BOOLEAN, NEW by \in Writers, NEW zoned \in BOOLEAN,
           zoned => span = Span(d, h), NEW x, x = Entry(d, h, span, type, open, by, zoned)
    PROVE  /\ x \in EntryRow /\ HoursRight(x)
           /\ x.date = d /\ x.type = type /\ x.by = by /\ x.live
  <1> DEFINE ends == IF h[2] > h[1] THEN h[2] ELSE DayLen
             said == Span(d, h)
  <1>1. said \in Int \X Int /\ said = <<said[1], said[2]>> /\ span = <<span[1], span[2]>>
    BY SpanTyped
  <1>2. d \in Int /\ h[1] \in Int /\ ends \in Int
    BY CalendarTyped
  <1>3. x = [date |-> d, starts |-> h[1], ends |-> ends, from |-> span[1], to |-> span[2],
             type |-> type, open |-> open, live |-> TRUE, by |-> by, zoned |-> zoned, said |-> said]
    BY DEF Entry
  <1>4. zoned => span = said
    OBVIOUS
  <1> HIDE DEF ends, said
  <1>5. x \in EntryRow
    BY <1>1, <1>2, <1>3 DEF EntryRow
  <1>6. /\ x.date = d /\ x.type = type /\ x.by = by /\ x.live
        /\ x.zoned = zoned /\ x.from = span[1] /\ x.to = span[2] /\ x.said = said
    BY <1>3
  <1>7. HoursRight(x)
    BY <1>1, <1>4, <1>6 DEF HoursRight
  <1> QED
    BY <1>5, <1>6, <1>7

(* A finite set is listed without repetition (community module SequencesExt).  *)
LEMMA ListedOnce ==
    ASSUME NEW S, IsFiniteSet(S)
    PROVE  /\ SetToSeq(S) \in [1..Cardinality(S) -> S] /\ Cardinality(S) \in Nat
           /\ \A i, k \in 1..Cardinality(S) : SetToSeq(S)[i] = SetToSeq(S)[k] => i = k
  <1>1. Cardinality(S) \in Nat /\ ExistsBijection(1..Cardinality(S), S)
    BY FS_CardinalityType
  <1>2. PICK f \in [1..Cardinality(S) -> S] : IsInjective(f)
    BY <1>1 DEF ExistsBijection, Bijection, Injection
  <1>3. SetToSeq(S) \in [1..Cardinality(S) -> S] /\ IsInjective(SetToSeq(S))
    BY <1>2 DEF SetToSeq
  <1> QED
    BY <1>1, <1>3 DEF IsInjective

(* A spread enters each of its days once, and none that has such an entry.    *)
LEMMA SpreadFits ==
    ASSUME CalendarInv, NEW S \in SUBSET Days, NEW h \in Hours, NEW type \in Types,
           NEW s, s.op = "enter", s.adds = Spread(S, h, type)
    PROVE  EditTyped(s) /\ EditFits(s)
  <1> DEFINE T == S \ DaysWith(type)
             days == SetToSeq(T)
             n == Cardinality(T)
             row(d) == Entry(d, h, SpanLocal(d, h), type, type = "available", "nanny", TRUE)
  <1>1. IsFiniteSet(T) /\ T \subseteq Days
    <2>1. T \in SUBSET Days
      OBVIOUS
    <2> HIDE DEF T
    <2> QED
      BY <2>1, DaysFinite, FS_Subset
  <1>2. /\ days \in [1..n -> T] /\ n \in Nat
        /\ \A i, k \in 1..n : days[i] = days[k] => i = k
    BY <1>1, ListedOnce
  <1>3. s.adds = [k \in 1..n |-> row(days[k])]
    BY <1>2 DEF Spread, SpreadAnew
  <1>4. ASSUME NEW d \in Days
        PROVE  /\ row(d) \in EntryRow /\ HoursRight(row(d))
               /\ row(d).date = d /\ row(d).type = type
    <2>1. SpanLocal(d, h) = Span(d, h) /\ Span(d, h) \in Int \X Int
      BY SpanTyped
    <2> DEFINE open == type = "available"
               span == SpanLocal(d, h)
               zoned == TRUE
    <2>2. open \in BOOLEAN /\ span \in Int \X Int /\ span = Span(d, h)
      BY <2>1
    <2>3. row(d) = Entry(d, h, span, type, open, "nanny", zoned)
      OBVIOUS
    <2>4. "nanny" \in Writers /\ zoned \in BOOLEAN
      BY DEF Writers
    <2> HIDE DEF open, span, zoned, row
    <2> QED
      BY <2>2, <2>3, <2>4, EntryTyped
  <1>5. \A i \in DOMAIN entries : entries[i].live /\ entries[i].type = type => entries[i].date \notin T
    BY DEF DaysWith, Kept
  <1> HIDE DEF T, days, n, row
  <1>6. \A k \in 1..n : days[k] \in Days /\ days[k] \in T
    BY <1>1, <1>2
  <1>7. /\ DOMAIN s.adds = 1..n
        /\ \A k \in 1..n : /\ s.adds[k] \in EntryRow /\ HoursRight(s.adds[k])
                           /\ s.adds[k].date = days[k] /\ s.adds[k].type = type
    BY <1>3, <1>4, <1>6
  <1>8. s.adds \in Seq(EntryRow)
    BY <1>2, <1>3, <1>4, <1>6
  <1>9. EditTyped(s)
    BY <1>7, <1>8 DEF EditTyped
  <1>10. EditFits(s)
    BY <1>2, <1>5, <1>6, <1>7 DEF EditFits, Differ, OfNanny
  <1> QED
    BY <1>9, <1>10

(* So does an entry of one day.                                               *)
LEMMA EnterFits ==
    ASSUME CalendarInv, NEW x \in EntryRow, HoursRight(x),
           OfNanny(x) => x.date \notin DaysWith(x.type),
           NEW s, s.op = "enter", s.adds = <<x>>
    PROVE  EditTyped(s) /\ EditFits(s)
  <1>1. s.adds \in Seq(EntryRow) /\ DOMAIN s.adds = {1} /\ s.adds[1] = x
    OBVIOUS
  <1>2. \A i \in DOMAIN entries : entries[i].live /\ entries[i].type = x.type
                                  => entries[i].date \in DaysWith(x.type)
    BY DEF DaysWith, Kept
  <1> QED
    BY <1>1, <1>2 DEF EditTyped, EditFits, Differ, OfNanny

----------------------------------------------------------------------------
(* Edits                                                                     *)

(* A device that begins changes no entry.                                     *)
LEMMA StartKeeps ==
    ASSUME CalendarInv, NEW e \in Devices, NEW s, Start(e, s), EditTyped(s), EditFits(s)
    PROVE  CalendarInv'
  <1>1. UNCHANGED <<entries, moved, mixed>> /\ edit' = [edit EXCEPT ![e] = s]
    BY DEF Start
  <1>2. /\ DOMAIN edit' = Devices /\ edit'[e] = s
        /\ \A f \in Devices \ {e} : edit'[f] = edit[f]
    BY <1>1 DEF CalendarInv
  <1>3. DaysApart' = DaysApart
    BY <1>1 DEF DaysApart
  <1>4. \A f \in Devices : EditTyped(edit[f])'
    BY <1>1, <1>2 DEF CalendarInv, EditTyped
  <1>5. moved \/ mixed \/ \A f \in Devices : EditFits(edit[f])'
    BY <1>1, <1>2 DEF CalendarInv, EditFits
  <1> QED
    BY <1>1, <1>2, <1>3, <1>4, <1>5 DEF CalendarInv

LEMMA StartEnterKeeps ==
    ASSUME CalendarInv, NEW e \in Devices, StartEnter(e)
    PROVE  CalendarInv'
  <1> DEFINE span(d, h, zoned) == IF zoned THEN SpanLocal(d, h) ELSE SpanUtc(d, h)
             x(d, h, type, zoned) ==
               Entry(d, h, span(d, h, zoned), type, type = "available", "nanny", zoned)
             s(d, h, type, zoned) == [op |-> "enter", adds |-> <<x(d, h, type, zoned)>>]
  <1>1. PICK d \in Days, h \in Hours, type \in Types, zoned \in BOOLEAN :
            d \notin DaysWith(type) /\ Start(e, s(d, h, type, zoned))
    BY DEF StartEnter
  <1> DEFINE open == type = "available"
             row == x(d, h, type, zoned)
             hours == span(d, h, zoned)
  <1>2. hours \in Int \X Int /\ (zoned => hours = Span(d, h)) /\ open \in BOOLEAN
    BY SpanTyped
  <1>3. row = Entry(d, h, hours, type, open, "nanny", zoned)
    OBVIOUS
  <1>4. s(d, h, type, zoned).op = "enter" /\ s(d, h, type, zoned).adds = <<row>>
    OBVIOUS
  <1> "nanny" \in Writers
    BY DEF Writers
  <1> HIDE DEF span, x, s, open, row, hours
  <1>5. row \in EntryRow /\ HoursRight(row) /\ row.date = d /\ row.type = type
    BY <1>2, <1>3, EntryTyped
  <1>6. EditTyped(s(d, h, type, zoned)) /\ EditFits(s(d, h, type, zoned))
    BY <1>1, <1>4, <1>5, EnterFits
  <1> QED
    BY <1>1, <1>6, StartKeeps

LEMMA StartSpreadKeeps ==
    ASSUME CalendarInv, NEW e \in Devices, StartSpread(e)
    PROVE  CalendarInv'
  <1> DEFINE s(S, h, type) == [op |-> "enter", adds |-> Spread(S, h, type)]
  <1>1. PICK S \in (SUBSET Days) \ {{}}, h \in Hours, type \in Types : Start(e, s(S, h, type))
    BY DEF StartSpread
  <1>2. s(S, h, type).op = "enter" /\ s(S, h, type).adds = Spread(S, h, type)
    OBVIOUS
  <1> HIDE DEF s
  <1>3. EditTyped(s(S, h, type)) /\ EditFits(s(S, h, type))
    BY <1>2, SpreadFits
  <1> QED
    BY <1>1, <1>3, StartKeeps

LEMMA StartPlaceKeeps ==
    ASSUME CalendarInv, NEW e \in Devices, StartPlace(e)
    PROVE  CalendarInv'
  <1> DEFINE x(d, h, open) == Entry(d, h, SpanUtc(d, h), "available", open, "admin", FALSE)
             s(d, h, open) == [op |-> "enter", adds |-> <<x(d, h, open)>>]
  <1>1. PICK d \in Days, h \in Hours, open \in BOOLEAN : Start(e, s(d, h, open))
    BY DEF StartPlace
  <1> DEFINE hours == SpanUtc(d, h)
             zoned == FALSE
             row == x(d, h, open)
  <1>2. /\ hours \in Int \X Int /\ "available" \in Types /\ "admin" \in Writers
        /\ zoned \in BOOLEAN /\ ~zoned
    BY SpanTyped DEF Types, Writers
  <1>3. row = Entry(d, h, hours, "available", open, "admin", zoned)
    OBVIOUS
  <1>4. s(d, h, open).op = "enter" /\ s(d, h, open).adds = <<row>>
    OBVIOUS
  <1> HIDE DEF x, s, hours, zoned, row
  <1>5. row \in EntryRow /\ HoursRight(row) /\ row.by = "admin"
    BY <1>2, <1>3, EntryTyped
  <1>6. EditTyped(s(d, h, open)) /\ EditFits(s(d, h, open))
    BY <1>4, <1>5, EnterFits DEF OfNanny
  <1> QED
    BY <1>1, <1>6, StartKeeps

(* What may become of an entry stays of whoever made it and says its hours.   *)
LEMMA AmendedTyped ==
    ASSUME NEW x \in EntryRow, x.live, HoursRight(x), NEW y,
           \/ \E d \in Days, h \in Hours : y = Dragged(x, d, h) \/ y = Resized(x, Span(d, h)[2])
           \/ \E t \in Types : y = [x EXCEPT !.type = t]
    PROVE  y \in EntryRow /\ HoursRight(y) /\ y.by = x.by
  <1>1. ASSUME NEW d \in Days, NEW h \in Hours, y = Dragged(x, d, h)
        PROVE  y \in EntryRow /\ HoursRight(y) /\ y.by = x.by
    <2> DEFINE span == SpanLocal(d, h)
               type == x.type
               open == x.open
               by == x.by
               zoned == TRUE
    <2>1. y = Entry(d, h, span, type, open, by, zoned)
      BY <1>1 DEF Dragged
    <2>2. span \in Int \X Int /\ span = Span(d, h)
      BY SpanTyped
    <2>3. type \in Types /\ open \in BOOLEAN /\ by \in Writers /\ zoned \in BOOLEAN
      BY DEF EntryRow
    <2> HIDE DEF span, type, open, by, zoned
    <2>4. y \in EntryRow /\ HoursRight(y) /\ y.by = by
      BY <2>1, <2>2, <2>3, EntryTyped
    <2> QED
      BY <2>4 DEF by
  <1>2. ASSUME NEW d \in Days, NEW h \in Hours, y = Resized(x, Span(d, h)[2])
        PROVE  y \in EntryRow /\ HoursRight(y) /\ y.by = x.by
    <2> DEFINE to == Span(d, h)[2]
               from == x.from - Shift
               date == from \div DayLen
               starts == from % DayLen
               ends == IF to \div DayLen > from \div DayLen \/ to % DayLen <= from % DayLen
                       THEN DayLen ELSE to % DayLen
    <2>1. y = [x EXCEPT !.to = to, !.date = date, !.starts = starts, !.zoned = TRUE,
                        !.ends = ends, !.said = <<x.from, to>>]
      BY <1>2 DEF Resized
    <2>2. to \in Int /\ x.from \in Int
      BY SpanTyped DEF EntryRow
    <2>3. date \in Int /\ starts \in Int /\ ends \in Int
      <3>1. DayLen \in Nat \ {0} /\ from \in Int
        BY <2>2, CalendarTyped
      <3>2. to % DayLen \in Int /\ DayLen \in Int
        BY <2>2, <3>1
      <3> HIDE DEF from, to
      <3> QED
        BY <3>1, <3>2
    <2> HIDE DEF to, from, date, starts, ends
    <2>4. y \in EntryRow
      BY <2>1, <2>2, <2>3 DEF EntryRow
    <2>5. /\ y.from = x.from /\ y.to = to /\ y.said = <<x.from, to>> /\ y.by = x.by
      BY <2>1 DEF EntryRow
    <2> QED
      BY <2>4, <2>5 DEF HoursRight
  <1>3. ASSUME NEW t \in Types, y = [x EXCEPT !.type = t]
        PROVE  y \in EntryRow /\ HoursRight(y) /\ y.by = x.by
    <2>1. y \in EntryRow
      BY <1>3 DEF EntryRow
    <2>2. /\ y.live = x.live /\ y.zoned = x.zoned /\ y.from = x.from /\ y.to = x.to
          /\ y.said = x.said /\ y.by = x.by
      BY <1>3 DEF EntryRow
    <2> QED
      BY <2>1, <2>2 DEF HoursRight
  <1> QED
    BY <1>1, <1>2, <1>3

LEMMA StartAmendKeeps ==
    ASSUME CalendarInv, NEW e \in Devices, StartAmend(e)
    PROVE  CalendarInv'
  <1> DEFINE s(i, y) == [op |-> "amend", id |-> i, to |-> y]
             may(x) == {Dragged(x, d, h) : d \in Days, h \in Hours}
                       \union {Resized(x, Span(d, h)[2]) : d \in {d \in Days : Timed(x)}, h \in Hours}
                       \union {[x EXCEPT !.type = t] : t \in Types}
  <1>1. PICK i \in Kept : \E y \in may(entries[i]) : y # entries[i] /\ Start(e, s(i, y))
    BY DEF StartAmend
  <1>2. PICK y \in may(entries[i]) : y # entries[i] /\ Start(e, s(i, y))
    BY <1>1
  <1> DEFINE x == entries[i]
  <1>3. i \in DOMAIN entries /\ x \in EntryRow /\ x.live /\ HoursRight(x)
    BY DEF CalendarInv, Kept
  <1>4. s(i, y).op = "amend" /\ s(i, y).id = i /\ s(i, y).to = y
    OBVIOUS
  <1>5. \/ \E d \in Days, h \in Hours : y = Dragged(x, d, h) \/ y = Resized(x, Span(d, h)[2])
        \/ \E t \in Types : y = [x EXCEPT !.type = t]
    OBVIOUS
  <1>6. y \in EntryRow /\ HoursRight(y) /\ y.by = x.by
    <2> HIDE DEF may, x
    <2> QED
      BY <1>3, <1>5, AmendedTyped
  <1> HIDE DEF s, may
  <1>7. EditTyped(s(i, y)) /\ EditFits(s(i, y))
    BY <1>3, <1>4, <1>6 DEF EditTyped, EditFits
  <1> QED
    BY <1>2, <1>7, StartKeeps

(* Whoever saves while nobody else edits leaves nothing that waits.           *)
LEMMA SavesAlone ==
    ASSUME CalendarInv, NEW e \in Devices, NEW op, Save(e, op)
    PROVE  /\ edit[e].op = op /\ DOMAIN edit' = Devices /\ edit'[e].op = "none"
           /\ \A f \in Devices \ {e} : edit'[f] = edit[f]
           /\ ~mixed' => ~mixed /\ \A f \in Devices : edit'[f].op = "none"
  <1>1. NoEdit.op = "none"
    BY DEF NoEdit
  <1> QED
    BY <1>1 DEF Save, CalendarInv

LEMMA SaveEnterKeeps ==
    ASSUME CalendarInv, NEW e \in Devices, SaveEnter(e)
    PROVE  CalendarInv'
  <1> DEFINE adds == edit[e].adds
             n == Len(entries)
  <1>1. /\ edit[e].op = "enter" /\ DOMAIN edit' = Devices /\ edit'[e].op = "none"
        /\ \A f \in Devices \ {e} : edit'[f] = edit[f]
        /\ ~mixed' => ~mixed /\ \A f \in Devices : edit'[f].op = "none"
    BY SavesAlone DEF SaveEnter
  <1>2. entries' = entries \o adds /\ moved' = moved
    BY DEF SaveEnter
  <1>3. /\ entries \in Seq(EntryRow) /\ adds \in Seq(EntryRow)
        /\ \A k \in DOMAIN adds : HoursRight(adds[k])
        /\ \A i \in DOMAIN entries : HoursRight(entries[i])
    BY <1>1 DEF CalendarInv, EditTyped
  <1>4. /\ entries' \in Seq(EntryRow) /\ n \in Nat
        /\ DOMAIN entries = 1..n /\ DOMAIN entries \subseteq DOMAIN entries'
        /\ \A i \in DOMAIN entries' : IF i \in 1..n THEN entries'[i] = entries[i]
                                      ELSE i - n \in DOMAIN adds /\ entries'[i] = adds[i - n]
    BY <1>2, <1>3
  <1>5. \A i \in DOMAIN entries' : i \in Nat
    BY <1>4
  <1> HIDE DEF adds, n
  <1>6. \A i \in DOMAIN entries' : HoursRight(entries'[i])
    BY <1>3, <1>4
  <1>7. \A f \in Devices : EditTyped(edit[f])'
    BY <1>1, <1>4 DEF CalendarInv, EditTyped
  <1>8. ASSUME ~moved', ~mixed' PROVE DaysApart'
    <2>1. /\ DaysApart
          /\ \A k, m \in DOMAIN adds : k # m => Differ(adds[k], adds[m])
          /\ \A k \in DOMAIN adds, i \in DOMAIN entries :
                OfNanny(adds[k]) /\ OfNanny(entries[i]) => Differ(adds[k], entries[i])
      BY <1>1, <1>2, <1>8 DEF CalendarInv, EditFits, adds
    <2>2. SUFFICES ASSUME NEW i \in DOMAIN entries', NEW k \in DOMAIN entries', i # k,
                          OfNanny(entries'[i]), OfNanny(entries'[k])
                   PROVE  Differ(entries'[i], entries'[k])
      BY DEF DaysApart, OfNanny, Differ
    <2>3. CASE i \in 1..n /\ k \in 1..n
      BY <1>4, <2>1, <2>2, <2>3 DEF DaysApart
    <2>4. CASE i \in 1..n /\ k \notin 1..n
      BY <1>4, <2>1, <2>2, <2>4 DEF Differ
    <2>5. CASE i \notin 1..n /\ k \in 1..n
      BY <1>4, <2>1, <2>2, <2>5
    <2>6. CASE i \notin 1..n /\ k \notin 1..n
      <3>1. i - n # k - n
        BY <1>4, <1>5, <2>2
      <3> QED
        BY <1>4, <2>1, <2>6, <3>1
    <2> QED
      BY <2>3, <2>4, <2>5, <2>6
  <1>9. ASSUME ~mixed' PROVE \A f \in Devices : EditFits(edit[f])'
    BY <1>1, <1>9 DEF EditFits
  <1> QED
    BY <1>1, <1>4, <1>6, <1>7, <1>8, <1>9 DEF CalendarInv

LEMMA SaveAmendKeeps ==
    ASSUME CalendarInv, NEW e \in Devices, SaveAmend(e)
    PROVE  CalendarInv'
  <1> DEFINE i == edit[e].id
             y == edit[e].to
  <1>1. /\ edit[e].op = "amend" /\ DOMAIN edit' = Devices /\ edit'[e].op = "none"
        /\ \A f \in Devices \ {e} : edit'[f] = edit[f]
        /\ ~mixed' => ~mixed /\ \A f \in Devices : edit'[f].op = "none"
    BY SavesAlone DEF SaveAmend
  <1>2. i \in DOMAIN entries /\ y \in EntryRow /\ HoursRight(y)
    BY <1>1 DEF CalendarInv, EditTyped
  <1>3. ~mixed' => \A f \in Devices : EditFits(edit[f])'
    BY <1>1 DEF EditFits
  <1>4. CASE i \in Kept
    <2>1. /\ entries' = [entries EXCEPT ![i] = y]
          /\ moved' = (moved \/ y.date # entries[i].date \/ y.type # entries[i].type)
      BY <1>4 DEF SaveAmend
    <2>2. /\ DOMAIN entries' = DOMAIN entries /\ entries'[i] = y
          /\ \A k \in DOMAIN entries \ {i} : entries'[k] = entries[k]
          /\ entries[i].live
      BY <1>2, <1>4, <2>1 DEF Kept
    <2>3. entries' \in Seq(EntryRow)
      BY <1>2, <2>1, ExceptSeq DEF CalendarInv
    <2> HIDE DEF i, y
    <2>4. \A k \in DOMAIN entries' : HoursRight(entries'[k])
      BY <1>2, <2>2 DEF CalendarInv
    <2>5. \A f \in Devices : EditTyped(edit[f])'
      BY <1>1, <2>2 DEF CalendarInv, EditTyped
    <2>6. ASSUME ~moved', ~mixed' PROVE DaysApart'
      <3>1. /\ DaysApart /\ y.by = entries[i].by
            /\ y.date = entries[i].date /\ y.type = entries[i].type
        BY <1>1, <2>1, <2>2, <2>6 DEF CalendarInv, EditFits, i, y
      <3>2. \A k \in DOMAIN entries : /\ entries'[k].by = entries[k].by
                                      /\ entries'[k].date = entries[k].date
                                      /\ entries'[k].type = entries[k].type
                                      /\ OfNanny(entries'[k]) => OfNanny(entries[k])
        BY <2>2, <3>1 DEF OfNanny
      <3> QED
        BY <2>2, <3>1, <3>2 DEF DaysApart, OfNanny, Differ
    <2> QED
      BY <1>1, <1>3, <2>3, <2>4, <2>5, <2>6 DEF CalendarInv
  <1>5. CASE i \notin Kept
    <2>1. UNCHANGED <<entries, moved>>
      BY <1>5 DEF SaveAmend
    <2>2. \A f \in Devices : EditTyped(edit[f])'
      BY <1>1, <2>1 DEF CalendarInv, EditTyped
    <2> QED
      BY <1>1, <1>3, <2>1, <2>2 DEF CalendarInv, DaysApart
  <1> QED
    BY <1>4, <1>5

LEMMA WithdrawKeeps ==
    ASSUME CalendarInv, Withdraw
    PROVE  CalendarInv'
  <1>1. PICK S : entries' = Without(S) /\ UNCHANGED <<edit, moved, mixed>>
    BY DEF Withdraw
  <1>2. Gone \in EntryRow /\ ~Gone.live
    <2> DEFINE blank == Entry(0, <<0, 0>>, <<0, 0>>, "available", FALSE, "nanny", TRUE)
               said == Span(0, <<0, 0>>)
    <2>1. said \in Int \X Int /\ DayLen \in Nat
      BY CalendarTyped DEF Span
    <2>2. blank = [date |-> 0, starts |-> 0, ends |-> DayLen, from |-> 0, to |-> 0,
                   type |-> "available", open |-> FALSE, live |-> TRUE, by |-> "nanny",
                   zoned |-> TRUE, said |-> said]
      BY DEF Entry
    <2>3. Gone = [blank EXCEPT !.live = FALSE]
      BY DEF Gone
    <2> HIDE DEF blank, said
    <2>4. blank \in EntryRow
      BY <2>1, <2>2 DEF EntryRow, Types, Writers
    <2> QED
      BY <2>3, <2>4 DEF EntryRow
  <1>3. /\ DOMAIN entries' = DOMAIN entries
        /\ \A i \in DOMAIN entries : entries'[i] = entries[i] \/ entries'[i] = Gone
    BY <1>1 DEF Without
  <1>4. entries' \in Seq(EntryRow)
    <2>1. entries \in Seq(EntryRow) /\ \A i \in DOMAIN entries : entries[i] \in EntryRow
      BY DEF CalendarInv
    <2>2. entries' \in [1..Len(entries) -> EntryRow] /\ Len(entries) \in Nat
      BY <1>1, <1>2, <1>3, <2>1 DEF Without
    <2> QED
      BY <2>2
  <1>5. \A i \in DOMAIN entries' : HoursRight(entries'[i])
    BY <1>2, <1>3 DEF CalendarInv, HoursRight
  <1>6. \A f \in Devices : EditTyped(edit[f])'
    BY <1>1, <1>3 DEF CalendarInv, EditTyped
  <1>7. \A i \in DOMAIN entries : entries'[i].live => entries'[i] = entries[i]
    BY <1>2, <1>3
  <1>8. DaysApart => DaysApart'
    BY <1>3, <1>7 DEF DaysApart, OfNanny
  <1>9. ASSUME NEW f \in Devices, EditFits(edit[f]) PROVE EditFits(edit[f])'
    <2>1. EditTyped(edit[f])
      BY DEF CalendarInv
    <2> QED
      BY <1>1, <1>3, <1>7, <1>9, <2>1 DEF EditFits, EditTyped, OfNanny
  <1> QED
    BY <1>1, <1>4, <1>5, <1>6, <1>8, <1>9 DEF CalendarInv

LEMMA BookKeeps ==
    ASSUME CalendarInv, Book
    PROVE  CalendarInv'
  <1>1. PICK x \in Windows : entries' = Append(entries, Block(x)) /\ UNCHANGED <<edit, moved, mixed>>
    BY DEF Book
  <1>2. PICK d \in Days, h \in Hours : x = Span(d, h)
    BY DEF Windows
  <1>3. x \in Int \X Int /\ x = <<x[1], x[2]>>
    BY <1>2, SpanTyped
  <1> DEFINE row == Block(x)
             date == (x[1] - Shift) \div DayLen
             starts == (x[1] - Shift) % DayLen
             ends == (x[2] - Shift) % DayLen
  <1>4. date \in Int /\ starts \in Int /\ ends \in Int
    <2> DEFINE from == x[1] - Shift
               to == x[2] - Shift
    <2>1. from \in Int /\ to \in Int /\ DayLen \in Nat \ {0}
      BY <1>3, CalendarTyped
    <2>2. date = from \div DayLen /\ starts = from % DayLen /\ ends = to % DayLen
      OBVIOUS
    <2> HIDE DEF from, to, date, starts, ends
    <2> QED
      BY <2>1, <2>2
  <1>5. row = [date |-> date, starts |-> starts, ends |-> ends, from |-> x[1], to |-> x[2],
               type |-> "blocked", open |-> FALSE, live |-> TRUE, by |-> "booking",
               zoned |-> TRUE, said |-> x]
    BY DEF Block
  <1> HIDE DEF row, date, starts, ends
  <1>6. row \in EntryRow
    BY <1>3, <1>4, <1>5 DEF EntryRow, Types, Writers
  <1>7. HoursRight(row) /\ ~OfNanny(row)
    BY <1>3, <1>5 DEF HoursRight, OfNanny
  <1>8. /\ entries \in Seq(EntryRow) /\ entries' \in Seq(EntryRow)
        /\ DOMAIN entries' = DOMAIN entries \union {Len(entries) + 1}
        /\ Len(entries) + 1 \notin DOMAIN entries
        /\ entries'[Len(entries) + 1] = row
        /\ \A i \in DOMAIN entries : entries'[i] = entries[i]
    <2>1. entries' = Append(entries, row) /\ entries \in Seq(EntryRow)
      BY <1>1 DEF CalendarInv, row
    <2> QED
      BY <1>6, <2>1
  <1>9. \A i \in DOMAIN entries' : HoursRight(entries'[i])
    BY <1>7, <1>8 DEF CalendarInv
  <1>10. \A f \in Devices : EditTyped(edit[f])'
    BY <1>1, <1>8 DEF CalendarInv, EditTyped
  <1>11. DaysApart => DaysApart'
    BY <1>7, <1>8 DEF DaysApart, OfNanny
  <1>12. ASSUME NEW f \in Devices, EditFits(edit[f]) PROVE EditFits(edit[f])'
    <2>1. EditTyped(edit[f])
      BY DEF CalendarInv
    <2> QED
      BY <1>1, <1>7, <1>8, <1>12, <2>1 DEF EditFits, EditTyped, OfNanny
  <1> QED
    BY <1>1, <1>8, <1>9, <1>10, <1>11, <1>12 DEF CalendarInv

LEMMA CalendarStays ==
    ASSUME CalendarInv, UNCHANGED <<entries, edit, moved, mixed>>
    PROVE  CalendarInv'
  BY DEF CalendarInv, DaysApart, EditTyped, EditFits

LEMMA CalendarStarts == CalendarInit => CalendarInv
  <1> SUFFICES ASSUME CalendarInit PROVE CalendarInv
    OBVIOUS
  <1>1. entries = Given /\ DOMAIN edit = Devices /\ \A e \in Devices : edit[e].op = "none"
    BY DEF CalendarInit, NoEdit
  <1> DEFINE row(d, h, type) == Entry(d, h, Span(d, h), type, type = "available", "nanny", TRUE)
             Rows == {row(d, h, type) : d \in Days, h \in Hours, type \in Types}
  <1>2. ASSUME NEW x \in Rows PROVE x \in EntryRow /\ HoursRight(x)
    <2>1. PICK d \in Days, h \in Hours, type \in Types : x = row(d, h, type)
      <3> HIDE DEF row
      <3> QED
        OBVIOUS
    <2> DEFINE open == type = "available"
               span == Span(d, h)
               zoned == TRUE
    <2>2. /\ open \in BOOLEAN /\ zoned \in BOOLEAN /\ "nanny" \in Writers
          /\ span \in Int \X Int /\ span = Span(d, h)
      BY SpanTyped DEF Writers
    <2>3. x = Entry(d, h, span, type, open, "nanny", zoned)
      BY <2>1
    <2> HIDE DEF open, span, zoned, row, Rows
    <2> QED
      BY <2>2, <2>3, EntryTyped
  <1>3. entries \in Seq(Rows)
    BY <1>1, CalendarTyped
  <1>4. DaysApart
    BY <1>1, CalendarTyped DEF DaysApart, Differ
  <1> HIDE DEF Rows
  <1>5. entries \in Seq(EntryRow) /\ \A i \in DOMAIN entries : HoursRight(entries[i])
    <2>1. \A i \in DOMAIN entries : entries[i] \in Rows
      BY <1>3
    <2>2. \A i \in DOMAIN entries : entries[i] \in EntryRow /\ HoursRight(entries[i])
      BY <1>2, <2>1
    <2> QED
      BY <1>3, <2>2
  <1>6. \A e \in Devices : EditTyped(edit[e]) /\ EditFits(edit[e])
    BY <1>1 DEF EditTyped, EditFits
  <1> QED
    BY <1>1, <1>4, <1>5, <1>6 DEF CalendarInv

LEMMA CalendarStepKeeps == CalendarInv /\ [CalendarNext]_calendar => CalendarInv'
  <1> SUFFICES ASSUME CalendarInv, [CalendarNext]_calendar PROVE CalendarInv'
    OBVIOUS
  <1>1. ASSUME NEW e \in Devices,
               \/ StartEnter(e) \/ StartSpread(e) \/ StartPlace(e) \/ SaveEnter(e)
               \/ StartAmend(e) \/ SaveAmend(e)
        PROVE  CalendarInv'
    BY <1>1, StartEnterKeeps, StartSpreadKeeps, StartPlaceKeeps, SaveEnterKeeps,
       StartAmendKeeps, SaveAmendKeeps
  <1>2. CASE Unbook
    BY <1>2, CalendarStays DEF Unbook
  <1>3. CASE UNCHANGED calendar
    BY <1>3, CalendarStays DEF calendar
  <1> QED
    BY <1>1, <1>2, <1>3, WithdrawKeeps, BookKeeps DEF CalendarNext

----------------------------------------------------------------------------
(* Searches beside them                                                      *)

LEMMA MatchingStep == [MatchingNext]_matching => [Next]_vars /\ [CalendarNext]_calendar
  <1> SUFFICES ASSUME [MatchingNext]_matching PROVE [Next]_vars /\ [CalendarNext]_calendar
    OBVIOUS
  <1>1. ASSUME NEW for, NEW list, Answer(for, list) PROVE UNCHANGED <<vars, calendar>>
    BY <1>1 DEF Answer
  <1>2. CASE Search \/ SearchByTime \/ Candidates
    <2>1. Search => UNCHANGED <<vars, calendar>>
      BY <1>1 DEF Search
    <2>2. SearchByTime => UNCHANGED <<vars, calendar>>
      BY <1>1 DEF SearchByTime
    <2>3. Candidates => UNCHANGED <<vars, calendar>>
      BY <1>1 DEF Candidates
    <2> QED
      BY <1>2, <2>1, <2>2, <2>3
  <1>3. CASE Review
    BY <1>3 DEF Review
  <1>4. CASE Next /\ UNCHANGED calendar
    BY <1>4
  <1>5. CASE CalendarNext /\ UNCHANGED vars
    BY <1>5
  <1>6. CASE UNCHANGED matching
    BY <1>6 DEF matching
  <1> QED
    BY <1>2, <1>3, <1>4, <1>5, <1>6 DEF MatchingNext

(* Whoever searches and reviews, the parent's places and the nanny's calendar *)
(* change as they would by themselves (the search endpoints only read).       *)
THEOREM SearchesOnlyRead == MatchingSpec => Spec /\ CalendarSpec
  <1>1. MatchingInit => Init /\ CalendarInit
    BY DEF MatchingInit
  <1> QED
    BY <1>1, MatchingStep, PTL DEF MatchingSpec, Spec, CalendarSpec

LEMMA CalendarInvariance == CalendarSpec => []CalendarInv
  BY CalendarStarts, CalendarStepKeeps, PTL DEF CalendarSpec

(* The hours that searches go by are those that the nanny means, until she    *)
(* changes them, but for hours sent without a zone                            *)
(* (create_nanny_me_availability, update_nanny_me_availability).              *)
THEOREM HoursAlwaysAsSaid == MatchingSpec => []HoursAsSaid
  <1>1. CalendarInv => HoursAsSaid
    BY DEF CalendarInv, HoursAsSaid, HoursRight, Kept
  <1> QED
    BY <1>1, SearchesOnlyRead, CalendarInvariance, PTL

(* A day has one entry of a type of the nanny, whichever ways she enters them *)
(* (_existing_availability_type_dates), as long as no entry is moved to       *)
(* another day or type and no two devices cross.                              *)
THEOREM DaysAlwaysSetOnce == MatchingSpec => []DaySetOnce
  <1>1. CalendarInv => DaySetOnce
    BY DEF CalendarInv, DaySetOnce, DaysApart, OfNanny, Differ, Kept
  <1> QED
    BY <1>1, SearchesOnlyRead, CalendarInvariance, PTL

(* Beside calendars, reviews and searches, a parent with places has one       *)
(* default, which the next search starts from, and whoever serves her does so *)
(* where she asked for it (search_nannies_by_time, nanny_check_in_booking).   *)
THEOREM PlacesSoundBesideSearches == MatchingSpec => []OneDefaultFollowed /\ []ServedWhereAsked
  BY SearchesOnlyRead, OneDefaultAlways, NanniesServeWhereAsked, PTL

=============================================================================
