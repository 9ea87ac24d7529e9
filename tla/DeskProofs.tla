----------------------------- MODULE DeskProofs ------------------------------
(* Proofs about Desk, for any number of requests, parents, nannies, windows,  *)
(* positions and charges, while one handler is at work at a time: who serves  *)
(* an approved request, when its job is, what is charged for it, and that a   *)
(* nanny is assigned where she is free.                                       *)
EXTENDS Desk, FiniteSetTheorems, WellFoundedInduction, TLAPS

----------------------------------------------------------------------------
(* The inductive invariant                                                   *)

Statuses == {"none", "tbc", "approved", "rejected", "cancelled"}

RowType ==
    [status : Statuses, job : Nat, parent : Parents \cup {Nobody}, nanny : Nannies \cup {Nobody},
     window : Int, positions : Nat, reason : {"none", "filled", "payment_failed"},
     accepted : BOOLEAN, paid : BOOLEAN]

BookingType ==
    [request : Requests \cup {NoRequest}, parent : Parents, nanny : Nannies, window : Windows,
     status : {"pending", "accepted", "approved", "completed", "cancelled"}]

Own(r, bs) == {b \in bs : b.request = r}

(* The request r, with the columns x, and its bookings: one of them stands at *)
(* most, with the nanny who is named if the request is approved, and none was *)
(* made while it is open.  A job is named by the first of its requests.       *)
RowGood(r, x, own) ==
    /\ x \in RowType
    /\ x.status = "none" => x = NoRow
    /\ x.status # "none" =>
          x.job \in 1..r /\ x.parent \in Parents /\ x.nanny \in Nannies /\ x.window \in Windows
    /\ x.status \in {"none", "tbc"} => own = {}
    /\ \A b, c \in own : Live(b) /\ Live(c) => b = c
    /\ x.status = "approved" => \A b \in own : Live(b) => b.nanny = x.nanny

OneTime(rows) ==
    \A r, q \in Requests :
        Open(rows[r]) /\ Open(rows[q]) /\ rows[r].job = rows[q].job => rows[r].window = rows[q].window

Good(rows, bs) ==
    /\ DOMAIN rows = Requests /\ bs \subseteq BookingType
    /\ \A r \in Requests : RowGood(r, rows[r], Own(r, bs))
    /\ OneTime(rows)

(* The rows and bookings that a session's commit leaves.                      *)
RowsAfter(s, rows) ==
    [r \in Requests |-> IF r \in DOMAIN s.new THEN Flush(s.seen[r], s.new[r], rows[r]) ELSE rows[r]]
BookingsAfter(s, bs) ==
    (bs \ (s.cancels \cup s.drops)) \cup {Cancelled(b) : b \in s.cancels \cap bs} \cup s.adds

(* The nannies who will be blocked have nothing else at the time.             *)
AfterApart(s, bs) ==
    \A k \in s.after, b \in bs : Live(b) /\ b.nanny = k.nanny => ~Overlaps(b.window, k.window)

Commits(s, rows, bs) ==
    /\ "phase" \in DOMAIN s
    /\ Good(RowsAfter(s, rows), BookingsAfter(s, bs))
    /\ AfterApart(s, bs)

(* The requests that a handler has created so far are all there are of its    *)
(* job, and the next one is new.                                             *)
Creates(s, rows) ==
    /\ DOMAIN s = {"phase", "todo", "job", "next", "parent", "window", "positions"}
    /\ s.todo \subseteq Nannies /\ s.parent \in Parents /\ s.window \in Windows /\ s.positions \in Nat
    /\ s.job \in Nat \ {0} /\ s.next \in Nat /\ s.job <= s.next
    /\ \A r \in Requests : rows[r].status # "none" =>
          r < s.next /\ (rows[r].job = s.job => rows[r].window = s.window)

(* A request that waits for its retry has never been served.                  *)
Ready(r, rows, bs) == r \in Requests /\ rows[r].status # "none" /\ Own(r, bs) = {}

(* What a retry has loaded is what is stored.                                *)
Current(known, rows) ==
    DOMAIN known \subseteq Requests /\ \A q \in DOMAIN known : known[q] = rows[q]

RowsOfJob(r, rows) ==
    [q \in {q \in Requests : rows[q].status # "none" /\ rows[q].job = rows[r].job} |-> rows[q]]

Retries(s, rows, bs) ==
    /\ \A r \in s.todo : Ready(r, rows, bs)
    /\ s.phase \in {"retry", "lock"} => Current(s.known, rows)
    /\ s.phase # "retry" => Ready(s.request, rows, bs) /\ s.request \notin s.todo
    /\ s.phase \in {"charge", "take"} => s.rows = RowsOfJob(s.request, rows) /\ ~Filled(s.rows)

SessionFits(s, rows, bs) ==
    /\ s.phase = "commit" => Commits(s, rows, bs)
    /\ s.phase = "block" => "phase" \in DOMAIN s
    /\ s.phase = "create" => Creates(s, rows)
    /\ s.phase \in {"retry", "lock", "charge", "take"} => Retries(s, rows, bs)

DeskInv ==
    /\ Good(row, bookings)
    /\ DOMAIN charges = Requests /\ DOMAIN sess = Workers
    /\ \A w \in Workers : SessionFits(sess[w], row, bookings)

(* One handler is at work at a time.                                         *)
Alone == \A v, w \in Workers : v = w

----------------------------------------------------------------------------
(* Rows                                                                      *)

LEMMA NoRowTyped == NoRow \in RowType
  BY DeskTyped DEF NoRow, RowType, Statuses

(* A session that has read the row writes what it means to.                   *)
LEMMA FlushWrites ==
    ASSUME NEW x \in RowType, NEW y \in RowType
    PROVE  Flush(x, y, x) = y
  <1>1. DOMAIN x = DOMAIN y
    BY DEF RowType
  <1>2. y = [c \in DOMAIN y |-> y[c]]
    BY DEF RowType
  <1>3. Flush(x, y, x) = [c \in DOMAIN x |-> y[c]]
    BY DEF Flush
  <1> QED
    BY <1>1, <1>2, <1>3

LEMMA RowsWritten ==
    ASSUME NEW rows, NEW s, DOMAIN rows = Requests, \A r \in Requests : rows[r] \in RowType,
           DOMAIN s.new \subseteq Requests,
           \A r \in DOMAIN s.new : s.seen[r] = rows[r] /\ s.new[r] \in RowType
    PROVE  /\ DOMAIN RowsAfter(s, rows) = Requests
           /\ \A r \in Requests :
                 RowsAfter(s, rows)[r] = IF r \in DOMAIN s.new THEN s.new[r] ELSE rows[r]
  BY FlushWrites DEF RowsAfter

(* What a handler does to a request that it does not approve.                 *)
Follows(x, y) ==
    \/ y = x
    \/ /\ x.status # "none" /\ y \in RowType
       /\ y.job = x.job /\ y.parent = x.parent /\ y.nanny = x.nanny /\ y.window \in Windows
       /\ y.status \in {x.status, "rejected", "cancelled"}

(* Bookings are cancelled, or replaced by V of them, none is added.           *)
LEMMA FollowsGood ==
    ASSUME NEW r, NEW x, NEW y, NEW own, NEW owns, NEW V, RowGood(r, x, own), Follows(x, y),
           own = {} => owns = {},
           \A b \in owns : Live(b) => \E c \in own : Live(c) /\ b = V[c] /\ b.nanny = c.nanny
    PROVE  RowGood(r, y, owns)
  <1>1. \A b, c \in owns : Live(b) /\ Live(c) => b = c
    BY DEF RowGood
  <1>2. CASE y = x
    BY <1>1, <1>2 DEF RowGood
  <1>3. CASE y # x
    <2>1. /\ x.status # "none" /\ y \in RowType
          /\ y.job = x.job /\ y.parent = x.parent /\ y.nanny = x.nanny /\ y.window \in Windows
          /\ y.status \in {x.status, "rejected", "cancelled"}
      BY <1>3 DEF Follows
    <2>2. y.status = "approved" => \A b \in owns : Live(b) => b.nanny = y.nanny
      BY <2>1 DEF RowGood
    <2> QED
      BY <1>1, <2>1, <2>2 DEF RowGood
  <1> QED
    BY <1>2, <1>3

(* A request is approved with at most one booking, of the nanny it names.     *)
LEMMA ApprovedGood ==
    ASSUME NEW r, NEW x, NEW y, NEW own, NEW owns, RowGood(r, x, own), x.status # "none",
           y \in RowType, y.job = x.job, y.parent = x.parent, y.nanny \in Nannies,
           y.window = x.window, y.status \in {"approved", "rejected"},
           \A b, c \in owns : Live(b) /\ Live(c) => b = c,
           y.status = "approved" => \A b \in owns : Live(b) => b.nanny = y.nanny
    PROVE  RowGood(r, y, owns)
  BY DEF RowGood

(* No request is opened, and open ones stay where they are.                   *)
LEMMA OneTimeKept ==
    ASSUME NEW rows, NEW new, OneTime(rows),
           \A r \in Requests : Open(new[r]) =>
              Open(rows[r]) /\ new[r].job = rows[r].job /\ new[r].window = rows[r].window
    PROVE  OneTime(new)
  BY DEF OneTime

LEMMA Untouched ==
    ASSUME NEW rows, NEW bs, Good(rows, bs)
    PROVE  \A r \in Requests : /\ rows[r] \in RowType /\ RowGood(r, rows[r], Own(r, bs))
                               /\ rows[r].job \in Nat
  BY DEF Good, RowGood, RowType

----------------------------------------------------------------------------
(* Ids                                                                       *)

LEMMA Smallest ==
    ASSUME NEW S, IsFiniteSet(S), NEW D \in SUBSET SUBSET S, D # {}
    PROVE  \E s \in D : \A t \in D : <<t, s>> \notin StrictSubsetOrdering(S)
  <1>1. IsWellFoundedOn(StrictSubsetOrdering(S), SUBSET S)
    BY FS_FiniteSubsetsOfFinite, FS_StrictSubsetOrderingWellFounded
  <1> QED
    BY <1>1, WFMin, Zenon

(* A finite set of numbers has a greatest one.                                *)
LEMMA Greatest ==
    ASSUME NEW S, IsFiniteSet(S), S \subseteq Nat, S # {}
    PROVE  Max(S) \in S /\ \A y \in S : Max(S) >= y
  <1> PICK D : D = {s \in SUBSET S : s # {} /\ ~\E x \in s : \A y \in s : x >= y}
    OBVIOUS
  <1>1. ASSUME D # {} PROVE FALSE
    <2>1. D \in SUBSET SUBSET S
      OBVIOUS
    <2>2. PICK s \in D : \A t \in D : <<t, s>> \notin StrictSubsetOrdering(S)
      BY <1>1, <2>1, Smallest
    <2>3. PICK x \in s : TRUE
      OBVIOUS
    <2>4. s \ {x} # {}
      BY <2>2, <2>3
    <2>5. <<s \ {x}, s>> \in StrictSubsetOrdering(S)
      BY <2>2, <2>3 DEF StrictSubsetOrdering
    <2>6. s \ {x} \notin D
      BY <2>2, <2>5
    <2>7. PICK z \in s \ {x} : \A y \in s \ {x} : z >= y
      BY <2>4, <2>6
    <2>8. x \in Nat /\ z \in Nat /\ \A y \in s : y \in Nat
      BY <2>2, <2>3, <2>7
    <2>9. CASE x >= z
      <3>1. \A y \in s : x >= y
        BY <2>7, <2>8, <2>9
      <3> QED
        BY <2>2, <2>3, <3>1
    <2>10. CASE z >= x
      <3>1. \A y \in s : z >= y
        BY <2>7, <2>8, <2>10
      <3> QED
        BY <2>2, <2>7, <3>1
    <2> QED
      BY <2>8, <2>9, <2>10
  <1>2. \E x \in S : \A y \in S : x >= y
    BY <1>1
  <1> QED
    BY <1>2 DEF Max

(* Ids are not given twice.                                                  *)
LEMMA NextIsNew == NextId \in Nat \ {0} /\ \A r \in Used : r < NextId
  <1>1. IsFiniteSet(Used \cup {0}) /\ Used \cup {0} \subseteq Nat
    <2>1. IsFiniteSet(Used)
      BY DeskTyped, FS_Subset DEF Used
    <2>2. IsFiniteSet(Used \cup {0})
      BY <2>1, FS_AddElement
    <2>3. Used \subseteq Nat
      BY DeskTyped DEF Used
    <2> QED
      BY <2>2, <2>3
  <1>2. /\ Max(Used \cup {0}) \in Used \cup {0}
        /\ \A y \in Used \cup {0} : Max(Used \cup {0}) >= y
    BY <1>1, Greatest
  <1> QED
    BY <1>1, <1>2 DEF NextId

----------------------------------------------------------------------------
(* What a handler means to commit                                            *)

(* The row r as a session writes it.                                          *)
Meant(s, r) == IF r \in DOMAIN s.new THEN s.new[r] ELSE row[r]

Reads(s) ==
    /\ DOMAIN s.new \subseteq Requests
    /\ \A r \in DOMAIN s.new : s.seen[r] = row[r] /\ s.new[r] \in RowType

(* A commit is good if it leaves every request good and opens none.           *)
LEMMA MeantGood ==
    ASSUME Good(row, bookings), NEW s, Reads(s), BookingsAfter(s, bookings) \subseteq BookingType,
           \A r \in Requests :
              /\ RowGood(r, Meant(s, r), Own(r, BookingsAfter(s, bookings)))
              /\ Open(Meant(s, r)) => /\ Open(row[r]) /\ Meant(s, r).job = row[r].job
                                      /\ Meant(s, r).window = row[r].window
    PROVE  Good(RowsAfter(s, row), BookingsAfter(s, bookings))
  <1>1. /\ DOMAIN RowsAfter(s, row) = Requests
        /\ \A r \in Requests : RowsAfter(s, row)[r] = Meant(s, r)
    BY Untouched, RowsWritten DEF Good, Reads, Meant
  <1>2. OneTime(RowsAfter(s, row))
    <2>1. OneTime(row)
      BY DEF Good
    <2> QED
      BY <1>1, <2>1, OneTimeKept
  <1> QED
    BY <1>1, <1>2 DEF Good

(* Only the session of one worker changes.                                    *)
LEMMA Begun ==
    ASSUME DeskInv, NEW w \in Workers, NEW s, Begin(w, s), SessionFits(s, row, bookings)
    PROVE  DeskInv'
  <1>1. UNCHANGED <<row, bookings, charges>> /\ sess' = [sess EXCEPT ![w] = s]
    BY DEF Begin
  <1>2. \A v \in Workers : sess'[v] = s \/ sess'[v] = sess[v]
    BY <1>1 DEF DeskInv
  <1>3. DOMAIN sess' = Workers
    BY <1>1 DEF DeskInv
  <1> QED
    BY <1>1, <1>2, <1>3 DEF DeskInv

LEMMA CommitFits ==
    ASSUME NEW s, s.phase = "commit", "phase" \in DOMAIN s,
           Good(RowsAfter(s, row), BookingsAfter(s, bookings)), AfterApart(s, bookings)
    PROVE  SessionFits(s, row, bookings)
  BY DEF SessionFits, Commits

----------------------------------------------------------------------------
(* The desk                                                                  *)

LEMMA ApproveGood ==
    ASSUME DeskInv, NEW w \in Workers, NEW r \in Used, Approve(w, r)
    PROVE  DeskInv'
  <1> DEFINE x == row[r]
             s == [Changing({r}, LAMBDA y : [y EXCEPT !.status = "approved"]) EXCEPT
                      !.adds = {BookingOf(r, x, "approved")},
                      !.after = {NewBlock(x.nanny, x.window, "admin")}]
             bs == BookingsAfter(s, bookings)
  <1>1. /\ DOMAIN s.new = {r} /\ s.seen[r] = x /\ s.new[r] = [x EXCEPT !.status = "approved"]
        /\ s.cancels = {} /\ s.drops = {} /\ s.adds = {BookingOf(r, x, "approved")}
        /\ s.after = {NewBlock(x.nanny, x.window, "admin")}
        /\ s.phase = "commit" /\ "phase" \in DOMAIN s
    BY DEF Changing, Nothing
  <1>2. Open(x) /\ Available(x.nanny, x.window, x.parent) /\ Begin(w, s)
    BY DEF Approve
  <1>3. r \in Requests /\ x \in RowType /\ RowGood(r, x, Own(r, bookings)) /\ Good(row, bookings)
    BY Untouched DEF DeskInv, Used
  <1>4. Own(r, bookings) = {} /\ x.parent \in Parents /\ x.nanny \in Nannies /\ x.window \in Windows
    BY <1>2, <1>3 DEF RowGood, Open
  <1>5. bs = bookings \cup {BookingOf(r, x, "approved")}
    BY <1>1 DEF BookingsAfter
  <1> HIDE DEF s
  <1>6. Reads(s)
    BY <1>1, <1>3 DEF Reads, RowType, Statuses
  <1>7. bs \subseteq BookingType
    BY <1>3, <1>4, <1>5 DEF Good, BookingType, BookingOf
  <1>8. \A q \in Requests : q # r => Own(q, bs) = Own(q, bookings) /\ Meant(s, q) = row[q]
    BY <1>1, <1>5 DEF Own, BookingOf, Meant
  <1>9. RowGood(r, Meant(s, r), Own(r, bs))
    <2>1. Own(r, bs) = {BookingOf(r, x, "approved")}
      BY <1>4, <1>5 DEF Own, BookingOf
    <2>2. Meant(s, r) = [x EXCEPT !.status = "approved"]
      BY <1>1 DEF Meant
    <2> QED
      BY <1>2, <1>3, <1>4, <2>1, <2>2 DEF RowGood, BookingOf, RowType, Statuses, Open
  <1>10. ~Open(Meant(s, r))
    BY <1>1, <1>3 DEF Meant, Open, RowType
  <1>11. Good(RowsAfter(s, row), bs)
    BY <1>3, <1>6, <1>7, <1>8, <1>9, <1>10, MeantGood, Untouched
  <1>12. AfterApart(s, bookings)
    BY <1>1, <1>2 DEF AfterApart, NewBlock, Available
  <1> QED
    BY <1>1, <1>2, <1>11, <1>12, CommitFits, Begun

LEMMA RejectGood ==
    ASSUME DeskInv, NEW w \in Workers, NEW r \in Used, Reject(w, r)
    PROVE  DeskInv'
  <1> DEFINE x == row[r]
  <1>2. PICK n \in Nannies \cup {Nobody} :
           Begin(w, [Changing({r}, LAMBDA y : [y EXCEPT !.status = "rejected"]) EXCEPT
                       !.adds = IF n = Nobody THEN {}
                                ELSE {[BookingOf(r, x, "pending") EXCEPT !.nanny = n]}])
    BY DEF Reject
  <1> DEFINE new == [BookingOf(r, x, "pending") EXCEPT !.nanny = n]
             adds == IF n = Nobody THEN {} ELSE {new}
             s == [Changing({r}, LAMBDA y : [y EXCEPT !.status = "rejected"]) EXCEPT !.adds = adds]
             bs == BookingsAfter(s, bookings)
  <1>1. /\ DOMAIN s.new = {r} /\ s.seen[r] = x /\ s.new[r] = [x EXCEPT !.status = "rejected"]
        /\ s.cancels = {} /\ s.drops = {} /\ s.adds = adds /\ s.after = {}
        /\ s.phase = "commit" /\ "phase" \in DOMAIN s
    BY DEF Changing, Nothing
  <1>3. r \in Requests /\ x \in RowType /\ RowGood(r, x, Own(r, bookings)) /\ Good(row, bookings)
    BY Untouched DEF DeskInv, Used
  <1>4. /\ Own(r, bookings) = {} /\ x.parent \in Parents /\ x.nanny \in Nannies
        /\ x.window \in Windows /\ Open(x)
    BY <1>3 DEF RowGood, Open, Reject
  <1>5. bs = bookings \cup adds /\ Begin(w, s)
    BY <1>1, <1>2 DEF BookingsAfter
  <1> HIDE DEF s
  <1>6. Reads(s)
    BY <1>1, <1>3 DEF Reads, RowType, Statuses
  <1>a. new.request = r /\ (n # Nobody => new \in BookingType)
    BY <1>3, <1>4 DEF BookingType, BookingOf
  <1> HIDE DEF new
  <1>7. bs \subseteq BookingType
    BY <1>3, <1>5, <1>a DEF Good
  <1>8. \A q \in Requests : q # r => Own(q, bs) = Own(q, bookings) /\ Meant(s, q) = row[q]
    BY <1>1, <1>5, <1>a DEF Own, Meant
  <1>9. RowGood(r, Meant(s, r), Own(r, bs))
    <2>1. Own(r, bs) \subseteq {new}
      BY <1>4, <1>5 DEF Own
    <2>2. Meant(s, r) = [x EXCEPT !.status = "rejected"]
      BY <1>1 DEF Meant
    <2> QED
      BY <1>3, <1>4, <2>1, <2>2 DEF RowGood, RowType, Statuses, Open
  <1>10. ~Open(Meant(s, r))
    BY <1>1, <1>3 DEF Meant, Open, RowType
  <1>11. Good(RowsAfter(s, row), bs)
    BY <1>3, <1>6, <1>7, <1>8, <1>9, <1>10, MeantGood, Untouched
  <1>12. AfterApart(s, bookings)
    BY <1>1 DEF AfterApart
  <1> QED
    BY <1>1, <1>5, <1>11, <1>12, CommitFits, Begun

(* Each of the nanny's bookings there is kept or replaced, r has one after.   *)
LEMMA AssignGood ==
    ASSUME DeskInv, NEW w \in Workers, NEW r \in Used, NEW n \in Nannies, Assign(w, r, n)
    PROVE  DeskInv'
  <1> DEFINE x == row[r]
             moved == x.nanny # n
             cancels == IF moved THEN {b \in Related(r) : Live(b)} ELSE {}
             own == {b \in bookings : b.request = r}
             kept == {b \in own \ cancels : Live(b)}
             fallback == {b \in bookings \ cancels :
                            /\ own = {} /\ Live(b) /\ b.parent = x.parent /\ b.nanny = n
                            /\ Touches(b.window, x.window)}
             reused == kept \cup fallback
             new == [BookingOf(r, x, "approved") EXCEPT !.nanny = n]
             Hers(b) == [b EXCEPT !.nanny = n, !.status = "approved"]
             adds == IF reused = {} THEN {new} ELSE {Hers(b) : b \in reused}
             frees == IF moved THEN AdminBlocks(x.nanny, x.window) ELSE {}
             s == [Nothing EXCEPT
                     !.seen = [q \in Job(x.job) |-> row[q]],
                     !.new = [q \in Job(x.job) |-> Assigned(r, n, q, row[q])],
                     !.cancels = cancels, !.frees = frees, !.drops = reused, !.adds = adds,
                     !.after = {NewBlock(n, x.window, "admin")}]
             bs == BookingsAfter(s, bookings)
             gone == {Cancelled(b) : b \in cancels \cap bookings}
  <1>1. /\ DOMAIN s.new = Job(x.job)
        /\ \A q \in Job(x.job) : s.seen[q] = row[q] /\ s.new[q] = Assigned(r, n, q, row[q])
        /\ s.cancels = cancels /\ s.drops = reused /\ s.adds = adds
        /\ s.after = {NewBlock(n, x.window, "admin")}
        /\ s.phase = "commit" /\ "phase" \in DOMAIN s
    BY DEF Nothing
  <1>2. /\ Exists(r) /\ x.status # "cancelled" /\ Available(n, x.window, x.parent)
        /\ Begin(w, s)
    BY DEF Assign
  <1>3. r \in Requests /\ x \in RowType /\ RowGood(r, x, Own(r, bookings)) /\ Good(row, bookings)
    BY Untouched DEF DeskInv, Used
  <1>4. x.parent \in Parents /\ x.window \in Windows /\ x.job \in 1..r /\ own = Own(r, bookings)
    BY <1>2, <1>3 DEF RowGood, Exists, Own
  <1>5. bs = (bookings \ (cancels \cup reused)) \cup gone \cup adds
    BY <1>1 DEF BookingsAfter
  <1> HIDE DEF s
  <1>6. /\ cancels \subseteq bookings /\ reused \subseteq bookings
        /\ bookings \subseteq BookingType
    BY <1>3 DEF Related, Good
  <1>7. /\ \A b \in reused : /\ Hers(b) \in BookingType /\ Hers(b).request = b.request
                             /\ Hers(b).nanny = n /\ Live(b)
        /\ new \in BookingType /\ new.request = r /\ new.nanny = n
        /\ \A b \in cancels : /\ Cancelled(b) \in BookingType /\ Cancelled(b).request = b.request
                              /\ ~Live(Cancelled(b))
    <2>1. \A b \in reused : b \in BookingType /\ Live(b)
      BY <1>6
    <2>2. \A b \in cancels : b \in BookingType
      BY <1>6
    <2> HIDE DEF cancels, reused, fallback, kept, own
    <2>3. \A b \in reused : Hers(b) \in BookingType /\ Hers(b).request = b.request /\ Hers(b).nanny = n
      BY <2>1 DEF BookingType
    <2>4. new \in BookingType /\ new.request = r /\ new.nanny = n
      BY <1>3, <1>4 DEF BookingType, BookingOf
    <2>5. \A b \in cancels : /\ Cancelled(b) \in BookingType /\ Cancelled(b).request = b.request
                             /\ ~Live(Cancelled(b))
      BY <2>2 DEF BookingType, Cancelled, Live
    <2> QED
      BY <2>1, <2>3, <2>4, <2>5
  <1>8. \A b \in reused : b.nanny = n \/ b.request = r
    OBVIOUS
  <1>c. \A b \in gone : b \in BookingType /\ ~Live(b) /\ \E c \in cancels : b.request = c.request
    <2> SUFFICES ASSUME NEW b \in gone
                 PROVE  b \in BookingType /\ ~Live(b) /\ \E c \in cancels : b.request = c.request
      OBVIOUS
    <2> HIDE DEF cancels
    <2>1. PICK c \in cancels : b = Cancelled(c)
      OBVIOUS
    <2> QED
      BY <1>7, <2>1
  <1>a. /\ \A b \in adds : \/ b = new
                           \/ \E c \in reused : b = Hers(c)
        /\ kept # {} => \A b \in adds : \E c \in reused : b = Hers(c)
        /\ kept # {} => reused = kept
    <2>1. kept # {} => reused = kept
      OBVIOUS
    <2>2. kept # {} => reused # {}
      OBVIOUS
    <2> HIDE DEF kept, reused, new, Hers
    <2>3. reused # {} => \A b \in adds : \E c \in reused : b = Hers(c)
      OBVIOUS
    <2>4. reused = {} => \A b \in adds : b = new
      OBVIOUS
    <2> QED
      BY <2>1, <2>2, <2>3, <2>4
  <1>b. /\ \A b \in Own(r, bookings) : Live(b) => b \in cancels \cup reused
        /\ kept \subseteq Own(r, bookings) /\ \A c \in kept : Live(c)
        /\ \A c \in reused : c.request = r => c \in kept
    BY <1>4 DEF Related, Own
  <1> HIDE DEF cancels, kept, fallback, reused, new, Hers, adds, gone
  <1>9. bs \subseteq BookingType
    BY <1>5, <1>6, <1>7, <1>a, <1>c
  <1>10. \A q \in Job(x.job) : /\ q \in Requests /\ row[q] \in RowType /\ row[q].status # "none"
                               /\ RowGood(q, row[q], Own(q, bookings))
    BY <1>3, Untouched DEF Job, Exists
  <1>11. \A q \in Job(x.job) : q # r => Follows(row[q], Assigned(r, n, q, row[q]))
    <2> SUFFICES ASSUME NEW q \in Job(x.job), q # r
                 PROVE  Follows(row[q], Assigned(r, n, q, row[q]))
      OBVIOUS
    <2> DEFINE z == row[q]
    <2>1. z \in RowType /\ z.status # "none" /\ z.window \in Windows
      BY <1>10 DEF RowGood
    <2> HIDE DEF z
    <2>2. CASE z.status = "cancelled"
      BY <2>2 DEF Assigned, Follows, z
    <2>3. CASE z.status # "cancelled"
      <3>1. Assigned(r, n, q, z) = [z EXCEPT !.status = "rejected", !.reason = "filled"]
        BY <2>3 DEF Assigned
      <3> QED
        BY <2>1, <3>1 DEF Follows, RowType, Statuses, z
    <2> QED
      BY <2>2, <2>3
  <1>12. r \in Job(x.job) /\ Assigned(r, n, r, x) \in RowType
    BY <1>2, <1>3 DEF Assigned, RowType, Statuses, Job
  <1>13. Reads(s)
    <2>1. \A q \in Job(x.job) : Assigned(r, n, q, row[q]) \in RowType
      BY <1>10, <1>11, <1>12 DEF Follows
    <2> QED
      BY <1>1, <1>10, <2>1 DEF Reads
  <1>14. \A q \in Requests : /\ q # r => Follows(row[q], Meant(s, q))
                             /\ Meant(s, r) = Assigned(r, n, r, x)
    <2>1. \A q \in Requests : q \notin Job(x.job) => Meant(s, q) = row[q]
      BY <1>1 DEF Meant
    <2>2. \A q \in Job(x.job) : Meant(s, q) = Assigned(r, n, q, row[q])
      BY <1>1 DEF Meant
    <2> QED
      BY <1>11, <1>12, <2>1, <2>2 DEF Follows
  <1>15. ASSUME NEW q \in Requests, q # r
         PROVE  RowGood(q, Meant(s, q), Own(q, bs))
    <2> DEFINE V == [b \in bookings |-> IF b \in reused THEN Hers(b) ELSE b]
    <2>1. Own(q, bookings) = {} => Own(q, bs) = {}
      BY <1>5, <1>6, <1>7, <1>15, <1>a, <1>c DEF Own
    <2>2. ASSUME NEW b \in Own(q, bs), Live(b)
          PROVE  \E c \in Own(q, bookings) : Live(c) /\ b = V[c] /\ b.nanny = c.nanny
      <3>1. CASE b \in bookings \ (cancels \cup reused)
        BY <2>2, <3>1 DEF Own
      <3>2. CASE b \in gone
        BY <1>a, <1>c, <2>2, <3>2
      <3>3. CASE b \in adds
        <4>1. b.request = q /\ b # new
          BY <1>7, <1>15, <2>2 DEF Own
        <4>2. PICK c \in reused : b = Hers(c)
          BY <1>a, <1>c, <3>3, <4>1
        <4>3. c.request = q /\ c.nanny = n /\ Live(c) /\ c \in bookings /\ b.nanny = n
          BY <1>6, <1>7, <1>8, <1>15, <4>1, <4>2
        <4>4. V[c] = Hers(c)
          BY <4>2, <4>3
        <4> HIDE DEF V
        <4> QED
          BY <4>2, <4>3, <4>4 DEF Own
      <3> QED
        BY <1>5, <2>2, <3>1, <3>2, <3>3 DEF Own
    <2>3. RowGood(q, row[q], Own(q, bookings)) /\ Follows(row[q], Meant(s, q))
      BY <1>3, <1>14, <1>15, Untouched
    <2> HIDE DEF V
    <2> QED
      BY <2>1, <2>2, <2>3, FollowsGood
  <1>16. RowGood(r, Meant(s, r), Own(r, bs))
    <2> DEFINE y == Meant(s, r)
    <2>1. /\ y \in RowType /\ y.job = x.job /\ y.parent = x.parent /\ y.nanny = n
          /\ y.window = x.window /\ y.status = "approved"
      BY <1>3, <1>12, <1>14 DEF Assigned, RowType
    <2>2. ASSUME NEW b \in Own(r, bs), Live(b)
          PROVE  b \in adds
      <3>1. b \notin gone
        BY <1>a, <1>c, <2>2
      <3>2. b \notin bookings \ (cancels \cup reused)
        BY <1>b, <2>2 DEF Own
      <3> QED
        BY <1>5, <2>2, <3>1, <3>2 DEF Own
    <2>3. \A b, c \in Own(r, bs) : Live(b) /\ Live(c) => b = c
      <3>1. \A b, c \in kept : b = c
        BY <1>3, <1>b DEF RowGood
      <3>2. CASE kept = {}
        <4>1. \A b \in Own(r, bs) : Live(b) => b = new
          BY <1>7, <1>a, <1>c, <1>b, <2>2, <3>2 DEF Own
        <4> QED
          BY <4>1
      <3>3. CASE kept # {}
        BY <1>a, <1>c, <2>2, <3>1, <3>3
      <3> QED
        BY <3>2, <3>3
    <2> HIDE DEF y
    <2>4. \A b \in Own(r, bs) : Live(b) => b.nanny = n
      BY <1>7, <1>a, <1>c, <2>2
    <2> QED
      BY <1>2, <1>3, <2>1, <2>3, <2>4, ApprovedGood DEF Exists, y
  <1>17. \A q \in Requests : Open(Meant(s, q)) =>
            /\ Open(row[q]) /\ Meant(s, q).job = row[q].job /\ Meant(s, q).window = row[q].window
    <2>1. \A q \in Requests : q \notin Job(x.job) => Meant(s, q) = row[q]
      BY <1>1 DEF Meant
    <2>2. \A q \in Job(x.job) : Meant(s, q) = Assigned(r, n, q, row[q])
      BY <1>1 DEF Meant
    <2>3. \A q \in Job(x.job) : ~Open(Assigned(r, n, q, row[q]))
      BY <1>10 DEF Open, Assigned, RowType
    <2> QED
      BY <2>1, <2>2, <2>3
  <1>18. Good(RowsAfter(s, row), bs)
    BY <1>3, <1>9, <1>13, <1>15, <1>16, <1>17, MeantGood
  <1>19. AfterApart(s, bookings)
    BY <1>1, <1>2 DEF AfterApart, NewBlock, Available
  <1> QED
    BY <1>1, <1>2, <1>18, <1>19, CommitFits, Begun

LEMMA CancelJobGood ==
    ASSUME DeskInv, NEW w \in Workers, NEW j, CancelJob(w, j)
    PROVE  DeskInv'
  <1> DEFINE rs == {r \in Job(j) : row[r].status # "cancelled"}
             cancels == UNION {{b \in Related(r) : Live(b)} : r \in rs}
             frees == UNION {AdminBlocks(row[r].nanny, row[r].window) : r \in rs}
             s == [Changing(rs, LAMBDA x : [x EXCEPT !.status = "cancelled"]) EXCEPT
                     !.cancels = cancels, !.frees = frees]
             bs == BookingsAfter(s, bookings)
             gone == {Cancelled(b) : b \in cancels \cap bookings}
  <1>1. /\ DOMAIN s.new = rs
        /\ \A r \in rs : s.seen[r] = row[r] /\ s.new[r] = [row[r] EXCEPT !.status = "cancelled"]
        /\ s.cancels = cancels /\ s.drops = {} /\ s.adds = {} /\ s.after = {}
        /\ s.phase = "commit" /\ "phase" \in DOMAIN s
    BY DEF Changing, Nothing
  <1>2. Begin(w, s)
    BY DEF CancelJob
  <1>3. bs = (bookings \ cancels) \cup gone
    BY <1>1 DEF BookingsAfter
  <1> HIDE DEF s, cancels
  <1>4. Good(row, bookings) /\ bookings \subseteq BookingType
    BY DEF DeskInv, Good
  <1>5. ASSUME NEW b \in gone
        PROVE  b \in BookingType /\ ~Live(b) /\ \E c \in bookings : b.request = c.request
    <2>1. PICK c \in bookings : b = Cancelled(c)
      OBVIOUS
    <2> QED
      BY <1>4, <2>1 DEF Cancelled, BookingType, Live
  <1> HIDE DEF gone
  <1>6. bs \subseteq BookingType
    BY <1>3, <1>4, <1>5
  <1>7. \A r \in rs : /\ r \in Requests /\ row[r] \in RowType /\ row[r].status # "none"
                      /\ RowGood(r, row[r], Own(r, bookings))
    BY <1>4, Untouched DEF Job, Exists
  <1> HIDE DEF rs
  <1>a. ASSUME NEW r \in rs
        PROVE  s.new[r] \in RowType /\ ~Open(s.new[r])
    <2>1. s.new[r] = [row[r] EXCEPT !.status = "cancelled"] /\ row[r] \in RowType
      BY <1>1, <1>7
    <2> QED
      BY <2>1 DEF RowType, Statuses, Open
  <1>8. Reads(s)
    BY <1>1, <1>7, <1>a DEF Reads
  <1>9. \A r \in Requests : Follows(row[r], Meant(s, r))
    <2>1. \A r \in rs : Follows(row[r], [row[r] EXCEPT !.status = "cancelled"])
      BY <1>7 DEF Follows, RowType, Statuses, RowGood
    <2>2. \A r \in rs : Follows(row[r], Meant(s, r))
      BY <1>1, <2>1 DEF Meant
    <2>3. \A r \in Requests \ rs : Meant(s, r) = row[r]
      BY <1>1 DEF Meant
    <2> QED
      BY <2>2, <2>3 DEF Follows
  <1>10. ASSUME NEW r \in Requests
         PROVE  RowGood(r, Meant(s, r), Own(r, bs))
    <2> DEFINE V == [b \in bookings |-> b]
    <2>1. Own(r, bookings) = {} => Own(r, bs) = {}
      BY <1>3, <1>5 DEF Own
    <2>2. \A b \in Own(r, bs) : Live(b) => b \in Own(r, bookings)
      BY <1>3, <1>5 DEF Own
    <2>3. \A b \in Own(r, bookings) : V[b] = b
      BY DEF Own
    <2>4. RowGood(r, row[r], Own(r, bookings)) /\ Follows(row[r], Meant(s, r))
      BY <1>4, <1>9, Untouched
    <2> HIDE DEF V
    <2> QED
      BY <2>1, <2>2, <2>3, <2>4, FollowsGood
  <1>11. \A r \in Requests : Open(Meant(s, r)) =>
            /\ Open(row[r]) /\ Meant(s, r).job = row[r].job /\ Meant(s, r).window = row[r].window
    BY <1>1, <1>a DEF Meant
  <1>12. Good(RowsAfter(s, row), bs)
    BY <1>4, <1>6, <1>8, <1>10, <1>11, MeantGood
  <1>13. AfterApart(s, bookings)
    BY <1>1 DEF AfterApart
  <1> QED
    BY <1>1, <1>2, <1>12, <1>13, CommitFits, Begun

----------------------------------------------------------------------------
(* The parent                                                                *)

(* Every open request of the job moves, so that they stay together.           *)
LEMMA UpdateScheduleGood ==
    ASSUME DeskInv, NEW w \in Workers, NEW j, NEW win \in Windows, UpdateSchedule(w, j, win)
    PROVE  DeskInv'
  <1> DEFINE rs == {r \in Job(j) : Open(row[r])}
             s == Changing(rs, LAMBDA x : [x EXCEPT !.window = win])
             bs == BookingsAfter(s, bookings)
  <1>1. /\ DOMAIN s.new = rs
        /\ \A r \in rs : s.seen[r] = row[r] /\ s.new[r] = [row[r] EXCEPT !.window = win]
        /\ s.cancels = {} /\ s.drops = {} /\ s.adds = {} /\ s.after = {}
        /\ s.phase = "commit" /\ "phase" \in DOMAIN s
    BY DEF Changing, Nothing
  <1>2. Begin(w, s)
    BY DEF UpdateSchedule
  <1>3. bs = bookings
    BY <1>1 DEF BookingsAfter
  <1> HIDE DEF s
  <1>4. Good(row, bookings) /\ bookings \subseteq BookingType /\ OneTime(row)
    BY DEF DeskInv, Good
  <1>5. \A r \in Requests : Open(row[r]) /\ row[r].job = j <=> r \in rs
    BY DEF Job, Exists, Open
  <1>6. \A r \in rs : /\ r \in Requests /\ row[r] \in RowType /\ row[r].status # "none"
                      /\ RowGood(r, row[r], Own(r, bookings)) /\ row[r].job = j
    BY <1>4, Untouched DEF Job, Exists
  <1> HIDE DEF rs
  <1>a. ASSUME NEW r \in rs
        PROVE  s.new[r] \in RowType /\ s.new[r].window = win /\ s.new[r].job = j
    <2>1. s.new[r] = [row[r] EXCEPT !.window = win] /\ row[r] \in RowType /\ row[r].job = j
      BY <1>1, <1>6
    <2>2. win \in Int
      BY DeskTyped
    <2> QED
      BY <2>1, <2>2 DEF RowType
  <1>7. Reads(s)
    BY <1>1, <1>6, <1>a DEF Reads
  <1>8. \A r \in Requests : Follows(row[r], Meant(s, r))
    <2>1. \A r \in rs : Follows(row[r], [row[r] EXCEPT !.window = win])
      BY <1>6, DeskTyped DEF Follows, RowType, RowGood
    <2>2. \A r \in rs : Follows(row[r], Meant(s, r))
      BY <1>1, <2>1 DEF Meant
    <2>3. \A r \in Requests \ rs : Meant(s, r) = row[r]
      BY <1>1 DEF Meant
    <2> QED
      BY <2>2, <2>3 DEF Follows
  <1>9. ASSUME NEW r \in Requests
        PROVE  RowGood(r, Meant(s, r), Own(r, bs))
    <2> DEFINE V == [b \in bookings |-> b]
    <2>1. \A b \in Own(r, bookings) : V[b] = b
      BY DEF Own
    <2>2. RowGood(r, row[r], Own(r, bookings)) /\ Follows(row[r], Meant(s, r))
      BY <1>4, <1>8, Untouched
    <2> HIDE DEF V
    <2> QED
      BY <1>3, <2>1, <2>2, FollowsGood
  <1>10. /\ DOMAIN RowsAfter(s, row) = Requests
         /\ \A r \in Requests : RowsAfter(s, row)[r] = Meant(s, r)
    BY <1>4, <1>7, Untouched, RowsWritten DEF Good, Reads, Meant
  <1>11. OneTime(RowsAfter(s, row))
    <2>1. ASSUME NEW r \in rs
          PROVE  /\ RowsAfter(s, row)[r].window = win /\ RowsAfter(s, row)[r].job = j
      BY <1>1, <1>6, <1>10, <1>a DEF Meant
    <2>2. \A r \in Requests \ rs : RowsAfter(s, row)[r] = row[r]
      BY <1>1, <1>10 DEF Meant
    <2> QED
      BY <1>4, <1>5, <2>1, <2>2 DEF OneTime
  <1>12. Good(RowsAfter(s, row), bs)
    BY <1>3, <1>4, <1>9, <1>10, <1>11 DEF Good
  <1>13. AfterApart(s, bookings)
    BY <1>1 DEF AfterApart
  <1> QED
    BY <1>1, <1>2, <1>12, <1>13, CommitFits, Begun

LEMMA CreatePaidGood ==
    ASSUME DeskInv, NEW w \in Workers, NEW p \in Parents, NEW n \in Nannies, NEW win \in Windows,
           CreatePaid(w, p, n, win)
    PROVE  DeskInv'
  <1> DEFINE taken == \E r \in Used : /\ row[r].nanny = n /\ row[r].status \in {"tbc", "approved"}
                                      /\ Overlaps(row[r].window, win)
             status == IF taken THEN "rejected" ELSE "approved"
             x == [NoRow EXCEPT !.status = status, !.paid = ~taken, !.job = NextId, !.parent = p,
                                !.nanny = n, !.window = win, !.positions = 1]
             s == Changing({NextId}, LAMBDA y : x)
             bs == BookingsAfter(s, bookings)
  <1>1. /\ DOMAIN s.new = {NextId} /\ s.seen[NextId] = row[NextId] /\ s.new[NextId] = x
        /\ s.cancels = {} /\ s.drops = {} /\ s.adds = {} /\ s.after = {}
        /\ s.phase = "commit" /\ "phase" \in DOMAIN s
    <2> HIDE DEF x
    <2> QED
      BY DEF Changing, Nothing
  <1>2. Begin(w, s) /\ NextId \in Requests
    BY DEF CreatePaid
  <1>3. bs = bookings
    BY <1>1 DEF BookingsAfter
  <1> HIDE DEF s
  <1>4. Good(row, bookings) /\ bookings \subseteq BookingType
    BY DEF DeskInv, Good
  <1>5. NextId \in Nat \ {0} /\ NextId \in 1..NextId /\ NextId \notin Used
    BY NextIsNew DEF Used
  <1>6. RowGood(NextId, row[NextId], Own(NextId, bookings)) /\ row[NextId].status = "none"
    BY <1>2, <1>4, <1>5, Untouched DEF Used, Exists
  <1>7. Own(NextId, bookings) = {} /\ row[NextId] = NoRow
    BY <1>6 DEF RowGood
  <1>8. /\ x \in RowType /\ x.status \in {"approved", "rejected"} /\ x.job = NextId
        /\ x.parent = p /\ x.nanny = n /\ x.window = win
    <2>1. status \in {"approved", "rejected"} /\ (~taken) \in BOOLEAN
      <3>1. status = "rejected" \/ status = "approved"
        OBVIOUS
      <3> HIDE DEF taken, status
      <3> QED
        BY <3>1
    <2> HIDE DEF status, taken
    <2> QED
      BY <1>5, <2>1, DeskTyped DEF RowType, NoRow, Statuses
  <1> HIDE DEF x
  <1>9. Reads(s)
    BY <1>1, <1>2, <1>7, <1>8 DEF Reads
  <1>10. \A r \in Requests : RowGood(r, Meant(s, r), Own(r, bs))
    <2>1. RowGood(NextId, x, {})
      BY <1>5, <1>8 DEF RowGood
    <2> QED
      BY <1>1, <1>3, <1>4, <1>7, <2>1, Untouched DEF Meant
  <1>11. \A r \in Requests : Open(Meant(s, r)) =>
            /\ Open(row[r]) /\ Meant(s, r).job = row[r].job /\ Meant(s, r).window = row[r].window
    BY <1>1, <1>8 DEF Meant, Open
  <1>12. Good(RowsAfter(s, row), bs)
    BY <1>3, <1>4, <1>9, <1>10, <1>11, MeantGood
  <1>13. AfterApart(s, bookings)
    BY <1>1 DEF AfterApart
  <1> QED
    BY <1>1, <1>2, <1>12, <1>13, CommitFits, Begun

(* The bookings ds are replaced by as, of which no request has more live ones *)
(* or one of another nanny; no row is written.                               *)
LEMMA ReplaceGood ==
    ASSUME DeskInv, NEW w \in Workers, NEW s, Begin(w, s), s.phase = "commit",
           "phase" \in DOMAIN s, DOMAIN s.new = {}, s.after = {}, s.cancels = {},
           s.adds \subseteq BookingType, NEW V,
           \A b \in bookings \ s.drops : V[b] = b,
           \A a \in s.adds : a.request = NoRequest
              \/ \E b \in bookings : /\ b.request = a.request /\ b.nanny = a.nanny /\ a = V[b]
                                     /\ Live(a) => Live(b)
    PROVE  DeskInv'
  <1> DEFINE bs == BookingsAfter(s, bookings)
  <1>1. bs = (bookings \ s.drops) \cup s.adds
    BY DEF BookingsAfter
  <1>2. Good(row, bookings) /\ bookings \subseteq BookingType
    BY DEF DeskInv, Good
  <1>3. Reads(s) /\ \A r \in Requests : Meant(s, r) = row[r]
    BY DEF Reads, Meant
  <1>4. ASSUME NEW r \in Requests
        PROVE  RowGood(r, row[r], Own(r, bs))
    <2>1. r # NoRequest
      BY DeskTyped
    <2>2. \A b \in Own(r, bs) : \E c \in Own(r, bookings) :
             c.nanny = b.nanny /\ b = V[c] /\ (Live(b) => Live(c))
      BY <1>1, <2>1 DEF Own
    <2>3. RowGood(r, row[r], Own(r, bookings)) /\ Follows(row[r], row[r])
      BY <1>2, Untouched DEF Follows
    <2>4. Own(r, bookings) = {} => Own(r, bs) = {}
      BY <2>2
    <2>5. \A b \in Own(r, bs) : Live(b) =>
             \E c \in Own(r, bookings) : Live(c) /\ b = V[c] /\ b.nanny = c.nanny
      BY <2>2
    <2> QED
      BY <2>3, <2>4, <2>5, FollowsGood
  <1>5. Good(RowsAfter(s, row), bs)
    BY <1>1, <1>2, <1>3, <1>4, MeantGood
  <1>6. AfterApart(s, bookings)
    BY DEF AfterApart
  <1> QED
    BY <1>5, <1>6, CommitFits, Begun

LEMMA CreateBookingGood ==
    ASSUME DeskInv, NEW w \in Workers, NEW p \in Parents, NEW n \in Nannies, NEW win \in Windows,
           CreateBooking(w, p, n, win)
    PROVE  DeskInv'
  <1> DEFINE a == [request |-> NoRequest, parent |-> p, nanny |-> n, window |-> win,
                   status |-> "pending"]
             s == [Nothing EXCEPT !.adds = {a}]
             V == [b \in bookings |-> b]
  <1>1. /\ DOMAIN s.new = {} /\ s.cancels = {} /\ s.drops = {} /\ s.adds = {a} /\ s.after = {}
        /\ s.phase = "commit" /\ "phase" \in DOMAIN s /\ Begin(w, s)
    BY DEF Nothing, CreateBooking
  <1>2. a \in BookingType /\ a.request = NoRequest
    BY DEF BookingType
  <1>3. \A b \in bookings : V[b] = b
    OBVIOUS
  <1> HIDE DEF a, s, V
  <1> QED
    BY <1>1, <1>2, <1>3, ReplaceGood

LEMMA UpdateBookingStatusGood ==
    ASSUME DeskInv, NEW w \in Workers, NEW b \in bookings, UpdateBookingStatus(w, b)
    PROVE  DeskInv'
  <1>1. PICK status \in {"accepted", "completed", "cancelled"} :
           /\ <<b.status, status>> \in {<<"pending", "accepted">>, <<"accepted", "completed">>,
                                        <<"accepted", "cancelled">>}
           /\ Begin(w, [Nothing EXCEPT !.drops = {b}, !.adds = {[b EXCEPT !.status = status]}])
    BY DEF UpdateBookingStatus
  <1> DEFINE a == [b EXCEPT !.status = status]
             s == [Nothing EXCEPT !.drops = {b}, !.adds = {a}]
             V == [c \in bookings |-> IF c = b THEN a ELSE c]
  <1>2. /\ DOMAIN s.new = {} /\ s.cancels = {} /\ s.drops = {b} /\ s.adds = {a} /\ s.after = {}
        /\ s.phase = "commit" /\ "phase" \in DOMAIN s /\ Begin(w, s)
    BY <1>1 DEF Nothing
  <1>3. b \in BookingType
    BY DEF DeskInv, Good
  <1>4. a \in BookingType /\ a.request = b.request /\ a.nanny = b.nanny /\ Live(b)
    BY <1>1, <1>3 DEF BookingType, Live
  <1>5. V[b] = a /\ \A c \in bookings \ {b} : V[c] = c
    OBVIOUS
  <1> HIDE DEF a, s, V
  <1> QED
    BY <1>2, <1>4, <1>5, ReplaceGood

----------------------------------------------------------------------------
(* One handler's steps                                                       *)

LEMMA IdleFits == \A rows, bs : SessionFits(Idle, rows, bs)
  BY DEF SessionFits, Idle

(* The session that changes is the only one.                                  *)
LEMMA Stepped ==
    ASSUME Alone, DeskInv, NEW w \in Workers, NEW t,
           sess' = [sess EXCEPT ![w] = t] \/ (sess' = sess /\ sess[w] = t),
           Good(row', bookings'), DOMAIN charges' = Requests,
           SessionFits(t, row', bookings')
    PROVE  DeskInv'
  <1>1. DOMAIN sess' = Workers /\ \A v \in Workers : sess'[v] = t
    BY DEF Alone, DeskInv
  <1> QED
    BY <1>1 DEF DeskInv

(* A request is written that is not opened.                                   *)
LEMMA OneRowGood ==
    ASSUME Good(row, bookings), NEW r \in Requests, NEW y, row' = [row EXCEPT ![r] = y],
           bookings' = bookings, Follows(row[r], y),
           Open(y) => Open(row[r]) /\ y.window = row[r].window
    PROVE  Good(row', bookings') /\ \A q \in Requests : row[q].status # "none" /\ y.status # "none"
                                                           => row'[q].status # "none"
  <1>1. /\ DOMAIN row' = Requests /\ row'[r] = y
        /\ \A q \in Requests \ {r} : row'[q] = row[q]
    BY DEF Good
  <1>2. RowGood(r, y, Own(r, bookings))
    <2> DEFINE V == [b \in bookings |-> b]
    <2>1. \A b \in Own(r, bookings) : V[b] = b
      BY DEF Own
    <2>2. RowGood(r, row[r], Own(r, bookings))
      BY Untouched
    <2> HIDE DEF V
    <2> QED
      BY <2>1, <2>2, FollowsGood
  <1>3. \A q \in Requests : RowGood(q, row'[q], Own(q, bookings))
    BY <1>1, <1>2, Untouched
  <1>4. OneTime(row')
    <2>1. OneTime(row) /\ y.job = row[r].job
      BY DEF Good, Follows
    <2> QED
      BY <1>1, <2>1, OneTimeKept
  <1> QED
    BY <1>1, <1>3, <1>4 DEF Good

LEMMA CreateGood ==
    ASSUME DeskInv, NEW w \in Workers, NEW p \in Parents, NEW ns \in SUBSET Nannies \ {{}},
           NEW win \in Windows, NEW k \in 1..MaxPositions, Create(w, p, ns, win, k)
    PROVE  DeskInv'
  <1> DEFINE s == [phase |-> "create", todo |-> ns, job |-> NextId, next |-> NextId,
                   parent |-> p, window |-> win, positions |-> k]
  <1>1. Begin(w, s)
    BY DEF Create
  <1>2. k \in Nat
    BY DeskTyped
  <1>3. ASSUME NEW r \in Requests, row[r].status # "none"
        PROVE  r < NextId /\ row[r].job # NextId
    <2>1. r < NextId
      BY <1>3, NextIsNew DEF Used, Exists
    <2>2. row[r].job \in 1..r
      BY <1>3, Untouched DEF DeskInv, RowGood
    <2> QED
      BY <2>1, <2>2, NextIsNew, DeskTyped
  <1>4. Creates(s, row)
    BY <1>2, <1>3, NextIsNew DEF Creates
  <1>5. SessionFits(s, row, bookings)
    BY <1>4 DEF SessionFits
  <1> HIDE DEF s
  <1> QED
    BY <1>1, <1>5, Begun

(* The next request of the job is new, and for the same time as the others.   *)
LEMMA CreateNextGood ==
    ASSUME Alone, DeskInv, NEW w \in Workers, CreateNext(w)
    PROVE  DeskInv'
  <1> DEFINE s == sess[w]
  <1>1. /\ s.phase = "create" /\ Creates(s, row)
        /\ bookings' = bookings /\ charges' = charges
    BY DEF CreateNext, DeskInv, SessionFits
  <1>2. Good(row, bookings) /\ DOMAIN charges = Requests
    BY DEF DeskInv
  <1>3. PICK n \in s.todo :
           LET t == [s EXCEPT !.todo = @ \ {n}]
               x == [NoRow EXCEPT !.status = "tbc", !.job = s.job, !.parent = s.parent,
                                  !.nanny = n, !.window = s.window, !.positions = s.positions]
           IN
           IF Available(n, s.window, s.parent)
           THEN /\ s.next \in Requests /\ ~Exists(s.next)
                /\ row' = [row EXCEPT ![s.next] = x]
                /\ sess' = [sess EXCEPT ![w] = IF t.todo = {} THEN Idle
                                               ELSE [t EXCEPT !.next = @ + 1]]
           ELSE /\ sess' = [sess EXCEPT ![w] = IF t.todo = {} THEN Idle ELSE t]
                /\ UNCHANGED row
    BY DEF CreateNext
  <1> DEFINE t == [s EXCEPT !.todo = @ \ {n}]
             u == [t EXCEPT !.next = @ + 1]
             x == [NoRow EXCEPT !.status = "tbc", !.job = s.job, !.parent = s.parent,
                                !.nanny = n, !.window = s.window, !.positions = s.positions]
  <1>4. /\ DOMAIN t = DOMAIN s /\ t.todo \subseteq Nannies /\ t.phase = "create" /\ t.job = s.job
        /\ t.next = s.next /\ t.window = s.window /\ t.parent = s.parent
        /\ t.positions = s.positions
    BY <1>1 DEF Creates
  <1>5. /\ DOMAIN u = DOMAIN s /\ u.todo \subseteq Nannies /\ u.phase = "create" /\ u.job = s.job
        /\ u.next = s.next + 1 /\ u.window = s.window /\ u.parent = s.parent
        /\ u.positions = s.positions
    BY <1>1, <1>4 DEF Creates
  <1>6. CASE ~Available(n, s.window, s.parent)
    <2>1. row' = row /\ sess' = [sess EXCEPT ![w] = IF t.todo = {} THEN Idle ELSE t]
      BY <1>3, <1>6
    <2>2. SessionFits(t, row', bookings')
      BY <1>1, <1>4, <2>1 DEF Creates, SessionFits
    <2> HIDE DEF t
    <2> QED
      BY <1>1, <1>2, <2>1, <2>2, IdleFits, Stepped
  <1>7. CASE Available(n, s.window, s.parent)
    <2>1. /\ s.next \in Requests /\ ~Exists(s.next) /\ row' = [row EXCEPT ![s.next] = x]
          /\ sess' = [sess EXCEPT ![w] = IF t.todo = {} THEN Idle ELSE u]
      BY <1>3, <1>7
    <2>2. /\ x \in RowType /\ x.status = "tbc" /\ x.job = s.job /\ x.parent = s.parent
          /\ x.nanny = n /\ x.window = s.window
      BY <1>1, DeskTyped DEF Creates, RowType, NoRow, Statuses
    <2> HIDE DEF x, t, u
    <2>3. /\ DOMAIN row' = Requests /\ row'[s.next] = x
          /\ \A r \in Requests \ {s.next} : row'[r] = row[r]
      BY <1>2, <2>1 DEF Good
    <2>4. Own(s.next, bookings) = {}
      BY <1>2, <2>1, Untouched DEF RowGood, Exists
    <2>5. RowGood(s.next, x, {})
      BY <1>1, <2>1, <2>2, DeskTyped DEF RowGood, Creates
    <2>6. \A r \in Requests : RowGood(r, row'[r], Own(r, bookings))
      BY <1>2, <2>3, <2>4, <2>5, Untouched
    <2>7. \A r \in Requests : row'[r].status # "none" =>
             r <= s.next /\ (row'[r].job = s.job => row'[r].window = s.window)
      BY <1>1, <2>1, <2>2, <2>3, DeskTyped DEF Creates
    <2>8. OneTime(row')
      BY <1>2, <2>2, <2>3, <2>7 DEF OneTime, Good, Open
    <2>9. Good(row', bookings')
      BY <1>1, <1>2, <2>3, <2>6, <2>8 DEF Good
    <2>10. SessionFits(u, row', bookings')
      <3>1. Creates(u, row')
        <4>1. \A r \in Requests : r <= s.next => r < s.next + 1
          BY <1>1, DeskTyped DEF Creates
        <4>2. s.next + 1 \in Nat /\ s.job <= s.next + 1
          BY <1>1 DEF Creates
        <4> QED
          BY <1>1, <1>5, <2>7, <4>1, <4>2 DEF Creates
      <3> QED
        BY <1>5, <3>1 DEF SessionFits
    <2> QED
      BY <1>1, <1>2, <2>1, <2>9, <2>10, IdleFits, Stepped
  <1> QED
    BY <1>6, <1>7

----------------------------------------------------------------------------
(* Taking a request                                                          *)

LEMMA RelatedOwn == \A r : Related(r) = {} => Own(r, bookings) = {}
  BY DEF Related, Own

(* A request is taken that has no booking yet or is approved: no other is     *)
(* opened or approved, and no other gets a booking.                          *)
LEMMA TakingGood ==
    ASSUME Good(row, bookings), NEW r \in Requests, Exists(r),
           row[r].status = "approved" \/ Own(r, bookings) = {},
           Written(Taking(r, JobRows(r)))
    PROVE  /\ Good(row', bookings')
           /\ \A q \in Requests : row[q].status # "none" => row'[q].status # "none"
           /\ \A q \in Requests \ {r} : Own(q, bookings') = Own(q, bookings)
  <1> DEFINE x == row[r]
             rows == JobRows(r)
             others == [q \in Competing(r) |-> row[q]]
             closed == [q \in DOMAIN others |-> Closed(others[q])]
             s == Taking(r, rows)
             new == BookingOf(r, x, "approved")
  <1>1. row' = RowsAfter(s, row) /\ bookings' = BookingsAfter(s, bookings)
    BY DEF Written, RowsAfter, BookingsAfter
  <1>2. /\ DOMAIN rows \subseteq Requests /\ r \in DOMAIN rows
        /\ \A q \in DOMAIN rows : rows[q] = row[q]
    BY DEF JobRows, Job
  <1>3. /\ DOMAIN others \subseteq Requests /\ r \notin DOMAIN others
        /\ \A q \in DOMAIN others : others[q] = row[q]
    BY DEF Competing, Used
  <1> HIDE DEF rows, others
  <1>4. /\ x \in RowType /\ RowGood(r, x, Own(r, bookings)) /\ x.status # "none"
    BY Untouched DEF Exists
  <1>5. Taken(x) \in RowType /\ Taken(x).status = "approved" /\ Closed(Taken(x)) = Taken(x)
    BY <1>4 DEF Taken, RowType, Statuses, Closed, Open
  <1>6. /\ DOMAIN AfterTaking(r, rows) = DOMAIN rows
        /\ AfterTaking(r, rows)[r] = Taken(x)
        /\ \A q \in DOMAIN rows \ {r} : AfterTaking(r, rows)[q] \in {row[q], Closed(row[q])}
    <2> DEFINE base == [q \in DOMAIN rows |-> IF q = r THEN Taken(rows[q]) ELSE rows[q]]
    <2>1. /\ DOMAIN base = DOMAIN rows /\ base[r] = Taken(x)
          /\ \A q \in DOMAIN rows \ {r} : base[q] = row[q]
      BY <1>2
    <2>2. AfterTaking(r, rows) = IF Filled(base) THEN [q \in DOMAIN base |-> Closed(base[q])]
                                 ELSE base
      BY DEF AfterTaking
    <2> HIDE DEF base
    <2> QED
      BY <1>2, <1>5, <2>1, <2>2
  <1>7. /\ s.cancels = {} /\ s.drops = {}
        /\ s.adds = {} \/ (s.adds = {new} /\ Own(r, bookings) = {})
    BY RelatedOwn DEF Taking, Nothing
  <1>8. /\ DOMAIN s.new \subseteq Requests /\ r \in DOMAIN s.new /\ s.new[r] = Taken(x)
        /\ \A q \in DOMAIN s.new : s.seen[q] = row[q]
        /\ \A q \in DOMAIN s.new \ {r} : s.new[q] \in {row[q], Closed(row[q])}
    <2>1. CASE Related(r) = {}
      <3>1. s.seen = Merge(rows, others) /\ s.new = Merge(AfterTaking(r, rows), closed)
        BY <2>1 DEF Taking, Nothing, others
      <3>2. /\ DOMAIN closed = DOMAIN others
            /\ \A q \in DOMAIN others : closed[q] = Closed(row[q])
        BY <1>3
      <3> HIDE DEF s, closed
      <3>3. /\ DOMAIN s.new = DOMAIN rows \cup DOMAIN others
            /\ \A q \in DOMAIN s.new : s.seen[q] = IF q \in DOMAIN rows THEN rows[q] ELSE others[q]
            /\ \A q \in DOMAIN s.new : s.new[q] = IF q \in DOMAIN rows THEN AfterTaking(r, rows)[q]
                                                  ELSE closed[q]
        BY <1>6, <3>1, <3>2 DEF Merge
      <3> QED
        BY <1>2, <1>3, <1>6, <3>2, <3>3
    <2>2. CASE Related(r) # {}
      <3>1. s.seen = rows /\ s.new = [rows EXCEPT ![r] = Taken(@)]
        BY <2>2 DEF Taking, Nothing
      <3> HIDE DEF s
      <3> QED
        BY <1>2, <3>1
    <2> QED
      BY <2>1, <2>2
  <1> HIDE DEF s
  <1>9. ASSUME NEW q \in Requests
        PROVE  /\ Closed(row[q]) \in RowType /\ ~Open(Closed(row[q]))
               /\ Follows(row[q], Closed(row[q]))
               /\ row[q].status # "none" => Closed(row[q]).status # "none"
    <2> DEFINE y == row[q]
    <2>1. y \in RowType /\ RowGood(q, y, Own(q, bookings))
      BY Untouched
    <2> HIDE DEF y
    <2>2. CASE Open(y)
      <3>1. /\ Closed(y) \in RowType /\ Closed(y).status = "rejected" /\ Closed(y).job = y.job
            /\ Closed(y).parent = y.parent /\ Closed(y).nanny = y.nanny
            /\ Closed(y).window = y.window
        BY <2>1, <2>2 DEF Closed, RowType, Statuses
      <3>2. y.window \in Windows /\ y.status # "none"
        BY <2>1, <2>2 DEF RowGood, Open
      <3> QED
        BY <3>1, <3>2 DEF Follows, Open, y
    <2>3. CASE ~Open(y)
      BY <2>1, <2>3 DEF Closed, Follows, y
    <2> QED
      BY <2>2, <2>3
  <1>10. Reads(s)
    BY <1>5, <1>8, <1>9, Untouched DEF Reads
  <1>11. /\ Meant(s, r) = Taken(x)
         /\ \A q \in Requests \ {r} : Meant(s, q) \in {row[q], Closed(row[q])}
    BY <1>8 DEF Meant
  <1>12. bookings' = bookings \cup s.adds /\ bookings \subseteq BookingType
    BY <1>1, <1>7 DEF BookingsAfter, Good
  <1>13. new \in BookingType /\ new.request = r /\ new.nanny = x.nanny
    BY <1>4 DEF RowGood, BookingType, BookingOf
  <1> HIDE DEF new
  <1>14. bookings' \subseteq BookingType
    BY <1>7, <1>12, <1>13
  <1>15. \A q \in Requests \ {r} : Own(q, bookings') = Own(q, bookings)
    BY <1>7, <1>12, <1>13 DEF Own
  <1>16. Own(r, bookings') = Own(r, bookings)
            \/ (Own(r, bookings) = {} /\ Own(r, bookings') = {new})
    BY <1>7, <1>12, <1>13 DEF Own
  <1>17. RowGood(r, Taken(x), Own(r, bookings'))
    <2>1. /\ Taken(x).job = x.job /\ Taken(x).parent = x.parent /\ Taken(x).nanny = x.nanny
          /\ Taken(x).window = x.window /\ x.nanny \in Nannies
      BY <1>4 DEF Taken, RowType, RowGood
    <2>2. /\ \A b, c \in Own(r, bookings') : Live(b) /\ Live(c) => b = c
          /\ \A b \in Own(r, bookings') : Live(b) => b.nanny = x.nanny
      BY <1>4, <1>13, <1>16 DEF RowGood
    <2> QED
      BY <1>4, <1>5, <2>1, <2>2, ApprovedGood
  <1>18. ASSUME NEW q \in Requests \ {r}
         PROVE  RowGood(q, Meant(s, q), Own(q, bookings))
    <2> DEFINE V == [b \in bookings |-> b]
    <2>1. \A b \in Own(q, bookings) : V[b] = b
      BY DEF Own
    <2>2. RowGood(q, row[q], Own(q, bookings)) /\ Follows(row[q], Meant(s, q))
      BY <1>9, <1>11, Untouched DEF Follows
    <2> HIDE DEF V
    <2> QED
      BY <2>1, <2>2, FollowsGood
  <1>19. \A q \in Requests :
            /\ RowGood(q, Meant(s, q), Own(q, bookings'))
            /\ Open(Meant(s, q)) => /\ Open(row[q]) /\ Meant(s, q).job = row[q].job
                                    /\ Meant(s, q).window = row[q].window
    BY <1>5, <1>9, <1>11, <1>15, <1>17, <1>18 DEF Open
  <1>20. Good(row', bookings')
    BY <1>1, <1>10, <1>14, <1>19, MeantGood
  <1>21. \A q \in Requests : row'[q] = Meant(s, q)
    BY <1>1, <1>10, Untouched, RowsWritten DEF Good, Reads, Meant
  <1> QED
    BY <1>5, <1>9, <1>11, <1>15, <1>20, <1>21

----------------------------------------------------------------------------
(* Acceptance and retries                                                    *)

LEMMA AcceptGood ==
    ASSUME Alone, DeskInv, NEW w \in Workers, NEW r \in Used, Accept(w, r)
    PROVE  DeskInv'
  <1> DEFINE x == row[r]
  <1>1. Good(row, bookings) /\ DOMAIN charges = Requests /\ DOMAIN sess = Workers
    BY DEF DeskInv
  <1>2. r \in Requests /\ Exists(r) /\ x \in RowType /\ RowGood(r, x, Own(r, bookings))
    BY <1>1, Untouched DEF Used
  <1>3. x.status \in {"tbc", "approved"} /\ sess[w] = Idle /\ sess' = sess
    BY DEF Accept
  <1>4. CASE charges' = [charges EXCEPT ![r] = @ + 1] /\ Written(Taking(r, JobRows(r)))
    <2>1. x.status = "approved" \/ Own(r, bookings) = {}
      BY <1>2, <1>3 DEF RowGood
    <2>2. Good(row', bookings')
      BY <1>1, <1>2, <1>4, <2>1, TakingGood
    <2> QED
      BY <1>1, <1>3, <1>4, <2>2, IdleFits, Stepped
  <1>5. CASE /\ row' = [row EXCEPT ![r].reason = "payment_failed"]
             /\ UNCHANGED <<bookings, blocked, charges>>
    <2> DEFINE y == [x EXCEPT !.reason = "payment_failed"]
    <2>1. y \in RowType /\ y.status = x.status /\ y.job = x.job /\ y.parent = x.parent
          /\ y.nanny = x.nanny /\ y.window = x.window
      BY <1>2 DEF RowType
    <2>2. Follows(x, y)
      BY <1>2, <1>3, <2>1 DEF Follows, RowGood
    <2>3. row' = [row EXCEPT ![r] = y]
      BY <1>5
    <2> HIDE DEF y
    <2>4. Good(row', bookings')
      BY <1>1, <1>2, <1>5, <2>1, <2>2, <2>3, OneRowGood DEF Open
    <2> QED
      BY <1>1, <1>3, <1>5, <2>4, IdleFits, Stepped
  <1> QED
    BY <1>4, <1>5 DEF Accept

(* The requests of the list wait for a card: none has been served.            *)
LEMMA RetryGood ==
    ASSUME DeskInv, NEW w \in Workers, NEW p \in Parents, Retry(w, p)
    PROVE  DeskInv'
  <1> DEFINE s == [phase |-> "retry", todo |-> Waiting(p), known |-> [r \in Waiting(p) |-> row[r]]]
  <1>1. Begin(w, s)
    BY DEF Retry
  <1>2. Waiting(p) \subseteq Requests
    BY DEF Waiting, Used
  <1>3. \A r \in Waiting(p) : Ready(r, row, bookings)
    BY Untouched DEF DeskInv, Waiting, Used, Exists, Ready, Open, RowGood
  <1>4. Current(s.known, row)
    BY <1>2 DEF Current
  <1>5. Retries(s, row, bookings)
    BY <1>3, <1>4 DEF Retries
  <1>6. SessionFits(s, row, bookings)
    BY <1>5 DEF SessionFits
  <1> HIDE DEF s
  <1> QED
    BY <1>1, <1>6, Begun

(* A retry that goes on with the requests that are left.                      *)
LEMMA GoesOn ==
    ASSUME NEW rows, NEW bs, NEW todo, \A r \in todo : Ready(r, rows, bs)
    PROVE  LET t == [phase |-> "retry", todo |-> todo, known |-> <<>>]
           IN SessionFits(IF t.todo = {} THEN Idle ELSE t, rows, bs)
  <1> DEFINE t == [phase |-> "retry", todo |-> todo, known |-> <<>>]
  <1>1. Current(t.known, rows)
    BY DEF Current
  <1>2. SessionFits(t, rows, bs)
    BY <1>1 DEF SessionFits, Retries
  <1> HIDE DEF t
  <1> QED
    BY <1>2, IdleFits DEF t

LEMMA RetryPickGood ==
    ASSUME Alone, DeskInv, NEW w \in Workers, RetryPick(w)
    PROVE  DeskInv'
  <1> DEFINE s == sess[w]
  <1>1. /\ s.phase = "retry" /\ Retries(s, row, bookings)
        /\ UNCHANGED <<row, bookings, charges>>
    BY DEF RetryPick, DeskInv, SessionFits
  <1>2. PICK r \in s.todo :
           sess' = [sess EXCEPT ![w] = [phase |-> "lock", todo |-> s.todo \ {r}, request |-> r,
                                        known |-> Load(s.known, DOMAIN s.known \cup {r})]]
    BY DEF RetryPick
  <1> DEFINE t == [phase |-> "lock", todo |-> s.todo \ {r}, request |-> r,
                   known |-> Load(s.known, DOMAIN s.known \cup {r})]
  <1>3. Current(s.known, row) /\ Ready(r, row, bookings)
    BY <1>1 DEF Retries
  <1>4. Current(t.known, row)
    BY <1>3 DEF Current, Load, Ready
  <1>5. Retries(t, row, bookings)
    BY <1>1, <1>3, <1>4 DEF Retries
  <1>6. SessionFits(t, row', bookings')
    BY <1>1, <1>5 DEF SessionFits
  <1> HIDE DEF t
  <1> QED
    BY <1>1, <1>2, <1>6, Stepped DEF DeskInv, t

(* What a retry has loaded of a job before it locks it is what it would read. *)
LEMMA RetryLockGood ==
    ASSUME Alone, DeskInv, NEW w \in Workers, RetryLock(w)
    PROVE  DeskInv'
  <1> DEFINE s == sess[w]
             r == s.request
             rows == Load(s.known, Job(row[r].job))
  <1>1. /\ s.phase = "lock" /\ Retries(s, row, bookings)
        /\ UNCHANGED <<bookings, charges>>
    BY DEF RetryLock, DeskInv, SessionFits
  <1>2. Good(row, bookings) /\ DOMAIN charges = Requests
    BY DEF DeskInv
  <1>3. /\ Ready(r, row, bookings) /\ r \notin s.todo /\ Current(s.known, row)
        /\ \A q \in s.todo : Ready(q, row, bookings)
    BY <1>1 DEF Retries
  <1>4. rows = RowsOfJob(r, row)
    BY <1>3 DEF Current, Load, RowsOfJob, Job, Exists
  <1>5. CASE Full(rows)
    <2> DEFINE y == [row[r] EXCEPT !.status = "rejected", !.reason = "filled"]
    <2>1. /\ row' = [row EXCEPT ![r].status = "rejected", ![r].reason = "filled"]
          /\ Retrying(w, [phase |-> "retry", todo |-> s.todo, known |-> <<>>])
      BY <1>5 DEF RetryLock
    <2>2. r \in Requests /\ row[r] \in RowType /\ row[r].status # "none" /\ DOMAIN row = Requests
          /\ RowGood(r, row[r], Own(r, bookings))
      BY <1>2, <1>3, Untouched DEF Ready, Good
    <2>3. row' = [row EXCEPT ![r] = y]
      BY <2>1, <2>2
    <2>4. /\ y \in RowType /\ y.status = "rejected" /\ y.job = row[r].job
          /\ y.parent = row[r].parent /\ y.nanny = row[r].nanny /\ y.window = row[r].window
      BY <2>2 DEF RowType, Statuses
    <2>5. Follows(row[r], y)
      BY <2>2, <2>4 DEF Follows, RowGood
    <2> HIDE DEF y
    <2>6. /\ Good(row', bookings')
          /\ \A q \in Requests : row[q].status # "none" => row'[q].status # "none"
      BY <1>1, <1>2, <2>2, <2>3, <2>4, <2>5, OneRowGood DEF Open
    <2>7. \A q \in s.todo : Ready(q, row', bookings')
      BY <1>1, <1>3, <2>6 DEF Ready
    <2> DEFINE u == [phase |-> "retry", todo |-> s.todo, known |-> <<>>]
               v == IF u.todo = {} THEN Idle ELSE u
    <2>8. sess' = [sess EXCEPT ![w] = v]
      BY <2>1 DEF Retrying
    <2>9. SessionFits(v, row', bookings')
      BY <2>7, GoesOn
    <2> HIDE DEF u, v
    <2> QED
      BY <1>1, <1>2, <2>6, <2>8, <2>9, Stepped
  <1>6. CASE ~Full(rows)
    <2> DEFINE t == [phase |-> "charge", todo |-> s.todo, request |-> r, rows |-> rows]
    <2>1. row' = row /\ sess' = [sess EXCEPT ![w] = t]
      BY <1>6 DEF RetryLock
    <2>2. Retries(t, row, bookings)
      BY <1>3, <1>4, <1>6 DEF Retries, Full
    <2>3. SessionFits(t, row', bookings')
      BY <1>1, <2>1, <2>2 DEF SessionFits
    <2> HIDE DEF t
    <2> QED
      BY <1>1, <1>2, <2>1, <2>3, Stepped
  <1> QED
    BY <1>5, <1>6

LEMMA RetryChargeGood ==
    ASSUME Alone, DeskInv, NEW w \in Workers, RetryCharge(w)
    PROVE  DeskInv'
  <1> DEFINE s == sess[w]
             r == s.request
             after == [phase |-> "retry", todo |-> s.todo, known |-> <<>>]
             t == [phase |-> "take", todo |-> s.todo, request |-> r, rows |-> s.rows]
  <1>1. /\ s.phase = "charge" /\ Retries(s, row, bookings) /\ UNCHANGED <<row, bookings>>
        /\ charges' = charges \/ charges' = [charges EXCEPT ![r] = @ + 1]
        /\ sess' = [sess EXCEPT ![w] = t] \/ Retrying(w, after)
    BY DEF RetryCharge, DeskInv, SessionFits
  <1>2. Good(row', bookings') /\ DOMAIN charges' = Requests
    BY <1>1 DEF DeskInv
  <1>3. CASE sess' = [sess EXCEPT ![w] = t]
    <2>1. Retries(t, row, bookings)
      BY <1>1 DEF Retries
    <2>2. SessionFits(t, row', bookings')
      BY <1>1, <2>1 DEF SessionFits
    <2> HIDE DEF t
    <2> QED
      BY <1>2, <1>3, <2>2, Stepped
  <1>4. CASE Retrying(w, after)
    <2>1. \A q \in s.todo : Ready(q, row', bookings')
      BY <1>1 DEF Retries
    <2> QED
      BY <1>2, <1>4, <2>1, GoesOn, Stepped DEF Retrying
  <1> QED
    BY <1>1, <1>3, <1>4

LEMMA RetryTakeGood ==
    ASSUME Alone, DeskInv, NEW w \in Workers, RetryTake(w)
    PROVE  DeskInv'
  <1> DEFINE s == sess[w]
             r == s.request
  <1>1. /\ s.phase = "take" /\ Retries(s, row, bookings) /\ charges' = charges
        /\ Written(Taking(r, s.rows))
        /\ Retrying(w, [phase |-> "retry", todo |-> s.todo, known |-> <<>>])
    BY DEF RetryTake, DeskInv, SessionFits
  <1>2. /\ Ready(r, row, bookings) /\ r \notin s.todo /\ s.rows = RowsOfJob(r, row)
        /\ \A q \in s.todo : Ready(q, row, bookings)
    BY <1>1 DEF Retries
  <1>3. s.rows = JobRows(r)
    BY <1>2 DEF RowsOfJob, JobRows, Job, Exists
  <1>4. /\ Good(row', bookings')
        /\ \A q \in Requests : row[q].status # "none" => row'[q].status # "none"
        /\ \A q \in Requests \ {r} : Own(q, bookings') = Own(q, bookings)
    BY <1>1, <1>2, <1>3, TakingGood DEF DeskInv, Ready, Exists
  <1>5. \A q \in s.todo : Ready(q, row', bookings')
    BY <1>2, <1>4 DEF Ready
  <1>6. DOMAIN charges' = Requests
    BY <1>1 DEF DeskInv
  <1> QED
    BY <1>1, <1>4, <1>5, <1>6, GoesOn, Stepped DEF Retrying

----------------------------------------------------------------------------
(* Commits and crashes                                                       *)

LEMMA CommitGood ==
    ASSUME Alone, DeskInv, NEW w \in Workers, Commit(w)
    PROVE  DeskInv'
  <1> DEFINE s == sess[w]
             t == [s EXCEPT !.phase = "block"]
  <1>1. /\ s.phase = "commit" /\ Written(s) /\ charges' = charges
        /\ sess' = [sess EXCEPT ![w] = IF s.after = {} THEN Idle ELSE t]
    BY DEF Commit
  <1>2. Commits(s, row, bookings) /\ DOMAIN charges = Requests
    BY <1>1 DEF DeskInv, SessionFits
  <1>3. row' = RowsAfter(s, row) /\ bookings' = BookingsAfter(s, bookings)
    BY <1>1 DEF Written, RowsAfter, BookingsAfter
  <1>4. Good(row', bookings')
    BY <1>2, <1>3 DEF Commits
  <1>5. SessionFits(t, row', bookings')
    <2>1. t.phase = "block" /\ "phase" \in DOMAIN t
      BY <1>2 DEF Commits
    <2> QED
      BY <2>1 DEF SessionFits
  <1> HIDE DEF t
  <1> QED
    BY <1>1, <1>2, <1>4, <1>5, IdleFits, Stepped

LEMMA EnterBlocksGood ==
    ASSUME Alone, DeskInv, NEW w \in Workers, EnterBlocks(w)
    PROVE  DeskInv'
  <1>1. sess' = [sess EXCEPT ![w] = Idle] /\ UNCHANGED <<row, bookings, charges>>
    BY DEF EnterBlocks
  <1>2. Good(row', bookings') /\ DOMAIN charges' = Requests
    BY <1>1 DEF DeskInv
  <1> QED
    BY <1>1, <1>2, IdleFits, Stepped

LEMMA CrashGood ==
    ASSUME Alone, DeskInv, NEW w \in Workers, Crash(w)
    PROVE  DeskInv'
  <1>1. sess' = [sess EXCEPT ![w] = Idle] /\ UNCHANGED <<row, bookings, charges>>
    BY DEF Crash
  <1>2. Good(row', bookings') /\ DOMAIN charges' = Requests
    BY <1>1 DEF DeskInv
  <1> QED
    BY <1>1, <1>2, IdleFits, Stepped

----------------------------------------------------------------------------
(* Theorems                                                                  *)

LEMMA InitInv == Init => DeskInv
  <1> SUFFICES ASSUME Init PROVE DeskInv
    OBVIOUS
  <1>1. /\ DOMAIN row = Requests /\ \A r \in Requests : row[r] = NoRow
        /\ bookings = {} /\ DOMAIN charges = Requests
        /\ DOMAIN sess = Workers /\ \A w \in Workers : sess[w] = Idle
    BY DEF Init
  <1>2. \A r \in Requests : RowGood(r, row[r], Own(r, bookings))
    <2>1. NoRow.status = "none" /\ \A r \in Requests : Own(r, bookings) = {}
      BY <1>1 DEF NoRow, Own
    <2> QED
      BY <1>1, <2>1, NoRowTyped DEF RowGood
  <1>3. OneTime(row)
    BY <1>1 DEF OneTime
  <1>4. Good(row, bookings)
    BY <1>1, <1>2, <1>3 DEF Good
  <1> QED
    BY <1>1, <1>4, IdleFits DEF DeskInv

LEMMA NextInv ==
    ASSUME Alone, DeskInv, [Next]_vars
    PROVE  DeskInv'
  <1>1. ASSUME NEW w \in Workers, ParentCalls(w)
        PROVE  DeskInv'
    BY <1>1, CreateGood, CreatePaidGood, CreateBookingGood, UpdateScheduleGood, RetryGood, Zenon
       DEF ParentCalls
  <1>2. ASSUME NEW w \in Workers, AdminCalls(w)
        PROVE  DeskInv'
    BY <1>2, ApproveGood, RejectGood, AssignGood, CancelJobGood, Zenon DEF AdminCalls
  <1>3. ASSUME NEW w \in Workers, Serve(w)
        PROVE  DeskInv'
    BY <1>3, CommitGood, EnterBlocksGood, CreateNextGood, RetryPickGood, RetryLockGood,
       RetryChargeGood, RetryTakeGood DEF Serve
  <1>4. ASSUME NEW w \in Workers, NEW b \in bookings, UpdateBookingStatus(w, b)
        PROVE  DeskInv'
    BY <1>4, UpdateBookingStatusGood
  <1>5. ASSUME NEW w \in Workers, NEW r \in Used, Accept(w, r)
        PROVE  DeskInv'
    BY <1>5, AcceptGood
  <1>6. ASSUME NEW w \in Crashing, Crash(w)
        PROVE  DeskInv'
    BY <1>6, CrashGood, DeskTyped
  <1>7. CASE UNCHANGED vars
    BY <1>7 DEF vars, DeskInv, SessionFits
  <1> QED
    BY <1>1, <1>2, <1>3, <1>4, <1>5, <1>6, <1>7 DEF Next

(* While one handler is at work at a time, what it is about to commit leaves  *)
(* every request with at most one live booking, of the nanny an approved      *)
(* request names, and every job's open requests at one time; what a retry has *)
(* loaded of a job is what is stored (approve, reject, assign, cancel,        *)
(* create_booking_request_bulk, _retry_payment_pending_for_parent).           *)
THEOREM DeskInvariance ==
    ASSUME Alone
    PROVE  Spec => []DeskInv
  <1>1. Init => DeskInv
    BY InitInv
  <1>2. DeskInv /\ [Next]_vars => DeskInv'
    BY NextInv
  <1> QED
    BY <1>1, <1>2, PTL DEF Spec

(* An approved request is served by the nanny it names and by no other,       *)
(* however often the desk has rejected, approved and reassigned it            *)
(* (assign_booking_request_nanny), for jobs of any number of nannies.         *)
THEOREM ServedAsAssigned ==
    ASSUME Alone
    PROVE  Spec => []ServedByAssigned
  <1>1. DeskInv => ServedByAssigned
    <2> SUFFICES ASSUME DeskInv, NEW r \in Requests, row[r].status = "approved"
                 PROVE  \A b, c \in {b \in bookings : b.request = r /\ Live(b)} :
                           b.nanny = row[r].nanny /\ b = c
      BY DEF ServedByAssigned
    <2>1. RowGood(r, row[r], Own(r, bookings))
      BY Untouched DEF DeskInv
    <2> QED
      BY <2>1 DEF RowGood, Own
  <1> QED
    BY <1>1, DeskInvariance, PTL

(* The requests of a job that nannies may still accept are for one time,      *)
(* wherever the handler that creates them stopped and however often their     *)
(* schedule changed (create_booking_request_bulk,                             *)
(* update_parent_booking_request_schedule).                                   *)
THEOREM JobsForOneTime ==
    ASSUME Alone
    PROVE  Spec => []OpenForOneTime
  <1>1. DeskInv => OpenForOneTime
    BY DEF DeskInv, Good, OneTime, OpenForOneTime
  <1> QED
    BY <1>1, DeskInvariance, PTL

(* A call of a parent or of the desk only reads.                              *)
LEMMA CallsBegin ==
    ASSUME NEW w \in Workers, ParentCalls(w) \/ AdminCalls(w)
    PROVE  sess[w] = Idle /\ charges' = charges /\ bookings' = bookings
  <1>1. CASE ParentCalls(w)
    BY <1>1 DEF ParentCalls, Begin, Create, CreatePaid, CreateBooking, UpdateSchedule, Retry
  <1>2. CASE AdminCalls(w)
    BY <1>2 DEF AdminCalls, Begin, Approve, Reject, Assign, CancelJob
  <1> QED
    BY <1>1, <1>2

(* Whatever list of requests a saved card retries, and whichever of them its  *)
(* own charges close, the card is charged only while the job has a position   *)
(* open (_retry_payment_pending_for_parent).                                  *)
THEOREM RetriesChargeOpenJobs ==
    ASSUME Alone
    PROVE  Spec => ChargesOpenJob
  <1> DEFINE A == \A r \in Requests : charges'[r] # charges[r] => ~Filled(JobRows(r))
  <1>1. DeskInv /\ [Next]_vars => [A]_vars
    <2> SUFFICES ASSUME DeskInv, Next, NEW r \in Requests, charges'[r] # charges[r]
                 PROVE  ~Filled(JobRows(r))
      OBVIOUS
    <2>1. charges' # charges
      OBVIOUS
    <2>2. CASE \E w \in Workers, q \in Used : Accept(w, q)
      <3>1. PICK w \in Workers, q \in Used : Accept(w, q)
        BY <2>2
      <3>2. charges' = [charges EXCEPT ![q] = @ + 1] /\ ~Filled(JobRows(q))
        BY <2>1, <3>1 DEF Accept
      <3>3. q = r
        BY <3>2 DEF DeskInv
      <3> QED
        BY <3>2, <3>3
    <2>3. CASE \E w \in Workers : RetryCharge(w)
      <3>1. PICK w \in Workers : RetryCharge(w)
        BY <2>3
      <3> DEFINE s == sess[w]
      <3>2. s.phase = "charge" /\ charges' = [charges EXCEPT ![s.request] = @ + 1]
        BY <2>1, <3>1 DEF RetryCharge
      <3>3. Retries(s, row, bookings)
        BY <3>2 DEF DeskInv, SessionFits
      <3>4. s.rows = JobRows(s.request) /\ ~Filled(s.rows)
        BY <3>2, <3>3 DEF Retries, RowsOfJob, JobRows, Job, Exists
      <3>5. s.request = r
        BY <3>2 DEF DeskInv
      <3> QED
        BY <3>4, <3>5
    <2>4. CASE \E w \in Workers : ParentCalls(w) \/ AdminCalls(w)
      BY <2>1, <2>4, CallsBegin
    <2>5. CASE \E w \in Workers : Serve(w) /\ ~RetryCharge(w)
      <3>1. charges' = charges
        BY <2>5 DEF Serve, Commit, EnterBlocks, CreateNext, RetryPick, RetryLock, RetryTake
      <3> QED
        BY <2>1, <3>1
    <2>6. CASE \E w \in Workers, b \in bookings : UpdateBookingStatus(w, b)
      <3>1. charges' = charges
        BY <2>6 DEF UpdateBookingStatus, Begin
      <3> QED
        BY <2>1, <3>1
    <2>7. CASE \E w \in Crashing : Crash(w)
      <3>1. charges' = charges
        BY <2>7 DEF Crash
      <3> QED
        BY <2>1, <3>1
    <2> QED
      BY <2>2, <2>3, <2>4, <2>5, <2>6, <2>7 DEF Next
  <1>2. [][A]_vars => ChargesOpenJob
    BY DEF ChargesOpenJob
  <1> HIDE DEF A
  <1> QED
    BY <1>1, <1>2, DeskInvariance, PTL DEF Spec

(* The time for which the desk approves or assigns a nanny holds no other     *)
(* live booking of hers when the booking is written, although the handler     *)
(* asked her calendar before (_is_nanny_available).                           *)
THEOREM AssignedWhereFree ==
    ASSUME Alone
    PROVE  Spec => AssignedApart
  <1> DEFINE A == \A w \in Workers :
                    LET s == sess[w] IN
                    s.phase = "commit" /\ bookings' # bookings =>
                       \A k \in s.after, c \in bookings' \ s.adds :
                          Live(c) /\ c.nanny = k.nanny => ~Overlaps(c.window, k.window)
  <1>1. DeskInv /\ [Next]_vars => [A]_vars
    <2> SUFFICES ASSUME DeskInv, Next, NEW w \in Workers, sess[w].phase = "commit",
                        bookings' # bookings, NEW k \in sess[w].after,
                        NEW c \in bookings' \ sess[w].adds, Live(c), c.nanny = k.nanny
                 PROVE  ~Overlaps(c.window, k.window)
      OBVIOUS
    <2> DEFINE s == sess[w]
    <2>1. s # Idle /\ AfterApart(s, bookings)
      BY DEF DeskInv, SessionFits, Commits, Idle
    <2>2. Commit(w)
      <3>1. \A v \in Workers : v = w
        BY DEF Alone
      <3>2. ~ParentCalls(w) /\ ~AdminCalls(w)
        BY <2>1, CallsBegin
      <3>3. Serve(w) => Commit(w)
        BY DEF Serve, EnterBlocks, CreateNext, RetryPick, RetryLock, RetryCharge, RetryTake
      <3>4. /\ \A b \in bookings : ~UpdateBookingStatus(w, b)
            /\ \A r \in Used : ~Accept(w, r)
        BY <2>1 DEF UpdateBookingStatus, Begin, Accept
      <3>5. \A v \in Crashing : ~Crash(v)
        BY DEF Crash
      <3> QED
        BY <3>1, <3>2, <3>3, <3>4, <3>5 DEF Next
    <2>3. bookings' = BookingsAfter(s, bookings)
      BY <2>2 DEF Commit, Written, BookingsAfter
    <2>4. c \in bookings
      <3>1. \A b \in s.cancels \cap bookings : ~Live(Cancelled(b))
        BY DEF DeskInv, Good, BookingType, Cancelled, Live
      <3> QED
        BY <2>3, <3>1 DEF BookingsAfter
    <2> QED
      BY <2>1, <2>4 DEF AfterApart
  <1>2. [][A]_vars => AssignedApart
    BY DEF AssignedApart
  <1> HIDE DEF A
  <1> QED
    BY <1>1, <1>2, DeskInvariance, PTL DEF Spec

=============================================================================
