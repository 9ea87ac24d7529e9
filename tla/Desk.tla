-------------------------------- MODULE Desk --------------------------------
(* The life of a job outside its acceptance (src/app/routers/public.py): a    *)
(* parent creates it for several nannies and changes its schedule, an         *)
(* administrator approves, rejects, reassigns or cancels it, and saving a     *)
(* card retries the charges that failed.                                      *)
(*                                                                            *)
(* A handler works on a session: `Begin` is what it reads and decides,        *)
(* `Commit` writes the columns it changed, `Block` is the second commit of    *)
(* the desk, which enters the booking in the nanny's calendar.  A worker may  *)
(* crash between any two steps.  A window is a part of a day, long enough to  *)
(* touch only its neighbours and short enough to lie in the five hours before *)
(* the next one; a request has one.                                           *)
(* Left out: e-mails, audit records, Google Calendar, notes and forms, what   *)
(* a cancellation leaves to refund (Refunds), the duty itself                 *)
(* (DutySettlement); the race for a job (BroadcastAcceptance), of which this  *)
(* module has the outcome only (Accept).                                      *)
EXTENDS Integers, FiniteSets, FiniteSetsExt

CONSTANTS
    Requests,      \* ids that booking_requests rows may get, 1 .. n
    Parents, Nannies,
    Windows,       \* parts of a day, integers
    Offered,       \* [Nannies -> SUBSET Windows]: the calendar they keep
    MaxPositions,  \* bound on the nannies a job asks for
    MaxBookings,   \* bound on the rows of bookings
    MaxEntered,    \* bound on those entered without a request
    MaxCharges,    \* bound on the charges of a request
    Workers,       \* concurrent HTTP workers
    Crashing,      \* the workers that may crash
    LostReplies,   \* may Paystack's answer be lost after it charged the card?
    Calls,         \* the endpoints called
    NoRequest, Nobody

ASSUME DeskTyped ==
    /\ Requests \subseteq Nat \ {0} /\ IsFiniteSet(Requests) /\ NoRequest = 0
    /\ Windows \subseteq Int /\ Offered \in [Nannies -> SUBSET Windows]
    /\ {MaxPositions, MaxBookings, MaxEntered, MaxCharges} \subseteq Nat
    /\ Crashing \subseteq Workers /\ LostReplies \in BOOLEAN
    /\ Nobody \notin Parents \cup Nannies \cup Workers

VARIABLES
    row,       \* committed booking_requests rows
    bookings,  \* committed bookings rows, a set of records
    blocked,   \* "blocked" nanny_availability rows
    charges,   \* how often Paystack charged the card for a request
    lock,      \* the worker that holds a job's rows FOR UPDATE
    sess       \* the session of each worker

vars == <<row, bookings, blocked, charges, lock, sess>>

----------------------------------------------------------------------------
(* Rows                                                                      *)

NoRow == [status |-> "none", job |-> NoRequest, parent |-> Nobody, nanny |-> Nobody,
          window |-> 0, positions |-> 0, reason |-> "none", accepted |-> FALSE,
          paid |-> FALSE]

Exists(r) == row[r].status # "none"
Job(j) == {r \in Requests : Exists(r) /\ row[r].job = j}
Used == {r \in Requests : Exists(r)}
NextId == 1 + Max(Used \cup {0})
Open(x) == x.status = "tbc"
Live(b) == b.status \in {"pending", "accepted", "approved"}

Overlaps(v, w) == v = w
Touches(v, w) == v - w \in -1..1
InBuffer(v, w) == v + 1 = w      \* v lies in the five hours before w

(* Mutant: only what the nanny entered herself counts.                       *)
AvailableToHer(n, w, p) ==
    /\ w \in Offered[n]
    /\ \A k \in blocked : k.nanny = n /\ k.by = "nanny" => ~Overlaps(k.window, w)

(* _is_nanny_available                                                       *)
Available(n, w, p) ==
    /\ w \in Offered[n]
    /\ \A k \in blocked : k.nanny = n => ~Overlaps(k.window, w)
    /\ \A b \in bookings : b.nanny = n /\ Live(b) =>
          /\ ~Overlaps(b.window, w)
          /\ b.parent = p \/ ~InBuffer(w, b.window)

(* The bookings of a request; without any, those of the same parent and nanny *)
(* around its time (_find_related_bookings_for_request).                      *)
Related(r) ==
    LET x == row[r]
        own == {b \in bookings : b.request = r}
    IN IF own # {} THEN own
       ELSE {b \in bookings : /\ b.parent = x.parent /\ b.nanny = x.nanny
                              /\ Touches(b.window, x.window)}

BookingOf(r, x, status) == [request |-> r, parent |-> x.parent, nanny |-> x.nanny,
                            window |-> x.window, status |-> status]

(* The columns that a session changed are written, the others keep theirs.    *)
Flush(seen, new, db) ==
    [c \in DOMAIN db |-> IF new[c] = seen[c] THEN db[c] ELSE new[c]]

----------------------------------------------------------------------------
(* Sessions                                                                  *)

Idle == [phase |-> "idle"]

(* What a handler is about to commit: rows, bookings to cancel and to add,    *)
(* blocks to remove and to add, and the blocks of a second commit.            *)
Nothing == [phase |-> "commit", seen |-> <<>>, new |-> <<>>,
            cancels |-> {}, drops |-> {}, adds |-> {}, frees |-> {}, with |-> {},
            after |-> {}, todo |-> {}]

Changing(rs, f(_)) ==
    [Nothing EXCEPT !.seen = [r \in rs |-> row[r]], !.new = [r \in rs |-> f(row[r])]]

Begin(w, s) ==
    /\ sess[w] = Idle
    /\ sess' = [sess EXCEPT ![w] = s]
    /\ UNCHANGED <<row, bookings, blocked, charges, lock>>

Free(rs) == \A r \in rs : Exists(r) => lock[row[r].job] = Nobody

Cancelled(b) == [b EXCEPT !.status = "cancelled"]

Written(s) ==
    /\ row' = [r \in Requests |->
                 IF r \in DOMAIN s.new THEN Flush(s.seen[r], s.new[r], row[r]) ELSE row[r]]
    /\ bookings' = (bookings \ (s.cancels \cup s.drops))
                   \cup {Cancelled(b) : b \in s.cancels \cap bookings} \cup s.adds
    /\ Cardinality(bookings') <= MaxBookings
    /\ blocked' = (blocked \ s.frees) \cup s.with

Commit(w) ==
    LET s == sess[w] IN
    /\ s.phase = "commit" /\ Free(DOMAIN s.new)
    /\ Written(s)
    /\ sess' = [sess EXCEPT ![w] = IF s.after = {} THEN Idle ELSE [s EXCEPT !.phase = "block"]]
    /\ UNCHANGED <<charges, lock>>

(* approve_booking_request and assign_booking_request_nanny commit twice.     *)
EnterBlocks(w) ==
    /\ sess[w].phase = "block"
    /\ blocked' = blocked \cup sess[w].after
    /\ sess' = [sess EXCEPT ![w] = Idle]
    /\ UNCHANGED <<row, bookings, charges, lock>>

Crash(w) ==
    /\ sess[w] # Idle
    /\ sess' = [sess EXCEPT ![w] = Idle]
    /\ lock' = [j \in Requests |-> IF lock[j] = w THEN Nobody ELSE lock[j]]
    /\ UNCHANGED <<row, bookings, blocked, charges>>

----------------------------------------------------------------------------
(* The parent                                                                *)

(* A job for the nannies ns, k of whom are wanted.  The audit record of each  *)
(* request commits it, so that the requests appear one by one.               *)
Create(w, p, ns, win, k) ==
    /\ "create" \in Calls
    /\ k <= Cardinality(ns) \/ Cardinality(ns) = 1
    /\ Begin(w, [phase |-> "create", todo |-> ns, job |-> NextId, next |-> NextId,
                 parent |-> p, window |-> win, positions |-> k])

CreateNext(w) ==
    LET s == sess[w] IN
    /\ s.phase = "create"
    /\ \E n \in s.todo :
        LET t == [s EXCEPT !.todo = @ \ {n}]
            x == [NoRow EXCEPT !.status = "tbc", !.job = s.job, !.parent = s.parent,
                               !.nanny = n, !.window = s.window, !.positions = s.positions]
        IN
        IF Available(n, s.window, s.parent)
        THEN /\ s.next \in Requests /\ ~Exists(s.next)
             /\ row' = [row EXCEPT ![s.next] = x]
             /\ sess' = [sess EXCEPT ![w] = IF t.todo = {} THEN Idle
                                            ELSE [t EXCEPT !.next = @ + 1]]
        ELSE /\ sess' = [sess EXCEPT ![w] = IF t.todo = {} THEN Idle ELSE t]
             /\ UNCHANGED row
    /\ UNCHANGED <<bookings, blocked, charges, lock>>

(* A request entered as paid, rejected if the nanny has one at that time.     *)
CreatePaid(w, p, n, win) ==
    LET taken == \E r \in Used : /\ row[r].nanny = n /\ row[r].status \in {"tbc", "approved"}
                                 /\ Overlaps(row[r].window, win)
        x == [NoRow EXCEPT !.status = IF taken THEN "rejected" ELSE "approved",
                           !.paid = ~taken, !.job = NextId, !.parent = p, !.nanny = n,
                           !.window = win, !.positions = 1]
    IN
    /\ "paid" \in Calls /\ NextId \in Requests
    /\ Begin(w, Changing({NextId}, LAMBDA y : x))

(* A booking entered without a request, and its status changed.               *)
CreateBooking(w, p, n, win) ==
    /\ "booking" \in Calls
    /\ Cardinality({b \in bookings : b.request = NoRequest}) < MaxEntered
    /\ Begin(w, [Nothing EXCEPT !.adds = {[request |-> NoRequest, parent |-> p, nanny |-> n,
                                           window |-> win, status |-> "pending"]}])

UpdateBookingStatus(w, b) ==
    /\ "booking" \in Calls
    /\ \E status \in {"accepted", "completed", "cancelled"} :
        /\ <<b.status, status>> \in {<<"pending", "accepted">>, <<"accepted", "completed">>,
                                     <<"accepted", "cancelled">>}
        /\ status = "accepted" =>
              \A c \in bookings \ {b} : c.nanny = b.nanny /\ c.status = "accepted"
                                           => ~Overlaps(c.window, b.window)
        /\ Begin(w, [Nothing EXCEPT !.drops = {b}, !.adds = {[b EXCEPT !.status = status]}])

Fixed(x) == x.status = "approved" \/ x.accepted

(* Mutant: only the request that the parent opened is moved.                  *)
UpdateScheduleOfOne(w, j, win) ==
    LET rs == Job(j) IN
    /\ "schedule" \in Calls
    /\ ~\E r \in rs : Fixed(row[r])
    /\ \E r \in rs : /\ Open(row[r])
                     /\ Begin(w, Changing({r}, LAMBDA x : [x EXCEPT !.window = win]))

(* The job's open requests move to another window, whether their nannies are  *)
(* available then or not (the parent confirms).                               *)
UpdateSchedule(w, j, win) ==
    LET rs == Job(j)
        open == {r \in rs : Open(row[r])}
    IN
    /\ "schedule" \in Calls
    /\ ~\E r \in rs : Fixed(row[r])
    /\ open # {}
    /\ Begin(w, Changing(open, LAMBDA x : [x EXCEPT !.window = win]))

----------------------------------------------------------------------------
(* The administrator                                                         *)

AdminBlocks(n, win) == {k \in blocked : k.nanny = n /\ k.window = win /\ k.by = "admin"}
NewBlock(n, win, by) == [nanny |-> n, window |-> win, by |-> by]

Approve(w, r) ==
    LET x == row[r] IN
    /\ "approve" \in Calls
    /\ Open(x) /\ Available(x.nanny, x.window, x.parent)
    /\ Begin(w, [Changing({r}, LAMBDA y : [y EXCEPT !.status = "approved"]) EXCEPT
                                      !.adds = {BookingOf(r, x, "approved")},
                   !.after = {NewBlock(x.nanny, x.window, "admin")}])

(* Another nanny may be entered with the rejection; she is not asked, nor is  *)
(* her calendar.                                                              *)
Reject(w, r) ==
    /\ "reject" \in Calls
    /\ Open(row[r])
    /\ \E n \in Nannies \cup {Nobody} :
        LET adds == IF n = Nobody THEN {}
                    ELSE {[BookingOf(r, row[r], "pending") EXCEPT !.nanny = n]}
        IN Begin(w, [Changing({r}, LAMBDA x : [x EXCEPT !.status = "rejected"]) EXCEPT
                       !.adds = adds])

(* The rows of the job as assign_booking_request_nanny leaves them.           *)
Assigned(r, n, q, x) ==
    IF q = r THEN [x EXCEPT !.nanny = n, !.status = "approved", !.reason = "none"]
    ELSE IF x.status = "cancelled" THEN x
    ELSE [x EXCEPT !.status = "rejected", !.reason = "filled"]

(* Mutant: the bookings of the nanny who is replaced stay.                    *)
AssignBeside(w, r, n) ==
    LET x == row[r] IN
    /\ "assign" \in Calls
    /\ Exists(r) /\ x.status # "cancelled" /\ Available(n, x.window, x.parent)
    /\ Begin(w, [Nothing EXCEPT
                                      !.seen = [q \in Job(x.job) |-> row[q]],
                   !.new = [q \in Job(x.job) |-> Assigned(r, n, q, row[q])],
                   !.adds = {[BookingOf(r, x, "approved") EXCEPT !.nanny = n]},
                   !.after = {NewBlock(n, x.window, "admin")}])

Assign(w, r, n) ==
    LET x == row[r]
        moved == x.nanny # n
        cancels == IF moved THEN {b \in Related(r) : Live(b)} ELSE {}
        own == {b \in bookings : b.request = r}
        kept == {b \in own \ cancels : Live(b)}
        fallback == {b \in bookings \ cancels :
                       /\ own = {} /\ Live(b) /\ b.parent = x.parent /\ b.nanny = n
                       /\ Touches(b.window, x.window)}
        reused == kept \cup fallback
    IN
    /\ "assign" \in Calls
    /\ Exists(r) /\ x.status # "cancelled" /\ Available(n, x.window, x.parent)
    /\ Begin(w, [Nothing EXCEPT
                                      !.seen = [q \in Job(x.job) |-> row[q]],
                   !.new = [q \in Job(x.job) |-> Assigned(r, n, q, row[q])],
                   !.cancels = cancels,
                   !.frees = IF moved THEN AdminBlocks(x.nanny, x.window) ELSE {},
                   !.drops = reused,
                   !.adds = IF reused = {}
                            THEN {[BookingOf(r, x, "approved") EXCEPT !.nanny = n]}
                            ELSE {[b EXCEPT !.nanny = n, !.status = "approved"] : b \in reused},
                   !.after = {NewBlock(n, x.window, "admin")}])

CancelJob(w, j) ==
    LET rs == {r \in Job(j) : row[r].status # "cancelled"} IN
    /\ "cancel" \in Calls
    /\ Begin(w, [Changing(rs, LAMBDA x : [x EXCEPT !.status = "cancelled"]) EXCEPT
                   !.cancels = UNION {{b \in Related(r) : Live(b)} : r \in rs},
                   !.frees = UNION {AdminBlocks(row[r].nanny, row[r].window) : r \in rs}])

----------------------------------------------------------------------------
(* Charges                                                                   *)

Filled(rows) ==
    LET taken == {r \in DOMAIN rows : /\ rows[r].status = "approved"
                                      /\ rows[r].accepted /\ rows[r].paid}
    IN /\ DOMAIN rows # {}
       /\ Cardinality(taken) >= Max({rows[r].positions : r \in DOMAIN rows})

Taken(x) == [x EXCEPT !.status = "approved", !.reason = "none", !.accepted = TRUE,
                      !.paid = TRUE]
Closed(x) == IF Open(x) THEN [x EXCEPT !.status = "rejected", !.reason = "filled"] ELSE x

(* The job's other rows once r is taken: all closed if that fills it.         *)
AfterTaking(r, rows) ==
    LET new == [q \in DOMAIN rows |-> IF q = r THEN Taken(rows[q]) ELSE rows[q]]
    IN IF Filled(new) THEN [q \in DOMAIN new |-> Closed(new[q])] ELSE new

(* The parent's open requests of other jobs at the time of r.                 *)
Competing(r) == {q \in Used : /\ row[q].parent = row[r].parent /\ row[q].job # row[r].job
                              /\ Open(row[q]) /\ Overlaps(row[q].window, row[r].window)}

JobRows(r) == [q \in Job(row[r].job) |-> row[q]]

Merge(f, g) == [q \in DOMAIN f \cup DOMAIN g |-> IF q \in DOMAIN f THEN f[q] ELSE g[q]]

(* What taking r writes, with the job's rows as the session has them.         *)
Taking(r, rows) ==
    LET others == [q \in Competing(r) |-> row[q]]
        made == Related(r)
        new == IF made = {} THEN Merge(AfterTaking(r, rows), [q \in DOMAIN others |->
                                                                Closed(others[q])])
               ELSE [rows EXCEPT ![r] = Taken(@)]
    IN [Nothing EXCEPT
          !.seen = IF made = {} THEN Merge(rows, others) ELSE rows,
          !.new = new,
          !.adds = IF made = {} THEN {BookingOf(r, row[r], "approved")} ELSE {},
          !.with = IF made = {} THEN {NewBlock(row[r].nanny, row[r].window, "nanny")} ELSE {}]

(* A nanny's acceptance, in one step: the card is charged, or is declined and *)
(* the request waits for another.  She may still accept what the desk has     *)
(* approved.                                                                  *)
Accept(w, r) ==
    LET x == row[r] IN
    /\ "accept" \in Calls /\ sess[w] = Idle
    /\ x.status \in {"tbc", "approved"} /\ ~(x.accepted /\ x.paid)
    /\ (x.status = "approved" /\ Related(r) # {}) \/ Available(x.nanny, x.window, x.parent)
    /\ ~Filled(JobRows(r)) /\ Free({r} \cup Competing(r))
    /\ \/ /\ charges[r] < MaxCharges
          /\ charges' = [charges EXCEPT ![r] = @ + 1]
          /\ Written(Taking(r, JobRows(r)))
       \/ /\ row' = [row EXCEPT ![r].reason = "payment_failed"]
          /\ UNCHANGED <<bookings, blocked, charges>>
    /\ UNCHANGED <<lock, sess>>

Waiting(p) == {r \in Used : /\ row[r].parent = p /\ Open(row[r])
                            /\ row[r].reason = "payment_failed"}

(* A parent has saved a card: every request that waits for one is retried.    *)
(* `known` is the session's identity map, emptied by each commit.             *)
Retry(w, p) ==
    /\ "retry" \in Calls
    /\ Waiting(p) # {}
    /\ Begin(w, [phase |-> "retry", todo |-> Waiting(p),
                 known |-> [r \in Waiting(p) |-> row[r]]])

Retrying(w, s) ==
    sess' = [sess EXCEPT ![w] = IF s.todo = {} THEN Idle ELSE s]

Load(known, rs) == [q \in rs |-> IF q \in DOMAIN known THEN known[q] ELSE row[q]]

(* The next request; its job's rows are locked, what the session has already  *)
(* loaded is not read again.                                                  *)
RetryPick(w) ==
    LET s == sess[w] IN
    /\ s.phase = "retry"
    /\ \E r \in s.todo :
        /\ sess' = [sess EXCEPT ![w] =
                      [phase |-> "lock", todo |-> s.todo \ {r}, request |-> r,
                       known |-> Load(s.known, DOMAIN s.known \cup {r})]]
    /\ UNCHANGED <<row, bookings, blocked, charges, lock>>

(* Mutant: the retry does not ask whether the job was filled meanwhile.       *)
FullUnchecked(rows) == FALSE
Full(rows) == Filled(rows)

RetryLock(w) ==
    LET s == sess[w]
        r == s.request
        rows == Load(s.known, Job(row[r].job))
    IN
    /\ s.phase = "lock" /\ Free({r})
    /\ IF Full(rows)
       THEN /\ row' = [row EXCEPT ![r].status = "rejected", ![r].reason = "filled"]
            /\ Retrying(w, [phase |-> "retry", todo |-> s.todo, known |-> <<>>])
            /\ UNCHANGED lock
       ELSE /\ lock' = [lock EXCEPT ![row[r].job] = w]
            /\ sess' = [sess EXCEPT ![w] = [phase |-> "charge", todo |-> s.todo,
                                            request |-> r, rows |-> rows]]
            /\ UNCHANGED row
    /\ UNCHANGED <<bookings, blocked, charges>>

Outcomes == {o \in [taken : BOOLEAN, answered : BOOLEAN] :
               o.answered \/ (o.taken /\ LostReplies)}

RetryCharge(w) ==
    LET s == sess[w]
        r == s.request
        after == [phase |-> "retry", todo |-> s.todo, known |-> <<>>]
    IN
    /\ s.phase = "charge"
    /\ \E o \in Outcomes :
        /\ o.taken => charges[r] < MaxCharges
        /\ charges' = IF o.taken THEN [charges EXCEPT ![r] = @ + 1] ELSE charges
        /\ IF o.taken /\ o.answered
           THEN sess' = [sess EXCEPT ![w] = [phase |-> "take", todo |-> s.todo,
                                             request |-> r, rows |-> s.rows]]
                /\ UNCHANGED lock
           ELSE /\ Retrying(w, after)
                /\ lock' = [lock EXCEPT ![row[r].job] = Nobody]
    /\ UNCHANGED <<row, bookings, blocked>>

RetryTake(w) ==
    LET s == sess[w]
        r == s.request
        take == Taking(r, s.rows)
    IN
    /\ s.phase = "take"
    /\ Free(DOMAIN take.new \ DOMAIN s.rows)
    /\ Written(take)
    /\ lock' = [lock EXCEPT ![row[r].job] = Nobody]
    /\ Retrying(w, [phase |-> "retry", todo |-> s.todo, known |-> <<>>])
    /\ UNCHANGED charges

----------------------------------------------------------------------------
Init ==
    /\ row = [r \in Requests |-> NoRow]
    /\ bookings = {} /\ blocked = {}
    /\ charges = [r \in Requests |-> 0]
    /\ lock = [j \in Requests |-> Nobody]
    /\ sess = [w \in Workers |-> Idle]

ParentCalls(w) ==
    \/ \E p \in Parents, win \in Windows :
        \/ \E ns \in SUBSET Nannies \ {{}}, k \in 1..MaxPositions : Create(w, p, ns, win, k)
        \/ \E n \in Nannies : CreatePaid(w, p, n, win) \/ CreateBooking(w, p, n, win)
    \/ \E j \in Used, win \in Windows : UpdateSchedule(w, j, win)
    \/ \E p \in Parents : Retry(w, p)

AdminCalls(w) ==
    \/ \E r \in Used : \/ Approve(w, r) \/ Reject(w, r)
                       \/ \E n \in Nannies : Assign(w, r, n)
    \/ \E j \in {row[r].job : r \in Used} : CancelJob(w, j)

Serve(w) == \/ Commit(w) \/ EnterBlocks(w) \/ CreateNext(w)
            \/ RetryPick(w) \/ RetryLock(w) \/ RetryCharge(w) \/ RetryTake(w)

Next ==
    \/ \E w \in Workers : \/ ParentCalls(w) \/ AdminCalls(w) \/ Serve(w)
                          \/ \E b \in bookings : UpdateBookingStatus(w, b)
                          \/ \E r \in Used : Accept(w, r)
    \/ \E w \in Crashing : Crash(w)

Spec == Init /\ [][Next]_vars

----------------------------------------------------------------------------
(* Properties                                                                *)

(* An approved request is served by the nanny it names and by no other,       *)
(* however often the desk has rejected, approved and reassigned it            *)
(* (assign_booking_request_nanny).                                            *)
ServedByAssigned ==
    \A r \in Requests : row[r].status = "approved" =>
        \A b, c \in {b \in bookings : b.request = r /\ Live(b)} :
            b.nanny = row[r].nanny /\ b = c

(* The card is charged only while the job has a position open, although a     *)
(* retry goes through a list of requests that its own charges close           *)
(* (_retry_payment_pending_for_parent).                                       *)
ChargesOpenJob ==
    [][\A r \in Requests : charges'[r] # charges[r] => ~Filled(JobRows(r))]_vars

(* The time for which the desk approves or assigns a nanny holds no other     *)
(* booking of hers (_is_nanny_available).                                     *)
AssignedApart ==
    [][\A w \in Workers :
         LET s == sess[w] IN
         s.phase = "commit" /\ bookings' # bookings =>
             \A k \in s.after, c \in bookings' \ s.adds :
                Live(c) /\ c.nanny = k.nanny => ~Overlaps(c.window, k.window)]_vars

(* The requests of a job that nannies may still accept are for one time, also *)
(* when a worker stopped while it created them (create_booking_request_bulk,  *)
(* update_parent_booking_request_schedule).                                   *)
OpenForOneTime ==
    \A r, q \in Requests :
        Open(row[r]) /\ Open(row[q]) /\ row[r].job = row[q].job => row[r].window = row[q].window

=============================================================================
