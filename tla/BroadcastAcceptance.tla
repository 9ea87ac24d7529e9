------------------------ MODULE BroadcastAcceptance ------------------------
(* A broadcast job of the booking platform: one booking_requests row per      *)
(* invited nanny, grouped by group_id, racing for `Positions` places that are *)
(* each filled by charging the parent's saved card (src/app/routers/          *)
(* public.py, src/app/services/advert_expiry.py).                             *)
(*                                                                            *)
(* Every HTTP handler is a session with the phases at which another session   *)
(* can interleave: the unlocked reads, the SELECT ... FOR UPDATE on the       *)
(* group, the Paystack call, and the commit.  Rows read by a session live in  *)
(* its ORM identity map (`seen`) and are not refreshed by a later query; a    *)
(* commit writes the columns that differ from what was read (Flush).          *)
(* Not modelled here: nanny suspension and document gates, pricing, refund    *)
(* columns, and the missing-card branch (creation requires a saved card and   *)
(* nothing clears it).                                                        *)
EXTENDS Integers, FiniteSets

CONSTANTS
    Requests,     \* booking_requests rows
    Groups,       \* broadcast jobs (group_id)
    Parents, Nannies,
    Handlers,     \* concurrent HTTP workers
    GroupOf,      \* [Requests -> Groups]
    NannyOf,      \* [Requests -> Nannies]
    ParentOf,     \* [Groups -> Parents]
    Positions,    \* [Groups -> requested_nannies_count]
    Overlaps,     \* pairs of jobs whose windows overlap
    Touches,      \* pairs whose windows overlap or meet end to start
    PreHold,      \* <<g, h>>: g's window reaches into the 5 hours before h
    Answers,      \* responses enumerated, of "deciding" and "decline"
    MaxCharges,   \* bound on successful Paystack charges per request
    LastPhase,    \* bound on how far a job's clock advances
    Crashing,     \* the workers that may crash
    LostReplies,  \* may Paystack's answer be lost after it charged the card?
    Cron,         \* the scheduler's worker
    Nobody        \* no session: the group's rows are not locked

ASSUME RequestsFinite == IsFiniteSet(Requests)
ASSUME JobsTyped ==
    /\ GroupOf \in [Requests -> Groups]
    /\ NannyOf \in [Requests -> Nannies]
    /\ ParentOf \in [Groups -> Parents]
    /\ Positions \in [Groups -> Nat \ {0}]
ASSUME WindowsTyped ==
    /\ Overlaps \subseteq Touches
    /\ Touches \subseteq Groups \X Groups
    /\ PreHold \subseteq Groups \X Groups
    /\ \A g \in Groups : <<g, g>> \in Overlaps
    /\ \A g, h \in Groups : <<g, h>> \in Overlaps => <<h, g>> \in Overlaps
ASSUME WorkersTyped ==
    /\ Cron \notin Handlers
    /\ Nobody \notin Handlers \cup {Cron}
    /\ Answers \subseteq {"deciding", "decline"}
    /\ MaxCharges \in Nat \ {0}
    /\ LastPhase \in 0..3
    /\ LostReplies \in BOOLEAN
    /\ Crashing \subseteq Handlers \cup {Cron}

VARIABLES
    row,       \* committed booking_requests rows
    booking,   \* the bookings created for a request, as one status
    blocked,   \* requests whose "blocked" nanny_availability rows exist
    charges,   \* Paystack's ledger: successful charges per request
    lock,      \* session holding the group's rows FOR UPDATE
    sess,      \* the session each worker is running
    clock      \* how near each job's start is

vars == <<row, booking, blocked, charges, lock, sess, clock>>

Workers == Handlers \cup {Cron}
Members(g) == {r \in Requests : GroupOf[r] = g}
JobOf(h) == GroupOf[sess[h].req]
SameParent(r, s) == ParentOf[GroupOf[r]] = ParentOf[GroupOf[s]]

----------------------------------------------------------------------------
(* Rows                                                                      *)

Row == [status   : {"tbc", "pending_admin", "approved", "rejected", "cancelled"},
        response : {"pending", "accepted", "declined", "deciding"},
        payment  : {"pending_payment", "paid"},
        reason   : {"none", "payment_failed", "accepted_by_nanny", "filled",
                    "expired", "other"}]

NewRow == [status |-> "tbc", response |-> "pending",
           payment |-> "pending_payment", reason |-> "none"]

Open(x) == x.status \in {"tbc", "pending_admin"}

Settled(x) == x.response = "accepted" /\ x.payment = "paid"

FillsPosition(x) == x.status = "approved" /\ Settled(x)

(* Mutant: one position too many.                                            *)
FilledLate(view, g) ==
    Cardinality({r \in Members(g) : FillsPosition(view[r])}) > Positions[g]

Filled(view, g) ==
    Cardinality({r \in Members(g) : FillsPosition(view[r])}) >= Positions[g]

(* The ORM's unit of work: only columns set to a new value are written.      *)
Flush(read, new, db) ==
    [c \in DOMAIN db |-> IF new[c] = read[c] THEN db[c] ELSE new[c]]

AsAccepted(x) == [x EXCEPT !.status = "approved", !.response = "accepted",
                           !.payment = "paid", !.reason = "accepted_by_nanny"]
AsFilled(x) == [x EXCEPT !.status = "rejected", !.reason = "filled"]
AsExpired(x) == [x EXCEPT !.status = "rejected", !.reason = "expired"]

AsDeclined(x) == [x EXCEPT !.status = "rejected", !.response = "declined",
                           !.reason = "other"]
AsDeciding(x) == [x EXCEPT !.response = "deciding"]
AsUnpaid(x) == [x EXCEPT !.reason = "payment_failed"]
AsPaid(x) == [x EXCEPT !.payment = "paid"]
AsCancelled(x) == [x EXCEPT !.status = "cancelled", !.reason = "other"]

(* The bookings of a request; failing that, any booking of the same parent   *)
(* and nanny in a window that touches the request's.                         *)
Related(r) ==
    IF booking[r] # "none" THEN {r}
    ELSE {s \in Requests : /\ booking[s] # "none"
                           /\ NannyOf[s] = NannyOf[r]
                           /\ SameParent(r, s)
                           /\ <<GroupOf[r], GroupOf[s]>> \in Touches}

(* Mutant: conflicts are looked up among the same parent's jobs only.        *)
AvailableToParent(r) ==
    \A s \in {s \in Requests : NannyOf[s] = NannyOf[r] /\ SameParent(r, s)} :
        LET pair == <<GroupOf[r], GroupOf[s]>> IN
        (s \in blocked \/ booking[s] = "live") => pair \notin Overlaps

Available(r) ==
    \A s \in {s \in Requests : NannyOf[s] = NannyOf[r]} :
        LET pair == <<GroupOf[r], GroupOf[s]>> IN
        /\ s \in blocked => pair \notin Overlaps
        /\ booking[s] = "live" =>
              /\ pair \notin Overlaps
              /\ SameParent(r, s) \/ pair \notin PreHold

CancelRelated(rs) ==
    booking' = [s \in Requests |->
                  IF booking[s] = "live" /\ \E r \in rs : s \in Related(r)
                  THEN "cancelled" ELSE booking[s]]

(* A job's clock: more than 15 hours away, nearer, started, ended.           *)
Upcoming == 0
Near == 1
InProgress == 2
Ended == 3

Started(g) == clock[g] >= InProgress
(* Mutant: a nanny who is still deciding keeps the advert open.              *)
ExpiredUnanswered(r) ==
    Open(row[r]) /\ row[r].response = "pending" /\ Started(GroupOf[r])

Expired(r) == Open(row[r]) /\ row[r].response # "accepted" /\ Started(GroupOf[r])

----------------------------------------------------------------------------
(* Sessions                                                                  *)

Unread == [r \in Requests |-> NewRow]

Session == [op    : {"idle", "accept", "deciding", "decline",
                     "cancel", "expire"},
            phase : {"none", "read", "locked", "charged", "failed"},
            req   : Requests \cup {Nobody},
            todo  : SUBSET Requests,
            seen  : [Requests -> Row]]

Idle == [op |-> "idle", phase |-> "none", req |-> Nobody, todo |-> {},
         seen |-> Unread]

(* A session that has read the rows rs and works on r or on todo.            *)
Reading(op, r, todo, rs) ==
    [op |-> op, phase |-> "read", req |-> r, todo |-> todo,
     seen |-> [s \in Requests |-> IF s \in rs THEN row[s] ELSE NewRow]]

Unlocked(rs) == \A r \in rs : lock[GroupOf[r]] = Nobody

Release(h) == [g \in Groups |-> IF lock[g] = h THEN Nobody ELSE lock[g]]

(* The guards of the accept handler, evaluated before any lock is taken.     *)
AcceptRead(h, r) ==
    /\ sess[h] = Idle
    /\ Open(row[r]) \/ row[r].status = "approved"
    /\ ~Settled(row[r])
    /\ ~Started(GroupOf[r])
    /\ \/ row[r].status = "approved" /\ Related(r) # {}
       \/ Available(r)
    /\ sess' = [sess EXCEPT ![h] = Reading("accept", r, {}, {r})]
    /\ UNCHANGED <<row, booking, blocked, charges, lock, clock>>

(* SELECT ... FOR UPDATE on the group: rows the session has not loaded yet   *)
(* come back as committed, the loaded ones keep the values it read.          *)
Locked(h, loaded) ==
    [s \in Requests |->
       IF GroupOf[s] = JobOf(h) /\ s \notin loaded THEN row[s]
       ELSE sess[h].seen[s]]

(* Mutant: a plain SELECT, without FOR UPDATE.                               *)
LockGroupUnqueued(h) ==
    LET view == Locked(h, {sess[h].req}) IN
    /\ sess[h].op = "accept" /\ sess[h].phase = "read"
    /\ IF Filled(view, JobOf(h))
       THEN sess' = [sess EXCEPT ![h] = Idle]
       ELSE sess' = [sess EXCEPT ![h].phase = "locked", ![h].seen = view]
    /\ UNCHANGED <<row, booking, blocked, charges, lock, clock>>

LockGroup(h) ==
    LET view == Locked(h, {sess[h].req}) IN
    /\ sess[h].op = "accept" /\ sess[h].phase = "read"
    /\ lock[JobOf(h)] = Nobody
    /\ IF Filled(view, JobOf(h))
       THEN sess' = [sess EXCEPT ![h] = Idle] /\ UNCHANGED lock
       ELSE /\ sess' = [sess EXCEPT ![h].phase = "locked", ![h].seen = view]
            /\ lock' = [lock EXCEPT ![JobOf(h)] = h]
    /\ UNCHANGED <<row, booking, blocked, charges, clock>>

(* Paystack charges the card or declines it; with LostReplies it may charge  *)
(* the card and the handler's request time out, which reads as a decline.    *)
Charge(h) ==
    /\ sess[h].phase = "locked"
    /\ \E taken, answered \in BOOLEAN :
        /\ answered \/ (taken /\ LostReplies)
        /\ taken => charges[sess[h].req] < MaxCharges
        /\ charges' = IF taken THEN [charges EXCEPT ![sess[h].req] = @ + 1]
                      ELSE charges
        /\ sess' = [sess EXCEPT ![h].phase =
                      IF taken /\ answered THEN "charged" ELSE "failed"]
    /\ UNCHANGED <<row, booking, blocked, lock, clock>>

(* What a paid acceptance writes: its own row, bookings when none are        *)
(* related, the siblings of a group it fills, the parent's rival requests.   *)
Accepted(h) == [sess[h].seen EXCEPT ![sess[h].req] = AsAccepted(@)]

(* Mutant: the first acceptance closes the job's other invitations.          *)
SiblingsAll(h) ==
    IF Related(sess[h].req) = {}
    THEN {s \in Members(JobOf(h)) : Open(Accepted(h)[s])}
    ELSE {}

Siblings(h) ==
    IF Related(sess[h].req) = {} /\ Filled(Accepted(h), JobOf(h))
    THEN {s \in Members(JobOf(h)) : Open(Accepted(h)[s])}
    ELSE {}

Rivals(h) ==
    IF Related(sess[h].req) = {}
    THEN {s \in Requests : /\ GroupOf[s] # JobOf(h)
                           /\ SameParent(s, sess[h].req)
                           /\ Open(row[s])
                           /\ <<JobOf(h), GroupOf[s]>> \in Overlaps}
    ELSE {}

CompleteAcceptance(h) ==
    LET r == sess[h].req IN
    /\ sess[h].phase = "charged"
    /\ Unlocked(Rivals(h))
    /\ row' = [s \in Requests |->
          IF s = r THEN Flush(sess[h].seen[s], AsAccepted(sess[h].seen[s]), row[s])
          ELSE IF s \in Siblings(h) \cup Rivals(h) THEN AsFilled(row[s])
          ELSE row[s]]
    /\ IF Related(r) = {}
       THEN /\ booking' = [booking EXCEPT ![r] = "live"]
            /\ blocked' = blocked \cup {r}
       ELSE UNCHANGED <<booking, blocked>>
    /\ lock' = Release(h)

AcceptCommit(h) ==
    /\ sess[h].op = "accept"
    /\ CompleteAcceptance(h)
    /\ sess' = [sess EXCEPT ![h] = Idle]
    /\ UNCHANGED <<charges, clock>>

(* A failed charge leaves the request open, marked for the card retry.       *)
AcceptFailed(h) ==
    LET r == sess[h].req
        old == sess[h].seen[r]
    IN
    /\ sess[h].op = "accept" /\ sess[h].phase = "failed"
    /\ row' = [row EXCEPT ![r] = Flush(old, AsUnpaid(old), @)]
    /\ lock' = Release(h)
    /\ sess' = [sess EXCEPT ![h] = Idle]
    /\ UNCHANGED <<booking, blocked, charges, clock>>

(* The transaction is lost; what Paystack charged stays charged.             *)
Rollback(h) ==
    /\ lock' = Release(h)
    /\ sess' = [sess EXCEPT ![h] = Idle]
    /\ UNCHANGED <<row, booking, blocked, charges, clock>>

WaitsFor(h, k) ==
    /\ sess[h].phase = "charged"
    /\ \E s \in Rivals(h) : lock[GroupOf[s]] = k

(* The database breaks a cycle of sessions waiting on each other's rows.     *)
DeadlockVictim(h) ==
    /\ \E cycle \in SUBSET Handlers :
        /\ h \in cycle
        /\ \A k \in cycle : /\ \E m \in cycle : WaitsFor(k, m)
                            /\ \E m \in cycle : WaitsFor(m, k)
    /\ Rollback(h)

Crash(h) == sess[h] # Idle /\ Rollback(h)

RespondRead(h, r, answer) ==
    /\ sess[h] = Idle
    /\ Open(row[r]) \/ row[r].status = "approved"
    /\ sess' = [sess EXCEPT ![h] = Reading(answer, r, {}, {r})]
    /\ UNCHANGED <<row, booking, blocked, charges, lock, clock>>

RespondCommit(h) ==
    LET r == sess[h].req
        old == sess[h].seen[r]
    IN
    /\ sess[h].op \in {"deciding", "decline"}
    /\ Unlocked({r})
    /\ IF sess[h].op = "decline"
       THEN /\ row' = [row EXCEPT ![r] = Flush(old, AsDeclined(old), @)]
            /\ CancelRelated({r})
       ELSE /\ row' = [row EXCEPT ![r] = Flush(old, AsDeciding(old), @)]
            /\ UNCHANGED booking
    /\ sess' = [sess EXCEPT ![h] = Idle]
    /\ UNCHANGED <<blocked, charges, lock, clock>>

(* The parent cancels a job: every row of it that is not yet cancelled.      *)
CancelRead(h, g) ==
    LET live == {r \in Members(g) : row[r].status # "cancelled"} IN
    /\ sess[h] = Idle
    /\ clock[g] # Ended
    /\ live # {}
    /\ sess' = [sess EXCEPT ![h] = Reading("cancel", Nobody, live, live)]
    /\ UNCHANGED <<row, booking, blocked, charges, lock, clock>>

(* One commit for the whole job, except that within 15 hours of the start    *)
(* each row's late-cancellation weight commits what is written so far; the   *)
(* rows still to do are then read afresh.                                    *)
CancelCommit(h) ==
    /\ sess[h].op = "cancel"
    /\ \E now \in SUBSET sess[h].todo :
        /\ IF \E r \in sess[h].todo : clock[GroupOf[r]] >= Near
           THEN Cardinality(now) = 1
           ELSE now = sess[h].todo
        /\ Unlocked(now)
        /\ row' = [r \in Requests |->
                     IF r \in now
                     THEN Flush(sess[h].seen[r], AsCancelled(sess[h].seen[r]), row[r])
                     ELSE row[r]]
        /\ CancelRelated(now)
        /\ LET rest == {r \in sess[h].todo \ now : row[r].status # "cancelled"} IN
           sess' = [sess EXCEPT ![h] =
                      IF rest = {} THEN Idle
                      ELSE Reading("cancel", Nobody, rest, rest)]
    /\ UNCHANGED <<blocked, charges, lock, clock>>

(* The scheduled sweep over open adverts whose start has passed.             *)
ExpireRead ==
    LET stale == {r \in Requests : Expired(r)} IN
    /\ sess[Cron] = Idle
    /\ sess' = [sess EXCEPT ![Cron] = Reading("expire", Nobody, stale, stale)]
    /\ UNCHANGED <<row, booking, blocked, charges, lock, clock>>

ExpireCommit ==
    /\ sess[Cron].op = "expire"
    /\ Unlocked(sess[Cron].todo)
    /\ row' = [r \in Requests |->
                 IF r \in sess[Cron].todo
                 THEN Flush(sess[Cron].seen[r], AsExpired(sess[Cron].seen[r]), row[r])
                 ELSE row[r]]
    /\ sess' = [sess EXCEPT ![Cron] = Idle]
    /\ UNCHANGED <<booking, blocked, charges, lock, clock>>

(* Mutant: an event for a request that is not approved is ignored.           *)
ChargeWebhookApproved(r) ==
    /\ charges[r] > 0 /\ row[r].status = "approved"
    /\ Unlocked({r})
    /\ row' = [row EXCEPT ![r] = AsPaid(@)]
    /\ UNCHANGED <<booking, blocked, charges, lock, sess, clock>>

(* charge.success, delivered at least once for every charge, in any order.   *)
ChargeWebhook(r) ==
    /\ charges[r] > 0
    /\ Unlocked({r})
    /\ row' = [row EXCEPT ![r] = AsPaid(@)]
    /\ UNCHANGED <<booking, blocked, charges, lock, sess, clock>>

Tick(g) ==
    /\ clock[g] < LastPhase
    /\ clock' = [clock EXCEPT ![g] = @ + 1]
    /\ UNCHANGED <<row, booking, blocked, charges, lock, sess>>

----------------------------------------------------------------------------
Init ==
    /\ row = [r \in Requests |-> NewRow]
    /\ booking = [r \in Requests |-> "none"]
    /\ blocked = {}
    /\ charges = [r \in Requests |-> 0]
    /\ lock = [g \in Groups |-> Nobody]
    /\ sess = [h \in Workers |-> Idle]
    /\ clock = [g \in Groups |-> Upcoming]

(* A request arrives: a nanny answers an invitation, a parent cancels a job.  *)
Arrive(h) ==
    \/ \E r \in Requests :
        \/ AcceptRead(h, r)
        \/ \E answer \in Answers : RespondRead(h, r, answer)
    \/ \E g \in Groups : CancelRead(h, g)

(* The next step of the session that worker h is running.                    *)
Serve(h) ==
    \/ LockGroup(h) \/ Charge(h) \/ AcceptCommit(h) \/ AcceptFailed(h)
    \/ RespondCommit(h) \/ CancelCommit(h) \/ DeadlockVictim(h)

Sweep == ExpireRead \/ ExpireCommit

Environment ==
    \/ \E r \in Requests : ChargeWebhook(r)
    \/ \E g \in Groups : Tick(g)
    \/ \E h \in Crashing : Crash(h)

Next ==
    \/ \E h \in Handlers : Arrive(h) \/ Serve(h)
    \/ Sweep
    \/ Environment

Spec == Init /\ [][Next]_vars

(* A worker keeps serving the session it runs, also one that waits for row    *)
(* locks others take in turn (Postgres queues waiters) or that the database   *)
(* picks to break a deadlock; the scheduler keeps sweeping; Paystack          *)
(* redelivers an event until it is acknowledged.  No user is obliged to act.  *)
Fairness ==
    /\ \A h \in Handlers : SF_vars(Serve(h))
    /\ SF_vars(Sweep)
    /\ \A r \in Requests : SF_vars(ChargeWebhook(r))

FairSpec == Spec /\ Fairness

----------------------------------------------------------------------------
(* Properties                                                                *)

(* Every variable stays within its type.                                     *)
TypeOK ==
    /\ row \in [Requests -> Row]
    /\ booking \in [Requests -> {"none", "live", "cancelled"}]
    /\ blocked \subseteq Requests
    /\ charges \in [Requests -> 0..MaxCharges]
    /\ lock \in [Groups -> Handlers \cup {Nobody}]
    /\ sess \in [Workers -> Session]
    /\ clock \in [Groups -> Upcoming..Ended]

Fillers(g) == {r \in Members(g) : FillsPosition(row[r])}

(* However the handlers interleave, a job never has more paid acceptances    *)
(* than positions: the FOR UPDATE lock and the check under it suffice, also  *)
(* against crashes, lost Paystack replies, stale rows and webhooks.          *)
NoOverfill == \A g \in Groups : Cardinality(Fillers(g)) <= Positions[g]

(* A booking that still stands was paid for, in the database and at Paystack.*)
LiveBookingPaid ==
    \A r \in Requests :
        booking[r] = "live" => row[r].payment = "paid" /\ charges[r] > 0

(* From the row lock to the commit a session works on the job as committed:  *)
(* it alone holds the rows, its view of the other invitations is current,    *)
(* and in that view the job still has an open position.                      *)
Holding(h) == sess[h].phase \in {"locked", "charged", "failed"}

LockedViewCurrent ==
    \A h \in Workers : Holding(h) =>
        /\ sess[h].req \in Requests
        /\ lock[JobOf(h)] = h
        /\ \A s \in Members(JobOf(h)) \ {sess[h].req} : sess[h].seen[s] = row[s]
        /\ ~Filled(sess[h].seen, JobOf(h))
        /\ sess[h].phase = "charged" => charges[sess[h].req] > 0

(* Payment is never taken back, and no one is accepted without it.           *)
PaymentKept ==
    /\ \A r \in Requests : row[r].response = "accepted" => row[r].payment = "paid"
    /\ \A h \in Workers, r \in Requests :
          sess[h].seen[r].payment = "paid" => row[r].payment = "paid"

(* An accept session works on a request.                                     *)
AcceptsRequest == \A h \in Workers : sess[h].op = "accept" => sess[h].req \in Requests

(* The inductive invariant behind NoOverfill and LiveBookingPaid.            *)
IInv ==
    /\ TypeOK /\ NoOverfill /\ LiveBookingPaid
    /\ LockedViewCurrent /\ PaymentKept /\ AcceptsRequest

(* A card is charged for a nanny only while the other nannies of the job     *)
(* leave a position open.                                                    *)
ChargeOnlyOpenPosition ==
    [][\A r \in Requests :
          charges'[r] # charges[r] =>
              Cardinality(Fillers(GroupOf[r]) \ {r}) < Positions[GroupOf[r]]]_vars

(* A job's positions are reserved before they are paid for: the handlers     *)
(* implement ReservedPositions, in which nobody else takes or leaves a       *)
(* position of the job from the row lock until the acceptance has one, or    *)
(* has given it up; what was charged by then stays charged.                  *)
Filling == {r \in Requests : FillsPosition(row[r])}
Accepting == {sess[h].req : h \in {k \in Workers : Holding(k)}}

Reserving == INSTANCE ReservedPositions
            WITH served <- Filling, reserved <- Accepting, paid <- charges

ImplementsReservations == Reserving!Spec

(* A request is closed as "filled" only in the step that fills its job, or   *)
(* that accepts an overlapping job of the same parent.                       *)
ClosedOnlyWhenFull ==
    [][\A r \in Requests :
          row[r].reason # "filled" /\ row'[r].reason = "filled" =>
              \/ Filled(row', GroupOf[r])
              \/ \E s \in Requests :
                    /\ GroupOf[s] # GroupOf[r] /\ SameParent(r, s)
                    /\ <<GroupOf[s], GroupOf[r]>> \in Overlaps
                    /\ FillsPosition(row'[s]) /\ ~FillsPosition(row[s])]_vars

(* One nanny is never booked for two overlapping jobs.                       *)
NoDoubleBooking ==
    \A r, s \in Requests :
        /\ r # s /\ NannyOf[r] = NannyOf[s]
        /\ <<GroupOf[r], GroupOf[s]>> \in Overlaps
        => ~(booking[r] = "live" /\ booking[s] = "live")

(* An advert whose start has passed does not stay open: the sweep closes it. *)
ExpiredEventuallyClosed ==
    \A r \in Requests :
        Started(GroupOf[r]) /\ Open(row[r]) ~> ~Open(row[r])

(* Every charge is eventually recorded as paid, even when the handler that   *)
(* made it crashed, lost Paystack's answer or was rolled back.               *)
ChargeEventuallyRecorded ==
    \A r \in Requests : charges[r] > 0 ~> row[r].payment = "paid"

============================================================================
