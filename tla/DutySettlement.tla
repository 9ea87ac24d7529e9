--------------------------- MODULE DutySettlement ---------------------------
(* From check-in to payout (src/app/routers/public.py, src/app/services/      *)
(* payout.py): the nanny reports when she came and left, the parent confirms, *)
(* corrects or denies both times, undelivered service is refunded, overtime   *)
(* is charged, and after a hold a scheduled run transfers the wage.           *)
(*                                                                            *)
(* A handler reads a booking, may call Paystack, and commits; the commit      *)
(* writes the columns it changed.  A payout run reads all due bookings,       *)
(* transfers one after the other and commits once at the end.                 *)
(*                                                                            *)
(* Times are ticks since the scheduled start and money is in wages per tick.  *)
(* Fees, geofence, notifications, the request's own status and the weights    *)
(* and demerits of cancellations are left out.                                *)
EXTENDS Integers, FiniteSets, FiniteSetsExt, Functions

CONSTANTS
    Bookings,
    Requested,    \* the bookings created by a paid request, at a wage
    Handlers,     \* workers serving HTTP requests
    Runners,      \* workers running the payout job
    Scheduled,    \* ticks of the scheduled duty
    LateShare,    \* what the nanny keeps of a late-cancelled booking
    InitialDebt,  \* what the nanny owes
    Calls,        \* the requests that users make in an instance
    MaxCalls,     \* bound on the calls of one kind that Paystack executes
    Crashing,     \* the workers that may crash
    LostReplies   \* may Paystack's answer be lost after it executed a call?

ASSUME BookingsTyped == IsFiniteSet(Bookings) /\ Requested \subseteq Bookings
ASSUME AmountsTyped ==
    /\ Scheduled \in Nat \ {0} /\ LateShare \in 0..Scheduled
    /\ InitialDebt \in Nat /\ MaxCalls \in Nat \ {0} /\ LostReplies \in BOOLEAN
ASSUME WorkersTyped ==
    Handlers \cap Runners = {} /\ Crashing \subseteq Handlers \cup Runners

VARIABLES
    row,     \* committed bookings rows
    keeps,   \* nanny_retained_cents of the booking's request
    debt,    \* balance of the nanny's debts
    ledger,  \* what Paystack did for a booking
    sess,    \* the session each handler runs
    run      \* the run each payout worker is in

vars == <<row, keeps, debt, ledger, sess, run>>

Unset == -1
Times == 0..(Scheduled + 1)
Amount == Unset..Scheduled
Rate(b) == IF b \in Requested THEN 1 ELSE 0
LeastOf(m, n) == IF m < n THEN m ELSE n
Positive(n) == IF n > 0 THEN n ELSE 0

----------------------------------------------------------------------------
(* Bookings                                                                  *)

Hold == {"none", "running", "elapsed"}

Row == [status : {"approved", "accepted", "awaiting_time_confirmation",
                  "awaiting_overtime_approval", "admin_review", "completed",
                  "cancelled"},
        checkIn : Times \cup {Unset}, checkOut : Times \cup {Unset},
        inConfirmed : BOOLEAN, outConfirmed : BOOLEAN,
        payout : Amount, deducted : Amount, refundRef : BOOLEAN,
        overrun : {"none", "awaiting_parent", "queried", "charged"},
        overrunAmount : 0..1, overrunDisputed : BOOLEAN,
        overrunHold : Hold, overrunReleased : BOOLEAN,
        hold : Hold, released : BOOLEAN, disputed : BOOLEAN,
        queryHold : BOOLEAN, parentNoShow : BOOLEAN]

NewRow(b) ==
    [status |-> IF b \in Requested THEN "approved" ELSE "accepted",
     checkIn |-> Unset, checkOut |-> Unset,
     inConfirmed |-> FALSE, outConfirmed |-> FALSE,
     payout |-> Unset, deducted |-> 0, refundRef |-> FALSE,
     overrun |-> "none", overrunAmount |-> 0, overrunDisputed |-> FALSE,
     overrunHold |-> "none", overrunReleased |-> FALSE,
     hold |-> "none", released |-> FALSE, disputed |-> FALSE,
     queryHold |-> FALSE, parentNoShow |-> FALSE]

(* The unit of work writes a column that changed, or that was set to a new    *)
(* timestamp although its value in this model is the same.                    *)
Flush(read, new, stamped, db) ==
    [c \in DOMAIN db |->
       IF new[c] = read[c] /\ c \notin stamped THEN db[c] ELSE new[c]]

(* Mutant: late and early minutes may exceed the scheduled ones.             *)
BillableUnclamped(x) == Scheduled - x.checkIn - Positive(Scheduled - x.checkOut)

Billable(x) ==
    Positive(Scheduled - x.checkIn - Positive(Scheduled - x.checkOut))

Overtime(x) == Positive(x.checkOut - Scheduled)

RefundDue(b, x) == Rate(b) * (Scheduled - Billable(x))

(* Mutant: the payout is left as it was when a time is corrected.            *)
RecalculatedOnce(b, x) ==
    IF Unset \in {x.checkIn, x.checkOut} THEN [x EXCEPT !.payout = Unset]
    ELSE [x EXCEPT !.payout = IF @ = Unset THEN Rate(b) * Billable(x) ELSE @,
                   !.overrun = IF Overtime(x) = 0 THEN "none" ELSE @,
                   !.overrunAmount = IF Overtime(x) = 0 THEN 0 ELSE @]

Recalculated(b, x) ==
    IF Unset \in {x.checkIn, x.checkOut} THEN [x EXCEPT !.payout = Unset]
    ELSE [x EXCEPT !.payout = Rate(b) * Billable(x),
                   !.overrun = IF Overtime(x) = 0 THEN "none" ELSE @,
                   !.overrunAmount = IF Overtime(x) = 0 THEN 0 ELSE @]

Confirmed(x) == x.inConfirmed /\ x.outConfirmed

(* Mutant: the refund reference is not looked at.                            *)
NeedsRefundAgain(b, x) == Confirmed(x) /\ RefundDue(b, x) > 0

NeedsRefund(b, x) == Confirmed(x) /\ RefundDue(b, x) > 0 /\ ~x.refundRef

(* _finalize_service_adjustment, after the refund call if there is one.      *)
Completes(b, x) ==
    /\ Confirmed(x)
    /\ Recalculated(b, x).overrun \notin {"awaiting_parent", "queried"}
    /\ x.status # "admin_review"

Finalized(b, x) ==
    IF Completes(b, x)
    THEN [Recalculated(b, x) EXCEPT !.status = "completed", !.hold = "running"]
    ELSE Recalculated(b, x)

----------------------------------------------------------------------------
(* Sessions of the handlers                                                  *)

Columns == DOMAIN NewRow(CHOOSE b \in Bookings : TRUE)

Session(b) == [phase : {"write", "refund", "charge"}, booking : {b},
               seen : Row, new : Row, stamped : SUBSET Columns,
               keep : Amount]

Idle == [phase |-> "idle"]

(* Rows that a payout run has written and not yet committed are locked.      *)
Unlocked(b) == \A k \in Runners : run[k].phase # "idle" => b \notin run[k].written

Work(h, b, phase, new, stamped, keep) ==
    sess' = [sess EXCEPT ![h] =
               [phase |-> phase, booking |-> b, seen |-> row[b], new |-> new,
                stamped |-> stamped, keep |-> keep]]

Write(h, b, new) == Work(h, b, "write", new, {}, Unset)

(* A parent's answer on a time: the booking is settled if both are confirmed. *)
Settle(h, b, x, stamped) ==
    IF NeedsRefund(b, x)
    THEN Work(h, b, "refund", x, stamped, Unset)
    ELSE Work(h, b, "write", Finalized(b, x),
              stamped \cup (IF Completes(b, x) THEN {"hold"} ELSE {}), Unset)

CheckIn(h, b) ==
    /\ row[b].status \in {"approved", "accepted"} /\ row[b].checkIn = Unset
    /\ \E t \in 0..(Scheduled - 1) :
          Write(h, b, Recalculated(b, [row[b] EXCEPT !.checkIn = t,
                                                     !.status = "accepted"]))

(* A check-in that the parent corrected may lie after the check-out.          *)
CheckOut(h, b) ==
    /\ row[b].status = "accepted"
    /\ row[b].checkIn # Unset /\ row[b].checkOut = Unset
    /\ \E t \in Times :
          /\ t >= row[b].checkIn \/ row[b].inConfirmed
          /\ LET x == Recalculated(b, [row[b] EXCEPT !.checkOut = t]) IN
             IF Overtime(x) > 0
             THEN Write(h, b, [x EXCEPT !.overrun = "awaiting_parent",
                                        !.overrunAmount = Overtime(x),
                                        !.status = "awaiting_overtime_approval",
                                        !.hold = "none"])
             ELSE Write(h, b, [x EXCEPT !.overrun = "none", !.hold = "none",
                                        !.status = "awaiting_time_confirmation"])

ConfirmCheckIn(h, b) ==
    /\ row[b].checkIn # Unset
    /\ \E t \in Times :
          /\ t = row[b].checkIn \/ row[b].checkOut = Unset \/ t < row[b].checkOut
          /\ Settle(h, b, [row[b] EXCEPT !.checkIn = t, !.inConfirmed = TRUE],
                    {"inConfirmed"})

ConfirmCheckOut(h, b) ==
    /\ row[b].checkOut # Unset
    /\ \E t \in Times :
          /\ t = row[b].checkOut \/ t > row[b].checkIn
          /\ Settle(h, b, [row[b] EXCEPT !.checkOut = t, !.outConfirmed = TRUE],
                    {"outConfirmed"})

(* A denied check-in takes the check-out with it.                            *)
DenyCheckIn(h, b) ==
    /\ row[b].checkIn # Unset
    /\ Write(h, b, [row[b] EXCEPT !.checkIn = Unset, !.inConfirmed = FALSE,
                                  !.checkOut = Unset, !.outConfirmed = FALSE,
                                  !.status = "admin_review", !.hold = "none",
                                  !.payout = Unset])

DenyCheckOut(h, b) ==
    /\ row[b].checkOut # Unset
    /\ Write(h, b, [row[b] EXCEPT !.checkOut = Unset, !.outConfirmed = FALSE,
                                  !.status = "admin_review", !.hold = "none",
                                  !.payout = Unset])

AgreeOvertime(h, b) ==
    /\ row[b].overrun = "awaiting_parent" /\ row[b].overrunAmount > 0
    /\ Work(h, b, "charge", row[b], {}, Unset)

QueryOvertime(h, b) ==
    /\ row[b].overrun = "awaiting_parent"
    /\ Write(h, b, [row[b] EXCEPT !.overrun = "queried", !.overrunDisputed = TRUE,
                                  !.status = "admin_review"])

DisputePayout(h, b) ==
    /\ row[b].hold = "running"
    /\ Write(h, b, [row[b] EXCEPT !.disputed = TRUE])

Over(x) == x.status \in {"completed", "cancelled"}

AsCancelled(x) == [x EXCEPT !.status = "cancelled"]

(* Before the duty a cancellation may still be free of charge.               *)
NannyCancel(h, b) ==
    /\ ~Over(row[b])
    /\ \E keep \in {0, LateShare} :
          /\ row[b].checkIn # Unset => keep = LateShare
          /\ Work(h, b, "write", AsCancelled(row[b]), {}, keep)

(* The parent may cancel the job until the end of its last day, which need    *)
(* not be the day of this booking.                                            *)
ParentCancel(h, b) ==
    /\ b \in Requested /\ row[b].status # "cancelled"
    /\ \E keep \in {0, LateShare} :
          /\ row[b].checkIn # Unset => keep = LateShare
          /\ Work(h, b, "write",
                  IF Over(row[b]) THEN row[b] ELSE AsCancelled(row[b]), {}, keep)

MarkNannyNoShow(h, b) ==
    /\ ~Over(row[b])
    /\ Work(h, b, "write", AsCancelled(row[b]), {}, 0)

MarkParentNoShow(h, b) ==
    /\ row[b].checkIn # Unset
    /\ Work(h, b, "write", [row[b] EXCEPT !.status = "completed", !.hold = "running",
                                          !.parentNoShow = TRUE],
            {"hold"}, Rate(b) * Scheduled)

(* PATCH /bookings/{id}/status.                                              *)
UpdateStatus(h, b) ==
    /\ row[b].status = "accepted"
    /\ \E target \in {"completed", "cancelled"} :
          Write(h, b, [row[b] EXCEPT !.status = target])

Receive(h, b) ==
    /\ sess[h] = Idle
    /\ \/ "duty" \in Calls /\ (CheckIn(h, b) \/ CheckOut(h, b))
       \/ "confirm" \in Calls /\ (ConfirmCheckIn(h, b) \/ ConfirmCheckOut(h, b))
       \/ "deny" \in Calls /\ (DenyCheckIn(h, b) \/ DenyCheckOut(h, b))
       \/ "overtime" \in Calls /\ (AgreeOvertime(h, b) \/ QueryOvertime(h, b))
       \/ "dispute" \in Calls /\ DisputePayout(h, b)
       \/ "cancel" \in Calls /\ (NannyCancel(h, b) \/ ParentCancel(h, b))
       \/ "admin" \in Calls /\ (MarkNannyNoShow(h, b) \/ MarkParentNoShow(h, b))
       \/ "status" \in Calls /\ UpdateStatus(h, b)
    /\ UNCHANGED <<row, keeps, debt, ledger, run>>

(* A call to Paystack: executed or not, answered or not; an unanswered call   *)
(* reads as a failed one.                                                     *)
Outcomes == {o \in [taken : BOOLEAN, answered : BOOLEAN] :
               o.answered \/ (o.taken /\ LostReplies)}

Succeeded(o) == o.taken /\ o.answered

Refund(h) ==
    LET b == sess[h].booking
        x == sess[h].new
    IN
    /\ sess[h].phase = "refund"
    /\ \E o \in Outcomes :
        /\ o.taken => ledger[b].refunds < MaxCalls
        /\ ledger' = IF o.taken
                     THEN [ledger EXCEPT ![b].refunds = @ + 1,
                                         ![b].refunded = @ + RefundDue(b, x)]
                     ELSE ledger
        /\ LET y == IF Succeeded(o) THEN [x EXCEPT !.refundRef = TRUE]
                    ELSE [x EXCEPT !.status = "admin_review"]
           IN sess' = [sess EXCEPT ![h].phase = "write",
                                   ![h].new = Finalized(b, y),
                                   ![h].stamped = @ \cup
                                      (IF Completes(b, y) THEN {"hold"} ELSE {})]
    /\ UNCHANGED <<row, keeps, debt, run>>

AsCharged(x) == [x EXCEPT !.overrun = "charged", !.overrunHold = "running",
                          !.status = "completed", !.hold = "running"]

(* After the charge the handler sets the status of the booking's request to   *)
(* a value the model rejects: with a request, the exception loses the commit. *)
ChargeOvertime(h) ==
    LET b == sess[h].booking IN
    /\ sess[h].phase = "charge"
    /\ \E o \in Outcomes :
        /\ o.taken => ledger[b].charges < MaxCalls
        /\ ledger' = IF o.taken THEN [ledger EXCEPT ![b].charges = @ + 1] ELSE ledger
        /\ sess' = [sess EXCEPT ![h] =
                      IF Succeeded(o) /\ b \notin Requested
                      THEN [@ EXCEPT !.phase = "write", !.new = AsCharged(sess[h].new),
                                     !.stamped = {"hold", "overrunHold"}]
                      ELSE Idle]
    /\ UNCHANGED <<row, keeps, debt, run>>

Commit(h) ==
    LET s == sess[h] IN
    /\ s.phase = "write"
    /\ Unlocked(s.booking)
    /\ row' = [row EXCEPT ![s.booking] = Flush(s.seen, s.new, s.stamped, @)]
    /\ keeps' = [keeps EXCEPT ![s.booking] = IF s.keep # Unset /\ s.booking \in Requested
                                         THEN s.keep ELSE @]
    /\ sess' = [sess EXCEPT ![h] = Idle]
    /\ UNCHANGED <<debt, ledger, run>>

(* A charge query is opened or, when none is left, closed: one UPDATE.        *)
QueryHold(b, held) ==
    /\ "queries" \in Calls /\ b \in Requested
    /\ row[b].queryHold # held /\ Unlocked(b)
    /\ row' = [row EXCEPT ![b].queryHold = held]
    /\ UNCHANGED <<keeps, debt, ledger, sess, run>>

HoldElapses(b) ==
    /\ "running" \in {row[b].hold, row[b].overrunHold}
    /\ LET later(t) == IF t = "running" THEN "elapsed" ELSE t IN
       row' = [row EXCEPT ![b].hold = later(@), ![b].overrunHold = later(@)]
    /\ UNCHANGED <<keeps, debt, ledger, sess, run>>

----------------------------------------------------------------------------
(* The payout run                                                            *)

NoRun == [phase |-> "idle"]

(* `read` and `view` are the run's identity map: its rows as loaded and with  *)
(* its changes; `written` the bookings it has updated, whose rows it locks;   *)
(* `balance` the debt it read for the booking in hand and `debt` what its own *)
(* deductions left of it, Unset before the first.                             *)
Loaded == UNION {[due -> Row] : due \in SUBSET Bookings}

Run == [phase : {"base", "overtime"}, step : {"next", "send", "record"},
        todo : SUBSET Bookings, read : Loaded, view : Loaded,
        booking : SUBSET Bookings, written : SUBSET Bookings,
        balance : 0..InitialDebt, debt : Unset..InitialDebt]

(* Mutant: a payout that was released is due again.                          *)
DueReleased(x) ==
    /\ x.status = "completed" /\ x.hold = "elapsed"
    /\ ~x.disputed /\ ~x.queryHold

Due(x) ==
    /\ x.status = "completed" /\ x.hold = "elapsed"
    /\ ~x.released /\ ~x.disputed /\ ~x.queryHold

OvertimeDue(x) ==
    /\ x.status = "completed" /\ x.overrunAmount > 0 /\ x.overrunHold = "elapsed"
    /\ ~x.overrunReleased /\ ~x.overrunDisputed

Gross(b, x) == IF x.payout # Unset THEN x.payout ELSE keeps[b]

Balance(k) == IF run[k].debt = Unset THEN debt ELSE run[k].debt

PayoutRead(k) ==
    /\ run[k] = NoRun
    /\ LET due == {b \in Bookings : Due(row[b])} IN
       run' = [run EXCEPT ![k] =
                 [phase |-> "base", step |-> "next", todo |-> due,
                  read |-> Restrict(row, due), view |-> Restrict(row, due),
                  booking |-> {}, written |-> {}, balance |-> 0, debt |-> Unset]]
    /\ UNCHANGED <<row, keeps, debt, ledger, sess>>

OvertimeRead(k) ==
    /\ run[k].phase = "base" /\ run[k].step = "next" /\ run[k].todo = {}
    /\ LET due == {b \in Bookings : OvertimeDue(row[b])}
           known(old) == [b \in DOMAIN old \cup due |->
                            IF b \in DOMAIN old THEN old[b] ELSE row[b]]
       IN run' = [run EXCEPT ![k].phase = "overtime", ![k].todo = due,
                             ![k].read = known(@), ![k].view = known(@)]
    /\ UNCHANGED <<row, keeps, debt, ledger, sess>>

(* A booking without an amount to pay is passed over.                        *)
PassOver(k, b) ==
    /\ run[k].phase = "base" /\ run[k].step = "next" /\ b \in run[k].todo
    /\ Gross(b, run[k].view[b]) = 0
    /\ run' = [run EXCEPT ![k].todo = @ \ {b}]
    /\ UNCHANGED <<row, keeps, debt, ledger, sess>>

(* deduct_debt_from_payout: first the debt, then the nanny.                   *)
Deduct(k, b) ==
    LET gross == Gross(b, run[k].view[b])
        cut == LeastOf(Balance(k), gross)
    IN
    /\ run[k].phase = "base" /\ run[k].step = "next" /\ b \in run[k].todo
    /\ gross > 0
    /\ run' = [run EXCEPT ![k].todo = @ \ {b}, ![k].booking = {b},
                          ![k].step = "send", ![k].balance = Balance(k),
                          ![k].view[b].payout = gross - cut,
                          ![k].view[b].deducted = cut]
    /\ UNCHANGED <<row, keeps, debt, ledger, sess>>

TakeOvertime(k, b) ==
    /\ run[k].phase = "overtime" /\ run[k].step = "next" /\ b \in run[k].todo
    /\ run' = [run EXCEPT ![k].todo = @ \ {b}, ![k].booking = {b}, ![k].step = "send"]
    /\ UNCHANGED <<row, keeps, debt, ledger, sess>>

Deducts(k, b) == run[k].phase = "base" /\ run[k].view[b].deducted > 0

(* The changes so far are flushed before the call: rows that another run has  *)
(* written are waited for.                                                    *)
MayFlush(k, b) ==
    \A j \in Runners \ {k} : run[j].phase # "idle" =>
        /\ run[k].view[b] # run[k].read[b] => b \notin run[j].written
        /\ Deducts(k, b) => run[j].debt = Unset

(* Mutant: the transfer is not noted on the booking.                         *)
TransferredUnmarked(k, b) ==
    [run[k] EXCEPT
       !.step = "record",
       !.debt = IF Deducts(k, b) THEN run[k].balance - run[k].view[b].deducted ELSE @]

Transferred(k, b) ==
    [run[k] EXCEPT
       !.step = "record",
       !.view[b] = IF run[k].phase = "base" THEN [@ EXCEPT !.released = TRUE]
                   ELSE [@ EXCEPT !.overrunReleased = TRUE],
       !.written = IF run[k].view[b] # run[k].read[b] THEN @ \cup {b} ELSE @,
       !.debt = IF Deducts(k, b) THEN run[k].balance - run[k].view[b].deducted ELSE @]

(* Mutant: a failed transfer leaves the debt reduced.                        *)
RolledBackIndebted(k, b) ==
    [run[k] EXCEPT !.step = "next", !.booking = {}, !.balance = 0,
                   !.view[b] = IF run[k].phase = "base" THEN run[k].read[b] ELSE @,
                   !.debt = IF Deducts(k, b)
                            THEN run[k].balance - run[k].view[b].deducted ELSE @]

(* A failed transfer rolls the booking back to its savepoint.                 *)
RolledBack(k, b) ==
    [run[k] EXCEPT !.step = "next", !.booking = {}, !.balance = 0,
                   !.view[b] = IF run[k].phase = "base" THEN run[k].read[b] ELSE @]

(* Mutant: a transfer that failed releases the payout, too.                   *)
TransferUnchecked(k, b) ==
    /\ run[k].phase # "idle" /\ run[k].step = "send" /\ b \in run[k].booking
    /\ MayFlush(k, b)
    /\ \E o \in Outcomes :
        /\ o.taken => ledger[b].transfers < MaxCalls
        /\ ledger' = IF o.taken THEN [ledger EXCEPT ![b].transfers = @ + 1] ELSE ledger
        /\ run' = [run EXCEPT ![k] = Transferred(k, b)]
    /\ UNCHANGED <<row, keeps, debt, sess>>

Transfer(k, b) ==
    /\ run[k].phase # "idle" /\ run[k].step = "send" /\ b \in run[k].booking
    /\ MayFlush(k, b)
    /\ \E o \in Outcomes :
        /\ o.taken => LET l == ledger[b] IN l.transfers < MaxCalls /\ l.overtimes < MaxCalls
        /\ ledger' = IF ~o.taken THEN ledger
                     ELSE IF run[k].phase = "base"
                     THEN [ledger EXCEPT ![b].transfers = @ + 1,
                                         ![b].sent = @ + run[k].view[b].payout]
                     ELSE [ledger EXCEPT ![b].overtimes = @ + 1]
        /\ run' = [run EXCEPT ![k] = IF Succeeded(o) THEN Transferred(k, b)
                                     ELSE RolledBack(k, b)]
    /\ UNCHANGED <<row, keeps, debt, sess>>

(* The savepoint is released: the row is written and locked.                  *)
Record(k) ==
    /\ run[k].phase # "idle" /\ run[k].step = "record"
    /\ \A b \in run[k].booking : MayFlush(k, b)
    /\ run' = [run EXCEPT ![k].written = @ \cup run[k].booking, ![k].step = "next",
                          ![k].booking = {}, ![k].balance = 0]
    /\ UNCHANGED <<row, keeps, debt, ledger, sess>>

PayoutCommit(k) ==
    /\ run[k].phase = "overtime" /\ run[k].step = "next" /\ run[k].todo = {}
    /\ row' = [b \in Bookings |->
                 IF b \in run[k].written
                 THEN Flush(run[k].read[b], run[k].view[b], {}, row[b])
                 ELSE row[b]]
    /\ debt' = Balance(k)
    /\ run' = [run EXCEPT ![k] = NoRun]
    /\ UNCHANGED <<keeps, ledger, sess>>

Crash(w) ==
    /\ \/ w \in Handlers /\ sess[w] # Idle
          /\ sess' = [sess EXCEPT ![w] = Idle] /\ UNCHANGED run
       \/ w \in Runners /\ run[w] # NoRun
          /\ run' = [run EXCEPT ![w] = NoRun] /\ UNCHANGED sess
    /\ UNCHANGED <<row, keeps, debt, ledger>>

----------------------------------------------------------------------------
Init ==
    /\ row = [b \in Bookings |-> NewRow(b)]
    /\ keeps = [b \in Bookings |-> 0]
    /\ debt = InitialDebt
    /\ ledger = [b \in Bookings |-> [charges |-> 0, refunds |-> 0, refunded |-> 0,
                                     transfers |-> 0, sent |-> 0, overtimes |-> 0]]
    /\ sess = [h \in Handlers |-> Idle]
    /\ run = [k \in Runners |-> NoRun]

Serve(h) == Refund(h) \/ ChargeOvertime(h) \/ Commit(h)

PayoutStep(k) ==
    \/ PayoutRead(k) \/ OvertimeRead(k) \/ Record(k) \/ PayoutCommit(k)
    \/ \E b \in Bookings :
          PassOver(k, b) \/ Deduct(k, b) \/ TakeOvertime(k, b) \/ Transfer(k, b)

Environment ==
    \/ \E b \in Bookings : HoldElapses(b) \/ \E held \in BOOLEAN : QueryHold(b, held)
    \/ \E w \in Crashing : Crash(w)

Next ==
    \/ \E h \in Handlers : Serve(h) \/ \E b \in Bookings : Receive(h, b)
    \/ \E k \in Runners : PayoutStep(k)
    \/ Environment

Spec == Init /\ [][Next]_vars

(* The job is started every 30 minutes and each run goes on to its commit; a  *)
(* transfer that is tried again and again is executed and answered at last.   *)
Paying(k, b) == Transfer(k, b) /\ run'[k].step = "record"

Fairness ==
    \A k \in Runners :
        /\ WF_vars(PayoutStep(k))
        /\ \A b \in Bookings : SF_vars(Paying(k, b))

FairSpec == Spec /\ Fairness

----------------------------------------------------------------------------
(* Properties                                                                *)

Ledger == [charges : 0..MaxCalls, refunds : 0..MaxCalls,
           refunded : 0..(MaxCalls * Scheduled), transfers : 0..MaxCalls,
           sent : 0..(MaxCalls * Scheduled), overtimes : 0..MaxCalls]

(* Every variable keeps its type; a refund never exceeds what was paid for    *)
(* the duty (_recalculate_duty_financials) and no payout is negative.         *)
TypeOK ==
    /\ row \in [Bookings -> Row]
    /\ keeps \in [Bookings -> 0..Scheduled]
    /\ debt \in 0..InitialDebt
    /\ ledger \in [Bookings -> Ledger]
    /\ \A b \in Bookings : ledger[b].refunded <= ledger[b].refunds * Scheduled
    /\ \A h \in Handlers : sess[h] = Idle \/ \E b \in Bookings : sess[h] \in Session(b)
    /\ \A k \in Runners : run[k] = NoRun \/ run[k] \in Run

(* Whenever the hold of a completed, paid-for duty has been started, the      *)
(* parent has confirmed both times, or an administrator has marked the parent *)
(* absent, and until it is released the payout is the wage for the service    *)
(* delivered: _finalize_service_adjustment, the denials and the corrections.  *)
PayableForService ==
    \A b \in Requested :
        row[b].status = "completed" /\ row[b].hold # "none" /\ ~row[b].parentNoShow =>
            /\ row[b].inConfirmed /\ row[b].outConfirmed
            /\ row[b].payout = Positive(row[b].checkOut - row[b].checkIn
                                        - Positive(row[b].checkOut - Scheduled))
               \/ row[b].released

(* Undelivered service is refunded once although the parent may confirm,      *)
(* correct and confirm again: service_refund_reference.                       *)
RefundedOnce == \A b \in Bookings : ledger[b].refunds <= 1

(* A booking's wage and its overtime are each transferred at most once, and   *)
(* overtime only after the parent's card was charged for it                   *)
(* (run_scheduled_payouts, parent_agree_overtime, overrun_hold_until).        *)
PaidOnce ==
    \A b \in Bookings :
        /\ ledger[b].transfers <= 1 /\ ledger[b].overtimes <= 1
        /\ ledger[b].overtimes > 0 => ledger[b].charges > 0

(* A released payout was transferred, and released overtime too, whichever    *)
(* calls failed, whichever answers were lost and wherever a run stopped       *)
(* (payout_released_at, overrun_released_at).                                 *)
ReleasedWasPaid ==
    \A b \in Bookings :
        /\ row[b].released => ledger[b].transfers > 0
        /\ row[b].overrunReleased => ledger[b].overtimes > 0

(* What the nanny has paid off is what released payouts have withheld, also   *)
(* when transfers fail and runs stop halfway (deduct_debt_from_payout).       *)
DebtAccounted ==
    debt + MapThenSumSet(LAMBDA b : row[b].deducted, {b \in Bookings : row[b].released})
        = InitialDebt

(* A payout that stays due is released in the end.                            *)
DuePayoutReleased ==
    \A b \in Bookings : ~<>[](Due(row[b]) /\ Gross(b, row[b]) > 0)

=============================================================================
