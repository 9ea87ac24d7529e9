------------------------------ MODULE Refunds ------------------------------
(* Money going back to the parent (src/app/routers/admin.py, public.py,       *)
(* src/app/services/charge_disputes.py, cancellation.py): cancellations leave *)
(* a refund for review, parents query single charges, finance approves or     *)
(* denies, Paystack executes refunds later and reports their end by webhook.  *)
(*                                                                            *)
(* A handler reads, may call Paystack, and commits the columns it changed.    *)
(* Paystack's ledger and its events are external: an event may be delivered   *)
(* at any time after the refund ended and any number of times.                *)
(* Left out: e-mails, reasons, the audit log; a job's rows that were not paid *)
(* for (they are filtered out where money moves).                             *)
EXTENDS Integers, FiniteSets, FiniteSetsExt, Sequences, SequencesExt

CONSTANTS
    Requests,     \* paid booking_requests rows; their ids
    JobOf,        \* [Requests -> jobs]
    Wage, Fee,    \* [Requests -> cents]: total_cents is their sum
    Overtime,     \* [Requests -> cents]: charged for the request's booking
    Queries,      \* charge_disputes rows that may be created
    Workers,      \* concurrent HTTP workers
    MaxRefunds,   \* bound on the refunds Paystack accepts
    MaxReviews,   \* bound on the decisions finance takes on queries
    Crashing,     \* the workers that may crash
    LostReplies,  \* may Paystack's answer be lost after it accepted a refund?
    NoRequest, NoQuery

ASSUME RequestsTyped ==
    /\ Requests \subseteq Nat /\ IsFiniteSet(Requests)
    /\ Wage \in [Requests -> Nat] /\ Fee \in [Requests -> Nat]
    /\ Overtime \in [Requests -> Nat] /\ DOMAIN JobOf = Requests
    /\ NoRequest \notin Requests /\ NoQuery \notin Queries /\ IsFiniteSet(Queries)
ASSUME WorkersTyped ==
    Crashing \subseteq Workers /\ LostReplies \in BOOLEAN /\ {MaxRefunds, MaxReviews} \subseteq Nat

VARIABLES
    request,   \* committed refund columns of booking_requests
    query,     \* committed charge_disputes rows
    hold,      \* charge_dispute_hold of each job's bookings
    ledger,    \* the refunds Paystack accepted, in order; the index is the reference
    sess       \* the session each worker runs

vars == <<request, query, hold, ledger, sess>>

Jobs == {JobOf[r] : r \in Requests}
Rows(j) == {r \in Requests : JobOf[r] = j}
Total(r) == Wage[r] + Fee[r]
NoRef == 0
Unset == -1

----------------------------------------------------------------------------
(* calculate_cancellation_outcome                                            *)

(* n * percent / 100 rounded half up.                                        *)
Share(n, percent) == (n * percent + 50) \div 100

Scenario == {"A", "B", "C"}   \* more than 24 hours, 15 to 24, less than 15

(* Mutant: the nanny's share is taken off again between 15 and 24 hours.     *)
RetainedEarly(wage, fee, scenario) ==
    CASE scenario = "A" -> [company |-> 0, nanny |-> 0]
      [] scenario = "B" -> [company |-> Share(fee, 75), nanny |-> Share(wage, 30)]
      [] scenario = "C" -> [company |-> Share(fee, 50), nanny |-> Share(wage, 30)]

Retained(wage, fee, scenario) ==
    CASE scenario = "A" -> [company |-> 0, nanny |-> 0]
      [] scenario = "B" -> [company |-> Share(fee, 50), nanny |-> 0]
      [] scenario = "C" -> [company |-> Share(fee, 75), nanny |-> Share(wage, 30)]

ParentRefund(wage, fee, scenario) ==
    LET kept == Retained(wage, fee, scenario) IN wage + fee - kept.company - kept.nanny

----------------------------------------------------------------------------
(* Rows                                                                      *)

Items == {"nanny_wage", "booking_fee", "overtime", "other"}

NewRequest == [status |-> "approved", refund |-> "none", cents |-> 0, kept |-> Unset,
               ref |-> NoRef]

NewQuery == [status |-> "unused", request |-> NoRequest, item |-> "other", charge |-> 0,
             disputed |-> 0, approved |-> 0, ref |-> NoRef, reviewed |-> 0]

Charge(r, item) == CASE item = "nanny_wage" -> Wage[r]
                     [] item = "booking_fee" -> Fee[r]
                     [] item = "overtime" -> Overtime[r]
                     [] item = "other" -> Total(r)

(* ACTIVE_DISPUTE_STATUSES                                                   *)
Active(x) == x.status \in {"open", "refund_requested", "failed"}

(* Mutant: the hold follows the query at hand only.                          *)
HeldByThis(q, x) == Active(x)

(* refresh_booking_dispute_holds, with the session's own change of q to x.   *)
Held(q, x) ==
    \/ Active(x)
    \/ \E p \in Queries \ {q} : /\ Active(query[p])
                                /\ JobOf[query[p].request] = JobOf[x.request]

Flush(read, new, db) ==
    [c \in DOMAIN db |-> IF new[c] = read[c] THEN db[c] ELSE new[c]]

----------------------------------------------------------------------------
(* Sessions                                                                  *)

Idle == [phase |-> "idle"]

(* A session that is to change query q, or the refund columns of request r.  *)
OnQuery(phase, q, new) ==
    [phase |-> phase, on |-> "query", id |-> q, seen |-> query[q], new |-> new,
     hold |-> Held(q, new)]
OnRequest(phase, r, new) ==
    [phase |-> phase, on |-> "request", id |-> r, seen |-> request[r], new |-> new]

Begin(w, s) ==
    /\ sess[w] = Idle
    /\ sess' = [sess EXCEPT ![w] = s]
    /\ UNCHANGED <<request, query, hold, ledger>>

(* A parent queries a charge of a job: of an approved row if there is one.    *)
OpenQuery(w, j, q) ==
    LET approved == {r \in Rows(j) : request[r].status = "approved"}
        r == Min(IF approved # {} THEN approved ELSE Rows(j))
    IN
    /\ query[q].status = "unused"
    /\ \A v \in Workers : sess[v] # Idle => sess[v].id # q
    /\ \E item \in Items : \E amount \in 1..Charge(r, item) :
          /\ \A p \in Queries : Active(query[p]) /\ JobOf[query[p].request] = j
                                   => query[p].item # item
          /\ Begin(w, OnQuery("write", q,
                [NewQuery EXCEPT !.status = "open", !.request = r, !.item = item,
                                 !.charge = Charge(r, item), !.disputed = amount]))

(* What finance has committed to refund on the transaction of x, without q.   *)
Committed(q, x) ==
    LET others == {p \in Queries \ {q} : /\ query[p].request = x.request
                                         /\ query[p].status \in {"refund_requested",
                                                                 "refunded"}}
        own == request[x.request]
    IN MapThenSumSet(LAMBDA p : query[p].approved, others)
       + IF own.refund \in {"pending", "processed"} THEN own.cents ELSE 0

(* The time of the next decision; later decisions compare greater.            *)
Reviews == 1 + Max({query[q].reviewed : q \in Queries})

(* Finance may still decide, and the bound on decisions is not reached.       *)
Undecided(x) == x.status \in {"open", "failed"} /\ Reviews <= MaxReviews

(* Mutant: what other queries were granted is not counted.                   *)
ApproveQueryAlone(w, q) ==
    LET x == query[q] IN
    /\ Undecided(x)
    /\ \E amount \in 1..Min({x.disputed, x.charge}) :
          /\ amount <= Total(x.request)
          /\ Begin(w, OnQuery("call", q, [x EXCEPT !.approved = amount,
                                                   !.reviewed = Reviews]))

ApproveQuery(w, q) ==
    LET x == query[q] IN
    /\ Undecided(x)
    /\ \E amount \in 1..Min({x.disputed, x.charge}) :
          /\ Committed(q, x) + amount <= Total(x.request)
          /\ Begin(w, OnQuery("call", q, [x EXCEPT !.approved = amount,
                                                   !.reviewed = Reviews]))

DenyQuery(w, q) ==
    /\ Undecided(query[q])
    /\ Begin(w, OnQuery("write", q, [query[q] EXCEPT !.status = "denied",
                                                     !.reviewed = Reviews]))

(* The parent, the nanny or an administrator cancels a paid request.          *)
Cancel(w, r) ==
    /\ request[r].status # "cancelled"
    /\ \E scenario \in Scenario :
          LET kept == Retained(Wage[r], Fee[r], scenario) IN
          Begin(w, OnRequest("write", r,
                [request[r] EXCEPT !.status = "cancelled", !.refund = "pending_review",
                                   !.kept = kept.company + kept.nanny,
                                   !.cents = Total(r) - kept.company - kept.nanny]))

(* The row that the refund endpoint takes is the one whose nanny is rated     *)
(* best at that time, of the approved ones if there are any.                  *)
RefundCandidates(j) ==
    LET approved == {r \in Rows(j) : request[r].status = "approved"}
    IN IF approved # {} THEN approved ELSE Rows(j)

RequestRefund(w, j) ==
    \E r \in RefundCandidates(j) :
        LET x == request[r]
            kept == IF x.kept = Unset THEN 0 ELSE x.kept
        IN
        /\ x.status = "cancelled" /\ x.refund \notin {"pending", "processed"}
        /\ \E amount \in {Total(r) - kept} \cup 1..Total(r) :
              /\ amount > 0
              /\ Begin(w, OnRequest("call", r, [x EXCEPT !.cents = amount,
                                                         !.refund = "pending"]))

Reviewable(x) == x.refund \in {"pending_review", "none"}

(* The review endpoint looks at the job's row that was updated last.          *)
ApproveRefund(w, j) == (\E r \in Rows(j) : Reviewable(request[r])) /\ RequestRefund(w, j)

DenyRefund(w, j) ==
    \E r \in Rows(j) :
        /\ Reviewable(request[r])
        /\ Begin(w, OnRequest("write", r, [request[r] EXCEPT !.refund = "denied"]))

----------------------------------------------------------------------------
(* Paystack                                                                  *)

Outcomes == {o \in [taken : BOOLEAN, answered : BOOLEAN] :
               o.answered \/ (o.taken /\ LostReplies)}

Answered(s, o, ref) ==
    LET ok == o.taken /\ o.answered IN
    IF s.on = "query"
    THEN [s.new EXCEPT !.status = IF ok THEN "refund_requested" ELSE "failed",
                       !.ref = IF ok THEN ref ELSE @]
    ELSE [s.new EXCEPT !.refund = IF ok THEN "pending" ELSE "failed",
                       !.ref = IF ok THEN ref ELSE @]

CreateRefund(w) ==
    LET s == sess[w]
        r == IF s.on = "query" THEN s.new.request ELSE s.id
        amount == IF s.on = "query" THEN s.new.approved ELSE s.new.cents
    IN
    /\ s.phase = "call"
    /\ \E o \in Outcomes :
        LET new == Answered(s, o, Len(ledger) + 1) IN
        /\ o.taken => Len(ledger) < MaxRefunds
        /\ ledger' = IF o.taken
                     THEN Append(ledger, [request |-> r, amount |-> amount,
                                          state |-> "pending"])
                     ELSE ledger
        /\ sess' = [sess EXCEPT ![w] =
                      IF s.on = "query"
                      THEN [s EXCEPT !.phase = "write", !.new = new,
                                     !.hold = Held(s.id, new)]
                      ELSE [s EXCEPT !.phase = "write", !.new = new]]
    /\ UNCHANGED <<request, query, hold>>

(* Paystack ends a refund.                                                   *)
PaystackEnds(i) ==
    /\ ledger[i].state = "pending"
    /\ \E end \in {"processed", "failed"} : ledger' = [ledger EXCEPT ![i].state = end]
    /\ UNCHANGED <<request, query, hold, sess>>

(* Mutant: every refund event counts as the refund's success.                *)
EndedAlways(i) == "processed"

Ended(i) == ledger[i].state

(* The query an event is taken for: the one with its reference, else the one  *)
(* reviewed last of those waiting for a refund on the same transaction.       *)
Concerned(i) ==
    LET referred == {q \in Queries : query[q].ref = i}
        waiting == {q \in Queries : /\ query[q].request = ledger[i].request
                                    /\ query[q].status = "refund_requested"}
    IN IF referred # {} THEN referred
       ELSE {q \in waiting : \A p \in waiting : query[p].reviewed <= query[q].reviewed}

(* refund.processed or refund.failed, delivered at least once.               *)
RefundWebhook(w, i) ==
    /\ ledger[i].state # "pending"
    /\ IF Concerned(i) # {}
       THEN \E q \in Concerned(i) :
              Begin(w, OnQuery("write", q,
                 [query[q] EXCEPT !.status = IF Ended(i) = "processed" THEN "refunded"
                                             ELSE "failed",
                                  !.ref = i]))
       ELSE Begin(w, OnRequest("write", ledger[i].request,
                 [request[ledger[i].request] EXCEPT !.refund = Ended(i), !.ref = i]))

Commit(w) ==
    LET s == sess[w] IN
    /\ s.phase = "write"
    /\ IF s.on = "query"
       THEN /\ query' = [query EXCEPT ![s.id] = Flush(s.seen, s.new, @)]
            /\ hold' = [hold EXCEPT ![JobOf[s.new.request]] = s.hold]
            /\ UNCHANGED request
       ELSE /\ request' = [request EXCEPT ![s.id] = Flush(s.seen, s.new, @)]
            /\ UNCHANGED <<query, hold>>
    /\ sess' = [sess EXCEPT ![w] = Idle]
    /\ UNCHANGED ledger

Crash(w) ==
    /\ sess[w] # Idle
    /\ sess' = [sess EXCEPT ![w] = Idle]
    /\ UNCHANGED <<request, query, hold, ledger>>

----------------------------------------------------------------------------
Init ==
    /\ request = [r \in Requests |-> NewRequest]
    /\ query = [q \in Queries |-> NewQuery]
    /\ hold = [j \in Jobs |-> FALSE]
    /\ ledger = <<>>
    /\ sess = [w \in Workers |-> Idle]

Receive(w) ==
    \/ \E j \in Jobs : \/ RequestRefund(w, j) \/ ApproveRefund(w, j) \/ DenyRefund(w, j)
                       \/ \E q \in Queries : OpenQuery(w, j, q)
    \/ \E q \in Queries : ApproveQuery(w, q) \/ DenyQuery(w, q)
    \/ \E r \in Requests : Cancel(w, r)
    \/ \E i \in DOMAIN ledger : RefundWebhook(w, i)

Next ==
    \/ \E w \in Workers : Receive(w) \/ CreateRefund(w) \/ Commit(w)
    \/ \E i \in DOMAIN ledger : PaystackEnds(i)
    \/ \E w \in Crashing : Crash(w)

Spec == Init /\ [][Next]_vars

----------------------------------------------------------------------------
(* Properties                                                                *)

(* The bookings of a job are held back from payout exactly while one of its   *)
(* charges has an open, failed or processing query, whichever handler or      *)
(* event came last (refresh_booking_dispute_holds).                           *)
HeldWhileQueried ==
    \A j \in Jobs :
        hold[j] <=> \E q \in Queries : Active(query[q]) /\ JobOf[query[q].request] = j

(* A query is closed as refunded by a refund that Paystack processed, and no  *)
(* two queries by the same one, however often the events are delivered and    *)
(* whichever answers were lost (paystack_webhook).                            *)
RefundedByOwnRefund ==
    \A q \in Queries : query[q].status = "refunded" =>
        /\ ledger[query[q].ref].state = "processed"
        /\ ledger[query[q].ref].request = query[q].request
        /\ \A p \in Queries \ {q} :
              query[p].status = "refunded" => query[p].ref # query[q].ref

(* A cancellation splits what was paid, nothing is lost; and for any wage and *)
(* fee the parent gets less back the later the cancellation comes, and never  *)
(* less than nothing (calculate_cancellation_outcome).                        *)
RefundFallsWithNotice ==
    [][ \A r \in Requests :
          request[r].kept = Unset /\ request'[r].kept # Unset =>
            /\ request'[r].cents + request'[r].kept = Total(r)
            /\ \A wage, fee \in 0..12 :
                  /\ ParentRefund(wage, fee, "A") = wage + fee
                  /\ ParentRefund(wage, fee, "A") >= ParentRefund(wage, fee, "B")
                  /\ ParentRefund(wage, fee, "B") >= ParentRefund(wage, fee, "C")
                  /\ ParentRefund(wage, fee, "C") >= 0 ]_vars

(* What finance has granted on queries of a request never exceeds what was    *)
(* paid (approve_charge_dispute).                                             *)
QueryRefundsWithinPaid ==
    \A r \in Requests :
        MapThenSumSet(LAMBDA q : query[q].approved,
                      {q \in Queries : /\ query[q].request = r
                                       /\ query[q].status \in {"refund_requested",
                                                               "refunded"}}) <= Total(r)

============================================================================
