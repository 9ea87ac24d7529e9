--------------------- MODULE BroadcastAcceptanceProofs ---------------------
(* Proofs about BroadcastAcceptance: its type invariant, that a job is never  *)
(* overfilled, that a standing booking was paid for, that a request is closed *)
(* as filled only when its job is or its parent is served, that a nanny who   *)
(* answers one request at a time is never booked twice, and that the handlers *)
(* reserve positions as ReservedPositions asks before they charge, for any    *)
(* number of requests, jobs, workers and positions.                           *)
EXTENDS BroadcastAcceptance, FiniteSetTheorems, TLAPS

----------------------------------------------------------------------------
(* Rows                                                                      *)

(* A commit keeps a row a row, and each column is either the one the session *)
(* sets or the one in the database.                                          *)
LEMMA FlushRow ==
    ASSUME NEW read \in Row, NEW new \in Row, NEW db \in Row
    PROVE  /\ Flush(read, new, db) \in Row
           /\ Flush(read, new, db).status =
                IF new.status = read.status THEN db.status ELSE new.status
           /\ Flush(read, new, db).response =
                IF new.response = read.response THEN db.response ELSE new.response
           /\ Flush(read, new, db).payment =
                IF new.payment = read.payment THEN db.payment ELSE new.payment
  BY DEF Row, Flush

(* What each handler makes of a row is a row.                                *)
LEMMA RowsTyped ==
    ASSUME NEW x \in Row
    PROVE  /\ AsAccepted(x) \in Row /\ AsFilled(x) \in Row
           /\ AsExpired(x) \in Row /\ AsDeclined(x) \in Row
           /\ AsCancelled(x) \in Row
           /\ AsDeciding(x) \in Row
           /\ AsUnpaid(x) \in Row
           /\ AsPaid(x) \in Row
  BY DEF Row, AsAccepted, AsFilled, AsExpired, AsDeclined, AsCancelled, AsDeciding,
         AsUnpaid, AsPaid

(* Only an acceptance sets the payment, and none but it approves or accepts. *)
LEMMA RowFields ==
    ASSUME NEW x \in Row
    PROVE  /\ AsAccepted(x).payment = "paid"
           /\ \A y \in {AsExpired(x), AsDeclined(x), AsCancelled(x),
                       AsDeciding(x),
                       AsUnpaid(x)} :
                 /\ y.payment = x.payment
                 /\ y.response \in {x.response, "declined", "deciding"}
                 /\ y.status \in {x.status, "rejected", "cancelled"}
  <1>1. AsAccepted(x).payment = "paid"
    BY DEF AsAccepted, Row
  <1>2. AsExpired(x).payment = x.payment /\ AsExpired(x).response = x.response
        /\ AsExpired(x).status = "rejected"
    BY DEF AsExpired, Row
  <1>3. AsDeclined(x).payment = x.payment /\ AsDeclined(x).response = "declined"
        /\ AsDeclined(x).status = "rejected"
    BY DEF AsDeclined, Row
  <1>4. AsCancelled(x).payment = x.payment /\ AsCancelled(x).response = x.response
        /\ AsCancelled(x).status = "cancelled"
    BY DEF AsCancelled, Row
  <1>5. /\ AsDeciding(x).payment = x.payment
        /\ AsDeciding(x).response = "deciding"
        /\ AsDeciding(x).status = x.status
        /\ AsUnpaid(x).payment = x.payment
        /\ AsUnpaid(x).response = x.response
        /\ AsUnpaid(x).status = x.status
    BY DEF AsDeciding, AsUnpaid, Row
  <1> QED
    BY <1>1, <1>2, <1>3, <1>4, <1>5

LEMMA NewRowTyped == NewRow \in Row
  BY DEF NewRow, Row

LEMMA SessionsTyped ==
    ASSUME TypeOK
    PROVE  /\ Idle \in Session
           /\ \A op \in {"accept", "deciding", "decline", "cancel", "expire"},
                 r \in Requests \cup {Nobody}, todo \in SUBSET Requests,
                 rs \in SUBSET Requests : Reading(op, r, todo, rs) \in Session
  BY NewRowTyped DEF TypeOK, Idle, Session, Unread, Reading


(* Releasing a worker's locks and cancelling bookings keep their types.      *)
LEMMA ReleaseTyped ==
    ASSUME TypeOK, NEW h
    PROVE  Release(h) \in [Groups -> Handlers \cup {Nobody}]
  BY DEF TypeOK, Release

LEMMA CancelTyped ==
    ASSUME TypeOK, NEW rs, CancelRelated(rs)
    PROVE  booking' \in [Requests -> {"none", "live", "cancelled"}]
  BY DEF TypeOK, CancelRelated

----------------------------------------------------------------------------
(* Type correctness                                                          *)

LEMMA TypeInit == Init => TypeOK
  <1> SUFFICES ASSUME Init PROVE TypeOK
    OBVIOUS
  <1>1. Unread \in [Requests -> Row]
    BY NewRowTyped DEF Unread
  <1>2. Idle \in Session
    BY <1>1 DEF Idle, Session
  <1> QED
    BY <1>2, NewRowTyped, WorkersTyped
       DEF Init, TypeOK, Upcoming, Ended

(* A session that holds a job's rows serves a request, so what it charges and*)
(* books are requests: the type invariant rests on LockedViewCurrent.        *)
LEMMA TypeNext == TypeOK /\ LockedViewCurrent /\ [Next]_vars => TypeOK'
  <1> SUFFICES ASSUME TypeOK, LockedViewCurrent, [Next]_vars PROVE TypeOK'
    OBVIOUS
  <1> USE DEF TypeOK
  <1> Handlers \subseteq Workers /\ Cron \in Workers
    BY DEF Workers
  <1>1. ASSUME NEW h \in Handlers, NEW r \in Requests, AcceptRead(h, r)
        PROVE  TypeOK'
    <2>1. Reading("accept", r, {}, {r}) \in Session
      BY SessionsTyped
    <2> QED
      BY <1>1, <2>1 DEF AcceptRead
  <1>2. ASSUME NEW h \in Handlers, NEW r \in Requests, NEW answer \in Answers,
               RespondRead(h, r, answer)
        PROVE  TypeOK'
    <2>1. Reading(answer, r, {}, {r}) \in Session
      BY SessionsTyped, WorkersTyped
    <2> QED
      BY <1>2, <2>1 DEF RespondRead
  <1>3. ASSUME NEW h \in Handlers, NEW g \in Groups, CancelRead(h, g)
        PROVE  TypeOK'
    <2>1. PICK live \in SUBSET Requests :
             sess' = [sess EXCEPT ![h] = Reading("cancel", Nobody, live, live)]
      BY <1>3 DEF CancelRead, Members
    <2>2. Reading("cancel", Nobody, live, live) \in Session
      BY SessionsTyped
    <2> QED
      BY <1>3, <2>1, <2>2 DEF CancelRead
  <1>4. ASSUME NEW h \in Handlers, LockGroup(h)
        PROVE  TypeOK'
    <2>1. sess[h] \in Session /\ Idle \in Session
      BY SessionsTyped
    <2>2. Locked(h, {sess[h].req}) \in [Requests -> Row]
      BY <2>1 DEF Locked, Session
    <2>3. [sess[h] EXCEPT !.phase = "locked",
                          !.seen = Locked(h, {sess[h].req})] \in Session
      BY <2>1, <2>2 DEF Session
    <2>4. sess' \in [Workers -> Session]
      BY <1>4, <2>1, <2>3 DEF LockGroup
    <2> QED
      BY <1>4, <2>4 DEF LockGroup
  <1>5. ASSUME NEW h \in Handlers, Charge(h)
        PROVE  TypeOK'
    <2>1. sess[h] \in Session
      OBVIOUS
    <2>2. [sess[h] EXCEPT !.phase = "charged"] \in Session
          /\ [sess[h] EXCEPT !.phase = "failed"] \in Session
      BY <2>1 DEF Session
    <2>3. sess' \in [Workers -> Session]
      BY <1>5, <2>2 DEF Charge
    <2>4. charges' \in [Requests -> 0..MaxCharges]
      <3>1. PICK taken \in BOOLEAN :
               /\ taken => charges[sess[h].req] < MaxCharges
               /\ charges' = IF taken THEN [charges EXCEPT ![sess[h].req] = @ + 1]
                             ELSE charges
        BY <1>5 DEF Charge
      <3> sess[h].req \in Requests
        BY <1>5 DEF Charge, LockedViewCurrent, Holding
      <3>2. CASE taken
        <4>1. charges[sess[h].req] + 1 \in 0..MaxCharges
          BY <3>1, <3>2, WorkersTyped
        <4> QED
          BY <3>1, <3>2, <4>1
      <3>3. CASE ~taken
        BY <3>1, <3>3
      <3> QED
        BY <3>2, <3>3
    <2> QED
      BY <1>5, <2>3, <2>4 DEF Charge
  <1>6. ASSUME NEW h \in Handlers, AcceptCommit(h)
        PROVE  TypeOK'
    <2> DEFINE r == sess[h].req
    <2> r \in Requests
      BY <1>6 DEF AcceptCommit, CompleteAcceptance, LockedViewCurrent, Holding
    <2>1. row' \in [Requests -> Row]
      <3>1. \A s \in Requests : row[s] \in Row /\ sess[h].seen[s] \in Row
        BY DEF Session
      <3>2. \A s \in Requests :
              /\ Flush(sess[h].seen[s], AsAccepted(sess[h].seen[s]), row[s]) \in Row
              /\ AsFilled(row[s]) \in Row
        BY <3>1, FlushRow, RowsTyped
      <3> QED
        BY <1>6, <3>1, <3>2 DEF AcceptCommit, CompleteAcceptance
    <2>2. lock' \in [Groups -> Handlers \cup {Nobody}]
      BY <1>6, ReleaseTyped DEF AcceptCommit, CompleteAcceptance
    <2>3. Idle \in Session
      BY SessionsTyped
    <2>4. sess' \in [Workers -> Session]
      BY <1>6, <2>3 DEF AcceptCommit
    <2>5. booking' \in [Requests -> {"none", "live", "cancelled"}]
      BY <1>6 DEF AcceptCommit, CompleteAcceptance
    <2>6. blocked' \subseteq Requests
      BY <1>6 DEF AcceptCommit, CompleteAcceptance
    <2> QED
      BY <1>6, <2>1, <2>2, <2>4, <2>5, <2>6 DEF AcceptCommit
  <1>7. ASSUME NEW h \in Handlers, AcceptFailed(h)
        PROVE  TypeOK'
    <2> DEFINE r == sess[h].req
    <2>1. r \in Requests
      BY <1>7 DEF AcceptFailed, LockedViewCurrent, Holding
    <2>2. row' \in [Requests -> Row]
      <3>1. row[r] \in Row /\ sess[h].seen[r] \in Row
        BY <2>1 DEF Session
      <3>2. Flush(sess[h].seen[r], AsUnpaid(sess[h].seen[r]),
                  row[r]) \in Row
        BY <3>1, FlushRow, RowsTyped
      <3> QED
        BY <1>7, <2>1, <3>2 DEF AcceptFailed
    <2>3. Idle \in Session /\ Release(h) \in [Groups -> Handlers \cup {Nobody}]
      BY SessionsTyped, ReleaseTyped
    <2> QED
      BY <1>7, <2>2, <2>3 DEF AcceptFailed
  <1>8. ASSUME NEW h \in Workers, Rollback(h)
        PROVE  TypeOK'
    <2>1. Idle \in Session /\ Release(h) \in [Groups -> Handlers \cup {Nobody}]
      BY SessionsTyped, ReleaseTyped
    <2> QED
      BY <1>8, <2>1 DEF Rollback
  <1>9. ASSUME NEW h \in Handlers, RespondCommit(h)
        PROVE  TypeOK'
    <2> DEFINE r == sess[h].req
    <2>1. row' \in [Requests -> Row]
      <3>1. CASE r \in Requests
        <4>1. row[r] \in Row /\ sess[h].seen[r] \in Row
          BY <3>1 DEF Session
        <4>2. /\ Flush(sess[h].seen[r], AsDeclined(sess[h].seen[r]), row[r]) \in Row
              /\ Flush(sess[h].seen[r],
                       AsDeciding(sess[h].seen[r]), row[r]) \in Row
          BY <4>1, FlushRow, RowsTyped
        <4> QED
          BY <1>9, <3>1, <4>2 DEF RespondCommit
      <3>2. CASE r \notin Requests
        BY <1>9, <3>2 DEF RespondCommit
      <3> QED
        BY <3>1, <3>2
    <2>2. booking' \in [Requests -> {"none", "live", "cancelled"}]
      BY <1>9, CancelTyped DEF RespondCommit
    <2>3. Idle \in Session
      BY SessionsTyped
    <2> QED
      BY <1>9, <2>1, <2>2, <2>3 DEF RespondCommit
  <1>10. ASSUME NEW h \in Handlers, CancelCommit(h)
         PROVE  TypeOK'
    <2>1. sess[h].todo \subseteq Requests
      BY DEF Session
    <2>2. PICK now \in SUBSET Requests, rest \in SUBSET Requests :
             /\ row' = [r \in Requests |->
                     IF r \in now
                     THEN Flush(sess[h].seen[r], AsCancelled(sess[h].seen[r]), row[r])
                     ELSE row[r]]
             /\ CancelRelated(now)
             /\ sess' = [sess EXCEPT ![h] =
                      IF rest = {} THEN Idle
                      ELSE Reading("cancel", Nobody, rest, rest)]
      BY <1>10, <2>1 DEF CancelCommit
    <2>3. \A r \in Requests :
             Flush(sess[h].seen[r], AsCancelled(sess[h].seen[r]), row[r]) \in Row
      <3>1. \A r \in Requests : row[r] \in Row /\ sess[h].seen[r] \in Row
        BY DEF Session
      <3> QED
        BY <3>1, FlushRow, RowsTyped
    <2>4. row' \in [Requests -> Row]
      BY <2>2, <2>3
    <2>5. booking' \in [Requests -> {"none", "live", "cancelled"}]
      BY <2>2, CancelTyped
    <2>6. sess' \in [Workers -> Session]
      BY <2>2, SessionsTyped
    <2> QED
      BY <1>10, <2>4, <2>5, <2>6 DEF CancelCommit
  <1>11. ASSUME ExpireRead
         PROVE  TypeOK'
    <2> DEFINE stale == {r \in Requests : Expired(r)}
    <2>1. Reading("expire", Nobody, stale, stale) \in Session
      BY SessionsTyped
    <2> QED
      BY <1>11, <2>1 DEF ExpireRead
  <1>12. ASSUME ExpireCommit
         PROVE  TypeOK'
    <2>1. \A r \in Requests :
             Flush(sess[Cron].seen[r], AsExpired(sess[Cron].seen[r]), row[r]) \in Row
      <3>1. \A r \in Requests : row[r] \in Row /\ sess[Cron].seen[r] \in Row
        BY DEF Session
      <3> QED
        BY <3>1, FlushRow, RowsTyped
    <2>2. Idle \in Session
      BY SessionsTyped
    <2> QED
      BY <1>12, <2>1, <2>2 DEF ExpireCommit
  <1>13. ASSUME NEW r \in Requests, ChargeWebhook(r)
         PROVE  TypeOK'
    <2>1. AsPaid(row[r]) \in Row
      BY RowsTyped
    <2> QED
      BY <1>13, <2>1 DEF ChargeWebhook
  <1>14. ASSUME NEW g \in Groups, Tick(g)
         PROVE  TypeOK'
    BY <1>14, WorkersTyped DEF Tick, Upcoming, Ended
  <1>15. CASE UNCHANGED vars
    BY <1>15 DEF vars
  <1> QED
    BY <1>1, <1>2, <1>3, <1>4, <1>5, <1>6, <1>7, <1>8, <1>9, <1>10, <1>11,
       <1>12, <1>13, <1>14, <1>15, WorkersTyped
       DEF Next, Arrive, Serve, Sweep, Environment, DeadlockVictim, Crash, Workers

----------------------------------------------------------------------------
(* What a step may do to a row                                               *)

(* Unless it is accepted, a row only moves away from filling a position and  *)
(* keeps its payment.                                                        *)
Keeps(x, y) ==
    /\ x.payment = "paid" => y.payment = "paid"
    /\ y.response = "accepted" => x.response = "accepted"
    /\ y.status = "approved" => x.status = "approved"

LEMMA WritesKeep ==
    ASSUME NEW old \in Row, NEW db \in Row
    PROVE  /\ Keeps(db, Flush(old, AsExpired(old), db))
           /\ Keeps(db, Flush(old, AsDeclined(old), db))
           /\ Keeps(db, Flush(old, AsCancelled(old), db))
           /\ Keeps(db, Flush(old, AsDeciding(old), db))
           /\ Keeps(db, Flush(old, AsUnpaid(old), db))
           /\ Keeps(db, AsFilled(db))
           /\ Keeps(db, AsPaid(db))
           /\ Keeps(db, db)
  <1> DEFINE W(new) == Flush(old, new, db)
  <1>1. Keeps(db, AsFilled(db)) /\ Keeps(db, AsPaid(db))
        /\ Keeps(db, db)
    BY DEF Keeps, AsFilled, AsPaid, Row
  <1>2. ASSUME NEW new \in Row, new.payment = old.payment,
               new.response \in {old.response, "declined", "deciding"},
               new.status \in {old.status, "rejected", "cancelled"}
        PROVE  Keeps(db, Flush(old, new, db))
    <2>1. /\ W(new).payment = db.payment
          /\ W(new).response \in {db.response, "declined", "deciding"}
          /\ W(new).status \in {db.status, "rejected", "cancelled"}
      BY <1>2, FlushRow
    <2> QED
      BY <2>1 DEF Keeps
  <1>3. \A new \in {AsExpired(old), AsDeclined(old), AsCancelled(old),
                   AsDeciding(old),
                   AsUnpaid(old)} :
           /\ new \in Row /\ new.payment = old.payment
           /\ new.response \in {old.response, "declined", "deciding"}
           /\ new.status \in {old.status, "rejected", "cancelled"}
    <2>1. /\ AsExpired(old) \in Row /\ AsDeclined(old) \in Row
          /\ AsCancelled(old) \in Row /\ AsDeciding(old) \in Row
          /\ AsUnpaid(old) \in Row
      BY RowsTyped
    <2> QED
      BY <2>1, RowFields
  <1> QED
    BY <1>1, <1>2, <1>3

(* An acceptance fills a position with its own request and no other.         *)
LEMMA AcceptWrites ==
    ASSUME TypeOK, LockedViewCurrent, PaymentKept,
           NEW h \in Handlers, AcceptCommit(h)
    PROVE  /\ sess[h].req \in Requests
           /\ row'[sess[h].req].payment = "paid"
           /\ \A s \in Requests \ {sess[h].req} :
                 row'[s] = row[s] \/ row'[s] = AsFilled(row[s])
  <1> DEFINE r == sess[h].req
             old == sess[h].seen[r]
  <1>0. h \in Workers
    BY DEF Workers
  <1>1. r \in Requests
    BY <1>0 DEF AcceptCommit, CompleteAcceptance, LockedViewCurrent, Holding
  <1>2. row[r] \in Row /\ old \in Row
    BY <1>0, <1>1 DEF TypeOK, Session
  <1>3. AsAccepted(old) \in Row /\ AsAccepted(old).payment = "paid"
    BY <1>2, RowsTyped, RowFields
  <1>4. old.payment = "paid" => row[r].payment = "paid"
    BY <1>0, <1>1 DEF PaymentKept
  <1>5. Flush(old, AsAccepted(old), row[r]).payment = "paid"
    BY <1>2, <1>3, <1>4, FlushRow
  <1> QED
    BY <1>1, <1>5 DEF AcceptCommit, CompleteAcceptance

(* Every other step keeps every row.                                         *)
LEMMA OtherStepsKeep ==
    ASSUME TypeOK, LockedViewCurrent, [Next]_vars,
           \A h \in Handlers : ~AcceptCommit(h),
           NEW s \in Requests
    PROVE  Keeps(row[s], row'[s])
  <1> Handlers \subseteq Workers /\ Cron \in Workers
    BY DEF Workers
  <1>0. row[s] \in Row /\ \A h \in Workers : sess[h].seen[s] \in Row
    BY DEF TypeOK, Session
  <1>1. Keeps(row[s], row[s])
    BY <1>0, WritesKeep
  <1>2. ASSUME NEW h \in Handlers, AcceptFailed(h)
        PROVE  Keeps(row[s], row'[s])
    BY <1>0, <1>2, WritesKeep DEF AcceptFailed, TypeOK
  <1>3. ASSUME NEW h \in Handlers, RespondCommit(h)
        PROVE  Keeps(row[s], row'[s])
    BY <1>0, <1>3, WritesKeep DEF RespondCommit, TypeOK
  <1>4. ASSUME NEW h \in Handlers, CancelCommit(h)
        PROVE  Keeps(row[s], row'[s])
    <2>1. \/ row'[s] = row[s]
          \/ row'[s] = Flush(sess[h].seen[s], AsCancelled(sess[h].seen[s]), row[s])
      BY <1>4 DEF CancelCommit
    <2> QED
      BY <1>0, <2>1, WritesKeep
  <1>5. ASSUME ExpireCommit
        PROVE  Keeps(row[s], row'[s])
    BY <1>0, <1>5, WritesKeep DEF ExpireCommit
  <1>6. ASSUME NEW r \in Requests, ChargeWebhook(r)
        PROVE  Keeps(row[s], row'[s])
    BY <1>0, <1>6, WritesKeep DEF ChargeWebhook, TypeOK
  <1>7. ASSUME row' = row
        PROVE  Keeps(row[s], row'[s])
    BY <1>1, <1>7
  <1> QED
    BY <1>2, <1>3, <1>4, <1>5, <1>6, <1>7
       DEF Next, Arrive, Serve, Sweep, Environment, vars, AcceptRead, RespondRead,
           CancelRead, LockGroup, Charge, DeadlockVictim, Crash, Rollback,
           ExpireRead, Tick

(* How a step changes the sessions: a worker locks a job, charges, starts to *)
(* work on rows it reads, or is done.                                        *)
LEMMA SessStep ==
    ASSUME TypeOK, [Next]_vars
    PROVE  \/ \E k \in Handlers : LockGroup(k) \/ Charge(k)
           \/ \E k \in Workers : sess' = [sess EXCEPT ![k] = Idle]
           \/ \E k \in Workers : \E op, r, todo, rs :
                 /\ sess' = [sess EXCEPT ![k] = Reading(op, r, todo, rs)]
                 /\ op = "accept" => r \in Requests
           \/ sess' = sess
  <1> Handlers \subseteq Workers /\ Cron \in Workers
    BY DEF Workers
  <1> DEFINE Done(k) == sess' = [sess EXCEPT ![k] = Idle]
             Starts(k, op, r, todo) == \E rs :
                /\ sess' = [sess EXCEPT ![k] = Reading(op, r, todo, rs)]
                /\ op = "accept" => r \in Requests
  <1>1. ASSUME NEW k \in Handlers, CancelCommit(k)
        PROVE  Done(k) \/ \E rest : Starts(k, "cancel", Nobody, rest)
    BY <1>1 DEF CancelCommit
  <1>2. ASSUME NEW k \in Handlers, NEW r \in Requests, AcceptRead(k, r)
        PROVE  Starts(k, "accept", r, {})
    BY <1>2 DEF AcceptRead
  <1>3. ASSUME NEW k \in Handlers, NEW r \in Requests, NEW answer \in Answers,
               RespondRead(k, r, answer)
        PROVE  Starts(k, answer, r, {})
    BY <1>3 DEF RespondRead
  <1>4. ASSUME NEW k \in Handlers, NEW g \in Groups, CancelRead(k, g)
        PROVE  \E live : Starts(k, "cancel", Nobody, live)
    BY <1>4 DEF CancelRead
  <1>5. ASSUME NEW k \in Handlers,
               AcceptCommit(k) \/ AcceptFailed(k) \/ RespondCommit(k)
               \/ DeadlockVictim(k)
        PROVE  Done(k)
    BY <1>5 DEF AcceptCommit, AcceptFailed, RespondCommit, DeadlockVictim, Rollback
  <1>6. ASSUME NEW k \in Crashing, Crash(k)
        PROVE  k \in Workers /\ Done(k)
    BY <1>6, WorkersTyped DEF Crash, Rollback, Workers
  <1>7. ASSUME Sweep
        PROVE  Done(Cron) \/ \E stale : Starts(Cron, "expire", Nobody, stale)
    BY <1>7 DEF Sweep, ExpireRead, ExpireCommit
  <1>8. \/ \E k \in Handlers : LockGroup(k) \/ Charge(k)
        \/ \E k \in Workers : Done(k)
        \/ \E k \in Workers : \E op, r, todo : Starts(k, op, r, todo)
        \/ sess' = sess
    <2> HIDE DEF Done, Starts
    <2> QED
      BY <1>1, <1>2, <1>3, <1>4, <1>5, <1>6, <1>7
         DEF Next, Arrive, Serve, Environment, ChargeWebhook, Tick, vars
  <1> QED
    BY <1>8

(* What a session has seen is what it had seen, or the committed row.        *)
LEMMA SeenStep ==
    ASSUME TypeOK, [Next]_vars, NEW h \in Workers, NEW s \in Requests
    PROVE  sess'[h].seen[s] \in {sess[h].seen[s], row[s], NewRow}
  <1> Handlers \subseteq Workers /\ Cron \in Workers
    BY DEF Workers
  <1> sess \in [Workers -> Session]
    BY DEF TypeOK
  <1>1. Idle.seen[s] = NewRow
    BY DEF Idle, Unread
  <1>2. \A op, r, todo, rs : Reading(op, r, todo, rs).seen[s] \in {row[s], NewRow}
    BY DEF Reading
  <1>3. ASSUME NEW k \in Handlers, LockGroup(k)
        PROVE  sess'[h].seen[s] \in {sess[h].seen[s], row[s], NewRow}
    <2>1. Locked(k, {sess[k].req})[s] \in {sess[k].seen[s], row[s]}
      BY DEF Locked
    <2> QED
      BY <1>1, <1>3, <2>1 DEF LockGroup, Session
  <1>4. ASSUME NEW k \in Handlers, Charge(k)
        PROVE  sess'[h].seen[s] \in {sess[h].seen[s], row[s], NewRow}
    BY <1>4 DEF Charge, Session
  <1>5. ASSUME NEW k \in Workers,
               \/ sess' = [sess EXCEPT ![k] = Idle]
               \/ \E op, r, todo, rs :
                     sess' = [sess EXCEPT ![k] = Reading(op, r, todo, rs)]
        PROVE  sess'[h].seen[s] \in {sess[h].seen[s], row[s], NewRow}
    BY <1>1, <1>2, <1>5
  <1> QED
    BY <1>3, <1>4, <1>5, SessStep

(* A payment stays, and an acceptance comes with one.                        *)
LEMMA PaymentMonotone ==
    ASSUME TypeOK, LockedViewCurrent, PaymentKept, [Next]_vars, NEW s \in Requests
    PROVE  /\ row[s].payment = "paid" => row'[s].payment = "paid"
           /\ row'[s].response = "accepted" => row'[s].payment = "paid"
  <1>1. CASE \E h \in Handlers : AcceptCommit(h)
    <2>1. row[s] \in Row
      BY DEF TypeOK
    <2>2. Keeps(row[s], AsFilled(row[s])) /\ Keeps(row[s], row[s])
      BY <2>1, WritesKeep
    <2>3. row'[s].payment = "paid" \/ Keeps(row[s], row'[s])
      BY <1>1, <2>2, AcceptWrites
    <2> QED
      BY <2>3 DEF Keeps, PaymentKept
  <1>2. CASE \A h \in Handlers : ~AcceptCommit(h)
    BY <1>2, OtherStepsKeep DEF Keeps, PaymentKept
  <1> QED
    BY <1>1, <1>2

LEMMA PaymentNext ==
    TypeOK /\ LockedViewCurrent /\ PaymentKept /\ [Next]_vars => PaymentKept'
  <1> SUFFICES ASSUME TypeOK, LockedViewCurrent, PaymentKept, [Next]_vars
               PROVE  PaymentKept'
    OBVIOUS
  <1>1. ASSUME NEW h \in Workers, NEW s \in Requests, sess'[h].seen[s].payment = "paid"
        PROVE  row'[s].payment = "paid"
    <2>1. NewRow.payment # "paid"
      BY DEF NewRow
    <2> QED
      BY PaymentMonotone, <1>1, <2>1, SeenStep DEF PaymentKept
  <1> QED
    BY PaymentMonotone, <1>1 DEF PaymentKept, Workers

----------------------------------------------------------------------------
(* The row lock                                                              *)

(* What LockedViewCurrent says of one session.                               *)
Current(h) ==
    /\ sess[h].req \in Requests
    /\ lock[JobOf(h)] = h
    /\ \A s \in Members(JobOf(h)) \ {sess[h].req} : sess[h].seen[s] = row[s]
    /\ ~Filled(sess[h].seen, JobOf(h))
    /\ sess[h].phase = "charged" => charges[sess[h].req] > 0

(* A step that leaves a session, its lock and its job's rows alone, and      *)
(* takes no charge back, leaves the session's view current.                  *)
LEMMA CurrentKept ==
    ASSUME TypeOK, NEW h \in Workers, Current(h), sess'[h] = sess[h],
           lock'[JobOf(h)] = h,
           \A s \in Members(JobOf(h)) : row'[s] = row[s],
           charges[sess[h].req] > 0 => charges'[sess[h].req] > 0
    PROVE  Current(h)'
  <1>1. JobOf(h)' = JobOf(h) /\ sess'[h].req = sess[h].req
    BY DEF JobOf
  <1>2. Filled(sess[h].seen, JobOf(h))' <=> Filled(sess[h].seen, JobOf(h))
    BY <1>1 DEF Filled, Members
  <1> QED
    BY <1>1, <1>2 DEF Current, Members

(* Another worker's step does so: it waits for the rows a session holds.     *)
LEMMA OthersWait ==
    ASSUME TypeOK, LockedViewCurrent, [Next]_vars,
           NEW h \in Workers, Holding(h), sess'[h] = sess[h]
    PROVE  /\ lock'[JobOf(h)] = h
           /\ \A s \in Members(JobOf(h)) : row'[s] = row[s]
           /\ charges[sess[h].req] > 0 => charges'[sess[h].req] > 0
  <1> DEFINE g == JobOf(h)
             Undisturbed == /\ lock'[g] = h
                            /\ \A s \in Members(g) : row'[s] = row[s]
                            /\ charges[sess[h].req] > 0 => charges'[sess[h].req] > 0
  <1> Handlers \subseteq Workers /\ Cron \in Workers /\ h # Nobody
    BY WorkersTyped DEF Workers
  <1>0. g \in Groups /\ lock[g] = h /\ sess[h].req \in Requests
    BY JobsTyped DEF LockedViewCurrent, JobOf
  <1>i. Idle.phase = "none" /\ sess[h] # Idle /\ sess[h].phase # "read"
    BY DEF Idle, Holding
  <1>m. \A s \in Members(g) : s \in Requests /\ GroupOf[s] = g
    BY DEF Members
  <1>1. ASSUME NEW k \in Workers, sess' = [sess EXCEPT ![k] = Idle]
        PROVE  k # h
    BY <1>1, <1>i DEF TypeOK
  <1>2. ASSUME NEW k \in Workers, k # h, lock' = Release(k)
        PROVE  lock'[g] = h
    BY <1>0, <1>2 DEF Release
  <1>3. ASSUME NEW k \in Handlers, AcceptCommit(k)
        PROVE  Undisturbed
    <2>1. k # h /\ lock'[g] = h /\ charges' = charges
      BY <1>1, <1>2, <1>3 DEF AcceptCommit, CompleteAcceptance
    <2>2. lock[JobOf(k)] = k
      BY <1>3 DEF AcceptCommit, CompleteAcceptance, LockedViewCurrent, Holding
    <2>3. g # JobOf(k)
      BY <1>0, <2>1, <2>2
    <2>4. \A s \in Members(g) : s # sess[k].req /\ s \notin Siblings(k)
      BY <2>3 DEF Siblings, Members, JobOf
    <2>5. \A s \in Members(g) : s \notin Rivals(k)
      BY <1>0, <1>3, <1>m DEF AcceptCommit, CompleteAcceptance, Unlocked
    <2>6. \A s \in Members(g) : row'[s] = row[s]
      BY <1>3, <1>m, <2>4, <2>5 DEF AcceptCommit, CompleteAcceptance
    <2> QED
      BY <2>1, <2>6
  <1>4. ASSUME NEW k \in Handlers, AcceptFailed(k)
        PROVE  Undisturbed
    <2>1. k # h /\ lock'[g] = h /\ charges' = charges
      BY <1>1, <1>2, <1>4 DEF AcceptFailed
    <2>2. lock[JobOf(k)] = k
      BY <1>4 DEF AcceptFailed, LockedViewCurrent, Holding
    <2>3. \A s \in Members(g) : s # sess[k].req
      BY <1>0, <1>m, <2>1, <2>2 DEF JobOf
    <2> QED
      BY <1>4, <1>m, <2>1, <2>3 DEF AcceptFailed, TypeOK
  <1>5. ASSUME NEW k \in Workers, Rollback(k)
        PROVE  Undisturbed
    BY <1>1, <1>2, <1>5 DEF Rollback
  <1>6. ASSUME NEW k \in Handlers, RespondCommit(k)
        PROVE  Undisturbed
    <2>1. \A s \in Members(g) : s # sess[k].req
      BY <1>0, <1>6, <1>m DEF RespondCommit, Unlocked
    <2> QED
      BY <1>0, <1>6, <1>m, <2>1 DEF RespondCommit, TypeOK
  <1>7. ASSUME NEW k \in Handlers, CancelCommit(k)
        PROVE  Undisturbed
    <2>1. PICK now \in SUBSET Requests :
             /\ Unlocked(now)
             /\ row' = [r \in Requests |->
                     IF r \in now
                     THEN Flush(sess[k].seen[r], AsCancelled(sess[k].seen[r]), row[r])
                     ELSE row[r]]
      BY <1>7 DEF CancelCommit, TypeOK, Session
    <2>2. \A s \in Members(g) : s \notin now
      BY <1>0, <1>m, <2>1 DEF Unlocked
    <2>3. lock' = lock /\ charges' = charges
      BY <1>7 DEF CancelCommit
    <2> QED
      BY <1>0, <1>m, <2>1, <2>2, <2>3
  <1>8. ASSUME ExpireCommit
        PROVE  Undisturbed
    <2>1. \A s \in Members(g) : s \notin sess[Cron].todo
      BY <1>0, <1>8, <1>m DEF ExpireCommit, Unlocked
    <2> QED
      BY <1>0, <1>8, <1>m, <2>1 DEF ExpireCommit
  <1>9. ASSUME NEW r \in Requests, ChargeWebhook(r)
        PROVE  Undisturbed
    <2>1. \A s \in Members(g) : s # r
      BY <1>0, <1>9, <1>m DEF ChargeWebhook, Unlocked
    <2> QED
      BY <1>0, <1>9, <1>m, <2>1 DEF ChargeWebhook, TypeOK
  <1>10. ASSUME NEW k \in Handlers, LockGroup(k)
         PROVE  Undisturbed
    BY <1>0, <1>10 DEF LockGroup, TypeOK
  <1>11. ASSUME NEW k \in Handlers, Charge(k)
         PROVE  Undisturbed
    <2>1. charges[sess[h].req] > 0 => charges'[sess[h].req] > 0
      BY <1>0, <1>11, WorkersTyped DEF Charge, TypeOK
    <2> QED
      BY <1>0, <1>11, <2>1 DEF Charge
  <1>12. ASSUME row' = row, lock' = lock, charges' = charges
         PROVE  Undisturbed
    BY <1>0, <1>12
  <1> QED
    BY <1>3, <1>4, <1>5, <1>6, <1>7, <1>8, <1>9, <1>10, <1>11, <1>12, WorkersTyped
       DEF Next, Arrive, Serve, Sweep, Environment, vars, AcceptRead, RespondRead,
           CancelRead, DeadlockVictim, Crash, ExpireRead, Tick, Workers

(* An accept session keeps the request it was started for.                   *)
LEMMA AcceptsNext == TypeOK /\ AcceptsRequest /\ [Next]_vars => AcceptsRequest'
  <1> SUFFICES ASSUME TypeOK, AcceptsRequest, [Next]_vars,
                      NEW h \in Workers, sess'[h].op = "accept"
               PROVE  sess'[h].req \in Requests
    BY DEF AcceptsRequest, Workers
  <1> sess \in [Workers -> Session]
    BY DEF TypeOK
  <1>1. Idle.op = "idle"
    BY DEF Idle
  <1>2. \A op, r, todo, rs : /\ Reading(op, r, todo, rs).op = op
                             /\ Reading(op, r, todo, rs).req = r
    BY DEF Reading
  <1>3. ASSUME NEW k \in Handlers, LockGroup(k) \/ Charge(k)
        PROVE  \/ sess'[h] = Idle
               \/ sess'[h].op = sess[h].op /\ sess'[h].req = sess[h].req
    <2>1. CASE LockGroup(k)
      <3>1. \/ sess' = [sess EXCEPT ![k] = Idle]
            \/ \E view : sess' = [sess EXCEPT ![k].phase = "locked", ![k].seen = view]
        BY <2>1 DEF LockGroup
      <3>2. sess[k] \in Session
        BY DEF Workers
      <3> QED
        BY <3>1, <3>2 DEF Session
    <2>2. CASE Charge(k)
      BY <2>2 DEF Charge, Session
    <2> QED
      BY <1>3, <2>1, <2>2
  <1> QED
    BY <1>1, <1>2, <1>3, SessStep DEF AcceptsRequest

LEMMA LockedNext ==
    TypeOK /\ LockedViewCurrent /\ AcceptsRequest /\ [Next]_vars => LockedViewCurrent'
  <1> SUFFICES ASSUME TypeOK, LockedViewCurrent, AcceptsRequest, [Next]_vars,
                      NEW h \in Workers, Holding(h)'
               PROVE  Current(h)'
    BY DEF LockedViewCurrent, Current, Workers
  <1> Handlers \subseteq Workers /\ Cron \in Workers /\ Cron \notin Handlers
    BY WorkersTyped DEF Workers
  <1> sess \in [Workers -> Session]
    BY DEF TypeOK
  <1>1. CASE sess'[h] = sess[h]
    <2>1. Holding(h) /\ Current(h)
      BY <1>1 DEF Holding, LockedViewCurrent, Current
    <2> QED
      BY <1>1, <2>1, OthersWait, CurrentKept
  <1>2. CASE h \in Handlers /\ LockGroup(h)
    <2> DEFINE view == Locked(h, {sess[h].req})
               g == JobOf(h)
    <2>0. sess[h].phase = "read" /\ Idle.phase = "none"
      BY <1>2 DEF LockGroup, Idle
    <2>1. /\ ~Filled(view, g)
          /\ sess' = [sess EXCEPT ![h].phase = "locked", ![h].seen = view]
          /\ lock' = [lock EXCEPT ![g] = h]
          /\ row' = row
      BY <1>2, <2>0 DEF LockGroup, Holding, Session
    <2>2. /\ sess'[h].seen = view /\ sess'[h].phase = "locked"
          /\ sess'[h].req = sess[h].req
      BY <2>1 DEF Session
    <2>3. JobOf(h)' = g
      BY <2>2 DEF JobOf
    <2>4. sess[h].req \in Requests /\ g \in Groups
      BY <1>2, JobsTyped DEF LockGroup, AcceptsRequest, JobOf
    <2>5. lock'[g] = h
      BY <2>1, <2>4 DEF TypeOK
    <2>6. \A s \in Members(g) \ {sess[h].req} : view[s] = row[s]
      BY DEF Locked, Members
    <2>7. ~Filled(sess'[h].seen, g)
      BY <2>1, <2>2
    <2> QED
      BY <2>1, <2>2, <2>3, <2>4, <2>5, <2>6, <2>7 DEF Current, Members, Filled
  <1>3. CASE h \in Handlers /\ Charge(h)
    <2>1. Current(h) /\ sess[h].phase = "locked"
      BY <1>3 DEF Charge, LockedViewCurrent, Current, Holding
    <2>2. PICK taken, answered \in BOOLEAN :
             /\ charges' = IF taken THEN [charges EXCEPT ![sess[h].req] = @ + 1]
                           ELSE charges
             /\ sess' = [sess EXCEPT ![h].phase =
                           IF taken /\ answered THEN "charged" ELSE "failed"]
      BY <1>3 DEF Charge
    <2>3. /\ sess'[h].req = sess[h].req /\ sess'[h].seen = sess[h].seen
          /\ sess'[h].phase = "charged" => taken
      BY <2>2 DEF Session
    <2>4. JobOf(h)' = JobOf(h) /\ lock' = lock /\ row' = row
      BY <1>3, <2>3 DEF JobOf, Charge
    <2>5. sess'[h].phase = "charged" => charges'[sess[h].req] > 0
      BY <2>1, <2>2, <2>3, WorkersTyped DEF Current, TypeOK
    <2> QED
      BY <2>1, <2>3, <2>4, <2>5 DEF Current, Filled, Members
  <1>4. ASSUME NEW k \in Workers,
               \/ sess' = [sess EXCEPT ![k] = Idle]
               \/ \E op, r, todo, rs :
                     sess' = [sess EXCEPT ![k] = Reading(op, r, todo, rs)]
        PROVE  sess'[h] = sess[h]
    <2>1. Idle.phase = "none"
          /\ \A op, r, todo, rs : Reading(op, r, todo, rs).phase = "read"
      BY DEF Idle, Reading
    <2> QED
      BY <1>4, <2>1 DEF Holding
  <1>5. ASSUME NEW k \in Handlers, k # h, LockGroup(k) \/ Charge(k)
        PROVE  sess'[h] = sess[h]
    BY <1>5 DEF LockGroup, Charge
  <1> QED
    BY <1>1, <1>2, <1>3, <1>4, <1>5, SessStep

----------------------------------------------------------------------------
(* Positions                                                                 *)

LEMMA FillersFinite ==
    ASSUME NEW view, NEW g
    PROVE  IsFiniteSet({r \in Members(g) : FillsPosition(view[r])})
  <1>1. {r \in Members(g) : FillsPosition(view[r])} \subseteq Requests
    BY DEF Members
  <1> QED
    BY <1>1, RequestsFinite, FS_Subset

(* Who sees the other invitations of a job as they are, and the job not      *)
(* filled, knows that fewer of them fill a position than it has.             *)
LEMMA OpenView ==
    ASSUME NEW g \in Groups, NEW r, NEW view, NEW db, ~Filled(view, g),
           \A s \in Members(g) \ {r} : view[s] = db[s]
    PROVE  Cardinality({s \in Members(g) : FillsPosition(db[s])} \ {r}) < Positions[g]
  <1> DEFINE seen == {s \in Members(g) : FillsPosition(view[s])}
             others == {s \in Members(g) : FillsPosition(db[s])} \ {r}
  <1>0. Positions[g] \in Nat
    BY JobsTyped
  <1>1. IsFiniteSet(seen)
    BY FillersFinite
  <1>2. others \subseteq seen
    OBVIOUS
  <1>3. IsFiniteSet(others) /\ Cardinality(others) <= Cardinality(seen)
    BY <1>1, <1>2, FS_Subset
  <1>4. ~(Cardinality(seen) >= Positions[g])
    BY DEF Filled
  <1>5. Cardinality(seen) \in Nat /\ Cardinality(others) \in Nat
    BY <1>1, <1>3, FS_CardinalityType
  <1> QED
    BY <1>0, <1>3, <1>4, <1>5

(* Whoever holds a job's rows sees them so.                                  *)
LEMMA OpenPosition ==
    ASSUME TypeOK, LockedViewCurrent, NEW h \in Workers, Holding(h)
    PROVE  Cardinality(Fillers(JobOf(h)) \ {sess[h].req}) < Positions[JobOf(h)]
  <1>1. JobOf(h) \in Groups
    BY JobsTyped DEF LockedViewCurrent, JobOf
  <1>2. /\ ~Filled(sess[h].seen, JobOf(h))
        /\ \A s \in Members(JobOf(h)) \ {sess[h].req} : sess[h].seen[s] = row[s]
    BY DEF LockedViewCurrent
  <1> QED
    BY <1>1, <1>2, OpenView DEF Fillers

LEMMA OverfillNext ==
    TypeOK /\ LockedViewCurrent /\ PaymentKept /\ NoOverfill /\ [Next]_vars
    => NoOverfill'
  <1> SUFFICES ASSUME TypeOK, LockedViewCurrent, PaymentKept, NoOverfill, [Next]_vars,
                      NEW g \in Groups
               PROVE  Cardinality(Fillers(g)') <= Positions[g]
    BY DEF NoOverfill, Fillers, Members
  <1>0. Positions[g] \in Nat
    BY JobsTyped
  <1>1. IsFiniteSet(Fillers(g)) /\ Cardinality(Fillers(g)) \in Nat
        /\ Cardinality(Fillers(g)) <= Positions[g]
    BY FillersFinite, FS_CardinalityType DEF Fillers, NoOverfill
  <1>2. ASSUME Fillers(g)' \subseteq Fillers(g)
        PROVE  Cardinality(Fillers(g)') <= Positions[g]
    <2>1. IsFiniteSet(Fillers(g)') /\ Cardinality(Fillers(g)') <= Cardinality(Fillers(g))
      BY <1>1, <1>2, FS_Subset
    <2>2. Cardinality(Fillers(g)') \in Nat
      BY <2>1, FS_CardinalityType
    <2> QED
      BY <1>0, <1>1, <2>1, <2>2
  <1>3. ASSUME NEW h \in Handlers, AcceptCommit(h)
        PROVE  Cardinality(Fillers(g)') <= Positions[g]
    <2> DEFINE r == sess[h].req
               others == Fillers(g) \ {r}
    <2>0. h \in Workers /\ Holding(h)
      BY <1>3 DEF AcceptCommit, CompleteAcceptance, Holding, Workers
    <2>1. /\ r \in Requests
          /\ \A s \in Requests \ {r} : row'[s] = row[s] \/ row'[s] = AsFilled(row[s])
      BY <1>3, AcceptWrites
    <2>2. \A s \in Requests : ~FillsPosition(AsFilled(row[s]))
      BY DEF TypeOK, FillsPosition, AsFilled, Row
    <2>3. Fillers(g)' \subseteq others \cup {r}
      BY <2>1, <2>2 DEF Fillers, Members
    <2>4. CASE g # JobOf(h)
      <3>1. r \notin Fillers(g)'
        BY <2>4 DEF Fillers, Members, JobOf
      <3>2. Fillers(g)' \subseteq Fillers(g)
        BY <2>3, <3>1
      <3> QED
        BY <1>2, <3>2
    <2>5. CASE g = JobOf(h)
      <3>1. Cardinality(others) < Positions[g]
        BY <2>0, <2>5, OpenPosition
      <3>2. IsFiniteSet(others) /\ Cardinality(others) \in Nat /\ r \notin others
        BY <1>1, FS_Subset, FS_CardinalityType
      <3>3. IsFiniteSet(others \cup {r})
            /\ Cardinality(others \cup {r}) = Cardinality(others) + 1
        BY <3>2, FS_AddElement
      <3>4. IsFiniteSet(Fillers(g)')
            /\ Cardinality(Fillers(g)') <= Cardinality(others \cup {r})
        BY <2>3, <3>3, FS_Subset
      <3>5. Cardinality(Fillers(g)') \in Nat
        BY <3>4, FS_CardinalityType
      <3> QED
        BY <1>0, <3>1, <3>2, <3>3, <3>4, <3>5
    <2> QED
      BY <2>4, <2>5
  <1>4. CASE \A h \in Handlers : ~AcceptCommit(h)
    <2>1. \A s \in Requests : FillsPosition(row'[s]) => FillsPosition(row[s])
      BY <1>4, OtherStepsKeep DEF Keeps, FillsPosition, Settled, PaymentKept
    <2>2. Fillers(g)' \subseteq Fillers(g)
      BY <2>1 DEF Fillers, Members
    <2> QED
      BY <1>2, <2>2
  <1> QED
    BY <1>3, <1>4

----------------------------------------------------------------------------
(* Bookings and charges                                                      *)

LEMMA ChargesMonotone ==
    ASSUME TypeOK, LockedViewCurrent, [Next]_vars, NEW s \in Requests
    PROVE  charges[s] > 0 => charges'[s] > 0
  <1>1. ASSUME NEW h \in Handlers, Charge(h)
        PROVE  charges[s] > 0 => charges'[s] > 0
    BY <1>1, WorkersTyped DEF Charge, TypeOK
  <1>2. ASSUME charges' = charges
        PROVE  charges[s] > 0 => charges'[s] > 0
    BY <1>2
  <1> QED
    BY <1>1, <1>2
       DEF Next, Arrive, Serve, Sweep, Environment, vars, AcceptRead, RespondRead,
           CancelRead, LockGroup, AcceptCommit, AcceptFailed, RespondCommit,
           CancelCommit, DeadlockVictim, Crash, Rollback, ExpireRead, ExpireCommit,
           ChargeWebhook, Tick

(* Only an acceptance makes a booking.                                       *)
LEMMA BookedByAcceptance ==
    ASSUME TypeOK, [Next]_vars, NEW s \in Requests, booking'[s] = "live"
    PROVE  booking[s] = "live" \/ \E h \in Handlers : AcceptCommit(h) /\ s = sess[h].req
  <1>1. ASSUME NEW rs, CancelRelated(rs)
        PROVE  booking[s] = "live"
    BY <1>1 DEF CancelRelated, TypeOK
  <1>2. ASSUME NEW h \in Handlers, AcceptCommit(h), s # sess[h].req
        PROVE  booking[s] = "live"
    BY <1>2 DEF AcceptCommit, CompleteAcceptance, TypeOK
  <1>3. ASSUME booking' = booking
        PROVE  booking[s] = "live"
    BY <1>3
  <1>4. ASSUME NEW h \in Handlers, RespondCommit(h) \/ CancelCommit(h)
        PROVE  booking' = booking \/ \E rs : CancelRelated(rs)
    BY <1>4 DEF RespondCommit, CancelCommit
  <1> QED
    BY <1>1, <1>2, <1>3, <1>4
       DEF Next, Arrive, Serve, Sweep, Environment, vars, AcceptRead, RespondRead,
           CancelRead, LockGroup, Charge, AcceptFailed,
           DeadlockVictim, Crash, Rollback, ExpireRead, ExpireCommit,
           ChargeWebhook, Tick

LEMMA LiveNext ==
    TypeOK /\ LockedViewCurrent /\ PaymentKept /\ LiveBookingPaid /\ [Next]_vars
    => LiveBookingPaid'
  <1> SUFFICES ASSUME TypeOK, LockedViewCurrent, PaymentKept, LiveBookingPaid,
                      [Next]_vars, NEW s \in Requests, booking'[s] = "live"
               PROVE  row'[s].payment = "paid" /\ charges'[s] > 0
    BY DEF LiveBookingPaid
  <1>1. CASE booking[s] = "live"
    BY <1>1, PaymentMonotone, ChargesMonotone DEF LiveBookingPaid
  <1>2. ASSUME NEW h \in Handlers, AcceptCommit(h), s = sess[h].req
        PROVE  row'[s].payment = "paid" /\ charges'[s] > 0
    <2>1. charges[s] > 0 /\ charges' = charges
      BY <1>2 DEF AcceptCommit, CompleteAcceptance, LockedViewCurrent, Holding, Workers
    <2> QED
      BY <1>2, <2>1, AcceptWrites
  <1> QED
    BY <1>1, <1>2, BookedByAcceptance

----------------------------------------------------------------------------
(* Theorems                                                                  *)

LEMMA InvInit == Init => IInv
  <1> SUFFICES ASSUME Init PROVE IInv
    OBVIOUS
  <1>1. TypeOK
    BY TypeInit
  <1>2. NewRow.payment = "pending_payment" /\ NewRow.response = "pending"
        /\ NewRow.status = "tbc"
    BY DEF NewRow
  <1>3. \A g \in Groups : Fillers(g) = {}
    BY <1>2 DEF Init, Fillers, Members, FillsPosition
  <1>4. NoOverfill
    BY <1>3, FS_EmptySet, JobsTyped DEF NoOverfill
  <1>5. LiveBookingPaid
    BY DEF Init, LiveBookingPaid
  <1>6. LockedViewCurrent /\ AcceptsRequest
    BY DEF Init, Idle, LockedViewCurrent, Holding, AcceptsRequest
  <1>7. PaymentKept
    BY <1>2 DEF Init, PaymentKept, Idle, Unread
  <1> QED
    BY <1>1, <1>4, <1>5, <1>6, <1>7 DEF IInv

LEMMA InvNext == IInv /\ [Next]_vars => IInv'
  BY TypeNext, OverfillNext, LiveNext, LockedNext, PaymentNext, AcceptsNext DEF IInv

(* Every reachable state satisfies the inductive invariant.                  *)
THEOREM Invariance == Spec => []IInv
  BY InvInit, InvNext, PTL DEF Spec

(* Every variable keeps its type.                                            *)
THEOREM TypeCorrect == Spec => []TypeOK
  <1>1. IInv => TypeOK
    BY DEF IInv
  <1> QED
    BY <1>1, Invariance, PTL

(* A job never has more paid acceptances than positions, whatever the number *)
(* of nannies, workers, crashes, lost Paystack answers and late webhooks.    *)
THEOREM NeverOverfilled == Spec => []NoOverfill
  <1>1. IInv => NoOverfill
    BY DEF IInv
  <1> QED
    BY <1>1, Invariance, PTL

(* A booking that stands was charged for and is marked paid.                 *)
THEOREM LiveBookingsPaid == Spec => []LiveBookingPaid
  <1>1. IInv => LiveBookingPaid
    BY DEF IInv
  <1> QED
    BY <1>1, Invariance, PTL

(* A card is charged only while the job's other invitations leave a position *)
(* open.                                                                     *)
THEOREM ChargedForOpenPosition == Spec => ChargeOnlyOpenPosition
  <1> DEFINE Allowed == \A r \in Requests :
                charges'[r] # charges[r] =>
                    Cardinality(Fillers(GroupOf[r]) \ {r}) < Positions[GroupOf[r]]
  <1>1. IInv /\ [Next]_vars => [Allowed]_vars
    <2> SUFFICES ASSUME IInv, [Next]_vars, NEW r \in Requests, charges'[r] # charges[r]
                 PROVE  Cardinality(Fillers(GroupOf[r]) \ {r}) < Positions[GroupOf[r]]
      OBVIOUS
    <2>1. PICK h \in Handlers : Charge(h)
      BY DEF Next, Arrive, Serve, Sweep, Environment, vars, AcceptRead, RespondRead,
             CancelRead, LockGroup, AcceptCommit, AcceptFailed, RespondCommit,
             CancelCommit, DeadlockVictim, Crash, Rollback, ExpireRead, ExpireCommit,
             ChargeWebhook, Tick
    <2>2. r = sess[h].req
      BY <2>1 DEF Charge, IInv, TypeOK
    <2>3. h \in Workers /\ Holding(h)
      BY <2>1 DEF Charge, Holding, Workers
    <2> QED
      BY <2>2, <2>3, OpenPosition DEF IInv, JobOf
  <1> QED
    BY <1>1, Invariance, PTL DEF Spec, ChargeOnlyOpenPosition

----------------------------------------------------------------------------
(* An accepted request has bookings                                          *)

(* Bookings are cancelled, and never deleted.                                *)
LEMMA BookingStays ==
    ASSUME TypeOK, [Next]_vars, NEW s \in Requests
    PROVE  booking'[s] = "none" => booking[s] = "none"
  <1>1. ASSUME NEW rs, CancelRelated(rs)
        PROVE  booking'[s] = "none" => booking[s] = "none"
    BY <1>1 DEF CancelRelated, TypeOK
  <1>2. ASSUME NEW h \in Handlers, AcceptCommit(h)
        PROVE  booking'[s] = "none" => booking[s] = "none"
    BY <1>2 DEF AcceptCommit, CompleteAcceptance, TypeOK
  <1>3. ASSUME booking' = booking
        PROVE  booking'[s] = "none" => booking[s] = "none"
    BY <1>3
  <1>4. ASSUME NEW h \in Handlers, RespondCommit(h) \/ CancelCommit(h)
        PROVE  booking' = booking \/ \E rs : CancelRelated(rs)
    BY <1>4 DEF RespondCommit, CancelCommit
  <1> QED
    BY <1>1, <1>2, <1>3, <1>4
       DEF Next, Arrive, Serve, Sweep, Environment, vars, AcceptRead, RespondRead,
           CancelRead, LockGroup, Charge, AcceptFailed,
           DeadlockVictim, Crash, Rollback, ExpireRead, ExpireCommit,
           ChargeWebhook, Tick

LEMMA RelatedStays ==
    ASSUME TypeOK, [Next]_vars, NEW r \in Requests, Related(r) # {}
    PROVE  Related(r)' # {}
  <1>1. CASE booking[r] # "none"
    BY <1>1, BookingStays DEF Related
  <1>2. CASE booking[r] = "none"
    <2>1. PICK s \in Requests : /\ booking[s] # "none" /\ NannyOf[s] = NannyOf[r]
                                /\ SameParent(r, s) /\ <<GroupOf[r], GroupOf[s]>> \in Touches
      BY <1>2 DEF Related
    <2>2. booking'[s] # "none"
      BY <2>1, BookingStays
    <2> QED
      BY <2>1, <2>2 DEF Related, SameParent
  <1> QED
    BY <1>1, <1>2

Answered(x) == x.status = "approved" \/ x.response = "accepted"

(* What is accepted, or was when a session read it, has bookings.            *)
AcceptedRelated ==
    \A r \in Requests :
        /\ Answered(row[r]) => Related(r) # {}
        /\ \A h \in Workers : Answered(sess[h].seen[r]) => Related(r) # {}

LEMMA AcceptedInit == Init => AcceptedRelated
  BY DEF Init, AcceptedRelated, Answered, NewRow, Idle, Unread

LEMMA AcceptedNext ==
    ASSUME IInv, AcceptedRelated, [Next]_vars
    PROVE  AcceptedRelated'
  <1>0. TypeOK /\ LockedViewCurrent /\ PaymentKept
    BY DEF IInv
  <1> SUFFICES ASSUME NEW r \in Requests
               PROVE  /\ Answered(row'[r]) => Related(r)' # {}
                      /\ \A h \in Workers : Answered(sess'[h].seen[r]) => Related(r)' # {}
    BY DEF AcceptedRelated
  <1>1. Related(r) # {} => Related(r)' # {}
    BY <1>0, RelatedStays
  <1>2. ASSUME NEW h \in Handlers, AcceptCommit(h), r = sess[h].req
        PROVE  Related(r)' # {}
    <2>1. CASE Related(r) = {}
      <3>1. booking' = [booking EXCEPT ![r] = "live"]
        BY <1>2, <2>1 DEF AcceptCommit, CompleteAcceptance
      <3>2. booking'[r] = "live"
        BY <1>0, <3>1 DEF TypeOK
      <3> QED
        BY <3>2 DEF Related
    <2> QED
      BY <1>1, <2>1
  <1>3. ASSUME NEW h \in Handlers, AcceptCommit(h), r # sess[h].req, Answered(row'[r])
        PROVE  Answered(row[r])
    <2>1. row'[r] = row[r] \/ row'[r] = AsFilled(row[r])
      BY <1>0, <1>3, AcceptWrites
    <2>2. row[r] \in Row
      BY <1>0 DEF TypeOK
    <2> QED
      BY <1>3, <2>1, <2>2 DEF Answered, AsFilled, Row
  <1>4. ASSUME \A h \in Handlers : ~AcceptCommit(h), Answered(row'[r])
        PROVE  Answered(row[r])
    BY <1>0, <1>4, OtherStepsKeep DEF Keeps, Answered
  <1>5. Answered(row'[r]) => Related(r)' # {}
    BY <1>1, <1>2, <1>3, <1>4 DEF AcceptedRelated
  <1>6. ASSUME NEW h \in Workers, Answered(sess'[h].seen[r]) PROVE Related(r)' # {}
    <2>1. sess'[h].seen[r] \in {sess[h].seen[r], row[r], NewRow}
      BY <1>0, SeenStep
    <2>2. ~Answered(NewRow)
      BY DEF Answered, NewRow
    <2> QED
      BY <1>1, <1>6, <2>1, <2>2 DEF AcceptedRelated
  <1> QED
    BY <1>5, <1>6

----------------------------------------------------------------------------
(* Closed as filled                                                          *)

LEMMA ReasonKept ==
    ASSUME TypeOK, [Next]_vars, \A h \in Handlers : ~AcceptCommit(h),
           NEW s \in Requests, row'[s].reason = "filled"
    PROVE  row[s].reason = "filled"
  <1> DEFINE Fine == row'[s].reason = "filled" => row[s].reason = "filled"
  <1> Handlers \subseteq Workers /\ Cron \in Workers
    BY DEF Workers
  <1>0. row[s] \in Row /\ \A h \in Workers : sess[h].seen[s] \in Row
    BY DEF TypeOK, Session
  <1>1. ASSUME NEW old \in Row, NEW new \in {AsExpired(old), AsDeclined(old), AsCancelled(old),
                                              AsDeciding(old), AsUnpaid(old)},
               Flush(old, new, row[s]).reason = "filled"
        PROVE  row[s].reason = "filled"
    <2>1. new.reason \in {old.reason, "expired", "other", "payment_failed"}
      BY DEF Row, AsExpired, AsDeclined, AsCancelled, AsDeciding, AsUnpaid
    <2>2. Flush(old, new, row[s]).reason =
             IF new.reason = old.reason THEN row[s].reason ELSE new.reason
      BY <1>0 DEF Flush, Row
    <2> QED
      BY <1>1, <2>1, <2>2
  <1>2. ASSUME NEW h \in Handlers, AcceptFailed(h) \/ RespondCommit(h) PROVE Fine
    <2>1. \/ row'[s] = row[s]
          \/ \E new \in {AsUnpaid(sess[h].seen[s]), AsDeclined(sess[h].seen[s]),
                          AsDeciding(sess[h].seen[s])} :
                row'[s] = Flush(sess[h].seen[s], new, row[s])
      BY <1>2 DEF AcceptFailed, RespondCommit, TypeOK
    <2> QED
      BY <1>0, <1>1, <2>1
  <1>3. ASSUME NEW h \in Handlers, CancelCommit(h) PROVE Fine
    <2>1. \/ row'[s] = row[s]
          \/ row'[s] = Flush(sess[h].seen[s], AsCancelled(sess[h].seen[s]), row[s])
      BY <1>3 DEF CancelCommit
    <2> QED
      BY <1>0, <1>1, <2>1
  <1>4. ASSUME ExpireCommit PROVE Fine
    <2>1. \/ row'[s] = row[s]
          \/ row'[s] = Flush(sess[Cron].seen[s], AsExpired(sess[Cron].seen[s]), row[s])
      BY <1>4 DEF ExpireCommit
    <2> QED
      BY <1>0, <1>1, <2>1
  <1>5. ASSUME NEW r \in Requests, ChargeWebhook(r) PROVE Fine
    BY <1>0, <1>5 DEF ChargeWebhook, TypeOK, AsPaid, Row
  <1>6. ASSUME row' = row PROVE Fine
    BY <1>6
  <1>7. Fine
    <2> HIDE DEF Fine
    <2> QED
      BY <1>2, <1>3, <1>4, <1>5, <1>6
         DEF Next, Arrive, Serve, Sweep, Environment, vars, AcceptRead, RespondRead,
             CancelRead, LockGroup, Charge, DeadlockVictim, Crash, Rollback,
             ExpireRead, Tick
  <1> QED
    BY <1>7

(* The first acceptance of a request fills a position.                       *)
LEMMA AcceptFills ==
    ASSUME IInv, AcceptedRelated, NEW h \in Handlers, AcceptCommit(h),
           Related(sess[h].req) = {}
    PROVE  /\ sess[h].req \in Requests
           /\ FillsPosition(row'[sess[h].req]) /\ ~FillsPosition(row[sess[h].req])
  <1> PICK r : r = sess[h].req
    OBVIOUS
  <1> PICK old : old = sess[h].seen[r]
    OBVIOUS
  <1>0. h \in Workers
    BY DEF Workers
  <1>1. r \in Requests /\ row'[r].payment = "paid"
    BY AcceptWrites DEF IInv
  <1>2. row[r] \in Row /\ old \in Row
    BY <1>0, <1>1 DEF IInv, TypeOK, Session
  <1>3. ~Answered(old) /\ ~Answered(row[r])
    BY <1>0, <1>1 DEF AcceptedRelated
  <1>4. row'[r] = Flush(old, AsAccepted(old), row[r])
    BY <1>1 DEF AcceptCommit, CompleteAcceptance
  <1>a. AsAccepted(old) \in Row
    BY <1>2, RowsTyped
  <1>5. AsAccepted(old).status = "approved" /\ AsAccepted(old).response = "accepted"
    BY <1>2 DEF AsAccepted, Row
  <1>6. row'[r].status = "approved" /\ row'[r].response = "accepted"
    BY <1>2, <1>3, <1>4, <1>a, <1>5, FlushRow DEF Answered
  <1> QED
    BY <1>1, <1>3, <1>6 DEF FillsPosition, Settled, Answered

LEMMA FilledStays ==
    ASSUME IInv, AcceptedRelated, NEW h \in Handlers, AcceptCommit(h),
           Related(sess[h].req) = {}, Filled(Accepted(h), JobOf(h))
    PROVE  Filled(row', JobOf(h))
  <1> PICK r : r = sess[h].req
    OBVIOUS
  <1> PICK g : g = JobOf(h)
    OBVIOUS
  <1>0. h \in Workers /\ Holding(h) /\ TypeOK
    BY DEF Workers, Holding, AcceptCommit, CompleteAcceptance, IInv
  <1>1. r \in Requests /\ FillsPosition(row'[r]) /\ g \in Groups
    BY AcceptFills, JobsTyped DEF JobOf
  <1>2. ASSUME NEW m \in Members(g), m # r, FillsPosition(Accepted(h)[m])
        PROVE  FillsPosition(row'[m])
    <2>1. m \in Requests /\ GroupOf[m] = g
      BY DEF Members
    <2>2. Accepted(h)[m] = sess[h].seen[m] /\ sess[h].seen[m] = row[m]
      BY <1>0, <1>2, <2>1 DEF Accepted, IInv, LockedViewCurrent
    <2>3. m \notin Siblings(h)
      BY <1>2 DEF Siblings, Open, FillsPosition
    <2>4. m \notin Rivals(h)
      BY <2>1 DEF Rivals
    <2>5. row'[m] = row[m]
      BY <1>2, <2>1, <2>3, <2>4 DEF AcceptCommit, CompleteAcceptance
    <2> QED
      BY <1>2, <2>2, <2>5
  <1> PICK X, Y : /\ X = {m \in Members(g) : FillsPosition(Accepted(h)[m])}
                  /\ Y = {m \in Members(g) : FillsPosition(row'[m])}
    OBVIOUS
  <1>3. X \subseteq Y
    BY <1>1, <1>2
  <1>4. IsFiniteSet(X) /\ IsFiniteSet(Y)
    BY FillersFinite
  <1>5. Cardinality(X) <= Cardinality(Y) /\ Cardinality(X) \in Nat /\ Cardinality(Y) \in Nat
    BY <1>3, <1>4, FS_Subset, FS_CardinalityType
  <1>6. Cardinality(X) >= Positions[g] /\ Positions[g] \in Nat
    BY <1>1, JobsTyped DEF Filled
  <1> QED
    BY <1>5, <1>6 DEF Filled

(* A request becomes "filled" only in the commit of an acceptance that fills *)
(* its job or takes an overlapping job of the same parent: the positions are *)
(* counted under the job's lock, so what the handler saw still stands when   *)
(* it writes. Bookings are never deleted, so an earlier acceptance of the    *)
(* request itself, whose commit would close nothing, is still seen.          *)
THEOREM ClosedWhenFull == Spec => ClosedOnlyWhenFull
  <1> DEFINE Explained(r) ==
                \/ Filled(row', GroupOf[r])
                \/ \E s \in Requests :
                      /\ GroupOf[s] # GroupOf[r] /\ SameParent(r, s)
                      /\ <<GroupOf[s], GroupOf[r]>> \in Overlaps
                      /\ FillsPosition(row'[s]) /\ ~FillsPosition(row[s])
             Closed == \A r \in Requests :
                row[r].reason # "filled" /\ row'[r].reason = "filled" => Explained(r)
  <1>1. IInv /\ AcceptedRelated /\ [Next]_vars => [Closed]_vars
    <2> SUFFICES ASSUME IInv, AcceptedRelated, [Next]_vars, NEW r \in Requests,
                        row[r].reason # "filled", row'[r].reason = "filled"
                 PROVE  Explained(r)
      OBVIOUS
    <2>1. PICK h \in Handlers : AcceptCommit(h)
      BY ReasonKept DEF IInv
    <2>2. r # sess[h].req
      <3>1. CASE r = sess[h].req
        <4> PICK old : old = sess[h].seen[r]
          OBVIOUS
        <4>1. row'[r] = Flush(old, AsAccepted(old), row[r]) /\ old \in Row /\ row[r] \in Row
          BY <2>1, <3>1 DEF AcceptCommit, CompleteAcceptance, IInv, TypeOK, Session, Workers
        <4>2. AsAccepted(old).reason = "accepted_by_nanny"
          BY <4>1 DEF AsAccepted, Row
        <4>3. row'[r].reason \in {row[r].reason, "accepted_by_nanny"}
          BY <4>1, <4>2 DEF Flush, Row
        <4> QED
          BY <4>3
      <3> QED
        BY <3>1
    <2>3. r \in Siblings(h) \cup Rivals(h)
      BY <2>1, <2>2 DEF AcceptCommit, CompleteAcceptance
    <2>4. CASE r \in Siblings(h)
      <3>1. /\ Related(sess[h].req) = {} /\ Filled(Accepted(h), JobOf(h))
            /\ GroupOf[r] = JobOf(h)
        BY <2>4 DEF Siblings, Members
      <3> QED
        BY <2>1, <3>1, FilledStays
    <2>5. CASE r \in Rivals(h)
      <3>1. /\ Related(sess[h].req) = {} /\ GroupOf[r] # JobOf(h)
            /\ SameParent(r, sess[h].req) /\ <<JobOf(h), GroupOf[r]>> \in Overlaps
        BY <2>5 DEF Rivals
      <3> QED
        BY <2>1, <3>1, AcceptFills DEF JobOf
    <2> QED
      BY <2>3, <2>4, <2>5
  <1>2. AcceptedRelated /\ IInv /\ [Next]_vars => AcceptedRelated'
    BY AcceptedNext
  <1> HIDE DEF Closed
  <1>3. Spec => [][Closed]_vars
    BY <1>1, <1>2, AcceptedInit, Invariance, PTL DEF Spec
  <1> QED
    BY <1>3, PTL DEF ClosedOnlyWhenFull, Closed

----------------------------------------------------------------------------
(* No double booking                                                         *)

(* No nanny accepts two requests at the same moment.                         *)
OneAnswerEach ==
    \A h, k \in Workers :
        /\ sess[h].op = "accept" /\ sess[k].op = "accept"
        /\ NannyOf[sess[h].req] = NannyOf[sess[k].req]
        => h = k

(* The nanny of r has no booking in an overlapping window.                   *)
Free(r) ==
    \A s \in Requests :
        NannyOf[s] = NannyOf[r] /\ <<GroupOf[r], GroupOf[s]>> \in Overlaps =>
            booking[s] # "live"

(* Who accepts has no such booking, or makes none.                           *)
AcceptsFree ==
    \A h \in Workers :
        sess[h].op = "accept" => Free(sess[h].req) \/ Related(sess[h].req) # {}

LEMMA AcceptSession ==
    ASSUME TypeOK, [Next]_vars, NEW h \in Workers, sess'[h].op = "accept"
    PROVE  \/ sess[h].op = "accept" /\ sess'[h].req = sess[h].req
           \/ \E r \in Requests : AcceptRead(h, r) /\ sess'[h].req = r
  <1> Handlers \subseteq Workers /\ Cron \in Workers
    BY DEF Workers
  <1> DEFINE Goal == \/ sess[h].op = "accept" /\ sess'[h].req = sess[h].req
                     \/ \E r \in Requests : AcceptRead(h, r) /\ sess'[h].req = r
  <1>0. sess \in [Workers -> Session] /\ Idle.op = "idle"
    BY DEF TypeOK, Idle
  <1>1. ASSUME NEW k \in Handlers, LockGroup(k) \/ Charge(k) PROVE Goal
    <2>1. CASE k # h
      <3>1. sess'[h] = sess[h]
        BY <1>0, <1>1, <2>1 DEF LockGroup, Charge
      <3> QED
        BY <3>1
    <2>2. CASE k = h
      <3>1. sess'[h] = Idle \/ (sess'[h].op = sess[h].op /\ sess'[h].req = sess[h].req)
        BY <1>0, <1>1, <2>2 DEF LockGroup, Charge, Session
      <3> QED
        BY <1>0, <3>1
    <2> QED
      BY <2>1, <2>2
  <1>2. ASSUME NEW k \in Workers, sess' = [sess EXCEPT ![k] = Idle] PROVE Goal
    BY <1>0, <1>2
  <1>3. ASSUME NEW k \in Handlers, NEW r \in Requests, AcceptRead(k, r) PROVE Goal
    <2>1. sess' = [sess EXCEPT ![k] = Reading("accept", r, {}, {r})]
      BY <1>3 DEF AcceptRead
    <2>2. Reading("accept", r, {}, {r}).req = r
      BY DEF Reading
    <2> QED
      BY <1>0, <1>3, <2>1, <2>2
  <1>4. ASSUME NEW k \in Workers, NEW op, NEW r, NEW todo, NEW rs, op # "accept",
               sess' = [sess EXCEPT ![k] = Reading(op, r, todo, rs)]
        PROVE  Goal
    <2>1. Reading(op, r, todo, rs).op = op
      BY DEF Reading
    <2> QED
      BY <1>0, <1>4, <2>1
  <1>5. ASSUME UNCHANGED sess PROVE Goal
    BY <1>5
  <1> DEFINE Starts == \E k \in Workers : \E op, r, todo, rs :
                          op # "accept" /\ sess' = [sess EXCEPT ![k] = Reading(op, r, todo, rs)]
  <1>6. ASSUME NEW k \in Handlers, CancelCommit(k)
        PROVE  sess' = [sess EXCEPT ![k] = Idle] \/ Starts
    <2>1. PICK rest : sess' = [sess EXCEPT ![k] = IF rest = {} THEN Idle
                                                 ELSE Reading("cancel", Nobody, rest, rest)]
      BY <1>6 DEF CancelCommit
    <2> QED
      BY <2>1
  <1>7. ASSUME NEW k \in Handlers, NEW r \in Requests, NEW answer \in Answers,
               RespondRead(k, r, answer)
        PROVE  Starts
    <2>1. answer # "accept"
      BY WorkersTyped
    <2> QED
      BY <1>7, <2>1 DEF RespondRead
  <1>8. ASSUME NEW k \in Handlers, NEW g \in Groups, CancelRead(k, g) PROVE Starts
    BY <1>8 DEF CancelRead
  <1>9. ASSUME Sweep PROVE sess' = [sess EXCEPT ![Cron] = Idle] \/ Starts
    BY <1>9 DEF Sweep, ExpireRead, ExpireCommit
  <1>10. ASSUME NEW k \in Handlers,
               AcceptCommit(k) \/ AcceptFailed(k) \/ RespondCommit(k) \/ DeadlockVictim(k)
        PROVE  sess' = [sess EXCEPT ![k] = Idle]
    BY <1>10 DEF AcceptCommit, AcceptFailed, RespondCommit, DeadlockVictim, Rollback
  <1>11. ASSUME NEW k \in Crashing, Crash(k)
        PROVE  k \in Workers /\ sess' = [sess EXCEPT ![k] = Idle]
    BY <1>11, WorkersTyped DEF Crash, Rollback, Workers
  <1>12. Starts => Goal
    BY <1>4
  <1>13. Goal
    <2> HIDE DEF Goal, Starts
    <2> QED
      BY <1>1, <1>2, <1>3, <1>5, <1>6, <1>7, <1>8, <1>9, <1>10, <1>11, <1>12
         DEF Next, Arrive, Serve, Environment, ChargeWebhook, Tick, vars
  <1> QED
    BY <1>13

LEMMA FreeNext ==
    ASSUME IInv, AcceptsFree, OneAnswerEach, [Next]_vars
    PROVE  AcceptsFree'
  <1>0. TypeOK /\ AcceptsRequest
    BY DEF IInv
  <1> SUFFICES ASSUME NEW h \in Workers, sess'[h].op = "accept",
                      NEW r, r = sess'[h].req
               PROVE  Free(r)' \/ Related(r)' # {}
    BY DEF AcceptsFree, Free, Related, SameParent
  <1>1. ASSUME AcceptRead(h, r) PROVE Free(r)' \/ Related(r)' # {}
    <2>1. Related(r) # {} \/ Available(r)
      BY <1>1 DEF AcceptRead
    <2>2. Available(r) => Free(r)
      BY DEF Available, Free
    <2>3. booking' = booking
      BY <1>1 DEF AcceptRead
    <2> QED
      BY <2>1, <2>2, <2>3 DEF Free, Related, SameParent
  <1>2. ASSUME sess[h].op = "accept", r = sess[h].req
        PROVE  Free(r)' \/ Related(r)' # {}
    <2>1. r \in Requests /\ (Free(r) \/ Related(r) # {})
      BY <1>0, <1>2 DEF AcceptsRequest, AcceptsFree
    <2>2. CASE Related(r) # {}
      BY <1>0, <2>1, <2>2, RelatedStays
    <2>3. CASE Free(r)
      <3>1. ASSUME NEW s \in Requests, NannyOf[s] = NannyOf[r],
                   <<GroupOf[r], GroupOf[s]>> \in Overlaps, booking'[s] = "live"
            PROVE  FALSE
        <4>1. booking[s] # "live"
          BY <2>3, <3>1 DEF Free
        <4>2. PICK k \in Handlers : AcceptCommit(k) /\ s = sess[k].req
          BY <1>0, <3>1, <4>1, BookedByAcceptance
        <4>3. k \in Workers /\ sess[k].op = "accept" /\ sess' = [sess EXCEPT ![k] = Idle]
          BY <4>2 DEF Workers, AcceptCommit
        <4>4. k = h
          BY <1>2, <3>1, <4>2, <4>3 DEF OneAnswerEach
        <4>5. sess'[h] = Idle
          BY <1>0, <4>3, <4>4 DEF TypeOK
        <4> QED
          BY <4>5 DEF Idle
      <3>2. \A s \in Requests : NannyOf[s] = NannyOf[r] /\ <<GroupOf[r], GroupOf[s]>> \in Overlaps
               => booking'[s] # "live"
        BY <3>1
      <3> QED
        BY <3>2 DEF Free
    <2> QED
      BY <2>1, <2>2, <2>3
  <1> QED
    BY <1>0, <1>1, <1>2, AcceptSession

LEMMA DoubleNext ==
    ASSUME IInv, AcceptsFree, NoDoubleBooking, [Next]_vars
    PROVE  NoDoubleBooking'
  <1>0. TypeOK /\ AcceptsRequest
    BY DEF IInv
  <1> SUFFICES ASSUME NEW r \in Requests, NEW s \in Requests, r # s, NannyOf[r] = NannyOf[s],
                      <<GroupOf[r], GroupOf[s]>> \in Overlaps,
                      booking'[r] = "live", booking'[s] = "live"
               PROVE  FALSE
    BY DEF NoDoubleBooking
  <1>1. ASSUME NEW h \in Handlers, AcceptCommit(h), NEW q \in Requests, q # sess[h].req,
               NannyOf[q] = NannyOf[sess[h].req], booking[sess[h].req] # "live",
               booking'[sess[h].req] = "live", booking'[q] = "live",
               <<GroupOf[sess[h].req], GroupOf[q]>> \in Overlaps
        PROVE  FALSE
    <2>1. h \in Workers /\ sess[h].op = "accept" /\ Related(sess[h].req) = {}
          /\ booking' = [booking EXCEPT ![sess[h].req] = "live"]
      BY <1>1 DEF Workers, AcceptCommit, CompleteAcceptance
    <2>2. booking[q] = "live"
      BY <1>0, <1>1, <2>1 DEF TypeOK
    <2>3. Free(sess[h].req)
      BY <2>1 DEF AcceptsFree
    <2> QED
      BY <1>1, <2>2, <2>3 DEF Free
  <1>2. <<GroupOf[s], GroupOf[r]>> \in Overlaps
    BY WindowsTyped, JobsTyped
  <1>3. booking[r] = "live" /\ booking[s] = "live" => FALSE
    BY DEF NoDoubleBooking
  <1> QED
    BY <1>0, <1>1, <1>2, <1>3, BookedByAcceptance

(* A nanny is never booked for two overlapping jobs while she answers one    *)
(* request at a time. The handler checks her availability before it locks    *)
(* the job, and no lock is hers: two of her answers at once both find her    *)
(* free. Answers of other nannies, cancellations, the sweep, crashes and     *)
(* late webhooks may come between any two steps.                             *)
THEOREM NeverDoubleBooked == Spec /\ []OneAnswerEach => []NoDoubleBooking
  <1>1. Init => AcceptsFree /\ NoDoubleBooking
    BY DEF Init, Idle, AcceptsFree, NoDoubleBooking
  <1>2. IInv /\ OneAnswerEach /\ AcceptsFree /\ NoDoubleBooking /\ [Next]_vars
          => AcceptsFree' /\ NoDoubleBooking'
    BY FreeNext, DoubleNext
  <1> QED
    BY <1>1, <1>2, Invariance, PTL DEF Spec

----------------------------------------------------------------------------
(* Reserved positions                                                        *)

(* Who holds a job's rows is accepting one of its invitations.               *)
HoldsToAccept == \A h \in Workers : Holding(h) => sess[h].op = "accept"

LEMMA HoldsNext == TypeOK /\ HoldsToAccept /\ [Next]_vars => HoldsToAccept'
  <1> SUFFICES ASSUME TypeOK, HoldsToAccept, [Next]_vars,
                      NEW h \in Workers, Holding(h)'
               PROVE  sess'[h].op = "accept"
    BY DEF HoldsToAccept, Workers
  <1> sess \in [Workers -> Session] /\ Handlers \subseteq Workers
    BY DEF TypeOK, Workers
  <1>1. Idle.phase = "none"
        /\ \A op, r, todo, rs : Reading(op, r, todo, rs).phase = "read"
    BY DEF Idle, Reading
  <1>2. ASSUME sess'[h] = sess[h] PROVE sess'[h].op = "accept"
    BY <1>2 DEF HoldsToAccept, Holding
  <1>3. ASSUME NEW k \in Handlers, LockGroup(k) PROVE sess'[h].op = "accept"
    <2>1. CASE k = h
      BY <1>1, <1>3, <2>1 DEF LockGroup, Holding, Session
    <2>2. CASE k # h
      BY <1>2, <1>3, <2>2 DEF LockGroup
    <2> QED
      BY <2>1, <2>2
  <1>4. ASSUME NEW k \in Handlers, Charge(k) PROVE sess'[h].op = "accept"
    <2>1. CASE k = h
      <3>1. Holding(k) /\ sess'[k].op = sess[k].op
        BY <1>4 DEF Charge, Holding, Session
      <3> QED
        BY <2>1, <3>1 DEF HoldsToAccept
    <2>2. CASE k # h
      BY <1>2, <1>4, <2>2 DEF Charge
    <2> QED
      BY <2>1, <2>2
  <1>5. ASSUME NEW k \in Workers,
               \/ sess' = [sess EXCEPT ![k] = Idle]
               \/ \E op, r, todo, rs :
                     sess' = [sess EXCEPT ![k] = Reading(op, r, todo, rs)]
        PROVE  sess'[h].op = "accept"
    <2>1. sess'[h] = sess[h]
      BY <1>1, <1>5 DEF Holding
    <2> QED
      BY <1>2, <2>1
  <1> QED
    BY <1>2, <1>3, <1>4, <1>5, SessStep

(* Two sessions that hold rows hold those of different jobs.                 *)
LEMMA HoldersApart ==
    ASSUME LockedViewCurrent, NEW h \in Workers, NEW k \in Workers,
           Holding(h), Holding(k), JobOf(h) = JobOf(k)
    PROVE  h = k
  BY DEF LockedViewCurrent

(* A step that leaves those who accept and what was charged alone, whichever *)
(* it is: the job's rows they hold keep their positions, and those of other  *)
(* jobs at most lose them.                                                   *)
LEMMA QuietStep ==
    ASSUME TypeOK, LockedViewCurrent, PaymentKept, [Next]_vars, charges' = charges,
           \A h \in Workers : Holding(h) \/ Holding(h)' => sess'[h] = sess[h]
    PROVE  Reserving!Leave(Filling \ Filling')
  <1> DEFINE gone == Filling \ Filling'
  <1>0. ASSUME NEW h \in Workers PROVE Holding(h)' <=> Holding(h)
    BY <1>0 DEF Holding
  <1>1. Accepting' = Accepting
    <2>1. Workers' = Workers
      BY DEF Workers
    <2>2. \A h \in Workers : Holding(h) => sess'[h].req = sess[h].req
      OBVIOUS
    <2> QED
      BY <1>0, <2>1, <2>2 DEF Accepting
  <1>2. ASSUME NEW h \in Handlers, AcceptCommit(h) PROVE FALSE
    <2>1. h \in Workers /\ Holding(h) /\ sess'[h] = Idle
      BY <1>2 DEF AcceptCommit, CompleteAcceptance, Holding, Workers, TypeOK
    <2>2. Idle.phase = "none"
      BY DEF Idle
    <2> QED
      BY <2>1, <2>2 DEF Holding
  <1>3. ASSUME NEW s \in Requests, FillsPosition(row'[s]) PROVE FillsPosition(row[s])
    BY <1>2, <1>3, OtherStepsKeep DEF Keeps, FillsPosition, Settled, PaymentKept
  <1>4. Filling' = Filling \ gone
    BY <1>3 DEF Filling
  <1>5. ASSUME NEW h \in Workers, Holding(h), NEW s \in gone
        PROVE  GroupOf[s] # GroupOf[sess[h].req]
    <2>1. s \in Requests /\ row'[s] # row[s]
      BY <1>5 DEF Filling
    <2>2. \A t \in Members(JobOf(h)) : row'[t] = row[t]
      BY <1>5, OthersWait
    <2> QED
      BY <2>1, <2>2 DEF Members, JobOf
  <1>6. Reserving!Untouched(gone)
    BY <1>5 DEF Reserving!Untouched, Accepting
  <1> QED
    BY <1>1, <1>4, <1>6 DEF Reserving!Leave

(* A session that ends is no longer accepting its request.                   *)
LEMMA HolderEnds ==
    ASSUME TypeOK, LockedViewCurrent, NEW h \in Workers, Holding(h),
           sess' = [sess EXCEPT ![h] = Idle]
    PROVE  sess[h].req \in Accepting /\ Accepting' = Accepting \ {sess[h].req}
  <1>1. \A k \in Workers \ {h} : sess'[k] = sess[k]
    BY DEF TypeOK
  <1>2. ~Holding(h)'
    BY DEF TypeOK, Idle, Holding
  <1>3. \A k \in Workers \ {h} : Holding(k) => sess[k].req # sess[h].req
    BY HoldersApart DEF JobOf
  <1>4. \A k \in Workers \ {h} : Holding(k)' <=> Holding(k)
    BY <1>1 DEF Holding
  <1>5. Workers' = Workers
    BY DEF Workers
  <1> QED
    BY <1>1, <1>2, <1>3, <1>4, <1>5 DEF Accepting

(* It gives its position up, unless its row fills one now.                   *)
LEMMA HolderGivesUp ==
    ASSUME TypeOK, LockedViewCurrent, NEW h \in Workers, Holding(h),
           sess' = [sess EXCEPT ![h] = Idle], charges' = charges,
           \A s \in Requests : FillsPosition(row'[s]) <=> FillsPosition(row[s])
    PROVE  Reserving!GiveUp(sess[h].req)
  <1>1. Filling' = Filling
    BY DEF Filling
  <1> QED
    BY <1>1, HolderEnds DEF Reserving!GiveUp

LEMMA AcceptServes ==
    ASSUME IInv, NEW h \in Handlers, AcceptCommit(h)
    PROVE  Reserving!Serve(sess[h].req) \/ Reserving!GiveUp(sess[h].req)
  <1> PICK r : r = sess[h].req
    OBVIOUS
  <1> PICK old : old = sess[h].seen[r]
    OBVIOUS
  <1>0. /\ TypeOK /\ LockedViewCurrent /\ PaymentKept
        /\ h \in Workers /\ Holding(h) /\ sess[h].phase = "charged"
        /\ sess' = [sess EXCEPT ![h] = Idle] /\ charges' = charges
    BY DEF AcceptCommit, CompleteAcceptance, IInv, Holding, Workers
  <1>1. r \in Requests /\ charges[r] > 0
    BY <1>0 DEF LockedViewCurrent
  <1>2. row[r] \in Row /\ old \in Row /\ AsAccepted(old) \in Row
    BY <1>0, <1>1, RowsTyped DEF TypeOK, Session
  <1>3. row'[r] = Flush(old, AsAccepted(old), row[r])
    BY <1>1 DEF AcceptCommit, CompleteAcceptance
  <1>4. FillsPosition(row[r]) => FillsPosition(row'[r])
    <2>1. /\ AsAccepted(old).status = "approved" /\ AsAccepted(old).response = "accepted"
          /\ AsAccepted(old).payment = "paid"
      BY <1>2 DEF AsAccepted, Row
    <2> QED
      BY <1>2, <1>3, <2>1, FlushRow DEF FillsPosition, Settled
  <1>5. ASSUME NEW s \in Requests \ {r}
        PROVE  FillsPosition(row'[s]) <=> FillsPosition(row[s])
    <2>1. /\ s \in Siblings(h) \cup Rivals(h) => Open(row[s])
          /\ row'[s] = IF s \in Siblings(h) \cup Rivals(h) THEN AsFilled(row[s]) ELSE row[s]
      <3>1. ASSUME s \in Siblings(h) PROVE Open(row[s])
        <4>1. s \in Members(JobOf(h)) /\ Open(Accepted(h)[s])
          BY <3>1 DEF Siblings
        <4>2. Accepted(h)[s] = sess[h].seen[s]
          BY <1>0, <1>5 DEF Accepted, TypeOK, Session
        <4>3. sess[h].seen[s] = row[s]
          BY <1>0, <4>1 DEF LockedViewCurrent
        <4> QED
          BY <4>1, <4>2, <4>3
      <3>2. s \in Rivals(h) => Open(row[s])
        BY DEF Rivals
      <3> QED
        BY <3>1, <3>2 DEF AcceptCommit, CompleteAcceptance
    <2>2. row[s] \in Row
      BY <1>0 DEF TypeOK
    <2>3. ~FillsPosition(AsFilled(row[s]))
      BY <2>2 DEF FillsPosition, AsFilled, Row
    <2> QED
      BY <2>1, <2>3 DEF Open, FillsPosition
  <1>6. CASE FillsPosition(row'[r])
    <2>1. Filling' = Filling \cup {r}
      BY <1>1, <1>5, <1>6 DEF Filling
    <2> QED
      BY <1>0, <1>1, <2>1, HolderEnds DEF Reserving!Serve
  <1>7. CASE ~FillsPosition(row'[r])
    <2>1. \A s \in Requests : FillsPosition(row'[s]) <=> FillsPosition(row[s])
      BY <1>4, <1>5, <1>7
    <2> QED
      BY <1>0, <2>1, HolderGivesUp
  <1> QED
    BY <1>6, <1>7

LEMMA FailureGivesUp ==
    ASSUME IInv, NEW h \in Handlers, AcceptFailed(h)
    PROVE  Reserving!GiveUp(sess[h].req)
  <1>0. /\ TypeOK /\ LockedViewCurrent /\ h \in Workers /\ Holding(h)
        /\ sess' = [sess EXCEPT ![h] = Idle] /\ charges' = charges
    BY DEF AcceptFailed, IInv, Holding, Workers
  <1>1. ASSUME NEW s \in Requests
        PROVE  FillsPosition(row'[s]) <=> FillsPosition(row[s])
    <2>1. row[s] \in Row /\ sess[h].seen[s] \in Row /\ AsUnpaid(sess[h].seen[s]) \in Row
      BY <1>0, RowsTyped DEF TypeOK, Session
    <2>2. \/ row'[s] = row[s]
          \/ row'[s] = Flush(sess[h].seen[s], AsUnpaid(sess[h].seen[s]), row[s])
      BY <1>0 DEF AcceptFailed, TypeOK
    <2>3. LET old == sess[h].seen[s] IN
          /\ AsUnpaid(old).status = old.status /\ AsUnpaid(old).response = old.response
          /\ AsUnpaid(old).payment = old.payment
      BY <2>1 DEF AsUnpaid, Row
    <2> QED
      BY <2>1, <2>2, <2>3, FlushRow DEF FillsPosition, Settled
  <1> QED
    BY <1>0, <1>1, HolderGivesUp

(* Under the lock, and with a view of the other invitations in which the job *)
(* is not filled, a session takes a position.                                *)
LEMMA LockReserves ==
    ASSUME IInv, IInv', NEW h \in Handlers, LockGroup(h), sess'[h] # Idle
    PROVE  Reserving!Reserve(sess[h].req)
  <1> PICK r : r = sess[h].req
    OBVIOUS
  <1>0. /\ TypeOK /\ LockedViewCurrent /\ LockedViewCurrent' /\ TypeOK'
        /\ h \in Workers /\ Workers' = Workers
    BY DEF IInv, Workers
  <1>1. /\ lock[JobOf(h)] = Nobody /\ sess[h].phase = "read"
        /\ row' = row /\ charges' = charges
        /\ sess' = [sess EXCEPT ![h].phase = "locked",
                                ![h].seen = Locked(h, {sess[h].req})]
    BY <1>0 DEF LockGroup, TypeOK
  <1>2. sess'[h].req = r /\ Holding(h)' /\ ~Holding(h) /\ JobOf(h)' = GroupOf[r]
    BY <1>0, <1>1 DEF TypeOK, Session, Holding, JobOf
  <1>3. \A k \in Workers \ {h} : sess'[k] = sess[k] /\ (Holding(k)' <=> Holding(k))
    BY <1>0, <1>1 DEF TypeOK, Holding
  <1>4. Accepting' = Accepting \cup {r}
    BY <1>0, <1>2, <1>3 DEF Accepting
  <1>5. ASSUME NEW s \in Accepting PROVE GroupOf[r] # GroupOf[s]
    <2>1. PICK k \in Workers : Holding(k) /\ s = sess[k].req
      BY DEF Accepting
    <2>2. lock[GroupOf[s]] = k
      BY <1>0, <2>1 DEF LockedViewCurrent, JobOf
    <2> QED
      BY <1>0, <1>1, <2>2, WorkersTyped DEF JobOf, Workers
  <1>6. Cardinality(Fillers(GroupOf[r]) \ {r}) < Positions[GroupOf[r]]
    <2> DEFINE view == Locked(h, {r})
    <2>1. ~Filled(view, JobOf(h)) /\ JobOf(h) \in Groups
      <3>1. sess[h].req \in Requests
        BY <1>0 DEF IInv, AcceptsRequest, LockGroup
      <3>2. ~Filled(view, JobOf(h))
        BY <1>0 DEF LockGroup, TypeOK
      <3> QED
        BY <3>1, <3>2, JobsTyped DEF JobOf
    <2>2. \A s \in Members(JobOf(h)) \ {r} : view[s] = row[s]
      BY DEF Locked, Members
    <2>3. Cardinality({s \in Members(JobOf(h)) : FillsPosition(row[s])} \ {r})
            < Positions[JobOf(h)]
      BY <2>1, <2>2, OpenView
    <2> QED
      BY <2>3 DEF JobOf, Fillers
  <1>7. Fillers(GroupOf[r]) \ {r} = Reserving!Rest(r)
    BY DEF Reserving!Rest, Filling, Fillers, Members
  <1>8. Reserving!Cardinality(Reserving!Rest(r)) = Cardinality(Reserving!Rest(r))
    BY DEF Reserving!Cardinality, Cardinality
  <1>9. Filling' = Filling
    BY <1>1 DEF Filling
  <1> QED
    BY <1>1, <1>4, <1>5, <1>6, <1>7, <1>8, <1>9
       DEF Reserving!Reserve, Reserving!Untouched

(* A successful charge is the request's whose position is reserved.          *)
LEMMA ChargePays ==
    ASSUME IInv, NEW h \in Handlers, Charge(h)
    PROVE  Reserving!Pay(sess[h].req) \/ UNCHANGED <<Filling, Accepting, charges>>
  <1>0. TypeOK /\ h \in Workers /\ Workers' = Workers /\ Holding(h) /\ row' = row
    BY DEF IInv, Workers, Charge, Holding
  <1>1. PICK phase \in {"charged", "failed"} : sess' = [sess EXCEPT ![h].phase = phase]
    BY DEF Charge
  <1>2. /\ sess'[h].req = sess[h].req /\ Holding(h)'
        /\ \A k \in Workers \ {h} : sess'[k] = sess[k] /\ (Holding(k)' <=> Holding(k))
    BY <1>0, <1>1 DEF TypeOK, Session, Holding
  <1>3. Accepting' = Accepting
    BY <1>0, <1>2 DEF Accepting
  <1>4. Filling' = Filling
    BY <1>0 DEF Filling
  <1>5. \/ charges' = [charges EXCEPT ![sess[h].req] = @ + 1]
        \/ charges' = charges
    BY DEF Charge
  <1>6. sess[h].req \in Accepting
    BY <1>0 DEF Accepting
  <1> QED
    BY <1>3, <1>4, <1>5, <1>6 DEF Reserving!Pay

LEMMA ReservingInit == Init => Reserving!Init
  BY WorkersTyped DEF Init, Reserving!Init, Filling, Accepting, NewRow, FillsPosition, Holding, Idle

(* Every step of the handlers is one of the reserved positions', or none.    *)
LEMMA ReservingNext ==
    ASSUME IInv, IInv', HoldsToAccept, [Next]_vars
    PROVE  [Reserving!Next]_<<Filling, Accepting, charges>>
  <1> DEFINE Goal == [Reserving!Next]_<<Filling, Accepting, charges>>
             Quiet == \A h \in Workers : Holding(h) \/ Holding(h)' => sess'[h] = sess[h]
  <1>0. /\ TypeOK /\ LockedViewCurrent /\ PaymentKept
        /\ Handlers \subseteq Workers /\ Cron \in Workers /\ sess \in [Workers -> Session]
    BY DEF IInv, TypeOK, Workers
  <1>i. Idle.phase = "none"
        /\ \A op, r, todo, rs : Reading(op, r, todo, rs).phase = "read"
    BY DEF Idle, Reading
  <1>1. ASSUME NEW h \in Workers, ~Holding(h),
               \/ sess' = [sess EXCEPT ![h] = Idle]
               \/ \E op, r, todo, rs :
                     sess' = [sess EXCEPT ![h] = Reading(op, r, todo, rs)]
        PROVE  Quiet
    <2>1. sess'[h].phase \in {"none", "read"}
      BY <1>0, <1>i, <1>1
    <2>2. \A k \in Workers \ {h} : sess'[k] = sess[k]
      BY <1>0, <1>1
    <2> QED
      BY <1>1, <2>1, <2>2 DEF Holding
  <1>2. ASSUME Quiet, charges' = charges PROVE Goal
    <2>1. Reserving!Leave(Filling \ Filling')
      BY <1>0, <1>2, QuietStep
    <2>2. Filling \ Filling' \in SUBSET Requests
      BY DEF Filling
    <2> QED
      BY <2>1, <2>2 DEF Reserving!Next
  <1>3. ASSUME NEW r \in Requests,
               \/ Reserving!Reserve(r) \/ Reserving!Pay(r) \/ Reserving!Serve(r) \/ Reserving!GiveUp(r)
        PROVE  Goal
    BY <1>3 DEF Reserving!Next
  <1>4. ASSUME NEW h \in Workers, Holding(h) PROVE sess[h].req \in Requests
    BY <1>0, <1>4 DEF LockedViewCurrent
  <1>5. ASSUME NEW h \in Handlers, Arrive(h) PROVE Goal
    <2>1. sess[h] = Idle /\ charges' = charges
          /\ \E op, r, todo, rs : sess' = [sess EXCEPT ![h] = Reading(op, r, todo, rs)]
      <3> DEFINE Begins == /\ sess[h] = Idle /\ charges' = charges
                           /\ \E op, r, todo, rs :
                                 sess' = [sess EXCEPT ![h] = Reading(op, r, todo, rs)]
      <3>1. ASSUME NEW r \in Requests, AcceptRead(h, r) PROVE Begins
        BY <3>1 DEF AcceptRead
      <3>2. ASSUME NEW r \in Requests, NEW answer \in Answers, RespondRead(h, r, answer)
            PROVE  Begins
        BY <3>2 DEF RespondRead
      <3>3. ASSUME NEW g \in Groups, CancelRead(h, g) PROVE Begins
        BY <3>3 DEF CancelRead
      <3> HIDE DEF Begins
      <3>4. Begins
        BY <1>5, <3>1, <3>2, <3>3 DEF Arrive
      <3> QED
        BY <3>4 DEF Begins
    <2> QED
      BY <1>0, <1>1, <1>2, <1>i, <2>1 DEF Holding
  <1>6. ASSUME NEW h \in Handlers, LockGroup(h) PROVE Goal
    <2>1. CASE sess'[h] = Idle
      <3>1. ~Holding(h) /\ sess' = [sess EXCEPT ![h] = Idle] /\ charges' = charges
        BY <1>0, <1>6, <1>i, <2>1 DEF LockGroup, Holding, Session
      <3> QED
        BY <1>0, <1>1, <1>2, <3>1
    <2>2. CASE sess'[h] # Idle
      <3>1. sess[h].req \in Requests
        BY <1>0, <1>6 DEF LockGroup, IInv, AcceptsRequest
      <3> QED
        BY <1>3, <1>6, <2>2, <3>1, LockReserves
    <2> QED
      BY <2>1, <2>2
  <1>7. ASSUME NEW h \in Handlers, Charge(h) PROVE Goal
    <2>1. Holding(h)
      BY <1>7 DEF Charge, Holding
    <2> QED
      BY <1>0, <1>3, <1>4, <1>7, <2>1, ChargePays
  <1>8. ASSUME NEW h \in Handlers, AcceptCommit(h) PROVE Goal
    <2>1. Holding(h)
      BY <1>8 DEF AcceptCommit, CompleteAcceptance, Holding
    <2> QED
      BY <1>0, <1>3, <1>4, <1>8, <2>1, AcceptServes
  <1>9. ASSUME NEW h \in Handlers, AcceptFailed(h) PROVE Goal
    <2>1. Holding(h)
      BY <1>9 DEF AcceptFailed, Holding
    <2> QED
      BY <1>0, <1>3, <1>4, <1>9, <2>1, FailureGivesUp
  <1>10. ASSUME NEW h \in Workers, Rollback(h) PROVE Goal
    <2>1. sess' = [sess EXCEPT ![h] = Idle] /\ charges' = charges /\ row' = row
      BY <1>10 DEF Rollback
    <2>2. CASE Holding(h)
      BY <1>0, <1>3, <1>4, <2>1, <2>2, HolderGivesUp
    <2>3. CASE ~Holding(h)
      BY <1>1, <1>2, <2>1, <2>3
    <2> QED
      BY <2>2, <2>3
  <1>11. ASSUME NEW h \in Handlers, RespondCommit(h) \/ CancelCommit(h) PROVE Goal
    <2>1. ~Holding(h) /\ charges' = charges
      BY <1>0, <1>11, WorkersTyped DEF RespondCommit, CancelCommit, HoldsToAccept
    <2>2. \/ sess' = [sess EXCEPT ![h] = Idle]
          \/ \E op, r, todo, rs : sess' = [sess EXCEPT ![h] = Reading(op, r, todo, rs)]
      BY <1>11 DEF RespondCommit, CancelCommit
    <2> QED
      BY <1>0, <1>1, <1>2, <2>1, <2>2
  <1>12. ASSUME Sweep PROVE Goal
    <2>1. ~Holding(Cron) /\ charges' = charges
      BY <1>0, <1>12, <1>i DEF Sweep, ExpireRead, ExpireCommit, HoldsToAccept, Holding
    <2>2. \/ sess' = [sess EXCEPT ![Cron] = Idle]
          \/ \E op, r, todo, rs : sess' = [sess EXCEPT ![Cron] = Reading(op, r, todo, rs)]
      BY <1>12 DEF Sweep, ExpireRead, ExpireCommit
    <2> QED
      BY <1>0, <1>1, <1>2, <2>1, <2>2
  <1>13. ASSUME sess' = sess, charges' = charges PROVE Goal
    BY <1>2, <1>13
  <1> HIDE DEF Goal
  <1>14. Goal
    BY <1>0, <1>5, <1>6, <1>7, <1>8, <1>9, <1>10, <1>11, <1>12, <1>13, WorkersTyped
       DEF Next, Serve, Environment, ChargeWebhook, Tick, vars, DeadlockVictim, Crash, Workers
  <1> QED
    BY <1>14 DEF Goal

(* The handlers reserve a job's positions before the card is charged, for    *)
(* any number of jobs, workers and positions, with crashes, lost replies,    *)
(* stale rows and webhooks.                                                  *)
THEOREM PositionsReserved == Spec => ImplementsReservations
  <1>1. Init => HoldsToAccept
    BY DEF Init, HoldsToAccept, Holding, Idle
  <1>2. IInv /\ HoldsToAccept /\ [Next]_vars => HoldsToAccept'
    BY HoldsNext DEF IInv
  <1>3. IInv /\ IInv' /\ HoldsToAccept /\ [Next]_vars
        => [Reserving!Next]_<<Filling, Accepting, charges>>
    BY ReservingNext
  <1> QED
    BY <1>1, <1>2, <1>3, Invariance, ReservingInit, PTL
       DEF Spec, ImplementsReservations, Reserving!Spec

(* What follows from the abstract positions alone: whoever is accepting has  *)
(* a position of the job to herself, within those it has.                    *)
Taken(g) == {r \in Filling \cup Accepting : GroupOf[r] = g}

TakenWithin ==
    /\ Accepting \subseteq Requests /\ DOMAIN charges = Requests
    /\ \A r, s \in Accepting : GroupOf[r] = GroupOf[s] => r = s
    /\ \A g \in Groups : Cardinality(Taken(g)) <= Positions[g]

LEMMA TakenFinite ==
    ASSUME TakenWithin, NEW g
    PROVE  IsFiniteSet(Taken(g)) /\ Cardinality(Taken(g)) \in Nat
  <1>1. Taken(g) \subseteq Requests
    BY DEF TakenWithin, Taken, Filling
  <1> QED
    BY <1>1, RequestsFinite, FS_Subset, FS_CardinalityType

LEMMA TakenFewer ==
    ASSUME TakenWithin, NEW g \in Groups, NEW S \in SUBSET Taken(g)
    PROVE  Cardinality(S) <= Positions[g]
  <1>1. IsFiniteSet(S) /\ Cardinality(S) <= Cardinality(Taken(g))
    BY TakenFinite, FS_Subset
  <1>2. Cardinality(S) \in Nat /\ Cardinality(Taken(g)) \in Nat /\ Positions[g] \in Nat
    BY <1>1, TakenFinite, FS_CardinalityType, JobsTyped
  <1> QED
    BY <1>1, <1>2 DEF TakenWithin

LEMMA TakenInit == Reserving!Init => TakenWithin
  <1> SUFFICES ASSUME Reserving!Init PROVE TakenWithin
    OBVIOUS
  <1>1. \A g \in Groups : Taken(g) = {}
    BY DEF Reserving!Init, Taken
  <1> QED
    BY <1>1, FS_EmptySet, JobsTyped DEF Reserving!Init, TakenWithin

LEMMA TakenNext ==
    ASSUME TakenWithin, [Reserving!Next]_<<Filling, Accepting, charges>>
    PROVE  TakenWithin'
  <1> DEFINE T(g) == {r \in Filling' \cup Accepting' : GroupOf[r] = g}
             Good == /\ Accepting' \subseteq Requests /\ DOMAIN charges' = Requests
                     /\ \A r, s \in Accepting' : GroupOf[r] = GroupOf[s] => r = s
                     /\ \A g \in Groups : Cardinality(T(g)) <= Positions[g]
  <1>1. ASSUME \/ charges' = charges
               \/ \E r \in Requests : charges' = [charges EXCEPT ![r] = @ + 1],
               Accepting' \subseteq Accepting,
               \A g \in Groups : T(g) \subseteq Taken(g)
        PROVE  Good
    BY <1>1, TakenFewer DEF TakenWithin
  <1>2. ASSUME NEW r \in Requests, Reserving!Reserve(r) PROVE Good
    <2>1. /\ Filling' = Filling /\ Accepting' = Accepting \cup {r} /\ charges' = charges
          /\ \A s \in Accepting : GroupOf[r] # GroupOf[s]
      BY <1>2 DEF Reserving!Reserve, Reserving!Untouched
    <2>2. /\ Accepting' \subseteq Requests /\ DOMAIN charges' = Requests
          /\ \A q, s \in Accepting' : GroupOf[q] = GroupOf[s] => q = s
      BY <2>1 DEF TakenWithin
    <2>3. ASSUME NEW g \in Groups PROVE Cardinality(T(g)) <= Positions[g]
      <3>1. CASE g # GroupOf[r]
        <4>1. T(g) \subseteq Taken(g)
          BY <2>1, <3>1 DEF Taken
        <4> QED
          BY <4>1, TakenFewer
      <3>2. CASE g = GroupOf[r]
        <4> DEFINE others == Reserving!Rest(r)
        <4>1. Cardinality(others) < Positions[g]
          <5>1. Reserving!Cardinality(others) = Cardinality(others)
            BY DEF Reserving!Cardinality, Cardinality
          <5> QED
            BY <1>2, <3>2, <5>1 DEF Reserving!Reserve
        <4>2. r \notin others /\ others \subseteq Taken(g) /\ T(g) \subseteq others \cup {r}
          BY <2>1, <3>2 DEF Reserving!Rest, Taken
        <4>3. IsFiniteSet(others) /\ Cardinality(others) \in Nat
          BY <4>2, TakenFinite, FS_Subset, FS_CardinalityType
        <4>4. /\ IsFiniteSet(others \cup {r})
              /\ Cardinality(others \cup {r}) = Cardinality(others) + 1
          BY <4>2, <4>3, FS_AddElement
        <4>5. IsFiniteSet(T(g)) /\ Cardinality(T(g)) <= Cardinality(others \cup {r})
          BY <4>2, <4>4, FS_Subset
        <4>6. Cardinality(T(g)) \in Nat /\ Positions[g] \in Nat
          BY <4>5, FS_CardinalityType, JobsTyped
        <4> QED
          BY <4>1, <4>3, <4>4, <4>5, <4>6
      <3> QED
        BY <3>1, <3>2
    <2> QED
      BY <2>2, <2>3
  <1>3. ASSUME NEW r \in Requests, Reserving!Pay(r) \/ Reserving!Serve(r) \/ Reserving!GiveUp(r)
        PROVE  Good
    <2>1. /\ Accepting' \subseteq Accepting
          /\ Filling' \cup Accepting' \subseteq Filling \cup Accepting
          /\ charges' = charges \/ charges' = [charges EXCEPT ![r] = @ + 1]
      BY <1>3 DEF Reserving!Pay, Reserving!Serve, Reserving!GiveUp
    <2>2. \A g \in Groups : T(g) \subseteq Taken(g)
      BY <2>1 DEF Taken
    <2> QED
      BY <1>1, <2>1, <2>2
  <1>4. ASSUME NEW rs \in SUBSET Requests, Reserving!Leave(rs) PROVE Good
    <2>1. Accepting' = Accepting /\ Filling' \subseteq Filling /\ charges' = charges
      BY <1>4 DEF Reserving!Leave
    <2>2. \A g \in Groups : T(g) \subseteq Taken(g)
      BY <2>1 DEF Taken
    <2> QED
      BY <1>1, <2>1, <2>2
  <1>5. ASSUME UNCHANGED <<Filling, Accepting, charges>> PROVE Good
    BY <1>1, <1>5 DEF Taken
  <1> HIDE DEF Good
  <1>6. Good
    BY <1>2, <1>3, <1>4, <1>5 DEF Reserving!Next
  <1> QED
    BY <1>6 DEF Good, TakenWithin, Taken

(* The abstract positions promise what the job needs: whatever implements    *)
(* them never overfills a job, and charges nobody for a position that is     *)
(* taken.                                                                    *)
THEOREM ReservationsSuffice ==
    ImplementsReservations => []NoOverfill /\ ChargeOnlyOpenPosition
  <1> DEFINE Allowed == \A r \in Requests :
                charges'[r] # charges[r] =>
                    Cardinality(Fillers(GroupOf[r]) \ {r}) < Positions[GroupOf[r]]
  <1>1. \A g : Fillers(g) \subseteq Taken(g)
    BY DEF Fillers, Members, Taken, Filling
  <1>2. TakenWithin => NoOverfill
    BY <1>1, TakenFewer DEF NoOverfill
  <1>3. TakenWithin /\ [Reserving!Next]_<<Filling, Accepting, charges>> => [Allowed]_vars
    <2> SUFFICES ASSUME TakenWithin, [Reserving!Next]_<<Filling, Accepting, charges>>,
                        NEW r \in Requests, charges'[r] # charges[r]
                 PROVE  Cardinality(Fillers(GroupOf[r]) \ {r}) < Positions[GroupOf[r]]
      OBVIOUS
    <2>1. PICK q \in Requests : Reserving!Pay(q)
      BY DEF Reserving!Next, Reserving!Reserve, Reserving!Serve, Reserving!GiveUp, Reserving!Leave
    <2>2. q = r /\ r \in Accepting
      BY <2>1 DEF Reserving!Pay, TakenWithin
    <2> DEFINE g == GroupOf[r]
               others == Taken(g) \ {r}
    <2>3. g \in Groups /\ r \in Taken(g) /\ Fillers(g) \ {r} \subseteq others
      BY <1>1, <2>2, JobsTyped DEF Taken
    <2>4. IsFiniteSet(others) /\ Cardinality(others) = Cardinality(Taken(g)) - 1
      BY <2>3, TakenFinite, FS_RemoveElement
    <2>5. Cardinality(Fillers(g) \ {r}) <= Cardinality(others)
          /\ Cardinality(Fillers(g) \ {r}) \in Nat
      BY <2>3, <2>4, FS_Subset, FS_CardinalityType
    <2>6. Cardinality(Taken(g)) <= Positions[g] /\ Positions[g] \in Nat
      BY <2>3, JobsTyped DEF TakenWithin
    <2>7. Cardinality(Taken(g)) \in Nat
      BY TakenFinite
    <2> QED
      BY <2>4, <2>5, <2>6, <2>7
  <1> QED
    BY <1>2, <1>3, TakenInit, TakenNext, PTL
       DEF ImplementsReservations, Reserving!Spec, ChargeOnlyOpenPosition

============================================================================
