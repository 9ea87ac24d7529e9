------------------------- MODULE NotificationsProofs -------------------------
(* The leases outlast the runs they cover; and notes reach their users once,  *)
(* none is dropped and none of a test comes up again: for any jobs, handlers, *)
(* instances, clocks, notes, policies and bounds.                             *)
EXTENDS Notifications, FiniteSetTheorems, SequenceTheorems, WellFoundedInduction, TLAPS

----------------------------------------------------------------------------
(* Leases                                                                    *)

(* The inductive invariant: the lease of a run outlasts it on every clock.    *)
LeaseInv == LeaseTypeOK /\ RunsCovered /\ RunsAlone

LEMMA SkewTyped == \A i \in Instances : Skew[i] \in 0..MaxSkew /\ Skew[i] \in Nat
  BY LeasesTyped

(* A job whose lease has lapsed on some clock is run by nobody.               *)
LEMMA LapsedIdle ==
  ASSUME LeaseInv, NEW j \in Jobs, NEW i \in Instances, Lapsed(j, i)
  PROVE  Running(j) = {}
<1>1. SUFFICES ASSUME NEW k \in Running(j) PROVE FALSE
  OBVIOUS
<1>2. k \in Instances /\ ran[j][k] \in NotRunning..MaxRun /\ left[j] \in 0..(Lease + MaxSkew)
  BY <1>1 DEF Running, LeaseInv, LeaseTypeOK
<1>3. left[j] + ran[j][k] >= Lease + Skew[k]
  BY <1>1 DEF LeaseInv, RunsCovered
<1>4. left[j] <= Skew[i]
  BY DEF Lapsed
<1> QED
  BY <1>2, <1>3, <1>4, SkewTyped, LeasesTyped DEF NotRunning

LEMMA InvInit == LeaseInit => LeaseInv
  BY LeasesTyped DEF LeaseInit, LeaseInv, LeaseTypeOK, RunsCovered, RunsAlone, Running, NotRunning

LEMMA ClaimInv ==
  ASSUME LeaseInv, NEW j \in Jobs, NEW i \in Instances, Claim(j, i)
  PROVE  LeaseInv' /\ Running(j) = {} /\ Running(j)' = {i}
                   /\ \A m \in Jobs \ {j} : Running(m)' = Running(m)
<1>1. Running(j) = {}
  BY LapsedIdle DEF Claim
<1>2. Running(j)' = {i} /\ \A m \in Jobs \ {j} : Running(m)' = Running(m)
  BY <1>1 DEF Claim, Running, LeaseInv, LeaseTypeOK, NotRunning
<1>3. LeaseTypeOK'
  BY LeasesTyped, SkewTyped DEF Claim, LeaseInv, LeaseTypeOK, NotRunning
<1>4. RunsCovered'
  <2>1. SUFFICES ASSUME NEW m \in Jobs, NEW k \in Running(m)'
                 PROVE  left'[m] + ran'[m][k] >= Lease + Skew[k]
    BY DEF RunsCovered
  <2>2. CASE m = j
    <3>1. k = i
      BY <1>2, <2>1, <2>2
    <3>2. left'[j] = Lease + Skew[i] /\ ran'[j][i] = 0
      BY DEF Claim, LeaseInv, LeaseTypeOK
    <3> QED
      BY <2>2, <3>1, <3>2, SkewTyped, LeasesTyped
  <2>3. CASE m # j
    <3>1. k \in Running(m) /\ left'[m] = left[m] /\ ran'[m] = ran[m]
      BY <1>2, <2>1, <2>3 DEF Claim, LeaseInv, LeaseTypeOK
    <3> QED
      BY <3>1 DEF LeaseInv, RunsCovered
  <2> QED
    BY <2>2, <2>3
<1>5. RunsAlone'
  BY <1>2 DEF RunsAlone, LeaseInv
<1> QED
  BY <1>1, <1>2, <1>3, <1>4, <1>5 DEF LeaseInv

LEMMA FinishInv ==
  ASSUME LeaseInv, NEW j \in Jobs, NEW i \in Instances, Finish(j, i)
  PROVE  LeaseInv' /\ i \in Running(j) /\ Running(j)' = Running(j) \ {i}
                   /\ \A m \in Jobs \ {j} : Running(m)' = Running(m)
<1>1. /\ i \in Running(j) /\ Running(j)' = Running(j) \ {i}
      /\ \A m \in Jobs \ {j} : Running(m)' = Running(m)
  BY DEF Finish, Running, LeaseInv, LeaseTypeOK, NotRunning
<1>2. LeaseTypeOK'
  BY LeasesTyped DEF Finish, LeaseInv, LeaseTypeOK, NotRunning
<1>3. RunsCovered'
  BY DEF Finish, LeaseInv, LeaseTypeOK, RunsCovered, Running, NotRunning
<1>4. RunsAlone'
  BY <1>1 DEF RunsAlone, LeaseInv
<1> QED
  BY <1>1, <1>2, <1>3, <1>4 DEF LeaseInv

LEMMA StoppedInv ==
  ASSUME LeaseInv, NEW i \in Instances, Stopped(i)
  PROVE  LeaseInv' /\ \A j \in Jobs : Running(j)' = Running(j) \ {i}
<1>1. \A j \in Jobs : Running(j)' = Running(j) \ {i}
  BY DEF Stopped, Running, LeaseInv, LeaseTypeOK, NotRunning
<1>2. LeaseTypeOK'
  BY LeasesTyped DEF Stopped, LeaseInv, LeaseTypeOK, NotRunning
<1>3. RunsCovered'
  BY DEF Stopped, LeaseInv, LeaseTypeOK, RunsCovered, Running, NotRunning
<1>4. RunsAlone'
  BY <1>1 DEF RunsAlone, LeaseInv
<1> QED
  BY <1>1, <1>2, <1>3, <1>4 DEF LeaseInv

LEMMA TickInv ==
  ASSUME LeaseInv, Tick
  PROVE  LeaseInv' /\ \A j \in Jobs : Running(j)' = Running(j)
<1>1. \A j \in Jobs, i \in Instances :
        /\ left[j] \in 0..(Lease + MaxSkew) /\ ran[j][i] \in NotRunning..MaxRun
        /\ ran[j][i] < MaxRun
        /\ left'[j] = (IF left[j] > 0 THEN left[j] - 1 ELSE 0)
        /\ ran'[j][i] = (IF ran[j][i] = NotRunning THEN NotRunning ELSE ran[j][i] + 1)
  BY DEF Tick, LeaseInv, LeaseTypeOK
<1>2. \A j \in Jobs : Running(j)' = Running(j)
  BY <1>1, LeasesTyped DEF Running, NotRunning
<1>3. LeaseTypeOK'
  <2>1. left' \in [Jobs -> 0..(Lease + MaxSkew)]
    BY LeasesTyped DEF Tick, LeaseInv, LeaseTypeOK
  <2>2. \A j \in Jobs, i \in Instances : ran'[j][i] \in NotRunning..MaxRun
    BY <1>1, LeasesTyped DEF NotRunning
  <2> QED
    BY <2>1, <2>2 DEF Tick, LeaseTypeOK
<1>4. RunsCovered'
  <2>1. SUFFICES ASSUME NEW j \in Jobs, NEW i \in Running(j)
                 PROVE  left'[j] + ran'[j][i] >= Lease + Skew[i]
    BY <1>2 DEF RunsCovered
  <2>2. i \in Instances /\ ran[j][i] # NotRunning /\ left[j] + ran[j][i] >= Lease + Skew[i]
    BY <2>1 DEF Running, LeaseInv, RunsCovered
  <2> QED
    BY <1>1, <2>2, SkewTyped, LeasesTyped DEF NotRunning
<1>5. RunsAlone'
  BY <1>2 DEF RunsAlone, LeaseInv
<1> QED
  BY <1>2, <1>3, <1>4, <1>5 DEF LeaseInv

LEMMA InvNext == LeaseInv /\ [LeaseNext]_leaseVars => LeaseInv'
<1>1. SUFFICES ASSUME LeaseInv, [LeaseNext]_leaseVars PROVE LeaseInv'
  OBVIOUS
<1>2. CASE Tick
  BY <1>1, <1>2, TickInv
<1>3. ASSUME NEW i \in Instances, Stopped(i) PROVE LeaseInv'
  BY <1>1, <1>3, StoppedInv
<1>4. ASSUME NEW i \in Instances, NEW j \in Jobs, Claim(j, i) PROVE LeaseInv'
  BY <1>1, <1>4, ClaimInv
<1>5. ASSUME NEW i \in Instances, NEW j \in Jobs, Finish(j, i) PROVE LeaseInv'
  BY <1>1, <1>5, FinishInv
<1>6. CASE UNCHANGED leaseVars
  BY <1>1, <1>6 DEF leaseVars, LeaseInv, LeaseTypeOK, RunsCovered, RunsAlone, Running
<1> QED
  BY <1>1, <1>2, <1>3, <1>4, <1>5, <1>6 DEF LeaseNext

LEMMA Invariance == LeaseSpec => []LeaseInv
  BY InvInit, InvNext, PTL DEF LeaseSpec

(* Leases and runs keep to their ranges (claim_scheduler_job).                *)
THEOREM LeasesStayTyped == LeaseSpec => []LeaseTypeOK
<1>1. LeaseInv => LeaseTypeOK
  BY DEF LeaseInv
<1> QED
  BY <1>1, Invariance, PTL

(* Every run of a job is covered by its lease on the clock of every instance. *)
THEOREM RunsStayCovered == LeaseSpec => []RunsCovered
<1>1. LeaseInv => RunsCovered
  BY DEF LeaseInv
<1> QED
  BY <1>1, Invariance, PTL

(* No two instances run a job at once, if a run and the difference between    *)
(* two clocks together are shorter than the lease (claim_scheduler_job).      *)
THEOREM JobsRunAlone == LeaseSpec => []RunsAlone
<1>1. LeaseInv => RunsAlone
  BY DEF LeaseInv
<1> QED
  BY <1>1, Invariance, PTL

----------------------------------------------------------------------------
(* The refinement                                                            *)

LEMMA InitImplements == LeaseInit => Exclusive!Init
  BY DEF LeaseInit, Exclusive!Init, Running

LEMMA NextImplements ==
  LeaseInv /\ [LeaseNext]_leaseVars => [Exclusive!Next]_[j \in Jobs |-> Running(j)]
<1> DEFINE runners == [j \in Jobs |-> Running(j)]
<1>1. SUFFICES ASSUME LeaseInv, [LeaseNext]_leaseVars PROVE Exclusive!Next \/ runners' = runners
  OBVIOUS
<1>2. CASE Tick
  BY <1>1, <1>2, TickInv
<1>3. ASSUME NEW i \in Instances, Stopped(i) PROVE Exclusive!Next
  <2>1. Exclusive!Down(i)
    BY <1>1, <1>3, StoppedInv DEF Exclusive!Down
  <2> QED
    BY <2>1 DEF Exclusive!Next
<1>4. ASSUME NEW i \in Instances, NEW j \in Jobs, Claim(j, i) PROVE Exclusive!Next
  <2>1. Exclusive!Start(j, i)
    BY <1>1, <1>4, ClaimInv DEF Exclusive!Start
  <2> QED
    BY <2>1 DEF Exclusive!Next
<1>5. ASSUME NEW i \in Instances, NEW j \in Jobs, Finish(j, i) PROVE Exclusive!Next
  <2>1. Running(j) = {i}
    BY <1>1, <1>5, FinishInv DEF LeaseInv, RunsAlone
  <2>2. Exclusive!Stop(j, i)
    BY <1>1, <1>5, <2>1, FinishInv DEF Exclusive!Stop
  <2> QED
    BY <2>2 DEF Exclusive!Next
<1>6. CASE UNCHANGED leaseVars
  BY <1>6 DEF leaseVars, Running
<1> QED
  BY <1>1, <1>2, <1>3, <1>4, <1>5, <1>6 DEF LeaseNext

(* The leases implement a job that one instance at a time may run, whatever   *)
(* instances go down while they run it (claim_scheduler_job).                 *)
THEOREM LeasesImplement == LeaseSpec => ImplementsExclusiveJob
  BY InitImplements, NextImplements, Invariance, PTL
     DEF LeaseSpec, ImplementsExclusiveJob, Exclusive!Spec

----------------------------------------------------------------------------
(* Notes                                                                     *)

Modes == {"on", "off", "test"}
ChannelType == {"whatsapp", "telegram", "email"}

(* An attempt in the log, and what a process is doing.                        *)
RowType == [channel : ChannelType, test : BOOLEAN, marked : BOOLEAN,
            status : {"sent", "failed", "suppressed"}, traced : BOOLEAN]

ReportType == Nat \X {"sent", "failed"} \X BOOLEAN

SessType == [phase : {"try", "pick"}, note : Notes, mode : Modes, left : Seq(ChannelType),
             claim : BOOLEAN, popUp : BOOLEAN, todo : SUBSET [note : Notes, mark : BOOLEAN],
             mark : BOOLEAN, rows : [Notes -> Seq(RowType)], report : {<<>>} \cup ReportType]

TypeInv ==
    /\ controls \in Modes /\ claims \subseteq Notes
    /\ log \in [Notes -> Seq(RowType)]
    /\ aged \in [Notes -> Nat] /\ \A n \in Notes : aged[n] <= Len(log[n])
    /\ inbox \in [Notes -> {"none", "unread", "read"}]
    /\ sess \in [Processes -> {Idle} \cup SessType]
    /\ out \in [Notes -> [sent : Nat, marked : BOOLEAN]]
    /\ refused \in [Notes -> Nat] /\ lost \in [Notes -> Nat]

(* A message of the session that has reached the user and is not recorded yet. *)
HasSent(s, n) == \E k \in DOMAIN s.rows[n] : s.rows[n][k].status = "sent" /\ ~s.rows[n][k].test

(* Notes that a sweep sends again, or has.                                     *)
Waits(s, n) == \E x \in s.todo : x.note = n

Sweeps(s, n) == Waits(s, n) \/ s.rows[n] # <<>> \/ (s.phase = "try" /\ s.note = n)

Attempted(n) == \E k \in DOMAIN log[n] : log[n][k].status # "suppressed"

(* What a handler raises, reports or sweeps, by its session.                  *)
HandlerShape(s) ==
    /\ s.phase = "try" /\ s.todo = {}
    /\ \A n \in Notes \ {s.note} : s.rows[n] = <<>>
    /\ s.report = <<>> => s.claim \/ s.mode = "off"
    /\ s.claim => s.mode # "off" /\ s.report = <<>>
    /\ s.mode = "off" =>
          \A n \in Notes : \A k \in DOMAIN s.rows[n] : s.rows[n][k].status = "suppressed"
    /\ s.popUp => s.claim \/ s.mode = "off"
    /\ s.report # <<>> =>
          /\ s.report[1] \in DOMAIN log[s.note] /\ log[s.note][s.report[1]].traced
          /\ s.report[3] => s.report[2] = "failed"
          /\ s.left # <<>> => s.report[3] /\ s.left = <<"email">>
          /\ ~s.report[3] => s.rows[s.note] = <<>>

SweepShape(s) ==
    /\ ~s.claim /\ ~s.popUp /\ s.report = <<>>
    /\ s.phase = "pick" => s.left = <<>> /\ \A n \in Notes : s.rows[n] = <<>>
    /\ \A x, y \in s.todo : x.note = y.note => x = y
    /\ \A x \in s.todo : s.rows[x.note] = <<>> /\ (s.phase = "try" => x.note # s.note)
    /\ \A n \in Notes : Sweeps(s, n) => Attempted(n)

SentStops(s) == HasSent(s, s.note) => s.left = <<>>

TracedRows(s) ==
    \A n \in Notes : \A k \in DOMAIN s.rows[n] : s.rows[n][k].traced => s.rows[n][k].status = "sent"

Shaped(p) ==
    sess[p] # Idle =>
        /\ p \in Handlers => HandlerShape(sess[p])
        /\ p \in Instances => SweepShape(sess[p]) /\ ran["retry"][p] # NotRunning
        /\ SentStops(sess[p]) /\ TracedRows(sess[p])

(* Whoever claims a note is the only one, and it was not tried before.        *)
ClaimsApart ==
    /\ \A p \in Processes : sess[p] # Idle /\ sess[p].claim =>
          sess[p].note \notin claims /\ ~Attempted(sess[p].note)
    /\ \A p, q \in Processes :
          /\ sess[p] # Idle /\ sess[p].claim /\ sess[q] # Idle /\ sess[q].claim
          /\ sess[p].note = sess[q].note
          => p = q

(* WhatsApp can only report on what it has taken.                             *)
TracedSent ==
    \A n \in Notes : \A k \in DOMAIN log[n] : log[n][k].traced => log[n][k].status # "suppressed"

ShapeInv == (\A p \in Processes : Shaped(p)) /\ ClaimsApart /\ TracedSent

(* A mark that can reach a user stands on a message reported as failed.       *)
SessMarks(s) ==
    /\ s.mark /\ s.left # <<>> => refused[s.note] > 0
    /\ \A x \in s.todo : x.mark => refused[x.note] > 0
    /\ \A n \in Notes : \A k \in DOMAIN s.rows[n] :
          s.rows[n][k].marked /\ ~s.rows[n][k].test => refused[n] > 0

MarksInv ==
    /\ \A n \in Notes : out[n].marked => refused[n] > 0
    /\ \A n \in Notes : \A k \in DOMAIN log[n] :
          log[n][k].marked /\ ~log[n][k].test => refused[n] > 0
    /\ \A p \in Processes : sess[p] # Idle => SessMarks(sess[p])

(* A claim that will be committed has attempted its note, or still will; a    *)
(* failure that will be logged has been answered by e-mail, or will be.       *)
EmailOnly(n) == ToSet(Channels[n]) = {"email"}

EmailTried(n) == \E k \in DOMAIN log[n] : log[n][k].channel = "email"

WillAttempt(s) ==
    \/ \E k \in DOMAIN s.rows[s.note] : s.rows[s.note][k].status # "suppressed"
    \/ \E j \in DOMAIN s.left : s.mode = "on" \/ s.left[j] = "whatsapp"

WillEmail(s) ==
    \/ EmailTried(s.note) \/ s.left = <<"email">>
    \/ \E k \in DOMAIN s.rows[s.note] : s.rows[s.note][k].channel = "email"

SessDrops(s) ==
    /\ s.claim => EmailOnly(s.note) \/ WillAttempt(s)
    /\ s.report # <<>> =>
          (s.report[2] = "failed" /\ "email" \in ToSet(Channels[s.note]) => WillEmail(s))

DroppedInv ==
    /\ \A n \in claims : EmailOnly(n) \/ Attempted(n)
    /\ \A n \in Notes : "email" \in ToSet(Channels[n]) =>
          \A k \in DOMAIN log[n] : log[n][k].traced /\ log[n][k].status = "failed" => EmailTried(n)
    /\ \A p \in Processes : sess[p] # Idle => SessDrops(sess[p])

----------------------------------------------------------------------------
(* The ledger of a note                                                      *)

(* Whoever brings the first failure report of a message may answer it with    *)
(* one e-mail: these have not yet.                                            *)
Answers(s, n) ==
    s # Idle /\ s.note = n /\ s.report # <<>> /\ s.report[3] /\ ~HasSent(s, n)

MayAnswer(n) == {p \in Handlers : Answers(sess[p], n)}

(* What the report of a session is about.                                     *)
Reports(s, n, k) == s.report # <<>> /\ s.note = n /\ k = s.report[1]

(* Messages that were reported as failed, or are being so again.              *)
Refuses(s, n, k) ==
    s # Idle /\ Reports(s, n, k) /\ s.report[2] = "failed" /\ ~s.report[3]

RefusedRow(n, k) ==
    log[n][k].traced /\ (log[n][k].status = "failed" \/ \E p \in Handlers : Refuses(sess[p], n, k))

Window(n) == {k \in DOMAIN log[n] : k > aged[n] /\ ~log[n][k].test}

(* A sweep finds failures and no message that counts as delivered.            *)
Retries(n) ==
    /\ \E k \in Window(n) : log[n][k].status = "failed" \/ RefusedRow(n, k)
    /\ \A k \in Window(n) : log[n][k].status = "sent" => RefusedRow(n, k)

InSweep(n) == \E i \in Instances : sess[i] # Idle /\ Sweeps(sess[i], n)

(* The note may still be sent by someone who answers no report.               *)
Open(n) == Retries(n) \/ InSweep(n) \/ ~Attempted(n)

(* The claimer of a note or the sweep has sent it.                            *)
Spends(p, s, n) == s # Idle /\ (p \in Instances \/ s.claim) /\ HasSent(s, n)

Spent(n) == \E p \in Processes : Spends(p, sess[p], n)

Allowance(n) == 1 + refused[n] + lost[n] - out[n].sent

Ledger(n) ==
    /\ Allowance(n) >= Cardinality(MayAnswer(n))
    /\ Open(n) => Spent(n) \/ Allowance(n) >= 1 + Cardinality(MayAnswer(n))

LedgerInv == \A n \in Notes : Ledger(n)

----------------------------------------------------------------------------
(* Sessions                                                                  *)

LEMMA ResolvedTyped ==
    ASSUME NEW n \in Notes, NEW mode \in Modes
    PROVE  /\ Resolved(n, mode) \in Seq(ChannelType) /\ Resolved(n, mode) # <<>>
           /\ \A k \in DOMAIN Channels[n] :
                 Resolved(n, mode)[k] = (IF mode = "test" /\ Channels[n][k] # "email"
                                         THEN "whatsapp" ELSE Channels[n][k])
           /\ DOMAIN Resolved(n, mode) = DOMAIN Channels[n]
  <1> DEFINE c == Channels[n]
             to(k) == IF mode = "test" /\ c[k] # "email" THEN "whatsapp" ELSE c[k]
  <1>1. c \in Seq(ChannelType) /\ c # <<>>
    BY NotesTyped DEF ChannelType
  <1>2. Resolved(n, mode) = [k \in DOMAIN c |-> to(k)]
    BY DEF Resolved
  <1> HIDE DEF c
  <1>3. DOMAIN c = 1..Len(c) /\ Len(c) \in Nat /\ Len(c) # 0
    BY <1>1
  <1>4. \A k \in DOMAIN c : to(k) \in ChannelType
    BY <1>1 DEF ChannelType
  <1> HIDE DEF to
  <1>5. Resolved(n, mode) \in [1..Len(c) -> ChannelType]
    BY <1>2, <1>3, <1>4
  <1>6. Resolved(n, mode) \in Seq(ChannelType) /\ Len(Resolved(n, mode)) = Len(c)
    BY <1>3, <1>5
  <1> QED
    BY <1>2, <1>3, <1>6 DEF c, to

LEMMA FreshTyped ==
    ASSUME controls \in Modes
    PROVE  /\ Fresh \in SessType
           /\ Fresh.phase = "try" /\ Fresh.mode = controls /\ Fresh.left = <<>>
           /\ ~Fresh.claim /\ ~Fresh.popUp /\ Fresh.todo = {} /\ ~Fresh.mark
           /\ Fresh.report = <<>> /\ \A n \in Notes : Fresh.rows[n] = <<>>
  <1> DEFINE any == CHOOSE n \in Notes : TRUE
             none == [n \in Notes |-> <<>>]
  <1>1. any \in Notes
    BY NotesTyped
  <1>2. none \in [Notes -> Seq(RowType)]
    OBVIOUS
  <1>3. Fresh = [phase |-> "try", note |-> any, mode |-> controls, left |-> <<>>, claim |-> FALSE,
                 popUp |-> FALSE, todo |-> {}, mark |-> FALSE, rows |-> none, report |-> <<>>]
    BY DEF Fresh
  <1>4. \A n \in Notes : none[n] = <<>>
    OBVIOUS
  <1> HIDE DEF any, none
  <1>5. Fresh \in SessType
    BY <1>1, <1>2, <1>3 DEF SessType, Modes
  <1> QED
    BY <1>3, <1>4, <1>5

(* A process that is busy has a typed session.                                *)
LEMMA BusyTyped ==
    ASSUME TypeInv, NEW p \in Processes, sess[p] # Idle
    PROVE  sess[p] \in SessType /\ sess[p].note \in Notes
  BY DEF TypeInv, SessType

LEMMA SessTypeBusy == \A s \in SessType : s # Idle
  BY DEF SessType, Idle

LEMMA SessSet ==
    ASSUME TypeInv, NEW p \in Processes, NEW s \in {Idle} \cup SessType,
           sess' = [sess EXCEPT ![p] = s]
    PROVE  /\ sess' \in [Processes -> {Idle} \cup SessType]
           /\ sess'[p] = s /\ \A q \in Processes \ {p} : sess'[q] = sess[q]
  BY DEF TypeInv

(* What an attempt changes in a session.                                      *)
LEMMA TriedFields ==
    ASSUME NEW s \in SessType, NEW row \in RowType, s.left # <<>>
    PROVE  LET t == Tried(s, row) IN
           /\ t \in SessType
           /\ t.rows[s.note] = Append(s.rows[s.note], row)
           /\ \A n \in Notes \ {s.note} : t.rows[n] = s.rows[n]
           /\ t.left = (IF row.status = "sent" THEN <<>> ELSE Tail(s.left))
           /\ t.phase = s.phase /\ t.note = s.note /\ t.mode = s.mode /\ t.claim = s.claim
           /\ t.popUp = s.popUp /\ t.todo = s.todo /\ t.mark = s.mark /\ t.report = s.report
  <1> DEFINE rows == [s.rows EXCEPT ![s.note] = Append(s.rows[s.note], row)]
             rest == IF row.status = "sent" THEN <<>> ELSE Tail(s.left)
             t == Tried(s, row)
  <1>1. s.note \in Notes /\ s.rows \in [Notes -> Seq(RowType)] /\ s.left \in Seq(ChannelType)
    BY DEF SessType
  <1>2. rows \in [Notes -> Seq(RowType)]
    BY <1>1
  <1>3. rest \in Seq(ChannelType)
    BY <1>1
  <1>4. t = [s EXCEPT !.rows = rows, !.left = rest]
    BY <1>1 DEF Tried, SessType
  <1>5. /\ rows[s.note] = Append(s.rows[s.note], row)
        /\ \A n \in Notes \ {s.note} : rows[n] = s.rows[n]
    BY <1>1
  <1> HIDE DEF rows, rest, t
  <1>6. t \in SessType
    BY <1>2, <1>3, <1>4 DEF SessType
  <1>7. /\ t.rows = rows /\ t.left = rest
        /\ t.phase = s.phase /\ t.note = s.note /\ t.mode = s.mode /\ t.claim = s.claim
        /\ t.popUp = s.popUp /\ t.todo = s.todo /\ t.mark = s.mark /\ t.report = s.report
    BY <1>4 DEF SessType
  <1> QED
    BY <1>5, <1>6, <1>7 DEF t, rest

(* What a process finds when it tries the next channel, and what comes of it. *)
Attempts(p, s, row) ==
    /\ s.left # <<>> /\ sess' = [sess EXCEPT ![p] = Tried(s, row)]
    /\ row.channel = Head(s.left) /\ row.marked = (row.test \/ s.mark)
    /\ row.traced = (row.channel = "whatsapp" /\ row.status = "sent")
    /\ row.status = "suppressed" <=> Suppresses(s)
    /\ Suppresses(s) => ~row.test /\ UNCHANGED <<out, lost>>
    /\ ~Suppresses(s) =>
          /\ row.test = (s.mode = "test")
          /\ s.mode = "test" => UNCHANGED <<out, lost>>
          /\ s.mode = "on" =>
                \E taken, answered \in BOOLEAN :
                   /\ row.status = "sent" <=> taken /\ answered
                   /\ out' = IF taken THEN [out EXCEPT ![s.note].sent = @ + 1,
                                                       ![s.note].marked = @ \/ s.mark]
                             ELSE out
                   /\ lost' = IF taken /\ ~answered THEN [lost EXCEPT ![s.note] = @ + 1]
                              ELSE lost

LEMMA TryEffect ==
    ASSUME TypeInv, NEW p \in Processes, sess[p] # Idle, Try(p)
    PROVE  \E row \in RowType : Attempts(p, sess[p], row)
  <1> DEFINE s == sess[p]
  <1>1. s \in SessType /\ s.left # <<>> /\ s.left \in Seq(ChannelType) /\ s.mode \in Modes
    BY BusyTyped DEF Try, SessType
  <1>2. Head(s.left) \in ChannelType /\ s.mark \in BOOLEAN
    BY <1>1 DEF SessType
  <1>3. ASSUME NEW test \in BOOLEAN, NEW status \in {"sent", "failed", "suppressed"}
        PROVE  LET row == Row(s, test, status) IN
               /\ row \in RowType /\ row.channel = Head(s.left) /\ row.test = test
               /\ row.marked = (row.test \/ s.mark) /\ row.status = status
               /\ row.traced = (row.channel = "whatsapp" /\ row.status = "sent")
    BY <1>2 DEF Row, RowType
  <1>4. CASE Suppresses(s)
    <2> DEFINE row == Row(s, FALSE, "suppressed")
    <2>1. sess' = [sess EXCEPT ![p] = Tried(s, row)] /\ UNCHANGED <<out, lost>>
      BY <1>4 DEF Try
    <2>2. /\ row \in RowType /\ row.channel = Head(s.left) /\ ~row.test
          /\ row.marked = (row.test \/ s.mark) /\ row.status = "suppressed"
          /\ row.traced = (row.channel = "whatsapp" /\ row.status = "sent")
      BY <1>3
    <2> HIDE DEF row
    <2> QED
      BY <1>1, <1>4, <2>1, <2>2 DEF Attempts
  <1>5. CASE ~Suppresses(s)
    <2> DEFINE row(taken, answered) ==
                 Row(s, s.mode = "test", IF taken /\ answered THEN "sent" ELSE "failed")
    <2>1. PICK taken \in BOOLEAN, answered \in BOOLEAN :
              /\ sess' = [sess EXCEPT ![p] = Tried(s, row(taken, answered))]
              /\ out' = IF taken /\ s.mode = "on"
                        THEN [out EXCEPT ![s.note].sent = @ + 1, ![s.note].marked = @ \/ s.mark]
                        ELSE out
              /\ lost' = IF taken /\ ~answered /\ s.mode = "on"
                         THEN [lost EXCEPT ![s.note] = @ + 1] ELSE lost
      BY <1>5 DEF Try
    <2> DEFINE test == s.mode = "test"
               status == IF taken /\ answered THEN "sent" ELSE "failed"
               r == row(taken, answered)
    <2>2. /\ r = Row(s, test, status) /\ test \in BOOLEAN
          /\ status \in {"sent", "failed", "suppressed"}
      OBVIOUS
    <2>3. /\ status # "suppressed" /\ (status = "sent" <=> taken /\ answered)
          /\ test = (s.mode = "test")
      OBVIOUS
    <2> HIDE DEF test, status, row
    <2>4. /\ r \in RowType /\ r.channel = Head(s.left) /\ r.test = test
          /\ r.marked = (r.test \/ s.mark) /\ r.status = status
          /\ r.traced = (r.channel = "whatsapp" /\ r.status = "sent")
      BY <1>3, <2>2
    <2>5. s.mode = "test" => UNCHANGED <<out, lost>>
      BY <2>1
    <2> HIDE DEF r
    <2> QED
      BY <1>1, <1>5, <2>1, <2>3, <2>4, <2>5 DEF r, Attempts
  <1> QED
    BY <1>4, <1>5

(* The largest of some indices is one of them (community module               *)
(* FiniteSetsExt).                                                            *)
LEMMA MaxInside ==
    ASSUME NEW n \in Nat, NEW S \in SUBSET (1..n), S # {}
    PROVE  Max(S) \in S /\ \A k \in S : k <= Max(S)
  <1> DEFINE Ages == {n - k : k \in S}
             Younger == {ages \in Nat \X Nat : ages[1] < ages[2]}
  <1>1. Ages \subseteq Nat /\ Ages # {}
    <2>1. \A k \in S : n - k \in Nat
      OBVIOUS
    <2> QED
      BY <2>1
  <1>2. IsWellFoundedOn(Younger, Nat)
    BY NatLessThanWellFounded DEF OpToRel
  <1>3. PICK a \in Ages : \A b \in Ages : ~ (<<b, a>> \in Younger)
    BY <1>1, <1>2, WFMin
  <1>4. \A b \in Ages : ~ (b < a)
    BY <1>1, <1>3
  <1>5. PICK m \in S : a = n - m
    OBVIOUS
  <1>6. \A k \in S : n - k \in Ages
    OBVIOUS
  <1>7. \A k \in S : m >= k
    <2> HIDE DEF Ages
    <2> QED
      BY <1>4, <1>5, <1>6
  <1>8. Max(S) \in S /\ \A k \in S : Max(S) >= k
    BY <1>7 DEF Max
  <1> QED
    BY <1>8

(* What raising a note makes of a session.                                    *)
LEMMA RaiseEffect ==
    ASSUME TypeInv, NEW p \in Processes, NEW n \in Notes, Raise(p, n)
    PROVE  \E s \in SessType :
              /\ sess' = [sess EXCEPT ![p] = s]
              /\ s.phase = "try" /\ s.note = n /\ s.mode = controls
              /\ s.left = Resolved(n, controls)
              /\ s.claim = (controls # "off") /\ s.todo = {} /\ ~s.mark /\ s.report = <<>>
              /\ \A m \in Notes : s.rows[m] = <<>>
              /\ s.claim => Claiming(n) = {} /\ Claimable(n)
  <1> DEFINE claim == controls # "off"
             popUp == n \in PopUp
             rest == Resolved(n, controls)
             s == [Fresh EXCEPT !.note = n, !.left = rest, !.claim = claim, !.popUp = popUp]
  <1>1. controls \in Modes /\ rest \in Seq(ChannelType)
    BY ResolvedTyped DEF TypeInv
  <1>2. s \in SessType
    <2> HIDE DEF rest, claim, popUp
    <2>1. claim \in BOOLEAN /\ popUp \in BOOLEAN
      BY DEF claim, popUp
    <2> QED
      BY <1>1, <2>1, FreshTyped DEF SessType
  <1>3. /\ s.phase = "try" /\ s.note = n /\ s.mode = controls /\ s.left = rest
        /\ s.claim = claim /\ s.todo = {} /\ ~s.mark /\ s.report = <<>>
        /\ \A m \in Notes : s.rows[m] = <<>>
    <2> HIDE DEF rest, claim, popUp
    <2> QED
      BY <1>1, FreshTyped DEF SessType
  <1>4. sess' = [sess EXCEPT ![p] = s] /\ (claim => Claiming(n) = {} /\ Claimable(n))
    <2>1. CASE MustClaim(n)
      <3>1. claim
        BY <2>1 DEF MustClaim
      <3> QED
        BY <2>1, <3>1 DEF Raise
    <2>2. CASE ~MustClaim(n)
      <3>1. ~claim
        BY <2>2 DEF MustClaim
      <3>2. sess' = [sess EXCEPT ![p] = [Fresh EXCEPT !.note = n, !.left = rest, !.popUp = popUp]]
        BY <2>2 DEF Raise
      <3>3. [Fresh EXCEPT !.note = n, !.left = rest, !.popUp = popUp] = s
        <4> HIDE DEF rest, popUp
        <4> QED
          BY <1>1, <3>1, FreshTyped DEF SessType
      <3> QED
        BY <3>1, <3>2, <3>3
    <2> QED
      BY <2>1, <2>2
  <1> HIDE DEF s
  <1> QED
    BY <1>2, <1>3, <1>4

(* What a report of WhatsApp makes of one.                                    *)
LEMMA ReportEffect ==
    ASSUME TypeInv, NEW p \in Processes, NEW n \in Notes, NEW k \in 1..MaxLog,
           NEW status \in {"sent", "failed"}, Report(p, n, k, status)
    PROVE  \E s \in SessType :
              /\ sess' = [sess EXCEPT ![p] = s]
              /\ s.phase = "try" /\ s.note = n /\ ~s.claim /\ ~s.popUp /\ s.todo = {}
              /\ s.mode = controls /\ s.mark = log[n][k].marked
              /\ s.left = (IF FallsBack(n, k, status) THEN <<"email">> ELSE <<>>)
              /\ s.report # <<>> /\ s.report[1] = k /\ s.report[2] = status
              /\ s.report[3] = FirstRefusal(n, k, status)
              /\ \A m \in Notes : s.rows[m] = <<>>
  <1> DEFINE first == FirstRefusal(n, k, status)
             report == <<k, status, first>>
             rest == IF FallsBack(n, k, status) THEN <<"email">> ELSE <<>>
             mark == log[n][k].marked
             s == [Fresh EXCEPT !.note = n, !.report = report, !.mark = mark, !.left = rest]
  <1>1. rest \in Seq(ChannelType)
    <2>1. "email" \in ChannelType
      BY DEF ChannelType
    <2>2. <<"email">> \in Seq(ChannelType) /\ <<>> \in Seq(ChannelType)
      BY <2>1
    <2> QED
      BY <2>2
  <1>2. first \in BOOLEAN /\ k \in Nat
    BY DEF FirstRefusal
  <1>3. report \in ReportType /\ report # <<>>
    <2> HIDE DEF first
    <2> QED
      BY <1>2 DEF ReportType
  <1>4. mark \in BOOLEAN
    <2>1. log[n] \in Seq(RowType) /\ k \in DOMAIN log[n]
      BY DEF TypeInv, Report
    <2>2. log[n][k] \in RowType
      BY <2>1
    <2> QED
      BY <2>2 DEF RowType
  <1>5. report[1] = k /\ report[2] = status /\ report[3] = first
    OBVIOUS
  <1>6. sess' = [sess EXCEPT ![p] = s]
    BY DEF Report
  <1>7. controls \in Modes
    BY DEF TypeInv
  <1> HIDE DEF first, report, rest, mark
  <1>8. s \in SessType
    BY <1>1, <1>3, <1>4, <1>7, FreshTyped DEF SessType
  <1>9. /\ s.phase = "try" /\ s.note = n /\ ~s.claim /\ ~s.popUp /\ s.todo = {}
        /\ s.mode = controls /\ s.mark = mark /\ s.left = rest /\ s.report = report
        /\ \A m \in Notes : s.rows[m] = <<>>
    BY <1>7, FreshTyped DEF SessType
  <1> HIDE DEF s
  <1> QED
    BY <1>3, <1>5, <1>6, <1>8, <1>9 DEF rest, mark, first

(* What the start of a sweep makes of one.                                    *)
LEMMA StartSweepEffect ==
    ASSUME TypeInv, NEW i \in Instances, StartSweep(i)
    PROVE  \E s \in SessType :
              /\ sess' = [sess EXCEPT ![i] = s]
              /\ s.phase = "pick" /\ ~s.claim /\ ~s.popUp /\ s.report = <<>>
              /\ s.left = <<>> /\ s.mode = controls /\ ~s.mark
              /\ \A x \in s.todo : /\ x.note \in Notes /\ NeedsRetry(x.note)
                                   /\ x = [note |-> x.note, mark |-> MarkedText(x.note)]
              /\ \A m \in Notes : s.rows[m] = <<>>
  <1> DEFINE item(n) == [note |-> n, mark |-> MarkedText(n)]
             todo == {item(n) : n \in {m \in Notes : NeedsRetry(m)}}
             s == [Fresh EXCEPT !.phase = "pick", !.todo = todo]
  <1>1. sess' = [sess EXCEPT ![i] = s]
    BY DEF StartSweep
  <1>2. \A n \in Notes : item(n) \in [note : Notes, mark : BOOLEAN] /\ item(n).note = n
    <2> SUFFICES ASSUME NEW n \in Notes
                 PROVE item(n) \in [note : Notes, mark : BOOLEAN] /\ item(n).note = n
      OBVIOUS
    <2>1. MarkedText(n) \in BOOLEAN
      <3> DEFINE failed == {k \in (aged[n] + 1)..Len(log[n]) :
                              Retryable(log[n][k]) /\ log[n][k].status = "failed"}
      <3>1. CASE failed = {}
        BY <3>1 DEF MarkedText
      <3>2. CASE failed # {}
        <4>1. Max(failed) \in failed
          <5>1. failed \subseteq 1..Len(log[n]) /\ Len(log[n]) \in Nat
            BY DEF TypeInv
          <5> QED
            BY <3>2, <5>1, MaxInside
        <4>2. log[n][Max(failed)] \in RowType
          BY <4>1 DEF TypeInv
        <4>3. MarkedText(n) = log[n][Max(failed)].marked
          BY <3>2, <4>2 DEF MarkedText, RowType
        <4> QED
          BY <4>2, <4>3 DEF RowType
      <3> QED
        BY <3>1, <3>2
    <2> DEFINE mark == MarkedText(n)
    <2> HIDE DEF mark
    <2> QED
      BY <2>1 DEF mark
  <1> HIDE DEF item
  <1>3. todo \in SUBSET [note : Notes, mark : BOOLEAN]
    BY <1>2
  <1>4. \A x \in todo : x.note \in Notes /\ NeedsRetry(x.note) /\ x = item(x.note)
    BY <1>2
  <1> HIDE DEF todo
  <1>5. s \in SessType
    BY <1>3, FreshTyped DEF SessType, TypeInv
  <1>6. /\ s.phase = "pick" /\ ~s.claim /\ ~s.popUp /\ s.report = <<>> /\ ~s.mark
        /\ s.left = <<>> /\ s.mode = controls /\ s.todo = todo
        /\ \A m \in Notes : s.rows[m] = <<>>
    BY FreshTyped DEF SessType, TypeInv
  <1> HIDE DEF s
  <1> QED
    BY <1>1, <1>4, <1>5, <1>6 DEF item

(* What the next note of a sweep makes of one.                                *)
LEMMA SweepNextEffect ==
    ASSUME TypeInv, NEW i \in Instances, sess[i] # Idle, SweepNext(i)
    PROVE  LET s == sess[i] IN
           \E x \in s.todo, t \in SessType :
              /\ sess' = [sess EXCEPT ![i] = t] /\ (s.left = <<>> \/ s.phase = "pick")
              /\ x.note \in Notes
              /\ t.phase = "try" /\ t.note = x.note /\ t.mark = x.mark /\ t.mode = s.mode
              /\ t.left = Resolved(x.note, s.mode) /\ t.todo = s.todo \ {x}
              /\ t.claim = s.claim /\ t.popUp = s.popUp /\ t.report = s.report /\ t.rows = s.rows
  <1> DEFINE s == sess[i]
  <1>1. s \in SessType /\ i \in Processes
    BY BusyTyped DEF Processes
  <1>2. PICK x \in s.todo : sess' = [sess EXCEPT ![i] = RetryNote(s, x)]
    BY DEF SweepNext
  <1>3. x.note \in Notes /\ x.mark \in BOOLEAN /\ s.mode \in Modes
    BY <1>1 DEF SessType
  <1> DEFINE rest == Resolved(x.note, s.mode)
             t == RetryNote(s, x)
  <1>4. rest \in Seq(ChannelType)
    BY <1>3, ResolvedTyped
  <1>5. t = [s EXCEPT !.phase = "try", !.note = x.note, !.mark = x.mark, !.left = rest,
                      !.todo = s.todo \ {x}]
    BY <1>1 DEF RetryNote, SessType
  <1> HIDE DEF rest, t, s
  <1>6. t \in SessType
    BY <1>1, <1>3, <1>4, <1>5 DEF SessType
  <1>7. /\ t.phase = "try" /\ t.note = x.note /\ t.mark = x.mark /\ t.mode = s.mode
        /\ t.left = rest /\ t.todo = s.todo \ {x}
        /\ t.claim = s.claim /\ t.popUp = s.popUp /\ t.report = s.report /\ t.rows = s.rows
    BY <1>1, <1>5 DEF SessType
  <1>8. s.left = <<>> \/ s.phase = "pick"
    BY DEF SweepNext, s
  <1> QED
    BY <1>2, <1>3, <1>6, <1>7, <1>8 DEF rest, t, s

(* What a commit makes of the log: it sets the status that was reported, and  *)
(* adds the attempts.                                                         *)
Logged(s) ==
    /\ log' \in [Notes -> Seq(RowType)]
    /\ \A n \in Notes : Len(log'[n]) >= Len(log[n])
    /\ \A n \in Notes : \A k \in DOMAIN log[n] :
          /\ k \in DOMAIN log'[n]
          /\ log'[n][k].channel = log[n][k].channel /\ log'[n][k].test = log[n][k].test
          /\ log'[n][k].marked = log[n][k].marked /\ log'[n][k].traced = log[n][k].traced
          /\ Reports(s, n, k) => log'[n][k].status = s.report[2]
          /\ ~Reports(s, n, k) => log'[n][k].status = log[n][k].status
    /\ \A n \in Notes : \A k \in DOMAIN log'[n] :
          k \in DOMAIN log[n] \/ \E j \in DOMAIN s.rows[n] : log'[n][k] = s.rows[n][j]
    /\ \A n \in Notes : \A j \in DOMAIN s.rows[n] :
          \E k \in DOMAIN log'[n] : k > Len(log[n]) /\ log'[n][k] = s.rows[n][j]

LEMMA WrittenEffect ==
  ASSUME TypeInv, NEW p \in Processes, sess[p] # Idle, Written(p),
         sess[p].report # <<>> => sess[p].report[1] \in DOMAIN log[sess[p].note]
  PROVE  Logged(sess[p])
  <1> DEFINE s == sess[p]
  <1>1. s \in SessType /\ s.note \in Notes
    BY BusyTyped
  <1>2. ASSUME NEW n \in Notes
        PROVE  LET old == Reported(s, n) IN
               /\ old \in Seq(RowType) /\ DOMAIN old = DOMAIN log[n] /\ Len(old) = Len(log[n])
               /\ \A k \in DOMAIN log[n] :
                       /\ old[k].channel = log[n][k].channel
                       /\ old[k].test = log[n][k].test
                       /\ old[k].marked = log[n][k].marked
                       /\ old[k].traced = log[n][k].traced
                       /\ old[k].status = IF s.report # <<>> /\ s.note = n /\ k = s.report[1]
                                          THEN s.report[2] ELSE log[n][k].status
    <2>1. log[n] \in Seq(RowType)
      BY DEF TypeInv
    <2>2. CASE ~(s.report # <<>> /\ s.note = n)
      BY <2>1, <2>2 DEF Reported
    <2>3. CASE s.report # <<>> /\ s.note = n
      <3> DEFINE j == s.report[1]
                 status == s.report[2]
                 row == [log[n][j] EXCEPT !.status = status]
                 old == Reported(s, n)
      <3>1. j \in DOMAIN log[n] /\ status \in {"sent", "failed"}
        BY <1>1, <2>3 DEF SessType, ReportType
      <3>2. log[n][j] \in RowType
        BY <2>1, <3>1
      <3> HIDE DEF j, status
      <3>3. row \in RowType
        BY <3>1, <3>2 DEF RowType
      <3>4. /\ row.channel = log[n][j].channel /\ row.test = log[n][j].test
            /\ row.marked = log[n][j].marked /\ row.traced = log[n][j].traced
            /\ row.status = status
        BY <3>1, <3>2 DEF RowType
      <3>5. old = [log[n] EXCEPT ![j] = row]
        BY <2>1, <2>3, <3>1, <3>2 DEF Reported, j, status
      <3> HIDE DEF row, old
      <3>6. old \in Seq(RowType) /\ DOMAIN old = DOMAIN log[n] /\ Len(old) = Len(log[n])
        BY <2>1, <3>1, <3>3, <3>5, ExceptSeq
      <3>7. \A k \in DOMAIN log[n] : old[k] = IF k = j THEN row ELSE log[n][k]
        BY <2>1, <3>5
      <3> QED
        BY <2>3, <3>4, <3>6, <3>7 DEF old, j, status
    <2> QED
      BY <2>2, <2>3
  <1>3. log' = [n \in Notes |-> Reported(s, n) \o s.rows[n]]
    BY DEF Written
  <1>4. ASSUME NEW n \in Notes
        PROVE  LET old == Reported(s, n)
                   new == log'[n]
               IN /\ new \in Seq(RowType)
                  /\ Len(log[n]) \in Nat /\ Len(new) = Len(log[n]) + Len(s.rows[n])
                  /\ DOMAIN log[n] \subseteq DOMAIN new
                  /\ \A k \in DOMAIN log[n] : new[k] = old[k]
                  /\ \A j \in DOMAIN s.rows[n] :
                        Len(log[n]) + j \in DOMAIN new /\ new[Len(log[n]) + j] = s.rows[n][j]
                  /\ \A k \in DOMAIN new :
                        k \in DOMAIN log[n] \/ \E j \in DOMAIN s.rows[n] : k = Len(log[n]) + j
    <2> DEFINE old == Reported(s, n)
               rows == s.rows[n]
               new == log'[n]
    <2>1. old \in Seq(RowType) /\ DOMAIN old = DOMAIN log[n] /\ Len(old) = Len(log[n])
      BY <1>2
    <2>2. rows \in Seq(RowType) /\ log[n] \in Seq(RowType)
      BY <1>1 DEF SessType, TypeInv
    <2>3. new = old \o rows
      BY <1>3
    <2> HIDE DEF old, rows, new
    <2>4. new \in Seq(RowType) /\ Len(new) = Len(old) + Len(rows)
      BY <2>1, <2>2, <2>3, ConcatProperties
    <2>5. \A k \in 1..Len(new) : new[k] = IF k <= Len(old) THEN old[k] ELSE rows[k - Len(old)]
      BY <2>1, <2>2, <2>3, <2>4, ConcatProperties
    <2>6. /\ DOMAIN log[n] = 1..Len(log[n]) /\ DOMAIN new = 1..Len(new)
          /\ DOMAIN rows = 1..Len(rows)
          /\ Len(log[n]) \in Nat /\ Len(rows) \in Nat
      BY <2>2, <2>4
    <2>7. \A k \in DOMAIN new :
             \/ k \in DOMAIN log[n]
             \/ k - Len(log[n]) \in DOMAIN rows /\ k = Len(log[n]) + (k - Len(log[n]))
      BY <2>1, <2>4, <2>6
    <2>8. \A j \in DOMAIN rows :
             Len(log[n]) + j \in DOMAIN new /\ new[Len(log[n]) + j] = rows[j]
      <3> SUFFICES ASSUME NEW j \in DOMAIN rows
                   PROVE Len(log[n]) + j \in DOMAIN new /\ new[Len(log[n]) + j] = rows[j]
        OBVIOUS
      <3>1. /\ Len(log[n]) + j \in 1..Len(new) /\ ~(Len(log[n]) + j <= Len(old))
            /\ (Len(log[n]) + j) - Len(old) = j
        BY <2>1, <2>4, <2>6
      <3> QED
        BY <2>5, <2>6, <3>1
    <2>9. DOMAIN log[n] \subseteq DOMAIN new /\ \A k \in DOMAIN log[n] : new[k] = old[k]
      BY <2>1, <2>4, <2>5, <2>6
    <2> QED
      BY <2>1, <2>4, <2>6, <2>7, <2>8, <2>9 DEF old, rows, new
  <1>5. log' \in [Notes -> Seq(RowType)]
    BY <1>3, <1>4
  <1>6. ASSUME NEW n \in Notes, NEW k \in DOMAIN log[n]
        PROVE  /\ k \in DOMAIN log'[n]
               /\ log'[n][k].channel = log[n][k].channel /\ log'[n][k].test = log[n][k].test
               /\ log'[n][k].marked = log[n][k].marked /\ log'[n][k].traced = log[n][k].traced
               /\ Reports(s, n, k) => log'[n][k].status = s.report[2]
               /\ ~Reports(s, n, k) => log'[n][k].status = log[n][k].status
    <2>1. log'[n][k] = Reported(s, n)[k] /\ k \in DOMAIN log'[n]
      BY <1>4
    <2> QED
      BY <1>2, <2>1 DEF Reports
  <1>7. ASSUME NEW n \in Notes, NEW j \in DOMAIN s.rows[n]
        PROVE  \E k \in DOMAIN log'[n] : k > Len(log[n]) /\ log'[n][k] = s.rows[n][j]
    <2>1. Len(log[n]) + j \in DOMAIN log'[n] /\ log'[n][Len(log[n]) + j] = s.rows[n][j]
      BY <1>4
    <2>2. Len(log[n]) \in Nat /\ j \in Nat \ {0}
      BY <1>1, <1>4 DEF SessType
    <2> QED
      BY <2>1, <2>2
  <1>8. ASSUME NEW n \in Notes, NEW k \in DOMAIN log'[n]
        PROVE  k \in DOMAIN log[n] \/ \E j \in DOMAIN s.rows[n] : log'[n][k] = s.rows[n][j]
    <2> SUFFICES ASSUME k \notin DOMAIN log[n]
                 PROVE  \E j \in DOMAIN s.rows[n] : log'[n][k] = s.rows[n][j]
      OBVIOUS
    <2>1. PICK j \in DOMAIN s.rows[n] : k = Len(log[n]) + j
      BY <1>4
    <2>2. log'[n][Len(log[n]) + j] = s.rows[n][j]
      BY <1>4
    <2> QED
      BY <2>1, <2>2
  <1>9. \A n \in Notes : Len(log'[n]) >= Len(log[n])
    <2> SUFFICES ASSUME NEW n \in Notes PROVE Len(log'[n]) >= Len(log[n])
      OBVIOUS
    <2>1. s.rows[n] \in Seq(RowType)
      BY <1>1 DEF SessType
    <2>2. Len(log[n]) \in Nat /\ Len(log'[n]) = Len(log[n]) + Len(s.rows[n])
      BY <1>4
    <2>3. Len(s.rows[n]) \in Nat
      BY <2>1
    <2>4. \A a, b \in Nat : a + b >= a
      OBVIOUS
    <2> QED
      BY <2>2, <2>3, <2>4
  <1> HIDE DEF s
  <1> QED
    BY <1>5, <1>6, <1>7, <1>8, <1>9 DEF s, Logged

----------------------------------------------------------------------------
(* Who does what                                                             *)

(* The log of a note grows; of what it holds, only a status changes.          *)
LogGrows ==
    \A n \in Notes : \A k \in DOMAIN log[n] :
        /\ k \in DOMAIN log'[n] /\ log'[n][k].traced = log[n][k].traced
        /\ log[n][k].status # "suppressed" => log'[n][k].status # "suppressed"

LEMMA ShapedStays ==
  ASSUME NEW q \in Processes, Shaped(q), TypeInv, sess'[q] = sess[q], LogGrows,
         q \in Instances /\ ran["retry"][q] # NotRunning => ran'["retry"][q] # NotRunning
  PROVE  Shaped(q)'
  <1> SUFFICES ASSUME sess[q] # Idle PROVE Shaped(q)'
    BY DEF Shaped
  <1>1. PICK s \in SessType : s = sess[q]
    BY BusyTyped
  <1>2. sess'[q] = s /\ s.note \in Notes
    BY <1>1 DEF SessType
  <1>3. ASSUME q \in Handlers PROVE HandlerShape(s)'
    <2>1. HandlerShape(s)
      BY <1>1, <1>3 DEF Shaped
    <2>2. s.report # <<>> => /\ s.report[1] \in DOMAIN log'[s.note]
                             /\ log'[s.note][s.report[1]].traced
      BY <1>2, <2>1 DEF HandlerShape, LogGrows
    <2> QED
      BY <2>1, <2>2 DEF HandlerShape
  <1>4. ASSUME q \in Instances PROVE SweepShape(s)'
    <2>1. SweepShape(s)
      BY <1>1, <1>4 DEF Shaped
    <2>2. \A n \in Notes : Attempted(n) => Attempted(n)'
      BY DEF Attempted, LogGrows
    <2>3. \A n \in Notes : Sweeps(s, n)' <=> Sweeps(s, n)
      BY DEF Sweeps, Waits
    <2> QED
      BY <2>1, <2>2, <2>3 DEF SweepShape
  <1>5. HandlerShape(sess[q])' <=> HandlerShape(s)'
    BY <1>2 DEF HandlerShape
  <1>6. SweepShape(sess[q])' <=> SweepShape(s)'
    BY <1>2 DEF SweepShape, Sweeps, Waits
  <1> QED
    BY <1>1, <1>2, <1>3, <1>4, <1>5, <1>6 DEF Shaped, SentStops, TracedRows, HasSent

(* A step of one process that leaves the log as it is.                        *)
LEMMA OwnStep ==
  ASSUME TypeInv, ShapeInv, NEW p \in Processes, NEW t \in {Idle} \cup SessType,
         sess' = [sess EXCEPT ![p] = t], UNCHANGED <<log, claims>>,
         \A i \in Instances \ {p} : ran'["retry"][i] = ran["retry"][i],
         Shaped(p)',
         t # Idle /\ t.claim => /\ t.note \notin claims /\ ~Attempted(t.note)
                                /\ Claiming(t.note) \subseteq {p}
  PROVE  ShapeInv'
  <1>1. sess'[p] = t /\ \A q \in Processes \ {p} : sess'[q] = sess[q]
    BY DEF TypeInv
  <1>2. LogGrows
    BY DEF LogGrows
  <1>3. \A q \in Processes : Shaped(q)'
    <2> SUFFICES ASSUME NEW q \in Processes, q # p PROVE Shaped(q)'
      OBVIOUS
    <2>1. Shaped(q)
      BY DEF ShapeInv
    <2> QED
      BY <1>1, <1>2, <2>1, ShapedStays
  <1>4. TracedSent'
    BY DEF ShapeInv, TracedSent
  <1>5. \A n \in Notes : Attempted(n)' <=> Attempted(n)
    BY DEF Attempted
  <1>6. \A q \in Processes : sess'[q] # Idle => sess'[q].note \in Notes
    BY <1>1, BusyTyped DEF SessType
  <1>7. ClaimsApart'
    <2>1. \A q \in Processes : sess'[q] # Idle /\ sess'[q].claim =>
             sess'[q].note \notin claims /\ ~Attempted(sess'[q].note)
      BY <1>1 DEF ShapeInv, ClaimsApart
    <2>2. \A q \in Processes \ {p} :
             t # Idle /\ t.claim /\ sess[q] # Idle /\ sess[q].claim => sess[q].note # t.note
      BY DEF Claiming
    <2>3. ASSUME NEW q \in Processes, NEW r \in Processes,
                 sess'[q] # Idle, sess'[q].claim, sess'[r] # Idle, sess'[r].claim,
                 sess'[q].note = sess'[r].note
          PROVE  q = r
      BY <1>1, <2>2, <2>3 DEF ShapeInv, ClaimsApart
    <2> QED
      BY <1>5, <1>6, <2>1, <2>3 DEF ClaimsApart
  <1> QED
    BY <1>3, <1>4, <1>7 DEF ShapeInv

ClaimsAlone(p, s) ==
    s.claim => s.note \notin claims /\ ~Attempted(s.note) /\ Claiming(s.note) \subseteq {p}

LEMMA BusyStep ==
  ASSUME TypeInv, ShapeInv, NEW p \in Processes, NEW t \in SessType,
         sess' = [sess EXCEPT ![p] = t], UNCHANGED <<log, claims>>,
         \A i \in Instances \ {p} : ran'["retry"][i] = ran["retry"][i],
         p \in Handlers => HandlerShape(t),
         p \in Instances => SweepShape(t) /\ ran'["retry"][p] # NotRunning,
         SentStops(t), TracedRows(t), ClaimsAlone(p, t)
  PROVE  ShapeInv'
  <1>1. sess'[p] = t /\ t # Idle /\ t \in {Idle} \cup SessType
    BY SessTypeBusy DEF TypeInv
  <1>2. HandlerShape(sess[p])' <=> HandlerShape(t)
    BY <1>1 DEF HandlerShape
  <1>3. SweepShape(sess[p])' <=> SweepShape(t)
    BY <1>1 DEF SweepShape, Sweeps, Waits, Attempted
  <1>4. Shaped(p)'
    BY <1>1, <1>2, <1>3 DEF Shaped, SentStops, TracedRows, HasSent
  <1> QED
    BY <1>1, <1>4, OwnStep DEF ClaimsAlone

(* What a busy process keeps to.                                              *)
LEMMA BusyShape ==
  ASSUME TypeInv, ShapeInv, NEW p \in Processes, NEW s, s = sess[p], s # Idle
  PROVE  /\ s \in SessType /\ s.note \in Notes
         /\ p \in Handlers => HandlerShape(s)
         /\ p \in Instances => SweepShape(s) /\ ran["retry"][p] # NotRunning
         /\ SentStops(s) /\ TracedRows(s) /\ ClaimsAlone(p, s)
  <1>1. Shaped(p) /\ ClaimsApart
    BY DEF ShapeInv
  <1>2. s \in SessType /\ s.note \in Notes
    BY BusyTyped
  <1>3. ClaimsAlone(p, s)
    BY <1>1 DEF ClaimsApart, Claiming, ClaimsAlone
  <1> QED
    BY <1>1, <1>2, <1>3 DEF Shaped

LEMMA TryShape ==
  ASSUME TypeInv, ShapeInv, NEW p \in Processes, sess[p] # Idle, Try(p)
  PROVE  TypeInv' /\ ShapeInv'
  <1>1. PICK s : s = sess[p]
    OBVIOUS
  <1>2. PICK row \in RowType : Attempts(p, s, row)
    BY <1>1, TryEffect
  <1>3. /\ s \in SessType /\ s.note \in Notes /\ s.left \in Seq(ChannelType)
        /\ s.rows \in [Notes -> Seq(RowType)] /\ s.mark \in BOOLEAN /\ s.mode \in Modes
    BY <1>1, BusyTyped DEF SessType
  <1>4. PICK t \in SessType :
           /\ t = Tried(s, row)
           /\ t.rows[s.note] = Append(s.rows[s.note], row)
           /\ \A n \in Notes \ {s.note} : t.rows[n] = s.rows[n]
           /\ t.left = (IF row.status = "sent" THEN <<>> ELSE Tail(s.left))
           /\ t.phase = s.phase /\ t.note = s.note /\ t.mode = s.mode /\ t.claim = s.claim
           /\ t.popUp = s.popUp /\ t.todo = s.todo /\ t.mark = s.mark /\ t.report = s.report
    BY <1>2, <1>3, TriedFields DEF Attempts
  <1>5. sess' = [sess EXCEPT ![p] = t]
    BY <1>2, <1>4 DEF Attempts
  <1>6. /\ UNCHANGED <<controls, claims, log, aged, inbox, refused, ran>>
        /\ s.phase = "try"
    BY <1>1 DEF Try, leaseVars
  <1>7. /\ p \in Handlers => HandlerShape(s)
        /\ p \in Instances => SweepShape(s) /\ ran["retry"][p] # NotRunning
        /\ SentStops(s) /\ TracedRows(s) /\ ClaimsAlone(p, s)
    BY <1>1, BusyShape
  <1>8. /\ DOMAIN t.rows[s.note] = DOMAIN s.rows[s.note] \cup {Len(s.rows[s.note]) + 1}
        /\ t.rows[s.note][Len(s.rows[s.note]) + 1] = row
        /\ \A k \in DOMAIN s.rows[s.note] : t.rows[s.note][k] = s.rows[s.note][k]
    BY <1>3, <1>4
  <1>9. SentStops(t)
    <2> SUFFICES ASSUME HasSent(t, t.note) PROVE t.left = <<>>
      BY DEF SentStops
    <2>1. ~HasSent(s, s.note)
      BY <1>2, <1>7 DEF SentStops, Attempts
    <2>2. row.status = "sent"
      <3>1. PICK k \in DOMAIN t.rows[s.note] :
               t.rows[s.note][k].status = "sent" /\ ~t.rows[s.note][k].test
        BY <1>4 DEF HasSent
      <3>2. k \notin DOMAIN s.rows[s.note]
        BY <1>8, <2>1, <3>1 DEF HasSent
      <3> QED
        BY <1>8, <3>1, <3>2
    <2> QED
      BY <1>4, <2>2
  <1>10. TracedRows(t)
    <2>1. row.traced => row.status = "sent"
      BY <1>2 DEF Attempts
    <2>2. \A k \in DOMAIN t.rows[s.note] :
             t.rows[s.note][k].traced => t.rows[s.note][k].status = "sent"
      BY <1>3, <1>7, <1>8, <2>1 DEF TracedRows
    <2>3. ASSUME NEW n \in Notes \ {s.note}
          PROVE  \A k \in DOMAIN t.rows[n] : t.rows[n][k].traced => t.rows[n][k].status = "sent"
      <3>1. t.rows[n] = s.rows[n]
        BY <1>4
      <3> QED
        BY <1>7, <3>1 DEF TracedRows
    <2> QED
      BY <2>2, <2>3 DEF TracedRows
  <1>11. ASSUME p \in Handlers PROVE HandlerShape(t)
    <2>1. HandlerShape(s)
      BY <1>7, <1>11
    <2>2. s.mode = "off" => row.status = "suppressed"
      BY <1>2 DEF Suppresses, Attempts
    <2>3. t.mode = "off" =>
            \A n \in Notes : \A k \in DOMAIN t.rows[n] : t.rows[n][k].status = "suppressed"
      <3> SUFFICES ASSUME s.mode = "off", NEW n \in Notes, NEW k \in DOMAIN t.rows[n]
                   PROVE  t.rows[n][k].status = "suppressed"
        BY <1>4
      <3>1. \A j \in DOMAIN s.rows[n] : s.rows[n][j].status = "suppressed"
        BY <2>1 DEF HandlerShape
      <3>2. CASE n = s.note
        BY <1>8, <2>2, <3>1, <3>2
      <3>3. CASE n # s.note
        <4>1. t.rows[n] = s.rows[n]
          BY <1>4, <3>3
        <4> QED
          BY <3>1, <4>1
      <3> QED
        BY <3>2, <3>3
    <2>4. t.report # <<>> => t.left = <<>> /\ t.report[3]
      <3> SUFFICES ASSUME s.report # <<>> PROVE t.left = <<>> /\ s.report[3]
        BY <1>4
      <3>1. s.report[3] /\ s.left = <<"email">>
        BY <1>2, <2>1 DEF HandlerShape, Attempts
      <3>2. Tail(<<"email">>) = <<>>
        OBVIOUS
      <3> QED
        BY <1>4, <3>1, <3>2
    <2> QED
      BY <1>4, <2>1, <2>3, <2>4 DEF HandlerShape
  <1>12. ASSUME p \in Instances PROVE SweepShape(t)
    <2>1. SweepShape(s)
      BY <1>7, <1>12
    <2>2. \A x \in t.todo : t.rows[x.note] = <<>>
      <3>1. \A x \in s.todo : x.note \in Notes \ {s.note} /\ s.rows[x.note] = <<>>
        BY <1>3, <1>6, <2>1 DEF SweepShape, SessType
      <3> QED
        BY <1>4, <3>1
    <2>3. \A n \in Notes : Sweeps(t, n) => Sweeps(s, n)
      BY <1>4, <1>6 DEF Sweeps, Waits
    <2> QED
      BY <1>4, <1>6, <2>1, <2>2, <2>3 DEF SweepShape
  <1>13. ShapeInv'
    <2>1. ClaimsAlone(p, t)
      BY <1>4, <1>7 DEF ClaimsAlone
    <2> QED
      BY <1>5, <1>6, <1>7, <1>9, <1>10, <1>11, <1>12, <2>1, BusyStep
  <1>14. out' \in [Notes -> [sent : Nat, marked : BOOLEAN]] /\ lost' \in [Notes -> Nat]
    <2>1. out \in [Notes -> [sent : Nat, marked : BOOLEAN]] /\ lost \in [Notes -> Nat]
      BY DEF TypeInv
    <2> DEFINE more == [out EXCEPT ![s.note].sent = @ + 1, ![s.note].marked = @ \/ s.mark]
    <2>2. more \in [Notes -> [sent : Nat, marked : BOOLEAN]]
      <3>1. out[s.note].marked \/ s.mark \in BOOLEAN
        BY <1>3, <2>1
      <3> QED
        BY <1>3, <2>1, <3>1
    <2>3. [lost EXCEPT ![s.note] = @ + 1] \in [Notes -> Nat]
      BY <1>3, <2>1
    <2>4. out' \in {out, more} /\ lost' \in {lost, [lost EXCEPT ![s.note] = @ + 1]}
      <3> HIDE DEF more
      <3>1. CASE Suppresses(s) \/ s.mode # "on"
        BY <1>2, <1>3, <3>1 DEF Modes, Suppresses, Attempts
      <3>2. CASE ~Suppresses(s) /\ s.mode = "on"
        BY <1>2, <3>2 DEF more, Attempts
      <3> QED
        BY <3>1, <3>2
    <2> HIDE DEF more
    <2> QED
      BY <2>1, <2>2, <2>3, <2>4
  <1>15. sess' \in [Processes -> {Idle} \cup SessType]
    BY <1>5, SessSet
  <1>16. TypeInv'
    BY <1>6, <1>14, <1>15 DEF TypeInv
  <1> QED
    BY <1>13, <1>16

LEMMA RaiseShape ==
  ASSUME TypeInv, ShapeInv, NEW p \in Handlers, NEW n \in Notes, Raise(p, n)
  PROVE  TypeInv' /\ ShapeInv'
  <1>1. PICK t \in SessType :
              /\ sess' = [sess EXCEPT ![p] = t]
              /\ t.phase = "try" /\ t.note = n /\ t.mode = controls
              /\ t.left = Resolved(n, controls)
              /\ t.claim = (controls # "off") /\ t.todo = {} /\ ~t.mark /\ t.report = <<>>
              /\ \A m \in Notes : t.rows[m] = <<>>
              /\ t.claim => Claiming(n) = {} /\ Claimable(n)
    BY RaiseEffect DEF Processes
  <1>2. UNCHANGED <<controls, claims, log, aged, inbox, out, refused, lost, ran>>
    BY DEF Raise, leaseVars
  <1>3. p \in Processes /\ p \notin Instances
    BY NotesTyped DEF Processes
  <1>4. HandlerShape(t)
    <2>1. t.claim <=> t.mode # "off"
      BY <1>1
    <2>2. t.popUp => t.claim \/ t.mode = "off"
      BY <2>1
    <2>3. \A m \in Notes : DOMAIN t.rows[m] = {}
      BY <1>1
    <2> QED
      BY <1>1, <2>1, <2>2, <2>3 DEF HandlerShape
  <1>5. SentStops(t) /\ TracedRows(t)
    BY <1>1 DEF SentStops, TracedRows, HasSent
  <1>6. ClaimsAlone(p, t)
    <2> SUFFICES ASSUME t.claim PROVE n \notin claims /\ ~Attempted(n) /\ Claiming(n) = {}
      BY <1>1 DEF ClaimsAlone
    <2>1. Claimable(n) /\ Claiming(n) = {}
      BY <1>1
    <2>2. \A k \in DOMAIN log[n] : log[n][k] \in Rows(n)
      BY DEF Rows, ToSet
    <2> QED
      BY <2>1, <2>2 DEF Claimable, Attempted
  <1>7. ShapeInv'
    BY <1>1, <1>2, <1>3, <1>4, <1>5, <1>6, BusyStep
  <1>8. sess' \in [Processes -> {Idle} \cup SessType]
    BY <1>1, <1>3, SessSet
  <1>9. TypeInv'
    BY <1>2, <1>8 DEF TypeInv
  <1> QED
    BY <1>7, <1>9

LEMMA ReportShape ==
  ASSUME TypeInv, ShapeInv, NEW p \in Handlers, NEW n \in Notes, NEW k \in 1..MaxLog,
         NEW status \in {"sent", "failed"}, Report(p, n, k, status)
  PROVE  TypeInv' /\ ShapeInv'
  <1> DEFINE first == FirstRefusal(n, k, status)
             back == FallsBack(n, k, status)
  <1>1. PICK t \in SessType :
              /\ sess' = [sess EXCEPT ![p] = t]
              /\ t.phase = "try" /\ t.note = n /\ ~t.claim /\ ~t.popUp /\ t.todo = {}
              /\ t.mode = controls /\ t.mark = log[n][k].marked
              /\ t.left = (IF back THEN <<"email">> ELSE <<>>)
              /\ t.report # <<>> /\ t.report[1] = k /\ t.report[2] = status
              /\ t.report[3] = first
              /\ \A m \in Notes : t.rows[m] = <<>>
    BY ReportEffect DEF Processes
  <1>2. /\ UNCHANGED <<controls, claims, log, aged, inbox, out, lost, ran>>
        /\ refused' \in {refused, [refused EXCEPT ![n] = @ + 1]}
        /\ k \in DOMAIN log[n] /\ log[n][k].traced
    BY DEF Report, leaseVars
  <1>3. p \in Processes /\ p \notin Instances
    BY NotesTyped DEF Processes
  <1>4. (back => first) /\ (first => status = "failed")
    BY DEF FallsBack, FirstRefusal
  <1> HIDE DEF first, back
  <1>5. HandlerShape(t)
    BY <1>1, <1>2, <1>4 DEF HandlerShape
  <1>6. SentStops(t) /\ TracedRows(t) /\ ClaimsAlone(p, t)
    BY <1>1 DEF SentStops, TracedRows, HasSent, ClaimsAlone
  <1>7. ShapeInv'
    BY <1>1, <1>2, <1>3, <1>5, <1>6, BusyStep
  <1>8. sess' \in [Processes -> {Idle} \cup SessType]
    BY <1>1, <1>3, SessSet
  <1>9. refused' \in [Notes -> Nat]
    <2>1. refused \in [Notes -> Nat]
      BY DEF TypeInv
    <2>2. [refused EXCEPT ![n] = @ + 1] \in [Notes -> Nat]
      BY <2>1
    <2> QED
      BY <1>2, <2>1, <2>2
  <1>10. TypeInv'
    BY <1>2, <1>8, <1>9 DEF TypeInv
  <1> QED
    BY <1>7, <1>10

(* A note that the sweep picks has been tried before.                         *)
LEMMA RetryAttempted ==
  ASSUME TypeInv, NEW n \in Notes, NeedsRetry(n)
  PROVE  \E k \in DOMAIN log[n] : k > aged[n] /\ ~log[n][k].test /\ log[n][k].status = "failed"
  <1> DEFINE failed == {k \in (aged[n] + 1)..Len(log[n]) :
                          Retryable(log[n][k]) /\ log[n][k].status = "failed"}
  <1>1. Cardinality(failed) # 0
    BY NotesTyped DEF NeedsRetry, Failures
  <1>2. failed # {}
    <2> HIDE DEF failed
    <2> QED
      BY <1>1, FS_EmptySet
  <1>3. PICK k \in failed : TRUE
    BY <1>2
  <1>4. aged[n] \in Nat /\ Len(log[n]) \in Nat /\ DOMAIN log[n] = 1..Len(log[n])
    BY DEF TypeInv
  <1> QED
    BY <1>3, <1>4 DEF Retryable

LEMMA StartSweepShape ==
  ASSUME TypeInv, ShapeInv, LeaseInv, NEW i \in Instances, StartSweep(i)
  PROVE  TypeInv' /\ ShapeInv'
  <1>1. PICK t \in SessType :
              /\ sess' = [sess EXCEPT ![i] = t]
              /\ t.phase = "pick" /\ ~t.claim /\ ~t.popUp /\ t.report = <<>>
              /\ t.left = <<>> /\ t.mode = controls /\ ~t.mark
              /\ \A x \in t.todo : /\ x.note \in Notes /\ NeedsRetry(x.note)
                                   /\ x = [note |-> x.note, mark |-> MarkedText(x.note)]
              /\ \A m \in Notes : t.rows[m] = <<>>
    BY StartSweepEffect
  <1>2. UNCHANGED <<controls, claims, log, aged, inbox, out, refused, lost>> /\ Claim("retry", i)
    BY DEF StartSweep
  <1>3. i \in Processes /\ i \notin Handlers
    BY NotesTyped DEF Processes
  <1>4. \A x \in t.todo : Attempted(x.note)
    BY <1>1, RetryAttempted DEF Attempted
  <1>5. SweepShape(t)
    BY <1>1, <1>4 DEF SweepShape, Sweeps, Waits
  <1>6. SentStops(t) /\ TracedRows(t) /\ ClaimsAlone(i, t)
    BY <1>1 DEF SentStops, TracedRows, HasSent, ClaimsAlone
  <1>7. /\ ran'["retry"][i] # NotRunning
        /\ \A k \in Instances \ {i} : ran'["retry"][k] = ran["retry"][k]
    BY <1>2, NotesTyped DEF Claim, LeaseInv, LeaseTypeOK, NotRunning
  <1>8. ShapeInv'
    BY <1>1, <1>2, <1>3, <1>5, <1>6, <1>7, BusyStep
  <1>9. sess' \in [Processes -> {Idle} \cup SessType]
    BY <1>1, <1>3, SessSet
  <1>10. TypeInv'
    BY <1>2, <1>9 DEF TypeInv
  <1> QED
    BY <1>8, <1>10

LEMMA SweepNextShape ==
  ASSUME TypeInv, ShapeInv, NEW i \in Instances, sess[i] # Idle, SweepNext(i)
  PROVE  TypeInv' /\ ShapeInv'
  <1>1. PICK s : s = sess[i]
    OBVIOUS
  <1>2. PICK x \in s.todo, t \in SessType :
              /\ sess' = [sess EXCEPT ![i] = t] /\ (s.left = <<>> \/ s.phase = "pick")
              /\ x.note \in Notes
              /\ t.phase = "try" /\ t.note = x.note /\ t.mark = x.mark /\ t.mode = s.mode
              /\ t.left = Resolved(x.note, s.mode) /\ t.todo = s.todo \ {x}
              /\ t.claim = s.claim /\ t.popUp = s.popUp /\ t.report = s.report /\ t.rows = s.rows
    BY <1>1, SweepNextEffect
  <1>3. UNCHANGED <<controls, claims, log, aged, inbox, out, refused, lost, ran>>
    BY DEF SweepNext, leaseVars
  <1>4. i \in Processes /\ i \notin Handlers
    BY NotesTyped DEF Processes
  <1>5. SweepShape(s) /\ ran["retry"][i] # NotRunning /\ TracedRows(s)
    BY <1>1, <1>4, BusyShape
  <1>6. t.rows[t.note] = <<>>
    BY <1>2, <1>5 DEF SweepShape
  <1>7. SweepShape(t)
    <2>1. \A n \in Notes : Sweeps(t, n) => Sweeps(s, n)
      BY <1>2 DEF Sweeps, Waits
    <2>2. \A y \in t.todo : y.note # t.note /\ t.rows[y.note] = <<>>
      BY <1>2, <1>5 DEF SweepShape
    <2> QED
      BY <1>2, <1>5, <2>1, <2>2 DEF SweepShape
  <1>8. SentStops(t) /\ TracedRows(t) /\ ClaimsAlone(i, t)
    BY <1>2, <1>5, <1>6 DEF SentStops, TracedRows, HasSent, ClaimsAlone, SweepShape
  <1>9. ShapeInv'
    BY <1>2, <1>3, <1>4, <1>5, <1>7, <1>8, BusyStep
  <1>10. sess' \in [Processes -> {Idle} \cup SessType]
    BY <1>2, <1>4, SessSet
  <1>11. TypeInv'
    BY <1>3, <1>10 DEF TypeInv
  <1> QED
    BY <1>9, <1>11

LEMMA SentCounted ==
  ASSUME NEW s \in SessType, NEW n \in Notes
  PROVE  Sent(s, n) \in Nat /\ (HasSent(s, n) => Sent(s, n) >= 1)
  <1> DEFINE S == {k \in DOMAIN s.rows[n] : s.rows[n][k].status = "sent" /\ ~s.rows[n][k].test}
  <1>1. s.rows[n] \in Seq(RowType)
    BY DEF SessType
  <1>2. S \subseteq 1..Len(s.rows[n]) /\ Len(s.rows[n]) \in Nat
    BY <1>1
  <1>3. Sent(s, n) = Cardinality(S) /\ (HasSent(s, n) => S # {})
    BY DEF Sent, HasSent
  <1> HIDE DEF S
  <1>4. IsFiniteSet(S)
    <2>1. IsFiniteSet(1..Len(s.rows[n]))
      BY <1>2, FS_Interval
    <2> QED
      BY <1>2, <2>1, FS_Subset
  <1>5. Cardinality(S) \in Nat /\ (S # {} => Cardinality(S) # 0)
    BY <1>4, FS_CardinalityType, FS_EmptySet
  <1> QED
    BY <1>3, <1>5

LEMMA RollBackShape ==
  ASSUME TypeInv, ShapeInv, LeaseInv, NEW p \in Processes, RollBack(p)
  PROVE  TypeInv' /\ ShapeInv'
  <1>1. /\ sess' = [sess EXCEPT ![p] = Idle]
        /\ UNCHANGED <<controls, claims, log, aged, inbox, out, refused>>
        /\ lost' = [n \in Notes |-> lost[n] + Sent(sess[p], n)]
    BY DEF RollBack
  <1>2. sess[p] # Idle /\ sess[p] \in SessType
    BY BusyTyped DEF RollBack
  <1>3. sess'[p] = Idle /\ sess' \in [Processes -> {Idle} \cup SessType]
    BY <1>1 DEF TypeInv
  <1>4. \A i \in Instances \ {p} : ran'["retry"][i] = ran["retry"][i]
    <2>1. CASE p \in Instances
      BY <2>1, NotesTyped DEF RollBack, Stopped, LeaseInv, LeaseTypeOK
    <2>2. CASE p \notin Instances
      BY <2>2 DEF RollBack, leaseVars
    <2> QED
      BY <2>1, <2>2
  <1>5. ShapeInv'
    <2>1. Shaped(p)'
      BY <1>3 DEF Shaped
    <2> QED
      BY <1>1, <1>3, <1>4, <2>1, OwnStep
  <1>6. \A n \in Notes : Sent(sess[p], n) \in Nat
    BY <1>2, SentCounted
  <1>7. lost' \in [Notes -> Nat]
    BY <1>1, <1>6 DEF TypeInv
  <1>8. TypeInv'
    BY <1>1, <1>3, <1>7 DEF TypeInv
  <1> QED
    BY <1>5, <1>8

LEMMA WrittenShape ==
  ASSUME TypeInv, ShapeInv, NEW p \in Processes, sess[p] # Idle, Written(p),
         sess[p].phase = "pick" \/ sess[p].left = <<>>,
         sess' = [sess EXCEPT ![p] = Idle],
         \A i \in Instances \ {p} : ran'["retry"][i] = ran["retry"][i],
         UNCHANGED <<controls, aged, out, refused, lost>>
  PROVE  TypeInv' /\ ShapeInv'
  <1>1. PICK s : s = sess[p]
    OBVIOUS
  <1>2. /\ s \in SessType /\ s.note \in Notes
        /\ p \in Handlers => HandlerShape(s)
        /\ p \in Instances => SweepShape(s)
        /\ SentStops(s) /\ TracedRows(s) /\ ClaimsAlone(p, s)
    BY <1>1, BusyShape
  <1>3. s.report # <<>> => /\ s.report[1] \in DOMAIN log[s.note] /\ log[s.note][s.report[1]].traced
                           /\ s.report[2] # "suppressed" /\ p \in Handlers
    <2>1. CASE p \in Handlers
      BY <1>2, <2>1 DEF HandlerShape, SessType, ReportType
    <2>2. CASE p \in Instances
      BY <1>2, <2>2 DEF SweepShape
    <2> QED
      BY <2>1, <2>2 DEF Processes
  <1>4. Logged(s)
    BY <1>1, <1>3, WrittenEffect
  <1>5. LogGrows
    BY <1>3, <1>4 DEF LogGrows, Logged, Reports
  <1>6. sess'[p] = Idle /\ \A q \in Processes \ {p} : sess'[q] = sess[q]
    BY DEF TypeInv
  <1>7. \A q \in Processes : Shaped(q)'
    <2>1. Shaped(p)'
      BY <1>6 DEF Shaped
    <2>2. ASSUME NEW q \in Processes, q # p PROVE Shaped(q)'
      <3>1. Shaped(q)
        BY DEF ShapeInv
      <3> QED
        BY <1>5, <1>6, <2>2, <3>1, ShapedStays
    <2> QED
      BY <2>1, <2>2
  <1>8. TracedSent'
    <2> SUFFICES ASSUME NEW n \in Notes, NEW k \in DOMAIN log'[n], log'[n][k].traced
                 PROVE  log'[n][k].status # "suppressed"
      BY DEF TracedSent
    <2>1. CASE k \in DOMAIN log[n]
      BY <1>3, <1>4, <2>1 DEF ShapeInv, TracedSent, Logged, Reports
    <2>2. CASE k \notin DOMAIN log[n]
      <3>1. PICK j \in DOMAIN s.rows[n] : log'[n][k] = s.rows[n][j]
        BY <1>4, <2>2 DEF Logged
      <3> QED
        BY <1>2, <3>1 DEF TracedRows
    <2> QED
      BY <2>1, <2>2
  <1>9. ClaimsApart'
    <2>1. ASSUME NEW q \in Processes, q # p, sess[q] # Idle, sess[q].claim
          PROVE  sess[q].note \notin claims' /\ ~Attempted(sess[q].note)'
      <3>1. PICK n \in Notes : n = sess[q].note
        BY <2>1, BusyTyped
      <3>2. n \notin claims /\ ~Attempted(n)
        BY <2>1, <3>1 DEF ShapeInv, ClaimsApart
      <3>3. ~(s.claim /\ s.note = n)
        BY <1>1, <2>1, <3>1 DEF ShapeInv, ClaimsApart
      <3>4. n \notin claims'
        BY <1>1, <3>2, <3>3 DEF Written
      <3>5. \A j \in DOMAIN s.rows[n] : s.rows[n][j].status = "suppressed"
        <4>1. CASE p \in Instances
          <5>1. s.rows[n] = <<>>
            BY <1>2, <3>2, <4>1 DEF SweepShape, Sweeps
          <5> QED
            BY <5>1
        <4>2. CASE p \in Handlers
          <5>1. CASE s.note # n
            <6>1. s.rows[n] = <<>>
              BY <1>2, <4>2, <5>1 DEF HandlerShape
            <6> QED
              BY <6>1
          <5>2. CASE s.note = n
            <6>1. s.report = <<>>
              BY <1>3, <3>2, <5>2 DEF ShapeInv, TracedSent, Attempted
            <6>2. s.mode = "off"
              BY <1>2, <3>3, <4>2, <5>2, <6>1 DEF HandlerShape
            <6> QED
              BY <1>2, <4>2, <6>2 DEF HandlerShape
          <5> QED
            BY <5>1, <5>2
        <4> QED
          BY <4>1, <4>2 DEF Processes
      <3>6. ~(s.report # <<>> /\ s.note = n)
        BY <1>3, <3>2 DEF ShapeInv, TracedSent, Attempted
      <3>7. ~Attempted(n)'
        <4> SUFFICES ASSUME NEW k \in DOMAIN log'[n] PROVE log'[n][k].status = "suppressed"
          BY DEF Attempted
        <4>1. CASE k \in DOMAIN log[n]
          BY <1>4, <3>2, <3>6, <4>1 DEF Attempted, Logged, Reports
        <4>2. CASE k \notin DOMAIN log[n]
          <5>1. PICK j \in DOMAIN s.rows[n] : log'[n][k] = s.rows[n][j]
            BY <1>4, <4>2 DEF Logged
          <5> QED
            BY <3>5, <5>1
        <4> QED
          BY <4>1, <4>2
      <3> QED
        BY <1>6, <2>1, <3>1, <3>4, <3>7 DEF Attempted
    <2>2. \A q \in Processes : sess'[q] # Idle /\ sess'[q].claim =>
             q # p /\ sess[q] # Idle /\ sess[q].claim /\ sess'[q] = sess[q]
      BY <1>6
    <2>3. \A q \in Processes : sess'[q] # Idle /\ sess'[q].claim =>
             /\ sess'[q].note \notin claims' /\ ~Attempted(sess[q].note)'
             /\ sess'[q].note = sess[q].note
      BY <2>1, <2>2
    <2>4. \A q, r \in Processes :
             sess'[q] # Idle /\ sess'[q].claim /\ sess'[r] # Idle /\ sess'[r].claim
             /\ sess'[q].note = sess'[r].note => q = r
      BY <2>2 DEF ShapeInv, ClaimsApart
    <2> QED
      BY <2>3, <2>4 DEF ClaimsApart, Attempted
  <1>10. ShapeInv'
    BY <1>7, <1>8, <1>9 DEF ShapeInv
  <1>11. claims' \subseteq Notes /\ inbox' \in [Notes -> {"none", "unread", "read"}]
    BY <1>1, <1>2 DEF Written, TypeInv
  <1>12. sess' \in [Processes -> {Idle} \cup SessType]
    BY DEF TypeInv
  <1>13. TypeInv'
    <2>1. log' \in [Notes -> Seq(RowType)] /\ \A n \in Notes : aged[n] <= Len(log'[n])
      <3> SUFFICES ASSUME NEW n \in Notes PROVE aged[n] <= Len(log'[n])
        BY <1>4 DEF Logged
      <3>1. /\ aged[n] \in Nat /\ Len(log[n]) \in Nat /\ Len(log'[n]) \in Nat
            /\ aged[n] <= Len(log[n]) /\ Len(log'[n]) >= Len(log[n])
        BY <1>4 DEF TypeInv, Logged
      <3> QED
        BY <3>1
    <2> QED
      BY <1>11, <1>12, <2>1 DEF TypeInv
  <1> QED
    BY <1>10, <1>13

(* Clocks, users and administrators disturb nothing.                          *)
Quiet ==
    \/ \E n \in Notes : MarkRead(n) \/ Age(n)
    \/ MarkAllRead \/ Switch \/ TimePasses \/ UNCHANGED vars

LEMMA QuietShape ==
  ASSUME TypeInv, ShapeInv, LeaseInv, Quiet
  PROVE  TypeInv' /\ ShapeInv' /\ UNCHANGED <<claims, log, sess, out, refused, lost>>
  <1>1. UNCHANGED <<claims, log, sess, out, refused, lost>>
    BY DEF Quiet, MarkRead, Age, MarkAllRead, Switch, TimePasses, vars, noteVars
  <1>2. \A i \in Instances : ran["retry"][i] # NotRunning => ran'["retry"][i] # NotRunning
    <2>1. CASE TimePasses
      BY <2>1, NotesTyped DEF TimePasses, Tick, LeaseInv, LeaseTypeOK, NotRunning
    <2>2. CASE ~TimePasses
      <3>1. UNCHANGED ran
        BY <2>2 DEF Quiet, MarkRead, Age, MarkAllRead, Switch, vars, leaseVars
      <3> QED
        BY <3>1
    <2> QED
      BY <2>1, <2>2
  <1>3. ShapeInv'
    <2>1. LogGrows
      BY <1>1 DEF LogGrows
    <2>2. \A p \in Processes : Shaped(p)'
      BY <1>1, <1>2, <2>1, ShapedStays DEF ShapeInv
    <2>3. ClaimsApart' /\ TracedSent'
      BY <1>1 DEF ShapeInv, ClaimsApart, TracedSent, Attempted
    <2> QED
      BY <2>2, <2>3 DEF ShapeInv
  <1>4. controls' \in Modes
    BY DEF Quiet, TypeInv, Modes, MarkRead, Age, MarkAllRead, Switch, TimePasses, vars, noteVars
  <1>5. inbox' \in [Notes -> {"none", "unread", "read"}]
    <2>1. inbox \in [Notes -> {"none", "unread", "read"}]
      BY DEF TypeInv
    <2>2. ASSUME NEW n \in Notes, MarkRead(n) PROVE inbox' = [inbox EXCEPT ![n] = "read"]
      BY <2>2 DEF Quiet, MarkRead
    <2>3. CASE MarkAllRead
      <3>1. inbox' = [n \in Notes |-> IF inbox[n] = "unread" THEN "read" ELSE inbox[n]]
        BY <2>3 DEF MarkAllRead
      <3> QED
        BY <2>1, <3>1
    <2>4. CASE UNCHANGED inbox
      BY <2>1, <2>4
    <2> QED
      BY <2>1, <2>2, <2>3, <2>4 DEF Quiet, Age, Switch, TimePasses, vars, noteVars
  <1>6. aged' \in [Notes -> Nat] /\ \A n \in Notes : aged'[n] <= Len(log[n])
    <2>1. /\ aged \in [Notes -> Nat] /\ \A n \in Notes : aged[n] <= Len(log[n])
          /\ \A n \in Notes : Len(log[n]) \in Nat
      BY DEF TypeInv
    <2>2. ASSUME NEW n \in Notes, Age(n)
          PROVE  aged' \in [Notes -> Nat] /\ \A m \in Notes : aged'[m] <= Len(log[m])
      <3>1. aged' = [aged EXCEPT ![n] = Len(log[n])]
        BY <2>2 DEF Age
      <3> QED
        BY <2>1, <3>1
    <2> QED
      BY <2>1, <2>2 DEF Quiet, MarkRead, MarkAllRead, Switch, TimePasses, vars, noteVars
  <1>7. TypeInv'
    BY <1>1, <1>4, <1>5, <1>6 DEF TypeInv
  <1> QED
    BY <1>1, <1>3, <1>7

(* The sweeps use the lease of their job as the leases are meant to be used.  *)
LEMMA NextIsLeased == [Next]_vars => [LeaseNext]_leaseVars
  <1> SUFFICES ASSUME [Next]_vars PROVE LeaseNext \/ UNCHANGED leaseVars
    OBVIOUS
  <1>1. "retry" \in Jobs
    BY NotesTyped
  <1>2. ASSUME NEW p \in Handlers, Handle(p) PROVE UNCHANGED leaseVars
    BY <1>2 DEF Handle, Commit, Raise, Report
  <1>3. ASSUME NEW i \in Instances, Sweep(i) PROVE LeaseNext \/ UNCHANGED leaseVars
    BY <1>1, <1>3 DEF Sweep, StartSweep, SweepNext, FinishSweep, LeaseNext
  <1>4. ASSUME NEW p \in Processes, Try(p) \/ RollBack(p) PROVE LeaseNext \/ UNCHANGED leaseVars
    BY <1>4 DEF Try, RollBack, LeaseNext
  <1>5. CASE \/ \E n \in Notes : MarkRead(n) \/ Age(n)
             \/ MarkAllRead \/ Switch
    BY <1>5 DEF MarkRead, Age, MarkAllRead, Switch
  <1>6. CASE TimePasses
    BY <1>6 DEF TimePasses, LeaseNext
  <1>7. CASE UNCHANGED vars
    BY <1>7 DEF vars
  <1> QED
    BY <1>2, <1>3, <1>4, <1>5, <1>6, <1>7 DEF Next

LEMMA TryBusy == \A p \in Processes : Try(p) => sess[p] # Idle
  BY DEF Try, Idle

LEMMA SweepBusy == \A i \in Instances : SweepNext(i) \/ FinishSweep(i) => sess[i] # Idle
  BY DEF SweepNext, FinishSweep, Idle

LEMMA CommitBusy == \A p \in Processes : Commit(p) => sess[p] # Idle
  BY DEF Commit, Idle

NoteInv == TypeInv /\ ShapeInv /\ LeaseInv

LEMMA NoteInit == Init => NoteInv
  <1> SUFFICES ASSUME Init PROVE NoteInv
    OBVIOUS
  <1>1. LeaseInv
    BY InvInit DEF Init
  <1>2. \A p \in Processes : sess[p] = Idle
    BY DEF Init
  <1>3. log = [n \in Notes |-> <<>>] /\ \A n \in Notes : log[n] = <<>>
    BY DEF Init
  <1>4. \A n \in Notes : DOMAIN log[n] = {} /\ Len(log[n]) = 0
    BY <1>3
  <1>5. ShapeInv
    BY <1>2, <1>4 DEF ShapeInv, Shaped, ClaimsApart, TracedSent
  <1>6. TypeInv
    <2>1. log \in [Notes -> Seq(RowType)]
      BY <1>3
    <2>2. out \in [Notes -> [sent : Nat, marked : BOOLEAN]]
      BY DEF Init
    <2> QED
      BY <1>4, <2>1, <2>2 DEF Init, TypeInv, Modes
  <1> QED
    BY <1>1, <1>5, <1>6 DEF NoteInv

LEMMA NoteNext == NoteInv /\ [Next]_vars => NoteInv'
  <1> SUFFICES ASSUME TypeInv, ShapeInv, LeaseInv, [Next]_vars PROVE NoteInv'
    BY DEF NoteInv
  <1>1. LeaseInv'
    BY NextIsLeased, InvNext
  <1>2. ASSUME NEW p \in Handlers, Commit(p) PROVE TypeInv' /\ ShapeInv'
    <2>1. p \in Processes /\ UNCHANGED ran
      BY <1>2 DEF Processes, Commit, leaseVars
    <2> QED
      BY <1>2, <2>1, CommitBusy, WrittenShape DEF Commit
  <1>3. ASSUME NEW i \in Instances, FinishSweep(i) PROVE TypeInv' /\ ShapeInv'
    <2>1. i \in Processes /\ \A k \in Instances \ {i} : ran'["retry"][k] = ran["retry"][k]
      BY <1>3, NotesTyped DEF Processes, FinishSweep, Finish, LeaseInv, LeaseTypeOK
    <2> QED
      BY <1>3, <2>1, SweepBusy, WrittenShape DEF FinishSweep
  <1>4. ASSUME NEW p \in Handlers, Handle(p) PROVE TypeInv' /\ ShapeInv'
    BY <1>2, <1>4, RaiseShape, ReportShape DEF Handle
  <1>5. ASSUME NEW i \in Instances, Sweep(i) PROVE TypeInv' /\ ShapeInv'
    BY <1>3, <1>5, SweepBusy, StartSweepShape, SweepNextShape DEF Sweep
  <1>6. ASSUME NEW p \in Processes, Try(p) \/ RollBack(p) PROVE TypeInv' /\ ShapeInv'
    BY <1>6, TryBusy, TryShape, RollBackShape
  <1>7. CASE Quiet
    BY <1>1, <1>7, QuietShape DEF NoteInv
  <1> QED
    BY <1>1, <1>4, <1>5, <1>6, <1>7 DEF Next, NoteInv, Quiet

(* The claims, the log, the pop-ups and every session keep their types and    *)
(* fit together: what a handler is about to report or record was sent, and a  *)
(* sweep's rows are those of the log. The theorems below rest on it.          *)
THEOREM NoteInvariance == Spec => []NoteInv
  BY NoteInit, NoteNext, PTL DEF Spec

(* The sweeps of a day's failures are exclusive: an instance at a time, over  *)
(* its whole session, whatever instances go down (claim_scheduler_job).       *)
THEOREM SweepsExclusive == Spec => ImplementsExclusiveJob
  <1>1. Init => LeaseInit
    BY DEF Init
  <1>2. Spec => LeaseSpec
    BY <1>1, NextIsLeased, PTL DEF Spec, LeaseSpec
  <1> QED
    BY <1>2, LeasesImplement

LEMMA PopUpStep ==
  ASSUME NoteInv, [Next]_vars, NEW n \in claims, inbox[n] = "read", inbox'[n] = "unread"
  PROVE  \E p \in Handlers : sess[p] # Idle /\ sess[p].mode = "off"
  <1> USE DEF NoteInv
  <1>1. n \in Notes /\ inbox \in [Notes -> {"none", "unread", "read"}]
    BY DEF TypeInv
  <1>2. PICK p \in Processes : sess[p] # Idle /\ Written(p) /\ (p \in Handlers \/ FinishSweep(p))
    <2>1. inbox' # inbox
      OBVIOUS
    <2>2. \A m \in Notes : ~MarkRead(m)
      BY <1>1 DEF MarkRead
    <2>3. ~MarkAllRead
      BY <1>1 DEF MarkAllRead
    <2>4. ASSUME NEW p \in Handlers, Handle(p) PROVE Commit(p)
      BY <2>1, <2>4 DEF Handle, Raise, Report
    <2>5. ASSUME NEW i \in Instances, Sweep(i) PROVE FinishSweep(i)
      BY <2>1, <2>5 DEF Sweep, StartSweep, SweepNext
    <2>6. \A p \in Processes : ~Try(p) /\ ~RollBack(p)
      BY <2>1 DEF Try, RollBack
    <2>7. ~ \E m \in Notes : Age(m)
      BY <2>1 DEF Age
    <2>8. ~Switch /\ ~TimePasses /\ ~UNCHANGED vars
      BY <2>1 DEF Switch, TimePasses, vars, noteVars
    <2>9. (\E p \in Handlers : Commit(p)) \/ \E i \in Instances : FinishSweep(i)
      BY <2>2, <2>3, <2>4, <2>5, <2>6, <2>7, <2>8 DEF Next
    <2> QED
      BY <2>9, CommitBusy, SweepBusy DEF Commit, FinishSweep, Processes
  <1>3. PICK s : s = sess[p]
    OBVIOUS
  <1>4. s.popUp /\ s.note = n
    BY <1>1, <1>2, <1>3 DEF Written
  <1>5. /\ p \in Handlers => HandlerShape(s)
        /\ p \in Instances => SweepShape(s)
        /\ ClaimsAlone(p, s)
    BY <1>2, <1>3, BusyShape
  <1>6. p \in Handlers /\ p \notin Instances
    BY <1>4, <1>5 DEF SweepShape, Processes
  <1>7. s.mode = "off"
    BY <1>4, <1>5, <1>6 DEF HandlerShape, ClaimsAlone
  <1> QED
    BY <1>2, <1>3, <1>6, <1>7

(* Once a note is claimed, a pop-up that was read comes back only through a   *)
(* caller that raises the note with the notifications off; no retry and no    *)
(* other claimer brings it back (retry_failed_notifications).                 *)
THEOREM PopUpsReadOnce == Spec => ReadOnce
  <1>1. NoteInv /\ [Next]_vars =>
          [\A n \in claims : inbox[n] = "read" /\ inbox'[n] = "unread" =>
             \E p \in Handlers : sess[p] # Idle /\ sess[p].mode = "off"]_vars
    BY PopUpStep
  <1> QED
    BY <1>1, NoteInvariance, PTL DEF Spec, ReadOnce

----------------------------------------------------------------------------
(* Tests stay tests                                                          *)

RefusalsGrow == \A n \in Notes : refused[n] > 0 => refused'[n] > 0

LEMMA SessMarksStay ==
  ASSUME TypeInv, RefusalsGrow, NEW s \in SessType, SessMarks(s)
  PROVE  SessMarks(s)'
  <1>1. s.note \in Notes /\ \A x \in s.todo : x.note \in Notes
    BY DEF SessType
  <1> QED
    BY <1>1 DEF SessMarks, RefusalsGrow

(* A step of one process that leaves the log as it is.                        *)
LEMMA MarksStep ==
  ASSUME TypeInv, MarksInv, RefusalsGrow, NEW p \in Processes, NEW t \in {Idle} \cup SessType,
         sess' = [sess EXCEPT ![p] = t], t # Idle => SessMarks(t)', UNCHANGED log,
         \A n \in Notes : out'[n].marked => out[n].marked \/ refused[n] > 0
  PROVE  MarksInv'
  <1>1. sess'[p] = t /\ \A q \in Processes \ {p} : sess'[q] = sess[q]
    BY DEF TypeInv
  <1>2. \A n \in Notes : out'[n].marked => refused'[n] > 0
    BY DEF MarksInv, RefusalsGrow
  <1>3. \A n \in Notes : \A k \in DOMAIN log'[n] :
          log'[n][k].marked /\ ~log'[n][k].test => refused'[n] > 0
    BY DEF MarksInv, RefusalsGrow
  <1>4. ASSUME NEW q \in Processes, sess'[q] # Idle PROVE SessMarks(sess[q])'
    <2>1. CASE q = p
      BY <1>1, <1>4, <2>1 DEF SessMarks
    <2>2. CASE q # p
      <3>1. PICK s \in SessType : s = sess[q] /\ s = sess'[q]
        BY <1>1, <1>4, <2>2, BusyTyped
      <3>2. SessMarks(s)
        BY <1>1, <1>4, <2>2, <3>1 DEF MarksInv
      <3>3. SessMarks(s)'
        BY <3>2, SessMarksStay
      <3> QED
        BY <3>1, <3>3 DEF SessMarks
    <2> QED
      BY <2>1, <2>2
  <1> QED
    BY <1>2, <1>3, <1>4 DEF MarksInv

LEMMA TryMarks ==
  ASSUME TypeInv, MarksInv, NEW p \in Processes, sess[p] # Idle, Try(p)
  PROVE  MarksInv'
  <1>1. PICK s : s = sess[p]
    OBVIOUS
  <1>2. PICK row \in RowType : Attempts(p, s, row)
    BY <1>1, TryEffect
  <1>3. /\ s \in SessType /\ s.note \in Notes /\ s.left \in Seq(ChannelType)
        /\ s.rows \in [Notes -> Seq(RowType)] /\ s.mark \in BOOLEAN /\ s.mode \in Modes
        /\ SessMarks(s)
    BY <1>1, BusyTyped DEF SessType, MarksInv
  <1>4. PICK t \in SessType :
           /\ t = Tried(s, row)
           /\ t.rows[s.note] = Append(s.rows[s.note], row)
           /\ \A n \in Notes \ {s.note} : t.rows[n] = s.rows[n]
           /\ t.left = (IF row.status = "sent" THEN <<>> ELSE Tail(s.left))
           /\ t.phase = s.phase /\ t.note = s.note /\ t.mode = s.mode /\ t.claim = s.claim
           /\ t.popUp = s.popUp /\ t.todo = s.todo /\ t.mark = s.mark /\ t.report = s.report
    BY <1>2, <1>3, TriedFields DEF Attempts
  <1>5. UNCHANGED <<log, refused>> /\ RefusalsGrow
    BY DEF Try, RefusalsGrow
  <1>6. s.mark => refused[s.note] > 0
    BY <1>2, <1>3 DEF SessMarks, Attempts
  <1>7. SessMarks(t)'
    <2>1. /\ DOMAIN t.rows[s.note] = DOMAIN s.rows[s.note] \cup {Len(s.rows[s.note]) + 1}
          /\ t.rows[s.note][Len(s.rows[s.note]) + 1] = row
          /\ \A k \in DOMAIN s.rows[s.note] : t.rows[s.note][k] = s.rows[s.note][k]
      BY <1>3, <1>4
    <2>2. row.marked /\ ~row.test => refused[s.note] > 0
      BY <1>2, <1>6 DEF Attempts
    <2>3. \A k \in DOMAIN t.rows[s.note] :
             t.rows[s.note][k].marked /\ ~t.rows[s.note][k].test => refused[s.note] > 0
      BY <1>3, <2>1, <2>2 DEF SessMarks
    <2>4. ASSUME NEW n \in Notes, n # s.note, NEW k \in DOMAIN t.rows[n],
                 t.rows[n][k].marked, ~t.rows[n][k].test
          PROVE  refused[n] > 0
      <3>1. t.rows[n] = s.rows[n]
        BY <1>4, <2>4
      <3> QED
        BY <1>3, <2>4, <3>1 DEF SessMarks
    <2>5. /\ t.mark /\ t.left # <<>> => refused[t.note] > 0
          /\ \A x \in t.todo : x.mark => refused[x.note] > 0
      BY <1>3, <1>4, <1>6 DEF SessMarks
    <2> QED
      BY <1>5, <2>3, <2>4, <2>5 DEF SessMarks
  <1>8. \A n \in Notes : out'[n].marked => out[n].marked \/ refused[n] > 0
    <2>1. out \in [Notes -> [sent : Nat, marked : BOOLEAN]]
      BY DEF TypeInv
    <2> DEFINE more == [out EXCEPT ![s.note].sent = @ + 1, ![s.note].marked = @ \/ s.mark]
    <2>2. \A n \in Notes : more[n].marked => out[n].marked \/ refused[n] > 0
      BY <1>3, <1>6, <2>1
    <2>3. out' \in {out, more}
      <3>1. CASE Suppresses(s) \/ s.mode # "on"
        BY <1>2, <1>3, <3>1 DEF Modes, Suppresses, Attempts
      <3>2. CASE ~Suppresses(s) /\ s.mode = "on"
        BY <1>2, <3>2 DEF Attempts
      <3> QED
        BY <3>1, <3>2
    <2> HIDE DEF more
    <2> QED
      BY <2>2, <2>3
  <1> QED
    BY <1>2, <1>4, <1>5, <1>7, <1>8, MarksStep DEF Attempts

LEMMA RaiseMarks ==
  ASSUME TypeInv, MarksInv, NEW p \in Processes, NEW n \in Notes, Raise(p, n)
  PROVE  MarksInv'
  <1>1. PICK t \in SessType :
              /\ sess' = [sess EXCEPT ![p] = t]
              /\ t.todo = {} /\ ~t.mark /\ \A m \in Notes : t.rows[m] = <<>>
    BY RaiseEffect
  <1>2. UNCHANGED <<log, out, refused>> /\ RefusalsGrow
    BY DEF Raise, RefusalsGrow
  <1>3. SessMarks(t)'
    BY <1>1 DEF SessMarks
  <1> QED
    BY <1>1, <1>2, <1>3, MarksStep

LEMMA ReportMarks ==
  ASSUME TypeInv, MarksInv, NEW p \in Processes, NEW n \in Notes, NEW k \in 1..MaxLog,
         NEW status \in {"sent", "failed"}, Report(p, n, k, status)
  PROVE  MarksInv'
  <1> DEFINE back == FallsBack(n, k, status)
  <1>1. PICK t \in SessType :
              /\ sess' = [sess EXCEPT ![p] = t]
              /\ t.note = n /\ t.todo = {} /\ t.left = (IF back THEN <<"email">> ELSE <<>>)
              /\ \A m \in Notes : t.rows[m] = <<>>
    BY ReportEffect
  <1>2. UNCHANGED <<log, out>> /\ refused' = IF FirstRefusal(n, k, status)
                                             THEN [refused EXCEPT ![n] = @ + 1] ELSE refused
    BY DEF Report
  <1>3. refused \in [Notes -> Nat]
    BY DEF TypeInv
  <1>4. RefusalsGrow
    BY <1>2, <1>3 DEF RefusalsGrow
  <1>5. back => refused'[n] > 0
    BY <1>2, <1>3 DEF FallsBack
  <1> HIDE DEF back
  <1>6. SessMarks(t)'
    BY <1>1, <1>5 DEF SessMarks
  <1> QED
    BY <1>1, <1>2, <1>4, <1>6, MarksStep

LEMMA StartSweepMarks ==
  ASSUME TypeInv, MarksInv, NEW i \in Instances, StartSweep(i)
  PROVE  MarksInv'
  <1>1. PICK t \in SessType :
              /\ sess' = [sess EXCEPT ![i] = t] /\ ~t.mark
              /\ \A x \in t.todo : /\ x.note \in Notes
                                   /\ x = [note |-> x.note, mark |-> MarkedText(x.note)]
              /\ \A m \in Notes : t.rows[m] = <<>>
    BY StartSweepEffect
  <1>2. UNCHANGED <<log, out, refused>> /\ RefusalsGrow
    BY DEF StartSweep, RefusalsGrow
  <1>3. ASSUME NEW n \in Notes, MarkedText(n) PROVE refused[n] > 0
    <2> DEFINE failed == {k \in (aged[n] + 1)..Len(log[n]) :
                            Retryable(log[n][k]) /\ log[n][k].status = "failed"}
    <2>1. failed # {} /\ log[n][Max(failed)].marked
      BY <1>3 DEF MarkedText
    <2>2. failed \subseteq 1..Len(log[n]) /\ Len(log[n]) \in Nat /\ DOMAIN log[n] = 1..Len(log[n])
      BY DEF TypeInv
    <2>3. Max(failed) \in failed
      <3> HIDE DEF failed
      <3> QED
        BY <2>1, <2>2, MaxInside
    <2> DEFINE k == Max(failed)
    <2>4. k \in DOMAIN log[n] /\ ~log[n][k].test
      BY <2>2, <2>3 DEF Retryable
    <2> HIDE DEF k
    <2> QED
      BY <2>1, <2>4 DEF MarksInv, k
  <1>4. \A x \in t.todo : x.mark => refused[x.note] > 0
    BY <1>1, <1>3
  <1>5. SessMarks(t)'
    BY <1>1, <1>2, <1>4 DEF SessMarks
  <1> QED
    BY <1>1, <1>2, <1>5, MarksStep DEF Processes

LEMMA SweepNextMarks ==
  ASSUME TypeInv, MarksInv, NEW i \in Instances, sess[i] # Idle, SweepNext(i)
  PROVE  MarksInv'
  <1>1. PICK s \in SessType : s = sess[i]
    BY BusyTyped DEF Processes
  <1>2. PICK x \in s.todo, t \in SessType :
              /\ sess' = [sess EXCEPT ![i] = t]
              /\ t.note = x.note /\ t.mark = x.mark /\ t.todo = s.todo \ {x} /\ t.rows = s.rows
    BY <1>1, SweepNextEffect
  <1>3. UNCHANGED <<log, out, refused>> /\ RefusalsGrow
    BY DEF SweepNext, RefusalsGrow
  <1>4. SessMarks(s)
    BY <1>1 DEF MarksInv, Processes
  <1>5. SessMarks(t)'
    BY <1>2, <1>3, <1>4 DEF SessMarks
  <1> QED
    BY <1>2, <1>3, <1>5, MarksStep DEF Processes

LEMMA RollBackMarks ==
  ASSUME TypeInv, MarksInv, NEW p \in Processes, RollBack(p)
  PROVE  MarksInv'
  <1>1. sess' = [sess EXCEPT ![p] = Idle] /\ UNCHANGED <<log, out, refused>> /\ RefusalsGrow
    BY DEF RollBack, RefusalsGrow
  <1> QED
    BY <1>1, MarksStep

LEMMA WrittenMarks ==
  ASSUME TypeInv, ShapeInv, MarksInv, NEW p \in Processes, sess[p] # Idle, Written(p),
         sess' = [sess EXCEPT ![p] = Idle], UNCHANGED <<out, refused>>
  PROVE  MarksInv'
  <1>1. PICK s \in SessType : s = sess[p]
    BY BusyTyped
  <1>2. s.report # <<>> => s.report[1] \in DOMAIN log[s.note]
    <2>1. /\ p \in Handlers => HandlerShape(s)
          /\ p \in Instances => SweepShape(s)
      BY <1>1, BusyShape
    <2> QED
      BY <2>1 DEF HandlerShape, SweepShape, Processes
  <1>3. Logged(s)
    BY <1>1, <1>2, WrittenEffect
  <1>4. sess'[p] = Idle /\ \A q \in Processes \ {p} : sess'[q] = sess[q]
    BY DEF TypeInv
  <1>5. SessMarks(s) /\ RefusalsGrow
    BY <1>1 DEF MarksInv, RefusalsGrow
  <1>6. ASSUME NEW n \in Notes, NEW k \in DOMAIN log'[n], log'[n][k].marked, ~log'[n][k].test
        PROVE  refused[n] > 0
    <2>1. CASE k \in DOMAIN log[n]
      BY <1>3, <1>6, <2>1 DEF Logged, MarksInv
    <2>2. CASE k \notin DOMAIN log[n]
      <3>1. PICK j \in DOMAIN s.rows[n] : log'[n][k] = s.rows[n][j]
        BY <1>3, <2>2 DEF Logged
      <3> QED
        BY <1>5, <1>6, <3>1 DEF SessMarks
    <2> QED
      BY <2>1, <2>2
  <1>7. ASSUME NEW q \in Processes, sess'[q] # Idle PROVE SessMarks(sess[q])'
    <2>1. PICK r \in SessType : r = sess[q] /\ r = sess'[q]
      BY <1>4, <1>7, BusyTyped
    <2>2. SessMarks(r)
      BY <1>4, <1>7, <2>1 DEF MarksInv
    <2>3. SessMarks(r)'
      BY <1>5, <2>2, SessMarksStay
    <2> QED
      BY <2>1, <2>3 DEF SessMarks
  <1> QED
    BY <1>6, <1>7 DEF MarksInv

LEMMA MarksInit == Init => MarksInv
  <1> SUFFICES ASSUME Init PROVE MarksInv
    OBVIOUS
  <1>1. \A n \in Notes : log[n] = <<>> /\ ~out[n].marked
    BY DEF Init
  <1>2. \A p \in Processes : sess[p] = Idle
    BY DEF Init
  <1> QED
    BY <1>1, <1>2 DEF MarksInv

LEMMA MarksNext == NoteInv /\ MarksInv /\ [Next]_vars => MarksInv'
  <1> SUFFICES ASSUME TypeInv, ShapeInv, LeaseInv, MarksInv, [Next]_vars PROVE MarksInv'
    BY DEF NoteInv
  <1>1. ASSUME NEW p \in Handlers, Handle(p) PROVE MarksInv'
    <2>1. CASE Commit(p)
      BY <2>1, CommitBusy, WrittenMarks DEF Commit, Processes
    <2> QED
      BY <1>1, <2>1, RaiseMarks, ReportMarks DEF Handle, Processes
  <1>2. ASSUME NEW i \in Instances, Sweep(i) PROVE MarksInv'
    <2>1. CASE FinishSweep(i)
      BY <2>1, SweepBusy, WrittenMarks DEF FinishSweep, Processes
    <2> QED
      BY <1>2, <2>1, SweepBusy, StartSweepMarks, SweepNextMarks DEF Sweep
  <1>3. ASSUME NEW p \in Processes, Try(p) \/ RollBack(p) PROVE MarksInv'
    BY <1>3, TryBusy, TryMarks, RollBackMarks
  <1>4. CASE Quiet
    BY <1>4, QuietShape DEF MarksInv, SessMarks
  <1> QED
    BY <1>1, <1>2, <1>3, <1>4 DEF Next, Quiet

LEMMA MarksInvariance == Spec => []MarksInv
  BY NoteInvariance, MarksInit, MarksNext, PTL DEF Spec

(* A message marked as a test reaches a user only after WhatsApp has reported *)
(* one as failed, whatever modes the administrators switch between and        *)
(* whatever sweeps run (retry_failed_notifications).                          *)
THEOREM TestsAlwaysTests == Spec => []TestsStayTests
  <1>1. MarksInv => TestsStayTests
    BY DEF MarksInv, TestsStayTests
  <1> QED
    BY <1>1, MarksInvariance, PTL

----------------------------------------------------------------------------
(* No note is dropped                                                        *)

EmailsStay == \A n \in Notes : EmailTried(n) => EmailTried(n)'

LEMMA SessDropsStay ==
  ASSUME EmailsStay, NEW s \in SessType, SessDrops(s)
  PROVE  SessDrops(s)'
  <1>1. s.note \in Notes
    BY DEF SessType
  <1>2. WillEmail(s) => WillEmail(s)'
    BY <1>1 DEF WillEmail, EmailsStay
  <1>3. WillAttempt(s) => WillAttempt(s)'
    BY DEF WillAttempt
  <1> QED
    BY <1>2, <1>3 DEF SessDrops, EmailOnly

(* A step of one process that leaves the log as it is.                        *)
LEMMA DropsStep ==
  ASSUME TypeInv, DroppedInv, NEW p \in Processes, NEW t \in {Idle} \cup SessType,
         sess' = [sess EXCEPT ![p] = t], t # Idle => SessDrops(t), UNCHANGED <<log, claims>>
  PROVE  DroppedInv'
  <1>1. sess'[p] = t /\ \A q \in Processes \ {p} : sess'[q] = sess[q]
    BY DEF TypeInv
  <1>2. EmailsStay
    BY DEF EmailsStay, EmailTried
  <1>3. ASSUME NEW q \in Processes, sess'[q] # Idle PROVE SessDrops(sess[q])'
    <2>1. PICK s \in SessType : s = sess'[q] /\ SessDrops(s)
      BY <1>1, <1>3, BusyTyped DEF DroppedInv
    <2>2. SessDrops(s)'
      BY <1>2, <2>1, SessDropsStay
    <2> QED
      BY <2>1, <2>2 DEF SessDrops, WillAttempt, WillEmail
  <1> QED
    BY <1>3 DEF DroppedInv, Attempted, EmailTried

LEMMA TryDrops ==
  ASSUME TypeInv, ShapeInv, DroppedInv, NEW p \in Processes, sess[p] # Idle, Try(p)
  PROVE  DroppedInv'
  <1>1. PICK s : s = sess[p]
    OBVIOUS
  <1>2. PICK row \in RowType : Attempts(p, s, row)
    BY <1>1, TryEffect
  <1>3. /\ s \in SessType /\ s.note \in Notes /\ s.left \in Seq(ChannelType) /\ s.left # <<>>
        /\ s.rows \in [Notes -> Seq(RowType)] /\ s.mode \in Modes /\ SessDrops(s)
    BY <1>1, <1>2, BusyTyped DEF SessType, DroppedInv, Attempts
  <1>4. PICK t \in SessType :
           /\ t = Tried(s, row)
           /\ t.rows[s.note] = Append(s.rows[s.note], row)
           /\ \A n \in Notes \ {s.note} : t.rows[n] = s.rows[n]
           /\ t.left = (IF row.status = "sent" THEN <<>> ELSE Tail(s.left))
           /\ t.phase = s.phase /\ t.note = s.note /\ t.mode = s.mode /\ t.claim = s.claim
           /\ t.popUp = s.popUp /\ t.todo = s.todo /\ t.mark = s.mark /\ t.report = s.report
    BY <1>3, TriedFields
  <1>5. sess' = [sess EXCEPT ![p] = t] /\ UNCHANGED <<log, claims>>
    BY <1>2, <1>4 DEF Attempts, Try
  <1>6. /\ DOMAIN t.rows[s.note] = DOMAIN s.rows[s.note] \cup {Len(s.rows[s.note]) + 1}
        /\ t.rows[s.note][Len(s.rows[s.note]) + 1] = row
        /\ \A k \in DOMAIN s.rows[s.note] : t.rows[s.note][k] = s.rows[s.note][k]
    BY <1>3, <1>4
  <1>7. s.claim => s.mode # "off"
    <2>1. /\ p \in Handlers => HandlerShape(s)
          /\ p \in Instances => SweepShape(s)
      BY <1>1, BusyShape
    <2> QED
      BY <2>1 DEF HandlerShape, SweepShape, Processes
  <1>8. s.claim /\ WillAttempt(s) => WillAttempt(t)
    <2> SUFFICES ASSUME s.claim, WillAttempt(s) PROVE WillAttempt(t)
      OBVIOUS
    <2>1. CASE \E k \in DOMAIN s.rows[s.note] : s.rows[s.note][k].status # "suppressed"
      BY <1>4, <1>6, <2>1 DEF WillAttempt
    <2>2. CASE row.status # "suppressed"
      BY <1>4, <1>6, <2>2 DEF WillAttempt
    <2>3. CASE /\ row.status = "suppressed"
               /\ \E j \in DOMAIN s.left : s.mode = "on" \/ s.left[j] = "whatsapp"
      <3>1. s.mode = "test" /\ Head(s.left) # "whatsapp"
        BY <1>2, <1>7, <2>3 DEF Attempts, Suppresses
      <3>2. PICK j \in DOMAIN s.left : s.left[j] = "whatsapp"
        BY <2>3, <3>1
      <3>3. j # 1 /\ j \in 1..Len(s.left) /\ Len(s.left) \in Nat
        BY <1>3, <3>1, <3>2
      <3>4. t.left = Tail(s.left)
        BY <1>4, <2>3
      <3>5. Len(Tail(s.left)) = Len(s.left) - 1 /\ j - 1 \in 1..Len(Tail(s.left))
        BY <1>3, <3>3
      <3>6. Tail(s.left)[j - 1] = s.left[j] /\ j - 1 \in DOMAIN Tail(s.left)
        BY <1>3, <3>3, <3>5
      <3> QED
        BY <3>2, <3>4, <3>6 DEF WillAttempt
    <2> QED
      BY <2>1, <2>2, <2>3 DEF WillAttempt
  <1>9. WillEmail(s) => WillEmail(t)
    <2>1. s.left = <<"email">> => row.channel = "email"
      BY <1>2 DEF Attempts
    <2> QED
      BY <1>4, <1>6, <2>1 DEF WillEmail
  <1>10. SessDrops(t)
    BY <1>3, <1>4, <1>8, <1>9 DEF SessDrops
  <1> QED
    BY <1>4, <1>5, <1>10, DropsStep

LEMMA RaiseDrops ==
  ASSUME TypeInv, DroppedInv, NEW p \in Processes, NEW n \in Notes, Raise(p, n)
  PROVE  DroppedInv'
  <1>1. PICK t \in SessType :
              /\ sess' = [sess EXCEPT ![p] = t]
              /\ t.note = n /\ t.mode = controls /\ t.left = Resolved(n, controls)
              /\ t.claim = (controls # "off") /\ t.report = <<>>
    BY RaiseEffect
  <1>2. UNCHANGED <<log, claims>>
    BY DEF Raise
  <1>3. ASSUME t.claim, ~EmailOnly(n) PROVE WillAttempt(t)
    <2>1. controls \in {"on", "test"}
      BY <1>1, <1>3 DEF TypeInv, Modes
    <2>2. /\ Channels[n] \in Seq(ChannelType) /\ Channels[n] # <<>>
          /\ DOMAIN Resolved(n, controls) = DOMAIN Channels[n]
          /\ \A k \in DOMAIN Channels[n] :
                 Resolved(n, controls)[k] = (IF controls = "test" /\ Channels[n][k] # "email"
                                         THEN "whatsapp" ELSE Channels[n][k])
      BY <2>1, ResolvedTyped, NotesTyped DEF ChannelType, Modes
    <2>3. \E k \in DOMAIN Channels[n] : Channels[n][k] # "email"
      <3> SUFFICES ASSUME \A k \in DOMAIN Channels[n] : Channels[n][k] = "email" PROVE FALSE
        OBVIOUS
      <3>1. 1 \in DOMAIN Channels[n]
        BY <2>2
      <3>2. ToSet(Channels[n]) = {"email"}
        BY <3>1 DEF ToSet
      <3> QED
        BY <1>3, <3>2 DEF EmailOnly
    <2>4. \E k \in DOMAIN t.left : controls = "on" \/ t.left[k] = "whatsapp"
      BY <1>1, <2>1, <2>2, <2>3
    <2> QED
      BY <1>1, <2>4 DEF WillAttempt
  <1>4. SessDrops(t)
    BY <1>1, <1>3 DEF SessDrops
  <1> QED
    BY <1>1, <1>2, <1>4, DropsStep

LEMMA ReportDrops ==
  ASSUME TypeInv, DroppedInv, NEW p \in Processes, NEW n \in Notes, NEW k \in 1..MaxLog,
         NEW status \in {"sent", "failed"}, Report(p, n, k, status)
  PROVE  DroppedInv'
  <1> DEFINE back == FallsBack(n, k, status)
  <1>1. PICK t \in SessType :
              /\ sess' = [sess EXCEPT ![p] = t]
              /\ t.note = n /\ ~t.claim /\ t.report[2] = status
              /\ t.left = (IF back THEN <<"email">> ELSE <<>>)
    BY ReportEffect
  <1>2. UNCHANGED <<log, claims>> /\ k \in DOMAIN log[n] /\ log[n][k].traced
    BY DEF Report
  <1>3. ASSUME status = "failed", "email" \in ToSet(Channels[n]), ~EmailTried(n) PROVE back
    <2>1. log[n][k].status # "failed"
      BY <1>2, <1>3 DEF DroppedInv
    <2>2. ~EmailAccepted(n)
      BY <1>3 DEF EmailAccepted, EmailTried, Rows, ToSet
    <2> QED
      BY <1>3, <2>1, <2>2 DEF FallsBack, FirstRefusal
  <1> HIDE DEF back
  <1>4. SessDrops(t)
    BY <1>1, <1>3 DEF SessDrops, WillEmail
  <1> QED
    BY <1>1, <1>2, <1>4, DropsStep

LEMMA StartSweepDrops ==
  ASSUME TypeInv, DroppedInv, NEW i \in Instances, StartSweep(i)
  PROVE  DroppedInv'
  <1>1. PICK t \in SessType : sess' = [sess EXCEPT ![i] = t] /\ ~t.claim /\ t.report = <<>>
    BY StartSweepEffect
  <1>2. UNCHANGED <<log, claims>> /\ SessDrops(t)
    BY <1>1 DEF StartSweep, SessDrops
  <1> QED
    BY <1>1, <1>2, DropsStep DEF Processes

LEMMA SweepNextDrops ==
  ASSUME TypeInv, ShapeInv, DroppedInv, NEW i \in Instances, sess[i] # Idle, SweepNext(i)
  PROVE  DroppedInv'
  <1>1. PICK s : s = sess[i]
    OBVIOUS
  <1>2. PICK t \in SessType :
           sess' = [sess EXCEPT ![i] = t] /\ t.claim = s.claim /\ t.report = s.report
    BY <1>1, SweepNextEffect
  <1>3. SweepShape(s)
    BY <1>1, BusyShape DEF Processes
  <1>4. UNCHANGED <<log, claims>> /\ SessDrops(t)
    BY <1>2, <1>3 DEF SweepNext, SessDrops, SweepShape
  <1> QED
    BY <1>2, <1>4, DropsStep DEF Processes

LEMMA RollBackDrops ==
  ASSUME TypeInv, DroppedInv, NEW p \in Processes, RollBack(p)
  PROVE  DroppedInv'
  <1>1. sess' = [sess EXCEPT ![p] = Idle] /\ UNCHANGED <<log, claims>>
    BY DEF RollBack
  <1> QED
    BY <1>1, DropsStep

LEMMA WrittenDrops ==
  ASSUME TypeInv, ShapeInv, DroppedInv, NEW p \in Processes, sess[p] # Idle, Written(p),
         p \in Handlers => sess[p].left = <<>>, sess' = [sess EXCEPT ![p] = Idle]
  PROVE  DroppedInv'
  <1>1. PICK s \in SessType : s = sess[p]
    BY BusyTyped
  <1>2. /\ s.note \in Notes /\ SessDrops(s) /\ TracedRows(s)
        /\ p \in Handlers => HandlerShape(s)
        /\ p \in Instances => SweepShape(s)
    BY <1>1, BusyShape DEF DroppedInv
  <1>3. /\ s.report # <<>> => /\ s.report[1] \in DOMAIN log[s.note] /\ s.report[2] # "suppressed"
        /\ s.claim \/ s.report # <<>> => s.left = <<>>
    <2>1. CASE p \in Handlers
      BY <1>1, <1>2, <2>1 DEF HandlerShape, SessType, ReportType
    <2>2. CASE p \in Instances
      BY <1>2, <2>2 DEF SweepShape
    <2> QED
      BY <2>1, <2>2 DEF Processes
  <1>4. Logged(s)
    BY <1>1, <1>3, WrittenEffect
  <1>5. EmailsStay
    BY <1>4 DEF EmailsStay, EmailTried, Logged
  <1>6. sess'[p] = Idle /\ \A q \in Processes \ {p} : sess'[q] = sess[q]
    BY DEF TypeInv
  <1>7. \A n \in Notes : Attempted(n) => Attempted(n)'
    BY <1>3, <1>4 DEF Attempted, Logged, Reports
  <1>8. ASSUME NEW n \in claims', ~EmailOnly(n) PROVE Attempted(n)'
    <2>1. CASE n \in claims
      BY <1>7, <1>8, <2>1 DEF DroppedInv, TypeInv
    <2>2. CASE n \notin claims
      <3>1. s.claim /\ n = s.note
        BY <1>1, <1>8, <2>2 DEF Written
      <3>2. PICK j \in DOMAIN s.rows[n] : s.rows[n][j].status # "suppressed"
        <4>1. WillAttempt(s) /\ DOMAIN s.left = {}
          BY <1>2, <1>3, <1>8, <3>1 DEF SessDrops
        <4> QED
          BY <3>1, <4>1 DEF WillAttempt
      <3>3. PICK k \in DOMAIN log'[n] : log'[n][k] = s.rows[n][j]
        BY <1>2, <1>4, <3>1, <3>2 DEF Logged
      <3> QED
        BY <3>2, <3>3 DEF Attempted
    <2> QED
      BY <2>1, <2>2
  <1>9. ASSUME NEW n \in Notes, "email" \in ToSet(Channels[n]),
               NEW k \in DOMAIN log'[n], log'[n][k].traced, log'[n][k].status = "failed"
        PROVE  EmailTried(n)'
    <2>1. CASE k \in DOMAIN log[n] /\ ~Reports(s, n, k)
      <3>1. log[n][k].traced /\ log[n][k].status = "failed"
        BY <1>4, <1>9, <2>1 DEF Logged
      <3>2. EmailTried(n)
        BY <1>9, <2>1, <3>1 DEF DroppedInv
      <3> QED
        BY <1>5, <3>2 DEF EmailsStay
    <2>2. CASE k \in DOMAIN log[n] /\ Reports(s, n, k)
      <3>1. n = s.note /\ s.report # <<>> /\ s.report[2] = "failed"
        BY <1>4, <1>9, <2>2 DEF Logged, Reports
      <3>2. WillEmail(s) /\ s.left # <<"email">>
        <4>1. <<>> # <<"email">>
          OBVIOUS
        <4> QED
          BY <1>2, <1>3, <1>9, <3>1, <4>1 DEF SessDrops
      <3>3. CASE EmailTried(n)
        BY <1>5, <3>3 DEF EmailsStay
      <3>4. CASE ~EmailTried(n)
        <4>1. PICK j \in DOMAIN s.rows[n] : s.rows[n][j].channel = "email"
          BY <3>1, <3>2, <3>4 DEF WillEmail
        <4>2. PICK m \in DOMAIN log'[n] : log'[n][m] = s.rows[n][j]
          BY <1>4, <4>1 DEF Logged
        <4> QED
          BY <4>1, <4>2 DEF EmailTried
      <3> QED
        BY <3>3, <3>4
    <2>3. CASE k \notin DOMAIN log[n]
      <3>1. PICK j \in DOMAIN s.rows[n] : log'[n][k] = s.rows[n][j]
        BY <1>4, <2>3 DEF Logged
      <3> QED
        BY <1>2, <1>9, <3>1 DEF TracedRows
    <2> QED
      BY <2>1, <2>2, <2>3
  <1>10. ASSUME NEW q \in Processes, sess'[q] # Idle PROVE SessDrops(sess[q])'
    <2>1. PICK r \in SessType : r = sess[q] /\ r = sess'[q] /\ SessDrops(r)
      BY <1>6, <1>10, BusyTyped DEF DroppedInv
    <2>2. SessDrops(r)'
      BY <1>5, <2>1, SessDropsStay
    <2> QED
      BY <2>1, <2>2 DEF SessDrops, WillAttempt, WillEmail
  <1> QED
    BY <1>8, <1>9, <1>10 DEF DroppedInv, EmailOnly

LEMMA DropsInit == Init => DroppedInv
  <1> SUFFICES ASSUME Init PROVE DroppedInv
    OBVIOUS
  <1>1. \A n \in Notes : log[n] = <<>>
    BY DEF Init
  <1>2. claims = {} /\ \A p \in Processes : sess[p] = Idle
    BY DEF Init
  <1> QED
    BY <1>1, <1>2 DEF DroppedInv

LEMMA DropsNext == NoteInv /\ DroppedInv /\ [Next]_vars => DroppedInv'
  <1> SUFFICES ASSUME TypeInv, ShapeInv, LeaseInv, DroppedInv, [Next]_vars PROVE DroppedInv'
    BY DEF NoteInv
  <1>1. ASSUME NEW p \in Handlers, Handle(p) PROVE DroppedInv'
    <2>1. CASE Commit(p)
      BY <2>1, CommitBusy, WrittenDrops DEF Commit, Processes
    <2> QED
      BY <1>1, <2>1, RaiseDrops, ReportDrops DEF Handle, Processes
  <1>2. ASSUME NEW i \in Instances, Sweep(i) PROVE DroppedInv'
    <2>1. CASE FinishSweep(i)
      <3>1. i \in Processes /\ i \notin Handlers
        BY NotesTyped DEF Processes
      <3> QED
        BY <2>1, <3>1, SweepBusy, WrittenDrops DEF FinishSweep
    <2> QED
      BY <1>2, <2>1, SweepBusy, StartSweepDrops, SweepNextDrops DEF Sweep
  <1>3. ASSUME NEW p \in Processes, Try(p) \/ RollBack(p) PROVE DroppedInv'
    BY <1>3, TryBusy, TryDrops, RollBackDrops
  <1>4. CASE Quiet
    BY <1>4, QuietShape
       DEF DroppedInv, SessDrops, WillAttempt, WillEmail, EmailTried, Attempted, EmailOnly
  <1> QED
    BY <1>1, <1>2, <1>3, <1>4 DEF Next, Quiet

LEMMA DropsInvariance == Spec => []DroppedInv
  BY NoteInvariance, DropsInit, DropsNext, PTL DEF Spec

(* A claimed note has been attempted, but for one that is only e-mailed; and  *)
(* a failure that WhatsApp reports has been followed by an e-mail where the   *)
(* policy has one (notify, record_twilio_delivery_status).                    *)
THEOREM NotesNeverDropped == Spec => []NothingDropped
  <1>1. TypeInv /\ DroppedInv => NothingDropped
    <2> SUFFICES ASSUME TypeInv, DroppedInv PROVE NothingDropped
      OBVIOUS
    <2>1. \A n \in Notes : \A k \in DOMAIN log[n] : log[n][k] \in Rows(n)
      BY DEF Rows, ToSet
    <2>2. \A n \in Notes : \A x \in Rows(n) : \E k \in DOMAIN log[n] : x = log[n][k]
      BY DEF Rows, ToSet
    <2>3. ASSUME NEW n \in claims, ToSet(Channels[n]) # {"email"}
          PROVE  \E x \in Rows(n) : x.status # "suppressed"
      <3>1. n \in Notes /\ Attempted(n)
        BY <2>3 DEF TypeInv, DroppedInv, EmailOnly
      <3> QED
        BY <2>1, <3>1 DEF Attempted
    <2>4. ASSUME NEW n \in Notes, "email" \in ToSet(Channels[n]),
                 NEW x \in Rows(n), x.traced, x.status = "failed"
          PROVE  \E y \in Rows(n) : y.channel = "email"
      <3>1. EmailTried(n)
        BY <2>2, <2>4 DEF DroppedInv
      <3> QED
        BY <2>1, <3>1 DEF EmailTried
    <2> QED
      BY <2>3, <2>4 DEF NothingDropped
  <1> QED
    BY <1>1, NoteInvariance, DropsInvariance, PTL DEF NoteInv

----------------------------------------------------------------------------
(* Notes reach their users once                                              *)

LEMMA LedgerTyped ==
  ASSUME TypeInv, NEW n \in Notes
  PROVE  Allowance(n) \in Int /\ IsFiniteSet(MayAnswer(n)) /\ Cardinality(MayAnswer(n)) \in Nat
  <1>1. refused[n] \in Nat /\ lost[n] \in Nat /\ out[n].sent \in Nat
    BY DEF TypeInv
  <1>2. IsFiniteSet(MayAnswer(n))
    BY NotesTyped, FS_Subset DEF MayAnswer
  <1> QED
    BY <1>1, <1>2, FS_CardinalityType DEF Allowance

(* How many may still answer, when one process changes what it does.          *)
LEMMA AnswersCounted ==
  ASSUME NEW S, IsFiniteSet(S), NEW T, NEW p
  PROVE  /\ T \subseteq S => Cardinality(T) <= Cardinality(S)
         /\ T \subseteq S \cup {p} => Cardinality(T) <= Cardinality(S) + 1
         /\ p \in S /\ T = S \ {p} => Cardinality(T) = Cardinality(S) - 1
         /\ Cardinality(S) \in Nat
         /\ T \subseteq S \cup {p} => IsFiniteSet(T) /\ Cardinality(T) \in Nat
  <1>1. Cardinality(S) \in Nat
    BY FS_CardinalityType
  <1>2. T \subseteq S => Cardinality(T) <= Cardinality(S)
    BY FS_Subset
  <1>3. p \in S /\ T = S \ {p} => Cardinality(T) = Cardinality(S) - 1
    BY FS_RemoveElement
  <1>4. IsFiniteSet(S \cup {p}) /\ Cardinality(S \cup {p}) <= Cardinality(S) + 1
    BY <1>1, FS_AddElement
  <1>5. Cardinality(S \cup {p}) \in Nat
    BY <1>4, FS_CardinalityType
  <1>6. ASSUME T \subseteq S \cup {p}
        PROVE  IsFiniteSet(T) /\ Cardinality(T) \in Nat /\ Cardinality(T) <= Cardinality(S) + 1
    <2>1. IsFiniteSet(T) /\ Cardinality(T) <= Cardinality(S \cup {p})
      BY <1>4, <1>6, FS_Subset
    <2>2. Cardinality(T) \in Nat
      BY <2>1, FS_CardinalityType
    <2> QED
      BY <1>1, <1>4, <1>5, <2>1, <2>2
  <1> QED
    BY <1>1, <1>2, <1>3, <1>6

(* Nobody but the process can open a note again.                              *)
LEMMA OpenFrame ==
  ASSUME TypeInv, NEW n \in Notes, NEW p \in Processes, NEW t \in {Idle} \cup SessType,
         sess' = [sess EXCEPT ![p] = t], UNCHANGED <<log, aged>>,
         \A k \in DOMAIN log[n] : p \in Handlers /\ log[n][k].traced /\ Refuses(t, n, k)
                                     => RefusedRow(n, k),
         p \in Instances /\ t # Idle /\ Sweeps(t, n) => Open(n)
  PROVE  Open(n)' => Open(n)
  <1>1. sess'[p] = t /\ \A q \in Processes \ {p} : sess'[q] = sess[q]
    BY DEF TypeInv
  <1>2. \A k \in DOMAIN log[n] : RefusedRow(n, k)' => RefusedRow(n, k)
    <2> SUFFICES ASSUME NEW k \in DOMAIN log[n], RefusedRow(n, k)' PROVE RefusedRow(n, k)
      OBVIOUS
    <2>1. CASE log[n][k].status = "failed"
      BY <2>1 DEF RefusedRow
    <2>2. CASE log[n][k].status # "failed"
      <3>1. log[n][k].traced /\ \E q \in Handlers : Refuses(sess[q], n, k)'
        BY <2>2 DEF RefusedRow
      <3>2. PICK q \in Handlers : Refuses(sess'[q], n, k)
        BY <3>1 DEF Refuses, Reports
      <3> QED
        BY <1>1, <3>1, <3>2 DEF RefusedRow, Processes
    <2> QED
      BY <2>1, <2>2
  <1>3. Window(n)' = Window(n)
    BY DEF Window
  <1>4. Retries(n)' => Retries(n)
    <2>1. \A k \in Window(n) : k \in DOMAIN log[n]
      BY DEF Window
    <2> QED
      BY <1>2, <1>3, <2>1 DEF Retries
  <1>5. InSweep(n)' => Open(n)
    <2> SUFFICES ASSUME NEW i \in Instances, sess'[i] # Idle, Sweeps(sess'[i], n) PROVE Open(n)
      BY DEF InSweep, Sweeps, Waits
    <2> QED
      BY <1>1 DEF Open, InSweep, Processes
  <1> QED
    BY <1>4, <1>5 DEF Open, Attempted

(* A step of one process that leaves the log as it is, and either sends       *)
(* nothing or makes up for it.                                                *)
LEMMA LedgerStep ==
  ASSUME TypeInv, TypeInv', NEW n \in Notes, Ledger(n),
         NEW p \in Processes, NEW s, s = sess[p], NEW t \in {Idle} \cup SessType,
         sess' = [sess EXCEPT ![p] = t], UNCHANGED <<log, aged>>,
         \A k \in DOMAIN log[n] : p \in Handlers /\ log[n][k].traced /\ Refuses(t, n, k)
                                     => RefusedRow(n, k),
         p \in Instances /\ t # Idle /\ Sweeps(t, n) => Open(n),
         Allowance(n)' >= Allowance(n),
         p \in Handlers /\ Answers(t, n) =>
            p \in MayAnswer(n) \/ (Allowance(n)' >= Allowance(n) + 1 /\ ~Spends(p, s, n)),
         Spends(p, s, n) =>
            Spends(p, t, n) \/ (Allowance(n)' >= Allowance(n) + 1 /\ t = Idle)
  PROVE  Ledger(n)'
  <1> DEFINE A == Allowance(n)
             B == Allowance(n)'
             S == MayAnswer(n)
             T == MayAnswer(n)'
  <1>1. sess'[p] = t /\ \A q \in Processes \ {p} : sess'[q] = sess[q]
    BY DEF TypeInv
  <1>2. A \in Int /\ B \in Int /\ IsFiniteSet(S)
    <2>1. A \in Int /\ IsFiniteSet(S)
      BY LedgerTyped
    <2>2. B \in Int
      <3>1. refused'[n] \in Nat /\ lost'[n] \in Nat /\ out'[n].sent \in Nat
        BY DEF TypeInv
      <3> QED
        BY <3>1 DEF Allowance
    <2> QED
      BY <2>1, <2>2
  <1>3. T \subseteq S \cup {p} /\ (p \in T => p \in Handlers /\ Answers(t, n))
    BY <1>1 DEF MayAnswer, Answers, HasSent, Processes
  <1>4. T \subseteq S \/ (B >= A + 1 /\ ~Spends(p, s, n) /\ t # Idle)
    BY <1>3 DEF Answers
  <1>9. Open(n)' => Open(n)
    BY OpenFrame
  <1>10. Spent(n) => Spent(n)' \/ (B >= A + 1 /\ t = Idle)
    <2> SUFFICES ASSUME NEW q \in Processes, Spends(q, sess[q], n)
                 PROVE  Spent(n)' \/ (B >= A + 1 /\ t = Idle)
      BY DEF Spent
    <2>1. Spends(q, sess'[q], n) \/ (B >= A + 1 /\ t = Idle)
      BY <1>1
    <2> QED
      BY <2>1 DEF Spent, Spends, HasSent
  <1>11. /\ Cardinality(S) \in Nat /\ Cardinality(T) \in Nat
         /\ T \subseteq S => Cardinality(T) <= Cardinality(S)
         /\ Cardinality(T) <= Cardinality(S) + 1
    BY <1>2, <1>3, AnswersCounted
  <1>12. A >= Cardinality(S) /\ (Open(n) => Spent(n) \/ A >= 1 + Cardinality(S))
    BY DEF Ledger
  <1> DEFINE open == Open(n)
             openAfter == Open(n)'
             spent == Spent(n)
             spentAfter == Spent(n)'
             few == T \subseteq S
             a == Cardinality(S)
             b == Cardinality(T)
  <1>13. /\ B >= A /\ (few \/ (B >= A + 1 /\ t # Idle)) /\ (openAfter => open)
         /\ spent => spentAfter \/ (B >= A + 1 /\ t = Idle)
    BY <1>4, <1>9, <1>10
  <1> HIDE DEF A, B, S, T, open, openAfter, spent, spentAfter, few, a, b
  <1>14. a \in Nat /\ b \in Nat /\ (few => b <= a) /\ b <= a + 1
    BY <1>11 DEF a, b, few
  <1>15. A >= a /\ (open => spent \/ A >= 1 + a)
    BY <1>12 DEF A, S, a, open, spent
  <1>16. B >= b
    BY <1>2, <1>13, <1>14, <1>15
  <1>17. openAfter => spentAfter \/ B >= 1 + b
    BY <1>2, <1>13, <1>14, <1>15
  <1> QED
    BY <1>16, <1>17 DEF Ledger, B, T, b, openAfter, spentAfter

(* A note is sent by one process at a time: by its claimer before it was      *)
(* tried, by the one sweep afterwards.                                        *)
LEMMA SpentByOne ==
  ASSUME NoteInv, NEW n \in Notes, NEW p \in Processes, NEW s, s = sess[p], s # Idle,
         (p \in Instances /\ Sweeps(s, n)) \/ (p \in Handlers /\ s.claim /\ s.note = n), Spent(n)
  PROVE  HasSent(s, n)
  <1> USE DEF NoteInv
  <1>1. PICK q \in Processes : Spends(q, sess[q], n)
    BY DEF Spent
  <1>2. PICK r : r = sess[q]
    OBVIOUS
  <1>3. r # Idle /\ (q \in Instances \/ r.claim) /\ HasSent(r, n) /\ r.rows[n] # <<>>
    BY <1>1, <1>2 DEF Spends, HasSent
  <1>4. /\ q \in Handlers => HandlerShape(r) /\ q \notin Instances
        /\ q \in Instances => SweepShape(r) /\ ran["retry"][q] # NotRunning
        /\ ClaimsAlone(q, r)
    BY <1>2, <1>3, BusyShape, NotesTyped DEF Processes
  <1>5. /\ p \in Handlers => HandlerShape(s) /\ p \notin Instances
        /\ p \in Instances => SweepShape(s) /\ ran["retry"][p] # NotRunning
        /\ ClaimsAlone(p, s)
    BY BusyShape, NotesTyped DEF Processes
  <1>6. CASE p \in Instances
    <2>1. Attempted(n)
      BY <1>5, <1>6, NotesTyped DEF SweepShape, Processes
    <2>2. q \in Instances
      <3> SUFFICES ASSUME q \in Handlers PROVE FALSE
        BY DEF Processes
      <3>1. r.claim /\ r.note = n
        BY <1>3, <1>4 DEF HandlerShape
      <3> QED
        BY <1>4, <2>1, <3>1 DEF ClaimsAlone
    <2>3. p = q
      <3>1. p \in Running("retry") /\ q \in Running("retry") /\ "retry" \in Jobs
        BY <1>4, <1>5, <1>6, <2>2, NotesTyped DEF Running
      <3> QED
        BY <3>1 DEF LeaseInv, RunsAlone
    <2> QED
      BY <1>2, <1>3, <2>3
  <1>7. CASE p \in Handlers
    <2>1. s.claim /\ s.note = n /\ ~Attempted(n)
      BY <1>5, <1>7 DEF ClaimsAlone
    <2>2. q \in Handlers
      <3> SUFFICES ASSUME q \in Instances PROVE FALSE
        BY DEF Processes
      <3> QED
        BY <1>3, <1>4, <2>1 DEF SweepShape, Sweeps
    <2>3. r.claim /\ r.note = n
      BY <1>3, <1>4, <2>2 DEF HandlerShape
    <2>4. p = q
      BY <1>2, <1>3, <2>1, <2>3 DEF ShapeInv, ClaimsApart
    <2> QED
      BY <1>2, <1>3, <2>4
  <1> QED
    BY <1>6, <1>7 DEF Processes

(* An attempt, seen from a note that it does not deliver.                     *)
LEMMA TryLedgerNone ==
  ASSUME NoteInv, NoteInv', NEW n \in Notes, Ledger(n), NEW p \in Processes,
         NEW s \in SessType, s = sess[p], Try(p),
         NEW row \in RowType, Attempts(p, s, row),
         s.note = n => ~(row.status = "sent" /\ ~row.test)
  PROVE  Ledger(n)'
  <1> USE DEF NoteInv
  <1>1. /\ s.note \in Notes /\ s.left # <<>> /\ s.mode \in Modes
        /\ s.rows \in [Notes -> Seq(RowType)] /\ s # Idle
    BY SessTypeBusy DEF SessType, Attempts
  <1>2. PICK t \in SessType :
           /\ t = Tried(s, row)
           /\ t.rows[s.note] = Append(s.rows[s.note], row)
           /\ \A m \in Notes \ {s.note} : t.rows[m] = s.rows[m]
           /\ t.left = (IF row.status = "sent" THEN <<>> ELSE Tail(s.left))
           /\ t.phase = s.phase /\ t.note = s.note /\ t.mode = s.mode /\ t.claim = s.claim
           /\ t.popUp = s.popUp /\ t.todo = s.todo /\ t.mark = s.mark /\ t.report = s.report
    BY SMTT(30), <1>1, TriedFields
  <1>3. /\ sess' = [sess EXCEPT ![p] = t] /\ UNCHANGED <<log, aged, refused>>
        /\ s.phase = "try" /\ t # Idle /\ t \in {Idle} \cup SessType
    BY <1>2, SessTypeBusy DEF Attempts, Try
  <1>4. HasSent(t, n) <=> HasSent(s, n)
    <2>1. CASE s.note # n
      BY <1>2, <2>1 DEF HasSent
    <2>2. CASE s.note = n
      <3>1. /\ DOMAIN t.rows[n] = DOMAIN s.rows[n] \cup {Len(s.rows[n]) + 1}
            /\ t.rows[n][Len(s.rows[n]) + 1] = row
            /\ \A k \in DOMAIN s.rows[n] : t.rows[n][k] = s.rows[n][k]
        BY <1>1, <1>2, <2>2
      <3> QED
        BY <2>2, <3>1 DEF HasSent
    <2> QED
      BY <2>1, <2>2
  <1>5. Allowance(n)' = Allowance(n)
    <2>1. out \in [Notes -> [sent : Nat, marked : BOOLEAN]] /\ lost \in [Notes -> Nat]
      BY DEF TypeInv
    <2>2. CASE UNCHANGED <<out, lost>>
      BY <1>3, <2>2 DEF Allowance
    <2>3. CASE ~UNCHANGED <<out, lost>>
      <3>1. ~Suppresses(s) /\ s.mode = "on" /\ ~row.test
        BY <1>1, <2>3 DEF Attempts, Modes, Suppresses
      <3>2. PICK taken \in BOOLEAN, answered \in BOOLEAN :
               /\ row.status = "sent" <=> taken /\ answered
               /\ out' = IF taken THEN [out EXCEPT ![s.note].sent = @ + 1,
                                                   ![s.note].marked = @ \/ s.mark]
                         ELSE out
               /\ lost' = IF taken /\ ~answered THEN [lost EXCEPT ![s.note] = @ + 1] ELSE lost
        BY <3>1 DEF Attempts
      <3>3. taken
        BY <2>3, <3>2
      <3>4. CASE s.note # n
        <4>1. out'[n] = out[n] /\ lost'[n] = lost[n]
          BY <1>1, <2>1, <3>2, <3>4
        <4> QED
          BY <1>3, <4>1 DEF Allowance
      <3>5. CASE s.note = n
        <4>1. ~answered
          BY <3>1, <3>2, <3>3, <3>5
        <4>2. out'[n].sent = out[n].sent + 1 /\ lost'[n] = lost[n] + 1
          BY <1>1, <2>1, <3>2, <3>3, <3>5, <4>1
        <4>3. out[n].sent \in Nat /\ lost[n] \in Nat /\ refused[n] \in Nat
          BY DEF TypeInv
        <4> QED
          BY <1>3, <4>2, <4>3 DEF Allowance
      <3> QED
        BY <3>4, <3>5
    <2> QED
      BY <2>2, <2>3
  <1>6. \A k \in DOMAIN log[n] : p \in Handlers /\ log[n][k].traced /\ Refuses(t, n, k)
                                    => RefusedRow(n, k)
    BY <1>1, <1>2 DEF RefusedRow, Refuses, Reports
  <1>7. p \in Instances /\ Sweeps(t, n) => Open(n)
    <2>1. Sweeps(t, n) => Sweeps(s, n)
      BY <1>2, <1>3 DEF Sweeps, Waits
    <2> QED
      BY <1>1, <2>1 DEF Open, InSweep
  <1>8. p \in Handlers /\ Answers(t, n) => p \in MayAnswer(n)
    BY <1>1, <1>2, <1>4 DEF Answers, MayAnswer
  <1>9. Spends(p, s, n) => Spends(p, t, n)
    BY <1>2, <1>3, <1>4 DEF Spends
  <1>10. Allowance(n)' >= Allowance(n)
    <2>1. Allowance(n) \in Int
      BY LedgerTyped
    <2> QED
      BY <1>5, <2>1
  <1> QED
    BY <1>3, <1>6, <1>7, <1>8, <1>9, <1>10, LedgerStep

(* An attempt that delivers the note takes it from what is allowed.           *)
LEMMA TryLedgerSent ==
  ASSUME NoteInv, NoteInv', NEW n \in Notes, Ledger(n), NEW p \in Processes,
         NEW s \in SessType, s = sess[p], Try(p),
         NEW row \in RowType, Attempts(p, s, row),
         s.note = n, row.status = "sent", ~row.test
  PROVE  Ledger(n)'
  <1> USE DEF NoteInv
  <1>1. /\ s.left # <<>> /\ s.mode \in Modes /\ s.rows \in [Notes -> Seq(RowType)] /\ s # Idle
    BY SessTypeBusy DEF SessType, Attempts
  <1>2. PICK t \in SessType :
           /\ t = Tried(s, row)
           /\ t.rows[s.note] = Append(s.rows[s.note], row)
           /\ \A m \in Notes \ {s.note} : t.rows[m] = s.rows[m]
           /\ t.left = (IF row.status = "sent" THEN <<>> ELSE Tail(s.left))
           /\ t.phase = s.phase /\ t.note = s.note /\ t.mode = s.mode /\ t.claim = s.claim
           /\ t.popUp = s.popUp /\ t.todo = s.todo /\ t.mark = s.mark /\ t.report = s.report
    BY <1>1, TriedFields
  <1>3. /\ sess' = [sess EXCEPT ![p] = t] /\ UNCHANGED <<log, aged, refused>>
        /\ s.phase = "try" /\ t # Idle /\ t \in {Idle} \cup SessType
    BY <1>2, SessTypeBusy DEF Attempts, Try
  <1>4. sess'[p] = t /\ \A q \in Processes \ {p} : sess'[q] = sess[q]
    BY <1>3 DEF TypeInv
  <1>5. HasSent(t, n)
    <2>1. t.rows[n][Len(s.rows[n]) + 1] = row /\ Len(s.rows[n]) + 1 \in DOMAIN t.rows[n]
      BY <1>1, <1>2
    <2> QED
      BY <2>1 DEF HasSent
  <1>6. /\ p \in Handlers => HandlerShape(s) /\ p \notin Instances
        /\ p \in Instances => SweepShape(s)
        /\ ~HasSent(s, n) /\ ClaimsAlone(p, s)
    BY <1>1, BusyShape, NotesTyped DEF SentStops, Processes
  <1>7. s.mode = "on" /\ ~Suppresses(s)
    BY <1>1 DEF Attempts, Modes, Suppresses
  <1>8. Allowance(n)' = Allowance(n) - 1
    <2>1. out \in [Notes -> [sent : Nat, marked : BOOLEAN]]
          /\ lost \in [Notes -> Nat] /\ refused \in [Notes -> Nat]
      BY DEF TypeInv
    <2>2. lost' = lost /\ out' = [out EXCEPT ![n].sent = @ + 1, ![n].marked = @ \/ s.mark]
      BY <1>7 DEF Attempts
    <2>3. out'[n].sent = out[n].sent + 1
      BY <2>1, <2>2
    <2>4. out[n].sent \in Nat /\ lost[n] \in Nat /\ refused[n] \in Nat
      BY <2>1
    <2> QED
      BY <1>3, <2>2, <2>3, <2>4 DEF Allowance
  <1>9. Open(n)' => Open(n)
    <2>1. \A k \in DOMAIN log[n] : p \in Handlers /\ log[n][k].traced /\ Refuses(t, n, k)
                                    => RefusedRow(n, k)
      BY <1>1, <1>2 DEF RefusedRow, Refuses, Reports
    <2>2. p \in Instances /\ Sweeps(t, n) => Open(n)
      <3>1. Sweeps(s, n)
        BY <1>3 DEF Sweeps
      <3> QED
        BY <1>1, <3>1 DEF Open, InSweep
    <2> QED
      BY <1>3, <2>1, <2>2, OpenFrame
  <1>10. MayAnswer(n)' = MayAnswer(n) \ {p}
    BY <1>4, <1>5 DEF MayAnswer, Answers, HasSent, Processes
  <1> DEFINE a == Cardinality(MayAnswer(n))
             b == Cardinality(MayAnswer(n)')
             A == Allowance(n)
             B == Allowance(n)'
  <1>11. A \in Int /\ a \in Nat /\ b \in Nat /\ b <= a /\ (p \in MayAnswer(n) => b = a - 1)
    <2>1. A \in Int /\ IsFiniteSet(MayAnswer(n))
      BY LedgerTyped
    <2> DEFINE S == MayAnswer(n)
               T == MayAnswer(n)'
    <2>2. T = S \ {p} /\ T \subseteq S /\ T \subseteq S \cup {p} /\ IsFiniteSet(S)
      BY <1>10, <2>1
    <2> HIDE DEF S, T
    <2>3. /\ Cardinality(T) <= Cardinality(S) /\ Cardinality(S) \in Nat /\ Cardinality(T) \in Nat
          /\ p \in S => Cardinality(T) = Cardinality(S) - 1
      BY <2>2, AnswersCounted
    <2> QED
      BY <2>1, <2>3 DEF S, T
  <1>12. A >= a /\ (Open(n) => Spent(n) \/ A >= 1 + a)
    BY DEF Ledger
  <1>13. CASE p \in Handlers /\ s.report # <<>>
    <2>1. p \in MayAnswer(n) /\ ~s.claim
      <3>1. s.report[3] /\ ~s.claim
        BY <1>1, <1>6, <1>13 DEF HandlerShape
      <3> QED
        BY <1>1, <1>6, <1>13, <3>1 DEF MayAnswer, Answers
    <2>2. Spent(n) => Spent(n)'
      <3> SUFFICES ASSUME NEW q \in Processes, Spends(q, sess[q], n) PROVE Spent(n)'
        BY DEF Spent
      <3>1. q # p
        BY <1>6, <1>13, <2>1 DEF Spends
      <3>2. sess'[q] = sess[q]
        BY <1>4, <3>1
      <3> QED
        BY <3>2 DEF Spent, Spends, HasSent
    <2>3. Open(n)' => Spent(n)' \/ A >= 1 + a
      BY <1>9, <1>12, <2>2
    <2> HIDE DEF a, b, A, B
    <2>4. B >= b /\ (A >= 1 + a => B >= 1 + b)
      BY <1>8, <1>11, <1>12, <2>1 DEF A, B
    <2> QED
      BY <2>3, <2>4 DEF Ledger, B, b
  <1>14. CASE ~(p \in Handlers /\ s.report # <<>>)
    <2>1. (p \in Instances /\ Sweeps(s, n)) \/ (p \in Handlers /\ s.claim)
      <3>1. CASE p \in Handlers
        BY <1>6, <1>7, <1>14, <3>1 DEF HandlerShape
      <3>2. CASE p \in Instances
        BY <1>3, <3>2 DEF Sweeps
      <3> QED
        BY <3>1, <3>2 DEF Processes
    <2>2. ~Spent(n)
      BY <1>1, <1>6, <2>1, SpentByOne
    <2>3. Open(n)
      BY <1>1, <1>6, <2>1 DEF Open, InSweep, ClaimsAlone
    <2>4. Spent(n)'
      <3>1. Spends(p, sess'[p], n)
        BY <1>2, <1>3, <1>4, <1>5, <2>1 DEF Spends
      <3> QED
        BY <3>1 DEF Spent, Spends, HasSent
    <2>5. A >= 1 + a
      BY <1>12, <2>2, <2>3
    <2> HIDE DEF a, b, A, B
    <2>6. B >= b
      BY <1>8, <1>11, <2>5 DEF A, B
    <2> QED
      BY <2>4, <2>6 DEF Ledger, B, b
  <1> QED
    BY <1>13, <1>14

(* The steps that deliver nothing.                                            *)
LEMMA AllowanceSame ==
  ASSUME TypeInv, NEW n \in Notes, UNCHANGED <<out, refused, lost>>
  PROVE  Allowance(n)' = Allowance(n) /\ Allowance(n)' >= Allowance(n)
  <1>1. Allowance(n)' = Allowance(n)
    BY DEF Allowance
  <1>2. Allowance(n) \in Int
    BY LedgerTyped
  <1> QED
    BY <1>1, <1>2

LEMMA RaiseLedger ==
  ASSUME NoteInv, NoteInv', NEW n \in Notes, Ledger(n), NEW p \in Handlers, NEW m \in Notes,
         Raise(p, m)
  PROVE  Ledger(n)'
  <1> USE DEF NoteInv
  <1>1. PICK t \in SessType :
           /\ sess' = [sess EXCEPT ![p] = t] /\ t.report = <<>>
           /\ \A k \in Notes : t.rows[k] = <<>>
    BY RaiseEffect DEF Processes
  <1>2. UNCHANGED <<log, aged, out, refused, lost>> /\ sess[p] = Idle
    BY DEF Raise
  <1>3. p \in Processes /\ p \notin Instances /\ t \in {Idle} \cup SessType
    BY NotesTyped DEF Processes
  <1>4. ~Answers(t, n) /\ ~Spends(p, sess[p], n) /\ \A k \in DOMAIN log[n] : ~Refuses(t, n, k)
    BY <1>1, <1>2 DEF Answers, Spends, Refuses, Reports
  <1> QED
    BY <1>1, <1>2, <1>3, <1>4, AllowanceSame, LedgerStep

LEMMA StartSweepLedger ==
  ASSUME NoteInv, NoteInv', NEW n \in Notes, Ledger(n), NEW i \in Instances, StartSweep(i)
  PROVE  Ledger(n)'
  <1> USE DEF NoteInv
  <1>1. PICK t \in SessType :
           /\ sess' = [sess EXCEPT ![i] = t] /\ t.phase = "pick" /\ t.report = <<>>
           /\ \A x \in t.todo : NeedsRetry(x.note)
           /\ \A k \in Notes : t.rows[k] = <<>>
    BY StartSweepEffect
  <1>2. UNCHANGED <<log, aged, out, refused, lost>> /\ sess[i] = Idle
    BY DEF StartSweep
  <1>3. i \in Processes /\ i \notin Handlers /\ t \in {Idle} \cup SessType
    BY NotesTyped DEF Processes
  <1>4. Sweeps(t, n) => Open(n)
    <2> SUFFICES ASSUME Sweeps(t, n) PROVE Retries(n)
      BY DEF Open
    <2>1. NeedsRetry(n)
      BY <1>1 DEF Sweeps, Waits
    <2>2. \E k \in Window(n) : log[n][k].status = "failed"
      BY <2>1, RetryAttempted DEF Window
    <2>3. \A k \in Window(n) : log[n][k].status # "sent"
      <3> SUFFICES ASSUME NEW k \in Window(n) PROVE log[n][k].status # "sent"
        OBVIOUS
      <3>1. k \in (aged[n] + 1)..Len(log[n]) /\ ~log[n][k].test
        <4>1. aged[n] \in Nat /\ Len(log[n]) \in Nat /\ DOMAIN log[n] = 1..Len(log[n])
          BY DEF TypeInv
        <4> QED
          BY <4>1 DEF Window
      <3>2. log[n][k] \in InWindow(n)
        BY <3>1 DEF InWindow
      <3> QED
        BY <2>1, <3>1, <3>2 DEF NeedsRetry, Retryable
    <2> QED
      BY <2>2, <2>3 DEF Retries
  <1>5. ~Answers(t, n) /\ ~Spends(i, sess[i], n)
    BY <1>1, <1>2 DEF Answers, Spends
  <1> QED
    BY <1>1, <1>2, <1>3, <1>4, <1>5, AllowanceSame, LedgerStep

LEMMA SweepNextLedger ==
  ASSUME NoteInv, NoteInv', NEW n \in Notes, Ledger(n), NEW i \in Instances, SweepNext(i)
  PROVE  Ledger(n)'
  <1> USE DEF NoteInv
  <1>1. PICK s : s = sess[i]
    OBVIOUS
  <1>2. s # Idle /\ i \in Processes /\ i \notin Handlers
    BY <1>1, SweepBusy, NotesTyped DEF Processes
  <1>3. PICK x \in s.todo, t \in SessType :
           /\ sess' = [sess EXCEPT ![i] = t] /\ t.note = x.note /\ t.todo = s.todo \ {x}
           /\ t.report = s.report /\ t.rows = s.rows
    BY <1>1, <1>2, SweepNextEffect
  <1>4. UNCHANGED <<log, aged, out, refused, lost>>
    BY DEF SweepNext
  <1>5. t # Idle /\ t \in {Idle} \cup SessType
    BY SessTypeBusy
  <1>6. Sweeps(t, n) => Open(n)
    <2>1. Sweeps(t, n) => Sweeps(s, n)
      BY <1>3 DEF Sweeps, Waits
    <2> QED
      BY <1>1, <1>2, <2>1 DEF Open, InSweep
  <1>7. Spends(i, s, n) => Spends(i, t, n)
    BY <1>3, <1>5 DEF Spends, HasSent
  <1> QED
    BY <1>1, <1>2, <1>3, <1>4, <1>5, <1>6, <1>7, AllowanceSame, LedgerStep

(* What is rolled back is lost: it may be sent again.                         *)
LEMMA RollBackLedger ==
  ASSUME NoteInv, NoteInv', NEW n \in Notes, Ledger(n), NEW p \in Processes, RollBack(p)
  PROVE  Ledger(n)'
  <1> USE DEF NoteInv
  <1>1. PICK s \in SessType : s = sess[p]
    BY BusyTyped DEF RollBack
  <1>2. /\ sess' = [sess EXCEPT ![p] = Idle] /\ UNCHANGED <<log, aged, out, refused>>
        /\ lost'[n] = lost[n] + Sent(s, n)
    BY <1>1 DEF RollBack
  <1>3. Allowance(n)' >= Allowance(n) /\ (Spends(p, s, n) => Allowance(n)' >= Allowance(n) + 1)
    <2>1. refused[n] \in Nat /\ lost[n] \in Nat /\ out[n].sent \in Nat
      BY DEF TypeInv
    <2>2. Sent(s, n) \in Nat /\ (Spends(p, s, n) => Sent(s, n) >= 1)
      BY SentCounted DEF Spends
    <2> DEFINE more == Sent(s, n)
    <2>3. Allowance(n)' = 1 + refused[n] + (lost[n] + more) - out[n].sent
      BY <1>2 DEF Allowance
    <2> HIDE DEF more
    <2> QED
      BY <2>1, <2>2, <2>3 DEF Allowance, more
  <1>4. ~Answers(Idle, n) /\ \A k \in DOMAIN log[n] : ~Refuses(Idle, n, k)
    BY DEF Answers, Refuses
  <1>5. Idle \in {Idle} \cup SessType
    OBVIOUS
  <1> QED
    BY <1>1, <1>2, <1>3, <1>4, <1>5, LedgerStep

(* A first refusal allows one more message, and one process to send it.       *)
LEMMA ReportLedger ==
  ASSUME NoteInv, NoteInv', NEW n \in Notes, Ledger(n), NEW p \in Handlers, NEW m \in Notes,
         NEW k \in 1..MaxLog, NEW status \in {"sent", "failed"}, Report(p, m, k, status)
  PROVE  Ledger(n)'
  <1> USE DEF NoteInv
  <1> DEFINE first == FirstRefusal(m, k, status)
  <1>1. PICK t \in SessType :
           /\ sess' = [sess EXCEPT ![p] = t] /\ t.note = m
           /\ t.report # <<>> /\ t.report[1] = k /\ t.report[2] = status
           /\ t.report[3] = first
    BY ReportEffect DEF Processes
  <1>2. /\ UNCHANGED <<log, aged, out, lost>> /\ sess[p] = Idle
        /\ k \in DOMAIN log[m] /\ log[m][k].traced
        /\ refused' = IF first THEN [refused EXCEPT ![m] = @ + 1] ELSE refused
    BY DEF Report
  <1>3. p \in Processes /\ p \notin Instances /\ t \in {Idle} \cup SessType
    BY NotesTyped DEF Processes
  <1>4. \A j \in DOMAIN log[n] : log[n][j].traced /\ Refuses(t, n, j) => RefusedRow(n, j)
    <2> SUFFICES ASSUME NEW j \in DOMAIN log[n], log[n][j].traced, Refuses(t, n, j)
                 PROVE  log[n][j].status = "failed"
      BY DEF RefusedRow
    <2>1. n = m /\ j = k /\ status = "failed" /\ ~first
      BY <1>1 DEF Refuses, Reports
    <2> QED
      BY <2>1 DEF FirstRefusal
  <1>5. refused[n] \in Nat /\ lost[n] \in Nat /\ out[n].sent \in Nat /\ refused \in [Notes -> Nat]
    BY DEF TypeInv
  <1> HIDE DEF first
  <1>6. /\ Allowance(n)' >= Allowance(n)
        /\ n = m /\ first => Allowance(n)' >= Allowance(n) + 1
    <2>1. refused'[n] = IF first /\ n = m THEN refused[n] + 1 ELSE refused[n]
      BY <1>2, <1>5
    <2> QED
      BY <1>2, <1>5, <2>1 DEF Allowance
  <1>7. Answers(t, n) => n = m /\ first
    BY <1>1 DEF Answers
  <1>8. ~Spends(p, sess[p], n)
    BY <1>2 DEF Spends
  <1> QED
    BY <1>1, <1>2, <1>3, <1>4, <1>6, <1>7, <1>8, LedgerStep

(* What is known of a process that commits.                                   *)
LEMMA Committing ==
  ASSUME NoteInv, NEW p \in Processes, NEW s, s = sess[p], s # Idle, Written(p)
  PROVE  /\ s \in SessType /\ s.note \in Notes /\ TracedRows(s) /\ SentStops(s) /\ ClaimsAlone(p, s)
         /\ p \in Handlers => HandlerShape(s) /\ p \notin Instances
         /\ p \in Instances => SweepShape(s) /\ p \notin Handlers
         /\ s.report # <<>> => /\ p \in Handlers /\ s.report[1] \in DOMAIN log[s.note]
                               /\ s.report[2] \in {"sent", "failed"}
         /\ Logged(s)
  <1> USE DEF NoteInv
  <1>1. /\ s \in SessType /\ s.note \in Notes /\ TracedRows(s) /\ SentStops(s) /\ ClaimsAlone(p, s)
        /\ p \in Handlers => HandlerShape(s) /\ p \notin Instances
        /\ p \in Instances => SweepShape(s) /\ p \notin Handlers
    BY BusyShape, NotesTyped DEF Processes
  <1>2. s.report # <<>> => /\ p \in Handlers /\ s.report[1] \in DOMAIN log[s.note]
                           /\ s.report[2] \in {"sent", "failed"}
    <2>1. CASE p \in Handlers
      BY <1>1, <2>1 DEF HandlerShape, SessType, ReportType
    <2>2. CASE p \in Instances
      BY <1>1, <2>2 DEF SweepShape
    <2> QED
      BY <2>1, <2>2 DEF Processes
  <1>3. Logged(s)
    BY <1>2, WrittenEffect
  <1> QED
    BY <1>1, <1>2, <1>3

(* A message that was delivered keeps the sweep away from its note.           *)
LEMMA SentCloses ==
  ASSUME NoteInv, NEW n \in Notes, NEW p \in Processes, NEW s, s = sess[p], s # Idle, Written(p),
         sess' = [sess EXCEPT ![p] = Idle], UNCHANGED aged, HasSent(s, n)
  PROVE  ~Retries(n)' /\ Attempted(n)'
  <1> USE DEF NoteInv
  <1>1. Logged(s)
    BY Committing
  <1>2. PICK j \in DOMAIN s.rows[n] : s.rows[n][j].status = "sent" /\ ~s.rows[n][j].test
    BY DEF HasSent
  <1>3. PICK k \in DOMAIN log'[n] : k > Len(log[n]) /\ log'[n][k] = s.rows[n][j]
    BY <1>1 DEF Logged
  <1>4. /\ DOMAIN log[n] = 1..Len(log[n]) /\ Len(log[n]) \in Nat /\ aged[n] \in Nat
        /\ aged[n] <= Len(log[n]) /\ log'[n] \in Seq(RowType)
    BY <1>1 DEF TypeInv, Logged
  <1>5. k \notin DOMAIN log[n] /\ k > aged[n]
    BY <1>3, <1>4
  <1>6. ~RefusedRow(n, k)'
    <2> SUFFICES ASSUME NEW q \in Handlers, Refuses(sess'[q], n, k) PROVE FALSE
      BY <1>2, <1>3 DEF RefusedRow, Refuses, Reports
    <2>1. q \in Processes /\ q # p /\ sess'[q] = sess[q] /\ sess[q] # Idle
      BY DEF TypeInv, Processes, Refuses
    <2>2. PICK r : r = sess[q]
      OBVIOUS
    <2>3. HandlerShape(r) /\ Reports(r, n, k)
      BY <2>1, <2>2, BusyShape DEF Refuses
    <2>4. k \in DOMAIN log[n]
      BY <2>3 DEF HandlerShape, Reports
    <2> QED
      BY <1>5, <2>4
  <1>7. k \in Window(n)' /\ log'[n][k].status = "sent"
    BY <1>2, <1>3, <1>5 DEF Window
  <1>8. ~Retries(n)'
    BY <1>6, <1>7 DEF Retries
  <1> QED
    BY <1>7, <1>8 DEF Attempted

(* Attempts that were suppressed, and repeated reports, bring it to no note.  *)
LEMMA RetriesBefore ==
  ASSUME NoteInv, NEW n \in Notes, NEW p \in Processes, NEW s, s = sess[p], s # Idle, Written(p),
         sess' = [sess EXCEPT ![p] = Idle], UNCHANGED aged,
         \A j \in DOMAIN s.rows[n] : s.rows[n][j].status = "suppressed",
         s.report # <<>> /\ s.note = n => ~s.report[3]
  PROVE  Retries(n)' => Retries(n)
  <1> USE DEF NoteInv
  <1>1. /\ Logged(s) /\ TracedRows(s)
        /\ s.report # <<>> => p \in Handlers /\ s.report[2] \in {"sent", "failed"}
    BY Committing
  <1>2. \A k \in DOMAIN log[n] : k \in DOMAIN log'[n] /\ log'[n][k].traced = log[n][k].traced
                                 /\ log'[n][k].test = log[n][k].test
    BY <1>1 DEF Logged
  <1>3. \A k \in DOMAIN log'[n] \ DOMAIN log[n] :
           ~log'[n][k].traced /\ log'[n][k].status = "suppressed"
    <2> SUFFICES ASSUME NEW k \in DOMAIN log'[n], k \notin DOMAIN log[n]
                 PROVE  ~log'[n][k].traced /\ log'[n][k].status = "suppressed"
      OBVIOUS
    <2>1. PICK j \in DOMAIN s.rows[n] : log'[n][k] = s.rows[n][j]
      BY <1>1 DEF Logged
    <2> QED
      BY <1>1, <2>1 DEF TracedRows
  <1>4. ASSUME NEW k \in DOMAIN log[n], RefusedRow(n, k)' PROVE RefusedRow(n, k)
    <2>1. log[n][k].traced
      BY <1>2, <1>4 DEF RefusedRow
    <2>2. CASE Reports(s, n, k) /\ log'[n][k].status = "failed"
      <3>1. s.report[2] = "failed" /\ ~s.report[3] /\ p \in Handlers
        BY <1>1, <2>2 DEF Logged, Reports
      <3>2. Refuses(sess[p], n, k)
        BY <2>2, <3>1 DEF Refuses
      <3> QED
        BY <2>1, <3>1, <3>2 DEF RefusedRow
    <2>3. CASE ~Reports(s, n, k) /\ log'[n][k].status = "failed"
      <3>1. log[n][k].status = "failed"
        BY <1>1, <2>3 DEF Logged
      <3> QED
        BY <2>1, <3>1 DEF RefusedRow
    <2>4. CASE log'[n][k].status # "failed"
      <3>1. PICK q \in Handlers : Refuses(sess'[q], n, k)
        BY <1>4, <2>4 DEF RefusedRow, Refuses, Reports
      <3>2. sess'[q] = sess[q]
        BY <3>1 DEF Refuses, TypeInv, Processes
      <3> QED
        BY <2>1, <3>1, <3>2 DEF RefusedRow
    <2> QED
      BY <2>2, <2>3, <2>4
  <1> SUFFICES ASSUME Retries(n)' PROVE Retries(n)
    OBVIOUS
  <1>5. \A k \in DOMAIN log[n] : k \in Window(n)' <=> k \in Window(n)
    BY <1>2 DEF Window
  <1>6. \E k \in Window(n) : log[n][k].status = "failed" \/ RefusedRow(n, k)
    <2>1. PICK k \in Window(n)' : log'[n][k].status = "failed" \/ RefusedRow(n, k)'
      BY DEF Retries
    <2>2. k \in DOMAIN log[n]
      BY <1>3, <2>1 DEF Window, RefusedRow
    <2>3. k \in Window(n)
      BY <1>5, <2>1, <2>2
    <2>4. CASE RefusedRow(n, k)'
      BY <1>4, <2>2, <2>3, <2>4
    <2>5. CASE log'[n][k].status = "failed" /\ ~Reports(s, n, k)
      BY <1>1, <2>2, <2>3, <2>5 DEF Logged
    <2>6. CASE log'[n][k].status = "failed" /\ Reports(s, n, k)
      <3>1. s.report[1] \in DOMAIN log[s.note] /\ log[s.note][s.report[1]].traced
        BY <1>1, <2>6, BusyShape DEF HandlerShape, Reports
      <3>2. RefusedRow(n, k)'
        BY <1>2, <2>2, <2>6, <3>1 DEF RefusedRow, Reports
      <3> QED
        BY <1>4, <2>2, <2>3, <3>2
    <2> QED
      BY <2>1, <2>4, <2>5, <2>6
  <1>7. ASSUME NEW k \in Window(n), log[n][k].status = "sent" PROVE RefusedRow(n, k)
    <2>1. k \in DOMAIN log[n] /\ k \in Window(n)'
      BY <1>5 DEF Window
    <2>2. CASE log'[n][k].status = "sent"
      <3>1. RefusedRow(n, k)'
        BY <2>1, <2>2 DEF Retries
      <3> QED
        BY <1>4, <2>1, <3>1
    <2>3. CASE log'[n][k].status # "sent"
      <3>1. Reports(s, n, k) /\ s.report[2] = "failed"
        BY <1>1, <1>7, <2>1, <2>3 DEF Logged, Reports
      <3>2. s.report[1] \in DOMAIN log[s.note] /\ log[s.note][s.report[1]].traced
        BY <1>1, <3>1, BusyShape DEF HandlerShape, Reports
      <3>3. Refuses(sess[p], n, k) /\ p \in Handlers
        BY <1>1, <3>1 DEF Refuses, Reports
      <3> QED
        BY <3>1, <3>2, <3>3 DEF RefusedRow, Reports
    <2> QED
      BY <2>2, <2>3
  <1> QED
    BY <1>6, <1>7 DEF Retries

(* What a commit leaves to the others.                                        *)
LEMMA CommitFrame ==
  ASSUME NoteInv, NEW n \in Notes, Ledger(n), NEW p \in Processes, NEW s, s = sess[p], s # Idle,
         Written(p), sess' = [sess EXCEPT ![p] = Idle], UNCHANGED <<aged, out, refused, lost>>,
         p \in MayAnswer(n) \/ (Open(n)' => Open(n)),
         p \in MayAnswer(n) \/ ~HasSent(s, n) \/ ~Open(n)' \/ ~Spends(p, s, n)
  PROVE  Ledger(n)'
  <1> USE DEF NoteInv
  <1> DEFINE A == Allowance(n)
             S == MayAnswer(n)
             T == MayAnswer(n)'
             a == Cardinality(S)
             b == Cardinality(T)
  <1>1. sess'[p] = Idle /\ \A q \in Processes \ {p} : sess'[q] = sess[q]
    BY DEF TypeInv
  <1>2. Allowance(n)' = A
    BY AllowanceSame
  <1>3. T = S \ {p}
    BY <1>1 DEF MayAnswer, Answers, HasSent, Processes
  <1>4. A \in Int /\ a \in Nat /\ b \in Nat /\ b <= a /\ (p \in S => b = a - 1)
    <2>1. A \in Int /\ IsFiniteSet(S)
      BY LedgerTyped
    <2>2. T \subseteq S /\ T \subseteq S \cup {p}
      BY <1>3
    <2> HIDE DEF S, T, A
    <2> QED
      BY <1>3, <2>1, <2>2, AnswersCounted
  <1>5. Spent(n) /\ ~Spends(p, s, n) => Spent(n)'
    <2> SUFFICES ASSUME ~Spends(p, s, n), NEW q \in Processes, Spends(q, sess[q], n) PROVE Spent(n)'
      BY DEF Spent
    <2>1. q # p
      OBVIOUS
    <2>2. sess'[q] = sess[q]
      BY <1>1, <2>1
    <2> QED
      BY <2>2 DEF Spent, Spends, HasSent
  <1>6. A >= a /\ (Open(n) => Spent(n) \/ A >= 1 + a)
    BY DEF Ledger
  <1>7. p \in S \/ (Open(n)' => Spent(n)' \/ A >= 1 + a)
    BY <1>5, <1>6 DEF Spends
  <1> DEFINE openAfter == Open(n)'
             spentAfter == Spent(n)'
             mine == p \in S
  <1>8. mine \/ (openAfter => spentAfter \/ A >= 1 + a)
    BY <1>7
  <1>9. A >= a /\ (mine => b = a - 1)
    BY <1>4, <1>6
  <1> HIDE DEF a, b, A, S, T, openAfter, spentAfter, mine
  <1>10. A >= b /\ (openAfter => spentAfter \/ A >= 1 + b)
    BY <1>4, <1>8, <1>9
  <1> QED
    BY <1>2, <1>10 DEF Ledger, T, b, openAfter, spentAfter

LEMMA CommitLedger ==
  ASSUME NoteInv, NEW n \in Notes, Ledger(n), NEW p \in Handlers, Commit(p)
  PROVE  Ledger(n)'
  <1> USE DEF NoteInv
  <1>1. PICK s : s = sess[p]
    OBVIOUS
  <1>2. p \in Processes /\ s # Idle /\ s.left = <<>>
    BY <1>1, CommitBusy DEF Processes, Commit
  <1>3. Written(p) /\ sess' = [sess EXCEPT ![p] = Idle] /\ UNCHANGED <<aged, out, refused, lost>>
    BY DEF Commit
  <1>4. HandlerShape(s) /\ p \notin Instances /\ ClaimsAlone(p, s) /\ Logged(s) /\ s.note \in Notes
    BY <1>1, <1>2, <1>3, Committing
  <1>5. sess'[p] = Idle /\ \A q \in Processes \ {p} : sess'[q] = sess[q]
    <2>1. sess \in [Processes -> {Idle} \cup SessType]
      BY DEF TypeInv
    <2> QED
      BY <1>2, <1>3, <2>1
  <1>6. InSweep(n)' => InSweep(n)
    <2> SUFFICES ASSUME NEW i \in Instances, sess'[i] # Idle, Sweeps(sess'[i], n) PROVE InSweep(n)
      BY DEF InSweep, Sweeps, Waits
    <2> QED
      BY <1>4, <1>5 DEF InSweep, Processes
  <1>7. InSweep(n) => Attempted(n)
    <2> SUFFICES ASSUME NEW i \in Instances, sess[i] # Idle, Sweeps(sess[i], n) PROVE Attempted(n)
      BY DEF InSweep
    <2>1. PICK r : r = sess[i]
      OBVIOUS
    <2>2. SweepShape(r)
      BY <2>1, BusyShape DEF Processes
    <2> QED
      BY <2>1, <2>2 DEF SweepShape
  <1>8. CASE p \in MayAnswer(n)
    BY <1>1, <1>2, <1>3, <1>8, CommitFrame
  <1>9. CASE HasSent(s, n)
    <2>1. ~Retries(n)' /\ Attempted(n)'
      BY <1>1, <1>2, <1>3, <1>9, SentCloses
    <2>2. Open(n)' => InSweep(n)
      BY <1>6, <2>1 DEF Open
    <2>3. n = s.note
      BY <1>4, <1>9 DEF HandlerShape, HasSent
    <2>4. s.claim => ~Open(n)'
      BY <1>4, <1>7, <2>2, <2>3 DEF ClaimsAlone
    <2>5. ~s.claim => ~Spends(p, s, n)
      BY <1>4 DEF Spends
    <2>6. Open(n)' => Open(n)
      BY <2>2 DEF Open
    <2> QED
      BY <1>1, <1>2, <1>3, <2>4, <2>5, <2>6, CommitFrame
  <1>10. CASE p \notin MayAnswer(n) /\ ~HasSent(s, n)
    <2>1. Open(n)' => Open(n)
      <3>1. CASE s.claim /\ n = s.note
        BY <1>4, <3>1 DEF ClaimsAlone, Open
      <3>2. CASE ~(s.claim /\ n = s.note)
        <4>1. s.report # <<>> /\ s.note = n => ~s.report[3]
          BY <1>1, <1>2, <1>10 DEF MayAnswer, Answers
        <4>2. \A j \in DOMAIN s.rows[n] : s.rows[n][j].status = "suppressed"
          <5>1. CASE n # s.note \/ s.report # <<>>
            <6>1. s.rows[n] = <<>>
              BY <1>4, <4>1, <5>1 DEF HandlerShape
            <6> QED
              BY <6>1
          <5>2. CASE n = s.note /\ s.report = <<>>
            BY <1>4, <3>2, <5>2 DEF HandlerShape
          <5> QED
            BY <5>1, <5>2
        <4>3. Retries(n)' => Retries(n)
          BY <1>1, <1>2, <1>3, <4>1, <4>2, RetriesBefore
        <4>4. Attempted(n) => Attempted(n)'
          <5> SUFFICES ASSUME Attempted(n) PROVE Attempted(n)'
            OBVIOUS
          <5>1. PICK k \in DOMAIN log[n] : log[n][k].status # "suppressed"
            BY DEF Attempted
          <5>2. s.report # <<>> => s.report[2] \in {"sent", "failed"}
            BY <1>1, <1>2, <1>3, Committing
          <5>3. k \in DOMAIN log'[n] /\ log'[n][k].status # "suppressed"
            BY <1>4, <5>1, <5>2 DEF Logged, Reports
          <5> QED
            BY <5>3 DEF Attempted
        <4> QED
          BY <1>6, <4>3, <4>4 DEF Open
      <3> QED
        BY <3>1, <3>2
    <2> QED
      BY <1>1, <1>2, <1>3, <1>10, <2>1, CommitFrame
  <1> QED
    BY <1>8, <1>9, <1>10

LEMMA FinishSweepLedger ==
  ASSUME NoteInv, NEW n \in Notes, Ledger(n), NEW i \in Instances, FinishSweep(i)
  PROVE  Ledger(n)'
  <1> USE DEF NoteInv
  <1>1. PICK s : s = sess[i]
    OBVIOUS
  <1>2. i \in Processes /\ s # Idle
    BY <1>1, SweepBusy DEF Processes
  <1>3. Written(i) /\ sess' = [sess EXCEPT ![i] = Idle] /\ UNCHANGED <<aged, out, refused, lost>>
    BY DEF FinishSweep
  <1>4. SweepShape(s) /\ i \notin Handlers /\ Logged(s) /\ ran["retry"][i] # NotRunning
    BY <1>1, <1>2, <1>3, Committing, BusyShape
  <1>5. sess'[i] = Idle /\ \A q \in Processes \ {i} : sess'[q] = sess[q]
    <2>1. sess \in [Processes -> {Idle} \cup SessType]
      BY DEF TypeInv
    <2> QED
      BY <1>2, <1>3, <2>1
  <1>6. ~InSweep(n)'
    <2> SUFFICES ASSUME NEW k \in Instances, sess'[k] # Idle PROVE FALSE
      BY DEF InSweep
    <2>1. k # i /\ k \in Processes /\ sess[k] # Idle
      BY <1>5 DEF Processes
    <2>2. ran["retry"][k] # NotRunning
      BY <2>1 DEF ShapeInv, Shaped
    <2>3. i \in Running("retry") /\ k \in Running("retry") /\ "retry" \in Jobs
      BY <1>4, <2>2, NotesTyped DEF Running
    <2> QED
      BY <2>1, <2>3 DEF LeaseInv, RunsAlone
  <1>7. CASE HasSent(s, n)
    <2>1. ~Retries(n)' /\ Attempted(n)'
      BY <1>1, <1>2, <1>3, <1>7, SentCloses
    <2>2. ~Open(n)'
      BY <1>6, <2>1 DEF Open
    <2> QED
      BY <1>1, <1>2, <1>3, <2>2, CommitFrame
  <1>8. CASE ~HasSent(s, n)
    <2>1. Open(n)' => Open(n)
      <3>1. CASE Sweeps(s, n)
        BY <1>1, <1>2, <3>1 DEF Open, InSweep
      <3>2. CASE ~Sweeps(s, n)
        <4>1. s.rows[n] = <<>> /\ s.report = <<>>
          BY <1>4, <3>2 DEF Sweeps, SweepShape
        <4>2. \A j \in DOMAIN s.rows[n] : s.rows[n][j].status = "suppressed"
          BY <4>1
        <4>3. Retries(n)' => Retries(n)
          BY <1>1, <1>2, <1>3, <4>1, <4>2, RetriesBefore
        <4>4. Attempted(n) => Attempted(n)'
          BY <1>4, <4>1 DEF Attempted, Logged, Reports
        <4> QED
          BY <1>6, <4>3, <4>4 DEF Open
      <3> QED
        BY <3>1, <3>2
    <2> QED
      BY <1>1, <1>2, <1>3, <1>8, <2>1, CommitFrame
  <1> QED
    BY <1>7, <1>8

(* Time, users and administrators open no note again.                         *)
LEMMA QuietLedger ==
  ASSUME NoteInv, NEW n \in Notes, Ledger(n), Quiet
  PROVE  Ledger(n)'
  <1> USE DEF NoteInv
  <1>1. UNCHANGED <<log, sess, out, refused, lost>>
    BY QuietShape
  <1>2. /\ Allowance(n)' = Allowance(n) /\ MayAnswer(n)' = MayAnswer(n)
        /\ (Spent(n) <=> Spent(n)') /\ (InSweep(n)' => InSweep(n))
        /\ (Attempted(n) <=> Attempted(n)')
    BY <1>1 DEF Allowance, MayAnswer, Answers, HasSent, Spent, Spends, InSweep, Sweeps, Waits,
                Attempted
  <1>3. Retries(n)' => Retries(n)
    <2>1. CASE aged'[n] = aged[n]
      BY <1>1, <2>1 DEF Retries, Window, RefusedRow, Refuses, Reports
    <2>2. CASE aged'[n] # aged[n]
      <3>1. PICK m \in Notes : Age(m)
        BY <2>2 DEF Quiet, MarkRead, MarkAllRead, Switch, TimePasses, vars, noteVars
      <3>2. aged'[n] = Len(log[n]) /\ DOMAIN log[n] = 1..Len(log[n]) /\ Len(log[n]) \in Nat
        BY <2>2, <3>1 DEF Age, TypeInv
      <3>3. Window(n)' = {}
        BY <1>1, <3>2 DEF Window
      <3> QED
        BY <3>3 DEF Retries
    <2> QED
      BY <2>1, <2>2
  <1>4. Open(n)' => Open(n)
    BY <1>2, <1>3 DEF Open
  <1> QED
    BY <1>2, <1>4 DEF Ledger

LEMMA LedgerInit == Init => LedgerInv
  <1> SUFFICES ASSUME Init, NEW n \in Notes PROVE Ledger(n)
    BY DEF LedgerInv
  <1>1. \A p \in Processes : sess[p] = Idle
    BY DEF Init
  <1>2. MayAnswer(n) = {}
    BY <1>1 DEF MayAnswer, Answers, Processes
  <1>3. Cardinality(MayAnswer(n)) = 0
    BY <1>2, FS_EmptySet
  <1>4. Allowance(n) = 1
    BY DEF Init, Allowance
  <1> QED
    BY <1>3, <1>4 DEF Ledger

LEMMA LedgerNext == NoteInv /\ NoteInv' /\ LedgerInv /\ [Next]_vars => LedgerInv'
  <1> SUFFICES ASSUME NoteInv, NoteInv', [Next]_vars, NEW n \in Notes, Ledger(n) PROVE Ledger(n)'
    BY DEF LedgerInv
  <1>1. ASSUME NEW p \in Handlers, Handle(p) PROVE Ledger(n)'
    BY <1>1, CommitLedger, RaiseLedger, ReportLedger DEF Handle
  <1>2. ASSUME NEW i \in Instances, Sweep(i) PROVE Ledger(n)'
    BY <1>2, StartSweepLedger, SweepNextLedger, FinishSweepLedger DEF Sweep
  <1>3. ASSUME NEW p \in Processes, Try(p) PROVE Ledger(n)'
    <2>1. TypeInv /\ sess[p] # Idle
      BY <1>3, TryBusy DEF NoteInv
    <2>2. PICK s \in SessType : s = sess[p]
      BY <2>1, BusyTyped
    <2>3. PICK row \in RowType : Attempts(p, s, row)
      BY <1>3, <2>1, <2>2, TryEffect
    <2>4. CASE s.note = n /\ row.status = "sent" /\ ~row.test
      BY <1>3, <2>2, <2>3, <2>4, TryLedgerSent
    <2>5. CASE ~(s.note = n /\ row.status = "sent" /\ ~row.test)
      BY <1>3, <2>2, <2>3, <2>5, TryLedgerNone
    <2> QED
      BY <2>4, <2>5
  <1>4. ASSUME NEW p \in Processes, RollBack(p) PROVE Ledger(n)'
    BY <1>4, RollBackLedger
  <1>5. CASE Quiet
    BY <1>5, QuietLedger
  <1> QED
    BY <1>1, <1>2, <1>3, <1>4, <1>5 DEF Next, Quiet

(* A user gets a note once, and once more for each message that WhatsApp has  *)
(* reported as failed or whose record was lost, however many handlers raise   *)
(* it, report on it and sweep it up (claim_notification_dispatch,             *)
(* record_twilio_delivery_status, retry_failed_notifications).                *)
THEOREM NotesDeliveredOnce == Spec => []DeliveredOnce
  <1>1. Spec => []LedgerInv
    BY NoteInvariance, LedgerInit, LedgerNext, PTL DEF Spec
  <1>2. NoteInv /\ LedgerInv => DeliveredOnce
    <2> SUFFICES ASSUME TypeInv, NEW n \in Notes, Ledger(n)
                 PROVE  out[n].sent <= 1 + refused[n] + lost[n]
      BY DEF NoteInv, LedgerInv, DeliveredOnce
    <2>1. Cardinality(MayAnswer(n)) \in Nat /\ Allowance(n) >= Cardinality(MayAnswer(n))
      BY LedgerTyped DEF Ledger
    <2>2. refused[n] \in Nat /\ lost[n] \in Nat /\ out[n].sent \in Nat
      BY DEF TypeInv
    <2> QED
      BY <2>1, <2>2 DEF Allowance
  <1> QED
    BY <1>1, <1>2, NoteInvariance, PTL

=============================================================================
