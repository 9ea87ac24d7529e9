---------------------------- MODULE Notifications ----------------------------
(* Messages to parents and nannies (src/app/services/notifications.py,        *)
(* notification_dispatch.py, notification_controls.py, duty_notifications.py, *)
(* the notification endpoints of public.py and admin.py).                     *)
(*                                                                            *)
(* A note is one logical notification: a user, an event and its reference.    *)
(* Whoever raises it claims it, tries the channels of its policy in order     *)
(* until one accepts the message, and logs every attempt; claim, log and      *)
(* pop-up are committed or rolled back with the caller's own work, the        *)
(* messages are out.  A sweep of one instance retries what failed (it takes   *)
(* the job's lease), and WhatsApp reports later what became of a message.     *)
(* Left out: texts, templates and addresses; a provider that cannot reach the *)
(* user answers as one that fails.                                            *)
EXTENDS SchedulerLeases, Sequences, SequencesExt

CONSTANTS
    Notes,         \* logical notifications
    Channels,      \* [Notes -> Seq({"whatsapp", "telegram", "email"})], the policy
    PopUp,         \* the notes with a pop-up in the app
    Handlers,      \* HTTP workers
    MaxCrashes,    \* bound on roll-backs and crashes
    MaxAttempts,   \* failed attempts after which the sweep gives up
    MaxLog,        \* bound on the log of a note
    MaxSwitches,   \* bound on the administrator's changes
    MaxReports,    \* bound on the reports of WhatsApp
    LostReplies    \* may a provider's answer be lost after it took the message?

ASSUME NotesTyped ==
    /\ Channels \in [Notes -> Seq({"whatsapp", "telegram", "email"}) \ {<<>>}]
    /\ PopUp \subseteq Notes /\ Notes # {}
    /\ IsFiniteSet(Handlers) /\ Handlers \cap Instances = {}
    /\ {MaxAttempts, MaxLog, MaxSwitches, MaxReports, MaxCrashes} \subseteq Nat
    /\ LostReplies \in BOOLEAN /\ Jobs = {"retry"}

VARIABLES
    controls,   \* the administrator's switches: on, off or test
    switched,   \* how often they were changed
    claims,     \* committed claims
    log,        \* committed notification_log rows of each note, in order
    aged,       \* how many of them have left the sweep's window
    inbox,      \* the note's pop-up
    sess,       \* what each handler or instance is doing
    out,        \* messages that reached the user, and how many of them were marked as tests
    reports,    \* reports of WhatsApp so far
    refused,    \* messages that WhatsApp reported as failed
    lost,       \* messages whose record was lost
    crashes     \* roll-backs and crashes so far

noteVars == <<controls, switched, claims, log, aged, inbox, sess, out, reports, refused, lost, crashes>>
vars == <<noteVars, leaseVars>>

Processes == Handlers \cup Instances

Idle == [phase |-> "idle"]

(* Nothing of the transaction is written yet.  `left` are the channels still  *)
(* to try for `note`, `rows` the attempts, `todo` what the sweep has before   *)
(* it, `mark` whether the message carries the mark of a test.                 *)
Fresh == [phase |-> "try", note |-> CHOOSE n \in Notes : TRUE, mode |-> controls,
          left |-> <<>>, claim |-> FALSE, popUp |-> FALSE, todo |-> {},
          mark |-> FALSE, rows |-> [n \in Notes |-> <<>>], report |-> <<>>]

Rows(n) == ToSet(log[n])

(* The channels to try: in test mode, WhatsApp is the only chat.              *)
Resolved(n, mode) ==
    [k \in DOMAIN Channels[n] |->
        IF mode = "test" /\ Channels[n][k] # "email" THEN "whatsapp" ELSE Channels[n][k]]

----------------------------------------------------------------------------
(* Raising a note                                                            *)

(* Mutant: the claims of other transactions are not waited for.               *)
ClaimingAlone(n) == {}

Claiming(n) == {p \in Processes : sess[p] # Idle /\ sess[p].claim /\ sess[p].note = n}

(* claim_notification_dispatch: an attempt in the log or a claim refuses it.  *)
(* The insert waits for a claim that is not committed yet.                    *)
Claimable(n) == n \notin claims /\ \A x \in Rows(n) : x.status = "suppressed"

(* Does raising the note take a claim?  Only with the notifications on; the   *)
(* jobs, which always take one, run only then.                                *)
MustClaim(n) == controls # "off"

Raise(p, n) ==
    /\ sess[p] = Idle
    /\ IF MustClaim(n)
       THEN /\ Claiming(n) = {} /\ Claimable(n)
            /\ sess' = [sess EXCEPT ![p] = [Fresh EXCEPT !.note = n, !.left = Resolved(n, controls),
                                              !.claim = TRUE, !.popUp = n \in PopUp]]
       ELSE sess' = [sess EXCEPT ![p] = [Fresh EXCEPT !.note = n, !.left = Resolved(n, controls),
                                              !.popUp = n \in PopUp]]
    /\ UNCHANGED <<controls, switched, claims, log, aged, inbox, out, reports, refused, lost, crashes>>
    /\ UNCHANGED leaseVars

(* An attempt on the next channel.  In test mode WhatsApp messages go to the  *)
(* test number, marked, and nothing else goes out; the log keeps the text.    *)
Row(s, test, status) ==
    [channel |-> Head(s.left), test |-> test, marked |-> test \/ s.mark, status |-> status,
     traced |-> Head(s.left) = "whatsapp" /\ status = "sent"]

Tried(s, row) ==
    [s EXCEPT !.rows[s.note] = Append(@, row),
              !.left = IF row.status = "sent" THEN <<>> ELSE Tail(@)]

Suppresses(s) == s.mode = "off" \/ (s.mode = "test" /\ Head(s.left) # "whatsapp")

Try(p) ==
    LET s == sess[p] IN
    /\ s.phase = "try" /\ s.left # <<>>
    /\ Len(log[s.note]) + Len(s.rows[s.note]) < MaxLog
    /\ IF Suppresses(s)
       THEN /\ sess' = [sess EXCEPT ![p] = Tried(s, Row(s, FALSE, "suppressed"))]
            /\ UNCHANGED <<out, lost>>
       ELSE \E taken, answered \in BOOLEAN :
            /\ answered \/ (taken /\ LostReplies)
            /\ sess' = [sess EXCEPT ![p] =
                          Tried(s, Row(s, s.mode = "test",
                                       IF taken /\ answered THEN "sent" ELSE "failed"))]
            /\ out' = IF taken /\ s.mode = "on"
                      THEN [out EXCEPT ![s.note].sent = @ + 1,
                                       ![s.note].marked = @ \/ s.mark]
                      ELSE out
            /\ lost' = IF taken /\ ~answered /\ s.mode = "on"
                       THEN [lost EXCEPT ![s.note] = @ + 1] ELSE lost
    /\ UNCHANGED <<controls, switched, claims, log, aged, inbox, reports, refused, crashes>>
    /\ UNCHANGED leaseVars

Reported(s, n) ==
    IF s.report # <<>> /\ s.note = n
    THEN [log[n] EXCEPT ![s.report[1]].status = s.report[2]]
    ELSE log[n]

(* The caller commits: claim, attempts, pop-up and the report, if it was one. *)
Written(p) ==
    LET s == sess[p] IN
    /\ log' = [n \in Notes |-> Reported(s, n) \o s.rows[n]]
    /\ claims' = IF s.claim THEN claims \cup {s.note} ELSE claims
    /\ inbox' = IF s.popUp THEN [inbox EXCEPT ![s.note] = "unread"] ELSE inbox

Commit(p) ==
    /\ p \in Handlers
    /\ sess[p].phase = "try" /\ sess[p].left = <<>>
    /\ Written(p)
    /\ sess' = [sess EXCEPT ![p] = Idle]
    /\ UNCHANGED <<controls, switched, aged, out, reports, refused, lost, crashes>>
    /\ UNCHANGED leaseVars

(* The caller's own work fails, or it crashes: all is rolled back but what    *)
(* the user has already received.                                             *)
Sent(s, n) == Cardinality({k \in DOMAIN s.rows[n] : s.rows[n][k].status = "sent"
                                                    /\ ~s.rows[n][k].test})

RollBack(p) ==
    /\ sess[p] # Idle /\ crashes < MaxCrashes
    /\ crashes' = crashes + 1
    /\ lost' = [n \in Notes |-> lost[n] + Sent(sess[p], n)]
    /\ sess' = [sess EXCEPT ![p] = Idle]
    /\ UNCHANGED <<controls, switched, claims, log, aged, inbox, out, reports, refused>>
    /\ IF p \in Instances THEN Stopped(p) ELSE UNCHANGED leaseVars

----------------------------------------------------------------------------
(* The sweep                                                                 *)

InWindow(n) == {log[n][k] : k \in (aged[n] + 1)..Len(log[n])}

(* Mutant: attempts that went to the test number are retried as well.        *)
RetryableTests(x) == TRUE

(* Rows that the sweep takes into account.                                   *)
Retryable(x) == ~x.test

Failures(n) == Cardinality({k \in (aged[n] + 1)..Len(log[n]) :
                              Retryable(log[n][k]) /\ log[n][k].status = "failed"})

NeedsRetry(n) == /\ \A x \in InWindow(n) : Retryable(x) => x.status # "sent"
                 /\ Failures(n) \in 1..(MaxAttempts - 1)

(* The text to send is that of the last failed attempt.                      *)
MarkedText(n) ==
    LET failed == {k \in (aged[n] + 1)..Len(log[n]) :
                     Retryable(log[n][k]) /\ log[n][k].status = "failed"}
    IN  failed # {} /\ log[n][Max(failed)].marked

StartSweep(i) ==
    /\ sess[i] = Idle /\ controls # "off"
    /\ Claim("retry", i)
    /\ sess' = [sess EXCEPT ![i] = [Fresh EXCEPT !.phase = "pick",
                                      !.todo = {[note |-> n, mark |-> MarkedText(n)] :
                                                  n \in {m \in Notes : NeedsRetry(m)}}]]
    /\ UNCHANGED <<controls, switched, claims, log, aged, inbox, out, reports, refused, lost, crashes>>

(* Mutant: the pop-up is raised with every retry.                            *)
RetryNoteAgain(s, x) ==
    [s EXCEPT !.phase = "try", !.note = x.note, !.mark = x.mark, !.left = Resolved(x.note, s.mode),
              !.todo = @ \ {x}, !.popUp = x.note \in PopUp]

RetryNote(s, x) ==
    [s EXCEPT !.phase = "try", !.note = x.note, !.mark = x.mark, !.left = Resolved(x.note, s.mode),
              !.todo = @ \ {x}]

SweepNext(i) ==
    LET s == sess[i] IN
    /\ i \in Instances
    /\ s.phase = "pick" \/ (s.phase = "try" /\ s.left = <<>>)
    /\ \E x \in s.todo : sess' = [sess EXCEPT ![i] = RetryNote(s, x)]
    /\ UNCHANGED <<controls, switched, claims, log, aged, inbox, out, reports, refused, lost, crashes>>
    /\ UNCHANGED leaseVars

FinishSweep(i) ==
    LET s == sess[i] IN
    /\ i \in Instances
    /\ s.phase = "pick" \/ (s.phase = "try" /\ s.left = <<>>)
    /\ s.todo = {}
    /\ Written(i)
    /\ Finish("retry", i)
    /\ sess' = [sess EXCEPT ![i] = Idle]
    /\ UNCHANGED <<controls, switched, aged, out, reports, refused, lost, crashes>>

(* The clock goes on for the leases; two days later the log is out of the     *)
(* sweep's window.                                                            *)
TimePasses == Tick /\ UNCHANGED noteVars

Age(n) ==
    /\ aged[n] < Len(log[n])
    /\ aged' = [aged EXCEPT ![n] = Len(log[n])]
    /\ UNCHANGED <<controls, switched, claims, log, inbox, sess, out, reports, refused, lost, crashes>>
    /\ UNCHANGED leaseVars

----------------------------------------------------------------------------
(* WhatsApp reports a message's fate (record_twilio_delivery_status)          *)

EmailAccepted(n) == \E x \in Rows(n) : x.channel = "email" /\ x.status = "sent"

(* already_failed: a message is refused once, unless reports cross.           *)
FirstRefusal(n, k, status) == status = "failed" /\ log[n][k].status # "failed"

(* Mutant: the attempt's status is read after it was set.                    *)
FallsBackLate(n, k, status) == FALSE

FallsBack(n, k, status) ==
    /\ FirstRefusal(n, k, status)
    /\ "email" \in ToSet(Channels[n]) /\ ~EmailAccepted(n)

Report(p, n, k, status) ==
    /\ sess[p] = Idle /\ reports < MaxReports
    /\ k \in DOMAIN log[n] /\ log[n][k].traced
    /\ sess' = [sess EXCEPT ![p] = [Fresh EXCEPT !.note = n,
                          !.report = <<k, status, FirstRefusal(n, k, status)>>,
                          !.mark = log[n][k].marked,
                          !.left = IF FallsBack(n, k, status) THEN <<"email">> ELSE <<>>]]
    /\ reports' = reports + 1
    /\ refused' = IF FirstRefusal(n, k, status) THEN [refused EXCEPT ![n] = @ + 1] ELSE refused
    /\ UNCHANGED <<controls, switched, claims, log, aged, inbox, out, lost, crashes>>
    /\ UNCHANGED leaseVars

----------------------------------------------------------------------------
(* Administrators and users                                                  *)

Switch ==
    /\ switched < MaxSwitches
    /\ \E mode \in {"on", "off", "test"} \ {controls} : controls' = mode
    /\ switched' = switched + 1
    /\ UNCHANGED <<claims, log, aged, inbox, sess, out, reports, refused, lost, crashes>>
    /\ UNCHANGED leaseVars

MarkRead(n) ==
    /\ inbox[n] = "unread"
    /\ inbox' = [inbox EXCEPT ![n] = "read"]
    /\ UNCHANGED <<controls, switched, claims, log, aged, sess, out, reports, refused, lost, crashes>>
    /\ UNCHANGED leaseVars

MarkAllRead ==
    /\ inbox' = [n \in Notes |-> IF inbox[n] = "unread" THEN "read" ELSE inbox[n]]
    /\ UNCHANGED <<controls, switched, claims, log, aged, sess, out, reports, refused, lost, crashes>>
    /\ UNCHANGED leaseVars

----------------------------------------------------------------------------
Init ==
    /\ LeaseInit
    /\ controls \in {"on", "off", "test"} /\ switched = 0
    /\ claims = {} /\ log = [n \in Notes |-> <<>>] /\ aged = [n \in Notes |-> 0]
    /\ inbox = [n \in Notes |-> "none"]
    /\ sess = [p \in Processes |-> Idle]
    /\ out = [n \in Notes |-> [sent |-> 0, marked |-> FALSE]]
    /\ reports = 0 /\ refused = [n \in Notes |-> 0] /\ lost = [n \in Notes |-> 0]
    /\ crashes = 0

Handle(p) ==
    \/ Commit(p)
    \/ \E n \in Notes : \/ Raise(p, n)
                        \/ \E k \in 1..MaxLog, status \in {"sent", "failed"} : Report(p, n, k, status)

Sweep(i) == StartSweep(i) \/ SweepNext(i) \/ FinishSweep(i)

Next ==
    \/ \E p \in Handlers : Handle(p)
    \/ \E i \in Instances : Sweep(i)
    \/ \E p \in Processes : Try(p) \/ RollBack(p)
    \/ \E n \in Notes : MarkRead(n) \/ Age(n)
    \/ MarkAllRead \/ Switch \/ TimePasses

Spec == Init /\ [][Next]_vars

----------------------------------------------------------------------------
(* Properties                                                                *)

(* A user gets a note once, however many workers raise it and sweeps retry    *)
(* it: every further message answers one that WhatsApp reported as failed or  *)
(* whose record was lost (claim_notification_dispatch).                       *)
DeliveredOnce == \A n \in Notes : out[n].sent <= 1 + refused[n] + lost[n]

(* A message marked for the test number reaches a user only once WhatsApp has *)
(* reported it as failed, when its text is e-mailed whatever the mode is now; *)
(* the sweep never brings one up by itself (retry_failed_notifications).      *)
TestsStayTests == \A n \in Notes : out[n].marked => refused[n] > 0

(* No note is dropped: a claim, which keeps it from being raised again, is    *)
(* only committed with an attempt to deliver it (notify), but for a note that *)
(* is e-mailed alone, which test mode suppresses; and a message that WhatsApp *)
(* failed to deliver has been followed by an e-mail, or an attempt at one     *)
(* (record_twilio_delivery_status).                                           *)
NothingDropped ==
    /\ \A n \in claims : ToSet(Channels[n]) # {"email"} =>
          \E x \in Rows(n) : x.status # "suppressed"
    /\ \A n \in Notes : "email" \in ToSet(Channels[n]) =>
          \A x \in Rows(n) : x.traced /\ x.status = "failed" =>
              \E y \in Rows(n) : y.channel = "email"

(* Once a note is claimed, a pop-up that was read comes back only if the note *)
(* is raised again with the notifications switched off, when no claim is      *)
(* asked for; never by a retry (retry_failed_notifications).                  *)
ReadOnce ==
    [][\A n \in claims : inbox[n] = "read" /\ inbox'[n] = "unread" =>
         \E p \in Handlers : sess[p] # Idle /\ sess[p].mode = "off"]_vars

=============================================================================
