------------------------------ MODULE Screening ------------------------------
(* A nanny's admission and standing (public.py, demerit.py, trust.py,         *)
(* passport_compliance.py): her identity document and its approval, the video *)
(* interview, her application, demerits, suspensions, and the daily passport  *)
(* sweep.                                                                     *)
(*                                                                            *)
(* Handlers read the nanny's rows once, decide on that copy, and write back   *)
(* the columns they have changed; a handler that commits reads again for what *)
(* it does next.  `row` holds the columns, a session the steps that remain.   *)
(* Dates are days, 0 for none; demerits are counted in 5%, weights in         *)
(* quarters.  Left out: personal details, documents other than the one that   *)
(* identifies her, messages, and counters that are only displayed.            *)
EXTENDS Integers, Sequences, FiniteSets

CONSTANTS
    Workers,        \* HTTP workers and the scheduler's thread
    Questions,      \* of the video interview
    Bases,          \* average reviews, in tenths of a star, that a demerit may find
    ReviewWeight,   \* weight at which an administrator has to review the nanny
    Calls,          \* the calls that are made
    MaxDay, MaxCalls, MaxPenalties, MaxFiles, MaxCrashes   \* bounds

ASSUME ScreeningTyped ==
    /\ ReviewWeight \in Nat \ {0}
    /\ {MaxDay, MaxCalls, MaxPenalties, MaxFiles, MaxCrashes} \subseteq Nat
    /\ Bases \subseteq 10..50

VARIABLES
    foreign,   \* is she no South African?  Then a passport identifies her.
    row,       \* the columns of her nannies, nanny_profiles and users rows
    log,       \* totals of her demerit log
    sess,      \* what each worker is doing
    today,
    seen,      \* history that the properties speak of
    calls, crashes

vars == <<foreign, row, log, sess, today, seen, calls, crashes>>

Dates == 0..(MaxDay + 1)
NoApproval == [approved |-> FALSE, expiry |-> 0, previous |-> 0]
Idle == [todo |-> <<>>, read |-> FALSE]

----------------------------------------------------------------------------
(* What the code asks of a row                                               *)

(* nanny_meets_document_requirements                                         *)
MeetsDocuments(r) == r.file # 0 /\ (foreign => r.expiry # 0)

(* The identity badge (build_nanny_trust_badges).                            *)
IdentityEarned(r) == r.file # 0 /\ r.approval.approved

(* _search_nannies_by_area, with the required badges.                        *)
Visible(r) ==
    /\ r.approved /\ r.listed /\ r.status = "approved"
    /\ r.banking /\ r.interview /\ r.active /\ ~r.suspended
    /\ MeetsDocuments(r) /\ IdentityEarned(r)

(* The day on which the sweep finds the passport expired.                    *)
Due(r) == IF r.approval.approved THEN r.approval.expiry
          ELSE IF r.approval.previous # 0 THEN r.approval.previous ELSE r.expiry

(* Mutant: the passport counts for the whole day on which it expires.        *)
LapsedNextDay(r) == foreign /\ Due(r) # 0 /\ Due(r) < today

Lapsed(r) == foreign /\ Due(r) # 0 /\ Due(r) <= today

BelowThreshold(base, demerit) == base * (20 - demerit) < 500

----------------------------------------------------------------------------
(* Steps, from one read to the next commit: when a step goes ahead, and the   *)
(* row it leaves.                                                             *)

(* upload_nanny_passport_document keeps the expiry that was approved as the   *)
(* deadline; upload_nanny_id_document forgets the approval.                   *)
Uploaded(r, o) ==
    [r EXCEPT !.file = @ + 1,
              !.expiry = IF o.expiry # 0 THEN o.expiry ELSE @,
              !.approval = IF foreign /\ @.expiry # 0
                           THEN [NoApproval EXCEPT !.previous = r.approval.expiry]
                           ELSE NoApproval]

(* The document endpoints that serve administrators.                         *)
Replaced(r, o) == [r EXCEPT !.file = @ + 1, !.approval = NoApproval]

Edited(r, o) ==
    [r EXCEPT !.approval = IF o.expiry # r.expiry THEN NoApproval ELSE @,
              !.expiry = o.expiry,
              !.status = IF r.listed THEN @ ELSE "pending",
              !.active = r.file # 0 /\ (foreign => o.expiry # 0)]

(* Mutant: an edited expiry date keeps the approval.                         *)
EditedByAdminKeeping(r, o) == [r EXCEPT !.expiry = o.expiry, !.location = o.located]

EditedByAdmin(r, o) ==
    [r EXCEPT !.approval = IF o.expiry # r.expiry THEN NoApproval ELSE @,
              !.expiry = o.expiry, !.location = o.located]

DocumentApproved(r, o) ==
    [r EXCEPT !.approval = [approved |-> TRUE, expiry |-> IF foreign THEN r.expiry ELSE 0,
                            previous |-> 0]]

(* Mutant: a renewed passport lifts every suspension.                        *)
ReactivatedAlways(r, o) == [r EXCEPT !.suspended = FALSE, !.reason = "none"]

Reactivated(r, o) ==
    IF r.suspended /\ r.reason = "passport"
    THEN [r EXCEPT !.suspended = FALSE, !.reason = "none"] ELSE r

(* Mutant: an application that is put on hold leaves the nanny approved.      *)
ApplicationSetOnly(r, o) ==
    [r EXCEPT !.status = o.status, !.listed = o.status = "approved",
              !.approved = @ \/ o.status = "approved"]

ApplicationSet(r, o) ==
    [r EXCEPT !.status = o.status, !.approved = o.status = "approved",
              !.listed = o.status = "approved"]

ApprovalSet(r, o) ==
    [r EXCEPT !.approved = o.approved, !.listed = o.approved,
              !.status = IF o.approved THEN "approved" ELSE "pending"]

(* Mutant: the demerit replaces those before it.                             *)
PenalizedAnew(r, o) == [r EXCEPT !.demerit = o.pct]

(* apply_demerit; the rating is that of the reviews less all demerits.        *)
Penalized(r, o) ==
    LET demerit == r.demerit + o.pct IN
    IF BelowThreshold(o.base, demerit)
    THEN [r EXCEPT !.demerit = demerit, !.suspended = TRUE, !.reason = "rating"]
    ELSE [r EXCEPT !.demerit = demerit]

(* apply_cancellation_weight, which finds its own row in the log.            *)
Weighed(r, o) == [r EXCEPT !.flagged = @ \/ log.weight + o.weight >= ReviewWeight]

(* run_passport_compliance                                                   *)
Complied(r, o) ==
    IF Lapsed(r) /\ ~r.suspended
    THEN [r EXCEPT !.suspended = TRUE, !.reason = "passport"] ELSE r

Recorded(r, o) == [r EXCEPT !.clips = @ \cup {o.question}, !.interview = FALSE]

ResubmissionAllowed(r, o) ==
    [r EXCEPT !.clips = {}, !.interview = FALSE, !.requested = FALSE]

(* The checks that refuse a step.                                            *)
Goes(o, r) ==
    CASE o.do = "upload"    -> r.file < MaxFiles /\ (o.expiry = 0 \/ o.expiry > today)
      [] o.do = "replace"   -> r.file < MaxFiles
      [] o.do = "approveDocument" -> r.file # 0 /\ (foreign => r.expiry > today)
      [] o.do = "approve"   -> r.banking /\ MeetsDocuments(r)
      [] o.do = "setApproval" -> o.approved => MeetsDocuments(r)
      [] o.do = "setApplication" ->
            o.status = "approved" => r.interview /\ r.location /\ r.banking
      [] o.do = "record"    -> r.status # "hold" /\ ~r.interview
      [] o.do = "submit"    -> r.status # "hold" /\ r.clips = Questions /\ r.location
      [] o.do = "request"   -> r.status # "hold" /\ r.interview
      [] o.do = "allow"     -> r.requested
      [] o.do = "pause"     -> r.status # "hold"
      [] OTHER              -> TRUE

After(o, r) ==
    CASE o.do = "upload"     -> Uploaded(r, o)
      [] o.do = "replace"    -> Replaced(r, o)
      [] o.do = "edit"       -> Edited(r, o)
      [] o.do = "adminEdit"  -> EditedByAdmin(r, o)
      [] o.do = "approveDocument" -> DocumentApproved(r, o)
      [] o.do = "withdraw"   -> [r EXCEPT !.approval = NoApproval]
      [] o.do = "reactivate" -> Reactivated(r, o)
      [] o.do = "approve"    -> [r EXCEPT !.approved = TRUE, !.listed = TRUE]
      [] o.do = "setApproval" -> ApprovalSet(r, o)
      [] o.do = "setApplication" -> ApplicationSet(r, o)
      [] o.do = "lift"       -> [r EXCEPT !.suspended = FALSE]
      [] o.do = "noShow"     -> [r EXCEPT !.noShows = @ + 1]
      [] o.do = "demerit"    -> Penalized(r, o)
      [] o.do = "weigh"      -> Weighed(r, o)
      [] o.do = "fitness"    -> [r EXCEPT !.flagged = @ \/ r.noShows >= 2]
      [] o.do = "comply"     -> Complied(r, o)
      [] o.do = "record"     -> Recorded(r, o)
      [] o.do = "submit"     -> [r EXCEPT !.interview = TRUE]
      [] o.do = "request"    -> [r EXCEPT !.requested = TRUE]
      [] o.do = "allow"      -> ResubmissionAllowed(r, o)
      [] o.do = "bank"       -> [r EXCEPT !.banking = TRUE]
      [] o.do = "locate"     -> [r EXCEPT !.location = TRUE]
      [] o.do = "pause"      -> [r EXCEPT !.active = o.active]

(* What is written: the columns that the handler has changed in its copy.     *)
Flush(copy, new) == [c \in DOMAIN row |-> IF new[c] # copy[c] THEN new[c] ELSE row[c]]

----------------------------------------------------------------------------
(* The steps of the calls that have a parameter or more than one step        *)

Statuses == {"pending", "hold", "approved", "declined"}

RecordSteps == [q \in Questions |-> <<[do |-> "record", question |-> q]>>]
PauseSteps == [b \in BOOLEAN |-> <<[do |-> "pause", active |-> b]>>]
ApprovalSteps == [b \in BOOLEAN |-> <<[do |-> "setApproval", approved |-> b]>>]
ApplicationSteps == [s \in Statuses |-> <<[do |-> "setApplication", status |-> s]>>]

Demerit(pct, weight, base) ==
    [do |-> "demerit", pct |-> pct, weight |-> weight, base |-> base]
Weigh(weight) == [do |-> "weigh", weight |-> weight]

NoShowSteps ==
    [b \in Bases |-> <<[do |-> "noShow"], Demerit(6, 4, b), Weigh(4), [do |-> "fitness"]>>]
EarlySteps == <<Weigh(2)>>
LateSteps == [b \in Bases |-> <<Demerit(1, 3, b), Weigh(3)>>]
LatestSteps == [b \in Bases |-> <<Demerit(2, 4, b), Weigh(4)>>]
ParentSteps == <<Weigh(0)>>

----------------------------------------------------------------------------
(* Sessions                                                                  *)

Begin(w, call, todo) ==
    /\ call \in Calls /\ sess[w] = Idle /\ calls < MaxCalls
    /\ calls' = calls + 1
    /\ sess' = [sess EXCEPT ![w] = [todo |-> todo, read |-> FALSE]]
    /\ UNCHANGED <<foreign, row, log, today, seen, crashes>>

(* The handler reads the rows it works on.                                   *)
Read(w) ==
    /\ sess[w] # Idle /\ ~sess[w].read
    /\ sess' = [sess EXCEPT ![w] = [todo |-> sess[w].todo, read |-> TRUE, copy |-> row]]
    /\ UNCHANGED <<foreign, row, log, today, seen, calls, crashes>>

(* History: the file an administrator approved last and its expiry, whether   *)
(* a rating keeps the nanny suspended, the last sweep and the last lifting.   *)
Seen(o, copy) ==
    CASE o.do = "approveDocument" -> [seen EXCEPT !.reviewed = copy.file, !.agreed = copy.expiry]
      [] o.do = "withdraw" -> [seen EXCEPT !.agreed = 0]
      [] o.do = "demerit"  -> [seen EXCEPT !.rated = @ \/ BelowThreshold(o.base, copy.demerit + o.pct)]
      [] o.do = "lift"     -> [seen EXCEPT !.rated = FALSE, !.lifted = today]
      [] o.do = "comply"   -> [seen EXCEPT !.swept = today]
      [] OTHER             -> seen

(* The step ends with a commit, or the handler answers with an error.         *)
Commit(w) ==
    LET s == sess[w]
        o == Head(s.todo)
    IN
    /\ sess[w] # Idle /\ s.read
    /\ IF Goes(o, s.copy)
       THEN /\ row' = Flush(s.copy, After(o, s.copy))
            /\ log' = [pct |-> log.pct + (IF o.do = "demerit" THEN o.pct ELSE 0),
                       weight |-> log.weight + (IF o.do \in {"demerit", "weigh"} THEN o.weight ELSE 0)]
            /\ seen' = Seen(o, s.copy)
            /\ sess' = [sess EXCEPT ![w] = IF Len(s.todo) = 1 THEN Idle
                                           ELSE [todo |-> Tail(s.todo), read |-> FALSE]]
       ELSE /\ sess' = [sess EXCEPT ![w] = Idle]
            /\ UNCHANGED <<row, log, seen>>
    /\ UNCHANGED <<foreign, today, calls, crashes>>

Crash(w) ==
    /\ sess[w] # Idle /\ crashes < MaxCrashes
    /\ crashes' = crashes + 1
    /\ sess' = [sess EXCEPT ![w] = Idle]
    /\ UNCHANGED <<foreign, row, log, today, seen, calls>>

----------------------------------------------------------------------------
(* Calls of the nanny                                                        *)

(* The expiry dates that may be entered; an ID document has none.            *)
Expiries == IF foreign THEN Dates ELSE {0}

UploadDocument(w) ==
    \E e \in Expiries : Begin(w, "upload", <<[do |-> "upload", expiry |-> e]>>)
EditProfile(w) ==
    \E e \in Expiries : Begin(w, "edit", <<[do |-> "edit", expiry |-> e]>>)
RecordClip(w) ==
    \E q \in Questions : Begin(w, "record", RecordSteps[q])
SubmitInterview(w) == Begin(w, "submit", <<[do |-> "submit"]>>)
RequestResubmission(w) == Begin(w, "request", <<[do |-> "request"]>>)
SaveBanking(w) == Begin(w, "bank", <<[do |-> "bank"]>>)
SetLocation(w) == Begin(w, "locate", <<[do |-> "locate"]>>)
SetInactive(w) ==
    \E b \in BOOLEAN : Begin(w, "pause", PauseSteps[b])

(* Calls of administrators                                                   *)

ReplaceDocument(w) == Begin(w, "replace", <<[do |-> "replace"]>>)
EditNannyProfile(w) ==
    \E e \in Expiries, b \in BOOLEAN :
        Begin(w, "adminEdit", <<[do |-> "adminEdit", expiry |-> e, located |-> b]>>)
ApproveDocument(w) ==
    Begin(w, "approveDocument",
          IF foreign THEN <<[do |-> "approveDocument"], [do |-> "reactivate"]>>
                     ELSE <<[do |-> "approveDocument"]>>)
WithdrawApproval(w) == Begin(w, "withdraw", <<[do |-> "withdraw"]>>)
ApproveNanny(w) == Begin(w, "approve", <<[do |-> "approve"]>>)
SetApproval(w) ==
    \E b \in BOOLEAN : Begin(w, "setApproval", ApprovalSteps[b])
SetApplicationStatus(w) ==
    \E s \in Statuses : Begin(w, "setApplication", ApplicationSteps[s])
LiftSuspension(w) == Begin(w, "lift", <<[do |-> "lift"]>>)
AllowResubmission(w) == Begin(w, "allow", <<[do |-> "allow"]>>)

(* Demerits: a no-show, the nanny's cancellations by how late they come, and  *)
(* a parent's late one.                                                       *)
Penalty(w, steps) == log.pct < 6 * MaxPenalties /\ Begin(w, "penalty", steps)

MarkNoShow(w) == \E b \in Bases : Penalty(w, NoShowSteps[b])
NannyCancels(w) ==
    \/ Penalty(w, EarlySteps)
    \/ \E b \in Bases : Penalty(w, LateSteps[b]) \/ Penalty(w, LatestSteps[b])
ParentCancelsLate(w) == Penalty(w, ParentSteps)

(* The sweep, by the scheduler or an administrator; it does not count as a    *)
(* call.                                                                      *)
RunCompliance(w) ==
    /\ sess[w] = Idle
    /\ sess' = [sess EXCEPT ![w] = [todo |-> <<[do |-> "comply"]>>, read |-> FALSE]]
    /\ UNCHANGED <<foreign, row, log, today, seen, calls, crashes>>

NextDay ==
    /\ today < MaxDay
    /\ today' = today + 1
    /\ UNCHANGED <<foreign, row, log, sess, seen, calls, crashes>>

----------------------------------------------------------------------------
(* A nanny who has signed up, and one who has been admitted with a passport   *)
(* that expires on day e.                                                     *)
Newcomer ==
    [file |-> 0, expiry |-> 0, approval |-> NoApproval, status |-> "pending",
     approved |-> FALSE, listed |-> FALSE, active |-> FALSE, banking |-> FALSE,
     location |-> FALSE, clips |-> {}, interview |-> FALSE, requested |-> FALSE,
     suspended |-> FALSE, reason |-> "none", demerit |-> 0, noShows |-> 0, flagged |-> FALSE]

Admitted(e) ==
    [Newcomer EXCEPT !.file = 1, !.expiry = e,
                     !.approval = [NoApproval EXCEPT !.approved = TRUE, !.expiry = e],
                     !.status = "approved", !.approved = TRUE, !.listed = TRUE,
                     !.active = TRUE, !.banking = TRUE, !.location = TRUE,
                     !.clips = Questions, !.interview = TRUE]

Init ==
    /\ today = 1 /\ foreign \in BOOLEAN
    /\ row \in {Newcomer} \cup {Admitted(e) : e \in IF foreign THEN 2..(MaxDay + 1) ELSE {0}}
    /\ log = [pct |-> 0, weight |-> 0]
    /\ sess = [w \in Workers |-> Idle]
    /\ seen = [reviewed |-> row.file, agreed |-> row.expiry, rated |-> FALSE, swept |-> 0, lifted |-> 0]
    /\ calls = 0 /\ crashes = 0

NannyCalls(w) ==
    \/ UploadDocument(w) \/ EditProfile(w) \/ RecordClip(w) \/ SubmitInterview(w)
    \/ RequestResubmission(w) \/ SaveBanking(w) \/ SetLocation(w) \/ SetInactive(w)

AdminCalls(w) ==
    \/ ReplaceDocument(w) \/ EditNannyProfile(w) \/ ApproveDocument(w)
    \/ WithdrawApproval(w) \/ ApproveNanny(w) \/ SetApproval(w)
    \/ SetApplicationStatus(w) \/ LiftSuspension(w) \/ AllowResubmission(w)

Penalties(w) == MarkNoShow(w) \/ NannyCancels(w) \/ ParentCancelsLate(w)

Next ==
    \/ NextDay
    \/ \E w \in Workers : \/ NannyCalls(w) \/ AdminCalls(w) \/ Penalties(w)
                          \/ RunCompliance(w) \/ Read(w) \/ Commit(w) \/ Crash(w)

Spec == Init /\ [][Next]_vars

(* Handlers go on once they have begun, and the scheduler runs the sweep.     *)
FairSpec ==
    /\ Spec
    /\ \A w \in Workers : WF_vars(Read(w) \/ Commit(w))
    /\ WF_vars(\E w \in Workers : RunCompliance(w))

----------------------------------------------------------------------------
(* Properties                                                                *)

(* An approval is for the file on record and for the expiry date on record    *)
(* (APP_RULES: it "may never carry over to a replacement passport or edited   *)
(* expiry date").                                                             *)
ApprovalFitsDocument ==
    row.approval.approved => row.file = seen.reviewed /\ row.approval.expiry = row.expiry

(* The nanny, her profile and her application agree that she is admitted; an  *)
(* application on hold admits nobody (admin_set_nanny_application_status),    *)
(* and parents see nobody who left an interview question unanswered.          *)
OneAdmission ==
    /\ row.approved = row.listed /\ (row.status = "approved" => row.approved)
    /\ Visible(row) => row.clips = Questions

Expired(r) == foreign /\ Due(r) # 0 /\ Due(r) <= today

(* Each suspension ends for its own reason: one for the passport when a valid *)
(* one is approved, one for the rating not before an administrator lifts it   *)
(* (admin_set_nanny_document_approval).                                       *)
SuspensionsApart ==
    /\ seen.rated => row.suspended
    /\ row.suspended /\ row.reason = "passport" /\ row.approval.approved /\ ~Expired(row)
          => crashes > 0 \/ \E w \in Workers : sess[w] # Idle

(* The demerits on the nanny are those of the log, over crashes between the   *)
(* commits of a penalty, and when it is through, a nanny whose weights have   *)
(* reached the threshold is up for review (apply_no_show,                     *)
(* apply_cancellation_weight).                                                *)
PenaltiesAddUp ==
    /\ row.demerit = log.pct
    /\ log.weight >= ReviewWeight =>
          row.flagged \/ crashes > 0 \/ \E w \in Workers : sess[w] # Idle

(* A nanny whose passport has lapsed is hidden in the end, however often she  *)
(* is reactivated meanwhile (run_passport_compliance).                        *)
LapsedEventuallyHidden == Expired(row) ~> (~Visible(row) \/ ~Expired(row))

(* After the day's sweep, a nanny is suspended if the passport that was       *)
(* approved last has expired, whatever date she has entered since.            *)
DeadlineKept ==
    foreign /\ seen.swept = today /\ seen.agreed \in 1..today
        => row.suspended \/ seen.lifted = today

=============================================================================
