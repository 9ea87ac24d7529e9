-------------------------- MODULE ScreeningProofs --------------------------
(* Proofs about Screening, for any number of workers and penalties and any    *)
(* dates, while one handler or sweep is at work at a time: an approval is for *)
(* the document on record, the columns of an admission agree, a suspension    *)
(* for one reason does not end with the other, and demerits add up.           *)
EXTENDS Screening, SequenceTheorems, TLAPS

----------------------------------------------------------------------------
(* The inductive invariant                                                   *)

(* The columns of a row.                                                     *)
Approval == [approved : BOOLEAN, expiry : Nat, previous : Nat]
RowType ==
    [file : Nat, expiry : Nat, approval : Approval, status : Statuses,
     approved : BOOLEAN, listed : BOOLEAN, active : BOOLEAN, banking : BOOLEAN,
     location : BOOLEAN, clips : SUBSET Questions, interview : BOOLEAN, requested : BOOLEAN,
     suspended : BOOLEAN, reason : {"none", "passport", "rating"}, demerit : Nat,
     noShows : Nat, flagged : BOOLEAN]
SeenType ==
    [reviewed : Nat, agreed : Nat, rated : BOOLEAN, swept : Nat, lifted : Nat]

Typed ==
    /\ foreign \in BOOLEAN /\ today \in Nat \ {0} /\ crashes \in Nat
    /\ row \in RowType
    /\ log \in [pct : Nat, weight : Nat]
    /\ seen \in SeenType

Kinds == {"upload", "replace", "edit", "adminEdit", "approveDocument", "withdraw",
          "reactivate", "approve", "setApproval", "setApplication", "lift", "noShow",
          "demerit", "weigh", "fitness", "comply", "record", "submit", "request", "allow",
          "bank", "locate", "pause"}

StepFits(passport, o) ==
    /\ o.do \in Kinds
    /\ o.do \in {"upload", "edit", "adminEdit"} => o.expiry \in Nat /\ (~passport => o.expiry = 0)
    /\ o.do = "adminEdit" => o.located \in BOOLEAN
    /\ o.do = "setApproval" => o.approved \in BOOLEAN
    /\ o.do = "setApplication" => o.status \in Statuses
    /\ o.do = "demerit" => o.pct \in Nat /\ o.weight \in Nat /\ o.base \in Bases
    /\ o.do = "weigh" => o.weight \in Nat
    /\ o.do = "record" => o.question \in Questions
    /\ o.do = "pause" => o.active \in BOOLEAN

(* What is left to do: the approval of a passport is followed by the nanny's  *)
(* reactivation, and a demerit by its weight.                                 *)
TodoFits(passport, todo) ==
    /\ \E S : todo \in Seq(S)
    /\ todo # <<>>
    /\ \A i \in DOMAIN todo :
        /\ StepFits(passport, todo[i])
        /\ todo[i].do = "approveDocument" /\ passport =>
              i < Len(todo) /\ todo[i + 1].do = "reactivate"
        /\ todo[i].do = "demerit" => i < Len(todo) /\ todo[i + 1].do = "weigh"

(* A handler works on the row as it is.                                      *)
SessionFits(passport, r, s) ==
    \/ s = Idle
    \/ TodoFits(passport, s.todo) /\ s.read \in BOOLEAN /\ (s.read => s.copy = r)

SessionsFit ==
    DOMAIN sess = Workers /\ \A w \in Workers : SessionFits(foreign, row, sess[w])

(* A handler is about to do it.                                              *)
Ahead(kind) == \E w \in Workers : sess[w] # Idle /\ Head(sess[w].todo).do = kind

(* One handler, or sweep, is at work at a time.                               *)
OneAtATime == \A v, w \in Workers : sess[v] # Idle /\ sess[w] # Idle => v = w

(* A suspension for a passport that has been renewed.                         *)
Overdue(r) ==
    r.suspended /\ r.reason = "passport" /\ r.approval.approved /\ ~Expired(r)

(* The row r, the log l and the history h agree.                              *)
Agree(r, l, h) ==
    /\ r.approval.approved => r.file = h.reviewed /\ r.approval.expiry = r.expiry
    /\ ~foreign => r.expiry = 0 /\ r.reason # "passport"
    /\ r.approved = r.listed
    /\ r.status = "approved" => r.approved
    /\ r.interview => r.clips = Questions
    /\ h.rated => r.suspended /\ r.reason = "rating"
    /\ r.demerit = l.pct

Followed ==
    /\ Overdue(row) => crashes > 0 \/ Ahead("reactivate")
    /\ log.weight >= ReviewWeight => row.flagged \/ crashes > 0 \/ Ahead("weigh")

SInv == Typed /\ SessionsFit /\ Agree(row, log, seen) /\ Followed

----------------------------------------------------------------------------
(* Steps                                                                     *)

(* The columns by what they are about.                                       *)
Document(r) == <<r.file, r.expiry, r.approval>>
Admission(r) == <<r.status, r.approved, r.listed, r.clips, r.interview>>
Standing(r) == <<r.suspended, r.reason, r.demerit, r.flagged>>

(* The log after the step o.                                                 *)
Logged(o) ==
    [pct |-> log.pct + (IF o.do = "demerit" THEN o.pct ELSE 0),
     weight |-> log.weight + (IF o.do \in {"demerit", "weigh"} THEN o.weight ELSE 0)]

(* The step o, taken on the row as it is, leaves rows that agree, and what    *)
(* has to follow it is still to come.                                        *)
StepKept(o) ==
    LET y == After(o, row) IN
    /\ y \in RowType /\ Logged(o) \in [pct : Nat, weight : Nat] /\ Seen(o, row) \in SeenType
    /\ Agree(y, Logged(o), Seen(o, row))
    /\ Overdue(y) =>
          o.do # "reactivate" /\ (Overdue(row) \/ (o.do = "approveDocument" /\ foreign))
    /\ Logged(o).weight >= ReviewWeight =>
          \/ y.flagged \/ o.do = "demerit"
          \/ o.do # "weigh" /\ log.weight >= ReviewWeight /\ ~row.flagged

LEMMA StepUpload ==
    ASSUME Typed, Agree(row, log, seen), NEW o, StepFits(foreign, o), o.do = "upload", Goes(o, row)
    PROVE  StepKept(o)
  <1> PICK y : y = After(o, row)
    OBVIOUS
  <1>a. row \in RowType /\ foreign \in BOOLEAN /\ log.pct \in Nat /\ log.weight \in Nat
    BY DEF Typed
  <1>1. PICK e, a :
            /\ e = IF o.expiry # 0 THEN o.expiry ELSE row.expiry
            /\ a = IF foreign /\ row.approval.expiry # 0 THEN [NoApproval EXCEPT !.previous = row.approval.expiry] ELSE NoApproval
    OBVIOUS
  <1>2. e \in Nat /\ (~foreign => e = 0) /\ a \in Approval /\ ~a.approved
    BY <1>a, <1>1 DEF RowType, Approval, NoApproval, StepFits, Agree
  <1>3. y = [row EXCEPT !.file = @ + 1, !.expiry = e, !.approval = a]
    BY <1>a, <1>1 DEF After, Uploaded, RowType
  <1>b. row.file + 1 \in Nat
    BY <1>a DEF RowType
  <1>4. y \in RowType
    BY <1>3, <1>a, <1>1, <1>2, <1>b DEF RowType
  <1>5. /\ y.file = row.file + 1 /\ y.expiry = e /\ y.approval = a
        /\ Admission(y) = Admission(row)
        /\ Standing(y) = Standing(row)
    BY <1>a, <1>3 DEF RowType, Document, Admission, Standing
  <1>6. Seen(o, row) = seen
    BY DEF Seen
  <1>7. Seen(o, row) \in SeenType
    BY <1>6, <1>a DEF Typed, SeenType, RowType
  <1>8. Logged(o) = [pct |-> log.pct + 0, weight |-> log.weight + 0] /\ Logged(o).pct \in Nat /\ Logged(o).weight \in Nat
    BY <1>a DEF Logged, StepFits
  <1>9. Agree(y, Logged(o), Seen(o, row))
    BY <1>a, <1>1, <1>2, <1>5, <1>6, <1>8 DEF Agree, Document, Admission, Standing, RowType
  <1>10. Overdue(y) => o.do # "reactivate" /\ (Overdue(row) \/ (o.do = "approveDocument" /\ foreign))
    BY <1>a, <1>1, <1>2, <1>5 DEF Overdue, Expired, Due, Document, Standing, Agree, RowType
  <1>11. Logged(o).weight >= ReviewWeight =>
             y.flagged \/ o.do = "demerit" \/ (o.do # "weigh" /\ log.weight >= ReviewWeight /\ ~row.flagged)
    BY <1>a, <1>1, <1>2, <1>5, <1>8 DEF Standing
  <1> QED
    BY <1>4, <1>7, <1>8, <1>9, <1>10, <1>11 DEF StepKept, Logged

LEMMA StepReplace ==
    ASSUME Typed, Agree(row, log, seen), NEW o, StepFits(foreign, o), o.do = "replace", Goes(o, row)
    PROVE  StepKept(o)
  <1> PICK y : y = After(o, row)
    OBVIOUS
  <1>a. row \in RowType /\ foreign \in BOOLEAN /\ log.pct \in Nat /\ log.weight \in Nat
    BY DEF Typed
  <1>3. y = [row EXCEPT !.file = @ + 1, !.approval = NoApproval]
    BY DEF After, Replaced
  <1>b. row.file + 1 \in Nat /\ NoApproval \in Approval
    BY <1>a DEF RowType, Approval, NoApproval
  <1>4. y \in RowType
    BY <1>3, <1>a, <1>b DEF RowType
  <1>5. /\ y.file = row.file + 1 /\ y.expiry = row.expiry /\ y.approval = NoApproval
        /\ Admission(y) = Admission(row)
        /\ Standing(y) = Standing(row)
    BY <1>a, <1>3 DEF RowType, Document, Admission, Standing
  <1>6. Seen(o, row) = seen
    BY DEF Seen
  <1>7. Seen(o, row) \in SeenType
    BY <1>6, <1>a DEF Typed, SeenType, RowType
  <1>8. Logged(o) = [pct |-> log.pct + 0, weight |-> log.weight + 0] /\ Logged(o).pct \in Nat /\ Logged(o).weight \in Nat
    BY <1>a DEF Logged, StepFits
  <1>9. Agree(y, Logged(o), Seen(o, row))
    BY <1>a, <1>5, <1>6, <1>8 DEF Agree, Document, Admission, Standing, RowType, NoApproval
  <1>10. Overdue(y) => o.do # "reactivate" /\ (Overdue(row) \/ (o.do = "approveDocument" /\ foreign))
    BY <1>a, <1>5 DEF Overdue, Expired, Due, NoApproval, Document, Standing, Agree, RowType
  <1>11. Logged(o).weight >= ReviewWeight =>
             y.flagged \/ o.do = "demerit" \/ (o.do # "weigh" /\ log.weight >= ReviewWeight /\ ~row.flagged)
    BY <1>a, <1>5, <1>8 DEF Standing
  <1> QED
    BY <1>4, <1>7, <1>8, <1>9, <1>10, <1>11 DEF StepKept, Logged

LEMMA StepEdit ==
    ASSUME Typed, Agree(row, log, seen), NEW o, StepFits(foreign, o), o.do = "edit", Goes(o, row)
    PROVE  StepKept(o)
  <1> PICK y : y = After(o, row)
    OBVIOUS
  <1>a. row \in RowType /\ foreign \in BOOLEAN /\ log.pct \in Nat /\ log.weight \in Nat
    BY DEF Typed
  <1>1. PICK e, a, s, b :
            /\ e = o.expiry
            /\ a = IF o.expiry # row.expiry THEN NoApproval ELSE row.approval
            /\ s = IF row.listed THEN row.status ELSE "pending"
            /\ b = (row.file # 0 /\ (foreign => o.expiry # 0))
    OBVIOUS
  <1>2. e \in Nat /\ (~foreign => e = 0) /\ a \in Approval /\ s \in Statuses /\ b \in BOOLEAN
    BY <1>a, <1>1 DEF RowType, Approval, NoApproval, StepFits, Statuses, Agree
  <1>3. y = [row EXCEPT !.approval = a, !.expiry = e, !.status = s, !.active = b]
    BY <1>a, <1>1 DEF After, Edited, RowType
  <1>4. y \in RowType
    BY <1>3, <1>a, <1>1, <1>2 DEF RowType
  <1>5. /\ y.file = row.file /\ y.expiry = e /\ y.approval = a
        /\ y.status = s /\ y.approved = row.approved /\ y.listed = row.listed /\ y.clips = row.clips /\ y.interview = row.interview
        /\ Standing(y) = Standing(row)
    BY <1>a, <1>3 DEF RowType, Document, Admission, Standing
  <1>6. Seen(o, row) = seen
    BY DEF Seen
  <1>7. Seen(o, row) \in SeenType
    BY <1>6, <1>a DEF Typed, SeenType, RowType
  <1>8. Logged(o) = [pct |-> log.pct + 0, weight |-> log.weight + 0] /\ Logged(o).pct \in Nat /\ Logged(o).weight \in Nat
    BY <1>a DEF Logged, StepFits
  <1>9. Agree(y, Logged(o), Seen(o, row))
    BY <1>a, <1>1, <1>2, <1>5, <1>6, <1>8 DEF Agree, Document, Admission, Standing, RowType, NoApproval
  <1>10. Overdue(y) => o.do # "reactivate" /\ (Overdue(row) \/ (o.do = "approveDocument" /\ foreign))
    BY <1>a, <1>1, <1>2, <1>5 DEF Overdue, Expired, Due, NoApproval, Document, Standing, Agree, RowType
  <1>11. Logged(o).weight >= ReviewWeight =>
             y.flagged \/ o.do = "demerit" \/ (o.do # "weigh" /\ log.weight >= ReviewWeight /\ ~row.flagged)
    BY <1>a, <1>1, <1>2, <1>5, <1>8 DEF Standing
  <1> QED
    BY <1>4, <1>7, <1>8, <1>9, <1>10, <1>11 DEF StepKept, Logged

LEMMA StepAdminEdit ==
    ASSUME Typed, Agree(row, log, seen), NEW o, StepFits(foreign, o), o.do = "adminEdit", Goes(o, row)
    PROVE  StepKept(o)
  <1> PICK y : y = After(o, row)
    OBVIOUS
  <1>a. row \in RowType /\ foreign \in BOOLEAN /\ log.pct \in Nat /\ log.weight \in Nat
    BY DEF Typed
  <1>1. PICK e, a :
            /\ e = o.expiry
            /\ a = IF o.expiry # row.expiry THEN NoApproval ELSE row.approval
    OBVIOUS
  <1>2. e \in Nat /\ (~foreign => e = 0) /\ a \in Approval
    BY <1>a, <1>1 DEF RowType, Approval, NoApproval, StepFits, Agree
  <1>3. y = [row EXCEPT !.approval = a, !.expiry = e, !.location = o.located]
    BY <1>a, <1>1 DEF After, EditedByAdmin, RowType
  <1>4. y \in RowType
    BY <1>3, <1>a, <1>1, <1>2 DEF RowType, StepFits
  <1>5. /\ y.file = row.file /\ y.expiry = e /\ y.approval = a
        /\ Admission(y) = Admission(row)
        /\ Standing(y) = Standing(row)
    BY <1>a, <1>3 DEF RowType, Document, Admission, Standing
  <1>6. Seen(o, row) = seen
    BY DEF Seen
  <1>7. Seen(o, row) \in SeenType
    BY <1>6, <1>a DEF Typed, SeenType, RowType
  <1>8. Logged(o) = [pct |-> log.pct + 0, weight |-> log.weight + 0] /\ Logged(o).pct \in Nat /\ Logged(o).weight \in Nat
    BY <1>a DEF Logged, StepFits
  <1>9. Agree(y, Logged(o), Seen(o, row))
    BY <1>a, <1>1, <1>2, <1>5, <1>6, <1>8 DEF Agree, Document, Admission, Standing, RowType, NoApproval
  <1>10. Overdue(y) => o.do # "reactivate" /\ (Overdue(row) \/ (o.do = "approveDocument" /\ foreign))
    BY <1>a, <1>1, <1>2, <1>5 DEF Overdue, Expired, Due, NoApproval, Document, Standing, Agree, RowType
  <1>11. Logged(o).weight >= ReviewWeight =>
             y.flagged \/ o.do = "demerit" \/ (o.do # "weigh" /\ log.weight >= ReviewWeight /\ ~row.flagged)
    BY <1>a, <1>1, <1>2, <1>5, <1>8 DEF Standing
  <1> QED
    BY <1>4, <1>7, <1>8, <1>9, <1>10, <1>11 DEF StepKept, Logged

LEMMA StepApproveDocument ==
    ASSUME Typed, Agree(row, log, seen), NEW o, StepFits(foreign, o), o.do = "approveDocument", Goes(o, row)
    PROVE  StepKept(o)
  <1> PICK y : y = After(o, row)
    OBVIOUS
  <1>a. row \in RowType /\ foreign \in BOOLEAN /\ log.pct \in Nat /\ log.weight \in Nat
    BY DEF Typed
  <1>1. PICK a :
            /\ a = [approved |-> TRUE, expiry |-> IF foreign THEN row.expiry ELSE 0, previous |-> 0]
    OBVIOUS
  <1>2. a \in Approval /\ a.approved /\ a.expiry = row.expiry
    BY <1>a, <1>1 DEF RowType, Approval, Agree
  <1>3. y = [row EXCEPT !.approval = a]
    BY <1>a, <1>1 DEF After, DocumentApproved, RowType
  <1>4. y \in RowType
    BY <1>3, <1>a, <1>1, <1>2 DEF RowType
  <1>5. /\ y.file = row.file /\ y.expiry = row.expiry /\ y.approval = a
        /\ Admission(y) = Admission(row)
        /\ Standing(y) = Standing(row)
    BY <1>a, <1>3 DEF RowType, Document, Admission, Standing
  <1>6. Seen(o, row) = [seen EXCEPT !.reviewed = row.file, !.agreed = row.expiry]
    BY DEF Seen
  <1>7. Seen(o, row) \in SeenType
    BY <1>6, <1>a DEF Typed, SeenType, RowType
  <1>8. Logged(o) = [pct |-> log.pct + 0, weight |-> log.weight + 0] /\ Logged(o).pct \in Nat /\ Logged(o).weight \in Nat
    BY <1>a DEF Logged, StepFits
  <1>9. Agree(y, Logged(o), Seen(o, row))
    BY <1>a, <1>1, <1>2, <1>5, <1>6, <1>8 DEF Agree, Document, Admission, Standing, RowType
  <1>10. Overdue(y) => o.do # "reactivate" /\ (Overdue(row) \/ (o.do = "approveDocument" /\ foreign))
    BY <1>a, <1>1, <1>2, <1>5 DEF Overdue, Expired, Due, Document, Standing, Agree, RowType
  <1>11. Logged(o).weight >= ReviewWeight =>
             y.flagged \/ o.do = "demerit" \/ (o.do # "weigh" /\ log.weight >= ReviewWeight /\ ~row.flagged)
    BY <1>a, <1>1, <1>2, <1>5, <1>8 DEF Standing
  <1> QED
    BY <1>4, <1>7, <1>8, <1>9, <1>10, <1>11 DEF StepKept, Logged

LEMMA StepWithdraw ==
    ASSUME Typed, Agree(row, log, seen), NEW o, StepFits(foreign, o), o.do = "withdraw", Goes(o, row)
    PROVE  StepKept(o)
  <1> PICK y : y = After(o, row)
    OBVIOUS
  <1>a. row \in RowType /\ foreign \in BOOLEAN /\ log.pct \in Nat /\ log.weight \in Nat
    BY DEF Typed
  <1>3. y = [row EXCEPT !.approval = NoApproval]
    BY DEF After
  <1>b. NoApproval \in Approval
    BY <1>a DEF RowType, Approval, NoApproval
  <1>4. y \in RowType
    BY <1>3, <1>a, <1>b DEF RowType
  <1>5. /\ y.file = row.file /\ y.expiry = row.expiry /\ y.approval = NoApproval
        /\ Admission(y) = Admission(row)
        /\ Standing(y) = Standing(row)
    BY <1>a, <1>3 DEF RowType, Document, Admission, Standing
  <1>6. Seen(o, row) = [seen EXCEPT !.agreed = 0]
    BY DEF Seen
  <1>7. Seen(o, row) \in SeenType
    BY <1>6, <1>a DEF Typed, SeenType, RowType
  <1>8. Logged(o) = [pct |-> log.pct + 0, weight |-> log.weight + 0] /\ Logged(o).pct \in Nat /\ Logged(o).weight \in Nat
    BY <1>a DEF Logged, StepFits
  <1>9. Agree(y, Logged(o), Seen(o, row))
    BY <1>a, <1>5, <1>6, <1>8 DEF Agree, Document, Admission, Standing, RowType, NoApproval
  <1>10. Overdue(y) => o.do # "reactivate" /\ (Overdue(row) \/ (o.do = "approveDocument" /\ foreign))
    BY <1>a, <1>5 DEF Overdue, Expired, Due, NoApproval, Document, Standing, Agree, RowType
  <1>11. Logged(o).weight >= ReviewWeight =>
             y.flagged \/ o.do = "demerit" \/ (o.do # "weigh" /\ log.weight >= ReviewWeight /\ ~row.flagged)
    BY <1>a, <1>5, <1>8 DEF Standing
  <1> QED
    BY <1>4, <1>7, <1>8, <1>9, <1>10, <1>11 DEF StepKept, Logged

LEMMA StepReactivate ==
    ASSUME Typed, Agree(row, log, seen), NEW o, StepFits(foreign, o), o.do = "reactivate", Goes(o, row)
    PROVE  StepKept(o)
  <1> PICK y : y = After(o, row)
    OBVIOUS
  <1>a. row \in RowType /\ foreign \in BOOLEAN /\ log.pct \in Nat /\ log.weight \in Nat
    BY DEF Typed
  <1>1. PICK u, c :
            /\ u = IF row.suspended /\ row.reason = "passport" THEN FALSE ELSE row.suspended
            /\ c = IF row.suspended /\ row.reason = "passport" THEN "none" ELSE row.reason
    OBVIOUS
  <1>2. u \in BOOLEAN /\ c \in {"none", "passport", "rating"}
    BY <1>a, <1>1 DEF RowType, Agree
  <1>3. y = [row EXCEPT !.suspended = u, !.reason = c]
    BY <1>a, <1>1 DEF After, Reactivated, RowType
  <1>4. y \in RowType
    BY <1>3, <1>a, <1>1, <1>2 DEF RowType
  <1>5. /\ Document(y) = Document(row)
        /\ Admission(y) = Admission(row)
        /\ y.suspended = u /\ y.reason = c /\ y.demerit = row.demerit /\ y.flagged = row.flagged
    BY <1>a, <1>3 DEF RowType, Document, Admission, Standing
  <1>6. Seen(o, row) = seen
    BY DEF Seen
  <1>7. Seen(o, row) \in SeenType
    BY <1>6, <1>a DEF Typed, SeenType, RowType
  <1>8. Logged(o) = [pct |-> log.pct + 0, weight |-> log.weight + 0] /\ Logged(o).pct \in Nat /\ Logged(o).weight \in Nat
    BY <1>a DEF Logged, StepFits
  <1>9. Agree(y, Logged(o), Seen(o, row))
    BY <1>a, <1>1, <1>2, <1>5, <1>6, <1>8 DEF Agree, Document, Admission, Standing, RowType
  <1>10. Overdue(y) => o.do # "reactivate" /\ (Overdue(row) \/ (o.do = "approveDocument" /\ foreign))
    BY <1>a, <1>1, <1>2, <1>5 DEF Overdue, Expired, Due, Document, Standing, Agree, RowType
  <1>11. Logged(o).weight >= ReviewWeight =>
             y.flagged \/ o.do = "demerit" \/ (o.do # "weigh" /\ log.weight >= ReviewWeight /\ ~row.flagged)
    BY <1>a, <1>1, <1>2, <1>5, <1>8 DEF Standing
  <1> QED
    BY <1>4, <1>7, <1>8, <1>9, <1>10, <1>11 DEF StepKept, Logged

LEMMA StepApprove ==
    ASSUME Typed, Agree(row, log, seen), NEW o, StepFits(foreign, o), o.do = "approve", Goes(o, row)
    PROVE  StepKept(o)
  <1> PICK y : y = After(o, row)
    OBVIOUS
  <1>a. row \in RowType /\ foreign \in BOOLEAN /\ log.pct \in Nat /\ log.weight \in Nat
    BY DEF Typed
  <1>3. y = [row EXCEPT !.approved = TRUE, !.listed = TRUE]
    BY DEF After
  <1>4. y \in RowType
    BY <1>3, <1>a DEF RowType
  <1>5. /\ Document(y) = Document(row)
        /\ y.status = row.status /\ y.approved = TRUE /\ y.listed = TRUE /\ y.clips = row.clips /\ y.interview = row.interview
        /\ Standing(y) = Standing(row)
    BY <1>a, <1>3 DEF RowType, Document, Admission, Standing
  <1>6. Seen(o, row) = seen
    BY DEF Seen
  <1>7. Seen(o, row) \in SeenType
    BY <1>6, <1>a DEF Typed, SeenType, RowType
  <1>8. Logged(o) = [pct |-> log.pct + 0, weight |-> log.weight + 0] /\ Logged(o).pct \in Nat /\ Logged(o).weight \in Nat
    BY <1>a DEF Logged, StepFits
  <1>9. Agree(y, Logged(o), Seen(o, row))
    <2>1. y.approved = y.listed /\ y.status = row.status /\ y.clips = row.clips /\ y.interview = row.interview
      BY <1>5 DEF Admission
    <2>2. Document(y) = Document(row) /\ Standing(y) = Standing(row) /\ y.approved
      BY <1>5 DEF Admission
    <2> QED
      BY <2>1, <2>2, <1>6, <1>8, <1>a DEF Agree, Document, Standing
  <1>10. Overdue(y) => o.do # "reactivate" /\ (Overdue(row) \/ (o.do = "approveDocument" /\ foreign))
    BY <1>a, <1>5 DEF Overdue, Expired, Due, Document, Standing, Agree, RowType
  <1>11. Logged(o).weight >= ReviewWeight =>
             y.flagged \/ o.do = "demerit" \/ (o.do # "weigh" /\ log.weight >= ReviewWeight /\ ~row.flagged)
    BY <1>a, <1>5, <1>8 DEF Standing
  <1> QED
    BY <1>4, <1>7, <1>8, <1>9, <1>10, <1>11 DEF StepKept, Logged

LEMMA StepSetApproval ==
    ASSUME Typed, Agree(row, log, seen), NEW o, StepFits(foreign, o), o.do = "setApproval", Goes(o, row)
    PROVE  StepKept(o)
  <1> PICK y : y = After(o, row)
    OBVIOUS
  <1>a. row \in RowType /\ foreign \in BOOLEAN /\ log.pct \in Nat /\ log.weight \in Nat
    BY DEF Typed
  <1>1. PICK s :
            /\ s = IF o.approved THEN "approved" ELSE "pending"
    OBVIOUS
  <1>2. s \in Statuses
    BY <1>a, <1>1 DEF RowType, Statuses, Agree
  <1>3. y = [row EXCEPT !.approved = o.approved, !.listed = o.approved, !.status = s]
    BY <1>a, <1>1 DEF After, ApprovalSet, RowType
  <1>4. y \in RowType
    BY <1>3, <1>a, <1>1, <1>2 DEF RowType, StepFits
  <1>5. /\ Document(y) = Document(row)
        /\ y.status = s /\ y.approved = o.approved /\ y.listed = o.approved /\ y.clips = row.clips /\ y.interview = row.interview
        /\ Standing(y) = Standing(row)
    BY <1>a, <1>3 DEF RowType, Document, Admission, Standing
  <1>6. Seen(o, row) = seen
    BY DEF Seen
  <1>7. Seen(o, row) \in SeenType
    BY <1>6, <1>a DEF Typed, SeenType, RowType
  <1>8. Logged(o) = [pct |-> log.pct + 0, weight |-> log.weight + 0] /\ Logged(o).pct \in Nat /\ Logged(o).weight \in Nat
    BY <1>a DEF Logged, StepFits
  <1>9. Agree(y, Logged(o), Seen(o, row))
    BY <1>a, <1>1, <1>2, <1>5, <1>6, <1>8 DEF Agree, Document, Admission, Standing, RowType
  <1>10. Overdue(y) => o.do # "reactivate" /\ (Overdue(row) \/ (o.do = "approveDocument" /\ foreign))
    BY <1>a, <1>1, <1>2, <1>5 DEF Overdue, Expired, Due, Document, Standing, Agree, RowType
  <1>11. Logged(o).weight >= ReviewWeight =>
             y.flagged \/ o.do = "demerit" \/ (o.do # "weigh" /\ log.weight >= ReviewWeight /\ ~row.flagged)
    BY <1>a, <1>1, <1>2, <1>5, <1>8 DEF Standing
  <1> QED
    BY <1>4, <1>7, <1>8, <1>9, <1>10, <1>11 DEF StepKept, Logged

LEMMA StepSetApplication ==
    ASSUME Typed, Agree(row, log, seen), NEW o, StepFits(foreign, o), o.do = "setApplication", Goes(o, row)
    PROVE  StepKept(o)
  <1> PICK y : y = After(o, row)
    OBVIOUS
  <1>a. row \in RowType /\ foreign \in BOOLEAN /\ log.pct \in Nat /\ log.weight \in Nat
    BY DEF Typed
  <1>1. PICK b :
            /\ b = (o.status = "approved")
    OBVIOUS
  <1>2. b \in BOOLEAN
    BY <1>a, <1>1 DEF RowType, Agree
  <1>3. y = [row EXCEPT !.status = o.status, !.approved = b, !.listed = b]
    BY <1>a, <1>1 DEF After, ApplicationSet, RowType
  <1>4. y \in RowType
    BY <1>3, <1>a, <1>1, <1>2 DEF RowType, StepFits
  <1>5. /\ Document(y) = Document(row)
        /\ y.status = o.status /\ y.approved = b /\ y.listed = b /\ y.clips = row.clips /\ y.interview = row.interview
        /\ Standing(y) = Standing(row)
    BY <1>a, <1>3 DEF RowType, Document, Admission, Standing
  <1>6. Seen(o, row) = seen
    BY DEF Seen
  <1>7. Seen(o, row) \in SeenType
    BY <1>6, <1>a DEF Typed, SeenType, RowType
  <1>8. Logged(o) = [pct |-> log.pct + 0, weight |-> log.weight + 0] /\ Logged(o).pct \in Nat /\ Logged(o).weight \in Nat
    BY <1>a DEF Logged, StepFits
  <1>9. Agree(y, Logged(o), Seen(o, row))
    BY <1>a, <1>1, <1>2, <1>5, <1>6, <1>8 DEF Agree, Goes, Document, Admission, Standing, RowType
  <1>10. Overdue(y) => o.do # "reactivate" /\ (Overdue(row) \/ (o.do = "approveDocument" /\ foreign))
    BY <1>a, <1>1, <1>2, <1>5 DEF Overdue, Expired, Due, Document, Standing, Agree, RowType
  <1>11. Logged(o).weight >= ReviewWeight =>
             y.flagged \/ o.do = "demerit" \/ (o.do # "weigh" /\ log.weight >= ReviewWeight /\ ~row.flagged)
    BY <1>a, <1>1, <1>2, <1>5, <1>8 DEF Standing
  <1> QED
    BY <1>4, <1>7, <1>8, <1>9, <1>10, <1>11 DEF StepKept, Logged

LEMMA StepLift ==
    ASSUME Typed, Agree(row, log, seen), NEW o, StepFits(foreign, o), o.do = "lift", Goes(o, row)
    PROVE  StepKept(o)
  <1> PICK y : y = After(o, row)
    OBVIOUS
  <1>a. row \in RowType /\ foreign \in BOOLEAN /\ log.pct \in Nat /\ log.weight \in Nat
    BY DEF Typed
  <1>3. y = [row EXCEPT !.suspended = FALSE]
    BY DEF After
  <1>4. y \in RowType
    BY <1>3, <1>a DEF RowType
  <1>5. /\ Document(y) = Document(row)
        /\ Admission(y) = Admission(row)
        /\ y.suspended = FALSE /\ y.reason = row.reason /\ y.demerit = row.demerit /\ y.flagged = row.flagged
    BY <1>a, <1>3 DEF RowType, Document, Admission, Standing
  <1>6. Seen(o, row) = [seen EXCEPT !.rated = FALSE, !.lifted = today]
    BY DEF Seen
  <1>7. Seen(o, row) \in SeenType
    BY <1>6, <1>a DEF Typed, SeenType, RowType
  <1>8. Logged(o) = [pct |-> log.pct + 0, weight |-> log.weight + 0] /\ Logged(o).pct \in Nat /\ Logged(o).weight \in Nat
    BY <1>a DEF Logged, StepFits
  <1>9. Agree(y, Logged(o), Seen(o, row))
    BY <1>a, <1>5, <1>6, <1>8 DEF Agree, Document, Admission, Standing, RowType
  <1>10. Overdue(y) => o.do # "reactivate" /\ (Overdue(row) \/ (o.do = "approveDocument" /\ foreign))
    BY <1>a, <1>5 DEF Overdue, Expired, Due, Document, Standing, Agree, RowType
  <1>11. Logged(o).weight >= ReviewWeight =>
             y.flagged \/ o.do = "demerit" \/ (o.do # "weigh" /\ log.weight >= ReviewWeight /\ ~row.flagged)
    BY <1>a, <1>5, <1>8 DEF Standing
  <1> QED
    BY <1>4, <1>7, <1>8, <1>9, <1>10, <1>11 DEF StepKept, Logged

LEMMA StepNoShow ==
    ASSUME Typed, Agree(row, log, seen), NEW o, StepFits(foreign, o), o.do = "noShow", Goes(o, row)
    PROVE  StepKept(o)
  <1> PICK y : y = After(o, row)
    OBVIOUS
  <1>a. row \in RowType /\ foreign \in BOOLEAN /\ log.pct \in Nat /\ log.weight \in Nat
    BY DEF Typed
  <1>3. y = [row EXCEPT !.noShows = @ + 1]
    BY DEF After
  <1>4. y \in RowType
    BY <1>3, <1>a DEF RowType
  <1>5. /\ Document(y) = Document(row)
        /\ Admission(y) = Admission(row)
        /\ Standing(y) = Standing(row)
    BY <1>a, <1>3 DEF RowType, Document, Admission, Standing
  <1>6. Seen(o, row) = seen
    BY DEF Seen
  <1>7. Seen(o, row) \in SeenType
    BY <1>6, <1>a DEF Typed, SeenType, RowType
  <1>8. Logged(o) = [pct |-> log.pct + 0, weight |-> log.weight + 0] /\ Logged(o).pct \in Nat /\ Logged(o).weight \in Nat
    BY <1>a DEF Logged, StepFits
  <1>9. Agree(y, Logged(o), Seen(o, row))
    BY <1>a, <1>5, <1>6, <1>8 DEF Agree, Document, Admission, Standing, RowType
  <1>10. Overdue(y) => o.do # "reactivate" /\ (Overdue(row) \/ (o.do = "approveDocument" /\ foreign))
    BY <1>a, <1>5 DEF Overdue, Expired, Due, Document, Standing, Agree, RowType
  <1>11. Logged(o).weight >= ReviewWeight =>
             y.flagged \/ o.do = "demerit" \/ (o.do # "weigh" /\ log.weight >= ReviewWeight /\ ~row.flagged)
    BY <1>a, <1>5, <1>8 DEF Standing
  <1> QED
    BY <1>4, <1>7, <1>8, <1>9, <1>10, <1>11 DEF StepKept, Logged

LEMMA StepDemerit ==
    ASSUME Typed, Agree(row, log, seen), NEW o, StepFits(foreign, o), o.do = "demerit", Goes(o, row)
    PROVE  StepKept(o)
  <1> PICK y : y = After(o, row)
    OBVIOUS
  <1>a. row \in RowType /\ foreign \in BOOLEAN /\ log.pct \in Nat /\ log.weight \in Nat
    BY DEF Typed
  <1>1. PICK d, u, c :
            /\ d = row.demerit + o.pct
            /\ u = (row.suspended \/ BelowThreshold(o.base, row.demerit + o.pct))
            /\ c = IF BelowThreshold(o.base, row.demerit + o.pct) THEN "rating" ELSE row.reason
    OBVIOUS
  <1>2. d \in Nat /\ u \in BOOLEAN /\ c \in {"none", "passport", "rating"}
    BY <1>a, <1>1 DEF RowType, StepFits, Agree
  <1>3. y = [row EXCEPT !.demerit = d, !.suspended = u, !.reason = c]
    BY <1>a, <1>1 DEF After, Penalized, RowType
  <1>4. y \in RowType
    BY <1>3, <1>a, <1>1, <1>2 DEF RowType
  <1>5. /\ Document(y) = Document(row)
        /\ Admission(y) = Admission(row)
        /\ y.suspended = u /\ y.reason = c /\ y.demerit = d /\ y.flagged = row.flagged
    BY <1>a, <1>3 DEF RowType, Document, Admission, Standing
  <1>6. Seen(o, row) = [seen EXCEPT !.rated = @ \/ BelowThreshold(o.base, row.demerit + o.pct)]
    BY DEF Seen
  <1>7. Seen(o, row) \in SeenType
    BY <1>6, <1>a DEF Typed, SeenType, RowType
  <1>8. Logged(o) = [pct |-> log.pct + o.pct, weight |-> log.weight + o.weight] /\ Logged(o).pct \in Nat /\ Logged(o).weight \in Nat
    BY <1>a DEF Logged, StepFits
  <1>9. Agree(y, Logged(o), Seen(o, row))
    BY <1>a, <1>1, <1>2, <1>5, <1>6, <1>8 DEF Agree, Document, Admission, Standing, Typed, SeenType, RowType
  <1>10. Overdue(y) => o.do # "reactivate" /\ (Overdue(row) \/ (o.do = "approveDocument" /\ foreign))
    BY <1>a, <1>1, <1>2, <1>5 DEF Overdue, Expired, Due, Document, Standing, Agree, RowType
  <1>11. Logged(o).weight >= ReviewWeight =>
             y.flagged \/ o.do = "demerit" \/ (o.do # "weigh" /\ log.weight >= ReviewWeight /\ ~row.flagged)
    BY <1>a, <1>1, <1>2, <1>5, <1>8 DEF Standing
  <1> QED
    BY <1>4, <1>7, <1>8, <1>9, <1>10, <1>11 DEF StepKept, Logged

LEMMA StepWeigh ==
    ASSUME Typed, Agree(row, log, seen), NEW o, StepFits(foreign, o), o.do = "weigh", Goes(o, row)
    PROVE  StepKept(o)
  <1> PICK y : y = After(o, row)
    OBVIOUS
  <1>a. row \in RowType /\ foreign \in BOOLEAN /\ log.pct \in Nat /\ log.weight \in Nat
    BY DEF Typed
  <1>1. PICK f :
            /\ f = (row.flagged \/ log.weight + o.weight >= ReviewWeight)
    OBVIOUS
  <1>2. f \in BOOLEAN
    BY <1>a, <1>1 DEF RowType, Agree
  <1>3. y = [row EXCEPT !.flagged = f]
    BY <1>a, <1>1 DEF After, Weighed, RowType
  <1>4. y \in RowType
    BY <1>3, <1>a, <1>1, <1>2 DEF RowType
  <1>5. /\ Document(y) = Document(row)
        /\ Admission(y) = Admission(row)
        /\ y.suspended = row.suspended /\ y.reason = row.reason /\ y.demerit = row.demerit /\ y.flagged = f
    BY <1>a, <1>3 DEF RowType, Document, Admission, Standing
  <1>6. Seen(o, row) = seen
    BY DEF Seen
  <1>7. Seen(o, row) \in SeenType
    BY <1>6, <1>a DEF Typed, SeenType, RowType
  <1>8. Logged(o) = [pct |-> log.pct + 0, weight |-> log.weight + o.weight] /\ Logged(o).pct \in Nat /\ Logged(o).weight \in Nat
    BY <1>a DEF Logged, StepFits
  <1>9. Agree(y, Logged(o), Seen(o, row))
    BY <1>a, <1>1, <1>2, <1>5, <1>6, <1>8 DEF Agree, Document, Admission, Standing, RowType
  <1>10. Overdue(y) => o.do # "reactivate" /\ (Overdue(row) \/ (o.do = "approveDocument" /\ foreign))
    BY <1>a, <1>1, <1>2, <1>5 DEF Overdue, Expired, Due, Document, Standing, Agree, RowType
  <1>c. row.flagged \/ log.weight + o.weight >= ReviewWeight => y.flagged
    BY <1>1, <1>3, <1>a DEF RowType
  <1>11. Logged(o).weight >= ReviewWeight =>
             y.flagged \/ o.do = "demerit" \/ (o.do # "weigh" /\ log.weight >= ReviewWeight /\ ~row.flagged)
    BY <1>a, <1>1, <1>2, <1>5, <1>8, <1>c DEF Standing
  <1> QED
    BY <1>4, <1>7, <1>8, <1>9, <1>10, <1>11 DEF StepKept, Logged

LEMMA StepFitness ==
    ASSUME Typed, Agree(row, log, seen), NEW o, StepFits(foreign, o), o.do = "fitness", Goes(o, row)
    PROVE  StepKept(o)
  <1> PICK y : y = After(o, row)
    OBVIOUS
  <1>a. row \in RowType /\ foreign \in BOOLEAN /\ log.pct \in Nat /\ log.weight \in Nat
    BY DEF Typed
  <1>1. PICK f :
            /\ f = (row.flagged \/ row.noShows >= 2)
    OBVIOUS
  <1>2. f \in BOOLEAN
    BY <1>a, <1>1 DEF RowType, Agree
  <1>3. y = [row EXCEPT !.flagged = f]
    BY <1>a, <1>1 DEF After, RowType
  <1>4. y \in RowType
    BY <1>3, <1>a, <1>1, <1>2 DEF RowType
  <1>5. /\ Document(y) = Document(row)
        /\ Admission(y) = Admission(row)
        /\ y.suspended = row.suspended /\ y.reason = row.reason /\ y.demerit = row.demerit /\ y.flagged = f
    BY <1>a, <1>3 DEF RowType, Document, Admission, Standing
  <1>6. Seen(o, row) = seen
    BY DEF Seen
  <1>7. Seen(o, row) \in SeenType
    BY <1>6, <1>a DEF Typed, SeenType, RowType
  <1>8. Logged(o) = [pct |-> log.pct + 0, weight |-> log.weight + 0] /\ Logged(o).pct \in Nat /\ Logged(o).weight \in Nat
    BY <1>a DEF Logged, StepFits
  <1>9. Agree(y, Logged(o), Seen(o, row))
    BY <1>a, <1>1, <1>2, <1>5, <1>6, <1>8 DEF Agree, Document, Admission, Standing, RowType
  <1>10. Overdue(y) => o.do # "reactivate" /\ (Overdue(row) \/ (o.do = "approveDocument" /\ foreign))
    BY <1>a, <1>1, <1>2, <1>5 DEF Overdue, Expired, Due, Document, Standing, Agree, RowType
  <1>c. row.flagged => y.flagged
    BY <1>1, <1>3, <1>a DEF RowType
  <1>11. Logged(o).weight >= ReviewWeight =>
             y.flagged \/ o.do = "demerit" \/ (o.do # "weigh" /\ log.weight >= ReviewWeight /\ ~row.flagged)
    BY <1>a, <1>1, <1>2, <1>5, <1>8, <1>c DEF Standing
  <1> QED
    BY <1>4, <1>7, <1>8, <1>9, <1>10, <1>11 DEF StepKept, Logged

LEMMA StepComply ==
    ASSUME Typed, Agree(row, log, seen), NEW o, StepFits(foreign, o), o.do = "comply", Goes(o, row)
    PROVE  StepKept(o)
  <1> PICK y : y = After(o, row)
    OBVIOUS
  <1>a. row \in RowType /\ foreign \in BOOLEAN /\ log.pct \in Nat /\ log.weight \in Nat
    BY DEF Typed
  <1>1. PICK u, c :
            /\ u = (row.suspended \/ Lapsed(row))
            /\ c = IF Lapsed(row) /\ ~row.suspended THEN "passport" ELSE row.reason
    OBVIOUS
  <1>2. u \in BOOLEAN /\ c \in {"none", "passport", "rating"}
    BY <1>a, <1>1 DEF RowType, Agree
  <1>3. y = [row EXCEPT !.suspended = u, !.reason = c]
    BY <1>a, <1>1 DEF After, Complied, RowType
  <1>4. y \in RowType
    BY <1>3, <1>a, <1>1, <1>2 DEF RowType
  <1>5. /\ Document(y) = Document(row)
        /\ Admission(y) = Admission(row)
        /\ y.suspended = u /\ y.reason = c /\ y.demerit = row.demerit /\ y.flagged = row.flagged
    BY <1>a, <1>3 DEF RowType, Document, Admission, Standing
  <1>6. Seen(o, row) = [seen EXCEPT !.swept = today]
    BY DEF Seen
  <1>7. Seen(o, row) \in SeenType
    BY <1>6, <1>a DEF Typed, SeenType, RowType
  <1>8. Logged(o) = [pct |-> log.pct + 0, weight |-> log.weight + 0] /\ Logged(o).pct \in Nat /\ Logged(o).weight \in Nat
    BY <1>a DEF Logged, StepFits
  <1>9. Agree(y, Logged(o), Seen(o, row))
    BY <1>a, <1>1, <1>2, <1>5, <1>6, <1>8 DEF Agree, Document, Admission, Standing, RowType, Lapsed
  <1>10. Overdue(y) => o.do # "reactivate" /\ (Overdue(row) \/ (o.do = "approveDocument" /\ foreign))
    BY <1>a, <1>1, <1>2, <1>5 DEF Overdue, Expired, Due, Lapsed, Document, Standing, Agree, RowType
  <1>11. Logged(o).weight >= ReviewWeight =>
             y.flagged \/ o.do = "demerit" \/ (o.do # "weigh" /\ log.weight >= ReviewWeight /\ ~row.flagged)
    BY <1>a, <1>1, <1>2, <1>5, <1>8 DEF Standing
  <1> QED
    BY <1>4, <1>7, <1>8, <1>9, <1>10, <1>11 DEF StepKept, Logged

LEMMA StepRecord ==
    ASSUME Typed, Agree(row, log, seen), NEW o, StepFits(foreign, o), o.do = "record", Goes(o, row)
    PROVE  StepKept(o)
  <1> PICK y : y = After(o, row)
    OBVIOUS
  <1>a. row \in RowType /\ foreign \in BOOLEAN /\ log.pct \in Nat /\ log.weight \in Nat
    BY DEF Typed
  <1>3. y = [row EXCEPT !.clips = @ \cup {o.question}, !.interview = FALSE]
    BY DEF After, Recorded
  <1>b. row.clips \cup {o.question} \in SUBSET Questions
    BY <1>a DEF RowType, StepFits
  <1>4. y \in RowType
    BY <1>3, <1>a, <1>b DEF RowType
  <1>5. /\ Document(y) = Document(row)
        /\ y.status = row.status /\ y.approved = row.approved /\ y.listed = row.listed /\ y.clips = row.clips \cup {o.question} /\ y.interview = FALSE
        /\ Standing(y) = Standing(row)
    BY <1>a, <1>3 DEF RowType, Document, Admission, Standing
  <1>6. Seen(o, row) = seen
    BY DEF Seen
  <1>7. Seen(o, row) \in SeenType
    BY <1>6, <1>a DEF Typed, SeenType, RowType
  <1>8. Logged(o) = [pct |-> log.pct + 0, weight |-> log.weight + 0] /\ Logged(o).pct \in Nat /\ Logged(o).weight \in Nat
    BY <1>a DEF Logged, StepFits
  <1>9. Agree(y, Logged(o), Seen(o, row))
    BY <1>a, <1>5, <1>6, <1>8 DEF Agree, Document, Admission, Standing, RowType
  <1>10. Overdue(y) => o.do # "reactivate" /\ (Overdue(row) \/ (o.do = "approveDocument" /\ foreign))
    BY <1>a, <1>5 DEF Overdue, Expired, Due, Document, Standing, Agree, RowType
  <1>11. Logged(o).weight >= ReviewWeight =>
             y.flagged \/ o.do = "demerit" \/ (o.do # "weigh" /\ log.weight >= ReviewWeight /\ ~row.flagged)
    BY <1>a, <1>5, <1>8 DEF Standing
  <1> QED
    BY <1>4, <1>7, <1>8, <1>9, <1>10, <1>11 DEF StepKept, Logged

LEMMA StepSubmit ==
    ASSUME Typed, Agree(row, log, seen), NEW o, StepFits(foreign, o), o.do = "submit", Goes(o, row)
    PROVE  StepKept(o)
  <1> PICK y : y = After(o, row)
    OBVIOUS
  <1>a. row \in RowType /\ foreign \in BOOLEAN /\ log.pct \in Nat /\ log.weight \in Nat
    BY DEF Typed
  <1>3. y = [row EXCEPT !.interview = TRUE]
    BY DEF After
  <1>4. y \in RowType
    BY <1>3, <1>a DEF RowType
  <1>5. /\ Document(y) = Document(row)
        /\ y.status = row.status /\ y.approved = row.approved /\ y.listed = row.listed /\ y.clips = row.clips /\ y.interview = TRUE
        /\ Standing(y) = Standing(row)
    BY <1>a, <1>3 DEF RowType, Document, Admission, Standing
  <1>6. Seen(o, row) = seen
    BY DEF Seen
  <1>7. Seen(o, row) \in SeenType
    BY <1>6, <1>a DEF Typed, SeenType, RowType
  <1>8. Logged(o) = [pct |-> log.pct + 0, weight |-> log.weight + 0] /\ Logged(o).pct \in Nat /\ Logged(o).weight \in Nat
    BY <1>a DEF Logged, StepFits
  <1>9. Agree(y, Logged(o), Seen(o, row))
    BY <1>a, <1>5, <1>6, <1>8 DEF Agree, Goes, Document, Admission, Standing, RowType
  <1>10. Overdue(y) => o.do # "reactivate" /\ (Overdue(row) \/ (o.do = "approveDocument" /\ foreign))
    BY <1>a, <1>5 DEF Overdue, Expired, Due, Document, Standing, Agree, RowType
  <1>11. Logged(o).weight >= ReviewWeight =>
             y.flagged \/ o.do = "demerit" \/ (o.do # "weigh" /\ log.weight >= ReviewWeight /\ ~row.flagged)
    BY <1>a, <1>5, <1>8 DEF Standing
  <1> QED
    BY <1>4, <1>7, <1>8, <1>9, <1>10, <1>11 DEF StepKept, Logged

LEMMA StepRequest ==
    ASSUME Typed, Agree(row, log, seen), NEW o, StepFits(foreign, o), o.do = "request", Goes(o, row)
    PROVE  StepKept(o)
  <1> PICK y : y = After(o, row)
    OBVIOUS
  <1>a. row \in RowType /\ foreign \in BOOLEAN /\ log.pct \in Nat /\ log.weight \in Nat
    BY DEF Typed
  <1>3. y = [row EXCEPT !.requested = TRUE]
    BY DEF After
  <1>4. y \in RowType
    BY <1>3, <1>a DEF RowType
  <1>5. /\ Document(y) = Document(row)
        /\ Admission(y) = Admission(row)
        /\ Standing(y) = Standing(row)
    BY <1>a, <1>3 DEF RowType, Document, Admission, Standing
  <1>6. Seen(o, row) = seen
    BY DEF Seen
  <1>7. Seen(o, row) \in SeenType
    BY <1>6, <1>a DEF Typed, SeenType, RowType
  <1>8. Logged(o) = [pct |-> log.pct + 0, weight |-> log.weight + 0] /\ Logged(o).pct \in Nat /\ Logged(o).weight \in Nat
    BY <1>a DEF Logged, StepFits
  <1>9. Agree(y, Logged(o), Seen(o, row))
    BY <1>a, <1>5, <1>6, <1>8 DEF Agree, Document, Admission, Standing, RowType
  <1>10. Overdue(y) => o.do # "reactivate" /\ (Overdue(row) \/ (o.do = "approveDocument" /\ foreign))
    BY <1>a, <1>5 DEF Overdue, Expired, Due, Document, Standing, Agree, RowType
  <1>11. Logged(o).weight >= ReviewWeight =>
             y.flagged \/ o.do = "demerit" \/ (o.do # "weigh" /\ log.weight >= ReviewWeight /\ ~row.flagged)
    BY <1>a, <1>5, <1>8 DEF Standing
  <1> QED
    BY <1>4, <1>7, <1>8, <1>9, <1>10, <1>11 DEF StepKept, Logged

LEMMA StepAllow ==
    ASSUME Typed, Agree(row, log, seen), NEW o, StepFits(foreign, o), o.do = "allow", Goes(o, row)
    PROVE  StepKept(o)
  <1> PICK y : y = After(o, row)
    OBVIOUS
  <1>a. row \in RowType /\ foreign \in BOOLEAN /\ log.pct \in Nat /\ log.weight \in Nat
    BY DEF Typed
  <1>3. y = [row EXCEPT !.clips = {}, !.interview = FALSE, !.requested = FALSE]
    BY DEF After, ResubmissionAllowed
  <1>4. y \in RowType
    BY <1>3, <1>a DEF RowType
  <1>5. /\ Document(y) = Document(row)
        /\ y.status = row.status /\ y.approved = row.approved /\ y.listed = row.listed /\ y.clips = {} /\ y.interview = FALSE
        /\ Standing(y) = Standing(row)
    BY <1>a, <1>3 DEF RowType, Document, Admission, Standing
  <1>6. Seen(o, row) = seen
    BY DEF Seen
  <1>7. Seen(o, row) \in SeenType
    BY <1>6, <1>a DEF Typed, SeenType, RowType
  <1>8. Logged(o) = [pct |-> log.pct + 0, weight |-> log.weight + 0] /\ Logged(o).pct \in Nat /\ Logged(o).weight \in Nat
    BY <1>a DEF Logged, StepFits
  <1>9. Agree(y, Logged(o), Seen(o, row))
    BY <1>a, <1>5, <1>6, <1>8 DEF Agree, Document, Admission, Standing, RowType
  <1>10. Overdue(y) => o.do # "reactivate" /\ (Overdue(row) \/ (o.do = "approveDocument" /\ foreign))
    BY <1>a, <1>5 DEF Overdue, Expired, Due, Document, Standing, Agree, RowType
  <1>11. Logged(o).weight >= ReviewWeight =>
             y.flagged \/ o.do = "demerit" \/ (o.do # "weigh" /\ log.weight >= ReviewWeight /\ ~row.flagged)
    BY <1>a, <1>5, <1>8 DEF Standing
  <1> QED
    BY <1>4, <1>7, <1>8, <1>9, <1>10, <1>11 DEF StepKept, Logged

LEMMA StepBank ==
    ASSUME Typed, Agree(row, log, seen), NEW o, StepFits(foreign, o), o.do = "bank", Goes(o, row)
    PROVE  StepKept(o)
  <1> PICK y : y = After(o, row)
    OBVIOUS
  <1>a. row \in RowType /\ foreign \in BOOLEAN /\ log.pct \in Nat /\ log.weight \in Nat
    BY DEF Typed
  <1>3. y = [row EXCEPT !.banking = TRUE]
    BY DEF After
  <1>4. y \in RowType
    BY <1>3, <1>a DEF RowType
  <1>5. /\ Document(y) = Document(row)
        /\ Admission(y) = Admission(row)
        /\ Standing(y) = Standing(row)
    BY <1>a, <1>3 DEF RowType, Document, Admission, Standing
  <1>6. Seen(o, row) = seen
    BY DEF Seen
  <1>7. Seen(o, row) \in SeenType
    BY <1>6, <1>a DEF Typed, SeenType, RowType
  <1>8. Logged(o) = [pct |-> log.pct + 0, weight |-> log.weight + 0] /\ Logged(o).pct \in Nat /\ Logged(o).weight \in Nat
    BY <1>a DEF Logged, StepFits
  <1>9. Agree(y, Logged(o), Seen(o, row))
    BY <1>a, <1>5, <1>6, <1>8 DEF Agree, Document, Admission, Standing, RowType
  <1>10. Overdue(y) => o.do # "reactivate" /\ (Overdue(row) \/ (o.do = "approveDocument" /\ foreign))
    BY <1>a, <1>5 DEF Overdue, Expired, Due, Document, Standing, Agree, RowType
  <1>11. Logged(o).weight >= ReviewWeight =>
             y.flagged \/ o.do = "demerit" \/ (o.do # "weigh" /\ log.weight >= ReviewWeight /\ ~row.flagged)
    BY <1>a, <1>5, <1>8 DEF Standing
  <1> QED
    BY <1>4, <1>7, <1>8, <1>9, <1>10, <1>11 DEF StepKept, Logged

LEMMA StepLocate ==
    ASSUME Typed, Agree(row, log, seen), NEW o, StepFits(foreign, o), o.do = "locate", Goes(o, row)
    PROVE  StepKept(o)
  <1> PICK y : y = After(o, row)
    OBVIOUS
  <1>a. row \in RowType /\ foreign \in BOOLEAN /\ log.pct \in Nat /\ log.weight \in Nat
    BY DEF Typed
  <1>3. y = [row EXCEPT !.location = TRUE]
    BY DEF After
  <1>4. y \in RowType
    BY <1>3, <1>a DEF RowType
  <1>5. /\ Document(y) = Document(row)
        /\ Admission(y) = Admission(row)
        /\ Standing(y) = Standing(row)
    BY <1>a, <1>3 DEF RowType, Document, Admission, Standing
  <1>6. Seen(o, row) = seen
    BY DEF Seen
  <1>7. Seen(o, row) \in SeenType
    BY <1>6, <1>a DEF Typed, SeenType, RowType
  <1>8. Logged(o) = [pct |-> log.pct + 0, weight |-> log.weight + 0] /\ Logged(o).pct \in Nat /\ Logged(o).weight \in Nat
    BY <1>a DEF Logged, StepFits
  <1>9. Agree(y, Logged(o), Seen(o, row))
    BY <1>a, <1>5, <1>6, <1>8 DEF Agree, Document, Admission, Standing, RowType
  <1>10. Overdue(y) => o.do # "reactivate" /\ (Overdue(row) \/ (o.do = "approveDocument" /\ foreign))
    BY <1>a, <1>5 DEF Overdue, Expired, Due, Document, Standing, Agree, RowType
  <1>11. Logged(o).weight >= ReviewWeight =>
             y.flagged \/ o.do = "demerit" \/ (o.do # "weigh" /\ log.weight >= ReviewWeight /\ ~row.flagged)
    BY <1>a, <1>5, <1>8 DEF Standing
  <1> QED
    BY <1>4, <1>7, <1>8, <1>9, <1>10, <1>11 DEF StepKept, Logged

LEMMA StepPause ==
    ASSUME Typed, Agree(row, log, seen), NEW o, StepFits(foreign, o), o.do = "pause", Goes(o, row)
    PROVE  StepKept(o)
  <1> PICK y : y = After(o, row)
    OBVIOUS
  <1>a. row \in RowType /\ foreign \in BOOLEAN /\ log.pct \in Nat /\ log.weight \in Nat
    BY DEF Typed
  <1>3. y = [row EXCEPT !.active = o.active]
    BY DEF After
  <1>4. y \in RowType
    BY <1>3, <1>a DEF RowType, StepFits
  <1>5. /\ Document(y) = Document(row)
        /\ Admission(y) = Admission(row)
        /\ Standing(y) = Standing(row)
    BY <1>a, <1>3 DEF RowType, Document, Admission, Standing
  <1>6. Seen(o, row) = seen
    BY DEF Seen
  <1>7. Seen(o, row) \in SeenType
    BY <1>6, <1>a DEF Typed, SeenType, RowType
  <1>8. Logged(o) = [pct |-> log.pct + 0, weight |-> log.weight + 0] /\ Logged(o).pct \in Nat /\ Logged(o).weight \in Nat
    BY <1>a DEF Logged, StepFits
  <1>9. Agree(y, Logged(o), Seen(o, row))
    BY <1>a, <1>5, <1>6, <1>8 DEF Agree, Document, Admission, Standing, RowType
  <1>10. Overdue(y) => o.do # "reactivate" /\ (Overdue(row) \/ (o.do = "approveDocument" /\ foreign))
    BY <1>a, <1>5 DEF Overdue, Expired, Due, Document, Standing, Agree, RowType
  <1>11. Logged(o).weight >= ReviewWeight =>
             y.flagged \/ o.do = "demerit" \/ (o.do # "weigh" /\ log.weight >= ReviewWeight /\ ~row.flagged)
    BY <1>a, <1>5, <1>8 DEF Standing
  <1> QED
    BY <1>4, <1>7, <1>8, <1>9, <1>10, <1>11 DEF StepKept, Logged

LEMMA StepHolds ==
    ASSUME Typed, Agree(row, log, seen), NEW o, StepFits(foreign, o), Goes(o, row)
    PROVE  StepKept(o)
  BY StepUpload, StepReplace, StepEdit, StepAdminEdit, StepApproveDocument, StepWithdraw, StepReactivate, StepApprove, StepSetApproval, StepSetApplication, StepLift, StepNoShow, StepDemerit, StepWeigh, StepFitness, StepComply, StepRecord, StepSubmit, StepRequest, StepAllow, StepBank, StepLocate, StepPause DEF StepFits, Kinds

LEMMA WritesNew ==
    ASSUME NEW y, row \in RowType, y \in RowType
    PROVE  Flush(row, y) = y
  <1>1. DOMAIN y = DOMAIN row
    BY DEF RowType
  <1>2. Flush(row, y) = [c \in DOMAIN y |-> y[c]]
    BY <1>1 DEF Flush
  <1>3. y = [c \in DOMAIN y |-> y[c]]
    BY DEF RowType
  <1> QED
    BY <1>2, <1>3

----------------------------------------------------------------------------
(* Sessions                                                                  *)

LEMMA OneStep ==
    ASSUME NEW passport, NEW a, StepFits(passport, a), a.do = "approveDocument" => ~passport, a.do # "demerit"
    PROVE  TodoFits(passport, <<a>>)
  <1>1. <<a>> \in Seq({a}) /\ <<a>> # <<>> /\ Len(<<a>>) = 1 /\ <<a>>[1] = a /\ DOMAIN <<a>> = {1}
    OBVIOUS
  <1> QED
    BY <1>1 DEF TodoFits

LEMMA TwoSteps ==
    ASSUME NEW passport, NEW a, NEW b, StepFits(passport, a), StepFits(passport, b), b.do \notin {"approveDocument", "demerit"},
           a.do = "approveDocument" => b.do = "reactivate", a.do = "demerit" => b.do = "weigh"
    PROVE  TodoFits(passport, <<a, b>>)
  <1> PICK t : t = <<a, b>>
    OBVIOUS
  <1>1. t \in Seq({a, b}) /\ t # <<>> /\ Len(t) = 2 /\ t[1] = a /\ t[2] = b /\ DOMAIN t = 1..2
    OBVIOUS
  <1>2. \A i \in 1..2 : i = 1 \/ i = 2
    OBVIOUS
  <1>3. \A i \in DOMAIN t : t[i].do = "demerit" => i < Len(t) /\ t[i + 1].do = "weigh"
    BY <1>1, <1>2
  <1>4. \A i \in DOMAIN t :
            StepFits(passport, t[i]) /\ (t[i].do = "approveDocument" => i < Len(t) /\ t[i + 1].do = "reactivate")
    BY <1>1, <1>2
  <1> QED
    BY <1>1, <1>3, <1>4 DEF TodoFits

LEMMA FourSteps ==
    ASSUME NEW passport, NEW a, NEW b, NEW c, NEW d, StepFits(passport, a), StepFits(passport, b), StepFits(passport, c), StepFits(passport, d),
           a.do = "noShow", b.do = "demerit", c.do = "weigh", d.do = "fitness"
    PROVE  TodoFits(passport, <<a, b, c, d>>)
  <1> PICK t : t = <<a, b, c, d>>
    OBVIOUS
  <1>1. /\ t \in Seq({a, b, c, d}) /\ t # <<>> /\ Len(t) = 4
        /\ t[1] = a /\ t[2] = b /\ t[3] = c /\ t[4] = d /\ DOMAIN t = 1..4
    OBVIOUS
  <1>2. \A i \in 1..4 : i = 1 \/ i = 2 \/ i = 3 \/ i = 4
    OBVIOUS
  <1>3. \A i \in DOMAIN t : t[i].do = "demerit" => i < Len(t) /\ t[i + 1].do = "weigh"
    BY <1>1, <1>2
  <1>4. \A i \in DOMAIN t : StepFits(passport, t[i]) /\ t[i].do # "approveDocument"
    BY <1>1, <1>2
  <1> QED
    BY <1>1, <1>3, <1>4 DEF TodoFits

LEMMA FirstStep ==
    ASSUME NEW passport, NEW todo, TodoFits(passport, todo)
    PROVE  /\ StepFits(passport, Head(todo)) /\ Len(todo) \in Nat \ {0}
           /\ Head(todo).do = "approveDocument" /\ passport =>
                 Len(todo) # 1 /\ Head(Tail(todo)).do = "reactivate"
           /\ Head(todo).do = "demerit" => Len(todo) # 1 /\ Head(Tail(todo)).do = "weigh"
           /\ Len(todo) # 1 => TodoFits(passport, Tail(todo))
  <1>1. PICK S : todo \in Seq(S)
    BY DEF TodoFits
  <1>2. todo # <<>>
    BY DEF TodoFits
  <1>3. Len(todo) \in Nat \ {0} /\ DOMAIN todo = 1..Len(todo) /\ Head(todo) = todo[1]
    BY <1>1, <1>2
  <1>4. /\ Tail(todo) \in Seq(S) /\ Len(Tail(todo)) = Len(todo) - 1
        /\ \A i \in 1..(Len(todo) - 1) : Tail(todo)[i] = todo[i + 1]
    BY <1>1, <1>2, HeadTailProperties
  <1>5. ASSUME Len(todo) # 1 PROVE Tail(todo) # <<>> /\ Head(Tail(todo)) = todo[2]
    <2>1. 1 \in 1..(Len(todo) - 1)
      BY <1>3, <1>5
    <2>2. Len(Tail(todo)) # 0 /\ Tail(todo)[1] = todo[1 + 1]
      BY <2>1, <1>3, <1>4
    <2>3. Tail(todo) # <<>>
      <3>1. Len(<<>>) = 0
        OBVIOUS
      <3> QED
        BY <2>2, <3>1
    <2>4. Head(Tail(todo)) = Tail(todo)[1]
      BY <1>4, <2>3
    <2> QED
      BY <2>2, <2>3, <2>4
  <1>6. ASSUME Len(todo) # 1 PROVE TodoFits(passport, Tail(todo))
    <2> PICK t : t = Tail(todo)
      OBVIOUS
    <2>1. DOMAIN t = 1..(Len(todo) - 1)
      BY <1>3, <1>4
    <2> SUFFICES ASSUME NEW i \in DOMAIN t
                 PROVE  /\ StepFits(passport, t[i])
                        /\ t[i].do = "approveDocument" /\ passport =>
                              i < Len(t) /\ t[i + 1].do = "reactivate"
                        /\ t[i].do = "demerit" => i < Len(t) /\ t[i + 1].do = "weigh"
      BY <1>4, <1>5, <1>6 DEF TodoFits
    <2>2. i \in Nat \ {0} /\ i + 1 \in DOMAIN todo /\ t[i] = todo[i + 1]
      BY <2>1, <1>3, <1>4
    <2>3. ASSUME i + 1 < Len(todo) PROVE i < Len(t) /\ t[i + 1] = todo[(i + 1) + 1]
      <3>1. i + 1 \in 1..(Len(todo) - 1)
        BY <2>2, <2>3, <1>3
      <3> QED
        BY <3>1, <2>2, <2>3, <1>3, <1>4
    <2> QED
      BY <2>2, <2>3 DEF TodoFits
  <1>7. 1 \in DOMAIN todo
    BY <1>3
  <1> QED
    BY <1>3, <1>5, <1>6, <1>7 DEF TodoFits

LEMMA InvInit == Init => SInv
  <1> SUFFICES ASSUME Init PROVE SInv
    OBVIOUS
  <1>1. Newcomer \in RowType
    BY DEF Newcomer, RowType, Approval, NoApproval, Statuses
  <1>2. ASSUME NEW e \in Nat PROVE Admitted(e) \in RowType
    <2>1. PICK a : a = [NoApproval EXCEPT !.approved = TRUE, !.expiry = e]
      OBVIOUS
    <2>2. a \in Approval
      BY <2>1 DEF NoApproval, Approval
    <2>3. NoApproval.approved = FALSE /\ Newcomer.approval = NoApproval
      BY DEF NoApproval, Newcomer
    <2>4. PICK m : m = [Newcomer EXCEPT !.file = 1, !.expiry = e, !.approval = a, !.status = "approved"]
      OBVIOUS
    <2>5. m \in RowType
      BY <1>1, <2>2, <2>4 DEF RowType, Statuses
    <2>6. PICK n : n = [m EXCEPT !.approved = TRUE, !.listed = TRUE, !.active = TRUE, !.banking = TRUE]
      OBVIOUS
    <2>7. n \in RowType
      BY <2>5, <2>6 DEF RowType
    <2>8. Admitted(e) = [n EXCEPT !.location = TRUE, !.clips = Questions, !.interview = TRUE]
      BY <2>1, <2>4, <2>6 DEF Admitted
    <2> QED
      BY <2>7, <2>8 DEF RowType
  <1>3. MaxDay \in Nat /\ ReviewWeight \in Nat \ {0}
    BY ScreeningTyped
  <1>4. row = Newcomer \/ \E e \in Nat : row = Admitted(e) /\ (~foreign => e = 0)
    BY <1>3 DEF Init
  <1>5. row \in RowType
    BY <1>1, <1>2, <1>4
  <1>6. Typed
    BY <1>5 DEF Init, Typed, SeenType, RowType
  <1>7. SessionsFit
    BY DEF Init, SessionsFit, SessionFits
  <1>8. Agree(row, log, seen) /\ ~row.suspended
    <2>1. CASE row = Newcomer
      BY <2>1 DEF Init, Agree, Newcomer, NoApproval
    <2>2. CASE \E e \in Nat : row = Admitted(e) /\ (~foreign => e = 0)
      <3>1. PICK e \in Nat : row = Admitted(e) /\ (~foreign => e = 0)
        BY <2>2
      <3> QED
        BY <3>1 DEF Init, Agree, Newcomer, Admitted, NoApproval
    <2> QED
      BY <2>1, <2>2, <1>4
  <1>9. Followed
    BY <1>3, <1>8 DEF Init, Followed, Overdue
  <1> QED
    BY <1>6, <1>7, <1>8, <1>9 DEF SInv

----------------------------------------------------------------------------
(* Actions                                                                   *)

(* What a call that begins leaves to do fits.                                *)
LEMMA BeginKept ==
    ASSUME SInv, NEW w \in Workers, NEW call, NEW todo, TodoFits(foreign, todo),
           Begin(w, call, todo)
    PROVE  SInv'
  <1>1. Typed' /\ Agree(row, log, seen)'
    BY DEF SInv, Typed, SeenType, Begin, Agree
  <1>2. DOMAIN sess' = Workers /\ \A v \in Workers \ {w} : sess'[v] = sess[v]
    BY DEF SInv, SessionsFit, Begin
  <1>3. sess[w] = Idle /\ sess'[w] = [todo |-> todo, read |-> FALSE]
    BY DEF SInv, SessionsFit, Begin
  <1>4. foreign' = foreign /\ row' = row /\ log' = log /\ today' = today /\ crashes' = crashes
    BY DEF Begin
  <1>5. SessionsFit'
    <2>1. SessionFits(foreign, row, sess'[w])
      BY <1>3 DEF SessionFits
    <2>2. \A v \in Workers : SessionFits(foreign, row, sess'[v])
      BY <1>2, <2>1 DEF SInv, SessionsFit
    <2> QED
      BY <1>2, <1>4, <2>2 DEF SessionsFit
  <1>6. ASSUME NEW kind, Ahead(kind) PROVE Ahead(kind)'
    <2>1. PICK v \in Workers : sess[v] # Idle /\ Head(sess[v].todo).do = kind
      BY <1>6 DEF Ahead
    <2> QED
      BY <2>1, <1>2, <1>3 DEF Ahead
  <1>7. Overdue(row)' = Overdue(row)
    BY <1>4 DEF Overdue, Expired, Due
  <1>8. Followed'
    BY <1>4, <1>6, <1>7 DEF SInv, Followed
  <1> QED
    BY <1>1, <1>5, <1>8 DEF SInv

LEMMA ExpiriesFit == ASSUME NEW e \in Expiries PROVE e \in Nat /\ (~foreign => e = 0)
  BY ScreeningTyped DEF Expiries, Dates

LEMMA NannyKept ==
    ASSUME SInv, NEW w \in Workers, NannyCalls(w)
    PROVE  SInv'
  <1>1. CASE UploadDocument(w)
    <2>1. PICK e \in Expiries : Begin(w, "upload", <<[do |-> "upload", expiry |-> e]>>)
      BY <1>1 DEF UploadDocument
    <2>2. StepFits(foreign, [do |-> "upload", expiry |-> e])
      BY ExpiriesFit DEF StepFits, Kinds
    <2> QED
      BY <2>1, <2>2, OneStep, BeginKept
  <1>2. CASE EditProfile(w)
    <2>1. PICK e \in Expiries : Begin(w, "edit", <<[do |-> "edit", expiry |-> e]>>)
      BY <1>2 DEF EditProfile
    <2>2. StepFits(foreign, [do |-> "edit", expiry |-> e])
      BY ExpiriesFit DEF StepFits, Kinds
    <2> QED
      BY <2>1, <2>2, OneStep, BeginKept
  <1>3. CASE RecordClip(w)
    <2>1. PICK q \in Questions : Begin(w, "record", <<[do |-> "record", question |-> q]>>)
      BY <1>3 DEF RecordClip, RecordSteps
    <2>2. StepFits(foreign, [do |-> "record", question |-> q])
      BY DEF StepFits, Kinds
    <2> QED
      BY <2>1, <2>2, OneStep, BeginKept
  <1>4. CASE SetInactive(w)
    <2>1. PICK b \in BOOLEAN : Begin(w, "pause", <<[do |-> "pause", active |-> b]>>)
      BY <1>4 DEF SetInactive, PauseSteps
    <2>2. StepFits(foreign, [do |-> "pause", active |-> b])
      BY DEF StepFits, Kinds
    <2> QED
      BY <2>1, <2>2, OneStep, BeginKept
  <1>5. ASSUME NEW kind \in {"submit", "request", "bank", "locate"},
               Begin(w, kind, <<[do |-> kind]>>)
        PROVE  SInv'
    <2>1. StepFits(foreign, [do |-> kind])
      BY DEF StepFits, Kinds
    <2> QED
      BY <1>5, <2>1, OneStep, BeginKept
  <1> QED
    BY <1>1, <1>2, <1>3, <1>4, <1>5
    DEF NannyCalls, SubmitInterview, RequestResubmission, SaveBanking, SetLocation

LEMMA AdminKept ==
    ASSUME SInv, NEW w \in Workers, AdminCalls(w)
    PROVE  SInv'
  <1>1. CASE EditNannyProfile(w)
    <2>1. PICK e \in Expiries, b \in BOOLEAN :
              Begin(w, "adminEdit", <<[do |-> "adminEdit", expiry |-> e, located |-> b]>>)
      BY <1>1 DEF EditNannyProfile
    <2>2. StepFits(foreign, [do |-> "adminEdit", expiry |-> e, located |-> b])
      BY ExpiriesFit DEF StepFits, Kinds
    <2> QED
      BY <2>1, <2>2, OneStep, BeginKept
  <1>2. CASE ApproveDocument(w)
    <2>1. StepFits(foreign, [do |-> "approveDocument"]) /\ StepFits(foreign, [do |-> "reactivate"])
      BY DEF StepFits, Kinds
    <2>2. CASE foreign
      <3>1. Begin(w, "approveDocument", <<[do |-> "approveDocument"], [do |-> "reactivate"]>>)
        BY <1>2, <2>2 DEF ApproveDocument
      <3> QED
        BY <2>1, <3>1, TwoSteps, BeginKept
    <2>3. CASE ~foreign
      <3>1. Begin(w, "approveDocument", <<[do |-> "approveDocument"]>>)
        BY <1>2, <2>3 DEF ApproveDocument
      <3> QED
        BY <2>1, <2>3, <3>1, OneStep, BeginKept
    <2> QED
      BY <2>2, <2>3
  <1>3. CASE SetApproval(w)
    <2>1. PICK b \in BOOLEAN : Begin(w, "setApproval", <<[do |-> "setApproval", approved |-> b]>>)
      BY <1>3 DEF SetApproval, ApprovalSteps
    <2>2. StepFits(foreign, [do |-> "setApproval", approved |-> b])
      BY DEF StepFits, Kinds
    <2> QED
      BY <2>1, <2>2, OneStep, BeginKept
  <1>4. CASE SetApplicationStatus(w)
    <2>1. PICK s \in Statuses : Begin(w, "setApplication", <<[do |-> "setApplication", status |-> s]>>)
      BY <1>4 DEF SetApplicationStatus, ApplicationSteps
    <2>2. StepFits(foreign, [do |-> "setApplication", status |-> s])
      BY DEF StepFits, Kinds
    <2> QED
      BY <2>1, <2>2, OneStep, BeginKept
  <1>5. ASSUME NEW kind \in {"replace", "withdraw", "approve", "lift", "allow"},
               Begin(w, kind, <<[do |-> kind]>>)
        PROVE  SInv'
    <2>1. StepFits(foreign, [do |-> kind])
      BY DEF StepFits, Kinds
    <2> QED
      BY <1>5, <2>1, OneStep, BeginKept
  <1> QED
    BY <1>1, <1>2, <1>3, <1>4, <1>5
    DEF AdminCalls, ReplaceDocument, WithdrawApproval, ApproveNanny, LiftSuspension, AllowResubmission

LEMMA PenaltyKept ==
    ASSUME SInv, NEW w \in Workers, Penalties(w)
    PROVE  SInv'
  <1>1. ASSUME NEW weight \in Nat
        PROVE  StepFits(foreign, Weigh(weight)) /\ Weigh(weight).do = "weigh"
    BY DEF StepFits, Kinds, Weigh
  <1>2. ASSUME NEW pct \in Nat, NEW weight \in Nat, NEW b \in Bases
        PROVE  StepFits(foreign, Demerit(pct, weight, b)) /\ Demerit(pct, weight, b).do = "demerit"
    BY DEF StepFits, Kinds, Demerit
  <1>3. CASE MarkNoShow(w)
    <2>1. PICK b \in Bases :
              Begin(w, "penalty", <<[do |-> "noShow"], Demerit(6, 4, b), Weigh(4), [do |-> "fitness"]>>)
      BY <1>3 DEF MarkNoShow, Penalty, NoShowSteps
    <2>2. StepFits(foreign, [do |-> "noShow"]) /\ StepFits(foreign, [do |-> "fitness"])
      BY DEF StepFits, Kinds
    <2>3. StepFits(foreign, Demerit(6, 4, b)) /\ Demerit(6, 4, b).do = "demerit"
      BY <1>2
    <2>4. StepFits(foreign, Weigh(4)) /\ Weigh(4).do = "weigh"
      BY <1>1
    <2>5. TodoFits(foreign, <<[do |-> "noShow"], Demerit(6, 4, b), Weigh(4), [do |-> "fitness"]>>)
      BY <2>2, <2>3, <2>4, FourSteps
    <2> QED
      BY <2>1, <2>5, BeginKept
  <1>4. ASSUME NEW weight \in Nat, Begin(w, "penalty", <<Weigh(weight)>>)
        PROVE  SInv'
    <2>1. TodoFits(foreign, <<Weigh(weight)>>)
      BY <1>1, OneStep
    <2> QED
      BY <1>4, <2>1, BeginKept
  <1>5. ASSUME NEW pct \in Nat, NEW weight \in Nat, NEW b \in Bases,
               Begin(w, "penalty", <<Demerit(pct, weight, b), Weigh(weight)>>)
        PROVE  SInv'
    <2>1. TodoFits(foreign, <<Demerit(pct, weight, b), Weigh(weight)>>)
      BY <1>1, <1>2, TwoSteps
    <2> QED
      BY <1>5, <2>1, BeginKept
  <1>6. CASE NannyCancels(w)
    <2>1. CASE Penalty(w, EarlySteps)
      BY <2>1, <1>4 DEF Penalty, EarlySteps
    <2>2. CASE \E b \in Bases : Penalty(w, LateSteps[b])
      <3>1. PICK b \in Bases : Begin(w, "penalty", <<Demerit(1, 3, b), Weigh(3)>>)
        BY <2>2 DEF Penalty, LateSteps
      <3> QED
        BY <3>1, <1>5
    <2>3. CASE \E b \in Bases : Penalty(w, LatestSteps[b])
      <3>1. PICK b \in Bases : Begin(w, "penalty", <<Demerit(2, 4, b), Weigh(4)>>)
        BY <2>3 DEF Penalty, LatestSteps
      <3> QED
        BY <3>1, <1>5
    <2> QED
      BY <1>6, <2>1, <2>2, <2>3 DEF NannyCancels
  <1>7. CASE ParentCancelsLate(w)
    BY <1>7, <1>4 DEF ParentCancelsLate, Penalty, ParentSteps
  <1> QED
    BY <1>3, <1>6, <1>7 DEF Penalties

LEMMA ComplianceKept ==
    ASSUME SInv, NEW w \in Workers, RunCompliance(w)
    PROVE  SInv'
  <1> PICK todo : todo = <<[do |-> "comply"]>>
    OBVIOUS
  <1>1. Typed' /\ Agree(row, log, seen)'
    BY DEF SInv, Typed, SeenType, RunCompliance, Agree
  <1>2. DOMAIN sess' = Workers /\ \A v \in Workers \ {w} : sess'[v] = sess[v]
    BY DEF SInv, SessionsFit, RunCompliance
  <1>3. sess[w] = Idle /\ sess'[w] = [todo |-> todo, read |-> FALSE]
    BY DEF SInv, SessionsFit, RunCompliance
  <1>4. foreign' = foreign /\ row' = row /\ log' = log /\ today' = today /\ crashes' = crashes
    BY DEF RunCompliance
  <1>5. SessionsFit'
    <2>1. TodoFits(foreign, todo)
      <3>1. StepFits(foreign, [do |-> "comply"])
        BY DEF StepFits, Kinds
      <3> QED
        BY <3>1, OneStep
    <2>2. SessionFits(foreign, row, sess'[w])
      BY <1>3, <2>1 DEF SessionFits
    <2>3. \A v \in Workers : SessionFits(foreign, row, sess'[v])
      BY <1>2, <2>2 DEF SInv, SessionsFit
    <2> QED
      BY <1>2, <1>4, <2>3 DEF SessionsFit
  <1>6. ASSUME NEW kind, Ahead(kind) PROVE Ahead(kind)'
    <2>1. PICK v \in Workers : sess[v] # Idle /\ Head(sess[v].todo).do = kind
      BY <1>6 DEF Ahead
    <2> QED
      BY <2>1, <1>2, <1>3 DEF Ahead
  <1>7. Overdue(row)' = Overdue(row)
    BY <1>4 DEF Overdue, Expired, Due
  <1>8. Followed'
    BY <1>4, <1>6, <1>7 DEF SInv, Followed
  <1> QED
    BY <1>1, <1>5, <1>8 DEF SInv

LEMMA ReadKept ==
    ASSUME SInv, NEW w \in Workers, Read(w)
    PROVE  SInv'
  <1>1. Typed' /\ Agree(row, log, seen)'
    BY DEF SInv, Typed, SeenType, Read, Agree
  <1>2. DOMAIN sess' = Workers /\ \A v \in Workers \ {w} : sess'[v] = sess[v]
    BY DEF SInv, SessionsFit, Read
  <1>3. sess[w] # Idle /\ sess'[w] = [todo |-> sess[w].todo, read |-> TRUE, copy |-> row]
    BY DEF SInv, SessionsFit, Read
  <1>4. foreign' = foreign /\ row' = row /\ log' = log /\ today' = today /\ crashes' = crashes
    BY DEF Read
  <1>5. sess'[w].todo = sess[w].todo /\ sess'[w].read = TRUE /\ sess'[w].copy = row
    BY <1>3
  <1>6. SessionsFit'
    <2>1. TodoFits(foreign, sess[w].todo)
      BY <1>3 DEF SInv, SessionsFit, SessionFits
    <2>2. SessionFits(foreign, row, sess'[w])
      BY <1>5, <2>1 DEF SessionFits
    <2>3. \A v \in Workers : SessionFits(foreign, row, sess'[v])
      BY <1>2, <2>2 DEF SInv, SessionsFit
    <2> QED
      BY <1>2, <1>4, <2>3 DEF SessionsFit
  <1>7. sess'[w] # Idle
    BY <1>5 DEF Idle
  <1>8. ASSUME NEW kind, Ahead(kind) PROVE Ahead(kind)'
    <2>1. PICK v \in Workers : sess[v] # Idle /\ Head(sess[v].todo).do = kind
      BY <1>8 DEF Ahead
    <2>2. sess'[v] # Idle /\ Head(sess'[v].todo).do = kind
      BY <2>1, <1>2, <1>5, <1>7
    <2> QED
      BY <2>2 DEF Ahead
  <1>9. Overdue(row)' = Overdue(row)
    BY <1>4 DEF Overdue, Expired, Due
  <1>10. Followed'
    BY <1>4, <1>8, <1>9 DEF SInv, Followed
  <1> QED
    BY <1>1, <1>6, <1>10 DEF SInv

LEMMA CrashKept ==
    ASSUME SInv, NEW w \in Workers, Crash(w)
    PROVE  SInv'
  <1>1. Typed' /\ Agree(row, log, seen)'
    BY DEF SInv, Typed, SeenType, Crash, Agree
  <1>2. DOMAIN sess' = Workers /\ sess'[w] = Idle /\ \A v \in Workers \ {w} : sess'[v] = sess[v]
    BY DEF SInv, SessionsFit, Crash
  <1>3. foreign' = foreign /\ row' = row
    BY DEF Crash
  <1>4. SessionsFit'
    <2>1. \A v \in Workers : SessionFits(foreign, row, sess'[v])
      BY <1>2 DEF SInv, SessionsFit, SessionFits
    <2> QED
      BY <1>2, <1>3, <2>1 DEF SessionsFit
  <1>5. crashes' > 0
    BY DEF SInv, Typed, Crash
  <1> QED
    BY <1>1, <1>4, <1>5 DEF SInv, Followed

LEMMA DayKept ==
    ASSUME SInv, NextDay
    PROVE  SInv'
  <1>1. Typed' /\ Agree(row, log, seen)' /\ SessionsFit' /\ today \in Nat
    BY DEF SInv, Typed, SeenType, NextDay, Agree, SessionsFit
  <1>2. Overdue(row)' => Overdue(row)
    <2>1. row.approval.expiry \in Nat /\ row.approval.approved \in BOOLEAN
      BY DEF SInv, Typed, RowType, Approval
    <2>2. row' = row /\ foreign' = foreign /\ today' = today + 1
      BY DEF NextDay
    <2> QED
      BY <2>1, <2>2, <1>1 DEF Overdue, Expired, Due
  <1>3. Followed'
    BY <1>2 DEF SInv, NextDay, Followed, Ahead
  <1> QED
    BY <1>1, <1>3 DEF SInv

LEMMA CommitKept ==
    ASSUME SInv, OneAtATime, NEW w \in Workers, Commit(w)
    PROVE  SInv'
  <1> PICK s, o : s = sess[w] /\ o = Head(sess[w].todo)
    OBVIOUS
  <1>1. sess[w] # Idle /\ s.read /\ foreign' = foreign /\ today' = today /\ crashes' = crashes
    BY DEF Commit
  <1>2. TodoFits(foreign, s.todo) /\ s.copy = row
    BY <1>1 DEF SInv, SessionsFit, SessionFits
  <1>3. StepFits(foreign, o) /\ Len(s.todo) \in Nat \ {0}
    BY <1>2, FirstStep
  <1>4. \A v \in Workers \ {w} : sess[v] = Idle
    BY <1>1 DEF OneAtATime
  <1>5. \A kind : Ahead(kind) => o.do = kind
    BY <1>4 DEF Ahead
  <1>6. DOMAIN sess' = Workers /\ \A v \in Workers \ {w} : sess'[v] = Idle
    BY <1>4 DEF Commit, SInv, SessionsFit
  <1>7. CASE ~Goes(o, row)
    <2>1. sess'[w] = Idle /\ row' = row /\ log' = log /\ seen' = seen
      BY <1>2, <1>7 DEF Commit, SInv, SessionsFit
    <2>2. SessionsFit'
      BY <1>6, <2>1 DEF SessionsFit, SessionFits
    <2>3. Typed' /\ Agree(row, log, seen)' /\ Overdue(row)' = Overdue(row)
      BY <1>1, <2>1 DEF SInv, Typed, SeenType, Agree, Overdue, Expired, Due
    <2>4. o.do # "reactivate" /\ o.do # "weigh"
      BY <1>7 DEF Goes
    <2>5. Followed'
      BY <1>1, <1>5, <2>1, <2>3, <2>4 DEF SInv, Followed
    <2> QED
      BY <2>2, <2>3, <2>5 DEF SInv
  <1>8. CASE Goes(o, row)
    <2> PICK y : y = After(o, row)
      OBVIOUS
    <2>1. StepKept(o)
      BY <1>3, <1>8, StepHolds DEF SInv
    <2>2. /\ y \in RowType /\ Logged(o) \in [pct : Nat, weight : Nat] /\ Seen(o, row) \in SeenType
          /\ Agree(y, Logged(o), Seen(o, row))
      BY <2>1 DEF StepKept
    <2>3. Flush(row, y) = y
      BY <2>2, WritesNew DEF SInv, Typed
    <2>4. row' = y /\ log' = Logged(o) /\ seen' = Seen(o, row)
      BY <1>2, <1>8, <2>3 DEF Commit, Logged
    <2>5. sess'[w] = IF Len(s.todo) = 1 THEN Idle ELSE [todo |-> Tail(s.todo), read |-> FALSE]
      BY <1>2, <1>8 DEF Commit, SInv, SessionsFit
    <2>6. SessionsFit'
      <3>1. SessionFits(foreign', row', sess'[w])
        <4>1. CASE Len(s.todo) = 1
          BY <2>5, <4>1 DEF SessionFits
        <4>2. CASE Len(s.todo) # 1
          <5>1. sess'[w].todo = Tail(s.todo) /\ sess'[w].read = FALSE
            BY <2>5, <4>2
          <5>2. TodoFits(foreign, Tail(s.todo))
            BY <1>2, <4>2, FirstStep
          <5> QED
            BY <5>1, <5>2, <1>1 DEF SessionFits
        <4> QED
          BY <4>1, <4>2
      <3> QED
        BY <3>1, <1>6 DEF SessionsFit, SessionFits
    <2>7. Typed' /\ Agree(row, log, seen)'
      BY <1>1, <2>2, <2>4 DEF SInv, Typed, Agree
    <2>8. ASSUME NEW kind, Len(s.todo) # 1, Head(Tail(s.todo)).do = kind
          PROVE  Ahead(kind)'
      <3>1. sess'[w] # Idle /\ sess'[w].todo = Tail(s.todo)
        <4>1. sess'[w] = [todo |-> Tail(s.todo), read |-> FALSE]
          BY <2>5, <2>8
        <4>2. Tail(s.todo) # <<>>
          BY <1>2, <2>8, FirstStep DEF TodoFits
        <4> QED
          BY <4>1, <4>2 DEF Idle
      <3> QED
        BY <3>1, <2>8 DEF Ahead
    <2>9. Overdue(row)' => crashes' > 0 \/ Ahead("reactivate")'
      <3> SUFFICES ASSUME Overdue(row)', ~(crashes' > 0) PROVE Ahead("reactivate")'
        OBVIOUS
      <3>1. Overdue(y)
        BY <1>1, <2>4 DEF Overdue, Expired, Due
      <3>2. o.do # "reactivate" /\ (Overdue(row) \/ (o.do = "approveDocument" /\ foreign))
        BY <2>1, <3>1 DEF StepKept
      <3>3. ~Overdue(row)
        BY <3>2, <1>1, <1>5 DEF SInv, Followed
      <3>4. Len(s.todo) # 1 /\ Head(Tail(s.todo)).do = "reactivate"
        BY <3>2, <3>3, <1>2, FirstStep
      <3> QED
        BY <3>4, <2>8
    <2>10. log'.weight >= ReviewWeight => row'.flagged \/ crashes' > 0 \/ Ahead("weigh")'
      <3> SUFFICES ASSUME log'.weight >= ReviewWeight, ~row'.flagged, ~(crashes' > 0)
                   PROVE  Ahead("weigh")'
        OBVIOUS
      <3>1. o.do = "demerit" \/ (o.do # "weigh" /\ log.weight >= ReviewWeight /\ ~row.flagged)
        BY <2>1, <2>4 DEF StepKept
      <3>2. ~(o.do # "weigh" /\ log.weight >= ReviewWeight /\ ~row.flagged)
        BY <1>1, <1>5 DEF SInv, Followed
      <3>3. Len(s.todo) # 1 /\ Head(Tail(s.todo)).do = "weigh"
        BY <3>1, <3>2, <1>2, FirstStep
      <3> QED
        BY <3>3, <2>8
    <2>11. Followed'
      BY <2>9, <2>10 DEF Followed
    <2> QED
      BY <2>6, <2>7, <2>11 DEF SInv
  <1> QED
    BY <1>7, <1>8

LEMMA StepsKept == SInv /\ OneAtATime /\ [Next]_vars => SInv'
  <1> SUFFICES ASSUME SInv, OneAtATime, [Next]_vars PROVE SInv'
    OBVIOUS
  <1>1. CASE Next
    BY <1>1, DayKept, NannyKept, AdminKept, PenaltyKept, ComplianceKept, ReadKept, CommitKept,
       CrashKept DEF Next
  <1>2. CASE UNCHANGED vars
    BY <1>2 DEF vars, SInv, Typed, SeenType, SessionsFit, Agree, Followed, Overdue, Expired, Due, Ahead
  <1> QED
    BY <1>1, <1>2

----------------------------------------------------------------------------
(* Theorems                                                                  *)

(* While one handler, or sweep, is at work at a time, the row keeps to its    *)
(* columns' values, agrees with the demerit log and with what administrators  *)
(* have reviewed, and nobody stops half way but in a crash.                   *)
THEOREM ScreeningInvariance == Spec /\ []OneAtATime => []SInv
  BY InvInit, StepsKept, PTL DEF Spec

(* An approval is for the file and the expiry date on record                  *)
(* (admin_set_nanny_document_approval, upload_nanny_passport_document).       *)
THEOREM ApprovalFits == Spec /\ []OneAtATime => []ApprovalFitsDocument
  <1>1. SInv => ApprovalFitsDocument
    BY DEF SInv, Agree, ApprovalFitsDocument
  <1> QED
    BY <1>1, ScreeningInvariance, PTL

(* The nanny, her profile and her application agree that she is admitted, and *)
(* no nanny is shown who left a question unanswered                           *)
(* (admin_set_nanny_application_status).                                      *)
THEOREM AdmittedOnce == Spec /\ []OneAtATime => []OneAdmission
  <1>1. SInv => OneAdmission
    BY DEF SInv, Agree, OneAdmission, Visible
  <1> QED
    BY <1>1, ScreeningInvariance, PTL

(* A suspension for a rating outlasts a renewed passport, and one for the     *)
(* passport ends with it, unless the server crashes between the two commits   *)
(* of the approval.                                                           *)
THEOREM SuspendedApart == Spec /\ []OneAtATime => []SuspensionsApart
  <1>1. SInv => SuspensionsApart
    BY DEF SInv, Agree, Followed, Overdue, Ahead, SuspensionsApart
  <1> QED
    BY <1>1, ScreeningInvariance, PTL

(* The demerits on the nanny are those of the log, over crashes too, and who  *)
(* has reached the weight is up for review (apply_cancellation_weight).       *)
THEOREM PenaltiesKept == Spec /\ []OneAtATime => []PenaltiesAddUp
  <1>1. SInv => PenaltiesAddUp
    BY DEF SInv, Agree, Followed, Ahead, PenaltiesAddUp
  <1> QED
    BY <1>1, ScreeningInvariance, PTL

====
