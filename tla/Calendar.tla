------------------------------ MODULE Calendar -------------------------------
(* A nanny's calendar (public.py, /nannies/me/availability; admin.py,         *)
(* set_availability) and what a search makes of it (_is_nanny_available).     *)
(*                                                                            *)
(* Time is a number of units since the first midnight in Johannesburg; UTC is *)
(* `Shift` units behind.  An entry holds the day, start and end as columns of *)
(* their own, by which duplicates and overlaps are found, beside the instants *)
(* that searches go by.  A handler reads what it needs and decides            *)
(* (`Start...`), then writes and commits (`Save...`).  Notes are left out.    *)
EXTENDS Integers, Sequences, SequencesExt, FiniteSets

CONSTANTS
    Devices,          \* of the nanny and of administrators
    Days,             \* calendar days
    Hours,            \* <<start, end>> as entered, an end past midnight being the smaller
    DayLen, Shift,    \* units of a day, and of the way to UTC
    Hold,             \* units for which a booking is held free before it starts
    Clients,          \* parents who search and book
    Given,            \* entries at the start
    MaxEdits          \* bound

VARIABLES
    entries,          \* calendar entries in the order of their creation
    booked,           \* her active bookings
    edit,             \* what a device has read and is about to write
    moved, mixed,     \* history
    edits

calendar == <<entries, booked, edit, moved, mixed, edits>>

NoEdit == [op |-> "none"]
Kept == {i \in DOMAIN entries : entries[i].live}

(* _build_availability_range, for hours that may pass midnight.               *)
Span(d, h) ==
    LET end == IF h[2] > h[1] THEN h[2] ELSE h[2] + DayLen
    IN <<d * DayLen + h[1], d * DayLen + end>>

(* Mutant: the hours are taken for UTC.                                       *)
SpanUtc(d, h) == LET s == Span(d, h) IN <<s[1] + Shift, s[2] + Shift>>
SpanLocal(d, h) == Span(d, h)

(* The columns of a day entry; an end on the next day is cut to the last      *)
(* minute of the day (_availability_legacy_end_time).                         *)
Entry(d, h, span, type, open, by, zoned) ==
    [date |-> d, starts |-> h[1], ends |-> IF h[2] > h[1] THEN h[2] ELSE DayLen,
     from |-> span[1], to |-> span[2], type |-> type, open |-> open,
     live |-> TRUE, by |-> by, zoned |-> zoned, said |-> Span(d, h)]

CalendarInit ==
    /\ entries = Given /\ booked = {}
    /\ edit = [e \in Devices |-> NoEdit]
    /\ moved = FALSE /\ mixed = FALSE /\ edits = 0

Types == {"available", "blocked"}

(* The entries at the start are hers, one of a type for a day.                *)
ASSUME CalendarTyped ==
    /\ IsFiniteSet(Days) /\ Days \subseteq Nat /\ Hours \subseteq Nat \X Nat
    /\ DayLen \in Nat \ {0} /\ Shift \in Nat
    /\ Given \in Seq({Entry(d, h, Span(d, h), type, type = "available", "nanny", TRUE) :
                          d \in Days, h \in Hours, type \in Types})
    /\ \A i, k \in DOMAIN Given :
          i # k => Given[i].date # Given[k].date \/ Given[i].type # Given[k].type

Start(e, s) ==
    /\ edit[e] = NoEdit /\ edits < MaxEdits
    /\ edits' = edits + 1
    /\ edit' = [edit EXCEPT ![e] = s]
    /\ UNCHANGED <<entries, booked, moved, mixed>>

Save(e, op) ==
    /\ edit[e].op = op
    /\ edit' = [edit EXCEPT ![e] = NoEdit]
    /\ mixed' = (mixed \/ \E f \in Devices \ {e} : edit[f] # NoEdit)
    /\ UNCHANGED <<booked, edits>>

(* The days that have an entry of a type (_existing_availability_type_dates). *)
DaysWith(type) == {entries[i].date : i \in {i \in Kept : entries[i].type = type}}

(* create_nanny_me_availability: the web client of today sends the hours      *)
(* without a zone, and they are stored as UTC; the older one names the zone.  *)
StartEnter(e) ==
    \E d \in Days, h \in Hours, type \in Types, zoned \in BOOLEAN :
        /\ zoned \/ h[2] > h[1]
        /\ d \notin DaysWith(type)
        /\ Start(e, [op |-> "enter",
                     adds |-> <<Entry(d, h, IF zoned THEN SpanLocal(d, h) ELSE SpanUtc(d, h),
                                      type, type = "available", "nanny", zoned)>>])

(* Mutant: every day of the pattern is entered, also one that has an entry.   *)
SpreadAnew(S, h, type) ==
    LET days == SetToSeq(S)
    IN [k \in DOMAIN days |->
          Entry(days[k], h, SpanLocal(days[k], h), type, type = "available", "nanny", TRUE)]

(* New entries for the days of a range or of a weekly pattern that have none; *)
(* nothing goes by their order.                                               *)
Spread(S, h, type) == SpreadAnew(S \ DaysWith(type), h, type)

(* create_nanny_me_availability_bulk and _weekly; Days are within a week, so  *)
(* a pattern of weekdays is any set of them, and a range is one too.          *)
StartSpread(e) ==
    \E S \in (SUBSET Days) \ {{}}, h \in Hours, type \in Types :
        Start(e, [op |-> "enter", adds |-> Spread(S, h, type)])

(* set_availability, of an administrator: the columns alone, which searches   *)
(* read as UTC; the type stays "available" when the time is closed.  An entry *)
(* of the very same hours is refused as an overlap, so none is ever updated.  *)
StartPlace(e) ==
    \E d \in Days, h \in Hours, open \in BOOLEAN :
        /\ h[2] > h[1]
        /\ ~\E i \in Kept : /\ entries[i].date = d
                            /\ entries[i].starts < h[2] /\ h[1] < entries[i].ends
        /\ Start(e, [op |-> "enter",
                     adds |-> <<Entry(d, h, SpanUtc(d, h), "available", open, "admin", FALSE)>>])

SaveEnter(e) ==
    /\ Save(e, "enter")
    /\ entries' = entries \o edit[e].adds
    /\ UNCHANGED moved

(* update_nanny_me_availability.  An entry is dragged to other hours; its end *)
(* alone is changed, when the day and the start are read off the stored UTC   *)
(* instant; or its type, which leaves is_available as it was.                 *)
Dragged(x, d, h) ==
    Entry(d, h, SpanLocal(d, h), x.type, x.open, x.by, TRUE)

Resized(x, to) ==
    LET from == x.from - Shift IN
    [x EXCEPT !.to = to, !.date = from \div DayLen, !.starts = from % DayLen, !.zoned = TRUE,
              !.ends = IF to \div DayLen > from \div DayLen \/ to % DayLen <= from % DayLen
                       THEN DayLen ELSE to % DayLen,
              !.said = <<x.from, to>>]

(* An administrator's entry has no instants, and its end cannot be changed    *)
(* alone.                                                                     *)
Timed(x) == x.by # "admin" \/ x.zoned

StartAmend(e) ==
    \E i \in Kept :
        LET x == entries[i] IN
        \E y \in {Dragged(x, d, h) : d \in Days, h \in Hours}
                 \union {Resized(x, Span(d, h)[2]) : d \in {d \in Days : Timed(x)}, h \in Hours}
                 \union {[x EXCEPT !.type = t] : t \in Types} :
            /\ y.to > y.from /\ y # x
            /\ Start(e, [op |-> "amend", id |-> i, to |-> y])

(* The update of an entry that is gone fails.                                 *)
SaveAmend(e) ==
    /\ Save(e, "amend")
    /\ LET i == edit[e].id
           y == edit[e].to
       IN IF i \in Kept
          THEN /\ entries' = [entries EXCEPT ![i] = y]
               /\ moved' = (moved \/ y.date # entries[i].date \/ y.type # entries[i].type)
          ELSE UNCHANGED <<entries, moved>>

Gone == [Entry(0, <<0, 0>>, <<0, 0>>, "available", FALSE, "nanny", TRUE) EXCEPT !.live = FALSE]
Without(S) == [i \in DOMAIN entries |-> IF i \in S THEN Gone ELSE entries[i]]

(* delete_nanny_me_availability, and clear_nanny_me_availability for all.     *)
Withdraw ==
    \E S \in {{i} : i \in Kept} \union {Kept} :
        /\ S # {} /\ edits < MaxEdits
        /\ edits' = edits + 1
        /\ entries' = Without(S)
        /\ UNCHANGED <<booked, edit, moved, mixed>>

----------------------------------------------------------------------------
(* Searches and bookings                                                     *)

Overlap(a, b) == ~(a[2] <= b[1] \/ a[1] >= b[2])

(* _is_nanny_available: some opening overlaps the window, nothing closed      *)
(* does, nor a booking, nor the hold before a booking of another client.      *)
Offered(c, window) ==
    LET opens(i) == entries[i].type # "blocked" /\ entries[i].open
        over(i) == Overlap(window, <<entries[i].from, entries[i].to>>)
    IN /\ \E i \in Kept : opens(i) /\ over(i)
       /\ \A i \in Kept : over(i) => opens(i)
       /\ \A b \in booked :
             /\ ~Overlap(window, b.window)
             /\ b.client = c \/ ~Overlap(window, <<b.window[1] - Hold, b.window[1]>>)

Windows == {Span(d, h) : d \in Days, h \in Hours}

(* A booking blocks its time, in columns of UTC and without the cut.          *)
Block(x) ==
    LET from == x[1] - Shift
        to == x[2] - Shift
    IN [date |-> from \div DayLen, starts |-> from % DayLen, ends |-> to % DayLen,
        from |-> x[1], to |-> x[2], type |-> "blocked", open |-> FALSE,
        live |-> TRUE, by |-> "booking", zoned |-> TRUE, said |-> x]

(* accept_booking_request, for a window that she is offered for.  The check   *)
(* on the table, an end after the start, refuses the block of a job that      *)
(* passes midnight UTC, and the booking is rolled back with it.               *)
Book ==
    \E c \in Clients, x \in Windows :
        /\ edits < MaxEdits /\ Offered(c, x)
        /\ Block(x).ends > Block(x).starts
        /\ booked' = booked \union {[client |-> c, window |-> x]}
        /\ entries' = Append(entries, Block(x))
        /\ edits' = edits + 1
        /\ UNCHANGED <<edit, moved, mixed>>

(* A cancellation; the time stays blocked until she frees it.                 *)
Unbook ==
    \E b \in booked :
        /\ booked' = booked \ {b}
        /\ UNCHANGED <<entries, edit, moved, mixed, edits>>

CalendarNext ==
    \/ \E e \in Devices :
        \/ StartEnter(e) \/ StartSpread(e) \/ StartPlace(e) \/ SaveEnter(e)
        \/ StartAmend(e) \/ SaveAmend(e)
    \/ Withdraw \/ Book \/ Unbook

----------------------------------------------------------------------------

(* A day has one entry of a type (src/APP_RULES.md, 4), whichever way the     *)
(* nanny has made and resized them, beside the blocks of her bookings;        *)
(* dragging an entry to another day, changing its type and entering at once   *)
(* on two devices are not checked.                                            *)
DaySetOnce ==
    \/ moved \/ mixed
    \/ \A i, k \in Kept :
          i # k /\ {entries[i].by, entries[k].by} = {"nanny"} =>
              entries[i].date # entries[k].date \/ entries[i].type # entries[k].type

(* The hours that searches go by are those she means, Johannesburg time and   *)
(* past midnight too, until she changes them; but for hours that a client or  *)
(* an administrator sends without a zone.                                     *)
HoursAsSaid ==
    \A i \in Kept : entries[i].zoned => <<entries[i].from, entries[i].to>> = entries[i].said

=============================================================================
