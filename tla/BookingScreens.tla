--------------------------- MODULE BookingScreens ---------------------------
(***************************************************************************)
(* One booking as its customer and its artist see it: the answer of the    *)
(* API, whose expiresAt means another deadline in every status, and the    *)
(* Firestore document their apps listen to.  A handler commits the row and *)
(* then, in two further steps, reads it and sets the document; the         *)
(* artist's decision sets it before it commits; the Celery tasks close     *)
(* bookings and set nothing, and the attempt counters of the PINs save the *)
(* whole row and set nothing.  What BookingLifecycle says of the PINs      *)
(* themselves and of the coins is left out here.                           *)
(***************************************************************************)
EXTENDS Integers

CONSTANTS
    Writers,        \* handlers that can be in flight
    Slots,          \* times the appointment may be set to
    SlotLock,       \* Configurations.slot_lock_minutes
    Grace,          \* Configurations.booking_missed_grace_hours
    WayWindow,      \* Configurations.on_my_way_window_hours
    LastHour        \* bound on the clock

ASSUME ScreensAssumption ==
    /\ {SlotLock, Grace, WayWindow, LastHour} \subseteq Nat /\ Slots \subseteq Nat
    /\ SlotLock <= Grace

VARIABLES
    visit,          \* the row
    payment,        \* the best status of its payments
    document,       \* what the apps read from Firestore
    writing,        \* the handlers, from their check to the document
    candidate,      \* start of the booking mark_missed_bookings has read, or -1
    clock,
    mirror,         \* history: whether something excuses the document for differing
    closed_by       \* history: the task that closed the booking, and what was on display

screenVars == <<visit, payment, document, writing, candidate, clock, mirror, closed_by>>
-----------------------------------------------------------------------------
ActiveStatuses == {"pending", "confirmed", "in_progress"}
Visit == [status : ActiveStatuses \cup {"completed", "cancelled", "no_show"}, start : Slots,
          expires_at : Nat, on_way : BOOLEAN, arrived : BOOLEAN]
NoVisit == [status |-> "none", start |-> 0, expires_at |-> 0, on_way |-> FALSE, arrived |-> FALSE]

(* The columns the document has of these; its expiresAt is the row's own,  *)
(* not the one on display, and nothing in it says where the artist is.     *)
_build_payload(row) == [status |-> row.status, start |-> row.start, expires_at |-> row.expires_at]
Payload == [status : ActiveStatuses \cup {"completed", "cancelled", "no_show", "none"}, start : Slots \cup {0},
            expires_at : Nat]

Checks == {"cancel", "on_my_way", "arrive", "start", "issue", "miss"}
Unsaved == Checks \cup {"loaded", "missed"}
Stages == Unsaved \cup {"idle", "committed", "read", "deciding", "told", "untold"}
Quiet == [stage |-> "idle", payload |-> NoVisit, overtaken |-> FALSE]
NotClosed == [task |-> "none", early |-> FALSE, moved |-> FALSE, unpaid |-> FALSE]

is_past_missed_deadline(row) == clock > row.start + Grace

(* Mutant: a request nobody has paid is given until the appointment.       *)
display_expiry_without_lock(row) ==
    IF row.status \in ActiveStatuses THEN row.start + Grace ELSE -1

(* -1 is null.                                                             *)
with_display_expiry(row) ==
    CASE row.status \in {"confirmed", "in_progress"} -> row.start + Grace
      [] row.status = "pending" -> row.expires_at
      [] OTHER -> -1

filter_by_payment(value) == IF value = "paid" THEN payment = "paid" ELSE payment = "none"
-----------------------------------------------------------------------------
(* The columns of an answer: those of the mapper and, besides, those of    *)
(* the party; a few of each stand for all.                                 *)
MAPS == {"bookingId", "expiresAt"}
CUSTOMER_COLUMNS == {"travelFee"}
ARTIST_COLUMNS == {"travelFee", "platformFee"}
extra_names(for_artist) == IF for_artist THEN ARTIST_COLUMNS ELSE CUSTOMER_COLUMNS

split_columns(columns, for_artist) ==
    LET extra == columns \cap extra_names(for_artist) IN
    [mapper |-> IF columns # {} /\ columns \subseteq extra THEN {"bookingId"} ELSE columns \ extra,
     extra  |-> extra]

(* No column asked for, or none of these, means all of them.               *)
mapper(columns) == IF columns = {} THEN MAPS ELSE columns
attach(only, for_artist) == IF only = {} THEN extra_names(for_artist) ELSE only

(* What get_extract of either party answers; {} is a refusal.              *)
AnswerOf(columns, for_artist) ==
    LET split == split_columns(columns, for_artist)
        data == mapper(split.mapper) \cup attach(split.extra, for_artist) IN
    IF ~(split.mapper \subseteq MAPS) THEN {}
    ELSE IF columns = {} THEN data ELSE data \cap columns

customer_get_extract(columns) == AnswerOf(columns, FALSE)
artist_get_extract(columns) == AnswerOf(columns, TRUE)
-----------------------------------------------------------------------------
(* The artist's decision holds the row lock until it commits.              *)
Deciding(v) == writing[v].stage \in {"deciding", "told", "untold"}
Unlocked == \A v \in Writers : ~Deciding(v)

CommitRow(w, row) ==
    /\ Unlocked /\ writing[w] = Quiet
    /\ visit' = row /\ writing' = [writing EXCEPT ![w].stage = "committed"]

CreateBooking(w, slot) ==
    /\ visit = NoVisit /\ clock < slot
    /\ CommitRow(w, [NoVisit EXCEPT !.status = "pending", !.start = slot, !.expires_at = clock + SlotLock])
    /\ UNCHANGED <<payment, document, candidate, clock, mirror, closed_by>>

(* The handlers that hold no lock while they check.  A start has no        *)
(* deadline.  A PIN that was wrong, or a lockout that is over, changes     *)
(* none of these columns and saves them all ("miss"); the request that     *)
(* goes on after its lockout counts as one more handler.                   *)
VisitAllows(op) ==
    \/ op = "cancel"    /\ visit.status \in {"pending", "confirmed"} /\ ~visit.arrived
    \/ op = "on_my_way" /\ visit.status = "confirmed" /\ ~visit.on_way
                        /\ ~is_past_missed_deadline(visit) /\ clock + WayWindow >= visit.start
    \/ op = "arrive"    /\ visit.status = "confirmed" /\ visit.on_way /\ ~visit.arrived
                        /\ ~is_past_missed_deadline(visit)
    \/ op = "issue"     /\ visit.status = "in_progress"
    \/ op = "start"     /\ visit.status = "confirmed" /\ visit.arrived
    \/ op = "miss"      /\ \/ visit.status = "confirmed" /\ visit.arrived
                           \/ visit.status = "in_progress"

SavedAs(op, row) ==
    CASE op = "cancel" -> [row EXCEPT !.status = "cancelled"]
      [] op = "arrive" -> [row EXCEPT !.arrived = TRUE]
      [] op = "start"  -> [row EXCEPT !.status = "in_progress"]
      [] OTHER         -> row

CheckVisit(w, op) ==
    /\ writing[w] = Quiet /\ VisitAllows(op)
    /\ writing' = [writing EXCEPT ![w].stage = op]
    /\ UNCHANGED <<visit, payment, document, candidate, clock, mirror, closed_by>>

LoadVisit(w) ==                 \* the model method reads the row again, and checks nothing
    /\ writing[w].stage \in {"cancel", "arrive", "start", "miss"}
    /\ writing' = [writing EXCEPT ![w].payload = SavedAs(writing[w].stage, visit),
                                  ![w].stage = IF @ = "miss" THEN "missed" ELSE "loaded"]
    /\ UNCHANGED <<visit, payment, document, candidate, clock, mirror, closed_by>>

SaveVisit(w) ==                 \* every column, and then the document follows
    /\ writing[w].stage = "loaded" /\ Unlocked
    /\ visit' = writing[w].payload
    /\ writing' = [writing EXCEPT ![w] = [Quiet EXCEPT !.stage = "committed"]]
    /\ UNCHANGED <<payment, document, candidate, clock, mirror, closed_by>>

SaveMiss(w) ==                  \* every column, and the document does not follow
    /\ writing[w].stage = "missed" /\ Unlocked
    /\ visit' = writing[w].payload
    /\ mirror' = IF _build_payload(visit') = _build_payload(visit) THEN mirror ELSE "excused"
    /\ writing' = [writing EXCEPT ![w] = Quiet]
    /\ UNCHANGED <<payment, document, candidate, clock, closed_by>>

mark_on_my_way(w) ==            \* one column of the row as it is by then
    /\ writing[w].stage = "on_my_way" /\ Unlocked
    /\ visit' = [visit EXCEPT !.on_way = TRUE]
    /\ writing' = [writing EXCEPT ![w].stage = "committed"]
    /\ UNCHANGED <<payment, document, candidate, clock, mirror, closed_by>>

issue_completion_pin(w) ==      \* a locked row, none of these columns
    /\ writing[w].stage = "issue" /\ Unlocked
    /\ writing' = [writing EXCEPT ![w].stage = "committed"]
    /\ UNCHANGED <<visit, payment, document, candidate, clock, mirror, closed_by>>

LeaveVisit(w) ==                \* the worker dies or the handler fails before it writes
    /\ writing[w].stage \in Unsaved
    /\ writing' = [writing EXCEPT ![w] = Quiet]
    /\ UNCHANGED <<visit, payment, document, candidate, clock, mirror, closed_by>>

(* Those that check once more under the lock: the Completion PIN and a new *)
(* time.                                                                   *)
complete_service(w) ==
    /\ visit.status = "in_progress"
    /\ CommitRow(w, [visit EXCEPT !.status = "completed"])
    /\ UNCHANGED <<payment, document, candidate, clock, mirror, closed_by>>

reschedule_slot(w, slot) ==
    /\ visit.status = "confirmed" /\ ~visit.on_way /\ clock < slot /\ slot # visit.start
    /\ CommitRow(w, [visit EXCEPT !.start = slot])
    /\ UNCHANGED <<payment, document, candidate, clock, mirror, closed_by>>

PaymentMoves ==                 \* paid while the booking lives, refunded when it was cancelled
    /\ \/ payment = "none" /\ visit.status \in ActiveStatuses /\ payment' = "paid"
       \/ payment = "paid" /\ visit.status = "cancelled" /\ payment' = "refunded"
    /\ UNCHANGED <<visit, document, writing, candidate, clock, mirror, closed_by>>
-----------------------------------------------------------------------------
ReadForDocument(w) ==
    /\ writing[w].stage = "committed"
    /\ writing' = [writing EXCEPT ![w] = [stage |-> "read", payload |-> _build_payload(visit),
                                          overtaken |-> \E v \in Writers : writing[v].stage = "told"]]
    /\ UNCHANGED <<visit, payment, document, candidate, clock, mirror, closed_by>>

(* A set that was read before another took effect may bring old news.      *)
sync_booking(w) ==
    /\ writing[w].stage = "read"
    /\ document' = writing[w].payload
    /\ mirror' = IF writing[w].overtaken THEN "excused"
                 ELSE IF document' = _build_payload(visit) THEN "level" ELSE mirror
    /\ writing' = [v \in Writers |-> IF v = w THEN Quiet
                                     ELSE [writing[v] EXCEPT !.overtaken = @ \/ writing[v].stage = "read"]]
    /\ UNCHANGED <<visit, payment, candidate, clock, closed_by>>

NotSynced(w) ==                 \* the worker dies, or Firestore fails and the failure is logged
    /\ writing[w].stage \in {"committed", "read"}
    /\ writing' = [writing EXCEPT ![w] = Quiet]
    /\ mirror' = "excused"
    /\ UNCHANGED <<visit, payment, document, candidate, clock, closed_by>>

(* _update_status_locked: the row is read and written under the lock.      *)
Decide(w, status) ==
    /\ Unlocked /\ writing[w] = Quiet
    /\ \/ visit.status = "pending" /\ status \in {"confirmed", "cancelled"}
       \/ visit.status = "confirmed" /\ status = "cancelled"
       \/ visit.status = "in_progress" /\ status = "no_show"
    /\ status = "confirmed" => ~is_past_missed_deadline(visit) /\ payment = "paid"
    /\ writing' = [writing EXCEPT ![w] = [stage |-> "deciding", overtaken |-> FALSE,
                                          payload |-> [visit EXCEPT !.status = status]]]
    /\ UNCHANGED <<visit, payment, document, candidate, clock, mirror, closed_by>>

SyncDecision(w, works) ==
    /\ writing[w].stage = "deciding"
    /\ document' = IF works THEN _build_payload(writing[w].payload) ELSE document
    /\ writing' = [v \in Writers |->
          IF v = w THEN [writing[v] EXCEPT !.stage = IF works THEN "told" ELSE "untold"]
          ELSE [writing[v] EXCEPT !.overtaken = @ \/ (works /\ writing[v].stage = "read")]]
    /\ UNCHANGED <<visit, payment, candidate, clock, mirror, closed_by>>

CommitDecision(w) ==
    /\ writing[w].stage \in {"told", "untold"}
    /\ visit' = writing[w].payload
    /\ mirror' = IF writing[w].stage = "untold" THEN "excused"
                 ELSE IF document = _build_payload(visit') THEN "level" ELSE mirror
    /\ writing' = [writing EXCEPT ![w] = Quiet]
    /\ UNCHANGED <<payment, document, candidate, clock, closed_by>>

RollBack(w) ==                  \* the document keeps what it was set to
    /\ Deciding(w)
    /\ mirror' = IF writing[w].stage = "told" THEN "excused" ELSE mirror
    /\ writing' = [writing EXCEPT ![w] = Quiet]
    /\ UNCHANGED <<visit, payment, document, candidate, clock, closed_by>>
-----------------------------------------------------------------------------
ClosedBy(task, moved) ==
    /\ mirror' = "excused"
    /\ closed_by' = [task |-> task, early |-> clock <= with_display_expiry(visit),
                     moved |-> moved, unpaid |-> filter_by_payment("unpaid")]

LapseUnpaid ==
    /\ Unlocked
    /\ visit.status = "pending" /\ visit.expires_at < clock /\ payment # "paid"
    /\ visit' = [visit EXCEPT !.status = "cancelled"]
    /\ ClosedBy("stale", FALSE)
    /\ UNCHANGED <<payment, document, writing, candidate, clock>>

ReadMissed ==
    /\ candidate = -1
    /\ visit.status \in {"pending", "confirmed"} /\ is_past_missed_deadline(visit)
    /\ candidate' = visit.start
    /\ UNCHANGED <<visit, payment, document, writing, clock, mirror, closed_by>>

mark_missed ==                  \* one UPDATE that asks for nothing but the id
    /\ Unlocked /\ candidate # -1 /\ candidate' = -1
    /\ visit' = [visit EXCEPT !.status = "no_show"]
    /\ ClosedBy("missed", visit.start # candidate)
    /\ UNCHANGED <<payment, document, writing, clock>>

NextHour ==
    /\ clock < LastHour /\ clock' = clock + 1
    /\ UNCHANGED <<visit, payment, document, writing, candidate, mirror, closed_by>>
-----------------------------------------------------------------------------
ScreensInit ==
    /\ visit = NoVisit /\ payment = "none" /\ document = _build_payload(NoVisit)
    /\ writing = [w \in Writers |-> Quiet]
    /\ candidate = -1 /\ clock = 0 /\ mirror = "level" /\ closed_by = NotClosed

ScreensNext ==
    \/ \E w \in Writers :
          \/ \E slot \in Slots : CreateBooking(w, slot) \/ reschedule_slot(w, slot)
          \/ \E status \in ActiveStatuses \cup {"completed", "cancelled", "no_show"} :
                Decide(w, status)
          \/ \E op \in Checks : CheckVisit(w, op)
          \/ LoadVisit(w) \/ SaveVisit(w) \/ SaveMiss(w) \/ mark_on_my_way(w) \/ LeaveVisit(w)
          \/ complete_service(w) \/ issue_completion_pin(w)
          \/ ReadForDocument(w) \/ sync_booking(w) \/ NotSynced(w)
          \/ \E works \in BOOLEAN : SyncDecision(w, works)
          \/ CommitDecision(w) \/ RollBack(w)
    \/ PaymentMoves \/ LapseUnpaid \/ ReadMissed \/ mark_missed \/ NextHour

ScreensSpec == ScreensInit /\ [][ScreensNext]_screenVars
-----------------------------------------------------------------------------
ScreensTypeOK ==
    /\ visit \in Visit \cup {NoVisit} /\ candidate \in Slots \cup {-1}
    /\ document \in Payload
    /\ payment \in {"none", "paid", "refunded"} /\ clock \in Nat
    /\ writing \in [Writers -> [stage : Stages, payload : Visit \cup {NoVisit} \cup Payload,
                             overtaken : BOOLEAN]]
    /\ mirror \in {"level", "excused"}

(* sync_booking: once the handlers are done the apps read the row as it    *)
(* is, unless a write to Firestore was lost, two of them crossed, the      *)
(* artist's decision was announced and rolled back, a task closed the      *)
(* booking, or the counter of a PIN put older columns back with its save.  *)
MirrorAccounted ==
    (\A w \in Writers : writing[w] = Quiet) /\ document # _build_payload(visit) => mirror = "excused"

(* with_display_expiry: no task closes a booking before the deadline that  *)
(* was on display for it, unless its appointment was moved after the task  *)
(* had read it; and one that lapses unpaid is on the unpaid list.          *)
DeadlinesKept ==
    /\ closed_by.task = "stale" => ~closed_by.early /\ closed_by.unpaid
    /\ closed_by.task = "missed" => ~closed_by.early \/ closed_by.moved

(* BookingExtras.split_columns: both parties get what they ask for of what *)
(* is theirs, all of it if they ask for nothing, and are refused the rest. *)
ColumnsAnswered ==
    \A for_artist \in BOOLEAN : LET theirs == MAPS \cup extra_names(for_artist) IN
        \A columns \in SUBSET (MAPS \cup extra_names(TRUE)) :
            (IF for_artist THEN artist_get_extract(columns) ELSE customer_get_extract(columns)) =
                IF columns = {} THEN theirs ELSE IF columns \subseteq theirs THEN columns ELSE {}

(* The apps are told the truth about a booking, in the three senses above. *)
ScreensTrue == MirrorAccounted /\ DeadlinesKept /\ ColumnsAnswered
=============================================================================
