----------------------------- MODULE SlotRules ------------------------------
(***************************************************************************)
(* One day of one artist: the weekly hours of that weekday, the blocks of  *)
(* that date and the active appointments, each widened by the travel and   *)
(* return minutes it was made with.  Two pieces of code read them: the     *)
(* availability screen tells the customer what is free, and validate_slot  *)
(* decides.  Times are minutes of the day on a coarse scale; races between *)
(* two claims are the subject of SlotCalendar.                             *)
(***************************************************************************)
EXTENDS Integers, FiniteSets

CONSTANTS
    DayEnd,         \* 23:59, the last minute a TimeField holds
    Hours,          \* weekly hours the artist may set, inverted ones too
    Lengths,        \* durations of a package with its add-ons
    Margins,        \* travel and return minutes an artist may set
    MaxBlocks,      \* bound: blocks of the day
    Appointments    \* rows of Booking

Times == 0..DayEnd

ASSUME SlotRulesAssumption ==
    /\ DayEnd \in Nat /\ MaxBlocks \in Nat
    /\ Hours \subseteq [from : Times, to : Times]
    /\ Lengths \subseteq Nat \ {0} /\ Margins \subseteq Nat

VARIABLES
    hours,          \* the active ArtistAvailabilitySchedule, at most one
    blocks,         \* ArtistAvailabilityBlock
    margins,        \* buffers of the profile now
    appointment     \* active bookings of the day

slotVars == <<hours, blocks, margins, appointment>>
-----------------------------------------------------------------------------
Buffer == [before : Margins \cup {0}, after : Margins \cup {0}]
NoBuffer == [before |-> 0, after |-> 0]
WholeDay == [whole |-> TRUE, from |-> 0, to |-> DayEnd]
BlockRanges == {WholeDay} \cup {r \in [whole : {FALSE}, from : Times, to : Times] : r.from < r.to}
NoAppointment == [active |-> FALSE, from |-> 0, to |-> 0, buffer |-> NoBuffer]
Appointment == [active : BOOLEAN, from : Times, to : Times, buffer : Buffer]
Active == {a \in Appointments : appointment[a].active}

(* buffers_for: only a home visit involves travelling.                     *)
buffers_for(home) == IF home THEN margins ELSE NoBuffer
Window(range, buffer) == [from |-> range.from - buffer.before, to |-> range.to + buffer.after]
Overlap(r, s) == r.from < s.to /\ r.to > s.from

(* slot_end_time: a slot may not run past midnight.                        *)
SlotsOf(length) == {[from |-> t, to |-> t + length] : t \in {u \in Times : u + length <= DayEnd}}

Unblocked(slot, buffer) == \A b \in blocks : ~b.whole /\ ~Overlap(b, Window(slot, buffer))

InHours(slot) == \E h \in hours : h.from <= slot.from /\ slot.to <= h.to

validate_slot(slot, buffer, exclude) ==
    /\ Unblocked(slot, buffer)
    /\ InHours(slot)
    /\ \A a \in Active \ exclude :
          ~Overlap(Window(appointment[a], appointment[a].buffer), Window(slot, buffer))
-----------------------------------------------------------------------------
(* CheckAvailabilityView: what the customer is told about the day.         *)
Shift(time, minutes) ==
    IF time + minutes < 0 THEN 0 ELSE IF time + minutes > DayEnd THEN DayEnd ELSE time + minutes

(* Mutant: the ranges are widened by the travel, not by the way back.      *)
get_travel_ranges ==
    {[from |-> Shift(appointment[a].from, -appointment[a].buffer.before), to |-> appointment[a].to] : a \in Active}

get_blocked_ranges ==
    {[from |-> Shift(appointment[a].from, -appointment[a].buffer.before),
      to |-> Shift(appointment[a].to, appointment[a].buffer.after)] : a \in Active}

Availability ==
    [isBlocked |-> WholeDay \in blocks,
     workingWindow |-> hours,
     blockedRanges |-> get_blocked_ranges \cup {[from |-> b.from, to |-> b.to] : b \in blocks \ {WholeDay}},
     buffer |-> margins]

FreeOnScreen(slot, home) ==
    LET day == Availability
        window == Window(slot, IF home THEN day.buffer ELSE NoBuffer)
    IN /\ ~day.isBlocked
       /\ \E h \in day.workingWindow : h.from <= slot.from /\ slot.to <= h.to
       /\ \A r \in day.blockedRanges : ~Overlap(r, window)
-----------------------------------------------------------------------------
SetSchedule(h) == hours' = {h} /\ UNCHANGED <<blocks, margins, appointment>>

RemoveSchedule == hours' = {} /\ UNCHANGED <<blocks, margins, appointment>>

AddBlock(range) ==              \* get_or_create; what is already booked stays
    /\ blocks' = blocks \cup {range}
    /\ Cardinality(blocks') <= MaxBlocks
    /\ UNCHANGED <<hours, margins, appointment>>

RemoveBlocks ==                 \* every block of the date goes
    /\ blocks' = {}
    /\ UNCHANGED <<hours, margins, appointment>>

SetMargins(buffer) ==           \* appointments keep the minutes they were made with
    /\ margins' = buffer
    /\ UNCHANGED <<hours, blocks, appointment>>

Book(a, slot, home) ==
    /\ ~appointment[a].active
    /\ validate_slot(slot, buffers_for(home), {})
    /\ appointment' = [appointment EXCEPT ![a] =
          [active |-> TRUE, from |-> slot.from, to |-> slot.to, buffer |-> buffers_for(home)]]
    /\ UNCHANGED <<hours, blocks, margins>>

Move(a, slot) ==                \* an accepted reschedule keeps length and buffers
    /\ appointment[a].active
    /\ validate_slot(slot, appointment[a].buffer, {a})
    /\ appointment' = [appointment EXCEPT ![a].from = slot.from, ![a].to = slot.to]
    /\ UNCHANGED <<hours, blocks, margins>>

Release(a) ==                   \* cancelled, missed or completed
    /\ appointment[a].active
    /\ appointment' = [appointment EXCEPT ![a] = NoAppointment]
    /\ UNCHANGED <<hours, blocks, margins>>

SlotRulesInit ==
    /\ hours = {} /\ blocks = {} /\ margins = NoBuffer
    /\ appointment = [a \in Appointments |-> NoAppointment]

SlotRulesNext ==
    \/ \E h \in Hours : SetSchedule(h)
    \/ RemoveSchedule
    \/ \E range \in BlockRanges : AddBlock(range)
    \/ RemoveBlocks
    \/ \E buffer \in Buffer : SetMargins(buffer)
    \/ \E a \in Appointments :
          \/ \E length \in Lengths, home \in BOOLEAN : \E slot \in SlotsOf(length) : Book(a, slot, home)
          \/ \E slot \in SlotsOf(appointment[a].to - appointment[a].from) : Move(a, slot)
          \/ Release(a)
-----------------------------------------------------------------------------
SlotRulesTypeOK ==
    /\ hours \subseteq Hours /\ Cardinality(hours) <= 1
    /\ blocks \subseteq BlockRanges /\ Cardinality(blocks) <= MaxBlocks
    /\ margins \in Buffer
    /\ appointment \in [Appointments -> Appointment]

(* CheckAvailabilityView and validate_slot: after any history of hours,    *)
(* blocks, buffers, bookings and moves, and although the screen clamps the *)
(* windows to the day, the slots the screen shows as free are exactly      *)
(* those an order would be given, at home and in the studio.               *)
AvailabilityHonest ==
    \A length \in Lengths, home \in BOOLEAN : \A slot \in SlotsOf(length) :
        FreeOnScreen(slot, home) <=> validate_slot(slot, buffers_for(home), {})
=============================================================================
