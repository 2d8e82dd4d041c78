----------------------------- MODULE Reminders ------------------------------
(***************************************************************************)
(* The reminders of one booking, and its notifications in general.  The    *)
(* scheduler queues send_appointment_reminders every Period minutes; a run *)
(* takes the time and the bookings once and then works through them.  No   *)
(* lock, expiry or unique constraint keeps runs apart: one that waited in  *)
(* the queue or is slow is under way beside the next.  A run can be missed *)
(* or die, and notify swallows every error.  Time is the number of minutes *)
(* to the appointment; nothing happens in the long stretch between the two *)
(* windows, which one beat skips.                                          *)
(***************************************************************************)
EXTENDS Integers, FiniteSets

CONSTANTS
    Runs,           \* the runs of the task that can be under way at once
    Period,         \* minutes from one start of the task to the next
    Skip,           \* a multiple of Period, from below the first window to above the second
    First           \* minutes to the appointment when it may be made

(* Two starts of the task fall into the 34 hundredths of an hour of either *)
(* window.                                                                 *)
ASSUME RemindersAssumption ==
    /\ IsFiniteSet(Runs)
    /\ {Period, Skip} \subseteq Nat \ {0} /\ First \subseteq Nat
    /\ Skip % Period = 0
    /\ 2 * 100 * Period <= 60 * 34

VARIABLES
    status,         \* of the booking
    away,           \* minutes to its appointment
    begun,          \* a run has begun in this beat
    run,            \* the reminders each run still looks at
    absent,         \* those it has found no row of, and sends
    reminders,      \* rows of Notification of each type
    read,           \* types whose rows are read
    lost,           \* history: runs in the window of a type that sent nothing, 2 at most
    early           \* history: types whose window had not begun when the time was agreed

runVars == <<begun, run, absent>>
reminderVars == <<status, away, runVars, reminders, read, lost, early>>
-----------------------------------------------------------------------------
Types == {"booking_reminder_24h", "booking_reminder_2h"}

REMINDER_WINDOWS ==             \* in hundredths of an hour
    [type \in Types |-> IF type = "booking_reminder_24h" THEN <<2383, 2417>> ELSE <<183, 217>>]

Low(type) == 60 * REMINDER_WINDOWS[type][1]
High(type) == 60 * REMINDER_WINDOWS[type][2]
InWindow(type) == Low(type) <= 100 * away /\ 100 * away <= High(type)
Before(type, minutes) == 100 * minutes > High(type)
After(type) == 100 * away < Low(type)

(* The types a run missed the chance to send, if it ends here; no more     *)
(* than two are counted.                                                   *)
Missed(types) ==
    [type \in Types |-> IF type \in types /\ reminders[type] = 0 /\ lost[type] < 2 THEN lost[type] + 1 ELSE lost[type]]

Due == {type \in Types : status = "confirmed" /\ InWindow(type)}

(* Any run may start in any beat: a start can have waited in the queue.    *)
StartRun(w) ==
    /\ run[w] \cup absent[w] = {}
    /\ run' = [run EXCEPT ![w] = Due] /\ begun' = TRUE
    /\ UNCHANGED <<status, away, absent, reminders, read, lost, early>>

(* Mutant: a reminder that has been read is no longer found.               *)
exists_unread_for_booking(type) == reminders[type] > 0 /\ type \notin read

exists_for_booking(type) == reminders[type] > 0

Test(w, type) ==
    /\ type \in run[w]
    /\ run' = [run EXCEPT ![w] = @ \ {type}]
    /\ absent' = [absent EXCEPT ![w] = IF exists_for_booking(type) THEN @ ELSE @ \cup {type}]
    /\ UNCHANGED <<status, away, begun, reminders, read, lost, early>>

(* notify: in a savepoint, so that an error takes the row back.            *)
Remind(w, type) ==
    /\ type \in absent[w]
    /\ absent' = [absent EXCEPT ![w] = @ \ {type}]
    /\ \/ reminders' = [reminders EXCEPT ![type] = @ + 1] /\ read' = read \ {type} /\ UNCHANGED lost
       \/ lost' = Missed({type}) /\ UNCHANGED <<reminders, read>>
    /\ UNCHANGED <<status, away, begun, run, early>>

(* The worker is stopped: what the run did not do is not done.             *)
StopRun(w) ==
    /\ run[w] \cup absent[w] # {}
    /\ run' = [run EXCEPT ![w] = {}] /\ absent' = [absent EXCEPT ![w] = {}]
    /\ lost' = Missed(run[w] \cup absent[w])
    /\ UNCHANGED <<status, away, begun, reminders, read, early>>

(* The next start is due.  The runs under way go on.                       *)
Beat ==
    /\ away >= Period
    /\ away' = IF After("booking_reminder_24h") /\ Before("booking_reminder_2h", away - Skip)
                THEN away - Skip ELSE away - Period
    /\ begun' = FALSE
    /\ lost' = Missed(IF begun THEN {} ELSE Due)
    /\ UNCHANGED <<status, run, absent, reminders, read, early>>

Agree(minutes) ==
    /\ away' = minutes
    /\ lost' = [type \in Types |-> 0] /\ early' = {type \in Types : Before(type, minutes)}

ConfirmBooking ==
    /\ status = "pending"
    /\ status' = "confirmed" /\ Agree(away)
    /\ UNCHANGED <<runVars, reminders, read>>

Reschedule(minutes) ==          \* also while a run works with the time it read
    /\ status = "confirmed" /\ Agree(minutes)
    /\ UNCHANGED <<status, runVars, reminders, read>>

EndService ==                   \* started, cancelled or closed by the sweep
    /\ status = "confirmed"
    /\ status' = "ended"
    /\ UNCHANGED <<away, runVars, reminders, read, lost, early>>

(* A whole-row save of a PIN counter that read the row before the service  *)
(* started or was cancelled.  The time counts as agreed on anew.           *)
PutBack ==
    /\ status = "ended"
    /\ status' = "confirmed" /\ Agree(away)
    /\ UNCHANGED <<runVars, reminders, read>>

mark_read(type) ==
    /\ reminders[type] > 0 /\ read' = read \cup {type}
    /\ UNCHANGED <<status, away, runVars, reminders, lost, early>>

mark_all_read ==
    /\ read' = {type \in Types : reminders[type] > 0}
    /\ UNCHANGED <<status, away, runVars, reminders, lost, early>>
-----------------------------------------------------------------------------
RemindersInit ==
    /\ status = "pending" /\ away \in First /\ begun = FALSE
    /\ run = [w \in Runs |-> {}] /\ absent = [w \in Runs |-> {}]
    /\ reminders = [type \in Types |-> 0] /\ read = {}
    /\ lost = [type \in Types |-> 0] /\ early = {}

RemindersNext ==
    \/ Beat \/ ConfirmBooking \/ EndService \/ PutBack \/ mark_all_read
    \/ \E w \in Runs :
          \/ StartRun(w) \/ StopRun(w)
          \/ \E type \in Types : Test(w, type) \/ Remind(w, type)
    \/ \E type \in Types : mark_read(type)
    \/ \E minutes \in First : Reschedule(minutes)
-----------------------------------------------------------------------------
RemindersTypeOK ==
    /\ status \in {"pending", "confirmed", "ended"} /\ away \in Nat
    /\ begun \in BOOLEAN /\ run \in [Runs -> SUBSET Types] /\ absent \in [Runs -> SUBSET Types]
    /\ reminders \in [Types -> Nat] /\ read \subseteq Types
    /\ lost \in [Types -> 0..2] /\ early \subseteq Types

(* send_appointment_reminders tests for a row and then inserts one: only   *)
(* runs that had all tested before the first row was stored repeat a       *)
(* reminder, so that each run under way sends it once at most.  A single   *)
(* run at a time never repeats one, whatever dies, is read or rescheduled. *)
ReminderOnce == \A type \in Types : reminders[type] <= Cardinality(Runs)

(* REMINDER_WINDOWS: a window is long enough for two runs wherever the     *)
(* appointment falls between their starts, so a booking agreed on before   *)
(* it and still confirmed after it has been reminded, unless a run is yet  *)
(* to do so or more than one failed it.  One that a stale save confirms    *)
(* once more counts as agreed on then: no run saw it while it was ended.   *)
ReminderNotMissed ==
    \A type \in Types :
        /\ status = "confirmed" /\ type \in early /\ After(type) /\ lost[type] <= 1
        /\ \A w \in Runs : type \notin run[w] \cup absent[w]
        => reminders[type] > 0

(* send_appointment_reminders: never more often than runs overlap, and not *)
(* missed for want of a run at the right minute.                           *)
RemindedInTime == ReminderOnce /\ ReminderNotMissed
=============================================================================
