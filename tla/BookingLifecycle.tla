-------------------------- MODULE BookingLifecycle --------------------------
(***************************************************************************)
(* One booking, from the customer's order to a final state: the artist's   *)
(* decisions, on-my-way, arrival, the Start and Completion PINs, the       *)
(* customer's cancellation and the Celery sweeps.  A request reads the     *)
(* row, decides, and writes later; only the artist's decision, the issue   *)
(* of a Completion PIN and the completion itself decide under the row      *)
(* lock, and each of those is one step here.  The appointment does not     *)
(* move: SlotCalendar models rescheduling.                                 *)
(***************************************************************************)
EXTENDS Integers

CONSTANTS
    Requests,         \* handler activations that can be in flight
    Start, End,       \* the appointment: booking_date with start_time, end_time
    OnMyWayWindow,    \* Configurations.on_my_way_window_hours
    MissedGrace,      \* Configurations.booking_missed_grace_hours
    PinBuffer,        \* buffer_hours of the PIN expiries
    MaxTime,          \* bound on the clock
    MaxPins           \* bound on the Completion PINs minted

ASSUME LifecycleAssumption ==
    /\ {Start, End, OnMyWayWindow, MissedGrace, PinBuffer, MaxTime, MaxPins} \subseteq Nat
    /\ Start < End

VARIABLES
    booking,    \* the row
    req,        \* the handlers in flight
    sweep,      \* the mark_missed_bookings task: idle, or holding its candidate
    pins,       \* Completion PINs minted so far; a PIN is its serial number
    cashback,   \* CASHBACK rows of this booking in the coin ledger
    witnessed,  \* history: what the parties have proved by PIN or by tapping
    now

vars == <<booking, req, sweep, pins, cashback, witnessed, now>>
-----------------------------------------------------------------------------
ACTIVE_STATUSES == {"pending", "confirmed", "in_progress"}
FinalStatuses == {"completed", "cancelled", "no_show"}
Statuses == ACTIVE_STATUSES \cup FinalStatuses

(* Mutant: the artist may start the service without the Start PIN. *)
ARTIST_TRANSITIONS_UNPINNED ==
    [s \in Statuses |-> CASE s = "pending"     -> {"confirmed", "cancelled"}
                          [] s = "confirmed"   -> {"cancelled", "in_progress"}
                          [] s = "in_progress" -> {"no_show"}
                          [] OTHER             -> {}]

ARTIST_TRANSITIONS ==
    [s \in Statuses |-> CASE s = "pending"     -> {"confirmed", "cancelled"}
                          [] s = "confirmed"   -> {"cancelled"}
                          [] s = "in_progress" -> {"no_show"}
                          [] OTHER             -> {}]

(* startPin and pin hold the two PINs; a null PIN is FALSE or 0. *)
Row == [status : Statuses, onMyWay : BOOLEAN, arrived : BOOLEAN,
        startPin : BOOLEAN, pin : 0..MaxPins, pinExpires : Nat]
NewRow == [status |-> "pending", onMyWay |-> FALSE, arrived |-> FALSE,
           startPin |-> FALSE, pin |-> 0, pinExpires |-> 0]

SaveOps == {"cancel", "arrive", "start", "start_miss", "finish_miss"}
Ops == SaveOps \cup {"on_my_way", "request_pin", "finish"}
Request == [op : Ops \cup {"none"}, pc : {"idle", "checked", "loaded"},
            pin : 0..MaxPins, snap : Row]
Idle == [op |-> "none", pc |-> "idle", pin |-> 0, snap |-> NewRow]

PastMissedDeadline == now > Start + MissedGrace
WithoutPins(row) == [row EXCEPT !.startPin = FALSE, !.pin = 0, !.pinExpires = 0]
-----------------------------------------------------------------------------
(* What each handler requires of the row it reads first. *)

StartReady(row)  == row.status = "confirmed" /\ row.arrived
FinishReady(row) == row.status = "in_progress" /\ row.pin # 0

Allowed(op, row) ==
    \/ op = "cancel"      /\ row.status \in {"pending", "confirmed"} /\ ~row.arrived
    \/ op = "on_my_way"   /\ row.status = "confirmed" /\ ~row.onMyWay
                          /\ ~PastMissedDeadline /\ now >= Start - OnMyWayWindow
    \/ op = "arrive"      /\ row.status = "confirmed" /\ row.onMyWay /\ ~row.arrived
                          /\ ~PastMissedDeadline
    \/ op = "start"       /\ StartReady(row) /\ row.startPin /\ now <= End + PinBuffer
    \/ op = "start_miss"  /\ StartReady(row)
    \/ op = "request_pin" /\ row.status = "in_progress"
    \/ op = "finish"      /\ FinishReady(row) /\ now <= row.pinExpires
    \/ op = "finish_miss" /\ FinishReady(row)

Check(r, op) ==
    /\ req[r] = Idle
    /\ Allowed(op, booking)
    /\ req' = [req EXCEPT ![r] = [Idle EXCEPT !.op = op, !.pc = "checked",
                                              !.pin = IF op = "finish" THEN booking.pin ELSE 0]]
    /\ UNCHANGED <<booking, sweep, pins, cashback, witnessed, now>>

(* The model method reads the row a second time, checks nothing ... *)
Load(r) ==
    /\ req[r].op \in SaveOps /\ req[r].pc = "checked"
    /\ req' = [req EXCEPT ![r].pc = "loaded", ![r].snap = booking]
    /\ UNCHANGED <<booking, sweep, pins, cashback, witnessed, now>>

(* A wrong PIN changes only the attempt counter and the lockout time,      *)
(* which stay out of the model; it writes every other column back.         *)
Saved(op, row) ==
    CASE op = "cancel" -> [WithoutPins(row) EXCEPT !.status = "cancelled"]
      [] op = "arrive" -> [row EXCEPT !.arrived = TRUE, !.startPin = TRUE]
      [] op = "start"  -> [row EXCEPT !.status = "in_progress", !.startPin = FALSE]
      [] OTHER         -> row

(* ... and writes it back, every column of it. *)
Save(r) ==
    /\ req[r].op \in SaveOps /\ req[r].pc = "loaded"
    /\ booking' = Saved(req[r].op, req[r].snap)
    /\ witnessed' = witnessed \cup ({"arrive", "start"} \cap {req[r].op})
    /\ req' = [req EXCEPT ![r] = Idle]
    /\ UNCHANGED <<sweep, pins, cashback, now>>

MarkOnMyWay(r) ==          \* queryset.update() of one column
    /\ req[r].op = "on_my_way" /\ req[r].pc = "checked"
    /\ booking' = [booking EXCEPT !.onMyWay = TRUE]
    /\ req' = [req EXCEPT ![r] = Idle]
    /\ UNCHANGED <<sweep, pins, cashback, witnessed, now>>

(* A worker dies, or a later call of the handler raises: no rollback.      *)
Abandon(r) ==
    /\ req[r] # Idle
    /\ req' = [req EXCEPT ![r] = Idle]
    /\ UNCHANGED <<booking, sweep, pins, cashback, witnessed, now>>
-----------------------------------------------------------------------------
(* Decisions taken under the lock of the booking's row. *)

UpdateStatus(new) ==
    /\ new \in ARTIST_TRANSITIONS[booking.status]
    /\ new = "confirmed" => ~PastMissedDeadline
    /\ booking' = IF new = "cancelled" THEN [WithoutPins(booking) EXCEPT !.status = new]
                  ELSE [booking EXCEPT !.status = new]
    /\ UNCHANGED <<req, sweep, pins, cashback, witnessed, now>>

Later(t) == IF End < t THEN t ELSE End
IssueCompletionPin(r) ==   \* a PIN that is still valid is kept
    /\ req[r].op = "request_pin" /\ req[r].pc = "checked"
    /\ IF booking.pin # 0 /\ now <= booking.pinExpires
       THEN UNCHANGED <<booking, pins>>
       ELSE /\ pins < MaxPins                                  \* bound
            /\ pins' = pins + 1
            /\ booking' = [booking EXCEPT !.pin = pins', !.pinExpires = Later(now) + PinBuffer]
    /\ witnessed' = witnessed \cup {"request_pin"}
    /\ req' = [req EXCEPT ![r] = Idle]
    /\ UNCHANGED <<sweep, cashback, now>>

(* Mutant: the PIN and the status are not looked at again under the lock. *)
PinStillValidUnchecked(r) == TRUE

PinStillValid(r) == /\ booking.status = "in_progress"
                    /\ booking.pin # 0 /\ booking.pin = req[r].pin
                    /\ now <= booking.pinExpires

(* Mutant: no unique_cashback_per_booking in the database. *)
CashbackInsertable == TRUE

CashbackFree == cashback = 0

(* The completion and its cashback commit together or not at all. *)
CompleteService(r) ==
    /\ req[r].op = "finish" /\ req[r].pc = "checked"
    /\ PinStillValid(r) /\ CashbackFree
    /\ booking' = [booking EXCEPT !.status = "completed", !.pin = 0, !.pinExpires = 0]
    /\ cashback' = cashback + 1
    /\ req' = [req EXCEPT ![r] = Idle]
    /\ UNCHANGED <<sweep, pins, witnessed, now>>
-----------------------------------------------------------------------------
(* The Celery tasks.  The slot lock of 15 minutes is shorter than a clock  *)
(* unit, so an unpaid pending booking may lapse at any moment.             *)
CancelStalePending ==
    /\ booking.status = "pending"
    /\ booking' = [booking EXCEPT !.status = "cancelled"]
    /\ UNCHANGED <<req, sweep, pins, cashback, witnessed, now>>

(* Mutant: the task forgets the bookings nobody accepted. *)
MissedStatusesConfirmed == {"confirmed"}

MissedStatuses == {"pending", "confirmed"}

FindMissed ==
    /\ sweep = "idle"
    /\ booking.status \in MissedStatuses /\ PastMissedDeadline
    /\ sweep' = "found"
    /\ UNCHANGED <<booking, req, pins, cashback, witnessed, now>>

MarkMissed ==
    /\ sweep = "found"
    /\ booking' = [WithoutPins(booking) EXCEPT !.status = "no_show"]
    /\ sweep' = "idle"
    /\ UNCHANGED <<req, pins, cashback, witnessed, now>>
-----------------------------------------------------------------------------
Tick == /\ now < MaxTime
        /\ now' = now + 1
        /\ UNCHANGED <<booking, req, sweep, pins, cashback, witnessed>>

Init == /\ booking = NewRow
        /\ req = [r \in Requests |-> Idle]
        /\ sweep = "idle" /\ pins = 0 /\ cashback = 0 /\ witnessed = {} /\ now = 0

RequestNext(r) == \/ \E op \in Ops : Check(r, op)
                  \/ Load(r) \/ Save(r) \/ MarkOnMyWay(r) \/ Abandon(r)
                  \/ IssueCompletionPin(r) \/ CompleteService(r)

Next == \/ \E r \in Requests : RequestNext(r)
        \/ \E new \in Statuses : UpdateStatus(new)
        \/ CancelStalePending \/ FindMissed \/ MarkMissed \/ Tick

Spec == Init /\ [][Next]_vars

(* Celery beat starts the sweep every five minutes, for ever. *)
FairSpec == Spec /\ WF_vars(FindMissed) /\ WF_vars(MarkMissed)
-----------------------------------------------------------------------------
TypeOK == /\ booking \in Row
          /\ req \in [Requests -> Request]
          /\ sweep \in {"idle", "found"}
          /\ pins \in 0..MaxPins
          /\ cashback \in Nat
          /\ witnessed \subseteq {"arrive", "start", "request_pin"}
          /\ now \in Nat

(* The customer is given cashback for a booking once, although a stale     *)
(* save can bring a completed booking and its PIN back.                    *)
CashbackOnce == cashback <= 1

(* StartPinView and CompletionPinView: what the customer can read out.     *)
start_service_pin_shown == booking.startPin
completion_pin_shown == booking.pin # 0

(* A Start PIN on the screen belongs to an artist who came; a Completion   *)
(* PIN is never shown before the service was started.  Stale rows are      *)
(* saved whole, the sweeps and the artist's decision write some columns    *)
(* only.                                                                   *)
ShownPinsEarned ==
    /\ start_service_pin_shown => booking.arrived /\ "arrive" \in witnessed
    /\ completion_pin_shown => "start" \in witnessed /\ booking.status # "pending"

(* record_pin_failure and the other savers of a whole row: neither a stale *)
(* row nor a crossing of handlers takes the booking out of its columns,    *)
(* pays its cashback again or shows the customer a PIN nobody earned.      *)
BookingSound == TypeOK /\ CashbackOnce /\ ShownPinsEarned

(* The row never shows more progress than the two parties have proved:     *)
(* service in progress needs the arrival and the Start PIN, completion     *)
(* needs the Completion PIN as well.                                       *)
ProgressWitnessed ==
    /\ booking.status = "in_progress" => {"arrive", "start"} \subseteq witnessed
    /\ booking.status = "completed"   => {"arrive", "start", "request_pin"} \subseteq witnessed

(* Cashback is credited only by the step that takes the service from       *)
(* in_progress to completed: not to a booking that was closed while the    *)
(* Completion PIN was being checked.                                       *)
CashbackOnlyOnCompletion ==
    [][cashback' # cashback => /\ booking.status = "in_progress"
                              /\ booking'.status = "completed"]_vars

(* A booking nobody acts on does not stay open: once its deadline has      *)
(* passed, a pending or confirmed booking is closed.                       *)
ExpiredBookingCloses ==
    (booking.status \in {"pending", "confirmed"} /\ PastMissedDeadline)
        ~> booking.status \notin {"pending", "confirmed"}

(* What the docstring of mark_missed_bookings says: the sweep never closes *)
(* a booking whose service is in progress.                                 *)
SweepSparesService ==
    [][MarkMissed => booking.status # "in_progress"]_vars
=============================================================================
