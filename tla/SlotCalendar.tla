---------------------------- MODULE SlotCalendar ----------------------------
(***************************************************************************)
(* One artist's calendar: the bookings table as create_booking, the two    *)
(* reschedule endpoints, the status endpoints and the Celery sweeps write  *)
(* it.  A request is a Django handler in flight.  The handlers that claim  *)
(* time on the calendar run in transaction.atomic() and take row locks;    *)
(* the others read the row, read it again and write the whole row back     *)
(* (Model.save()) in separate statements, so other requests run between.   *)
(* Artists never share calendar rows, so one artist stands for all.        *)
(***************************************************************************)
EXTENDS Integers, FiniteSets

CONSTANTS
    Bookings,         \* booking ids the table may hold
    Requests,         \* handler activations that can be in flight
    Slots,            \* appointment windows that can be asked for
    Closures,         \* sets of slots the artist's blocks and hours may refuse
    Handlers,         \* the unlocked handlers that are called
    DayLength,        \* clock units in a day
    MaxTime,          \* bound on the clock
    MinAdvance,       \* Configurations.min_booking_advance_hours
    OnMyWayWindow,    \* Configurations.on_my_way_window_hours
    MissedGrace,      \* Configurations.booking_missed_grace_hours
    ResponseWindow,   \* Configurations.reschedule_response_hours
    NoSlot, NoBooking, NoRequest

ASSUME ConstantsAssumption ==
    /\ \A s \in Slots : /\ DOMAIN s = {"day", "start", "end", "before", "after"}
                        /\ s.day \in Nat /\ s.start \in Nat /\ s.end \in Nat
                        /\ s.before \in Nat /\ s.after \in Nat
                        /\ s.start < s.end
    /\ Closures \subseteq SUBSET Slots
    /\ {DayLength, MaxTime, MinAdvance, OnMyWayWindow, MissedGrace, ResponseWindow} \subseteq Nat
    /\ NoSlot \notin Slots /\ NoBooking \notin Bookings /\ NoRequest \notin Requests

VARIABLES
    booking,      \* the bookings table
    proposal,     \* the pending BookingReschedule of each booking, if any
    unavailable,  \* slots the artist's blocks and weekly hours refuse now
    artistLock,   \* holder of the lock on the artist's own row
    rowLock,      \* holder of the lock on each booking row
    req,          \* the handlers in flight
    now,          \* timezone.now()
    revived       \* history: claims not granted by validate_slot but put
                  \* back on the calendar by a stale whole-row save

vars == <<booking, proposal, unavailable, artistLock, rowLock, req, now, revived>>
-----------------------------------------------------------------------------
ACTIVE_STATUSES == {"pending", "confirmed", "in_progress"}
Statuses == ACTIVE_STATUSES \cup {"none", "cancelled", "completed", "no_show"}

ARTIST_TRANSITIONS ==
    [s \in Statuses |-> CASE s = "pending"     -> {"confirmed", "cancelled"}
                          [] s = "confirmed"   -> {"cancelled"}
                          [] s = "in_progress" -> {"no_show"}
                          [] OTHER             -> {}]

Row == [status : Statuses, slot : Slots \cup {NoSlot}, onMyWay : BOOLEAN, arrived : BOOLEAN]
NoRow == [status |-> "none", slot |-> NoSlot, onMyWay |-> FALSE, arrived |-> FALSE]

Proposal == [open : BOOLEAN, slot : Slots \cup {NoSlot}, expires : Nat]
NoProposal == [open |-> FALSE, slot |-> NoSlot, expires |-> 0]

ClaimOps == {"create", "propose", "accept"}
SaveOps  == {"customer_cancel", "arrive", "start", "pin_miss"}
SweepOps == {"on_my_way", "missed"}
Request == [op   : ClaimOps \cup SaveOps \cup SweepOps \cup {"none"},
            pc   : {"idle", "want_lock", "scan", "commit", "checked", "closing", "saving"},
            bid  : Bookings \cup {NoBooking},
            slot : Slots \cup {NoSlot},
            snap : Row]
Idle == [op |-> "none", pc |-> "idle", bid |-> NoBooking, slot |-> NoSlot, snap |-> NoRow]

IsActive(row) == row.status \in ACTIVE_STATUSES
Moment(s) == s.day * DayLength + s.start
PastMissedDeadline(row) == now > Moment(row.slot) + MissedGrace

(* Two appointments conflict when their windows, widened by the travel and *)
(* return buffers they were made with, overlap on the same day.            *)
Conflict(s, t) == /\ s.day = t.day
                  /\ s.start - s.before < t.end + t.after
                  /\ s.end + s.after > t.start - t.before

ProposalHeld(b) == \E r \in Requests : req[r].op = "accept" /\ req[r].bid = b
Unlocked(b) == rowLock[b] = NoRequest
LapseStale == [b \in Bookings |-> IF proposal[b].open /\ proposal[b].expires < now
                                  THEN NoProposal ELSE proposal[b]]
ASSUME HandlersAssumption == Handlers \subseteq SaveOps \cup SweepOps
-----------------------------------------------------------------------------
(* Slot claims: the transactions that end in validate_slot. *)

CreateBegin(r, s) ==
    /\ req[r] = Idle
    /\ Cardinality({q \in Requests : req[q].op = "create"})      \* bound: ids left
          < Cardinality({b \in Bookings : booking[b].status = "none"})
    /\ Moment(s) >= now + MinAdvance
    /\ s \notin unavailable
    /\ req' = [req EXCEPT ![r] = [Idle EXCEPT !.op = "create", !.pc = "want_lock", !.slot = s]]
    /\ UNCHANGED <<booking, proposal, unavailable, artistLock, rowLock, now, revived>>

RequestAllowed(b, s) ==
    LET row == booking[b] IN
    /\ row.status = "confirmed" /\ ~row.onMyWay
    /\ Moment(row.slot) > now
    /\ ~proposal[b].open
    /\ <<s.day, s.start>> # <<row.slot.day, row.slot.start>>
    /\ Moment(s) >= now + MinAdvance
    /\ s.end - s.start = row.slot.end - row.slot.start
    /\ s.before = row.slot.before /\ s.after = row.slot.after
    /\ s \notin unavailable

ProposeBegin(r, b, s) ==
    /\ req[r] = Idle /\ Unlocked(b)
    /\ ~(proposal[b].open /\ proposal[b].expires < now)
    /\ RequestAllowed(b, s)
    /\ rowLock' = [rowLock EXCEPT ![b] = r]
    /\ req' = [req EXCEPT ![r] = [Idle EXCEPT !.op = "propose", !.pc = "want_lock",
                                              !.bid = b, !.slot = s]]
    /\ UNCHANGED <<booking, proposal, unavailable, artistLock, now, revived>>

(* Mutant: the acceptance does not look at on_my_way_at. *)
AcceptAllowedEnRoute(b) ==
    /\ booking[b].status = "confirmed"
    /\ Moment(proposal[b].slot) > now
    /\ proposal[b].slot \notin unavailable

AcceptAllowed(b) ==
    /\ booking[b].status = "confirmed" /\ ~booking[b].onMyWay
    /\ Moment(proposal[b].slot) > now
    /\ proposal[b].slot \notin unavailable

AcceptBegin(r, b) ==
    /\ req[r] = Idle /\ Unlocked(b) /\ ~ProposalHeld(b)
    /\ LapseStale[b].open
    /\ AcceptAllowed(b)
    /\ proposal' = LapseStale
    /\ rowLock' = [rowLock EXCEPT ![b] = r]
    /\ req' = [req EXCEPT ![r] = [Idle EXCEPT !.op = "accept", !.pc = "want_lock",
                                              !.bid = b, !.slot = proposal[b].slot]]
    /\ UNCHANGED <<booking, unavailable, artistLock, now, revived>>

(* Mutant: validate_slot without its lock on the artist's row. *)
LockArtistUnlocked(r) ==
    /\ req[r].pc = "want_lock"
    /\ artistLock' = r
    /\ req' = [req EXCEPT ![r].pc = "scan"]
    /\ UNCHANGED <<booking, proposal, unavailable, rowLock, now, revived>>

(* validate_slot queues on the artist's own row first ... *)
LockArtist(r) ==
    /\ req[r].pc = "want_lock"
    /\ artistLock = NoRequest
    /\ artistLock' = r
    /\ req' = [req EXCEPT ![r].pc = "scan"]
    /\ UNCHANGED <<booking, proposal, unavailable, rowLock, now, revived>>

(* Mutant: the error answer is returned with the transaction left open. *)
AbortKeepingLocks(r) ==
    /\ req' = [req EXCEPT ![r] = Idle]
    /\ UNCHANGED <<booking, proposal, unavailable, artistLock, rowLock, now, revived>>

Abort(r) ==
    /\ req' = [req EXCEPT ![r] = Idle]
    /\ artistLock' = IF artistLock = r THEN NoRequest ELSE artistLock
    /\ rowLock' = [b \in Bookings |-> IF rowLock[b] = r THEN NoRequest ELSE rowLock[b]]
    /\ UNCHANGED <<booking, proposal, unavailable, now, revived>>

(* Mutant: unpaid bookings do not count. *)
DayRowsAccepted(r) == {b \in Bookings : /\ booking[b].status \in {"confirmed", "in_progress"}
                                        /\ booking[b].slot.day = req[r].slot.day
                                        /\ b # req[r].bid}

DayRows(r) == {b \in Bookings : /\ IsActive(booking[b])
                                /\ booking[b].slot.day = req[r].slot.day
                                /\ b # req[r].bid}

(* ... then locks and reads the other active bookings of that day. *)
ValidateSlot(r) ==
    /\ req[r].pc = "scan"
    /\ \A b \in DayRows(r) : rowLock[b] \in {NoRequest, r}
    /\ \/ /\ \E b \in DayRows(r) : Conflict(booking[b].slot, req[r].slot)
          /\ Abort(r)
       \/ /\ \A b \in DayRows(r) : ~Conflict(booking[b].slot, req[r].slot)
          /\ rowLock' = [b \in Bookings |-> IF b \in DayRows(r) THEN r ELSE rowLock[b]]
          /\ req' = [req EXCEPT ![r].pc = "commit"]
          /\ UNCHANGED <<booking, proposal, unavailable, artistLock, now, revived>>

EndTransaction(r) ==
    /\ req' = [req EXCEPT ![r] = Idle]
    /\ artistLock' = NoRequest
    /\ rowLock' = [b \in Bookings |-> IF rowLock[b] = r THEN NoRequest ELSE rowLock[b]]

CreateCommit(r, b) ==
    /\ req[r].op = "create" /\ req[r].pc = "commit"
    /\ booking[b].status = "none"
    /\ booking' = [booking EXCEPT ![b] = [NoRow EXCEPT !.status = "pending", !.slot = req[r].slot]]
    /\ EndTransaction(r)
    /\ UNCHANGED <<proposal, unavailable, now, revived>>

ProposeCommit(r) ==
    /\ req[r].op = "propose" /\ req[r].pc = "commit"
    /\ LET b == req[r].bid
           start == Moment(booking[b].slot)
       IN proposal' = [proposal EXCEPT ![b] =
              [open |-> TRUE, slot |-> req[r].slot,
               expires |-> IF now + ResponseWindow < start THEN now + ResponseWindow ELSE start]]
    /\ EndTransaction(r)
    /\ UNCHANGED <<booking, unavailable, now, revived>>

AcceptCommit(r) ==
    /\ req[r].op = "accept" /\ req[r].pc = "commit"
    /\ booking' = [booking EXCEPT ![req[r].bid].slot = req[r].slot]
    /\ proposal' = [proposal EXCEPT ![req[r].bid] = NoProposal]
    /\ revived' = revived \ {req[r].bid}
    /\ EndTransaction(r)
    /\ UNCHANGED <<unavailable, now>>

(* A creator holds the artist row and waits for a booking row; a rescheduler *)
(* holds that booking row and waits for the artist row.  The database breaks *)
(* the cycle by failing one of the two transactions.                         *)
DeadlockVictim(r) ==
    /\ \E p, q \in Requests :
          /\ req[p].pc = "scan" /\ req[q].pc = "want_lock"
          /\ \E b \in DayRows(p) : rowLock[b] = q
          /\ r \in {p, q}
    /\ Abort(r)
-----------------------------------------------------------------------------
(* The rest of the reschedule endpoints. *)

WithdrawProposal(b) ==     \* customer rejects, or the artist cancels the request
    /\ LapseStale[b].open /\ ~ProposalHeld(b)
    /\ proposal' = [LapseStale EXCEPT ![b] = NoProposal]
    /\ UNCHANGED <<booking, unavailable, artistLock, rowLock, req, now, revived>>

ExpireStale ==             \* runs before every read or write of reschedules
    /\ proposal # LapseStale
    /\ \A b \in Bookings : ProposalHeld(b) => LapseStale[b] = proposal[b]
    /\ proposal' = LapseStale
    /\ UNCHANGED <<booking, unavailable, artistLock, rowLock, req, now, revived>>
-----------------------------------------------------------------------------
(* Status changes made in one statement or under the booking's row lock. *)

UpdateStatus(b, new) ==
    /\ Unlocked(b)
    /\ new \in ARTIST_TRANSITIONS[booking[b].status]
    /\ new = "confirmed" => ~PastMissedDeadline(booking[b])
    /\ new = "cancelled" => ~ProposalHeld(b)
    /\ booking' = [booking EXCEPT ![b].status = new]
    /\ proposal' = IF new = "cancelled" THEN [proposal EXCEPT ![b] = NoProposal] ELSE proposal
    /\ UNCHANGED <<unavailable, artistLock, rowLock, req, now, revived>>

CompleteService(b) ==
    /\ Unlocked(b)
    /\ booking[b].status = "in_progress"
    /\ booking' = [booking EXCEPT ![b].status = "completed"]
    /\ UNCHANGED <<proposal, unavailable, artistLock, rowLock, req, now, revived>>

(* The 15-minute slot lock is shorter than a clock unit: an unpaid pending  *)
(* booking can lapse at any moment.                                         *)
CancelStalePending(b) ==
    /\ Unlocked(b)
    /\ booking[b].status = "pending"
    /\ booking' = [booking EXCEPT ![b].status = "cancelled"]
    /\ UNCHANGED <<proposal, unavailable, artistLock, rowLock, req, now, revived>>
-----------------------------------------------------------------------------
(* Handlers that check a row, and act on it later, without a lock. *)

CancelAllowed(row)   == row.status \in {"pending", "confirmed"} /\ ~row.arrived
OnMyWayAllowed(row)  == /\ row.status = "confirmed" /\ ~row.onMyWay
                        /\ ~PastMissedDeadline(row)
                        /\ now >= Moment(row.slot) - OnMyWayWindow
ArrivedAllowed(row)  == /\ row.status = "confirmed" /\ row.onMyWay /\ ~row.arrived
                        /\ ~PastMissedDeadline(row)
StartPinAllowed(row) == row.status = "confirmed" /\ row.arrived
PinMissAllowed(row)  == StartPinAllowed(row) \/ row.status = "in_progress"
MissedCandidate(row) == row.status \in {"pending", "confirmed"} /\ PastMissedDeadline(row)

Allowed(op, row) == \/ op = "customer_cancel" /\ CancelAllowed(row)
                    \/ op = "on_my_way" /\ OnMyWayAllowed(row)
                    \/ op = "arrive"    /\ ArrivedAllowed(row)
                    \/ op = "start"     /\ StartPinAllowed(row)
                    \/ op = "pin_miss"  /\ PinMissAllowed(row)
                    \/ op = "missed"    /\ MissedCandidate(row)

Check(r, op, b) ==
    /\ req[r] = Idle
    /\ Allowed(op, booking[b])
    /\ req' = [req EXCEPT ![r] = [Idle EXCEPT !.op = op, !.pc = "checked", !.bid = b]]
    /\ UNCHANGED <<booking, proposal, unavailable, artistLock, rowLock, now, revived>>

Load(r) ==                 \* Booking.objects.get()
    /\ req[r].op \in SaveOps /\ req[r].pc = "checked"
    /\ req' = [req EXCEPT ![r].snap = booking[req[r].bid],
                          ![r].pc = IF req[r].op = "customer_cancel" THEN "closing" ELSE "saving"]
    /\ UNCHANGED <<booking, proposal, unavailable, artistLock, rowLock, now, revived>>

CancelPendingProposal(r) ==
    /\ \/ req[r].pc = "closing"
       \/ req[r].op = "missed" /\ req[r].pc = "checked"
    /\ ~ProposalHeld(req[r].bid)
    /\ proposal' = [proposal EXCEPT ![req[r].bid] = NoProposal]
    /\ req' = [req EXCEPT ![r].pc = "saving"]
    /\ UNCHANGED <<booking, unavailable, artistLock, rowLock, now, revived>>

(* What each handler saves: the row it loaded with its own fields changed. *)
Saved(op, row) == CASE op = "customer_cancel" -> [row EXCEPT !.status = "cancelled"]
                    [] op = "arrive"          -> [row EXCEPT !.arrived = TRUE]
                    [] op = "start"           -> [row EXCEPT !.status = "in_progress"]
                    [] OTHER                  -> row

Save(r) ==                 \* booking.save(): every column
    LET b == req[r].bid
        row == Saved(req[r].op, req[r].snap)
    IN /\ req[r].op \in SaveOps /\ req[r].pc = "saving"
       /\ Unlocked(b)
       /\ booking' = [booking EXCEPT ![b] = row]
       /\ revived' = IF IsActive(row) /\ (~IsActive(booking[b]) \/ row.slot # booking[b].slot)
                     THEN revived \cup {b} ELSE revived
       /\ req' = [req EXCEPT ![r] = Idle]
       /\ UNCHANGED <<proposal, unavailable, artistLock, rowLock, now>>

UpdateColumns(r) ==        \* queryset.update(): the named columns only
    LET b == req[r].bid IN
    /\ \/ /\ req[r].op = "on_my_way" /\ req[r].pc = "checked"
          /\ booking' = [booking EXCEPT ![b].onMyWay = TRUE]
       \/ /\ req[r].op = "missed" /\ req[r].pc = "saving"
          /\ booking' = [booking EXCEPT ![b].status = "no_show"]
    /\ Unlocked(b)
    /\ req' = [req EXCEPT ![r] = Idle]
    /\ UNCHANGED <<proposal, unavailable, artistLock, rowLock, now, revived>>
-----------------------------------------------------------------------------
SetAvailability(S) ==      \* blocks and weekly hours, changed at any time
    /\ unavailable' = S
    /\ UNCHANGED <<booking, proposal, artistLock, rowLock, req, now, revived>>

(* Transactions are short against a clock unit: none spans a tick. *)
Tick == /\ now < MaxTime
        /\ \A r \in Requests : req[r].op \notin ClaimOps
        /\ now' = now + 1
        /\ UNCHANGED <<booking, proposal, unavailable, artistLock, rowLock, req, revived>>

Init == /\ booking = [b \in Bookings |-> NoRow]
        /\ proposal = [b \in Bookings |-> NoProposal]
        /\ unavailable = {}
        /\ artistLock = NoRequest
        /\ rowLock = [b \in Bookings |-> NoRequest]
        /\ req = [r \in Requests |-> Idle]
        /\ now = 0
        /\ revived = {}

ClaimStep(r) == \/ LockArtist(r) \/ ValidateSlot(r) \/ DeadlockVictim(r)
                \/ ProposeCommit(r) \/ AcceptCommit(r)
                \/ \E b \in Bookings : CreateCommit(r, b)

RequestNext(r) ==
    \/ ClaimStep(r)
    \/ \E s \in Slots : CreateBegin(r, s)
    \/ \E b \in Bookings, s \in Slots : ProposeBegin(r, b, s)
    \/ \E b \in Bookings : AcceptBegin(r, b)
    \/ \E op \in Handlers, b \in Bookings : Check(r, op, b)
    \/ Load(r) \/ CancelPendingProposal(r) \/ Save(r) \/ UpdateColumns(r)

Next == \/ \E r \in Requests : RequestNext(r)
        \/ \E b \in Bookings : \/ WithdrawProposal(b) \/ CompleteService(b) \/ CancelStalePending(b)
                               \/ \E new \in Statuses : UpdateStatus(b, new)
        \/ ExpireStale
        \/ \E S \in Closures : SetAvailability(S)
        \/ Tick

Spec == Init /\ [][Next]_vars
-----------------------------------------------------------------------------
TypeOK == /\ booking \in [Bookings -> Row]
          /\ \A b \in Bookings : booking[b].slot = NoSlot <=> booking[b].status = "none"
          /\ proposal \in [Bookings -> Proposal]
          /\ unavailable \subseteq Slots
          /\ artistLock \in Requests \cup {NoRequest}
          /\ rowLock \in [Bookings -> Requests \cup {NoRequest}]
          /\ req \in [Requests -> Request]
          /\ now \in Nat
          /\ revived \subseteq Bookings

(* No two active bookings of the artist occupy conflicting windows, unless *)
(* one of them was put back by a stale whole-row save: neither creating    *)
(* nor rescheduling, however interleaved, books the artist twice.          *)
ClaimedSlotsDisjoint ==
    \A b, c \in Bookings :
        /\ b # c
        /\ IsActive(booking[b]) /\ IsActive(booking[c])
        /\ Conflict(booking[b].slot, booking[c].slot)
        => b \in revived \/ c \in revived

(* Once the artist has set off, the appointment does not move under them:  *)
(* no step changes the slot of a booking that is active, en route, and     *)
(* stays active, but the stale whole-row save that marks it as revived (a  *)
(* service started on the row a cancellation wrote, with a third handler's *)
(* save between the two, puts the old slot back).                          *)
EnRouteSlotFixed ==
    [][\A b \in Bookings :
          /\ IsActive(booking[b]) /\ booking[b].onMyWay
          /\ IsActive(booking'[b]) /\ b \notin revived'
          => booking'[b].slot = booking[b].slot]_vars

(* Behind its locks, proposals and handlers the calendar is a diary: every *)
(* step of create_booking, the reschedules, the status endpoints and the   *)
(* sweeps enters, moves or strikes out one appointment as ArtistDiary      *)
(* allows, or records a departure, or none of these.                       *)
Held(b) == IsActive(booking[b]) /\ b \notin revived

Diary == INSTANCE ArtistDiary WITH
    Clashes     <- {pair \in Slots \X Slots : Conflict(pair[1], pair[2])},
    appointment <- [b \in Bookings |-> IF Held(b) THEN booking[b].slot ELSE NoSlot],
    setOff      <- {b \in Bookings : Held(b) /\ booking[b].onMyWay}

KeepsDiary == Diary!DiarySpec

(* The inductive strengthening of ClaimedSlotsDisjoint.                    *)
LockInv ==        \* only the holder of the artist row is past LockArtist
    \A r \in Requests : req[r].pc \in {"scan", "commit"} => artistLock = r

GrantInv ==       \* what validate_slot granted stays free until the commit
    \A r \in Requests, b \in Bookings :
        /\ req[r].pc = "commit" /\ b # req[r].bid
        /\ IsActive(booking[b]) /\ Conflict(booking[b].slot, req[r].slot)
        => b \in revived

ShapeInv ==       \* what a handler in flight has read
    /\ \A b \in Bookings : proposal[b].open => proposal[b].slot \in Slots
    /\ \A r \in Requests :
          /\ req[r].op \in ClaimOps => req[r].pc \in {"want_lock", "scan", "commit"}
          /\ req[r].op \in ClaimOps => req[r].slot \in Slots
          /\ req[r].op = "create" => req[r].bid = NoBooking
          /\ req[r].op \notin {"create", "none"} => /\ req[r].bid \in Bookings
                                                  /\ booking[req[r].bid].status # "none"
          /\ req[r].op \in SaveOps /\ req[r].pc # "checked" => /\ req[r].snap.slot \in Slots
                                                             /\ req[r].snap.status # "none"
          /\ req[r].op \notin ClaimOps => req[r].pc \notin {"want_lock", "scan", "commit"}

ClaimInv == TypeOK /\ LockInv /\ GrantInv /\ ShapeInv /\ ClaimedSlotsDisjoint

FairSpec == /\ Spec
            /\ \A r \in Requests : /\ WF_vars(ValidateSlot(r) \/ DeadlockVictim(r))
                                   /\ WF_vars(ProposeCommit(r) \/ AcceptCommit(r)
                                              \/ \E b \in Bookings : CreateCommit(r, b))
                                   /\ SF_vars(LockArtist(r))

(* Every transaction that asks for a slot comes to an end.                 *)
ClaimsFinish == \A r \in Requests : req[r].op \in ClaimOps ~> req[r].op \notin ClaimOps
=============================================================================
