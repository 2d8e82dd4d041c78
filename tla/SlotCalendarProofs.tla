------------------------- MODULE SlotCalendarProofs -------------------------
(***************************************************************************)
(* That no two claims on an artist's calendar conflict, that no            *)
(* appointment is moved once the artist has set off for it, and that the   *)
(* calendar implements ArtistDiary, for every set of bookings, requests    *)
(* and slots: ClaimInv, AcceptInv and TravelInv are inductive.             *)
(***************************************************************************)
EXTENDS SlotCalendar, TLAPS

USE ConstantsAssumption

(* Conflict does not depend on the order of the two appointments: the test *)
(* of validate_slot may compare the new one with the existing either way.  *)
LEMMA ConflictSymmetric ==
    ASSUME NEW s \in Slots, NEW t \in Slots, Conflict(s, t)
    PROVE  Conflict(t, s)
  BY DEF Conflict

(* A row on the calendar has a slot. *)
LEMMA ActiveHasSlot ==
    ASSUME TypeOK, NEW b \in Bookings, IsActive(booking[b])
    PROVE  booking[b].slot \in Slots
  BY DEF TypeOK, Row, IsActive, ACTIVE_STATUSES

LEMMA LapseStaleType ==
    ASSUME TypeOK, ShapeInv
    PROVE  /\ LapseStale \in [Bookings -> Proposal]
           /\ \A b \in Bookings : LapseStale[b].open => LapseStale[b] = proposal[b]
  BY DEF TypeOK, ShapeInv, LapseStale, Proposal, NoProposal

(* The clean-up at the end of a transaction keeps the lock table well typed. *)
LEMMA ReleaseType ==
    ASSUME TypeOK, NEW r \in Requests
    PROVE  [b \in Bookings |-> IF rowLock[b] = r THEN NoRequest ELSE rowLock[b]]
               \in [Bookings -> Requests \cup {NoRequest}]
  BY DEF TypeOK

LEMMA InitClaimInv == Init => ClaimInv
  <1> SUFFICES ASSUME Init PROVE ClaimInv
    OBVIOUS
  <1>1. NoRow \in Row /\ NoProposal \in Proposal /\ Idle \in Request
    BY DEF NoRow, Row, Statuses, NoProposal, Proposal, Idle, Request
  <1>2. TypeOK
    BY <1>1 DEF Init, TypeOK, NoRow
  <1>3. LockInv /\ GrantInv /\ ShapeInv /\ ClaimedSlotsDisjoint
    BY DEF Init, LockInv, GrantInv, ShapeInv, ClaimedSlotsDisjoint, Idle, NoRow, NoProposal,
           IsActive, ACTIVE_STATUSES, ClaimOps, SaveOps
  <1> QED
    BY <1>2, <1>3 DEF ClaimInv
-----------------------------------------------------------------------------
(* Steps that leave the bookings alone. *)

LEMMA CreateBeginStep ==
    ASSUME ClaimInv, NEW r \in Requests, NEW s \in Slots, CreateBegin(r, s)
    PROVE  ClaimInv'
  <1>1. TypeOK'
    BY DEF ClaimInv, CreateBegin, TypeOK, Idle, Request, ClaimOps, NoRow, Row, Statuses
  <1>2. LockInv'
    BY DEF ClaimInv, CreateBegin, TypeOK, LockInv, Idle
  <1>3. GrantInv'
    BY DEF ClaimInv, CreateBegin, TypeOK, GrantInv, Idle
  <1>4. ShapeInv'
    BY DEF ClaimInv, CreateBegin, TypeOK, ShapeInv, Idle, ClaimOps, SaveOps
  <1>5. ClaimedSlotsDisjoint'
    BY DEF ClaimInv, CreateBegin, ClaimedSlotsDisjoint
  <1> QED
    BY <1>1, <1>2, <1>3, <1>4, <1>5 DEF ClaimInv

LEMMA ProposeBeginStep ==
    ASSUME ClaimInv, NEW r \in Requests, NEW b \in Bookings, NEW s \in Slots,
           ProposeBegin(r, b, s)
    PROVE  ClaimInv'
  <1>1. TypeOK'
    BY DEF ClaimInv, ProposeBegin, TypeOK, Idle, Request, ClaimOps, NoRow, Row, Statuses
  <1>2. LockInv'
    BY DEF ClaimInv, ProposeBegin, TypeOK, LockInv, Idle
  <1>3. GrantInv'
    BY DEF ClaimInv, ProposeBegin, TypeOK, GrantInv, Idle
  <1>4. ShapeInv'
    BY DEF ClaimInv, ProposeBegin, TypeOK, ShapeInv, Idle, ClaimOps, SaveOps, RequestAllowed
  <1>5. ClaimedSlotsDisjoint'
    BY DEF ClaimInv, ProposeBegin, ClaimedSlotsDisjoint
  <1> QED
    BY <1>1, <1>2, <1>3, <1>4, <1>5 DEF ClaimInv

LEMMA AcceptBeginStep ==
    ASSUME ClaimInv, NEW r \in Requests, NEW b \in Bookings, AcceptBegin(r, b)
    PROVE  ClaimInv'
  <1>0. /\ LapseStale \in [Bookings -> Proposal]
        /\ \A c \in Bookings : LapseStale[c].open => LapseStale[c] = proposal[c]
    BY LapseStaleType DEF ClaimInv
  <1>1. proposal[b].slot \in Slots
    BY <1>0 DEF ClaimInv, ShapeInv, AcceptBegin
  <1>2. TypeOK'
    BY <1>0, <1>1 DEF ClaimInv, AcceptBegin, TypeOK, Idle, Request, ClaimOps, NoRow, Row, Statuses
  <1>3. LockInv'
    BY DEF ClaimInv, AcceptBegin, TypeOK, LockInv, Idle
  <1>4. GrantInv'
    BY DEF ClaimInv, AcceptBegin, TypeOK, GrantInv, Idle
  <1>5. ShapeInv'
    BY <1>0, <1>1 DEF ClaimInv, AcceptBegin, AcceptAllowed, TypeOK, ShapeInv, Idle, ClaimOps, SaveOps
  <1>6. ClaimedSlotsDisjoint'
    BY DEF ClaimInv, AcceptBegin, ClaimedSlotsDisjoint
  <1> QED
    BY <1>2, <1>3, <1>4, <1>5, <1>6 DEF ClaimInv

LEMMA LockArtistStep ==
    ASSUME ClaimInv, NEW r \in Requests, LockArtist(r)
    PROVE  ClaimInv'
  <1>1. TypeOK'
    BY DEF ClaimInv, LockArtist, TypeOK, Request
  <1>2. LockInv'
    BY DEF ClaimInv, LockArtist, TypeOK, LockInv
  <1>3. GrantInv'
    BY DEF ClaimInv, LockArtist, TypeOK, GrantInv
  <1>4. ShapeInv'
    BY DEF ClaimInv, LockArtist, TypeOK, Request, ShapeInv, ClaimOps, SaveOps
  <1>5. ClaimedSlotsDisjoint'
    BY DEF ClaimInv, LockArtist, ClaimedSlotsDisjoint
  <1> QED
    BY <1>1, <1>2, <1>3, <1>4, <1>5 DEF ClaimInv

LEMMA AbortStep ==
    ASSUME ClaimInv, NEW r \in Requests, Abort(r)
    PROVE  ClaimInv'
  <1>1. TypeOK'
    BY ReleaseType DEF ClaimInv, Abort, TypeOK, Idle, Request, NoRow, Row, Statuses
  <1>2. LockInv'
    BY DEF ClaimInv, Abort, TypeOK, LockInv, Idle
  <1>3. GrantInv'
    BY DEF ClaimInv, Abort, TypeOK, GrantInv, Idle
  <1>4. ShapeInv'
    BY DEF ClaimInv, Abort, TypeOK, ShapeInv, Idle, ClaimOps, SaveOps
  <1>5. ClaimedSlotsDisjoint'
    BY DEF ClaimInv, Abort, ClaimedSlotsDisjoint
  <1> QED
    BY <1>1, <1>2, <1>3, <1>4, <1>5 DEF ClaimInv

LEMMA ValidateSlotStep ==
    ASSUME ClaimInv, NEW r \in Requests, ValidateSlot(r)
    PROVE  ClaimInv'
  <1> DEFINE Free == \A b \in DayRows(r) : ~Conflict(booking[b].slot, req[r].slot)
             Grant == /\ rowLock' = [b \in Bookings |-> IF b \in DayRows(r) THEN r ELSE rowLock[b]]
                      /\ req' = [req EXCEPT ![r].pc = "commit"]
                      /\ UNCHANGED <<booking, proposal, unavailable, artistLock, now, revived>>
  <1>1. CASE Abort(r)
    BY <1>1, AbortStep
  <1>2. CASE Free /\ Grant
    <2>1. TypeOK'
      BY <1>2 DEF ClaimInv, TypeOK, Request
    <2>2. LockInv'
      BY <1>2 DEF ClaimInv, ValidateSlot, TypeOK, LockInv
    <2>3. \A b \in Bookings : /\ b # req[r].bid /\ IsActive(booking[b])
                              /\ Conflict(booking[b].slot, req[r].slot)
                              => b \in DayRows(r)
      BY DEF DayRows, Conflict
    <2>4. GrantInv'
      <3> SUFFICES ASSUME NEW q \in Requests, NEW b \in Bookings,
                          req'[q].pc = "commit", b # req'[q].bid,
                          IsActive(booking[b]), Conflict(booking[b].slot, req'[q].slot)
                   PROVE  b \in revived
        BY <1>2 DEF GrantInv, IsActive, Conflict
      <3>1. CASE q = r
        BY <3>1, <1>2, <2>3 DEF ClaimInv, TypeOK
      <3>2. CASE q # r
        BY <3>2, <1>2 DEF ClaimInv, TypeOK, GrantInv
      <3> QED
        BY <3>1, <3>2
    <2>5. ShapeInv'
      BY <1>2 DEF ClaimInv, ValidateSlot, TypeOK, Request, ShapeInv, ClaimOps, SaveOps
    <2>6. ClaimedSlotsDisjoint'
      BY <1>2 DEF ClaimInv, ClaimedSlotsDisjoint
    <2> QED
      BY <2>1, <2>2, <2>4, <2>5, <2>6 DEF ClaimInv
  <1> QED
    BY <1>1, <1>2 DEF ValidateSlot
-----------------------------------------------------------------------------
(* The commits. *)

LEMMA CreateCommitStep ==
    ASSUME ClaimInv, NEW r \in Requests, NEW b \in Bookings, CreateCommit(r, b)
    PROVE  ClaimInv'
  <1> DEFINE row == [NoRow EXCEPT !.status = "pending", !.slot = req[r].slot]
  <1>1. /\ req[r].slot \in Slots /\ req[r].bid = NoBooking
        /\ row \in Row /\ row.slot = req[r].slot /\ row.status = "pending"
        /\ booking' = [booking EXCEPT ![b] = row]
        /\ booking'[b] = row
        /\ \A c \in Bookings : c # b => booking'[c] = booking[c]
    BY DEF ClaimInv, CreateCommit, TypeOK, ShapeInv, ClaimOps, NoRow, Row, Statuses, ACTIVE_STATUSES
  <1>2. TypeOK'
    BY <1>1, ReleaseType DEF ClaimInv, CreateCommit, EndTransaction, TypeOK, Idle, Request,
                            NoRow, Row, Statuses
  <1>3. \A q \in Requests : q # r => req[q].pc \notin {"scan", "commit"} /\ req'[q] = req[q]
    BY DEF ClaimInv, LockInv, TypeOK, CreateCommit, EndTransaction
  <1>4. req'[r] = Idle
    BY DEF ClaimInv, TypeOK, CreateCommit, EndTransaction
  <1>5. LockInv' /\ GrantInv'
    BY <1>3, <1>4 DEF LockInv, GrantInv, Idle
  <1>6. ShapeInv'
    BY <1>1, <1>3, <1>4 DEF ClaimInv, CreateCommit, ShapeInv, Idle, ClaimOps, SaveOps
  <1>7. \A c \in Bookings : /\ c # b /\ IsActive(booking[c])
                            /\ Conflict(booking[c].slot, row.slot)
                            => c \in revived
    BY <1>1 DEF ClaimInv, CreateCommit, GrantInv
  <1>8. ClaimedSlotsDisjoint'
    <2> SUFFICES ASSUME NEW c \in Bookings, NEW d \in Bookings, c # d,
                        IsActive(booking'[c]), IsActive(booking'[d]),
                        Conflict(booking'[c].slot, booking'[d].slot)
                 PROVE  c \in revived \/ d \in revived
      BY DEF ClaimedSlotsDisjoint, CreateCommit, IsActive, Conflict
    <2>1. CASE c = b
      <3>1. Conflict(booking[d].slot, row.slot)
        BY <2>1, <1>1, ActiveHasSlot, ConflictSymmetric DEF ClaimInv
      <3> QED
        BY <2>1, <3>1, <1>1, <1>7
    <2>2. CASE d = b
      BY <2>2, <1>1, <1>7
    <2>3. CASE c # b /\ d # b
      BY <2>3, <1>1 DEF ClaimInv, ClaimedSlotsDisjoint
    <2> QED
      BY <2>1, <2>2, <2>3
  <1> QED
    BY <1>2, <1>5, <1>6, <1>8 DEF ClaimInv

LEMMA ProposeCommitStep ==
    ASSUME ClaimInv, NEW r \in Requests, ProposeCommit(r)
    PROVE  ClaimInv'
  <1>1. /\ req[r].bid \in Bookings /\ req[r].slot \in Slots
        /\ booking[req[r].bid].slot \in Slots
    BY DEF ClaimInv, ProposeCommit, TypeOK, ShapeInv, ClaimOps, Row
  <1> DEFINE start == Moment(booking[req[r].bid].slot)
             p == [open |-> TRUE, slot |-> req[r].slot,
                   expires |-> IF now + ResponseWindow < start THEN now + ResponseWindow ELSE start]
  <1>2. start \in Nat
    <2>1. booking[req[r].bid].slot.day \in Nat /\ booking[req[r].bid].slot.start \in Nat
      BY <1>1
    <2>2. \A i \in Nat : i * DayLength \in Nat
      OBVIOUS
    <2> QED
      BY <2>1, <2>2 DEF Moment
  <1>3. p \in Proposal /\ p.slot \in Slots
    BY <1>1, <1>2 DEF ClaimInv, TypeOK, Proposal
  <1>4. proposal' = [proposal EXCEPT ![req[r].bid] = p]
    BY DEF ProposeCommit
  <1>5. TypeOK'
    <2> HIDE DEF p
    <2> QED
      BY <1>1, <1>3, <1>4, ReleaseType DEF ClaimInv, ProposeCommit, EndTransaction, TypeOK, Idle,
                                           Request, NoRow, Row, Statuses
  <1>6. LockInv' /\ GrantInv'
    BY DEF ClaimInv, ProposeCommit, EndTransaction, TypeOK, LockInv, GrantInv, Idle
  <1>7. ShapeInv'
    <2> HIDE DEF p
    <2> QED
      BY <1>1, <1>3, <1>4 DEF ClaimInv, ProposeCommit, EndTransaction, TypeOK, ShapeInv, Idle,
                              ClaimOps, SaveOps
  <1>8. ClaimedSlotsDisjoint'
    BY DEF ClaimInv, ProposeCommit, ClaimedSlotsDisjoint
  <1> QED
    BY <1>5, <1>6, <1>7, <1>8 DEF ClaimInv

LEMMA AcceptCommitStep ==
    ASSUME ClaimInv, NEW r \in Requests, AcceptCommit(r)
    PROVE  ClaimInv'
  <1> DEFINE b == req[r].bid
  <1>1. /\ b \in Bookings /\ req[r].slot \in Slots
        /\ booking[b].status # "none"
        /\ booking' = [booking EXCEPT ![b].slot = req[r].slot]
        /\ booking'[b].slot = req[r].slot /\ booking'[b].status = booking[b].status
        /\ \A c \in Bookings : c # b => booking'[c] = booking[c]
    BY DEF ClaimInv, AcceptCommit, TypeOK, ShapeInv, ClaimOps, Row
  <1>2. TypeOK'
    <2>1. NoProposal \in Proposal
      BY DEF NoProposal, Proposal
    <2>2. proposal' \in [Bookings -> Proposal]
      BY <2>1 DEF ClaimInv, AcceptCommit, TypeOK
    <2>3. /\ booking' \in [Bookings -> Row]
          /\ \A c \in Bookings : booking'[c].slot = NoSlot <=> booking'[c].status = "none"
      BY <1>1 DEF ClaimInv, TypeOK, Row
    <2>4. req' \in [Requests -> Request] /\ revived' \subseteq Bookings
      BY DEF ClaimInv, AcceptCommit, EndTransaction, TypeOK, Idle, Request, NoRow, Row, Statuses
    <2> QED
      BY <2>2, <2>3, <2>4, ReleaseType DEF ClaimInv, AcceptCommit, EndTransaction, TypeOK
  <1>3. \A q \in Requests : q # r => req[q].pc \notin {"scan", "commit"} /\ req'[q] = req[q]
    BY DEF ClaimInv, LockInv, TypeOK, AcceptCommit, EndTransaction
  <1>4. req'[r] = Idle
    BY DEF ClaimInv, TypeOK, AcceptCommit, EndTransaction
  <1>5. LockInv' /\ GrantInv'
    BY <1>3, <1>4 DEF LockInv, GrantInv, Idle
  <1>6. ShapeInv'
    <2>1. \A c \in Bookings : proposal'[c].open => proposal'[c].slot \in Slots
      BY <1>1 DEF ClaimInv, AcceptCommit, TypeOK, ShapeInv, NoProposal
    <2>2. \A c \in Bookings : booking'[c].status = booking[c].status
      BY <1>1
    <2> QED
      BY <1>3, <1>4, <2>1, <2>2 DEF ClaimInv, ShapeInv, Idle, ClaimOps, SaveOps
  <1>7. \A c \in Bookings : /\ c # b /\ IsActive(booking[c])
                            /\ Conflict(booking[c].slot, req[r].slot)
                            => c \in revived
    BY DEF ClaimInv, AcceptCommit, GrantInv
  <1>8. ClaimedSlotsDisjoint'
    <2> SUFFICES ASSUME NEW c \in Bookings, NEW d \in Bookings, c # d,
                        IsActive(booking'[c]), IsActive(booking'[d]),
                        Conflict(booking'[c].slot, booking'[d].slot)
                 PROVE  c \in revived' \/ d \in revived'
      BY DEF ClaimedSlotsDisjoint, IsActive, Conflict
    <2>0. revived' = revived \ {b}
      BY DEF AcceptCommit
    <2>1. CASE c = b
      <3>1. Conflict(booking[d].slot, req[r].slot)
        BY <2>1, <1>1, ActiveHasSlot, ConflictSymmetric DEF ClaimInv
      <3> QED
        BY <2>0, <2>1, <3>1, <1>1, <1>7
    <2>2. CASE d = b
      BY <2>0, <2>2, <1>1, <1>7
    <2>3. CASE c # b /\ d # b
      BY <2>0, <2>3, <1>1 DEF ClaimInv, ClaimedSlotsDisjoint
    <2> QED
      BY <2>1, <2>2, <2>3
  <1> QED
    BY <1>2, <1>5, <1>6, <1>8 DEF ClaimInv
-----------------------------------------------------------------------------
(* The steps of the other handlers. *)

LEMMA WithdrawProposalStep ==
    ASSUME ClaimInv, NEW b \in Bookings, WithdrawProposal(b)
    PROVE  ClaimInv'
  <1>1. /\ proposal' \in [Bookings -> Proposal]
        /\ \A c \in Bookings : proposal'[c].open => proposal'[c] = proposal[c]
    BY LapseStaleType DEF ClaimInv, WithdrawProposal, NoProposal, Proposal
  <1> QED
    BY <1>1 DEF ClaimInv, WithdrawProposal, TypeOK, LockInv, GrantInv, ShapeInv, ClaimedSlotsDisjoint

LEMMA ExpireStaleStep ==
    ASSUME ClaimInv, ExpireStale
    PROVE  ClaimInv'
  BY LapseStaleType DEF ClaimInv, ExpireStale, TypeOK, LockInv, GrantInv, ShapeInv, ClaimedSlotsDisjoint

(* A step that changes one booking's status, never onto the calendar, and  *)
(* may close its proposal.                                                 *)
LEMMA StatusStep ==
    ASSUME ClaimInv, NEW b \in Bookings, NEW new \in Statuses \ {"none"},
           IsActive(booking[b]) \/ new \notin ACTIVE_STATUSES,
           booking[b].status # "none",
           booking' = [booking EXCEPT ![b].status = new],
           proposal' \in {proposal, [proposal EXCEPT ![b] = NoProposal]},
           UNCHANGED <<unavailable, artistLock, rowLock, req, now, revived>>
    PROVE  ClaimInv'
  <1>1. /\ booking'[b].slot = booking[b].slot /\ booking'[b].status = new
        /\ \A c \in Bookings : c # b => booking'[c] = booking[c]
    BY DEF ClaimInv, TypeOK, Row
  <1>2. TypeOK'
    <2>1. NoProposal \in Proposal
      BY DEF NoProposal, Proposal
    <2>2. proposal' \in [Bookings -> Proposal]
      BY <2>1 DEF ClaimInv, TypeOK
    <2>3. /\ booking' \in [Bookings -> Row]
          /\ \A c \in Bookings : booking'[c].slot = NoSlot <=> booking'[c].status = "none"
      BY <1>1 DEF ClaimInv, TypeOK, Row
    <2> QED
      BY <2>2, <2>3 DEF ClaimInv, TypeOK
  <1>3. /\ \A c \in Bookings : booking'[c].slot = booking[c].slot
        /\ \A c \in Bookings : IsActive(booking'[c]) => IsActive(booking[c])
    BY <1>1 DEF IsActive
  <1>4. LockInv' /\ GrantInv' /\ ClaimedSlotsDisjoint'
    BY <1>3 DEF ClaimInv, LockInv, GrantInv, ClaimedSlotsDisjoint, Conflict
  <1>5. ShapeInv'
    <2>1. \A c \in Bookings : proposal'[c].open => proposal'[c] = proposal[c]
      BY DEF ClaimInv, TypeOK, NoProposal
    <2> QED
      BY <1>1, <2>1 DEF ClaimInv, ShapeInv
  <1> QED
    BY <1>2, <1>4, <1>5 DEF ClaimInv

LEMMA UpdateStatusStep ==
    ASSUME ClaimInv, NEW b \in Bookings, NEW new \in Statuses, UpdateStatus(b, new)
    PROVE  ClaimInv'
  <1>1. booking[b].status \in Statuses
    BY DEF ClaimInv, TypeOK, Row
  <1>2. /\ booking[b].status \in ACTIVE_STATUSES /\ new # "none"
    BY <1>1 DEF UpdateStatus, ARTIST_TRANSITIONS, ACTIVE_STATUSES
  <1> QED
    BY <1>2, StatusStep DEF UpdateStatus, IsActive, ACTIVE_STATUSES

LEMMA CompleteServiceStep ==
    ASSUME ClaimInv, NEW b \in Bookings, CompleteService(b)
    PROVE  ClaimInv'
  BY StatusStep DEF CompleteService, IsActive, ACTIVE_STATUSES, Statuses

LEMMA CancelStalePendingStep ==
    ASSUME ClaimInv, NEW b \in Bookings, CancelStalePending(b)
    PROVE  ClaimInv'
  BY StatusStep DEF CancelStalePending, IsActive, ACTIVE_STATUSES, Statuses

LEMMA CheckStep ==
    ASSUME ClaimInv, NEW r \in Requests, NEW op \in Handlers, NEW b \in Bookings, Check(r, op, b)
    PROVE  ClaimInv'
  <1>0. /\ op \in SaveOps \cup SweepOps /\ op \notin ClaimOps
        /\ booking[b].status # "none"
    BY HandlersAssumption DEF Check, Allowed, CancelAllowed, OnMyWayAllowed, ArrivedAllowed,
       StartPinAllowed, PinMissAllowed, MissedCandidate, SaveOps, SweepOps, ClaimOps
  <1>1. TypeOK'
    BY <1>0 DEF ClaimInv, Check, TypeOK, Idle, Request, NoRow, Row, Statuses
  <1>2. LockInv' /\ GrantInv' /\ ClaimedSlotsDisjoint'
    BY DEF ClaimInv, Check, TypeOK, LockInv, GrantInv, ClaimedSlotsDisjoint, Idle
  <1>3. ShapeInv'
    BY <1>0 DEF ClaimInv, Check, TypeOK, ShapeInv, Idle, ClaimOps, SaveOps
  <1> QED
    BY <1>1, <1>2, <1>3 DEF ClaimInv

LEMMA LoadStep ==
    ASSUME ClaimInv, NEW r \in Requests, Load(r)
    PROVE  ClaimInv'
  <1>0. /\ req[r].bid \in Bookings /\ booking[req[r].bid].status # "none"
        /\ booking[req[r].bid].slot \in Slots
    BY DEF ClaimInv, Load, TypeOK, ShapeInv, SaveOps, Row
  <1>1. TypeOK'
    BY <1>0 DEF ClaimInv, Load, TypeOK, Request
  <1>2. LockInv' /\ GrantInv' /\ ClaimedSlotsDisjoint'
    BY DEF ClaimInv, Load, TypeOK, LockInv, GrantInv, ClaimedSlotsDisjoint
  <1>3. ShapeInv'
    <2> DEFINE x == [req[r] EXCEPT !.snap = booking[req[r].bid],
                                   !.pc = IF req[r].op = "customer_cancel" THEN "closing" ELSE "saving"]
    <2>1. /\ req' = [req EXCEPT ![r] = x] /\ UNCHANGED <<booking, proposal>>
          /\ req[r].op \in SaveOps /\ req[r] \in Request
      BY DEF Load, ClaimInv, TypeOK
    <2>2. /\ x.op = req[r].op /\ x.bid = req[r].bid /\ x.slot = req[r].slot
          /\ x.snap = booking[req[r].bid] /\ x.pc \in {"closing", "saving"}
      BY <2>1 DEF Request
    <2>3. req'[r] = x /\ \A q \in Requests \ {r} : req'[q] = req[q]
      BY <2>1 DEF ClaimInv, TypeOK
    <2> HIDE DEF x
    <2>4. ShapeInv
      BY DEF ClaimInv
    <2> QED
      BY <1>0, <2>1, <2>2, <2>3, <2>4 DEF ShapeInv, ClaimOps, SaveOps
  <1> QED
    BY <1>1, <1>2, <1>3 DEF ClaimInv

LEMMA CancelPendingProposalStep ==
    ASSUME ClaimInv, NEW r \in Requests, CancelPendingProposal(r)
    PROVE  ClaimInv'
  <1>1. TypeOK'
    <2>1. NoProposal \in Proposal
      BY DEF NoProposal, Proposal
    <2>2. proposal' \in [Bookings -> Proposal]
      BY <2>1 DEF ClaimInv, CancelPendingProposal, TypeOK
    <2>3. req' \in [Requests -> Request]
      BY DEF ClaimInv, CancelPendingProposal, TypeOK, Request
    <2> QED
      BY <2>2, <2>3 DEF ClaimInv, CancelPendingProposal, TypeOK
  <1>2. LockInv' /\ GrantInv' /\ ClaimedSlotsDisjoint'
    BY DEF ClaimInv, CancelPendingProposal, TypeOK, LockInv, GrantInv, ClaimedSlotsDisjoint
  <1>3. ShapeInv'
    BY DEF ClaimInv, CancelPendingProposal, TypeOK, Request, ShapeInv, NoProposal, ClaimOps, SaveOps
  <1> QED
    BY <1>1, <1>2, <1>3 DEF ClaimInv

LEMMA SaveStep ==
    ASSUME ClaimInv, NEW r \in Requests, Save(r)
    PROVE  ClaimInv'
  <1> DEFINE b == req[r].bid
             row == Saved(req[r].op, req[r].snap)
  <1>1. b \in Bookings /\ req[r].snap \in Row /\ req[r].snap.slot \in Slots
        /\ req[r].snap.status # "none"
    BY DEF ClaimInv, Save, TypeOK, Request, ShapeInv, SaveOps
  <1>2. row \in Row /\ row.slot \in Slots /\ row.status # "none"
    BY <1>1 DEF Saved, Row, Statuses, ACTIVE_STATUSES
  <1> HIDE DEF row
  <1>3. /\ booking' = [booking EXCEPT ![b] = row] /\ req' = [req EXCEPT ![r] = Idle]
        /\ revived' = IF IsActive(row) /\ (~IsActive(booking[b]) \/ row.slot # booking[b].slot)
                      THEN revived \cup {b} ELSE revived
        /\ UNCHANGED <<proposal, unavailable, artistLock, rowLock, now>>
    BY DEF Save, row
  <1>4. booking'[b] = row /\ \A c \in Bookings : c # b => booking'[c] = booking[c]
    BY <1>1, <1>3 DEF ClaimInv, TypeOK
  <1>5. TypeOK'
    BY <1>1, <1>2, <1>3 DEF ClaimInv, TypeOK, Idle, Request, NoRow, Row, Statuses
  <1>6. req'[r] = Idle /\ \A q \in Requests : q # r => req'[q] = req[q]
    BY <1>3 DEF ClaimInv, TypeOK
  <1>7. LockInv'
    BY <1>3, <1>6 DEF ClaimInv, LockInv, Idle
  <1>8. ShapeInv'
    BY <1>2, <1>3, <1>4, <1>6 DEF ClaimInv, ShapeInv, Idle, ClaimOps, SaveOps
  (* A booking the save leaves active is as it was, or is marked revived. *)
  <1>9. \A c \in Bookings : IsActive(booking'[c]) =>
            \/ c \in revived'
            \/ IsActive(booking[c]) /\ booking'[c].slot = booking[c].slot
    BY <1>1, <1>3, <1>4
  <1>10. revived \subseteq revived'
    BY <1>3
  <1>11. GrantInv'
    BY <1>6, <1>9, <1>10 DEF ClaimInv, GrantInv, Idle, Conflict
  <1>12. ClaimedSlotsDisjoint'
    BY <1>9, <1>10 DEF ClaimInv, ClaimedSlotsDisjoint, Conflict
  <1> QED
    BY <1>5, <1>7, <1>8, <1>11, <1>12 DEF ClaimInv

LEMMA UpdateColumnsStep ==
    ASSUME ClaimInv, NEW r \in Requests, UpdateColumns(r)
    PROVE  ClaimInv'
  <1> DEFINE b == req[r].bid
  <1>1. b \in Bookings /\ booking[b].status # "none"
    BY DEF ClaimInv, UpdateColumns, ShapeInv
  <1>2. /\ req' = [req EXCEPT ![r] = Idle]
        /\ UNCHANGED <<proposal, unavailable, artistLock, rowLock, now, revived>>
    BY DEF UpdateColumns
  <1>3. /\ booking' \in [Bookings -> Row]
        /\ \A c \in Bookings : booking'[c].slot = booking[c].slot
        /\ \A c \in Bookings : booking'[c].status # "none" <=> booking[c].status # "none"
        /\ \A c \in Bookings : IsActive(booking'[c]) => IsActive(booking[c])
    <2>1. CASE booking' = [booking EXCEPT ![b].onMyWay = TRUE]
      <3>0. \A row \in Row : [row EXCEPT !.onMyWay = TRUE] \in Row
        BY DEF Row
      <3>1. booking' \in [Bookings -> Row]
        BY <1>1, <2>1, <3>0 DEF ClaimInv, TypeOK
      <3>2. \A c \in Bookings : /\ booking'[c].slot = booking[c].slot
                                /\ booking'[c].status = booking[c].status
        BY <1>1, <2>1 DEF ClaimInv, TypeOK, Row
      <3> QED
        BY <3>1, <3>2 DEF IsActive
    <2>2. CASE booking' = [booking EXCEPT ![b].status = "no_show"]
      BY <1>1, <2>2 DEF ClaimInv, TypeOK, Row, IsActive, Statuses, ACTIVE_STATUSES
    <2> QED
      BY <2>1, <2>2 DEF UpdateColumns
  <1>4. TypeOK'
    BY <1>2, <1>3 DEF ClaimInv, TypeOK, Idle, Request, NoRow, Row, Statuses
  <1>5. req'[r] = Idle /\ \A q \in Requests : q # r => req'[q] = req[q]
    BY <1>2 DEF ClaimInv, TypeOK
  <1>6. LockInv' /\ GrantInv'
    BY <1>2, <1>3, <1>5 DEF ClaimInv, LockInv, GrantInv, Idle, Conflict
  <1>7. ShapeInv'
    BY <1>2, <1>3, <1>5 DEF ClaimInv, ShapeInv, Idle, ClaimOps, SaveOps
  <1>8. ClaimedSlotsDisjoint'
    BY <1>2, <1>3 DEF ClaimInv, ClaimedSlotsDisjoint, Conflict
  <1> QED
    BY <1>4, <1>6, <1>7, <1>8 DEF ClaimInv

LEMMA SetAvailabilityStep ==
    ASSUME ClaimInv, NEW S \in Closures, SetAvailability(S)
    PROVE  ClaimInv'
  BY DEF ClaimInv, SetAvailability, TypeOK, LockInv, GrantInv, ShapeInv, ClaimedSlotsDisjoint

LEMMA TickStep ==
    ASSUME ClaimInv, Tick
    PROVE  ClaimInv'
  BY DEF ClaimInv, Tick, TypeOK, LockInv, GrantInv, ShapeInv, ClaimedSlotsDisjoint

LEMMA StutterStep ==
    ASSUME ClaimInv, UNCHANGED vars
    PROVE  ClaimInv'
  BY DEF ClaimInv, vars, TypeOK, LockInv, GrantInv, ShapeInv, ClaimedSlotsDisjoint, IsActive
-----------------------------------------------------------------------------
(* Every step of the system keeps the invariant. *)
LEMMA NextClaimInv == ClaimInv /\ [Next]_vars => ClaimInv'
  <1> SUFFICES ASSUME ClaimInv, [Next]_vars PROVE ClaimInv'
    OBVIOUS
  <1>1. ASSUME NEW r \in Requests, RequestNext(r) PROVE ClaimInv'
    <2>1. CASE ClaimStep(r)
      <3>1. CASE DeadlockVictim(r)
        BY <3>1, AbortStep DEF DeadlockVictim
      <3> QED
        BY <2>1, <3>1, LockArtistStep, ValidateSlotStep, ProposeCommitStep, AcceptCommitStep,
           CreateCommitStep DEF ClaimStep
    <2>2. CASE \E s \in Slots : CreateBegin(r, s)
      BY <2>2, CreateBeginStep
    <2>3. CASE \E b \in Bookings, s \in Slots : ProposeBegin(r, b, s)
      BY <2>3, ProposeBeginStep
    <2>4. CASE \E b \in Bookings : AcceptBegin(r, b)
      BY <2>4, AcceptBeginStep
    <2>5. CASE \E op \in Handlers, b \in Bookings : Check(r, op, b)
      BY <2>5, CheckStep
    <2>6. CASE Load(r) \/ CancelPendingProposal(r) \/ Save(r) \/ UpdateColumns(r)
      BY <2>6, LoadStep, CancelPendingProposalStep, SaveStep, UpdateColumnsStep
    <2> QED
      BY <1>1, <2>1, <2>2, <2>3, <2>4, <2>5, <2>6 DEF RequestNext
  <1>2. ASSUME NEW b \in Bookings,
               \/ WithdrawProposal(b) \/ CompleteService(b) \/ CancelStalePending(b)
               \/ \E new \in Statuses : UpdateStatus(b, new)
        PROVE  ClaimInv'
    BY <1>2, WithdrawProposalStep, CompleteServiceStep, CancelStalePendingStep, UpdateStatusStep
  <1>3. CASE ExpireStale \/ Tick \/ \E S \in Closures : SetAvailability(S)
    BY <1>3, ExpireStaleStep, TickStep, SetAvailabilityStep
  <1> QED
    BY <1>1, <1>2, <1>3, StutterStep DEF Next

(* ClaimInv is an inductive invariant of the artist's calendar. *)
THEOREM ClaimInvariance == Spec => []ClaimInv
  BY InitClaimInv, NextClaimInv, PTL DEF Spec

(* Every reachable state is well typed. *)
THEOREM TypeCorrect == Spec => []TypeOK
  <1>1. ClaimInv => TypeOK
    BY DEF ClaimInv
  <1> QED
    BY <1>1, ClaimInvariance, PTL

(* The artist is never booked twice: two conflicting active bookings exist *)
(* only where a stale whole-row save put one back on the calendar.         *)
THEOREM NoDoubleBooking == Spec => []ClaimedSlotsDisjoint
  <1>1. ClaimInv => ClaimedSlotsDisjoint
    BY DEF ClaimInv
  <1> QED
    BY <1>1, ClaimInvariance, PTL
-----------------------------------------------------------------------------
(* What an acceptance in flight relies on: it holds the row of a confirmed *)
(* booking nobody has set off for, and no other handler writes that row.   *)
AcceptHolds(r) == req[r].op = "accept" =>
    /\ rowLock[req[r].bid] = r
    /\ booking[req[r].bid].status = "confirmed" /\ ~booking[req[r].bid].onMyWay

AcceptInv == \A r \in Requests : AcceptHolds(r)

(* The requests that stay in flight, keep their rows and find them as they *)
(* left them.                                                              *)
LEMMA AcceptKept ==
    ASSUME ClaimInv, AcceptInv,
           \A q \in Requests : req'[q].op = "accept" =>
               /\ req[q].op = "accept" /\ req'[q].bid = req[q].bid
               /\ rowLock'[req[q].bid] = q
               /\ booking'[req[q].bid].status = booking[req[q].bid].status
               /\ booking'[req[q].bid].onMyWay = booking[req[q].bid].onMyWay
    PROVE  AcceptInv'
  BY DEF AcceptInv, AcceptHolds

(* The steps of a transaction that claims a slot.                          *)
LEMMA ClaimStepAccept ==
    ASSUME ClaimInv, AcceptInv, NEW r \in Requests, ClaimStep(r)
    PROVE  AcceptInv'
  <1> USE DEF ClaimInv, TypeOK
  <1>1. CASE LockArtist(r)
    BY <1>1, AcceptKept DEF LockArtist, AcceptInv, AcceptHolds
  <1>2. CASE Abort(r)
    BY <1>2, AcceptKept DEF Abort, Idle, AcceptInv, AcceptHolds, ShapeInv
  <1>3. CASE ValidateSlot(r)
    <2>1. CASE Abort(r)
      BY <2>1, <1>2
    <2>2. CASE /\ rowLock' = [b \in Bookings |-> IF b \in DayRows(r) THEN r ELSE rowLock[b]]
               /\ req' = [req EXCEPT ![r].pc = "commit"]
               /\ UNCHANGED booking
      BY <1>3, <2>2, AcceptKept DEF ValidateSlot, AcceptInv, AcceptHolds, ShapeInv
    <2> QED
      BY <1>3, <2>1, <2>2 DEF ValidateSlot
  <1>4. CASE DeadlockVictim(r)
    BY <1>2, <1>4 DEF DeadlockVictim
  <1>5. CASE ProposeCommit(r)
    BY <1>5, AcceptKept DEF ProposeCommit, EndTransaction, Idle, AcceptInv, AcceptHolds, ShapeInv
  <1>6. CASE AcceptCommit(r)
    <2>1. \A q \in Requests : q # r /\ req[q].op = "accept" => req[q].bid # req[r].bid
      BY <1>6 DEF AcceptCommit, AcceptInv, AcceptHolds
    <2> QED
      BY <1>6, <2>1, AcceptKept DEF AcceptCommit, EndTransaction, Idle, AcceptInv, AcceptHolds, ShapeInv
  <1>7. ASSUME NEW b \in Bookings, CreateCommit(r, b) PROVE AcceptInv'
    <2>1. \A q \in Requests : req[q].op = "accept" => req[q].bid # b
      BY <1>7 DEF CreateCommit, AcceptInv, AcceptHolds
    <2> QED
      BY <1>7, <2>1, AcceptKept DEF CreateCommit, EndTransaction, Idle, AcceptInv, AcceptHolds, ShapeInv
  <1> QED
    BY <1>1, <1>3, <1>4, <1>5, <1>6, <1>7 DEF ClaimStep

(* The rest of what a request does.                                        *)
LEMMA RequestStepAccept ==
    ASSUME ClaimInv, AcceptInv, NEW r \in Requests, RequestNext(r)
    PROVE  AcceptInv'
  <1> USE DEF ClaimInv, TypeOK
  <1>1. ASSUME NEW s \in Slots, CreateBegin(r, s) PROVE AcceptInv'
    BY <1>1, AcceptKept DEF CreateBegin, Idle, AcceptInv, AcceptHolds
  <1>2. ASSUME NEW b \in Bookings, NEW s \in Slots, ProposeBegin(r, b, s) PROVE AcceptInv'
    BY <1>2, AcceptKept DEF ProposeBegin, Unlocked, Idle, AcceptInv, AcceptHolds, ConstantsAssumption
  <1>3. ASSUME NEW b \in Bookings, AcceptBegin(r, b) PROVE AcceptInv'
    <2>1. \A q \in Requests : q # r /\ req[q].op = "accept" => req[q].bid # b
      BY <1>3 DEF AcceptBegin, Unlocked, AcceptInv, AcceptHolds
    <2>2. AcceptHolds(r)'
      BY <1>3 DEF AcceptBegin, AcceptAllowed, Idle, AcceptHolds
    <2>3. ASSUME NEW q \in Requests, q # r PROVE AcceptHolds(q)'
      BY <1>3, <2>1, <2>3 DEF AcceptBegin, Idle, AcceptInv, AcceptHolds, ShapeInv
    <2> QED
      BY <2>2, <2>3 DEF AcceptInv
  <1>4. ASSUME NEW op \in Handlers, NEW b \in Bookings, Check(r, op, b) PROVE AcceptInv'
    <2>1. op # "accept"
      BY HandlersAssumption DEF SaveOps, SweepOps
    <2> QED
      BY <1>4, <2>1, AcceptKept DEF Check, Idle, AcceptInv, AcceptHolds
  <1>5. CASE Load(r)
    BY <1>5, AcceptKept DEF Load, SaveOps, AcceptInv, AcceptHolds
  <1>6. CASE CancelPendingProposal(r)
    BY <1>6, AcceptKept DEF CancelPendingProposal, AcceptInv, AcceptHolds
  <1>7. CASE Save(r) \/ UpdateColumns(r)
    <2>1. /\ Unlocked(req[r].bid) /\ req' = [req EXCEPT ![r] = Idle] /\ UNCHANGED rowLock
          /\ \A b \in Bookings : b # req[r].bid => booking'[b] = booking[b]
      BY <1>7 DEF Save, UpdateColumns
    <2>2. \A q \in Requests : req[q].op = "accept" => req[q].bid # req[r].bid
      BY <2>1 DEF Unlocked, AcceptInv, AcceptHolds
    <2> QED
      BY <2>1, <2>2, AcceptKept DEF Idle, AcceptInv, AcceptHolds, ShapeInv
  <1> QED
    BY <1>1, <1>2, <1>3, <1>4, <1>5, <1>6, <1>7, ClaimStepAccept DEF RequestNext

LEMMA NextAcceptInv == ClaimInv /\ AcceptInv /\ [Next]_vars => AcceptInv'
  <1> SUFFICES ASSUME ClaimInv, AcceptInv, [Next]_vars PROVE AcceptInv'
    OBVIOUS
  <1>1. ASSUME NEW b \in Bookings,
               \/ CompleteService(b) \/ CancelStalePending(b)
               \/ \E new \in Statuses : UpdateStatus(b, new)
        PROVE  AcceptInv'
    <2>1. /\ Unlocked(b) /\ UNCHANGED <<req, rowLock>>
          /\ \A c \in Bookings : c # b => booking'[c] = booking[c]
      BY <1>1 DEF CompleteService, CancelStalePending, UpdateStatus, ClaimInv, TypeOK
    <2>2. \A q \in Requests : req[q].op = "accept" => req[q].bid # b
      BY <2>1 DEF Unlocked, AcceptInv, AcceptHolds
    <2> QED
      BY <2>1, <2>2, AcceptKept DEF AcceptInv, AcceptHolds, ClaimInv, ShapeInv
  <1>2. CASE \/ \E b \in Bookings : WithdrawProposal(b)
             \/ ExpireStale \/ Tick \/ \E S \in Closures : SetAvailability(S)
             \/ UNCHANGED vars
    <2>1. UNCHANGED <<booking, req, rowLock>>
      BY <1>2 DEF WithdrawProposal, ExpireStale, Tick, SetAvailability, vars
    <2> QED
      BY <2>1 DEF AcceptInv, AcceptHolds
  <1> QED
    BY <1>1, <1>2, RequestStepAccept DEF Next

LEMMA SlotStep == ClaimInv /\ AcceptInv /\ [Next]_vars =>
    [\A b \in Bookings :
        /\ IsActive(booking[b]) /\ booking[b].onMyWay
        /\ IsActive(booking'[b]) /\ b \notin revived'
        => booking'[b].slot = booking[b].slot]_vars
  <1> SUFFICES ASSUME ClaimInv, AcceptInv, Next, NEW b \in Bookings,
                      IsActive(booking[b]), booking[b].onMyWay,
                      IsActive(booking'[b]), b \notin revived'
               PROVE  booking'[b].slot = booking[b].slot
    OBVIOUS
  <1> USE DEF ClaimInv, TypeOK
  <1>1. ASSUME NEW r \in Requests, AcceptCommit(r) PROVE booking'[b].slot = booking[b].slot
    BY <1>1 DEF AcceptCommit, AcceptInv, AcceptHolds
  <1>2. ASSUME NEW r \in Requests, NEW c \in Bookings, CreateCommit(r, c)
        PROVE  booking'[b].slot = booking[b].slot
    BY <1>2 DEF CreateCommit, IsActive, ACTIVE_STATUSES
  <1>3. ASSUME NEW r \in Requests, Save(r) PROVE booking'[b].slot = booking[b].slot
    BY <1>3 DEF Save, ShapeInv, SaveOps
  <1>4. ASSUME NEW r \in Requests, UpdateColumns(r) PROVE booking'[b].slot = booking[b].slot
    <2>1. req[r].bid \in Bookings /\ booking[b] \in Row
      BY <1>4 DEF UpdateColumns, ShapeInv
    <2> QED
      BY <1>4, <2>1 DEF UpdateColumns, Row
  <1>5. ASSUME NEW c \in Bookings,
               \/ CompleteService(c) \/ CancelStalePending(c)
               \/ \E new \in Statuses : UpdateStatus(c, new)
        PROVE  booking'[b].slot = booking[b].slot
    <2>1. \E new \in Statuses : booking' = [booking EXCEPT ![c].status = new]
      BY <1>5 DEF CompleteService, CancelStalePending, UpdateStatus, Statuses, ACTIVE_STATUSES
    <2> QED
      BY <2>1 DEF Row
  <1>6. ASSUME NEW r \in Requests,
               \/ LockArtist(r) \/ ValidateSlot(r) \/ DeadlockVictim(r) \/ ProposeCommit(r)
               \/ \E s \in Slots : CreateBegin(r, s)
               \/ \E c \in Bookings, s \in Slots : ProposeBegin(r, c, s)
               \/ \E c \in Bookings : AcceptBegin(r, c)
               \/ \E op \in Handlers, c \in Bookings : Check(r, op, c)
               \/ Load(r) \/ CancelPendingProposal(r)
        PROVE  booking'[b].slot = booking[b].slot
    BY <1>6 DEF LockArtist, ValidateSlot, DeadlockVictim, Abort, ProposeCommit, CreateBegin,
                ProposeBegin, AcceptBegin, Check, Load, CancelPendingProposal
  <1>7. CASE \/ \E c \in Bookings : WithdrawProposal(c)
             \/ ExpireStale \/ Tick \/ \E S \in Closures : SetAvailability(S)
    BY <1>7 DEF WithdrawProposal, ExpireStale, Tick, SetAvailability
  <1> QED
    BY <1>1, <1>2, <1>3, <1>4, <1>5, <1>6, <1>7 DEF Next, RequestNext, ClaimStep

(* An appointment the artist has set off for does not move: an acceptance  *)
(* that is still in flight keeps the row locked from before on_my_way_at   *)
(* can be set until its commit.                                            *)
THEOREM EnRouteFixed == Spec => EnRouteSlotFixed
  <1>1. Init => AcceptInv
    BY DEF Init, AcceptInv, AcceptHolds, Idle
  <1> QED
    BY <1>1, NextAcceptInv, SlotStep, ClaimInvariance, PTL DEF Spec, EnRouteSlotFixed
-----------------------------------------------------------------------------
(* The departure is never forgotten while the appointment stands: the rows *)
(* that arrive, start and pin_miss save were read after it, or they put    *)
(* back a booking that was closed.                                         *)
UnderWay(row) == row.status \in {"pending", "confirmed"} => row.onMyWay

RowTravels(row, known) ==
    /\ row.arrived => UnderWay(row)
    /\ row.status = "in_progress" => row.onMyWay \/ known

TravelInv ==
    /\ \A b \in Bookings : RowTravels(booking[b], b \in revived)
    /\ \A r \in Requests : req[r].op \in {"arrive", "start", "pin_miss"} =>
          /\ UnderWay(booking[req[r].bid])
          /\ req[r].pc # "checked" =>
                /\ UnderWay(req[r].snap)
                /\ req[r].snap.onMyWay \/ req[r].bid \in revived \/ ~IsActive(booking[req[r].bid])

Closed(b) == b \in revived \/ ~IsActive(booking[b])

LEMMA TravelKept ==
    ASSUME ClaimInv, TravelInv,
           \A b \in Bookings : RowTravels(booking'[b], b \in revived'),
           \A b \in Bookings : booking[b].status # "none" /\ UnderWay(booking[b]) =>
               UnderWay(booking'[b]) /\ (Closed(b) => Closed(b)'),
           \A q \in Requests : req'[q].op \in {"arrive", "start", "pin_miss"} => req'[q] = req[q]
    PROVE  TravelInv'
  BY DEF TravelInv, RowTravels, Closed, ClaimInv, ShapeInv, UnderWay, ClaimOps

(* A step that leaves the table alone.                                     *)
LEMMA TravelQuiet ==
    ASSUME ClaimInv, TravelInv, UNCHANGED <<booking, revived>>,
           \A q \in Requests : req'[q].op \in {"arrive", "start", "pin_miss"} => req'[q] = req[q]
    PROVE  TravelInv'
  BY DEF TravelInv, UnderWay, IsActive, RowTravels

(* A step of one booking that does not change whether the artist is on the *)
(* way and starts no service.                                              *)
LEMMA TravelStatus ==
    ASSUME ClaimInv, TravelInv, NEW b \in Bookings, NEW new \in Statuses,
           booking' = [booking EXCEPT ![b].status = new],
           new \in {"pending", "confirmed"} => booking[b].status \in {"pending", "confirmed"},
           new # "in_progress", UNCHANGED revived,
           \A q \in Requests : req'[q].op \in {"arrive", "start", "pin_miss"} => req'[q] = req[q]
    PROVE  TravelInv'
  <1>1. \A c \in Bookings : booking'[c] =
          IF c = b THEN [booking[b] EXCEPT !.status = new] ELSE booking[c]
    BY DEF ClaimInv, TypeOK
  <1>2. \A c \in Bookings : RowTravels(booking'[c], c \in revived')
    BY <1>1 DEF TravelInv, RowTravels, ClaimInv, TypeOK, Row, UnderWay
  <1>3. \A c \in Bookings : UnderWay(booking[c]) =>
          UnderWay(booking'[c]) /\ (Closed(c) => Closed(c)')
    BY <1>1 DEF UnderWay, Closed, IsActive, ACTIVE_STATUSES, ClaimInv, TypeOK, Row
  <1> QED
    BY <1>2, <1>3, TravelKept

LEMMA TravelClaims ==
    ASSUME ClaimInv, AcceptInv, TravelInv, NEW r \in Requests, ClaimStep(r)
    PROVE  TravelInv'
  <1> USE DEF ClaimInv, TypeOK
  <1>1. CASE LockArtist(r)
    BY <1>1, TravelQuiet DEF LockArtist, ShapeInv, ClaimOps
  <1>2. CASE Abort(r)
    BY <1>2, TravelQuiet DEF Abort, Idle
  <1>3. CASE ValidateSlot(r)
    <2>1. CASE /\ req' = [req EXCEPT ![r].pc = "commit"]
               /\ req[r].pc = "scan" /\ UNCHANGED <<booking, revived>>
      BY <2>1, TravelQuiet DEF ShapeInv, ClaimOps
    <2> QED
      BY <1>2, <1>3, <2>1 DEF ValidateSlot
  <1>4. CASE DeadlockVictim(r)
    BY <1>2, <1>4 DEF DeadlockVictim
  <1>5. CASE ProposeCommit(r)
    BY <1>5, TravelQuiet DEF ProposeCommit, EndTransaction, Idle
  <1>6. CASE AcceptCommit(r)
    <2> DEFINE b == req[r].bid
    <2>1. /\ b \in Bookings /\ booking[b].status = "confirmed" /\ ~booking[b].onMyWay
          /\ booking[b] \in Row
      BY <1>6 DEF AcceptCommit, AcceptInv, AcceptHolds, ShapeInv
    <2>2. \A c \in Bookings : booking'[c] =
            IF c = b THEN [booking[b] EXCEPT !.slot = req[r].slot] ELSE booking[c]
      BY <1>6 DEF AcceptCommit
    <2>3. \A c \in Bookings : RowTravels(booking'[c], c \in revived')
      BY <1>6, <2>1, <2>2 DEF AcceptCommit, TravelInv, RowTravels, Row, UnderWay
    <2>4. \A c \in Bookings : UnderWay(booking[c]) =>
            UnderWay(booking'[c]) /\ (Closed(c) => Closed(c)')
      BY <1>6, <2>1, <2>2 DEF AcceptCommit, UnderWay, Closed, IsActive
    <2> QED
      BY <1>6, <2>3, <2>4, TravelKept DEF AcceptCommit, EndTransaction, Idle
  <1>7. ASSUME NEW b \in Bookings, CreateCommit(r, b) PROVE TravelInv'
    <2>1. \A c \in Bookings : booking'[c] =
            IF c = b THEN [NoRow EXCEPT !.status = "pending", !.slot = req[r].slot] ELSE booking[c]
      BY <1>7 DEF CreateCommit
    <2>2. \A c \in Bookings : RowTravels(booking'[c], c \in revived')
      BY <1>7, <2>1 DEF CreateCommit, TravelInv, RowTravels, NoRow, UnderWay
    <2>3. \A c \in Bookings : booking[c].status # "none" /\ UnderWay(booking[c]) =>
            UnderWay(booking'[c]) /\ (Closed(c) => Closed(c)')
      BY <1>7, <2>1 DEF CreateCommit, Closed, IsActive, UnderWay
    <2> QED
      BY <1>7, <2>2, <2>3, TravelKept DEF CreateCommit, EndTransaction, Idle
  <1> QED
    BY <1>1, <1>3, <1>4, <1>5, <1>6, <1>7 DEF ClaimStep

LEMMA TravelSave ==
    ASSUME ClaimInv, TravelInv, NEW r \in Requests, Save(r)
    PROVE  TravelInv'
  <1> USE DEF ClaimInv, TypeOK
  <1> DEFINE b == req[r].bid
             row == Saved(req[r].op, req[r].snap)
  <1>1. /\ b \in Bookings /\ req[r].snap \in Row
        /\ req[r].op \in SaveOps /\ req[r].pc = "saving"
    BY DEF Save, ShapeInv, SaveOps, Request
  <1>2. \A c \in Bookings : booking'[c] = IF c = b THEN row ELSE booking[c]
    BY <1>1 DEF Save
  <1>3. revived' = IF IsActive(row) /\ (~IsActive(booking[b]) \/ row.slot # booking[b].slot)
                   THEN revived \cup {b} ELSE revived
    BY DEF Save
  <1>4. UnderWay(row)
    BY <1>1 DEF TravelInv, UnderWay, Saved, SaveOps, Row, RowTravels
  <1>5. row.onMyWay \/ b \in revived' \/ ~IsActive(row)
    BY <1>1, <1>3 DEF TravelInv, Saved, SaveOps, Row, IsActive, ACTIVE_STATUSES, RowTravels, UnderWay
  <1>6. \A c \in Bookings : RowTravels(booking'[c], c \in revived')
    BY <1>2, <1>3, <1>4, <1>5 DEF TravelInv, RowTravels, UnderWay, IsActive, ACTIVE_STATUSES
  <1>7. \A c \in Bookings : UnderWay(booking[c]) =>
          UnderWay(booking'[c]) /\ (Closed(c) => Closed(c)')
    BY <1>2, <1>3, <1>4 DEF Closed
  <1>8. \A q \in Requests : req'[q].op \in {"arrive", "start", "pin_miss"} => req'[q] = req[q]
    BY DEF Save, Idle
  <1> QED
    BY <1>6, <1>7, <1>8, TravelKept

LEMMA TravelRequests ==
    ASSUME ClaimInv, AcceptInv, TravelInv, NEW r \in Requests, RequestNext(r)
    PROVE  TravelInv'
  <1> USE DEF ClaimInv, TypeOK
  <1>b. ASSUME NEW op \in ClaimOps, UNCHANGED <<booking, revived>>, req'[r].op = op,
               \A q \in Requests \ {r} : req'[q] = req[q]
        PROVE  TravelInv'
    BY <1>b, TravelQuiet DEF ClaimOps
  <1>1. ASSUME \/ \E s \in Slots : CreateBegin(r, s)
               \/ \E b \in Bookings, s \in Slots : ProposeBegin(r, b, s)
               \/ \E b \in Bookings : AcceptBegin(r, b)
        PROVE  TravelInv'
    <2>1. ASSUME NEW s \in Slots, CreateBegin(r, s) PROVE TravelInv'
      BY <2>1, <1>b DEF CreateBegin, Idle, ClaimOps
    <2>2. ASSUME NEW b \in Bookings, NEW s \in Slots, ProposeBegin(r, b, s) PROVE TravelInv'
      BY <2>2, <1>b DEF ProposeBegin, Idle, ClaimOps
    <2>3. ASSUME NEW b \in Bookings, AcceptBegin(r, b) PROVE TravelInv'
      BY <2>3, <1>b DEF AcceptBegin, Idle, ClaimOps
    <2> QED
      BY <1>1, <2>1, <2>2, <2>3
  <1>2. ASSUME NEW op \in Handlers, NEW b \in Bookings, Check(r, op, b) PROVE TravelInv'
    <2>1. op \in {"arrive", "start", "pin_miss"} => UnderWay(booking[b])
      BY <1>2 DEF Check, Allowed, ArrivedAllowed, PinMissAllowed, StartPinAllowed,
                  TravelInv, UnderWay, RowTravels
    <2>2. /\ UNCHANGED <<booking, revived>>
          /\ req' = [req EXCEPT ![r] = [Idle EXCEPT !.op = op, !.pc = "checked", !.bid = b]]
      BY <1>2 DEF Check
    <2>3. /\ req'[r].op = op /\ req'[r].pc = "checked" /\ req'[r].bid = b
          /\ \A q \in Requests \ {r} : req'[q] = req[q]
      <3>1. req'[r] = [Idle EXCEPT !.op = op, !.pc = "checked", !.bid = b]
        BY <2>2
      <3>2. \A q \in Requests \ {r} : req'[q] = req[q]
        BY <2>2
      <3> QED
        BY <3>1, <3>2 DEF Idle
    <2> QED
      BY <2>1, <2>2, <2>3 DEF TravelInv, UnderWay, IsActive, RowTravels
  <1>3. CASE Load(r)
    <2>1. /\ UNCHANGED <<booking, revived>> /\ req[r].op \in SaveOps /\ req[r].bid \in Bookings
          /\ \A q \in Requests : req'[q] = IF q = r
                THEN [req[r] EXCEPT !.snap = booking[req[r].bid],
                         !.pc = IF req[r].op = "customer_cancel" THEN "closing" ELSE "saving"]
                ELSE req[q]
      BY <1>3 DEF Load, ShapeInv, SaveOps
    <2>2. booking[req[r].bid] \in Row /\ req[r] \in Request
      BY <2>1
    <2>3. req[r].op \in {"arrive", "start", "pin_miss"} =>
            LET row == booking[req[r].bid] IN
            UnderWay(row) /\ (row.onMyWay \/ req[r].bid \in revived \/ ~IsActive(row))
      BY <2>1, <2>2 DEF TravelInv, UnderWay, IsActive, ACTIVE_STATUSES, Row, RowTravels
    <2>4. /\ req'[r].op = req[r].op /\ req'[r].bid = req[r].bid
          /\ req'[r].snap = booking[req[r].bid]
          /\ \A q \in Requests \ {r} : req'[q] = req[q]
      <3> DEFINE pc == IF req[r].op = "customer_cancel" THEN "closing" ELSE "saving"
                 loaded == [req[r] EXCEPT !.snap = booking[req[r].bid], !.pc = pc]
      <3>1. req'[r] = loaded /\ \A q \in Requests \ {r} : req'[q] = req[q]
        BY <2>1
      <3>2. loaded.op = req[r].op /\ loaded.bid = req[r].bid /\ loaded.snap = booking[req[r].bid]
        BY <2>2 DEF Request
      <3> QED
        BY <3>1, <3>2
    <2> QED
      BY <2>1, <2>3, <2>4 DEF TravelInv, UnderWay, IsActive, RowTravels
  <1>4. CASE CancelPendingProposal(r)
    <2>1. /\ UNCHANGED <<booking, revived>>
          /\ req' = [req EXCEPT ![r].pc = "saving"]
          /\ req[r].pc = "closing" \/ req[r].op = "missed"
      BY <1>4 DEF CancelPendingProposal
    <2>2. /\ req'[r].op = req[r].op /\ req'[r].bid = req[r].bid /\ req'[r].snap = req[r].snap
          /\ \A q \in Requests \ {r} : req'[q] = req[q]
      BY <2>1 DEF Request
    <2> QED
      BY <2>1, <2>2 DEF TravelInv, UnderWay, IsActive, RowTravels
  <1>5. CASE UpdateColumns(r)
    <2> DEFINE b == req[r].bid
    <2>1. b \in Bookings /\ booking[b] \in Row
      BY <1>5 DEF UpdateColumns, ShapeInv
    <2>2. /\ UNCHANGED revived
          /\ \A q \in Requests : req'[q].op \in {"arrive", "start", "pin_miss"} => req'[q] = req[q]
      BY <1>5 DEF UpdateColumns, Idle
    <2>3. CASE booking' = [booking EXCEPT ![b].status = "no_show"]
      BY <2>1, <2>2, <2>3, TravelStatus DEF Statuses
    <2>4. CASE booking' = [booking EXCEPT ![b].onMyWay = TRUE]
      <3>1. \A c \in Bookings : booking'[c] =
              IF c = b THEN [booking[b] EXCEPT !.onMyWay = TRUE] ELSE booking[c]
        BY <2>1, <2>4
      <3>2. \A c \in Bookings : RowTravels(booking'[c], c \in revived')
        BY <3>1, <2>1, <2>2 DEF TravelInv, RowTravels, Row, UnderWay
      <3>3. \A c \in Bookings : UnderWay(booking[c]) =>
              UnderWay(booking'[c]) /\ (Closed(c) => Closed(c)')
        BY <3>1, <2>1, <2>2 DEF UnderWay, Closed, IsActive, Row
      <3> QED
        BY <2>2, <3>2, <3>3, TravelKept
    <2> QED
      BY <1>5, <2>3, <2>4 DEF UpdateColumns
  <1> QED
    BY <1>1, <1>2, <1>3, <1>4, <1>5, TravelSave, TravelClaims DEF RequestNext

LEMMA NextTravel == ClaimInv /\ AcceptInv /\ TravelInv /\ [Next]_vars => TravelInv'
  <1> SUFFICES ASSUME ClaimInv, AcceptInv, TravelInv, [Next]_vars PROVE TravelInv'
    OBVIOUS
  <1>1. ASSUME NEW b \in Bookings, CompleteService(b) \/ CancelStalePending(b) PROVE TravelInv'
    <2>1. \E new \in {"completed", "cancelled"} : booking' = [booking EXCEPT ![b].status = new]
      BY <1>1 DEF CompleteService, CancelStalePending
    <2> QED
      BY <1>1, <2>1, TravelStatus DEF CompleteService, CancelStalePending, Statuses
  <1>2. ASSUME NEW b \in Bookings, NEW new \in Statuses, UpdateStatus(b, new) PROVE TravelInv'
    <2>1. /\ new # "in_progress"
          /\ new \in {"pending", "confirmed"} => booking[b].status \in {"pending", "confirmed"}
      BY <1>2 DEF UpdateStatus, ARTIST_TRANSITIONS, ClaimInv, TypeOK, Row
    <2> QED
      BY <1>2, <2>1, TravelStatus DEF UpdateStatus
  <1>3. CASE \/ \E b \in Bookings : WithdrawProposal(b)
             \/ ExpireStale \/ Tick \/ \E S \in Closures : SetAvailability(S)
             \/ UNCHANGED vars
    BY <1>3, TravelQuiet DEF WithdrawProposal, ExpireStale, Tick, SetAvailability, vars
  <1> QED
    BY <1>1, <1>2, <1>3, TravelRequests DEF Next
-----------------------------------------------------------------------------
(* What the diary shows of the table.                                      *)
Entry == [b \in Bookings |-> IF Held(b) THEN booking[b].slot ELSE NoSlot]
Away  == {b \in Bookings : Held(b) /\ booking[b].onMyWay}

(* The steps of ArtistDiary, said of the table.                            *)
Arranged(b, s) ==
    /\ \A c \in Bookings \ {b} : Held(c) => ~Conflict(booking[c].slot, s)
    /\ b \notin Away
    /\ Entry' = [Entry EXCEPT ![b] = s] /\ Away' = Away

DiaryMoves ==
    \/ \E b \in Bookings, s \in Slots : Arranged(b, s)
    \/ \E b \in Bookings : Entry[b] # NoSlot /\ Away' = Away \cup {b} /\ Entry' = Entry
    \/ \E b \in Bookings : Entry' = [Entry EXCEPT ![b] = NoSlot] /\ Away' = Away \ {b}
    \/ Entry' = Entry /\ Away' = Away

LEMMA SameWithout ==
    ASSUME NEW S, NEW T, NEW x, S \ {x} = T \ {x}, x \in S <=> x \in T
    PROVE  S = T
  <1>1. ASSUME NEW y, y # x PROVE y \in S <=> y \in T
    <2>1. y \in S \ {x} <=> y \in T \ {x}
      OBVIOUS
    <2> QED
      BY <2>1, <1>1
  <1>2. \A y : y \in S <=> y \in T
    BY <1>1
  <1> QED
    BY <1>2

(* A step of one booking is a step of the diary if the booking is struck   *)
(* out, keeps its slot and its departure, or is entered where it is free.  *)
LEMMA OneEntry ==
    ASSUME TypeOK, TypeOK', NEW b \in Bookings,
           \A c \in Bookings \ {b} : booking'[c] = booking[c] /\ (c \in revived' <=> c \in revived),
           Held(b)' => \/ /\ Held(b) /\ booking'[b].slot = booking[b].slot
                          /\ booking[b].onMyWay => booking'[b].onMyWay
                       \/ /\ b \notin Away /\ ~booking'[b].onMyWay
                          /\ \A c \in Bookings \ {b} :
                                Held(c) => ~Conflict(booking[c].slot, booking'[b].slot)
    PROVE  DiaryMoves
  <1>1. \A c \in Bookings \ {b} : Held(c)' = Held(c)
    BY DEF Held, IsActive
  <1>2. Entry' = [Entry EXCEPT ![b] = IF Held(b)' THEN booking'[b].slot ELSE NoSlot]
    <2>1. \A c \in Bookings \ {b} : Entry'[c] = Entry[c]
      <3> TAKE c \in Bookings \ {b}
      <3>1. Held(c)' <=> Held(c)
        BY <1>1
      <3>2. booking'[c].slot = booking[c].slot
        OBVIOUS
      <3>3. Entry'[c] = IF Held(c)' THEN booking'[c].slot ELSE NoSlot
        BY DEF Entry
      <3>4. Entry[c] = IF Held(c) THEN booking[c].slot ELSE NoSlot
        BY DEF Entry
      <3> QED
        BY <3>1, <3>2, <3>3, <3>4
    <2>2. Entry'[b] = IF Held(b)' THEN booking'[b].slot ELSE NoSlot
      BY DEF Entry
    <2>3. /\ Entry = [c \in Bookings |-> Entry[c]]
          /\ Entry' = [c \in Bookings |-> Entry'[c]]
      BY DEF Entry
    <2> QED
      BY <2>1, <2>2, <2>3
  <1>3. Away' \ {b} = Away \ {b}
    <2>1. \A c \in Bookings \ {b} : (Held(c)' /\ booking'[c].onMyWay) <=> (Held(c) /\ booking[c].onMyWay)
      BY <1>1
    <2> QED
      BY <2>1 DEF Away
  <1>4. CASE ~Held(b)'
    <2>1. b \notin Away'
      BY <1>4 DEF Away
    <2>2. Away' = Away \ {b}
      BY <1>3, <2>1
    <2> QED
      BY <1>2, <1>4, <2>2 DEF DiaryMoves
  <1>5. CASE /\ Held(b)' /\ Held(b) /\ booking'[b].slot = booking[b].slot
             /\ booking[b].onMyWay => booking'[b].onMyWay
    <2>0. Entry[b] = booking[b].slot /\ Entry = [c \in Bookings |-> Entry[c]]
      BY <1>5 DEF Entry
    <2>1. Entry' = Entry
      <3> HIDE DEF Entry
      <3>1. Entry' = [Entry EXCEPT ![b] = Entry[b]]
        BY <1>2, <1>5, <2>0
      <3> QED
        BY <3>1, <2>0
    <2>2. Entry[b] # NoSlot
      BY <1>5, <2>0, ActiveHasSlot, ConstantsAssumption DEF Held
    <2>3. b \in Away => b \in Away'
      BY <1>5 DEF Away
    <2>4. Away' = Away \/ Away' = Away \cup {b}
      <3>1. CASE b \in Away'
        BY <1>3, <3>1
      <3>2. CASE b \notin Away'
        <4>1. b \in Away' <=> b \in Away
          BY <2>3, <3>2
        <4>2. Away' = Away
          <5> HIDE DEF Away
          <5> QED
            BY <1>3, <4>1, SameWithout
        <4> QED
          BY <4>2
      <3> QED
        BY <3>1, <3>2
    <2> QED
      BY <2>1, <2>2, <2>4 DEF DiaryMoves
  <1>6. CASE /\ Held(b)' /\ b \notin Away /\ ~booking'[b].onMyWay
             /\ \A c \in Bookings \ {b} : Held(c) => ~Conflict(booking[c].slot, booking'[b].slot)
    <2>1. booking'[b].slot \in Slots
      BY <1>6 DEF TypeOK, Row, Held, IsActive, ACTIVE_STATUSES
    <2>2. Away' = Away
      <3>1. b \notin Away'
        BY <1>6 DEF Away
      <3> QED
        BY <3>1, <1>3, <1>6, SameWithout
    <2> QED
      BY <1>2, <1>6, <2>1, <2>2 DEF DiaryMoves, Arranged
  <1> QED
    BY <1>4, <1>5, <1>6

LEMMA NoEntry ==
    ASSUME UNCHANGED <<booking, revived>>
    PROVE  DiaryMoves
  BY DEF DiaryMoves, Entry, Away, Held, IsActive

LEMMA DiaryStatus ==
    ASSUME TypeOK, TypeOK', NEW b \in Bookings, NEW new \in Statuses,
           booking' = [booking EXCEPT ![b].status = new], UNCHANGED revived,
           new \in ACTIVE_STATUSES => IsActive(booking[b])
    PROVE  DiaryMoves
  <1>1. \A c \in Bookings : booking'[c] =
          IF c = b THEN [booking[b] EXCEPT !.status = new] ELSE booking[c]
    BY DEF TypeOK
  <1>2. booking[b] \in Row
    BY DEF TypeOK
  <1>3. Held(b)' => Held(b) /\ booking'[b].slot = booking[b].slot /\ booking'[b].onMyWay = booking[b].onMyWay
    BY <1>1, <1>2 DEF Held, IsActive, Row
  <1> QED
    BY <1>1, <1>3, OneEntry

(* The commits enter or move an appointment where validate_slot found room,*)
(* and an acceptance holds a booking that nobody has set off for.          *)
LEMMA DiaryClaims ==
    ASSUME ClaimInv, AcceptInv, TypeOK', NEW r \in Requests, ClaimStep(r)
    PROVE  DiaryMoves
  <1> USE DEF ClaimInv, TypeOK
  <1>1. CASE AcceptCommit(r)
    <2> DEFINE b == req[r].bid
    <2>1. /\ b \in Bookings /\ booking[b].status = "confirmed" /\ ~booking[b].onMyWay
          /\ booking[b] \in Row
      BY <1>1 DEF AcceptCommit, AcceptInv, AcceptHolds, ShapeInv
    <2>2. /\ \A c \in Bookings : booking'[c] =
                IF c = b THEN [booking[b] EXCEPT !.slot = req[r].slot] ELSE booking[c]
          /\ \A c \in Bookings \ {b} : c \in revived' <=> c \in revived
      BY <1>1 DEF AcceptCommit
    <2>3. b \notin Away /\ ~booking'[b].onMyWay /\ booking'[b].slot = req[r].slot
      BY <2>1, <2>2 DEF Away, Row
    <2>4. \A c \in Bookings \ {b} : Held(c) => ~Conflict(booking[c].slot, req[r].slot)
      BY <1>1 DEF AcceptCommit, GrantInv, Held
    <2> QED
      BY <2>1, <2>2, <2>3, <2>4, OneEntry
  <1>2. ASSUME NEW b \in Bookings, CreateCommit(r, b) PROVE DiaryMoves
    <2>1. /\ \A c \in Bookings : booking'[c] =
                IF c = b THEN [NoRow EXCEPT !.status = "pending", !.slot = req[r].slot] ELSE booking[c]
          /\ UNCHANGED revived
      BY <1>2 DEF CreateCommit
    <2>2. b \notin Away /\ ~booking'[b].onMyWay /\ booking'[b].slot = req[r].slot
      BY <1>2, <2>1 DEF CreateCommit, Away, Held, IsActive, ACTIVE_STATUSES, NoRow
    <2>3. \A c \in Bookings \ {b} : Held(c) => ~Conflict(booking[c].slot, req[r].slot)
      BY <1>2, ConstantsAssumption DEF CreateCommit, GrantInv, ShapeInv, Held
    <2> QED
      BY <2>1, <2>2, <2>3, OneEntry
  <1>3. CASE LockArtist(r) \/ ValidateSlot(r) \/ DeadlockVictim(r) \/ ProposeCommit(r)
    BY <1>3, NoEntry DEF LockArtist, ValidateSlot, DeadlockVictim, Abort, ProposeCommit
  <1> QED
    BY <1>1, <1>2, <1>3 DEF ClaimStep

(* A whole-row save strikes the booking out, as closed or as put back, or  *)
(* leaves it where it is, and the departure known.                         *)
LEMMA DiarySave ==
    ASSUME ClaimInv, TravelInv, TypeOK', NEW r \in Requests, Save(r)
    PROVE  DiaryMoves
  <1> USE DEF ClaimInv, TypeOK
  <1>0. PICK b \in Bookings : b = req[r].bid
    BY DEF Save, ShapeInv, SaveOps
  <1> DEFINE row == Saved(req[r].op, req[r].snap)
  <1>1. /\ req[r].snap \in Row
        /\ req[r].op \in SaveOps /\ req[r].pc = "saving"
    BY DEF Save, ShapeInv, SaveOps, Request
  <1>2. \A c \in Bookings : booking'[c] = IF c = b THEN row ELSE booking[c]
    BY <1>0, <1>1 DEF Save
  <1>3. revived' = IF IsActive(row) /\ (~IsActive(booking[b]) \/ row.slot # booking[b].slot)
                   THEN revived \cup {b} ELSE revived
    BY <1>0 DEF Save
  <1>4. Held(b)' => Held(b) /\ row.slot = booking[b].slot
    BY <1>1, <1>2, <1>3 DEF Held, IsActive
  <1>5. Held(b)' => row.onMyWay
    <2>1. IsActive(row) => req[r].op \in {"arrive", "start", "pin_miss"}
      BY <1>1 DEF Saved, SaveOps, IsActive, ACTIVE_STATUSES, Row
    <2>2. row.onMyWay = req[r].snap.onMyWay
      BY <1>1 DEF Saved, SaveOps, Row
    <2> QED
      BY <1>0, <1>1, <1>2, <1>4, <2>1, <2>2 DEF TravelInv, Held, IsActive, RowTravels, UnderWay
  <1> QED
    BY <1>1, <1>2, <1>3, <1>4, <1>5, OneEntry

LEMMA DiaryRequests ==
    ASSUME ClaimInv, AcceptInv, TravelInv, TypeOK', NEW r \in Requests, RequestNext(r)
    PROVE  DiaryMoves
  <1>1. CASE \/ \E s \in Slots : CreateBegin(r, s)
             \/ \E b \in Bookings, s \in Slots : ProposeBegin(r, b, s)
             \/ \E b \in Bookings : AcceptBegin(r, b)
             \/ \E op \in Handlers, b \in Bookings : Check(r, op, b)
             \/ Load(r) \/ CancelPendingProposal(r)
    BY <1>1, NoEntry DEF CreateBegin, ProposeBegin, AcceptBegin, Check, Load, CancelPendingProposal
  <1>2. CASE UpdateColumns(r)
    <2>0. PICK b \in Bookings : b = req[r].bid
      BY <1>2 DEF UpdateColumns, ShapeInv, ClaimInv
    <2>1. booking[b] \in Row /\ UNCHANGED revived /\ TypeOK
      BY <1>2 DEF UpdateColumns, ShapeInv, ClaimInv, TypeOK
    <2>2. CASE booking' = [booking EXCEPT ![b].status = "no_show"]
      BY <2>1, <2>2, DiaryStatus DEF Statuses, ACTIVE_STATUSES
    <2>3. CASE booking' = [booking EXCEPT ![b].onMyWay = TRUE]
      <3>1. \A c \in Bookings : booking'[c] =
              IF c = b THEN [booking[b] EXCEPT !.onMyWay = TRUE] ELSE booking[c]
        BY <2>1, <2>3 DEF TypeOK
      <3>2. Held(b)' => Held(b) /\ booking'[b].slot = booking[b].slot /\ booking'[b].onMyWay
        BY <2>1, <3>1 DEF Held, IsActive, Row
      <3> QED
        BY <2>1, <3>1, <3>2, OneEntry
    <2> QED
      BY <1>2, <2>0, <2>2, <2>3 DEF UpdateColumns
  <1> QED
    BY <1>1, <1>2, DiaryClaims, DiarySave DEF RequestNext

LEMMA NextDiary == ClaimInv /\ ClaimInv' /\ AcceptInv /\ TravelInv /\ [Next]_vars => DiaryMoves
  <1> SUFFICES ASSUME ClaimInv, ClaimInv', AcceptInv, TravelInv, [Next]_vars PROVE DiaryMoves
    OBVIOUS
  <1>0. TypeOK /\ TypeOK'
    BY DEF ClaimInv
  <1>1. ASSUME NEW b \in Bookings, CompleteService(b) \/ CancelStalePending(b) PROVE DiaryMoves
    <2>1. \E new \in {"completed", "cancelled"} : booking' = [booking EXCEPT ![b].status = new]
      BY <1>1 DEF CompleteService, CancelStalePending
    <2> QED
      BY <1>0, <1>1, <2>1, DiaryStatus DEF CompleteService, CancelStalePending, Statuses, ACTIVE_STATUSES
  <1>2. ASSUME NEW b \in Bookings, NEW new \in Statuses, UpdateStatus(b, new) PROVE DiaryMoves
    <2>1. new \in ACTIVE_STATUSES => IsActive(booking[b])
      BY <1>0, <1>2 DEF UpdateStatus, ARTIST_TRANSITIONS, TypeOK, Row, IsActive, ACTIVE_STATUSES
    <2> QED
      BY <1>0, <1>2, <2>1, DiaryStatus DEF UpdateStatus
  <1>3. CASE \/ \E b \in Bookings : WithdrawProposal(b)
             \/ ExpireStale \/ Tick \/ \E S \in Closures : SetAvailability(S)
             \/ UNCHANGED vars
    BY <1>3, NoEntry DEF WithdrawProposal, ExpireStale, Tick, SetAvailability, vars
  <1> QED
    BY <1>0, <1>1, <1>2, <1>3, DiaryRequests DEF Next

(* The calendar is the diary of ArtistDiary, whatever its requests and its *)
(* sweeps do at the same time: an appointment goes only where it clashes   *)
(* with no other, not once the artist has set off, and a departure is      *)
(* known until the appointment ends.                                       *)
THEOREM CalendarIsDiary == Spec => KeepsDiary
  <1>1. Init => AcceptInv /\ TravelInv /\ Diary!DiaryInit
    <2>1. Init => AcceptInv /\ TravelInv
      BY DEF Init, AcceptInv, AcceptHolds, Idle, TravelInv, NoRow, RowTravels, UnderWay
    <2>2. Init => \A b \in Bookings : ~Held(b)
      BY DEF Init, Held, IsActive, ACTIVE_STATUSES, NoRow
    <2> QED
      BY <2>1, <2>2 DEF Diary!DiaryInit
  <1>2. ClaimInv /\ DiaryMoves => [Diary!DiaryNext]_(Diary!diaryVars)
    <2> SUFFICES ASSUME ClaimInv, DiaryMoves PROVE [Diary!DiaryNext]_(Diary!diaryVars)
      OBVIOUS
    <2> DEFINE clashes == {pair \in Slots \X Slots : Conflict(pair[1], pair[2])}
    <2>1. ASSUME NEW b \in Bookings, NEW s \in Slots, Arranged(b, s) PROVE Diary!Arrange(b, s)
      <3>1. ASSUME NEW c \in Bookings \ {b} PROVE <<Entry[c], s>> \notin clashes
        BY <2>1, ConstantsAssumption DEF Arranged, Entry
      <3> QED
        BY <2>1, <3>1 DEF Arranged, Entry, Away, Diary!Arrange
    <2>2. ASSUME NEW b \in Bookings, Entry[b] # NoSlot, Away' = Away \cup {b}, Entry' = Entry
          PROVE  Diary!Depart(b)
      BY <2>2 DEF Entry, Away, Diary!Depart
    <2>3. ASSUME NEW b \in Bookings, Entry' = [Entry EXCEPT ![b] = NoSlot], Away' = Away \ {b}
          PROVE  Diary!Strike(b)
      BY <2>3 DEF Entry, Away, Diary!Strike
    <2>4. CASE Entry' = Entry /\ Away' = Away
      BY <2>4 DEF Entry, Away, Diary!diaryVars
    <2> QED
      BY <2>1, <2>2, <2>3, <2>4 DEF DiaryMoves, Diary!DiaryNext
  <1>3. ClaimInv /\ ClaimInv' /\ AcceptInv /\ TravelInv /\ [Next]_vars
          => [Diary!DiaryNext]_(Diary!diaryVars)
    BY <1>2, NextDiary
  <1> QED
    BY <1>1, <1>3, NextAcceptInv, NextTravel, ClaimInvariance, PTL
       DEF Spec, KeepsDiary, Diary!DiarySpec
=============================================================================
