------------------------ MODULE BookingServiceProofs ------------------------
(***************************************************************************)
(* That the five parts a customer meets keep their promises for every set  *)
(* of requests, writers, tiers, appointments and offers: the booking's     *)
(* progress and PINs are earned, the screens tell the truth, an offered    *)
(* tier is honoured, the free slots are free and the page is what can be   *)
(* ordered.                                                                *)
(***************************************************************************)
EXTENDS BookingService, SumFacts

-----------------------------------------------------------------------------
(* BookingLifecycle.  What a row shows, the row of the database or one a   *)
(* handler is about to save whole, was proved; w is witnessed.             *)
Earned(row, w) ==
    /\ row.startPin => row.arrived
    /\ row.arrived => "arrive" \in w
    /\ row.pin # 0 => {"start", "request_pin"} \subseteq w /\ row.status # "pending"
    /\ row.status = "in_progress" => {"arrive", "start"} \subseteq w
    /\ row.status = "completed" => {"arrive", "start", "request_pin"} \subseteq w

(* What a handler relies on when it comes to write: a booking once past    *)
(* pending never returns there, and the proofs its check saw remain.       *)
RequestKeeps(q, row, w) ==
    /\ Earned(q.snap, w)
    /\ q.op \notin {"none", "cancel"}
           => row.status # "pending" /\ (q.pc = "loaded" => q.snap.status # "pending")
    /\ q.op = "start" => "arrive" \in w
    /\ q.op = "request_pin" => {"arrive", "start"} \subseteq w

LifeInv ==
    /\ TypeOK /\ CashbackOnce
    /\ Earned(booking, witnessed)
    /\ \A r \in Requests : RequestKeeps(req[r], booking, witnessed)
-----------------------------------------------------------------------------
(* BookingScreens.  Something is on its way to the document, or a reason   *)
(* for the difference is on record.                                        *)
NewsUnderWay ==
    \/ mirror # "level"
    \/ \E v \in Writers : writing[v].stage = "committed"
    \/ \E v \in Writers : /\ writing[v].stage = "read"
                          /\ writing[v].payload = _build_payload(visit) \/ writing[v].overtaken

Told(v) == writing[v].stage = "told"
FreshNews(v) == writing[v].stage = "read" /\ ~writing[v].overtaken
Announced(v) == Told(v) /\ document = _build_payload(writing[v].payload)

DocumentInv ==
    /\ document = _build_payload(visit) \/ NewsUnderWay \/ \E v \in Writers : Announced(v)
    /\ \A v \in Writers : Told(v) => Announced(v) \/ mirror # "level"
    /\ \A u, v \in Writers : Told(u) => ~FreshNews(v)
    /\ \A v \in Writers : FreshNews(v) /\ writing[v].payload # _build_payload(visit) => NewsUnderWay

(* A decision under way is alone, and holds a row that it closes or        *)
(* confirms.                                                               *)
DecisionInv ==
    /\ \A u, v \in Writers : Deciding(u) /\ Deciding(v) => u = v
    /\ \A v \in Writers : Deciding(v) =>
          /\ visit \in Visit
          /\ writing[v].payload \in Visit /\ writing[v].payload.status # "pending"

(* A handler without a lock brings back no request the artist has answered: *)
(* it has seen the booking past pending, or is about to cancel it.         *)
Held(q, row) ==
    /\ q.stage \in Unsaved => row \in Visit
    /\ q.stage \in Unsaved \ {"cancel", "loaded"} => row.status # "pending"
    /\ q.stage \in {"loaded", "missed"} => q.payload \in Visit /\ q.payload.status # "pending"
    /\ q.stage = "read" => q.payload \in Payload

HeldInv == \A v \in Writers : Held(writing[v], visit)

(* A pending row lapses before it is missed; money is returned only when   *)
(* the request was answered.                                               *)
InTime(row) == row.status = "pending" => row.expires_at <= row.start + Grace

LimitsInv ==
    /\ InTime(visit)
    /\ candidate # -1 => clock > candidate + Grace
    /\ payment = "refunded" => visit.status # "pending"
    /\ visit = NoVisit => payment = "none" /\ candidate = -1

ScreensInv == ScreensTypeOK /\ DocumentInv /\ DecisionInv /\ HeldInv /\ LimitsInv /\ DeadlinesKept
-----------------------------------------------------------------------------
(* Redemption.  A tier has a price at which some coin value was once in    *)
(* force.                                                                  *)
PricedTier(row) == row \in TierRow /\ \E v \in CoinValues : row.value = row.cost * v

Checkout == [stage : {"none", "created", "refused", "accepted"}, amount : 0..Total,
             tier : TierRow \cup {NoTier}, quoted : BOOLEAN]

(* Until an order is accepted the screen is up to date.                    *)
ScreenCurrent ==
    \A row \in screen.rows : row.is_active /\ row.cost <= balance_coins /\ screen.amount <= due

CheckoutInv ==
    /\ checkout \in Checkout
    /\ checkout.stage \in {"created", "accepted"} => PricedTier(checkout.tier)
    /\ checkout.stage = "created" =>
          /\ checkout.tier.value <= checkout.amount
          /\ open + charge_amount <= Total /\ due >= 0
          /\ checkout.quoted => checkout.tier.cost <= balance_coins

RedemptionInv ==
    /\ RedemptionTypeOK /\ OfferHonoured
    /\ tier \in [Tiers -> TierRow \cup {NoTier}]
    /\ \A t \in Tiers : tier[t] = NoTier \/ PricedTier(tier[t])
    /\ screen \in [amount : 0..Total, rows : SUBSET TierRow]
    /\ checkout.stage # "accepted" => ScreenCurrent
    /\ CheckoutInv
-----------------------------------------------------------------------------
(* SlotRules.  A row of Booking ends no sooner than it begins.             *)
SlotsInv == SlotRulesTypeOK /\ \A a \in Appointments : appointment[a].from <= appointment[a].to

ServiceInv == LifeInv /\ ScreensInv /\ RedemptionInv /\ SlotsInv /\ StorefrontTypeOK
-----------------------------------------------------------------------------
(* BookingLifecycle, action by action. *)

LEMMA RowFields ==
    ASSUME NEW row \in Row
    PROVE  /\ row.status \in Statuses /\ row.onMyWay \in BOOLEAN /\ row.arrived \in BOOLEAN
           /\ row.startPin \in BOOLEAN /\ row.pin \in 0..MaxPins /\ row.pinExpires \in Nat
BY DEF Row

LEMMA RowWithStatus ==
    ASSUME NEW row \in Row, NEW s \in Statuses
    PROVE  LET new == [row EXCEPT !.status = s] IN
           /\ new \in Row /\ new.status = s /\ new.arrived = row.arrived
           /\ new.startPin = row.startPin /\ new.pin = row.pin
BY DEF Row

LEMMA RowWithoutPin ==
    ASSUME NEW row \in Row
    PROVE  LET bare == [row EXCEPT !.pin = 0, !.pinExpires = 0] IN
           /\ bare \in Row /\ bare.status = row.status /\ bare.arrived = row.arrived
           /\ bare.startPin = row.startPin /\ bare.pin = 0
<1> DEFINE mid == [row EXCEPT !.pin = 0]
<1>1. mid \in Row /\ mid.pin = 0 /\ mid.status = row.status /\ mid.arrived = row.arrived
      /\ mid.startPin = row.startPin
  BY LifecycleAssumption DEF Row
<1>2. [row EXCEPT !.pin = 0, !.pinExpires = 0] = [mid EXCEPT !.pinExpires = 0]
  OBVIOUS
<1> HIDE DEF mid
<1>3. /\ [mid EXCEPT !.pinExpires = 0] \in Row /\ [mid EXCEPT !.pinExpires = 0].pin = mid.pin
      /\ [mid EXCEPT !.pinExpires = 0].status = mid.status
      /\ [mid EXCEPT !.pinExpires = 0].arrived = mid.arrived
      /\ [mid EXCEPT !.pinExpires = 0].startPin = mid.startPin
  BY <1>1 DEF Row
<1> QED
  BY <1>1, <1>2, <1>3

LEMMA RowWithoutPins ==
    ASSUME NEW row \in Row
    PROVE  LET bare == WithoutPins(row) IN
           /\ bare \in Row /\ bare.status = row.status /\ bare.arrived = row.arrived
           /\ ~bare.startPin /\ bare.pin = 0
<1> DEFINE mid == [row EXCEPT !.startPin = FALSE]
<1>1. mid \in Row /\ mid.status = row.status /\ mid.arrived = row.arrived /\ ~mid.startPin
  BY DEF Row
<1>2. WithoutPins(row) = [mid EXCEPT !.pin = 0, !.pinExpires = 0]
  BY DEF WithoutPins
<1> HIDE DEF mid
<1> QED
  BY <1>1, <1>2, RowWithoutPin

LEMMA EmptyRow == NewRow \in Row /\ Idle \in Request /\ \A w : Earned(NewRow, w)
BY LifecycleAssumption
   DEF NewRow, Row, Idle, Request, Statuses, ACTIVE_STATUSES, Ops, SaveOps, Earned

LEMMA IdleKeeps == ASSUME NEW row, NEW w PROVE RequestKeeps(Idle, row, w)
BY EmptyRow DEF RequestKeeps, Idle

LEMMA EarnedGrows ==
    ASSUME NEW row, NEW w, NEW u, w \subseteq u, Earned(row, w)
    PROVE  Earned(row, u)
BY DEF Earned

(* A step that writes an earned row and keeps what the handlers rely on.   *)
LEMMA LifeStep ==
    ASSUME LifeInv,
           booking' \in Row, Earned(booking', witnessed'),
           booking.status # "pending" => booking'.status # "pending",
           witnessed \subseteq witnessed', witnessed' \subseteq {"arrive", "start", "request_pin"},
           req' \in [Requests -> Request],
           \A q \in Requests : req'[q] = req[q] \/ RequestKeeps(req'[q], booking', witnessed'),
           sweep' \in {"idle", "found"}, pins' \in 0..MaxPins, now' \in Nat,
           cashback' \in Nat /\ cashback' <= 1
    PROVE  LifeInv'
<1>1. TypeOK' /\ CashbackOnce'
  BY DEF LifeInv, TypeOK, CashbackOnce
<1>2. ASSUME NEW q \in Requests PROVE RequestKeeps(req'[q], booking', witnessed')
  <2>1. CASE req'[q] = req[q]
    <3>1. RequestKeeps(req[q], booking, witnessed)
      BY DEF LifeInv
    <3>2. Earned(req[q].snap, witnessed')
      BY <3>1, EarnedGrows DEF RequestKeeps
    <3> QED
      BY <2>1, <3>1, <3>2 DEF RequestKeeps
  <2> QED
    BY <2>1
<1> QED
  BY <1>1, <1>2 DEF LifeInv

(* A step that changes no more than the handlers, one of them.             *)
LEMMA RequestStep ==
    ASSUME LifeInv, NEW r \in Requests, NEW q \in Request,
           req' = [req EXCEPT ![r] = q], RequestKeeps(q, booking, witnessed),
           UNCHANGED <<booking, sweep, pins, cashback, witnessed, now>>
    PROVE  LifeInv'
<1>1. req' \in [Requests -> Request] /\ req'[r] = q
      /\ \A p \in Requests : p # r => req'[p] = req[p]
  BY DEF LifeInv, TypeOK
<1> QED
  BY <1>1, LifeStep DEF LifeInv, TypeOK, CashbackOnce

LEMMA CheckKeeps ==
    ASSUME LifeInv, NEW r \in Requests, NEW op \in Ops, Check(r, op)
    PROVE  LifeInv'
<1> DEFINE q == [Idle EXCEPT !.op = op, !.pc = "checked",
                             !.pin = IF op = "finish" THEN booking.pin ELSE 0]
<1>1. q.op = op /\ q.pc = "checked" /\ q.snap = NewRow /\ q \in Request
  BY RowFields, EmptyRow DEF LifeInv, TypeOK, Idle, Request
<1>2. Allowed(op, booking) /\ Earned(booking, witnessed)
  BY DEF Check, LifeInv
<1>3. /\ op # "cancel" => booking.status # "pending"
      /\ op = "start" => booking.arrived
      /\ op = "request_pin" => booking.status = "in_progress"
  BY <1>2 DEF Allowed, StartReady, FinishReady, Ops, SaveOps
<1> HIDE DEF q
<1>4. RequestKeeps(q, booking, witnessed)
  BY <1>1, <1>2, <1>3, EmptyRow DEF RequestKeeps, Earned
<1>5. req' = [req EXCEPT ![r] = q] /\ UNCHANGED <<booking, sweep, pins, cashback, witnessed, now>>
  BY DEF Check, q
<1> QED
  BY <1>1, <1>4, <1>5, RequestStep

LEMMA LoadKeeps ==
    ASSUME LifeInv, NEW r \in Requests, Load(r)
    PROVE  LifeInv'
<1> DEFINE q == [req[r] EXCEPT !.pc = "loaded", !.snap = booking]
<1>1. /\ req[r] \in Request /\ booking \in Row /\ RequestKeeps(req[r], booking, witnessed)
      /\ Earned(booking, witnessed) /\ req \in [Requests -> Request]
  BY DEF LifeInv, TypeOK
<1>2. q \in Request /\ q.op = req[r].op /\ q.snap = booking
  BY <1>1 DEF Request
<1>3. req' = [req EXCEPT ![r] = q] /\ UNCHANGED <<booking, sweep, pins, cashback, witnessed, now>>
  BY <1>1 DEF Load
<1> HIDE DEF q
<1>4. RequestKeeps(q, booking, witnessed)
  BY <1>1, <1>2 DEF RequestKeeps
<1> QED
  BY <1>2, <1>3, <1>4, RequestStep

LEMMA AbandonKeeps ==
    ASSUME LifeInv, NEW r \in Requests, Abandon(r)
    PROVE  LifeInv'
BY EmptyRow, IdleKeeps, RequestStep DEF Abandon

(* A handler that leaves after it has written.                             *)
LEMMA WriteStep ==
    ASSUME LifeInv, NEW r \in Requests, req' = [req EXCEPT ![r] = Idle],
           booking' \in Row, Earned(booking', witnessed'),
           booking.status # "pending" => booking'.status # "pending",
           witnessed \subseteq witnessed', witnessed' \subseteq {"arrive", "start", "request_pin"},
           pins' \in 0..MaxPins, cashback' \in Nat /\ cashback' <= 1,
           UNCHANGED <<sweep, now>>
    PROVE  LifeInv'
<1>1. req' \in [Requests -> Request] /\ req'[r] = Idle
      /\ \A p \in Requests : p # r => req'[p] = req[p]
  BY EmptyRow DEF LifeInv, TypeOK
<1>2. sweep' \in {"idle", "found"} /\ now' \in Nat
  BY DEF LifeInv, TypeOK
<1> QED
  BY <1>1, <1>2, IdleKeeps, LifeStep

(* A save brings back a stale row, but one that was earned.                *)
LEMMA SaveKeeps ==
    ASSUME LifeInv, NEW r \in Requests, Save(r)
    PROVE  LifeInv'
<1> DEFINE q == req[r]
           row == q.snap
           new == Saved(q.op, row)
<1>1. /\ q \in Request /\ RequestKeeps(q, booking, witnessed)
      /\ q.op \in SaveOps /\ q.pc = "loaded" /\ row \in Row
      /\ booking' = new /\ witnessed' = witnessed \cup ({"arrive", "start"} \cap {q.op})
      /\ req' = [req EXCEPT ![r] = Idle] /\ UNCHANGED <<sweep, pins, cashback, now>>
      /\ witnessed \subseteq {"arrive", "start", "request_pin"}
      /\ pins \in 0..MaxPins /\ cashback \in Nat /\ cashback <= 1
  BY DEF LifeInv, TypeOK, Save, Request, CashbackOnce
<1> HIDE DEF q
<1>2. Earned(row, witnessed) /\ (q.op = "start" => "arrive" \in witnessed)
      /\ (q.op # "cancel" => row.status # "pending")
  BY <1>1 DEF RequestKeeps, SaveOps
<1>3. new \in Row /\ new.status # "pending" /\ Earned(new, witnessed')
  <2>1. CASE q.op = "cancel"
    <3>1. new = [WithoutPins(row) EXCEPT !.status = "cancelled"]
      BY <2>1 DEF Saved
    <3>2. /\ new.status = "cancelled" /\ new.arrived = row.arrived /\ ~new.startPin /\ new.pin = 0
          /\ new \in Row
      BY <1>1, <3>1, RowWithoutPins, RowWithStatus DEF Statuses, FinalStatuses
    <3> QED
      BY <1>1, <1>2, <3>2 DEF Earned
  <2>2. CASE q.op = "arrive"
    <3>1. new = [row EXCEPT !.arrived = TRUE, !.startPin = TRUE] /\ "arrive" \in witnessed'
      BY <1>1, <2>2 DEF Saved
    <3> QED
      BY <1>1, <1>2, <2>2, <3>1 DEF Row, Earned
  <2>3. CASE q.op = "start"
    <3>1. new = [row EXCEPT !.status = "in_progress", !.startPin = FALSE] /\ "start" \in witnessed'
      BY <1>1, <2>3 DEF Saved
    <3> QED
      BY <1>1, <1>2, <2>3, <3>1 DEF Row, Earned, Statuses, ACTIVE_STATUSES
  <2>4. CASE q.op \in {"start_miss", "finish_miss"}
    <3>1. new = row
      BY <2>4 DEF Saved
    <3> QED
      BY <1>1, <1>2, <2>4, <3>1, EarnedGrows
  <2> QED
    BY <1>1, <2>1, <2>2, <2>3, <2>4 DEF SaveOps
<1> HIDE DEF row, new
<1>4. witnessed \subseteq witnessed' /\ witnessed' \subseteq {"arrive", "start", "request_pin"}
  BY <1>1
<1> QED
  BY <1>1, <1>3, <1>4, WriteStep

LEMMA OnMyWayKeeps ==
    ASSUME LifeInv, NEW r \in Requests, MarkOnMyWay(r)
    PROVE  LifeInv'
<1>1. /\ booking \in Row /\ Earned(booking, witnessed) /\ pins \in 0..MaxPins
      /\ cashback \in Nat /\ cashback <= 1 /\ witnessed \subseteq {"arrive", "start", "request_pin"}
  BY DEF LifeInv, TypeOK, CashbackOnce
<1>2. /\ booking' = [booking EXCEPT !.onMyWay = TRUE] /\ req' = [req EXCEPT ![r] = Idle]
      /\ UNCHANGED <<sweep, pins, cashback, witnessed, now>>
  BY DEF MarkOnMyWay
<1>3. booking' \in Row /\ booking'.status = booking.status /\ Earned(booking', witnessed')
  BY <1>1, <1>2 DEF Row, Earned
<1> QED
  BY <1>1, <1>2, <1>3, WriteStep

LEMMA IssuePinKeeps ==
    ASSUME LifeInv, NEW r \in Requests, IssueCompletionPin(r)
    PROVE  LifeInv'
<1>1. /\ booking \in Row /\ Earned(booking, witnessed) /\ pins \in 0..MaxPins /\ now \in Nat
      /\ cashback \in Nat /\ cashback <= 1 /\ witnessed \subseteq {"arrive", "start", "request_pin"}
      /\ RequestKeeps(req[r], booking, witnessed)
  BY DEF LifeInv, TypeOK, CashbackOnce
<1>2. /\ req[r].op = "request_pin" /\ req' = [req EXCEPT ![r] = Idle]
      /\ witnessed' = witnessed \cup {"request_pin"}
      /\ UNCHANGED <<sweep, cashback, now>>
  BY DEF IssueCompletionPin
<1>3. booking.status # "pending" /\ {"arrive", "start"} \subseteq witnessed
  BY <1>1, <1>2 DEF RequestKeeps
<1>4. booking' \in Row /\ booking'.status = booking.status /\ pins' \in 0..MaxPins
      /\ Earned(booking', witnessed')
  <2>1. CASE UNCHANGED <<booking, pins>>
    BY <1>1, <1>2, <2>1, EarnedGrows
  <2>2. CASE /\ pins < MaxPins /\ pins' = pins + 1
             /\ booking' = [booking EXCEPT !.pin = pins', !.pinExpires = Later(now) + PinBuffer]
    <3>1. pins' \in 0..MaxPins /\ Later(now) + PinBuffer \in Nat
      BY <1>1, <2>2, LifecycleAssumption DEF Later
    <3>2. /\ booking'.status = booking.status /\ booking'.startPin = booking.startPin
          /\ booking'.arrived = booking.arrived /\ booking' \in Row
      BY <1>1, <2>2, <3>1 DEF Row
    <3>3. {"arrive", "start", "request_pin"} \subseteq witnessed'
      BY <1>2, <1>3
    <3> QED
      BY <1>1, <1>3, <3>1, <3>2, <3>3 DEF Earned
  <2> QED
    BY <2>1, <2>2 DEF IssueCompletionPin
<1>5. witnessed \subseteq witnessed' /\ witnessed' \subseteq {"arrive", "start", "request_pin"}
  BY <1>1, <1>2
<1> QED
  BY <1>1, <1>2, <1>4, <1>5, WriteStep

(* The status and the PIN are read again under the lock, and the ledger    *)
(* has no cashback of this booking.                                        *)
LEMMA CompleteKeeps ==
    ASSUME LifeInv, NEW r \in Requests, CompleteService(r)
    PROVE  /\ LifeInv'
           /\ booking.status = "in_progress" /\ booking'.status = "completed"
<1>1. /\ booking \in Row /\ Earned(booking, witnessed) /\ pins \in 0..MaxPins
      /\ witnessed \subseteq {"arrive", "start", "request_pin"}
  BY DEF LifeInv, TypeOK
<1>2. /\ booking.status = "in_progress" /\ booking.pin # 0 /\ cashback = 0
      /\ booking' = [booking EXCEPT !.status = "completed", !.pin = 0, !.pinExpires = 0]
      /\ cashback' = cashback + 1 /\ req' = [req EXCEPT ![r] = Idle]
      /\ UNCHANGED <<sweep, pins, witnessed, now>>
  BY DEF CompleteService, PinStillValid, CashbackFree
<1>3. /\ booking'.status = "completed" /\ booking'.startPin = booking.startPin
      /\ booking'.arrived = booking.arrived /\ booking'.pin = 0 /\ booking' \in Row
  <2> DEFINE done == [booking EXCEPT !.status = "completed"]
  <2>1. /\ done \in Row /\ done.status = "completed" /\ done.arrived = booking.arrived
        /\ done.startPin = booking.startPin
    BY <1>1, RowWithStatus DEF Statuses, FinalStatuses
  <2>2. booking' = [done EXCEPT !.pin = 0, !.pinExpires = 0]
    BY <1>2
  <2> HIDE DEF done
  <2> QED
    BY <2>1, <2>2, RowWithoutPin
<1>4. Earned(booking', witnessed')
  BY <1>1, <1>2, <1>3 DEF Earned
<1>5. cashback' \in Nat /\ cashback' <= 1
  BY <1>2
<1> QED
  BY <1>1, <1>2, <1>3, <1>4, <1>5, WriteStep

(* The artist's decision and the tasks write the row they read.            *)
LEMMA DecisionStep ==
    ASSUME LifeInv, NEW status \in Statuses \ {"pending"},
           status \in {"in_progress", "completed"} => booking.status = status,
           \/ booking' = [booking EXCEPT !.status = status]
           \/ booking' = [WithoutPins(booking) EXCEPT !.status = status],
           sweep' \in {"idle", "found"},
           UNCHANGED <<req, pins, cashback, witnessed, now>>
    PROVE  LifeInv'
<1>1. booking \in Row /\ Earned(booking, witnessed)
  BY DEF LifeInv, TypeOK
<1>2. /\ booking'.status = status /\ booking'.arrived = booking.arrived
      /\ booking'.startPin \in {booking.startPin, FALSE} /\ booking'.pin \in {booking.pin, 0}
      /\ booking' \in Row
  <2>1. CASE booking' = [booking EXCEPT !.status = status]
    BY <1>1, <2>1, RowWithStatus
  <2>2. CASE booking' = [WithoutPins(booking) EXCEPT !.status = status]
    <3> DEFINE bare == WithoutPins(booking)
    <3>1. /\ bare \in Row /\ bare.arrived = booking.arrived /\ bare.startPin = FALSE /\ bare.pin = 0
      BY <1>1, RowWithoutPins, RowFields
    <3> HIDE DEF bare
    <3>2. booking' = [bare EXCEPT !.status = status]
      BY <2>2 DEF bare
    <3> QED
      BY <3>1, <3>2, RowWithStatus
  <2> QED
    BY <2>1, <2>2
<1>3. Earned(booking', witnessed')
  BY <1>1, <1>2 DEF Earned
<1> QED
  BY <1>2, <1>3, LifeStep DEF LifeInv, TypeOK, CashbackOnce

LEMMA TransitionsClose ==
    ASSUME NEW s \in Statuses, NEW new \in ARTIST_TRANSITIONS[s]
    PROVE  new \in {"confirmed", "cancelled", "no_show"}
BY DEF ARTIST_TRANSITIONS, Statuses, ACTIVE_STATUSES, FinalStatuses

LEMMA UpdateStatusKeeps ==
    ASSUME LifeInv, NEW new \in Statuses, UpdateStatus(new)
    PROVE  LifeInv'
<1>1. booking.status \in Statuses
  BY RowFields DEF LifeInv, TypeOK
<1>2. new \in {"confirmed", "cancelled", "no_show"}
  BY <1>1, TransitionsClose DEF UpdateStatus
<1>3. UNCHANGED <<req, sweep, pins, cashback, witnessed, now>> /\ sweep \in {"idle", "found"}
  BY DEF UpdateStatus, LifeInv, TypeOK
<1>4. \/ booking' = [booking EXCEPT !.status = new]
      \/ booking' = [WithoutPins(booking) EXCEPT !.status = new]
  BY DEF UpdateStatus
<1> QED
  BY <1>2, <1>3, <1>4, DecisionStep

LEMMA TasksKeep ==
    ASSUME LifeInv, CancelStalePending \/ FindMissed \/ MarkMissed \/ Tick
    PROVE  LifeInv'
<1>1. CASE CancelStalePending
  <2>1. "cancelled" \in Statuses \ {"pending"} /\ sweep' \in {"idle", "found"}
    BY <1>1 DEF CancelStalePending, Statuses, FinalStatuses, LifeInv, TypeOK
  <2> QED
    BY <1>1, <2>1, DecisionStep DEF CancelStalePending
<1>2. CASE FindMissed
  BY <1>2, LifeStep DEF FindMissed, LifeInv, TypeOK, CashbackOnce
<1>3. CASE MarkMissed
  <2>1. "no_show" \in Statuses \ {"pending"}
    BY DEF Statuses, FinalStatuses
  <2> QED
    BY <1>3, <2>1, DecisionStep DEF MarkMissed
<1>4. CASE Tick
  BY <1>4, LifeStep DEF Tick, LifeInv, TypeOK, CashbackOnce
<1> QED
  BY <1>1, <1>2, <1>3, <1>4

LEMMA LifeInit == Init => LifeInv
<1> SUFFICES ASSUME Init PROVE LifeInv
  OBVIOUS
<1>1. TypeOK /\ CashbackOnce
  BY EmptyRow, LifecycleAssumption DEF Init, TypeOK, CashbackOnce
<1> QED
  BY <1>1, EmptyRow, IdleKeeps DEF Init, LifeInv

LEMMA LifeNext == LifeInv /\ [Next]_vars => LifeInv'
<1> SUFFICES ASSUME LifeInv, [Next]_vars PROVE LifeInv'
  OBVIOUS
<1>1. CASE UNCHANGED vars
  BY <1>1, LifeStep DEF vars, LifeInv, TypeOK, CashbackOnce
<1>2. ASSUME NEW r \in Requests, RequestNext(r) PROVE LifeInv'
  BY <1>2, CheckKeeps, LoadKeeps, SaveKeeps, OnMyWayKeeps, AbandonKeeps, IssuePinKeeps,
     CompleteKeeps DEF RequestNext
<1>3. ASSUME NEW new \in Statuses, UpdateStatus(new) PROVE LifeInv'
  BY <1>3, UpdateStatusKeeps
<1> QED
  BY <1>1, <1>2, <1>3, TasksKeep DEF Next

(* What LifeInv says of the row that a run checks.                         *)
LEMMA LifeGives == LifeInv => BookingSound /\ ProgressWitnessed
BY DEF LifeInv, BookingSound, ShownPinsEarned, start_service_pin_shown, completion_pin_shown,
       ProgressWitnessed, Earned

LEMMA CashbackStep ==
    LifeInv /\ [Next]_vars =>
        (cashback' # cashback => booking.status = "in_progress" /\ booking'.status = "completed")
<1> SUFFICES ASSUME LifeInv, [Next]_vars, cashback' # cashback
             PROVE  booking.status = "in_progress" /\ booking'.status = "completed"
  OBVIOUS
<1>1. ASSUME NEW r \in Requests, RequestNext(r) PROVE CompleteService(r)
  BY <1>1 DEF RequestNext, Check, Load, Save, MarkOnMyWay, Abandon, IssueCompletionPin
<1>2. \E r \in Requests : RequestNext(r)
  BY DEF Next, vars, UpdateStatus, CancelStalePending, FindMissed, MarkMissed, Tick
<1> QED
  BY <1>1, <1>2, CompleteKeeps
-----------------------------------------------------------------------------
(* BookingScreens, action by action. *)

Writing == [stage : Stages, payload : Visit \cup {NoVisit} \cup Payload, overtaken : BOOLEAN]
Causes == {"level", "excused"}

LEMMA ScreensTypes ==
    ASSUME ScreensTypeOK
    PROVE  /\ visit \in Visit \cup {NoVisit} /\ document \in Payload
           /\ candidate \in Slots \cup {-1}
           /\ payment \in {"none", "paid", "refunded"} /\ clock \in Nat
           /\ writing \in [Writers -> Writing]
           /\ \A w \in Writers : /\ writing[w] \in Writing
                                 /\ writing[w].stage \in Stages
                                 /\ writing[w].overtaken \in BOOLEAN
           /\ mirror \in Causes
BY DEF ScreensTypeOK, Writing, Causes

LEMMA TypesHold ==
    ASSUME visit \in Visit \cup {NoVisit}, document \in Payload,
           candidate \in Slots \cup {-1},
           payment \in {"none", "paid", "refunded"}, clock \in Nat,
           writing \in [Writers -> Writing], mirror \in Causes
    PROVE  ScreensTypeOK
BY DEF ScreensTypeOK, Writing, Causes

LEMMA QuietWriting == /\ Quiet \in Writing /\ Quiet.stage = "idle" /\ Quiet.payload = NoVisit
                      /\ ~Quiet.overtaken /\ \A row : Held(Quiet, row)
BY DEF Quiet, Writing, Stages, Held, Checks, Unsaved

LEMMA VisitRows ==
    /\ NoVisit \notin Visit /\ NoVisit.status = "none"
    /\ \A row \in Visit : /\ row.status \in ActiveStatuses \cup {"completed", "cancelled", "no_show"}
                          /\ row.start \in Nat /\ row.expires_at \in Nat
    /\ \A row \in Visit : \A s \in ActiveStatuses \cup {"completed", "cancelled", "no_show"} :
          LET new == [row EXCEPT !.status = s] IN
          new \in Visit /\ new.status = s /\ new.start = row.start /\ new.expires_at = row.expires_at
    /\ \A row \in Visit : /\ [row EXCEPT !.on_way = TRUE] \in Visit
                          /\ [row EXCEPT !.on_way = TRUE].status = row.status
                          /\ [row EXCEPT !.on_way = TRUE].start = row.start
                          /\ [row EXCEPT !.on_way = TRUE].expires_at = row.expires_at
                          /\ [row EXCEPT !.arrived = TRUE] \in Visit
                          /\ [row EXCEPT !.arrived = TRUE].status = row.status
<1>1. NoVisit.status = "none"
  BY DEF NoVisit
<1>2. \A row \in Visit : /\ row.status \in ActiveStatuses \cup {"completed", "cancelled", "no_show"}
                         /\ row.start \in Nat /\ row.expires_at \in Nat
  BY ScreensAssumption DEF Visit
<1>3. ASSUME NEW row \in Visit, NEW s \in ActiveStatuses \cup {"completed", "cancelled", "no_show"}
      PROVE  LET new == [row EXCEPT !.status = s] IN
             new \in Visit /\ new.status = s /\ new.start = row.start /\ new.expires_at = row.expires_at
  BY DEF Visit
<1>4. ASSUME NEW row \in Visit
      PROVE  /\ [row EXCEPT !.on_way = TRUE] \in Visit
             /\ [row EXCEPT !.on_way = TRUE].status = row.status
             /\ [row EXCEPT !.on_way = TRUE].start = row.start
             /\ [row EXCEPT !.on_way = TRUE].expires_at = row.expires_at
             /\ [row EXCEPT !.arrived = TRUE] \in Visit
             /\ [row EXCEPT !.arrived = TRUE].status = row.status
  BY DEF Visit
<1> QED
  BY <1>1, <1>2, <1>3, <1>4 DEF ActiveStatuses

LEMMA PayloadRows == \A row \in Visit \cup {NoVisit} : _build_payload(row) \in Payload
BY DEF Visit, NoVisit, Payload, _build_payload, ActiveStatuses

LEMMA StagesDiffer ==
    ASSUME NEW v \in Writers
    PROVE  /\ writing[v].stage = "told" => Deciding(v)
           /\ writing[v].stage \in {"idle", "committed", "read"} => ~Deciding(v)
BY DEF Deciding

(* When there is news under way, the document is accounted for.            *)
LEMMA NewsCovers ==
    ASSUME NewsUnderWay', \A v \in Writers : ~Told(v)'
    PROVE  DocumentInv'
BY DEF DocumentInv

LEMMA ReasonCovers ==
    ASSUME mirror' # "level", \A u, v \in Writers : Told(u)' => ~FreshNews(v)'
    PROVE  DocumentInv'
BY DEF DocumentInv, NewsUnderWay

(* One handler moves, and the row does not go back to pending.             *)
LEMMA HeldMoves ==
    ASSUME HeldInv, NEW w \in Writers, Held(writing'[w], visit'),
           \A v \in Writers : v # w => /\ writing'[v].stage = writing[v].stage
                                       /\ writing'[v].payload = writing[v].payload,
           \/ visit' = visit
           \/ visit' \in Visit /\ (visit'.status = "pending" => visit = NoVisit \/ visit.status = "pending")
    PROVE  HeldInv'
<1> SUFFICES ASSUME NEW v \in Writers, v # w PROVE Held(writing'[v], visit')
  BY DEF HeldInv
<1>1. Held(writing[v], visit)
  BY DEF HeldInv
<1> QED
  BY <1>1, VisitRows DEF Held

(* A handler commits a row while no decision is under way.                 *)
LEMMA CommitKeeps ==
    ASSUME ScreensInv, NEW w \in Writers, NEW row \in Visit, NEW q \in Writing,
           q.stage = "committed", Unlocked, visit' = row, writing' = [writing EXCEPT ![w] = q],
           InTime(row), row.status = "pending" => visit = NoVisit \/ visit.status = "pending",
           UNCHANGED <<payment, document, candidate, clock, mirror, closed_by>>
    PROVE  ScreensInv'
<1>1. \A v \in Writers : ~Deciding(v)
  BY DEF Unlocked
<1>2. ScreensTypeOK /\ DecisionInv /\ HeldInv /\ LimitsInv /\ DeadlinesKept
  BY DEF ScreensInv
<1>3. /\ writing' \in [Writers -> Writing] /\ writing'[w] = q
      /\ \A v \in Writers : v # w => writing'[v] = writing[v]
  BY <1>2, ScreensTypes
<1>4. ScreensTypeOK'
  BY <1>2, <1>3, ScreensTypes DEF ScreensTypeOK, Writing
<1>5. \A v \in Writers : ~Deciding(v)' /\ ~Told(v)'
  BY <1>1, <1>3 DEF Deciding, Told
<1>6. DocumentInv'
  BY <1>3, <1>5, NewsCovers DEF NewsUnderWay
<1>7. DecisionInv'
  BY <1>5 DEF DecisionInv
<1>8. LimitsInv'
  BY <1>2, VisitRows DEF LimitsInv, InTime, is_past_missed_deadline
<1>9. DeadlinesKept'
  BY <1>2 DEF DeadlinesKept
<1>10. HeldInv'
  <2>1. Held(writing'[w], visit')
    BY <1>3 DEF Held, Checks, Unsaved
  <2> QED
    BY <1>2, <1>3, <2>1, HeldMoves
<1> QED
  BY <1>4, <1>6, <1>7, <1>8, <1>9, <1>10 DEF ScreensInv

LEMMA CommitRowKeeps ==
    ASSUME ScreensInv, NEW w \in Writers, NEW row \in Visit, CommitRow(w, row), InTime(row),
           row.status = "pending" => visit = NoVisit \/ visit.status = "pending",
           UNCHANGED <<payment, document, candidate, clock, mirror, closed_by>>
    PROVE  ScreensInv'
<1> DEFINE q == [Quiet EXCEPT !.stage = "committed"]
<1>1. q \in Writing /\ q.stage = "committed"
  BY DEF Quiet, Writing, Stages
<1>2. Unlocked /\ visit' = row /\ writing' = [writing EXCEPT ![w] = q]
  BY ScreensTypes DEF CommitRow, ScreensInv
<1> HIDE DEF q
<1> QED
  BY <1>1, <1>2, CommitKeeps

LEMMA CreateBookingKeeps ==
    ASSUME ScreensInv, NEW w \in Writers, NEW slot \in Slots, CreateBooking(w, slot)
    PROVE  ScreensInv'
<1>1. clock \in Nat /\ slot \in Nat
  BY ScreensTypes, ScreensAssumption DEF ScreensInv
<1> DEFINE until == clock + SlotLock
           row == [NoVisit EXCEPT !.status = "pending", !.start = slot, !.expires_at = until]
<1>2. until \in Nat /\ until <= slot + Grace
  BY <1>1, ScreensAssumption DEF CreateBooking
<1>3. /\ CommitRow(w, row) /\ visit = NoVisit
      /\ UNCHANGED <<payment, document, candidate, clock, mirror, closed_by>>
  BY DEF CreateBooking
<1> HIDE DEF until
<1>4. row \in Visit
  BY <1>2 DEF Visit, NoVisit, ActiveStatuses
<1>5. InTime(row)
  BY <1>2 DEF InTime, NoVisit
<1> HIDE DEF row
<1> QED
  BY <1>3, <1>4, <1>5, CommitRowKeeps

LEMMA SaveVisitKeeps ==
    ASSUME ScreensInv, NEW w \in Writers, SaveVisit(w)
    PROVE  ScreensInv'
<1> DEFINE q == [Quiet EXCEPT !.stage = "committed"]
           row == writing[w].payload
<1>1. q \in Writing /\ q.stage = "committed"
  BY DEF Quiet, Writing, Stages
<1>2. row \in Visit /\ row.status # "pending"
  BY DEF SaveVisit, ScreensInv, HeldInv, Held
<1>3. Unlocked /\ visit' = row /\ writing' = [writing EXCEPT ![w] = q]
  BY DEF SaveVisit
<1> HIDE DEF q, row
<1> QED
  BY <1>1, <1>2, <1>3, CommitKeeps DEF SaveVisit, InTime

LEMMA IssueVisitKeeps ==
    ASSUME ScreensInv, NEW w \in Writers, issue_completion_pin(w)
    PROVE  ScreensInv'
<1> DEFINE q == [writing[w] EXCEPT !.stage = "committed"]
<1>1. writing[w] \in Writing /\ Held(writing[w], visit)
  BY ScreensTypes DEF ScreensInv, HeldInv
<1>2. visit \in Visit /\ visit.status # "pending"
  BY <1>1 DEF Held, Checks, Unsaved, issue_completion_pin
<1>3. q \in Writing /\ q.stage = "committed"
  BY <1>1 DEF Writing, Stages
<1>4. Unlocked /\ visit' = visit /\ writing' = [writing EXCEPT ![w] = q]
  BY ScreensTypes DEF issue_completion_pin, ScreensInv
<1> HIDE DEF q
<1> QED
  BY <1>2, <1>3, <1>4, CommitKeeps DEF issue_completion_pin, InTime

LEMMA OnMyWayVisitKeeps ==
    ASSUME ScreensInv, NEW w \in Writers, mark_on_my_way(w)
    PROVE  ScreensInv'
<1> DEFINE q == [writing[w] EXCEPT !.stage = "committed"]
           row == [visit EXCEPT !.on_way = TRUE]
<1>1. writing[w] \in Writing /\ Held(writing[w], visit)
  BY ScreensTypes DEF ScreensInv, HeldInv
<1>2. visit \in Visit /\ visit.status # "pending"
  BY <1>1 DEF Held, Checks, Unsaved, mark_on_my_way
<1>3. row \in Visit /\ row.status # "pending"
  BY <1>2, VisitRows
<1>4. q \in Writing /\ q.stage = "committed"
  BY <1>1 DEF Writing, Stages
<1>5. Unlocked /\ visit' = row /\ writing' = [writing EXCEPT ![w] = q]
  BY ScreensTypes DEF mark_on_my_way, ScreensInv
<1> HIDE DEF q, row
<1> QED
  BY <1>3, <1>4, <1>5, CommitKeeps DEF mark_on_my_way, InTime

LEMMA CompleteVisitKeeps ==
    ASSUME ScreensInv, NEW w \in Writers, complete_service(w)
    PROVE  ScreensInv'
<1> DEFINE row == [visit EXCEPT !.status = "completed"]
<1>1. visit.status = "in_progress" /\ UNCHANGED <<payment, document, candidate, clock, mirror, closed_by>>
  BY DEF complete_service
<1>2. visit \in Visit
  BY <1>1, ScreensTypes, VisitRows DEF ScreensInv
<1>3. row \in Visit /\ row.status = "completed"
  BY <1>2, VisitRows
<1>4. CommitRow(w, row)
  BY DEF complete_service
<1> HIDE DEF row
<1> QED
  BY <1>1, <1>3, <1>4, CommitRowKeeps DEF InTime

LEMMA RescheduleKeeps ==
    ASSUME ScreensInv, NEW w \in Writers, NEW slot \in Slots, reschedule_slot(w, slot)
    PROVE  ScreensInv'
<1> DEFINE row == [visit EXCEPT !.start = slot]
<1>1. visit.status = "confirmed"
  BY DEF reschedule_slot
<1>2. visit \in Visit
  BY <1>1, ScreensTypes, VisitRows DEF ScreensInv
<1>3. row \in Visit /\ row.status = "confirmed"
  BY <1>1, <1>2 DEF Visit
<1>4. CommitRow(w, row) /\ UNCHANGED <<payment, document, candidate, clock, mirror, closed_by>>
  BY DEF reschedule_slot
<1> HIDE DEF row
<1> QED
  BY <1>1, <1>3, <1>4, CommitRowKeeps DEF InTime

(* Steps that leave the row, the document and the handlers alone.          *)
LEMMA SameDocument ==
    ASSUME DocumentInv, DecisionInv, UNCHANGED <<visit, document, writing, mirror>>
    PROVE  DocumentInv' /\ DecisionInv'
BY DEF DocumentInv, DecisionInv, NewsUnderWay, Announced, Told, FreshNews, Deciding

LEMMA PaymentMovesKeeps ==
    ASSUME ScreensInv, PaymentMoves
    PROVE  ScreensInv'
<1>1. ScreensTypeOK'
  BY ScreensTypes DEF ScreensInv, PaymentMoves, ScreensTypeOK
<1>2. LimitsInv'
  BY VisitRows DEF ScreensInv, PaymentMoves, LimitsInv, InTime, is_past_missed_deadline, ActiveStatuses
<1> QED
  BY <1>1, <1>2, SameDocument DEF ScreensInv, PaymentMoves, DeadlinesKept, HeldInv

LEMMA ReadMissedKeeps ==
    ASSUME ScreensInv, ReadMissed
    PROVE  ScreensInv'
<1>1. visit \in Visit /\ visit # NoVisit
  BY ScreensTypes, VisitRows DEF ScreensInv, ReadMissed
<1>2. candidate' \in Slots
  BY <1>1 DEF ReadMissed, Visit
<1>3. ScreensTypeOK'
  BY <1>2, ScreensTypes DEF ScreensInv, ReadMissed, ScreensTypeOK
<1>4. LimitsInv'
  BY <1>1 DEF ScreensInv, ReadMissed, LimitsInv, InTime, is_past_missed_deadline
<1> QED
  BY <1>3, <1>4, SameDocument DEF ScreensInv, ReadMissed, DeadlinesKept, HeldInv

LEMMA NextHourKeeps ==
    ASSUME ScreensInv, NextHour
    PROVE  ScreensInv'
<1>1. ScreensTypeOK'
  BY ScreensTypes DEF ScreensInv, NextHour, ScreensTypeOK
<1>2. candidate # -1 => candidate \in Nat
  BY ScreensTypes, ScreensAssumption DEF ScreensInv
<1>3. LimitsInv'
  BY <1>2, ScreensTypes, ScreensAssumption
  DEF ScreensInv, NextHour, LimitsInv, InTime, is_past_missed_deadline
<1> QED
  BY <1>1, <1>3, SameDocument DEF ScreensInv, NextHour, DeadlinesKept, HeldInv

(* What the row and the handlers have to do with the limits: a step that   *)
(* leaves the row, the money, the task and the clock alone keeps them.     *)
LEMMA SameLimits ==
    ASSUME LimitsInv, DeadlinesKept, UNCHANGED <<visit, payment, candidate, clock, closed_by>>
    PROVE  LimitsInv' /\ DeadlinesKept'
BY DEF LimitsInv, DeadlinesKept, InTime, is_past_missed_deadline

(* A handler that decides nothing moves on.                                *)
LEMMA SameDecisions ==
    ASSUME DecisionInv, visit' = visit,
           \A v \in Writers : Deciding(v)' => Deciding(v) /\ writing'[v].payload = writing[v].payload
    PROVE  DecisionInv'
BY DEF DecisionInv

LEMMA ReadKeeps ==
    ASSUME ScreensInv, NEW w \in Writers, ReadForDocument(w)
    PROVE  ScreensInv'
<1> DEFINE crossed == \E v \in Writers : writing[v].stage = "told"
           news == _build_payload(visit)
           q == [stage |-> "read", payload |-> news, overtaken |-> crossed]
<1>1. ScreensTypeOK /\ DocumentInv /\ DecisionInv /\ HeldInv /\ LimitsInv /\ DeadlinesKept
  BY DEF ScreensInv
<1>2. /\ writing[w].stage = "committed" /\ writing' = [writing EXCEPT ![w] = q]
      /\ UNCHANGED <<visit, payment, document, candidate, clock, mirror, closed_by>>
  BY DEF ReadForDocument
<1>3. news \in Payload
  BY <1>1, ScreensTypes, PayloadRows
<1> HIDE DEF news
<1>4. q \in Writing /\ q.stage = "read" /\ q.payload = news /\ (q.overtaken <=> crossed)
  BY <1>3 DEF Writing, Stages
<1>5. Held(q, visit)
  BY <1>3, <1>4 DEF Held, Checks, Unsaved
<1> HIDE DEF q
<1>6. /\ writing' \in [Writers -> Writing] /\ writing'[w] = q
      /\ \A v \in Writers : v # w => writing'[v] = writing[v]
  BY <1>1, <1>2, <1>4, ScreensTypes
<1>7. ScreensTypeOK'
  BY <1>1, <1>2, <1>6, ScreensTypes, TypesHold DEF ScreensTypeOK, Writing, Stages
<1>8. NewsUnderWay'
  BY <1>2, <1>4, <1>6 DEF NewsUnderWay, news
<1>9. \A v \in Writers : /\ Told(v)' <=> Told(v)
                         /\ Told(v) => writing'[v].payload = writing[v].payload
                         /\ Deciding(v)' => Deciding(v) /\ writing'[v].payload = writing[v].payload
  BY <1>2, <1>4, <1>6 DEF Told, Deciding
<1>10. \A u, v \in Writers : Told(u)' => ~FreshNews(v)'
  <2> SUFFICES ASSUME NEW u \in Writers, NEW v \in Writers, Told(u)' PROVE ~FreshNews(v)'
    OBVIOUS
  <2>1. Told(u) /\ crossed
    BY <1>9 DEF Told
  <2>2. CASE v = w
    BY <1>4, <1>6, <2>1, <2>2 DEF FreshNews
  <2>3. CASE v # w
    BY <1>1, <1>6, <2>1, <2>3 DEF FreshNews, DocumentInv
  <2> QED
    BY <2>2, <2>3
<1>11. DocumentInv'
  BY <1>1, <1>2, <1>8, <1>9, <1>10 DEF DocumentInv, Announced
<1>12. HeldInv'
  BY <1>1, <1>2, <1>5, <1>6, HeldMoves
<1> QED
  BY <1>1, <1>2, <1>7, <1>9, <1>11, <1>12, SameLimits, SameDecisions DEF ScreensInv

LEMMA SyncKeeps ==
    ASSUME ScreensInv, NEW w \in Writers, sync_booking(w)
    PROVE  ScreensInv'
<1> DEFINE news == writing[w]
<1>1. ScreensTypeOK /\ DocumentInv /\ DecisionInv /\ HeldInv /\ LimitsInv /\ DeadlinesKept
  BY DEF ScreensInv
<1>2. /\ news.stage = "read" /\ document' = news.payload
      /\ mirror' = IF news.overtaken THEN "excused"
                   ELSE IF document' = _build_payload(visit) THEN "level" ELSE mirror
      /\ writing' = [v \in Writers |-> IF v = w THEN Quiet
                        ELSE [writing[v] EXCEPT !.overtaken = @ \/ writing[v].stage = "read"]]
      /\ UNCHANGED <<visit, payment, candidate, clock, closed_by>>
  BY DEF sync_booking
<1>3. /\ writing' \in [Writers -> Writing] /\ writing'[w] = Quiet
      /\ \A v \in Writers : v # w => /\ writing'[v].stage = writing[v].stage
                                     /\ writing'[v].payload = writing[v].payload
                                     /\ writing'[v].stage = "read" => writing'[v].overtaken
  <2>1. ASSUME NEW v \in Writers, NEW b \in BOOLEAN
        PROVE  LET new == [writing[v] EXCEPT !.overtaken = b] IN
               /\ new \in Writing /\ new.stage = writing[v].stage
               /\ new.payload = writing[v].payload /\ new.overtaken = b
    BY <1>1, ScreensTypes DEF Writing
  <2>2. ASSUME NEW v \in Writers, v # w
        PROVE  /\ writing'[v] \in Writing /\ writing'[v].stage = writing[v].stage
               /\ writing'[v].payload = writing[v].payload
               /\ writing'[v].stage = "read" => writing'[v].overtaken
    <3> DEFINE b == writing[v].overtaken \/ writing[v].stage = "read"
    <3>1. writing'[v] = [writing[v] EXCEPT !.overtaken = b]
      BY <1>2, <2>2
    <3>2. b \in BOOLEAN /\ (writing[v].stage = "read" => b)
      OBVIOUS
    <3> HIDE DEF b
    <3> QED
      BY <2>1, <3>1, <3>2
  <2>3. writing'[w] = Quiet /\ DOMAIN writing' = Writers
    BY <1>2
  <2>4. \A v \in Writers : writing'[v] \in Writing
    BY <2>2, <2>3, QuietWriting
  <2>5. writing' = [v \in Writers |-> writing'[v]]
    BY <1>2
  <2> QED
    BY <2>2, <2>3, <2>4, <2>5
<1>4. mirror' \in Causes /\ document' \in Payload
  BY <1>1, <1>2, ScreensTypes DEF Causes, HeldInv, Held
<1>5. ScreensTypeOK'
  BY <1>1, <1>2, <1>3, <1>4, ScreensTypes DEF ScreensTypeOK, Writing, Causes
<1>6. HeldInv'
  BY <1>1, <1>2, <1>3, QuietWriting, HeldMoves
<1>7. \A v \in Writers : /\ Told(v)' => Told(v) /\ v # w
                         /\ Deciding(v)' => Deciding(v) /\ writing'[v].payload = writing[v].payload
                         /\ ~FreshNews(v)'
  BY <1>3, QuietWriting DEF Told, Deciding, FreshNews
<1>8. CASE news.overtaken
  <2>1. mirror' # "level"
    BY <1>2, <1>8
  <2> QED
    BY <1>1, <1>2, <1>5, <1>6, <1>7, <2>1, ReasonCovers, SameLimits, SameDecisions DEF ScreensInv
<1>9. CASE ~news.overtaken
  <2>1. FreshNews(w) /\ \A v \in Writers : ~Told(v)
    BY <1>1, <1>2, <1>9 DEF FreshNews, DocumentInv
  <2>2. document' = _build_payload(visit') \/ NewsUnderWay'
    <3> SUFFICES ASSUME document' # _build_payload(visit') PROVE NewsUnderWay'
      OBVIOUS
    <3>1. news.payload # _build_payload(visit) /\ mirror' = mirror
      BY <1>2, <1>9
    <3>2. NewsUnderWay
      BY <1>1, <2>1, <3>1 DEF DocumentInv
    <3>3. CASE mirror # "level"
      BY <3>1, <3>3 DEF NewsUnderWay
    <3>4. ASSUME NEW v \in Writers, writing[v].stage = "committed" PROVE NewsUnderWay'
      BY <1>2, <1>3, <3>4 DEF NewsUnderWay
    <3>5. ASSUME NEW v \in Writers, writing[v].stage = "read",
                 writing[v].payload = _build_payload(visit) \/ writing[v].overtaken
          PROVE  NewsUnderWay'
      <4>1. v # w
        BY <1>9, <3>1, <3>5
      <4> QED
        BY <1>3, <3>5, <4>1 DEF NewsUnderWay
    <3> QED
      BY <3>2, <3>3, <3>4, <3>5 DEF NewsUnderWay
  <2>3. DocumentInv'
    BY <1>7, <2>1, <2>2 DEF DocumentInv
  <2> QED
    BY <1>1, <1>2, <1>5, <1>6, <1>7, <2>3, SameLimits, SameDecisions DEF ScreensInv
<1> QED
  BY <1>8, <1>9

(* A handler leaves, or the artist's decision is rolled back.              *)
LEMMA QuietStep ==
    ASSUME ScreensTypeOK, NEW w \in Writers, writing' = [writing EXCEPT ![w] = Quiet]
    PROVE  /\ writing' \in [Writers -> Writing] /\ writing'[w] = Quiet
           /\ \A v \in Writers : v # w => writing'[v] = writing[v]
           /\ ~Deciding(w)' /\ ~Told(w)' /\ ~FreshNews(w)'
           /\ \A v \in Writers : /\ Deciding(v)' => Deciding(v) /\ writing'[v].payload = writing[v].payload
                                 /\ Told(v)' => Told(v)
                                 /\ FreshNews(v)' => FreshNews(v)
<1>1. writing' \in [Writers -> Writing] /\ writing'[w] = Quiet
      /\ \A v \in Writers : v # w => writing'[v] = writing[v]
  BY ScreensTypes, QuietWriting
<1>2. ~Deciding(w)' /\ ~Told(w)' /\ ~FreshNews(w)'
  BY <1>1, QuietWriting DEF Deciding, Told, FreshNews
<1> QED
  BY <1>1, <1>2 DEF Deciding, Told, FreshNews

LEMMA NotSyncedKeeps ==
    ASSUME ScreensInv, NEW w \in Writers, NotSynced(w)
    PROVE  ScreensInv'
<1>1. ScreensTypeOK /\ DocumentInv /\ DecisionInv /\ HeldInv /\ LimitsInv /\ DeadlinesKept
  BY DEF ScreensInv
<1>2. /\ writing' = [writing EXCEPT ![w] = Quiet] /\ mirror' = "excused"
      /\ writing[w].stage \in {"committed", "read"}
      /\ UNCHANGED <<visit, payment, document, candidate, clock, closed_by>>
  BY DEF NotSynced
<1>3. ScreensTypeOK'
  BY <1>1, <1>2, QuietStep, ScreensTypes DEF ScreensTypeOK, Writing, Causes
<1>4. mirror' # "level" /\ \A u, v \in Writers : Told(u)' => ~FreshNews(v)'
  BY <1>1, <1>2, QuietStep DEF DocumentInv
<1>5. HeldInv'
  BY <1>1, <1>2, QuietStep, QuietWriting, HeldMoves
<1> QED
  BY <1>1, <1>2, <1>3, <1>4, <1>5, QuietStep, ReasonCovers, SameLimits, SameDecisions DEF ScreensInv

(* A step of the handlers that neither brings nor takes news.              *)
LEMMA SameNews ==
    ASSUME NewsUnderWay, _build_payload(visit') = _build_payload(visit), mirror' = mirror,
           NEW w \in Writers,
           writing[w].stage \notin {"committed", "read"},
           \A v \in Writers : v # w => /\ writing'[v].stage = writing[v].stage
                                       /\ writing'[v].payload = writing[v].payload
                                       /\ writing[v].overtaken => writing'[v].overtaken
    PROVE  NewsUnderWay'
<1>1. CASE mirror # "level"
  BY <1>1 DEF NewsUnderWay
<1>2. ASSUME NEW v \in Writers, writing[v].stage = "committed" PROVE NewsUnderWay'
  BY <1>2 DEF NewsUnderWay
<1>3. ASSUME NEW v \in Writers, writing[v].stage = "read",
             writing[v].payload = _build_payload(visit) \/ writing[v].overtaken
      PROVE  NewsUnderWay'
  BY <1>3 DEF NewsUnderWay
<1> QED
  BY <1>1, <1>2, <1>3 DEF NewsUnderWay

(* The handlers without a lock, up to their save.                          *)
LEMMA UnsavedStep ==
    ASSUME ScreensInv, NEW w \in Writers, NEW q \in Writing, writing' = [writing EXCEPT ![w] = q],
           writing[w].stage \notin {"committed", "read", "deciding", "told", "untold"},
           q.stage \notin {"committed", "read", "deciding", "told", "untold"}, Held(q, visit),
           UNCHANGED <<visit, payment, document, candidate, clock, mirror, closed_by>>
    PROVE  ScreensInv'
<1>1. ScreensTypeOK /\ DocumentInv /\ DecisionInv /\ HeldInv /\ LimitsInv /\ DeadlinesKept
  BY DEF ScreensInv
<1>2. /\ writing' \in [Writers -> Writing] /\ writing'[w] = q
      /\ \A v \in Writers : v # w => writing'[v] = writing[v]
  BY <1>1, ScreensTypes
<1>3. ScreensTypeOK'
  BY <1>1, <1>2, ScreensTypes DEF ScreensTypeOK, Writing
<1>4. \A v \in Writers : /\ Told(v)' <=> Told(v)
                         /\ Told(v) => v # w /\ writing'[v] = writing[v]
                         /\ Deciding(v)' => Deciding(v) /\ writing'[v] = writing[v]
                         /\ FreshNews(v)' => FreshNews(v) /\ writing'[v] = writing[v]
  BY <1>2 DEF Told, Deciding, FreshNews
<1>5. NewsUnderWay => NewsUnderWay'
  BY <1>1, <1>2, SameNews
<1>6. DocumentInv'
  BY <1>1, <1>4, <1>5 DEF DocumentInv, Announced
<1>7. HeldInv'
  BY <1>1, <1>2, HeldMoves
<1> QED
  BY <1>1, <1>3, <1>4, <1>6, <1>7, SameLimits, SameDecisions DEF ScreensInv

LEMMA CheckVisitKeeps ==
    ASSUME ScreensInv, NEW w \in Writers,
           NEW op \in Checks, CheckVisit(w, op)
    PROVE  ScreensInv'
<1> DEFINE q == [Quiet EXCEPT !.stage = op]
<1>1. q \in Writing /\ q.stage = op
  BY DEF Quiet, Writing, Stages, Checks, Unsaved
<1>2. writing' = [writing EXCEPT ![w] = q] /\ writing[w].stage = "idle"
  BY ScreensTypes, QuietWriting DEF CheckVisit, ScreensInv
<1>3. visit.status \in {"pending", "confirmed", "in_progress"} /\ (op # "cancel" => visit.status # "pending")
  BY DEF CheckVisit, VisitAllows
<1>4. visit \in Visit
  BY <1>3, ScreensTypes, VisitRows DEF ScreensInv
<1> HIDE DEF q
<1>5. Held(q, visit)
  BY <1>1, <1>3, <1>4 DEF Held, Checks, Unsaved
<1> QED
  BY <1>1, <1>2, <1>5, UnsavedStep DEF CheckVisit, Checks

LEMMA LoadVisitKeeps ==
    ASSUME ScreensInv, NEW w \in Writers, LoadVisit(w)
    PROVE  ScreensInv'
<1> DEFINE op == writing[w].stage
           row == SavedAs(op, visit)
           q == [writing[w] EXCEPT !.payload = row, !.stage = IF op = "miss" THEN "missed" ELSE "loaded"]
<1>1. /\ op \in {"cancel", "arrive", "start", "miss"} /\ writing[w] \in Writing
      /\ Held(writing[w], visit)
  BY ScreensTypes DEF LoadVisit, ScreensInv, HeldInv
<1>2. writing' = [writing EXCEPT ![w] = q]
  BY ScreensTypes DEF LoadVisit, ScreensInv
<1>3. visit \in Visit /\ (op # "cancel" => visit.status # "pending")
  BY <1>1 DEF Held, Checks, Unsaved
<1>4. row \in Visit /\ row.status # "pending"
  BY <1>1, <1>3, VisitRows DEF SavedAs, ActiveStatuses
<1> HIDE DEF row
<1>5. q \in Writing /\ q.payload = row /\ q.stage = IF op = "miss" THEN "missed" ELSE "loaded"
  BY <1>1, <1>4 DEF Writing, Stages, Checks, Unsaved
<1> HIDE DEF q
<1>6. Held(q, visit)
  BY <1>1, <1>3, <1>4, <1>5 DEF Held, Checks, Unsaved
<1> QED
  BY <1>1, <1>2, <1>5, <1>6, UnsavedStep DEF LoadVisit

LEMMA LeaveVisitKeeps ==
    ASSUME ScreensInv, NEW w \in Writers, LeaveVisit(w)
    PROVE  ScreensInv'
BY QuietWriting, UnsavedStep DEF LeaveVisit, Checks, Unsaved

LEMMA DecideKeeps ==
    ASSUME ScreensInv, NEW w \in Writers,
           NEW status \in ActiveStatuses \cup {"completed", "cancelled", "no_show"}, Decide(w, status)
    PROVE  ScreensInv'
<1> DEFINE row == [visit EXCEPT !.status = status]
           q == [stage |-> "deciding", overtaken |-> FALSE, payload |-> row]
<1>1. ScreensTypeOK /\ DocumentInv /\ DecisionInv /\ HeldInv /\ LimitsInv /\ DeadlinesKept
  BY DEF ScreensInv
<1>2. /\ \A v \in Writers : ~Deciding(v)
      /\ writing[w] = Quiet /\ writing' = [writing EXCEPT ![w] = q]
      /\ visit.status \in ActiveStatuses /\ status # "pending"
      /\ UNCHANGED <<visit, payment, document, candidate, clock, mirror, closed_by>>
  BY DEF Decide, Unlocked, ActiveStatuses
<1>3. visit \in Visit
  BY <1>1, <1>2, ScreensTypes, VisitRows DEF ActiveStatuses
<1>4. row \in Visit /\ row.status = status
  BY <1>3, VisitRows
<1> HIDE DEF row
<1>5. q \in Writing /\ q.stage = "deciding" /\ q.payload = row /\ Held(q, visit)
  BY <1>4 DEF Writing, Stages, Held, Checks, Unsaved
<1> HIDE DEF q
<1>6. /\ writing' \in [Writers -> Writing] /\ writing'[w] = q
      /\ \A v \in Writers : v # w => writing'[v] = writing[v]
  BY <1>1, <1>2, <1>5, ScreensTypes
<1>7. ScreensTypeOK'
  BY <1>1, <1>2, <1>6, ScreensTypes DEF ScreensTypeOK, Writing, Causes
<1>8. \A v \in Writers : ~Told(v) /\ ~Told(v)' /\ (FreshNews(v)' => v # w /\ FreshNews(v))
                         /\ (Deciding(v)' => v = w)
  BY <1>2, <1>5, <1>6 DEF Told, FreshNews, Deciding
<1>9. NewsUnderWay => NewsUnderWay'
  BY <1>2, <1>6, QuietWriting, SameNews
<1>10. DocumentInv'
  BY <1>1, <1>2, <1>6, <1>8, <1>9 DEF DocumentInv, Announced
<1>11. DecisionInv'
  BY <1>2, <1>3, <1>4, <1>5, <1>6, <1>8 DEF DecisionInv
<1>12. HeldInv'
  BY <1>1, <1>2, <1>5, <1>6, HeldMoves
<1> QED
  BY <1>1, <1>2, <1>7, <1>10, <1>11, <1>12, SameLimits DEF ScreensInv

LEMMA SyncDecisionKeeps ==
    ASSUME ScreensInv, NEW w \in Writers, NEW works \in BOOLEAN, SyncDecision(w, works)
    PROVE  ScreensInv'
<1>1. ScreensTypeOK /\ DocumentInv /\ DecisionInv /\ HeldInv /\ LimitsInv /\ DeadlinesKept
  BY DEF ScreensInv
<1>2. /\ writing[w].stage = "deciding"
      /\ document' = IF works THEN _build_payload(writing[w].payload) ELSE document
      /\ writing' = [v \in Writers |->
            IF v = w THEN [writing[v] EXCEPT !.stage = IF works THEN "told" ELSE "untold"]
            ELSE [writing[v] EXCEPT !.overtaken = @ \/ (works /\ writing[v].stage = "read")]]
      /\ UNCHANGED <<visit, payment, candidate, clock, mirror, closed_by>>
  BY DEF SyncDecision
<1>3. /\ writing'[w] \in Writing /\ writing'[w].payload = writing[w].payload
      /\ writing'[w].stage = IF works THEN "told" ELSE "untold"
  <2> DEFINE s == IF works THEN "told" ELSE "untold"
  <2>1. writing'[w] = [writing[w] EXCEPT !.stage = s] /\ s \in Stages
    BY <1>2 DEF Stages
  <2> HIDE DEF s
  <2>2. writing'[w] \in Writing /\ writing'[w].payload = writing[w].payload /\ writing'[w].stage = s
    BY <1>1, <2>1, ScreensTypes DEF Writing
  <2> QED
    BY <2>2 DEF s
<1>4. ASSUME NEW v \in Writers, v # w
      PROVE  /\ writing'[v] \in Writing /\ writing'[v].stage = writing[v].stage
             /\ writing'[v].payload = writing[v].payload
             /\ writing[v].overtaken => writing'[v].overtaken
             /\ works /\ writing[v].stage = "read" => writing'[v].overtaken
             /\ ~works /\ writing'[v].overtaken => writing[v].overtaken
  <2> DEFINE b == writing[v].overtaken \/ (works /\ writing[v].stage = "read")
  <2>1. writing'[v] = [writing[v] EXCEPT !.overtaken = b]
    BY <1>2, <1>4
  <2>2. /\ b \in BOOLEAN /\ (writing[v].overtaken => b) /\ (works /\ writing[v].stage = "read" => b)
        /\ ~works /\ b => writing[v].overtaken
    OBVIOUS
  <2> HIDE DEF b
  <2>3. /\ writing'[v] \in Writing /\ writing'[v].stage = writing[v].stage
        /\ writing'[v].payload = writing[v].payload /\ writing'[v].overtaken = b
    BY <1>1, <2>1, <2>2, ScreensTypes DEF Writing
  <2> QED
    BY <2>2, <2>3
<1>5. writing' \in [Writers -> Writing]
  BY <1>2, <1>3, <1>4
<1>6. document' \in Payload
  BY <1>1, <1>2, ScreensTypes, PayloadRows DEF DecisionInv, Deciding
<1>7. ScreensTypeOK'
  BY <1>1, <1>2, <1>5, <1>6, ScreensTypes DEF ScreensTypeOK, Writing, Causes
<1>8. HeldInv'
  <2>1. Held(writing'[w], visit')
    BY <1>3 DEF Held, Checks, Unsaved
  <2> QED
    BY <1>1, <1>2, <1>4, <2>1, HeldMoves
<1>9. \A v \in Writers : Deciding(v) => v = w
  BY <1>1, <1>2 DEF DecisionInv, Deciding
<1>10. \A v \in Writers : /\ ~Told(v) /\ (Told(v)' <=> v = w /\ works)
                          /\ Deciding(v)' => Deciding(v) /\ writing'[v].payload = writing[v].payload
                          /\ FreshNews(v)' => FreshNews(v) /\ ~works /\ v # w
  <2>1. \A v \in Writers : ~Told(v)
    BY <1>2, <1>9 DEF Told, Deciding
  <2>2. ASSUME NEW v \in Writers, v # w
        PROVE  /\ ~Told(v)' /\ ~Deciding(v)'
               /\ FreshNews(v)' => FreshNews(v) /\ ~works
    <3>1. ~Deciding(v) /\ writing'[v].stage = writing[v].stage
      BY <1>4, <1>9, <2>2
    <3>2. ~Told(v)' /\ ~Deciding(v)'
      BY <3>1 DEF Deciding, Told
    <3>3. FreshNews(v)' => FreshNews(v) /\ ~works
      BY <1>4, <2>2, <3>1 DEF FreshNews
    <3> QED
      BY <3>2, <3>3
  <2>3. (Told(w)' <=> works) /\ ~FreshNews(w)' /\ Deciding(w)
    BY <1>2, <1>3 DEF Told, FreshNews, Deciding
  <2> QED
    BY <1>3, <2>1, <2>2, <2>3
<1>11. NewsUnderWay => NewsUnderWay'
  BY <1>2, <1>4, SameNews
<1>12. DocumentInv'
  <2>1. CASE works
    BY <1>2, <1>3, <1>10, <2>1 DEF DocumentInv, Announced
  <2>2. CASE ~works
    BY <1>1, <1>2, <1>4, <1>10, <1>11, <2>2 DEF DocumentInv, Announced
  <2> QED
    BY <2>1, <2>2
<1> QED
  BY <1>1, <1>2, <1>7, <1>8, <1>10, <1>12, SameLimits, SameDecisions DEF ScreensInv

LEMMA CommitDecisionKeeps ==
    ASSUME ScreensInv, NEW w \in Writers, CommitDecision(w)
    PROVE  ScreensInv'
<1>1. ScreensTypeOK /\ DocumentInv /\ DecisionInv /\ HeldInv /\ LimitsInv /\ DeadlinesKept
  BY DEF ScreensInv
<1>2. /\ Deciding(w) /\ (Told(w) \/ writing[w].stage = "untold")
      /\ visit' = writing[w].payload /\ writing' = [writing EXCEPT ![w] = Quiet]
      /\ mirror' = IF writing[w].stage = "untold" THEN "excused"
                   ELSE IF document = _build_payload(visit') THEN "level" ELSE mirror
      /\ UNCHANGED <<payment, document, candidate, clock, closed_by>>
  BY DEF CommitDecision, Deciding, Told
<1>3. visit \in Visit /\ visit' \in Visit /\ visit'.status # "pending"
  BY <1>1, <1>2 DEF DecisionInv
<1>4. \A v \in Writers : ~Deciding(v)' /\ ~Told(v)'
  BY <1>1, <1>2, QuietStep, StagesDiffer DEF DecisionInv, Told
<1>5. ScreensTypeOK'
  BY <1>1, <1>2, <1>3, QuietStep, ScreensTypes DEF ScreensTypeOK, Writing, Causes
<1>6. DocumentInv'
  <2>1. CASE mirror' # "level"
    BY <1>4, <2>1, ReasonCovers
  <2>2. CASE mirror' = "level"
    <3>1. Told(w) /\ writing[w].stage # "untold"
      BY <1>2, <2>2 DEF Told
    <3>2. document' = _build_payload(visit')
      BY <1>1, <1>2, <2>2, <3>1 DEF DocumentInv, Announced
    <3>3. \A v \in Writers : ~FreshNews(v)'
      BY <1>1, <1>2, <3>1, QuietStep DEF DocumentInv
    <3> QED
      BY <1>4, <3>2, <3>3 DEF DocumentInv
  <2> QED
    BY <2>1, <2>2
<1>7. DecisionInv'
  BY <1>4 DEF DecisionInv
<1>8. LimitsInv'
  BY <1>1, <1>2, <1>3, VisitRows DEF LimitsInv, InTime, is_past_missed_deadline
<1>9. HeldInv'
  BY <1>1, <1>2, <1>3, QuietStep, QuietWriting, HeldMoves
<1> QED
  BY <1>1, <1>2, <1>5, <1>6, <1>7, <1>8, <1>9 DEF ScreensInv, DeadlinesKept

LEMMA RollBackKeeps ==
    ASSUME ScreensInv, NEW w \in Writers, RollBack(w)
    PROVE  ScreensInv'
<1>1. ScreensTypeOK /\ DocumentInv /\ DecisionInv /\ HeldInv /\ LimitsInv /\ DeadlinesKept
  BY DEF ScreensInv
<1>2. /\ Deciding(w) /\ writing' = [writing EXCEPT ![w] = Quiet]
      /\ mirror' = IF writing[w].stage = "told" THEN "excused" ELSE mirror
      /\ UNCHANGED <<visit, payment, document, candidate, clock, closed_by>>
  BY DEF RollBack
<1>3. mirror' \in Causes
  BY <1>1, <1>2, ScreensTypes DEF Causes
<1>4. ScreensTypeOK'
  BY <1>1, <1>2, <1>3, QuietStep, ScreensTypes DEF ScreensTypeOK, Writing, Causes
<1>5. DocumentInv'
  <2>1. CASE Told(w)
    <3>1. mirror' # "level"
      BY <1>2, <2>1 DEF Told
    <3> QED
      BY <1>1, <1>2, <3>1, QuietStep, ReasonCovers DEF DocumentInv
  <2>2. CASE ~Told(w)
    <3>1. mirror' = mirror /\ \A v \in Writers : ~Told(v) /\ ~Told(v)'
      BY <1>1, <1>2, <2>2, QuietStep, StagesDiffer DEF Told, DecisionInv
    <3>2. NewsUnderWay => NewsUnderWay'
      BY <1>1, <1>2, <3>1, QuietStep, SameNews, StagesDiffer
    <3>3. \A v \in Writers : FreshNews(v)' => FreshNews(v) /\ writing'[v].payload = writing[v].payload
      BY <1>1, <1>2, QuietStep DEF FreshNews
    <3> QED
      BY <1>1, <1>2, <3>1, <3>2, <3>3 DEF DocumentInv, Announced
  <2> QED
    BY <2>1, <2>2
<1>6. HeldInv'
  BY <1>1, <1>2, QuietStep, QuietWriting, HeldMoves
<1> QED
  BY <1>1, <1>2, <1>4, <1>5, <1>6, QuietStep, SameLimits, SameDecisions DEF ScreensInv

(* The counter of a PIN saves what it had read.                            *)
LEMMA SaveMissKeeps ==
    ASSUME ScreensInv, NEW w \in Writers, SaveMiss(w)
    PROVE  ScreensInv'
<1>1. ScreensTypeOK /\ DocumentInv /\ DecisionInv /\ HeldInv /\ LimitsInv /\ DeadlinesKept
  BY DEF ScreensInv
<1>2. /\ writing[w].stage = "missed" /\ \A v \in Writers : ~Deciding(v)
      /\ visit' = writing[w].payload /\ writing' = [writing EXCEPT ![w] = Quiet]
      /\ mirror' = IF _build_payload(visit') = _build_payload(visit) THEN mirror ELSE "excused"
      /\ UNCHANGED <<payment, document, candidate, clock, closed_by>>
  BY DEF SaveMiss, Unlocked
<1>3. visit \in Visit /\ visit' \in Visit /\ visit'.status # "pending"
  BY <1>1, <1>2 DEF HeldInv, Held, Checks, Unsaved
<1>4. \A v \in Writers : ~Told(v) /\ ~Deciding(v)' /\ ~Told(v)'
  BY <1>1, <1>2, QuietStep, StagesDiffer DEF Told
<1>5. ScreensTypeOK'
  BY <1>1, <1>2, <1>3, QuietStep, ScreensTypes DEF ScreensTypeOK, Writing, Causes
<1>6. DocumentInv'
  <2>1. CASE _build_payload(visit') # _build_payload(visit)
    BY <1>2, <1>4, <2>1, ReasonCovers
  <2>2. CASE _build_payload(visit') = _build_payload(visit)
    <3>1. NewsUnderWay => NewsUnderWay'
      BY <1>1, <1>2, <2>2, QuietStep, SameNews
    <3>2. \A v \in Writers : FreshNews(v)' => FreshNews(v) /\ writing'[v].payload = writing[v].payload
      BY <1>1, <1>2, QuietStep DEF FreshNews
    <3> QED
      BY <1>1, <1>2, <1>4, <2>2, <3>1, <3>2 DEF DocumentInv, Announced
  <2> QED
    BY <2>1, <2>2
<1>7. DecisionInv'
  BY <1>4 DEF DecisionInv
<1>8. LimitsInv'
  BY <1>1, <1>2, <1>3, VisitRows DEF LimitsInv, InTime, is_past_missed_deadline
<1>9. HeldInv'
  BY <1>1, <1>2, <1>3, QuietStep, QuietWriting, HeldMoves
<1> QED
  BY <1>1, <1>2, <1>5, <1>6, <1>7, <1>8, <1>9 DEF ScreensInv, DeadlinesKept

(* A task closes the booking and tells nobody.                             *)
LEMMA TaskStep ==
    ASSUME ScreensInv, Unlocked, NEW s \in {"cancelled", "no_show"},
           visit' = [visit EXCEPT !.status = s], visit \in Visit,
           mirror' = "excused", DeadlinesKept',
           candidate' \in {candidate, -1}, UNCHANGED <<payment, document, writing, clock>>
    PROVE  ScreensInv'
<1>1. ScreensTypeOK /\ LimitsInv /\ HeldInv
  BY DEF ScreensInv
<1>2. visit' \in Visit /\ visit'.status = s
  BY VisitRows
<1>3. ScreensTypeOK'
  BY <1>1, <1>2, ScreensTypes DEF ScreensTypeOK, Writing, Causes
<1>4. DocumentInv'
  BY ReasonCovers, StagesDiffer DEF Unlocked, Told
<1>5. DecisionInv'
  BY DEF DecisionInv, Unlocked, Deciding
<1>6. LimitsInv'
  BY <1>1, <1>2, VisitRows DEF LimitsInv, InTime, is_past_missed_deadline
<1>7. HeldInv'
  BY <1>1, <1>2 DEF HeldInv, Held
<1> QED
  BY <1>3, <1>4, <1>5, <1>6, <1>7 DEF ScreensInv

LEMMA LapseKeeps ==
    ASSUME ScreensInv, LapseUnpaid
    PROVE  ScreensInv'
<1>1. ScreensTypeOK /\ LimitsInv
  BY DEF ScreensInv
<1>2. /\ visit.status = "pending" /\ visit.expires_at < clock /\ payment # "paid"
      /\ mirror' = "excused" /\ visit' = [visit EXCEPT !.status = "cancelled"]
      /\ closed_by' = [task |-> "stale", early |-> clock <= with_display_expiry(visit),
                       moved |-> FALSE, unpaid |-> filter_by_payment("unpaid")]
      /\ UNCHANGED <<payment, document, writing, candidate, clock>>
  BY DEF LapseUnpaid, ClosedBy
<1>3. visit \in Visit
  BY <1>1, <1>2, ScreensTypes, VisitRows
<1>4. with_display_expiry(visit) = visit.expires_at /\ filter_by_payment("unpaid")
  BY <1>1, <1>2, ScreensTypes
  DEF with_display_expiry, filter_by_payment, LimitsInv, ActiveStatuses
<1>5. DeadlinesKept'
  <2>1. visit.expires_at \in Nat /\ clock \in Nat
    BY <1>1, <1>3, ScreensTypes, VisitRows
  <2>2. ~(clock <= with_display_expiry(visit))
    BY <1>2, <1>4, <2>1
  <2> QED
    BY <1>2, <1>4, <2>2 DEF DeadlinesKept
<1> QED
  BY <1>2, <1>3, <1>5, TaskStep DEF LapseUnpaid

LEMMA MarkMissedKeeps ==
    ASSUME ScreensInv, mark_missed
    PROVE  ScreensInv'
<1>1. ScreensTypeOK /\ LimitsInv /\ DecisionInv
  BY DEF ScreensInv
<1>2. /\ candidate # -1 /\ candidate' = -1
      /\ mirror' = "excused" /\ visit' = [visit EXCEPT !.status = "no_show"]
      /\ closed_by' = [task |-> "missed", early |-> clock <= with_display_expiry(visit),
                       moved |-> visit.start # candidate, unpaid |-> filter_by_payment("unpaid")]
      /\ UNCHANGED <<payment, document, writing, clock>>
  BY DEF mark_missed, ClosedBy
<1>3. visit \in Visit
  BY <1>1, <1>2, ScreensTypes DEF LimitsInv
<1>4. DeadlinesKept'
  <2>1. CASE visit.start # candidate
    BY <1>2, <2>1 DEF DeadlinesKept
  <2>2. CASE visit.start = candidate
    <3>1. visit.start \in Nat /\ visit.expires_at \in Nat /\ clock \in Nat
      BY <1>1, <1>3, ScreensTypes, VisitRows
    <3>2. /\ clock > visit.start + Grace
          /\ visit.status = "pending" => visit.expires_at <= visit.start + Grace
      BY <1>1, <1>2, <2>2 DEF LimitsInv, InTime
    <3>3. ~(clock <= with_display_expiry(visit))
      BY <3>1, <3>2, ScreensAssumption DEF with_display_expiry
    <3> QED
      BY <1>2, <3>3 DEF DeadlinesKept
  <2> QED
    BY <2>1, <2>2
<1> QED
  BY <1>2, <1>3, <1>4, TaskStep DEF mark_missed

LEMMA ScreensInitHolds == ScreensInit => ScreensInv
<1> SUFFICES ASSUME ScreensInit PROVE ScreensInv
  OBVIOUS
<1>1. ScreensTypeOK
  BY QuietWriting, TypesHold, PayloadRows DEF ScreensInit, Causes
<1>2. \A v \in Writers : ~Told(v) /\ ~FreshNews(v) /\ ~Deciding(v)
  BY QuietWriting DEF ScreensInit, Told, FreshNews, Deciding
<1>3. DocumentInv /\ DecisionInv
  BY <1>2 DEF ScreensInit, DocumentInv, DecisionInv
<1>4. HeldInv
  BY QuietWriting DEF ScreensInit, HeldInv
<1>5. LimitsInv /\ DeadlinesKept
  BY DEF ScreensInit, LimitsInv, DeadlinesKept, InTime, NoVisit, NotClosed
<1> QED
  BY <1>1, <1>3, <1>4, <1>5 DEF ScreensInv

LEMMA ScreensNextKeeps == ScreensInv /\ [ScreensNext]_screenVars => ScreensInv'
<1> SUFFICES ASSUME ScreensInv, [ScreensNext]_screenVars PROVE ScreensInv'
  OBVIOUS
<1>1. CASE UNCHANGED screenVars
  <2>1. ScreensTypeOK'
    BY <1>1 DEF ScreensInv, screenVars, ScreensTypeOK
  <2> QED
    BY <1>1, <2>1, SameDocument, SameLimits DEF ScreensInv, screenVars, HeldInv
<1>2. ASSUME NEW w \in Writers, NEW slot \in Slots, CreateBooking(w, slot) \/ reschedule_slot(w, slot)
      PROVE  ScreensInv'
  BY <1>2, CreateBookingKeeps, RescheduleKeeps
<1>3. ASSUME NEW w \in Writers, NEW status \in ActiveStatuses \cup {"completed", "cancelled", "no_show"},
             Decide(w, status)
      PROVE  ScreensInv'
  BY <1>3, DecideKeeps
<1>4. ASSUME NEW w \in Writers, NEW op \in Checks,
              CheckVisit(w, op)
       PROVE  ScreensInv'
  BY <1>4, CheckVisitKeeps
<1>5. ASSUME NEW w \in Writers,
              \/ LoadVisit(w) \/ SaveVisit(w) \/ SaveMiss(w) \/ mark_on_my_way(w) \/ LeaveVisit(w)
              \/ complete_service(w) \/ issue_completion_pin(w)
       PROVE  ScreensInv'
  BY <1>5, LoadVisitKeeps, SaveVisitKeeps, SaveMissKeeps, OnMyWayVisitKeeps, LeaveVisitKeeps,
     CompleteVisitKeeps, IssueVisitKeeps
<1>6. ASSUME NEW w \in Writers,
             \/ ReadForDocument(w) \/ sync_booking(w) \/ NotSynced(w)
             \/ CommitDecision(w) \/ RollBack(w)
      PROVE  ScreensInv'
  BY <1>6, ReadKeeps, SyncKeeps, NotSyncedKeeps, CommitDecisionKeeps, RollBackKeeps
<1>7. ASSUME NEW w \in Writers, NEW works \in BOOLEAN, SyncDecision(w, works) PROVE ScreensInv'
  BY <1>7, SyncDecisionKeeps
<1>8. ASSUME PaymentMoves \/ LapseUnpaid \/ ReadMissed \/ mark_missed \/ NextHour PROVE ScreensInv'
  BY <1>8, PaymentMovesKeeps, LapseKeeps, ReadMissedKeeps, MarkMissedKeeps, NextHourKeeps
<1> QED
  BY <1>1, <1>2, <1>3, <1>4, <1>5, <1>6, <1>7, <1>8 DEF ScreensNext

(* What either party is answered does not depend on the state at all.      *)
LEMMA ColumnsAreAnswered == ColumnsAnswered
<1> SUFFICES ASSUME NEW for_artist \in BOOLEAN,
                    NEW columns \in SUBSET (MAPS \cup extra_names(TRUE))
             PROVE  AnswerOf(columns, for_artist) =
                       IF columns = {} THEN MAPS \cup extra_names(for_artist)
                       ELSE IF columns \subseteq MAPS \cup extra_names(for_artist) THEN columns ELSE {}
  BY DEF ColumnsAnswered, customer_get_extract, artist_get_extract
<1> DEFINE extra_asked == columns \cap extra_names(for_artist)
           own == IF columns # {} /\ columns \subseteq extra_asked THEN {"bookingId"}
                  ELSE columns \ extra_asked
           data == mapper(own) \cup attach(extra_asked, for_artist)
<1>1. AnswerOf(columns, for_artist) =
        IF ~(own \subseteq MAPS) THEN {} ELSE IF columns = {} THEN data ELSE data \cap columns
  BY DEF AnswerOf, split_columns
<1>2. /\ extra_names(TRUE) = {"travelFee", "platformFee"} /\ MAPS = {"bookingId", "expiresAt"}
      /\ extra_names(for_artist) \subseteq extra_names(TRUE)
      /\ extra_names(for_artist) \cap MAPS = {}
  BY DEF extra_names, MAPS, ARTIST_COLUMNS, CUSTOMER_COLUMNS
<1>3. CASE columns = {}
  <2>1. own = {} /\ extra_asked = {}
    BY <1>3
  <2>2. data = MAPS \cup extra_names(for_artist)
    BY <2>1 DEF mapper, attach
  <2> QED
    BY <1>1, <1>3, <2>1, <2>2
<1>4. CASE columns # {} /\ columns \subseteq extra_names(for_artist)
  <2>1. own = {"bookingId"} /\ extra_asked = columns
    BY <1>4
  <2>2. data \cap columns = columns
    BY <1>2, <1>4, <2>1 DEF mapper, attach
  <2> QED
    BY <1>1, <1>2, <1>4, <2>1, <2>2
<1>5. CASE /\ columns \subseteq MAPS \cup extra_names(for_artist)
           /\ ~(columns \subseteq extra_names(for_artist))
  <2>1. own = columns \ extra_names(for_artist) /\ own # {} /\ own \subseteq MAPS
    BY <1>5
  <2>2. data \cap columns = columns
    BY <1>2, <1>5, <2>1 DEF mapper, attach
  <2> QED
    BY <1>1, <1>5, <2>1, <2>2
<1>6. CASE ~(columns \subseteq MAPS \cup extra_names(for_artist))
  <2>1. own = columns \ extra_names(for_artist) /\ ~(own \subseteq MAPS)
    BY <1>6
  <2> QED
    BY <1>1, <1>6, <2>1
<1> QED
  BY <1>3, <1>4, <1>5, <1>6

LEMMA ScreensGive == ScreensInv => ScreensTrue
<1> SUFFICES ASSUME ScreensInv PROVE MirrorAccounted
  BY ColumnsAreAnswered DEF ScreensTrue, ScreensInv
<1>1. ASSUME \A w \in Writers : writing[w] = Quiet, document # _build_payload(visit)
      PROVE  mirror = "excused"
  <2>1. mirror # "level"
    BY <1>1, QuietWriting DEF ScreensInv, DocumentInv, NewsUnderWay, Announced, Told
  <2> QED
    BY <2>1, ScreensTypes DEF ScreensInv, Causes
<1> QED
  BY <1>1 DEF MirrorAccounted
-----------------------------------------------------------------------------
(* Redemption, action by action. *)

LEMMA RedemptionTypes ==
    ASSUME RedemptionInv
    PROVE  /\ coin_value \in CoinValues /\ coin_value \in Nat \ {0}
           /\ tier \in [Tiers -> TierRow \cup {NoTier}]
           /\ fresh \in Nat /\ lapsed \in Nat /\ fresh + lapsed <= MaxCoins
           /\ due \in Int /\ -Total <= due /\ due <= Total
           /\ open \in Nat /\ open <= Total /\ live \in BOOLEAN
           /\ screen.amount \in Nat /\ screen.amount <= Total
           /\ screen.rows \in SUBSET TierRow
           /\ \A row \in screen.rows : row.value <= screen.amount
           /\ checkout \in Checkout
BY RedemptionAssumption DEF RedemptionInv, RedemptionTypeOK, CheckoutInv

LEMMA TierFields ==
    /\ \A row \in TierRow : /\ row.value \in Nat \ {0} /\ row.cost \in Nat \ {0}
                            /\ row.is_active \in BOOLEAN
    /\ NoTier.value = 0 /\ NoTier.cost = 0 /\ NoTier \notin TierRow
<1>1. \A row \in TierRow : row.value \in Nat \ {0} /\ row.cost \in Nat \ {0} /\ row.is_active \in BOOLEAN
  BY RedemptionAssumption DEF TierRow
<1>2. NoTier.value = 0 /\ NoTier.cost = 0
  BY DEF NoTier
<1> QED
  BY <1>1, <1>2

LEMMA CheckoutFields ==
    ASSUME NEW c \in Checkout
    PROVE  /\ c.stage \in {"none", "created", "refused", "accepted"}
           /\ c.amount \in Nat /\ c.amount <= Total
           /\ c.tier \in TierRow \cup {NoTier}
           /\ c.tier.value \in Nat /\ c.tier.cost \in Nat /\ c.quoted \in BOOLEAN
BY TierFields, RedemptionAssumption DEF Checkout

LEMMA CheckoutEdits ==
    ASSUME NEW c \in Checkout
    PROVE  /\ LET new == [c EXCEPT !.quoted = FALSE] IN
              /\ new \in Checkout /\ new.stage = c.stage /\ new.amount = c.amount
              /\ new.tier = c.tier /\ ~new.quoted
           /\ \A s \in {"refused", "accepted"} :
              LET new == [c EXCEPT !.stage = s] IN
              /\ new \in Checkout /\ new.stage = s /\ new.amount = c.amount
              /\ new.tier = c.tier /\ new.quoted = c.quoted
BY DEF Checkout

LEMMA Blanks ==
    /\ BlankScreen \in [amount : 0..Total, rows : SUBSET TierRow]
    /\ BlankScreen.amount = 0 /\ BlankScreen.rows = {}
    /\ NoCheckout \in Checkout /\ NoCheckout.stage = "none" /\ ~NoCheckout.quoted
BY RedemptionAssumption DEF BlankScreen, NoCheckout, Checkout

(* The tiers, the money and the coins after a step, one group at a time.   *)
TiersInv ==
    /\ coin_value \in CoinValues
    /\ tier \in [Tiers -> TierRow \cup {NoTier}]
    /\ \A t \in Tiers : tier[t] = NoTier \/ PricedTier(tier[t])

MoneyInv ==
    /\ fresh \in Nat /\ lapsed \in Nat /\ fresh + lapsed <= MaxCoins
    /\ due \in -Total..Total /\ open \in 0..Total /\ live \in BOOLEAN

ScreenInv ==
    /\ screen \in [amount : 0..Total, rows : SUBSET TierRow]
    /\ \A row \in screen.rows : row.value <= screen.amount
    /\ checkout.stage # "accepted" => ScreenCurrent

LEMMA RedemptionParts ==
    RedemptionInv <=> TiersInv /\ MoneyInv /\ ScreenInv /\ CheckoutInv /\ OfferHonoured
<1>1. ASSUME RedemptionInv PROVE TiersInv /\ MoneyInv /\ ScreenInv /\ CheckoutInv /\ OfferHonoured
  BY <1>1 DEF RedemptionInv, RedemptionTypeOK, TiersInv, MoneyInv, ScreenInv
<1>2. ASSUME TiersInv, MoneyInv, ScreenInv, CheckoutInv, OfferHonoured PROVE RedemptionInv
  <2>1. \A t \in Tiers : tier[t] = NoTier \/ tier[t] \in TierRow
    BY <1>2 DEF TiersInv
  <2>2. screen.amount \in 0..Total /\ \A row \in screen.rows : row \in TierRow /\ row.value <= screen.amount
    BY <1>2 DEF ScreenInv
  <2>3. checkout.stage \in {"none", "created", "refused", "accepted"}
    BY <1>2, CheckoutFields DEF CheckoutInv
  <2> QED
    BY <1>2, <2>1, <2>2, <2>3 DEF RedemptionInv, RedemptionTypeOK, TiersInv, MoneyInv, ScreenInv
<1> QED
  BY <1>1, <1>2

LEMMA NatSum == ASSUME NEW m \in Nat, NEW n \in Nat PROVE m + n \in Nat /\ m >= 0
OBVIOUS

LEMMA RedemptionPartsNext ==
    RedemptionInv' <=> TiersInv' /\ MoneyInv' /\ ScreenInv' /\ CheckoutInv' /\ OfferHonoured'
BY RedemptionParts, PTL

(* A screen and a checkout that are left: nothing is promised any more.    *)
LEMMA LeaveKeeps == ASSUME Leave PROVE ScreenInv' /\ CheckoutInv' /\ OfferHonoured'
<1>1. screen' = BlankScreen /\ checkout' = NoCheckout
  BY DEF Leave
<1>2. ScreenInv'
  BY <1>1, Blanks DEF ScreenInv, ScreenCurrent
<1>3. CheckoutInv' /\ OfferHonoured'
  BY <1>1, Blanks DEF CheckoutInv, OfferHonoured
<1> QED
  BY <1>2, <1>3

(* What the screen was computed from has changed.                          *)
LEMMA MovedKeeps ==
    ASSUME RedemptionInv, Moved, ~Answered, open' = open \/ open' = 0, open' \in Nat,
           due' = due \/ due' \in Nat, due' \in Int
    PROVE  ScreenInv' /\ CheckoutInv' /\ OfferHonoured'
<1>1. /\ checkout \in Checkout /\ screen' = BlankScreen
      /\ checkout' = [checkout EXCEPT !.quoted = FALSE]
      /\ checkout.stage \in {"none", "created"}
  BY RedemptionTypes, CheckoutFields DEF Moved, Answered
<1>2. /\ checkout' \in Checkout /\ checkout'.stage = checkout.stage /\ checkout'.tier = checkout.tier
      /\ checkout'.amount = checkout.amount /\ ~checkout'.quoted
  BY <1>1, CheckoutEdits
<1>3. ScreenInv'
  BY <1>1, Blanks DEF ScreenInv, ScreenCurrent
<1>4. ASSUME checkout'.stage = "created"
      PROVE  /\ checkout'.tier.value <= checkout'.amount /\ PricedTier(checkout'.tier)
             /\ open' + charge_amount' <= Total /\ due' >= 0
  <2>1. /\ checkout.tier.value <= checkout.amount /\ PricedTier(checkout.tier)
        /\ open + charge_amount <= Total /\ due >= 0
    BY <1>2, <1>4 DEF RedemptionInv, CheckoutInv
  <2>2. charge_amount' = charge_amount /\ charge_amount \in Int
    BY <1>1, <1>2, CheckoutFields DEF charge_amount
  <2> QED
    <3>1. open \in Nat /\ Total \in Nat /\ due \in Int
      BY RedemptionTypes, RedemptionAssumption
    <3>2. 0 + charge_amount <= Total
      BY <2>1, <2>2, <3>1
    <3>3. due' >= 0
      BY <2>1, NatSum
    <3> QED
      BY <1>2, <2>1, <2>2, <3>2, <3>3
<1>5. CheckoutInv' /\ OfferHonoured'
  BY <1>1, <1>2, <1>4 DEF CheckoutInv, OfferHonoured
<1> QED
  BY <1>3, <1>5

(* Steps beside an open checkout that take nothing from what it needs.     *)
LEMMA BesideKeeps ==
    ASSUME RedemptionInv, ~Answered, UNCHANGED <<screen, checkout, due>>,
           fresh \in Nat, fresh' \in Nat, lapsed' \in Nat,
           fresh + lapsed <= fresh' + lapsed', open' \in Nat,
           checkout.stage = "created" => open' + charge_amount <= Total
    PROVE  ScreenInv' /\ CheckoutInv' /\ OfferHonoured'
<1>1. ScreenInv /\ CheckoutInv /\ checkout.stage \in {"none", "created"}
  BY RedemptionParts, CheckoutFields DEF Answered, CheckoutInv
<1>2. balance_coins \in Nat /\ balance_coins' \in Nat /\ balance_coins <= balance_coins'
  <2>1. lapsed \in Nat
    BY RedemptionTypes
  <2>2. balance_coins = fresh + lapsed /\ balance_coins' = fresh' + lapsed'
    BY DEF balance_coins
  <2> QED
    BY <2>1, <2>2, NatSum
<1>3. ScreenInv'
  <2>1. ScreenCurrent
    BY <1>1 DEF ScreenInv
  <2>2. ScreenCurrent'
    <3> SUFFICES ASSUME NEW row \in screen.rows
                 PROVE  row.is_active /\ row.cost <= balance_coins' /\ screen.amount <= due
      BY DEF ScreenCurrent
    <3>1. row.is_active /\ row.cost <= balance_coins /\ screen.amount <= due /\ row.cost \in Nat
      BY <2>1, RedemptionTypes, TierFields DEF ScreenCurrent
    <3> QED
      BY <1>2, <3>1
  <2> QED
    BY <1>1, <2>2 DEF ScreenInv
<1>4. CheckoutInv'
  <2>1. charge_amount' = charge_amount
    BY DEF charge_amount
  <2>2. checkout.tier.cost \in Nat
    BY <1>1, CheckoutFields DEF CheckoutInv
  <2> QED
    BY <1>1, <1>2, <2>1, <2>2 DEF CheckoutInv
<1>5. OfferHonoured'
  BY <1>1 DEF OfferHonoured
<1> QED
  BY <1>3, <1>4, <1>5

LEMMA SetCoinValueKeeps ==
    ASSUME RedemptionInv, ~Answered, NEW v \in CoinValues, SetCoinValue(v)
    PROVE  RedemptionInv'
<1>1. TiersInv /\ MoneyInv
  BY RedemptionParts
<1>2. TiersInv' /\ MoneyInv'
  BY <1>1 DEF SetCoinValue, TiersInv, MoneyInv
<1>3. checkout.stage = "created" => open + charge_amount <= Total
  BY DEF RedemptionInv, CheckoutInv
<1>4. ScreenInv' /\ CheckoutInv' /\ OfferHonoured'
  BY <1>3, RedemptionTypes, BesideKeeps DEF SetCoinValue
<1> QED
  BY <1>2, <1>4, RedemptionPartsNext

(* The cost of a tier is its value at the coin value in force.             *)
LEMMA SaveTierKeeps ==
    ASSUME RedemptionInv, ~Answered, NEW t \in Tiers, NEW value \in TierValues,
           NEW active \in BOOLEAN, SaveTier(t, value, active)
    PROVE  RedemptionInv'
<1>1. TiersInv /\ MoneyInv /\ coin_value \in Nat \ {0} /\ value \in Nat \ {0}
  BY RedemptionParts, RedemptionTypes, RedemptionAssumption
<1>2. PICK cost \in _resolve_coin_cost(value) :
          tier' = [tier EXCEPT ![t] = [value |-> value, cost |-> cost, is_active |-> active]]
  BY DEF SaveTier
<1>3. Moved /\ UNCHANGED <<coin_value, fresh, lapsed, due, open, live>>
  BY DEF SaveTier
<1> DEFINE row == [value |-> value, cost |-> cost, is_active |-> active]
<1>4. cost \in Nat \ {0} /\ cost * coin_value = value
  BY <1>1 DEF _resolve_coin_cost
<1>5. PricedTier(row)
  BY <1>1, <1>4 DEF PricedTier, TierRow, TiersInv
<1> HIDE DEF row
<1>6. tier' = [tier EXCEPT ![t] = row]
  BY <1>2 DEF row
<1>7. TiersInv'
  BY <1>1, <1>3, <1>5, <1>6 DEF TiersInv, PricedTier
<1>8. MoneyInv'
  BY <1>1, <1>3 DEF MoneyInv
<1>9. ScreenInv' /\ CheckoutInv' /\ OfferHonoured'
  BY <1>3, MovedKeeps, RedemptionTypes
<1> QED
  BY <1>7, <1>8, <1>9, RedemptionPartsNext

LEMMA EligibleTiersKeeps ==
    ASSUME RedemptionInv, NEW amount \in Amounts, EligibleTiers(amount)
    PROVE  RedemptionInv'
<1>1. TiersInv /\ MoneyInv /\ CheckoutInv /\ OfferHonoured
  BY RedemptionParts
<1>2. /\ checkout = NoCheckout /\ amount <= due
      /\ screen' = [amount |-> amount, rows |-> Eligible(amount)]
      /\ UNCHANGED <<coin_value, tier, fresh, lapsed, due, open, live, checkout>>
  BY DEF EligibleTiers
<1>3. amount \in 0..Total /\ amount \in Nat
  BY RedemptionAssumption
<1>4. \A row \in Eligible(amount) : /\ row \in TierRow /\ row.is_active /\ row.value <= amount
                                    /\ row.cost <= balance_coins
  BY <1>1, TierFields DEF Eligible, TiersInv, NoTier, PricedTier
<1>5. screen'.amount = amount /\ screen'.rows = Eligible(amount)
      /\ screen' \in [amount : 0..Total, rows : SUBSET TierRow]
  BY <1>2, <1>3, <1>4
<1>6. ScreenInv'
  BY <1>2, <1>4, <1>5 DEF ScreenInv, ScreenCurrent, balance_coins
<1>7. TiersInv' /\ MoneyInv'
  BY <1>1, <1>2 DEF TiersInv, MoneyInv
<1>8. CheckoutInv'
  BY <1>2, Blanks DEF CheckoutInv
<1>9. OfferHonoured'
  BY <1>2, Blanks DEF OfferHonoured
<1> QED
  BY <1>6, <1>7, <1>8, <1>9, RedemptionPartsNext

(* A tier of a current screen is turned down only for the booking's or the *)
(* other orders' sake.                                                     *)
LEMMA InitiateKeeps ==
    ASSUME RedemptionInv, NEW amount \in Amounts, NEW t \in Tiers, Initiate(amount, t)
    PROVE  RedemptionInv'
<1> DEFINE stage == IF Accepted_by_checks(amount, t) THEN "created" ELSE "refused"
           quoted == screen.amount = amount /\ tier[t] \in screen.rows
<1>1. TiersInv /\ MoneyInv /\ ScreenInv
  BY RedemptionParts
<1>2. /\ checkout = NoCheckout /\ tier[t] # NoTier
      /\ checkout' = [stage |-> stage, amount |-> amount, tier |-> tier[t], quoted |-> quoted]
      /\ UNCHANGED <<coin_value, tier, fresh, lapsed, due, open, live, screen>>
  BY DEF Initiate
<1>3. amount \in 0..Total /\ amount \in Nat /\ PricedTier(tier[t]) /\ tier[t] \in TierRow
      /\ stage \in {"created", "refused"} /\ quoted \in BOOLEAN
  BY <1>1, <1>2, RedemptionAssumption DEF TiersInv, PricedTier
<1>4. /\ stage = "created" => live /\ amount <= due /\ open + amount <= due /\ tier[t].value <= amount
      /\ stage = "refused" => \/ ~live \/ amount > due \/ open + amount > due
                              \/ ~tier[t].is_active \/ tier[t].value > amount
  <2>1. committed = open
    BY <1>2, Blanks, RedemptionTypes DEF committed
  <2> QED
    BY <1>1, <1>3, <2>1, RedemptionTypes, TierFields DEF Accepted_by_checks
<1>5. quoted => /\ tier[t].is_active /\ tier[t].cost <= balance_coins /\ amount <= due
                /\ tier[t].value <= amount
  BY <1>1, <1>2, Blanks DEF ScreenInv, ScreenCurrent
<1> HIDE DEF stage, quoted
<1>6. /\ checkout'.stage = stage /\ checkout'.amount = amount /\ checkout'.tier = tier[t]
      /\ checkout'.quoted = quoted /\ checkout' \in Checkout
  BY <1>2, <1>3 DEF Checkout
<1>7. TiersInv' /\ MoneyInv'
  BY <1>1, <1>2 DEF TiersInv, MoneyInv
<1>8. ScreenInv'
  <2>1. ScreenCurrent
    BY <1>1, <1>2, Blanks DEF ScreenInv
  <2> QED
    BY <1>1, <1>2, <2>1 DEF ScreenInv, ScreenCurrent, balance_coins
<1>9. stage = "created" => open + (amount - tier[t].value) <= Total /\ due >= 0
  BY <1>3, <1>4, RedemptionTypes, TierFields, RedemptionAssumption
<1>10. CheckoutInv'
  <2>1. charge_amount' = amount - tier[t].value /\ balance_coins' = balance_coins
    BY <1>2, <1>6 DEF charge_amount, balance_coins
  <2> QED
    BY <1>2, <1>3, <1>4, <1>5, <1>6, <1>9, <2>1 DEF CheckoutInv
<1>11. OfferHonoured'
  <2>1. stage = "refused" /\ quoted => ~live \/ open > 0
    BY <1>3, <1>4, <1>5, RedemptionTypes, TierFields
  <2> QED
    BY <1>2, <1>3, <1>6, <2>1 DEF OfferHonoured
<1> QED
  BY <1>7, <1>8, <1>10, <1>11, RedemptionPartsNext

(* The only refusal left at the debit is of coins that have lapsed.        *)
LEMMA DebitKeeps ==
    ASSUME RedemptionInv, Debit
    PROVE  RedemptionInv'
<1> DEFINE cost == checkout.tier.cost
<1>1. TiersInv /\ MoneyInv /\ ScreenInv /\ CheckoutInv
  BY RedemptionParts
<1>2. checkout.stage = "created" /\ UNCHANGED <<coin_value, tier, lapsed, live, screen>>
  BY DEF Debit
<1>3. /\ checkout \in Checkout /\ PricedTier(checkout.tier)
      /\ checkout.tier.value <= checkout.amount
      /\ open + charge_amount <= Total /\ due >= 0
      /\ checkout.quoted => checkout.tier.cost <= balance_coins
  BY <1>1, <1>2 DEF CheckoutInv
<1>4. cost \in Nat /\ checkout.amount \in Nat /\ checkout.amount <= Total
      /\ charge_amount \in Nat /\ balance_coins = fresh + lapsed
  BY <1>3, CheckoutFields DEF charge_amount, balance_coins
<1>5. CASE balance_coins >= cost /\ fresh >= cost
  <2>1. /\ checkout' = [checkout EXCEPT !.stage = "accepted"] /\ fresh' = fresh - cost
        /\ IF charge_amount = 0 THEN due' = due - checkout.amount /\ UNCHANGED open
           ELSE open' = open + charge_amount /\ UNCHANGED due
    BY <1>5 DEF Debit
  <2>2. /\ checkout' \in Checkout /\ checkout'.stage = "accepted" /\ checkout'.tier = checkout.tier
    BY <1>3, <2>1, CheckoutEdits
  <2>3. fresh' \in Nat /\ fresh' <= fresh
    BY <1>1, <1>4, <1>5, <2>1, RedemptionTypes
  <2>4. due' \in -Total..Total /\ open' \in 0..Total
    BY <1>3, <1>4, <2>1, RedemptionTypes, RedemptionAssumption
  <2>5. TiersInv' /\ MoneyInv'
    BY <1>1, <1>2, <2>3, <2>4, RedemptionTypes, RedemptionAssumption DEF TiersInv, MoneyInv
  <2>6. ScreenInv'
    BY <1>1, <1>2, <2>2 DEF ScreenInv
  <2>7. CheckoutInv'
    BY <1>3, <2>2 DEF CheckoutInv, PricedTier
  <2>8. OfferHonoured'
    BY <1>3, <2>2 DEF OfferHonoured, PricedTier
  <2> QED
    BY <2>5, <2>6, <2>7, <2>8, RedemptionPartsNext
<1>6. CASE ~(balance_coins >= cost /\ fresh >= cost)
  <2>1. /\ checkout' = [checkout EXCEPT !.stage = "refused"] /\ UNCHANGED <<fresh, due, open>>
    BY <1>6 DEF Debit
  <2>2. /\ checkout' \in Checkout /\ checkout'.stage = "refused" /\ checkout'.quoted = checkout.quoted
    BY <1>3, <2>1, CheckoutEdits
  <2>3. TiersInv' /\ MoneyInv' /\ CheckoutInv'
    BY <1>1, <1>2, <2>1, <2>2 DEF TiersInv, MoneyInv, CheckoutInv
  <2>4. ScreenInv'
    BY <1>1, <1>2, <2>1, <2>2 DEF ScreenInv, ScreenCurrent, balance_coins
  <2>5. OfferHonoured'
    <3>1. checkout.quoted => lapsed > 0
      BY <1>3, <1>4, <1>6, RedemptionTypes
    <3> QED
      BY <1>2, <2>1, <2>2, <3>1 DEF OfferHonoured
  <2> QED
    BY <2>3, <2>4, <2>5, RedemptionPartsNext
<1> QED
  BY <1>5, <1>6

LEMMA LeavingKeeps ==
    ASSUME RedemptionInv, Done \/ GatewayRefuses
    PROVE  RedemptionInv'
<1>1. TiersInv /\ MoneyInv
  BY RedemptionParts
<1>2. Leave /\ UNCHANGED <<coin_value, tier, fresh, lapsed, due, open, live>>
  BY DEF Done, GatewayRefuses
<1>3. TiersInv' /\ MoneyInv'
  BY <1>1, <1>2 DEF TiersInv, MoneyInv
<1> QED
  BY <1>2, <1>3, LeaveKeeps, RedemptionPartsNext

LEMMA OrdersKeep ==
    ASSUME RedemptionInv, ~Answered,
           \/ \E amount \in Amounts : OtherOrder(amount)
           \/ OrdersLapse \/ BookingEnds
    PROVE  RedemptionInv'
<1>1. TiersInv /\ MoneyInv
  BY RedemptionParts
<1>2. UNCHANGED <<coin_value, tier, fresh, lapsed, due, screen, checkout>> /\ live' \in BOOLEAN
  BY RedemptionTypes DEF OtherOrder, OrdersLapse, BookingEnds
<1>3. checkout.stage = "created" => open + charge_amount <= Total /\ charge_amount \in Int
  BY RedemptionTypes, CheckoutFields DEF RedemptionInv, CheckoutInv, charge_amount
<1>4. /\ open' \in 0..Total /\ open' \in Nat
      /\ checkout.stage = "created" => open' + charge_amount <= Total
  <2>1. ASSUME NEW amount \in Amounts, OtherOrder(amount)
        PROVE  /\ open' \in 0..Total /\ open' \in Nat
               /\ checkout.stage = "created" => open' + charge_amount <= Total
    <3>1. amount \in Nat /\ open' = open + amount /\ committed + amount <= due
      BY <2>1, RedemptionAssumption DEF OtherOrder
    <3>2. CASE checkout.stage = "created"
      <4>1. /\ checkout.tier.value <= checkout.amount
            /\ checkout.tier.value \in Nat /\ checkout.amount \in Nat
        BY <3>2, RedemptionTypes, CheckoutFields DEF RedemptionInv, CheckoutInv
      <4>2. charge_amount \in Nat
        BY <4>1 DEF charge_amount
      <4>3. committed = open + charge_amount
        BY <3>2 DEF committed
      <4> QED
        BY <3>1, <4>2, <4>3, RedemptionTypes, RedemptionAssumption
    <3>3. CASE checkout.stage # "created"
      <4>1. committed = open
        BY <3>3, RedemptionTypes DEF committed
      <4> QED
        BY <3>1, <3>3, <4>1, RedemptionTypes, RedemptionAssumption
    <3> QED
      BY <3>2, <3>3
  <2>2. CASE OrdersLapse
    BY <1>3, <2>2, RedemptionTypes, RedemptionAssumption DEF OrdersLapse
  <2>3. CASE BookingEnds
    BY <1>3, <2>3, RedemptionTypes DEF BookingEnds
  <2> QED
    BY <2>1, <2>2, <2>3
<1>5. TiersInv' /\ MoneyInv'
  BY <1>1, <1>2, <1>4 DEF TiersInv, MoneyInv
<1>6. ScreenInv' /\ CheckoutInv' /\ OfferHonoured'
  BY <1>2, <1>4, RedemptionTypes, BesideKeeps
<1> QED
  BY <1>5, <1>6, RedemptionPartsNext

LEMMA CoinsComeKeeps ==
    ASSUME RedemptionInv, ~Answered, CoinsEarned \/ CoinsLapse
    PROVE  RedemptionInv'
<1>1. TiersInv /\ MoneyInv
  BY RedemptionParts
<1>2. UNCHANGED <<coin_value, tier, due, open, live, screen, checkout>>
  BY DEF CoinsEarned, CoinsLapse
<1>3. /\ fresh' \in Nat /\ lapsed' \in Nat /\ fresh' + lapsed' <= MaxCoins
      /\ fresh + lapsed <= fresh' + lapsed'
  BY RedemptionTypes, RedemptionAssumption DEF CoinsEarned, CoinsLapse, balance_coins
<1>4. checkout.stage = "created" => open + charge_amount <= Total
  BY DEF RedemptionInv, CheckoutInv
<1>5. TiersInv' /\ MoneyInv'
  BY <1>1, <1>2, <1>3 DEF TiersInv, MoneyInv
<1>6. ScreenInv' /\ CheckoutInv' /\ OfferHonoured'
  BY <1>2, <1>3, <1>4, RedemptionTypes, BesideKeeps
<1> QED
  BY <1>5, <1>6, RedemptionPartsNext

LEMMA MovingKeeps ==
    ASSUME RedemptionInv, ~Answered,
           \/ \E amount \in Amounts : OrdersPaid(amount)
           \/ CoinsSpent \/ CoinsSwept
    PROVE  RedemptionInv'
<1>1. TiersInv /\ MoneyInv
  BY RedemptionParts
<1>2. UNCHANGED <<coin_value, tier, live>> /\ Moved
  BY DEF OrdersPaid, CoinsSpent, CoinsSwept
<1>3. /\ fresh' \in Nat /\ lapsed' \in Nat /\ fresh' + lapsed' <= MaxCoins
  BY RedemptionTypes, RedemptionAssumption DEF OrdersPaid, CoinsSpent, CoinsSwept
<1>4. /\ open' \in 0..Total /\ open' \in Nat /\ (open' = open \/ open' = 0)
      /\ due' \in -Total..Total /\ due' \in Int /\ (due' = due \/ due' \in Nat)
  BY RedemptionTypes, RedemptionAssumption DEF OrdersPaid, CoinsSpent, CoinsSwept
<1>5. TiersInv' /\ MoneyInv'
  BY <1>1, <1>2, <1>3, <1>4 DEF TiersInv, MoneyInv
<1>6. ScreenInv' /\ CheckoutInv' /\ OfferHonoured'
  BY <1>2, <1>4, MovedKeeps
<1> QED
  BY <1>5, <1>6, RedemptionPartsNext

LEMMA RedemptionInitHolds == RedemptionInit => RedemptionInv
<1> SUFFICES ASSUME RedemptionInit PROVE RedemptionInv
  OBVIOUS
<1>1. TiersInv
  BY DEF RedemptionInit, TiersInv
<1>2. MoneyInv
  BY RedemptionAssumption DEF RedemptionInit, MoneyInv
<1>3. ScreenInv /\ CheckoutInv /\ OfferHonoured
  BY Blanks DEF RedemptionInit, ScreenInv, ScreenCurrent, CheckoutInv, OfferHonoured
<1> QED
  BY <1>1, <1>2, <1>3, RedemptionParts

LEMMA RedemptionNextKeeps == RedemptionInv /\ [RedemptionNext]_redemptionVars => RedemptionInv'
<1> SUFFICES ASSUME RedemptionInv, [RedemptionNext]_redemptionVars PROVE RedemptionInv'
  OBVIOUS
<1>1. CASE UNCHANGED redemptionVars
  <2>1. TiersInv' /\ MoneyInv' /\ ScreenInv' /\ CheckoutInv' /\ OfferHonoured'
    BY <1>1, RedemptionParts
    DEF redemptionVars, TiersInv, MoneyInv, ScreenInv, ScreenCurrent, CheckoutInv, OfferHonoured,
        PricedTier, charge_amount, balance_coins
  <2> QED
    BY <2>1, RedemptionPartsNext
<1>2. CASE Done
  BY <1>2, LeavingKeeps
<1>3. ASSUME ~Answered, NEW v \in CoinValues, SetCoinValue(v) PROVE RedemptionInv'
  BY <1>3, SetCoinValueKeeps
<1>4. ASSUME ~Answered, NEW t \in Tiers, NEW value \in TierValues, NEW active \in BOOLEAN,
             SaveTier(t, value, active)
      PROVE  RedemptionInv'
  BY <1>4, SaveTierKeeps
<1>5. ASSUME ~Answered, NEW amount \in Amounts,
             EligibleTiers(amount) \/ OtherOrder(amount) \/ (\E t \in Tiers : Initiate(amount, t))
      PROVE  RedemptionInv'
  BY <1>5, EligibleTiersKeeps, OrdersKeep, InitiateKeeps
<1>6. ASSUME ~Answered,
             \/ GatewayRefuses \/ Debit \/ OrdersLapse \/ BookingEnds
             \/ \E amount \in Amounts : OrdersPaid(amount)
             \/ CoinsEarned \/ CoinsSpent \/ CoinsLapse \/ CoinsSwept
      PROVE  RedemptionInv'
  BY <1>6, LeavingKeeps, DebitKeeps, OrdersKeep, MovingKeeps, CoinsComeKeeps
<1> QED
  BY <1>1, <1>2, <1>3, <1>4, <1>5, <1>6 DEF RedemptionNext
-----------------------------------------------------------------------------
(* SlotRules: the types of the rows, and what the screen makes of them.    *)

LEMMA SlotTypes ==
    ASSUME SlotsInv
    PROVE  /\ hours \subseteq Hours /\ blocks \subseteq BlockRanges /\ margins \in Buffer
           /\ appointment \in [Appointments -> Appointment]
           /\ \A a \in Appointments : /\ appointment[a] \in Appointment
                                      /\ appointment[a].from <= appointment[a].to
BY DEF SlotsInv, SlotRulesTypeOK

LEMMA BufferFields ==
    /\ \A b \in Buffer : b.before \in Nat /\ b.after \in Nat
    /\ NoBuffer \in Buffer /\ NoBuffer.before = 0 /\ NoBuffer.after = 0
<1>1. \A b \in Buffer : b.before \in Nat /\ b.after \in Nat
  <2>1. Margins \cup {0} \subseteq Nat
    BY SlotRulesAssumption
  <2> QED
    BY <2>1 DEF Buffer
<1>2. NoBuffer \in Buffer /\ NoBuffer.before = 0 /\ NoBuffer.after = 0
  BY DEF Buffer, NoBuffer
<1> QED
  BY <1>1, <1>2

LEMMA AppointmentFields ==
    ASSUME NEW a \in Appointment
    PROVE  /\ a.active \in BOOLEAN /\ a.buffer \in Buffer
           /\ a.from \in Int /\ 0 <= a.from /\ a.from <= DayEnd
           /\ a.to \in Int /\ 0 <= a.to /\ a.to <= DayEnd
BY SlotRulesAssumption DEF Appointment, Times

LEMMA BlockFields ==
    ASSUME NEW b \in BlockRanges
    PROVE  b.from \in Int /\ b.to \in Int /\ b.whole \in BOOLEAN /\ (b.whole <=> b = WholeDay)
<1>1. CASE b = WholeDay
  BY <1>1, SlotRulesAssumption DEF WholeDay
<1>2. CASE b \in [whole : {FALSE}, from : Times, to : Times]
  <2>1. b.whole = FALSE /\ b.from \in Times /\ b.to \in Times
    BY <1>2
  <2>2. b # WholeDay
    BY <2>1 DEF WholeDay
  <2>3. b.from \in Int /\ b.to \in Int
    BY <2>1, SlotRulesAssumption DEF Times
  <2>4. b.whole \in BOOLEAN /\ (b.whole <=> b = WholeDay)
    BY <2>1, <2>2
  <2> QED
    BY <2>3, <2>4
<1> QED
  BY <1>1, <1>2 DEF BlockRanges

LEMMA SlotFields ==
    ASSUME NEW length \in Nat, NEW slot \in SlotsOf(length)
    PROVE  /\ slot.from \in Times /\ slot.to \in Times
           /\ slot.from \in Nat /\ slot.to = slot.from + length /\ slot.to <= DayEnd
BY SlotRulesAssumption DEF SlotsOf, Times

(* The screen clamps the window of an appointment to the day; a slot of    *)
(* the day meets the clamped window exactly if it meets the real one.      *)
LEMMA EarlyClampHarmless ==
    ASSUME NEW time \in 0..DayEnd, NEW before \in Nat, NEW end \in Int, 0 < end
    PROVE  Shift(time, -before) < end <=> time - before < end
<1>1. Shift(time, -before) = IF time - before < 0 THEN 0 ELSE time - before
  BY SlotRulesAssumption DEF Shift
<1> QED
  BY <1>1, SlotRulesAssumption

LEMMA LateClampHarmless ==
    ASSUME NEW time \in 0..DayEnd, NEW after \in Nat, NEW begin \in Int, begin < DayEnd
    PROVE  Shift(time, after) > begin <=> time + after > begin
<1>1. Shift(time, after) = IF time + after > DayEnd THEN DayEnd ELSE time + after
  BY SlotRulesAssumption DEF Shift
<1> QED
  BY <1>1, SlotRulesAssumption

LEMMA AppointmentOnScreen ==
    ASSUME NEW a \in Appointment, NEW length \in Nat \ {0}, NEW slot \in SlotsOf(length),
           NEW buffer \in Buffer
    PROVE  Overlap([from |-> Shift(a.from, -a.buffer.before), to |-> Shift(a.to, a.buffer.after)],
                   Window(slot, buffer))
           <=> Overlap(Window(a, a.buffer), Window(slot, buffer))
<1> DEFINE wf == slot.from - buffer.before
           wt == slot.to + buffer.after
<1>1. /\ a.from \in 0..DayEnd /\ a.to \in 0..DayEnd
      /\ a.buffer.before \in Nat /\ a.buffer.after \in Nat
  BY AppointmentFields, BufferFields, SlotRulesAssumption
<1>2. /\ slot.from \in 0..DayEnd /\ slot.to \in 0..DayEnd /\ slot.from < slot.to
      /\ buffer.before \in Nat /\ buffer.after \in Nat
  BY SlotFields, BufferFields, SlotRulesAssumption DEF Times
<1>3. wf \in Int /\ wf < DayEnd /\ wt \in Int /\ 0 < wt
  BY <1>2, SlotRulesAssumption
<1>4. Window(slot, buffer) = [from |-> wf, to |-> wt]
  BY DEF Window
<1> HIDE DEF wf, wt
<1>5. Shift(a.from, -a.buffer.before) < wt <=> a.from - a.buffer.before < wt
  BY <1>1, <1>3, EarlyClampHarmless
<1>6. Shift(a.to, a.buffer.after) > wf <=> a.to + a.buffer.after > wf
  BY <1>1, <1>3, LateClampHarmless
<1> QED
  BY <1>4, <1>5, <1>6 DEF Overlap, Window

LEMMA AvailabilityIsHonest == SlotsInv => AvailabilityHonest
<1> SUFFICES ASSUME SlotsInv, NEW length \in Lengths, NEW home \in BOOLEAN, NEW slot \in SlotsOf(length)
             PROVE  FreeOnScreen(slot, home) <=> validate_slot(slot, buffers_for(home), {})
  BY DEF AvailabilityHonest
<1> DEFINE buffer == buffers_for(home)
           window == Window(slot, buffer)
           clamped(a) == [from |-> Shift(appointment[a].from, -appointment[a].buffer.before),
                          to |-> Shift(appointment[a].to, appointment[a].buffer.after)]
           real(a) == Window(appointment[a], appointment[a].buffer)
           ranges == get_blocked_ranges \cup {[from |-> b.from, to |-> b.to] : b \in blocks \ {WholeDay}}
<1>1. buffer \in Buffer /\ length \in Nat \ {0}
  BY SlotTypes, BufferFields, SlotRulesAssumption DEF buffers_for
<1>2. FreeOnScreen(slot, home) <=>
        /\ WholeDay \notin blocks /\ InHours(slot)
        /\ \A r \in ranges : ~Overlap(r, window)
  BY DEF FreeOnScreen, Availability, buffers_for, InHours
<1>3. (\A r \in ranges : ~Overlap(r, window)) <=>
        /\ \A a \in Active : ~Overlap(clamped(a), window)
        /\ \A b \in blocks \ {WholeDay} : ~Overlap([from |-> b.from, to |-> b.to], window)
  <2> HIDE DEF window
  <2> QED
    BY DEF get_blocked_ranges
<1>4. \A a \in Active : Overlap(clamped(a), window) <=> Overlap(real(a), window)
  <2> SUFFICES ASSUME NEW a \in Active PROVE Overlap(clamped(a), window) <=> Overlap(real(a), window)
    OBVIOUS
  <2>1. appointment[a] \in Appointment
    BY SlotTypes DEF Active
  <2> QED
    BY <1>1, <2>1, AppointmentOnScreen
<1>5. Unblocked(slot, buffer) <=>
        /\ WholeDay \notin blocks
        /\ \A b \in blocks \ {WholeDay} : ~Overlap([from |-> b.from, to |-> b.to], window)
  <2>1. \A b \in blocks : b.whole <=> b = WholeDay
    BY SlotTypes, BlockFields
  <2>2. \A b : Overlap([from |-> b.from, to |-> b.to], window) <=> Overlap(b, window)
    BY DEF Overlap
  <2>3. Unblocked(slot, buffer) <=> \A b \in blocks : ~b.whole /\ ~Overlap(b, window)
    BY DEF Unblocked
  <2> HIDE DEF window, buffer
  <2> QED
    BY <2>1, <2>2, <2>3
<1>6. validate_slot(slot, buffer, {}) <=>
        /\ Unblocked(slot, buffer) /\ InHours(slot)
        /\ \A a \in Active : ~Overlap(real(a), window)
  BY DEF validate_slot
<1> HIDE DEF buffer, window, clamped, real, ranges
<1>7. FreeOnScreen(slot, home) <=> validate_slot(slot, buffer, {})
  BY <1>2, <1>3, <1>4, <1>5, <1>6
<1> QED
  BY <1>7 DEF buffer

(* One row of Booking is written.                                          *)
LEMMA AppointmentStep ==
    ASSUME SlotsInv, NEW a \in Appointments, NEW row \in Appointment, row.from <= row.to,
           appointment' = [appointment EXCEPT ![a] = row], UNCHANGED <<hours, blocks, margins>>
    PROVE  SlotsInv'
BY DEF SlotsInv, SlotRulesTypeOK

LEMMA SlotsNextKeeps == SlotsInv /\ [SlotRulesNext]_slotVars => SlotsInv'
<1> SUFFICES ASSUME SlotsInv, [SlotRulesNext]_slotVars PROVE SlotsInv'
  OBVIOUS
<1>1. CASE UNCHANGED slotVars
  BY <1>1 DEF slotVars, SlotsInv, SlotRulesTypeOK
<1>2. ASSUME NEW h \in Hours, SetSchedule(h) PROVE SlotsInv'
  <2>1. Cardinality({h}) = 1
    BY FS_Singleton
  <2> QED
    BY <1>2, <2>1 DEF SetSchedule, SlotsInv, SlotRulesTypeOK
<1>3. CASE RemoveSchedule
  <2>1. Cardinality({}) = 0
    BY FS_EmptySet
  <2> QED
    BY <1>3, <2>1 DEF RemoveSchedule, SlotsInv, SlotRulesTypeOK
<1>4. ASSUME NEW range \in BlockRanges, AddBlock(range) PROVE SlotsInv'
  BY <1>4 DEF AddBlock, SlotsInv, SlotRulesTypeOK
<1>5. CASE RemoveBlocks
  <2>1. Cardinality({}) = 0
    BY FS_EmptySet
  <2> QED
    BY <1>5, <2>1, SlotRulesAssumption DEF RemoveBlocks, SlotsInv, SlotRulesTypeOK
<1>6. ASSUME NEW buffer \in Buffer, SetMargins(buffer) PROVE SlotsInv'
  BY <1>6 DEF SetMargins, SlotsInv, SlotRulesTypeOK
<1>7. ASSUME NEW a \in Appointments, NEW length \in Lengths, NEW home \in BOOLEAN,
             NEW slot \in SlotsOf(length), Book(a, slot, home)
      PROVE  SlotsInv'
  <2> DEFINE row == [active |-> TRUE, from |-> slot.from, to |-> slot.to, buffer |-> buffers_for(home)]
  <2>1. slot.from \in Times /\ slot.to \in Times /\ slot.from <= slot.to
    BY SlotFields, SlotRulesAssumption
  <2>2. row \in Appointment /\ row.from <= row.to
    BY <2>1, SlotTypes, BufferFields DEF Appointment, buffers_for
  <2> QED
    BY <1>7, <2>2, AppointmentStep DEF Book
<1>8. ASSUME NEW a \in Appointments, NEW slot \in SlotsOf(appointment[a].to - appointment[a].from),
             Move(a, slot)
      PROVE  SlotsInv'
  <2> DEFINE old == appointment[a]
             row == [old EXCEPT !.from = slot.from, !.to = slot.to]
  <2>1. old \in Appointment /\ old.to - old.from \in Nat
    BY SlotTypes, AppointmentFields
  <2>2. slot.from \in Times /\ slot.to \in Times /\ slot.from <= slot.to
    BY <2>1, SlotFields, SlotRulesAssumption
  <2>3. row \in Appointment /\ row.from <= row.to
    <3> HIDE DEF old
    <3> QED
      BY <2>1, <2>2 DEF Appointment
  <2>4. appointment' = [appointment EXCEPT ![a] = row] /\ UNCHANGED <<hours, blocks, margins>>
    BY <1>8, SlotTypes DEF Move
  <2> HIDE DEF old, row
  <2> QED
    BY <2>3, <2>4, AppointmentStep
<1>9. ASSUME NEW a \in Appointments, Release(a) PROVE SlotsInv'
  <2>1. NoAppointment \in Appointment /\ NoAppointment.from <= NoAppointment.to
    BY BufferFields, SlotRulesAssumption DEF NoAppointment, Appointment, Times
  <2> QED
    BY <1>9, <2>1, AppointmentStep DEF Release
<1> QED
  BY <1>1, <1>2, <1>3, <1>4, <1>5, <1>6, <1>7, <1>8, <1>9 DEF SlotRulesNext

LEMMA SlotsInitHolds == SlotRulesInit => SlotsInv
<1> SUFFICES ASSUME SlotRulesInit PROVE SlotsInv
  OBVIOUS
<1>1. NoAppointment \in Appointment /\ NoAppointment.from <= NoAppointment.to
  BY BufferFields, SlotRulesAssumption DEF NoAppointment, Appointment, Times
<1>2. Cardinality({}) = 0
  BY FS_EmptySet
<1> QED
  BY <1>1, <1>2, BufferFields, SlotRulesAssumption DEF SlotRulesInit, SlotsInv, SlotRulesTypeOK
-----------------------------------------------------------------------------
(* Storefront: the types of the rows, and what the pages make of them.     *)

LEMMA StoreTypes ==
    ASSUME StorefrontTypeOK
    PROVE  /\ approved \in BOOLEAN /\ accepting \in BOOLEAN /\ visits \subseteq VisitPlaces
           /\ offer \in [Offers -> OfferRow] /\ extra \in [Extras -> ExtraRow]
           /\ coverage \in [Cities -> AreaRow]
           /\ DOMAIN offer = Offers /\ DOMAIN extra = Extras /\ DOMAIN coverage = Cities
           /\ \A p \in Offers : offer[p].price \in Nat
<1>1. Prices \cup {0} \subseteq Nat
  BY StorefrontAssumption
<1>2. \A p \in Offers : offer[p].price \in Nat
  BY <1>1 DEF StorefrontTypeOK, OfferRow
<1> QED
  BY <1>2 DEF StorefrontTypeOK

LEMMA NoRows == NoOffer \in OfferRow /\ NoExtra \in ExtraRow /\ NoArea \in AreaRow
BY DEF NoOffer, OfferRow, NoExtra, ExtraRow, NoArea, AreaRow

(* A non-empty set of prices has a least one.                              *)
LEMMA LeastPrice ==
    ASSUME NEW S \in SUBSET Nat, S # {}
    PROVE  Min(S) \in S /\ \A n \in S : Min(S) <= n
<1>1. \E m \in S : \A n \in S : m <= n
  <2>1. PICK s \in S : TRUE
    OBVIOUS
  <2> DEFINE B == {0..m : m \in {n \in S : n <= s}}
             I == 0..s
  <2>2. IsFiniteSet(I)
    BY FS_Interval
  <2>3. B \in SUBSET SUBSET I /\ B # {}
    BY <2>1
  <2>4. PICK T \in B : \A U \in B : ~(U \subseteq T /\ U # T)
    <3> HIDE DEF B, I
    <3> QED
      BY <2>2, <2>3, MinimalSubset
  <2>5. PICK m \in S : m <= s /\ T = 0..m
    BY <2>4
  <2>6. ASSUME NEW n \in S, n < m PROVE FALSE
    <3>1. 0..n \in B
      BY <2>1, <2>5, <2>6
    <3>2. 0..n \subseteq 0..m /\ m \in 0..m /\ m \notin 0..n
      BY <2>5, <2>6
    <3> QED
      BY <2>4, <2>5, <3>1, <3>2
  <2> QED
    BY <2>5, <2>6
<1> QED
  BY <1>1 DEF Min

LEMMA OrderIsOffered ==
    ASSUME StorefrontTypeOK, NEW order \in Orders
    PROVE  create_extract(order) <=> ExpectedOffer(DetailPage, order)
<1>1. /\ order.package \in Offers /\ order.addons \in SUBSET Extras /\ order.city \in Cities \cup {NoCity}
  BY DEF Orders
<1>2. /\ DetailPage.shown = approved /\ DetailPage.isAcceptingBookings = accepting
      /\ DOMAIN DetailPage.packages = On(offer)
      /\ DOMAIN DetailPage.addOns = On(extra)
      /\ \A a \in On(extra) : DetailPage.addOns[a] = extra[a].packages
      /\ DOMAIN DetailPage.serviceAreas = On(coverage)
  BY DEF DetailPage
<1>3. order.package \in On(offer) <=> offer[order.package].stored /\ offer[order.package].is_active
  BY <1>1, StoreTypes DEF On
<1>4. AddOnsFit(order) <=>
        \A a \in order.addons : a \in DOMAIN DetailPage.addOns /\ order.package \in DetailPage.addOns[a]
  BY <1>2 DEF AddOnsFit
<1>5. (TravelApplies(order) => order.city # NoCity /\ find_for_city(order.city) # {}) <=>
        (order.location = "Home Visit" /\ On(coverage) # {} => order.city \in On(coverage))
  <2>1. On(coverage) \subseteq Cities
    BY StoreTypes DEF On
  <2> QED
    BY <2>1, StorefrontAssumption DEF TravelApplies, has_active, find_for_city
<1> QED
  BY <1>2, <1>3, <1>4, <1>5 DEF create_extract, ExpectedOffer, get_all_locations

LEMMA OrderIsPriced ==
    ASSUME StorefrontTypeOK, NEW order \in Orders, create_extract(order)
    PROVE  /\ total_amount(order) = ExpectedPrice(DetailPage, order)
           /\ Found /\ order.package \in DOMAIN PublicPage.packages
<1>1. order.package \in Offers /\ order.package \in On(offer)
  BY StoreTypes DEF Orders, create_extract, On
<1>2. DetailPage.packages[order.package] = offer[order.package].price
  BY <1>1 DEF DetailPage
<1>3. /\ DOMAIN DetailPage.serviceAreas = On(coverage)
      /\ \A c \in On(coverage) : DetailPage.serviceAreas[c] = coverage[c].type
  BY DEF DetailPage
<1>4. travel_fee(order) =
        IF order.location = "Home Visit" /\ order.city \in DOMAIN DetailPage.serviceAreas
           /\ DetailPage.serviceAreas[order.city] = "per_visit" THEN VisitCharge ELSE 0
  <2>1. TravelApplies(order) <=> order.location = "Home Visit" /\ order.city \in On(coverage)
    BY DEF create_extract, TravelApplies, has_active, find_for_city
  <2> QED
    BY <1>3, <2>1 DEF travel_fee
<1>5. total_amount(order) = ExpectedPrice(DetailPage, order)
  BY <1>2, <1>4 DEF total_amount, ExpectedPrice
<1>6. Found /\ DOMAIN PublicPage.packages = On(offer)
  BY <1>1 DEF Found, create_extract, PublicPage
<1> QED
  BY <1>1, <1>5, <1>6

LEMMA PageIsTrue == StorefrontTypeOK => PageMatchesOrder
<1> SUFFICES ASSUME StorefrontTypeOK PROVE PageMatchesOrder
  OBVIOUS
<1>1. /\ PublicPage.shown = approved /\ PublicPage.isAcceptingBookings = accepting
      /\ DOMAIN PublicPage.packages = On(offer) /\ DOMAIN DetailPage.packages = On(offer)
      /\ \A p \in On(offer) : /\ PublicPage.packages[p] = offer[p].price
                              /\ DetailPage.packages[p] = offer[p].price
  BY DEF PublicPage, DetailPage
<1>2. Found <=> PublicPage.shown /\ PublicPage.isAcceptingBookings /\ DOMAIN PublicPage.packages # {}
  BY <1>1 DEF Found
<1>3. ASSUME Found
      PROVE  \E p \in DOMAIN DetailPage.packages :
                /\ starting_price = DetailPage.packages[p]
                /\ \A q \in DOMAIN PublicPage.packages : starting_price <= PublicPage.packages[q]
  <2> DEFINE prices == {offer[p].price : p \in On(offer)}
  <2>1. prices \in SUBSET Nat /\ prices # {}
    BY <1>3, StoreTypes DEF Found, On
  <2>2. starting_price = Min(prices)
    BY DEF starting_price
  <2>3. starting_price \in prices /\ \A n \in prices : starting_price <= n
    <3> HIDE DEF prices
    <3> QED
      BY <2>1, <2>2, LeastPrice
  <2> QED
    BY <1>1, <2>3
<1> QED
  BY <1>2, <1>3, OrderIsOffered, OrderIsPriced DEF PageMatchesOrder

LEMMA StoreNextKeeps == StorefrontTypeOK /\ [StorefrontNext]_storeVars => StorefrontTypeOK'
<1> SUFFICES ASSUME StorefrontTypeOK, [StorefrontNext]_storeVars PROVE StorefrontTypeOK'
  OBVIOUS
<1>1. CASE UNCHANGED storeVars
  BY <1>1 DEF storeVars, StorefrontTypeOK
<1>2. ASSUME NEW on \in BOOLEAN, SetApproval(on) \/ set_accepting_bookings(on) PROVE StorefrontTypeOK'
  BY <1>2 DEF SetApproval, set_accepting_bookings, StorefrontTypeOK
<1>3. ASSUME NEW p \in Offers, RemovePackage(p) PROVE StorefrontTypeOK'
  <2>1. \A a \in Extras : [extra[a] EXCEPT !.packages = @ \ {p}] \in ExtraRow
    BY StoreTypes DEF ExtraRow
  <2>2. extra' \in [Extras -> ExtraRow] /\ offer' \in [Offers -> OfferRow]
    BY <1>3, <2>1, StoreTypes, NoRows DEF RemovePackage
  <2> QED
    BY <1>3, <2>2 DEF RemovePackage, StorefrontTypeOK
<1>4. ASSUME NEW p \in Offers, NEW b \in BOOLEAN, NEW n \in Prices, SavePackage(p, b, n)
      PROVE  StorefrontTypeOK'
  <2>1. [stored |-> TRUE, is_active |-> b, price |-> n] \in OfferRow
    BY DEF OfferRow
  <2> QED
    BY <1>4, <2>1 DEF SavePackage, StorefrontTypeOK
<1>5. ASSUME NEW a \in Extras, RemoveAddOn(a) PROVE StorefrontTypeOK'
  BY <1>5, NoRows DEF RemoveAddOn, StorefrontTypeOK
<1>6. ASSUME NEW a \in Extras, NEW b \in BOOLEAN, NEW ps \in SUBSET Offers, SaveAddOnRow(a, b, ps)
      PROVE  StorefrontTypeOK'
  <2>1. [stored |-> TRUE, is_active |-> b, packages |-> ps] \in ExtraRow
    BY DEF ExtraRow
  <2> QED
    BY <1>6, <2>1 DEF SaveAddOnRow, StorefrontTypeOK
<1>7. ASSUME NEW c \in Cities, RemoveServiceArea(c) PROVE StorefrontTypeOK'
  BY <1>7, NoRows DEF RemoveServiceArea, StorefrontTypeOK
<1>8. ASSUME NEW c \in Cities, NEW b \in BOOLEAN, NEW t \in {"free", "per_visit"},
             SaveServiceArea(c, b, t)
      PROVE  StorefrontTypeOK'
  <2>1. [stored |-> TRUE, is_active |-> b, type |-> t] \in AreaRow
    BY DEF AreaRow
  <2> QED
    BY <1>8, <2>1 DEF SaveServiceArea, StorefrontTypeOK
<1>9. ASSUME NEW l \in VisitPlaces, AddLocation(l) \/ RemoveLocation(l) PROVE StorefrontTypeOK'
  BY <1>9 DEF AddLocation, RemoveLocation, StorefrontTypeOK
<1> QED
  BY <1>1, <1>2, <1>3, <1>4, <1>5, <1>6, <1>7, <1>8, <1>9 DEF StorefrontNext

LEMMA StoreInitHolds == StorefrontInit => StorefrontTypeOK
BY NoRows DEF StorefrontInit, StorefrontTypeOK
-----------------------------------------------------------------------------
(* The five together.  A step of the service is a step of one part and     *)
(* leaves the others as they are.                                          *)

LEMMA StepOfEach ==
    [ServiceNext]_serviceVars =>
        /\ [Next]_vars /\ [ScreensNext]_screenVars /\ [RedemptionNext]_redemptionVars
        /\ [SlotRulesNext]_slotVars /\ [StorefrontNext]_storeVars
<1>1. CASE UNCHANGED serviceVars
  BY <1>1 DEF serviceVars
<1>2. CASE ServiceNext
  BY <1>2 DEF ServiceNext, Rest
<1> QED
  BY <1>1, <1>2

LEMMA ServiceInitHolds == ServiceInit => ServiceInv
BY LifeInit, ScreensInitHolds, RedemptionInitHolds, SlotsInitHolds, StoreInitHolds
DEF ServiceInit, ServiceInv

LEMMA ServiceStep == ServiceInv /\ [ServiceNext]_serviceVars => ServiceInv'
BY StepOfEach, LifeNext, ScreensNextKeeps, RedemptionNextKeeps, SlotsNextKeeps, StoreNextKeeps
DEF ServiceInv

(* The inductive invariant of the service, one conjunct for each part.     *)
THEOREM ServiceInvariance == ServiceSpec => []ServiceInv
BY ServiceInitHolds, ServiceStep, PTL DEF ServiceSpec

(* BookingService.views and models: no order of requests, tasks and        *)
(* administrators takes a row, page, screen or handler of the five out of  *)
(* its type, pays a booking's cashback twice or shows a PIN nobody earned. *)
THEOREM ServiceIsSound == ServiceSpec => []ServiceSound
<1>1. ServiceInv => ServiceSound
  BY LifeGives DEF ServiceInv, ServiceSound, ScreensInv, RedemptionInv, SlotsInv
<1> QED
  BY <1>1, ServiceInvariance, PTL

(* The booking's row never shows more progress than the artist's arrival   *)
(* and the two PINs have proved, although handlers save stale rows whole.  *)
THEOREM ProgressIsWitnessed == ServiceSpec => []ProgressWitnessed
<1>1. ServiceInv => ProgressWitnessed
  BY LifeGives DEF ServiceInv
<1> QED
  BY <1>1, ServiceInvariance, PTL

(* complete_service: cashback is credited by the step that takes the       *)
(* service from in_progress to completed, and by no other.                 *)
THEOREM CashbackEarned == ServiceSpec => CashbackOnlyOnCompletion
<1>1. ServiceInv /\ [ServiceNext]_serviceVars =>
        [cashback' # cashback => booking.status = "in_progress" /\ booking'.status = "completed"]_vars
  BY StepOfEach, CashbackStep DEF ServiceInv
<1> QED
  BY <1>1, ServiceInvariance, PTL DEF ServiceSpec, CashbackOnlyOnCompletion

(* sync_booking, with_display_expiry and split_columns: the document is    *)
(* the row unless a reason is on record, no task closes a booking before   *)
(* the deadline on display, and both parties get the columns they ask for. *)
THEOREM ScreensAreTrue == ServiceSpec => []ScreensTrue
<1>1. ServiceInv => ScreensTrue
  BY ScreensGive DEF ServiceInv
<1> QED
  BY <1>1, ServiceInvariance, PTL

(* EligibleTiersView against InitiatePaymentView: a tier of a current      *)
(* screen is refused only for the reasons the property names, and is paid  *)
(* at a price it was saved with.                                           *)
THEOREM OffersAreHonoured == ServiceSpec => []OfferHonoured
<1>1. ServiceInv => OfferHonoured
  BY DEF ServiceInv, RedemptionInv
<1> QED
  BY <1>1, ServiceInvariance, PTL

(* CheckAvailabilityView against validate_slot: the slots shown as free    *)
(* are exactly those an order would be given.                              *)
THEOREM FreeSlotsAreFree == ServiceSpec => []AvailabilityHonest
<1>1. ServiceInv => AvailabilityHonest
  BY AvailabilityIsHonest DEF ServiceInv
<1> QED
  BY <1>1, ServiceInvariance, PTL

(* CreateBookingView.create_extract against the artist's pages and the     *)
(* search: what is offered there is what can be ordered, at that price.    *)
THEOREM PagesAreTrue == ServiceSpec => []PageMatchesOrder
<1>1. ServiceInv => PageMatchesOrder
  BY PageIsTrue DEF ServiceInv
<1> QED
  BY <1>1, ServiceInvariance, PTL
=============================================================================
