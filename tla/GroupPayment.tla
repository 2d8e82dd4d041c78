---------------------------- MODULE GroupPayment ----------------------------
(***************************************************************************)
(* One checkout for several bookings.  A PaymentOrder groups one payment   *)
(* per booking under one order at the gateway, and verification marks the  *)
(* order and all its payments together.  Its transactions take row locks   *)
(* one after another: verification the payments, then the bookings, then   *)
(* the order; a failure the order, then the payments; a cancellation the   *)
(* booking, then its payments.  The database ends a cycle of waits by      *)
(* aborting one of the transactions in it.                                 *)
(***************************************************************************)
EXTENDS Integers, Sequences, FiniteSets, Functions

CONSTANTS
    Bookings,   \* bookings of one customer
    Price,      \* total_amount of each booking, in rupees
    Orders,     \* PaymentOrder rows the table may hold
    Requests,   \* handler activations that can be in flight
    Tiers       \* rupee_value of the redemption tiers; 0 is a checkout without coins

ASSUME GroupAssumption ==
    /\ Price \in [Bookings -> Nat \ {0}] /\ Tiers \subseteq Nat
    /\ IsFiniteSet(Orders)
    /\ Bookings \cap (Orders \cup (Orders \X Bookings)) = {}  \* rows of different tables

VARIABLES
    booking,    \* status of each booking
    order,      \* PaymentOrder rows, each with the status and amount of its payments
    gateway,    \* gateway[o]: whether the order was captured, and what was returned of it
    req         \* the handlers in flight

vars == <<booking, order, gateway, req>>
-----------------------------------------------------------------------------
Live == {"pending", "confirmed"}
Statuses == {"none", "pending", "paid", "failed", "refunded"}

Lists == UNION {[1..n -> Bookings] : n \in 2..Cardinality(Bookings)}

(* A booking named twice is refused.                                       *)
Unrepeated(s) == IsInjective(s)

(* share[b] is the payment of booking b; coins are redeemed on that of the *)
(* first booking of the list.                                              *)
Share == [status : Statuses, amount : Nat]
NoShare == [status |-> "none", amount |-> 0]
PaymentOrder == [status : Statuses, list : Seq(Bookings), share : [Bookings -> Share],
                 tier : Tiers \cup {0}, known : BOOLEAN, debited : BOOLEAN]
NoOrder == [status |-> "none", list |-> <<>>, share |-> [b \in Bookings |-> NoShare],
            tier |-> 0, known |-> FALSE, debited |-> FALSE]

(* What a transaction locks: bookings, orders, and payments <<o, b>>.      *)
Payments == Orders \X Bookings
Rows == Bookings \cup Orders \cup Payments
Request == [op : {"none", "initiate", "verify", "fail", "cancel"},
            pc : {"idle", "create", "place", "lock", "refund"},
            list : Seq(Bookings), due : [Bookings -> Nat], tier : Tiers \cup {0},
            order : SUBSET Orders,
            todo : Seq(Rows),            \* rows still to be locked, in this order
            held : SUBSET Rows,
            listed : SUBSET Payments]    \* paid payments the cancellation found
Idle == [op |-> "none", pc |-> "idle", list |-> <<>>, due |-> [b \in Bookings |-> 0],
         tier |-> 0, order |-> {}, todo |-> <<>>, held |-> {}, listed |-> {}]

Finish(r) == req' = [req EXCEPT ![r] = Idle]
Free(x, r) == \A q \in Requests \ {r} : x \notin req[q].held
PaymentRows(o) == [i \in DOMAIN order[o].list |-> <<o, order[o].list[i]>>]

PaidOrders(b) == {o \in Orders : order[o].share[b].status = "paid"}
CashOf(b)     == [o \in Orders |-> order[o].share[b].amount]
Redeemed(b)   == [o \in Orders |-> IF order[o].debited /\ Head(order[o].list) = b
                                   THEN order[o].tier ELSE 0]
total_paid(b)    == SumFunctionOnSet(CashOf(b), PaidOrders(b))
total_settled(b) == total_paid(b) + SumFunctionOnSet(Redeemed(b), PaidOrders(b))

WithStatus(o, s) ==        \* the order and every payment under it
    [order EXCEPT ![o].status = s,
                  ![o].share = [b \in Bookings |-> IF b \in Range(order[o].list)
                                                   THEN [@[b] EXCEPT !.status = s] ELSE @[b]]]
-----------------------------------------------------------------------------
(* Checkout: initiate_group_extract checks every booking of the list, then *)
(* creates the order and its payments in one transaction.                  *)

due(b) == Price[b] - total_settled(b)

InitiateRead(r, list, tier) ==
    /\ req[r] = Idle /\ Unrepeated(list)
    /\ \A b \in Range(list) : booking[b] \in Live /\ due(b) > 0
    /\ req' = [req EXCEPT ![r] = [Idle EXCEPT !.op = "initiate", !.pc = "create", !.list = list,
                  !.tier = tier, !.due = [b \in Bookings |-> IF b \in Range(list) THEN due(b) ELSE 0]]]
    /\ UNCHANGED <<booking, order, gateway>>

TierFits(r) == req[r].tier <= req[r].due[Head(req[r].list)]

charge_amount(r, b) == req[r].due[b] - (IF b = Head(req[r].list) THEN req[r].tier ELSE 0)

CreateOrder(r, o) ==
    /\ req[r].pc = "create" /\ order[o].status = "none"
    /\ IF TierFits(r)
       THEN /\ order' = [order EXCEPT ![o] = [NoOrder EXCEPT !.status = "pending",
                  !.list = req[r].list, !.tier = req[r].tier,
                  !.share = [b \in Bookings |->
                      IF b \in Range(req[r].list)
                      THEN [status |-> "pending", amount |-> charge_amount(r, b)] ELSE NoShare]]]
            /\ req' = [req EXCEPT ![r].pc = "place", ![r].order = {o}]
       ELSE Finish(r) /\ UNCHANGED order
    /\ UNCHANGED <<booking, gateway>>

(* The gateway is asked for an order, then the coins are debited.  Nobody  *)
(* else works on the order before the app has learned it from the answer.  *)
PlaceOrder(r) == \E o \in req[r].order :
    /\ req[r].pc = "place"
    /\ \/ order' = [order EXCEPT ![o].known = TRUE, ![o].debited = (req[r].tier > 0)]
       \/ order' = WithStatus(o, "failed")   \* the gateway refuses, or the wallet does
    /\ Finish(r)
    /\ UNCHANGED <<booking, gateway>>

Capture(o) ==              \* the customer pays the order at the gateway
    /\ order[o].known /\ ~gateway[o].captured
    /\ gateway' = [gateway EXCEPT ![o].captured = TRUE]
    /\ UNCHANGED <<booking, order, req>>
-----------------------------------------------------------------------------
(* Verification: _verify_group. *)

(* A payment the gateway has returned in full is no longer "captured".     *)
Captured(o) == gateway[o].captured /\ ~(Range(order[o].list) \subseteq gateway[o].returned)

FailureLocks(o) == <<o>> \o PaymentRows(o)

(* The status of the order is read once, and the gateway is asked.         *)
VerifyRead(r, o) ==
    /\ req[r] = Idle
    /\ order[o].known /\ order[o].status \in {"pending", "failed"}
    /\ req' = [req EXCEPT ![r] = [Idle EXCEPT !.pc = "lock", !.order = {o},
                  !.op = IF Captured(o) THEN "verify" ELSE "fail",
                  !.todo = IF Captured(o) THEN PaymentRows(o) \o order[o].list \o <<o>>
                                          ELSE FailureLocks(o)]]
    /\ UNCHANGED <<booking, order, gateway>>

(* Mutant: no booking is held against its total.                           *)
FitsAlways(o, b) == TRUE

Fits(o, b) == total_settled(b) + order[o].share[b].amount <= Price[b]

(* The next row; the lock on a booking is followed by the check of its     *)
(* total, and a payment too many ends the transaction in mark_failed.      *)
LockNext(r) ==
    /\ req[r].pc = "lock" /\ req[r].todo # <<>>
    /\ LET x == Head(req[r].todo) IN
       /\ Free(x, r)
       /\ IF req[r].op = "verify" /\ x \in Bookings /\ \E o \in req[r].order : ~Fits(o, x)
          THEN \E o \in req[r].order :
               req' = [req EXCEPT ![r].op = "fail", ![r].held = {}, ![r].todo = FailureLocks(o)]
          ELSE req' = [req EXCEPT ![r].held = @ \cup {x}, ![r].todo = Tail(@)]
    /\ UNCHANGED <<booking, order, gateway>>

mark_paid(r) == \E o \in req[r].order :
    /\ req[r].op = "verify" /\ req[r].pc = "lock" /\ req[r].todo = <<>>
    /\ order' = WithStatus(o, "paid")
    /\ Finish(r)
    /\ UNCHANGED <<booking, gateway>>

(* Mutant: the failure is written to the order and not to its payments.    *)
FailedOrderOnly(o) == [order EXCEPT ![o].status = "failed"]

FailedOrder(o) == WithStatus(o, "failed")

mark_failed(r) == \E o \in req[r].order :
    /\ req[r].op = "fail" /\ req[r].todo = <<>>
    /\ order' = FailedOrder(o)
    /\ Finish(r)
    /\ UNCHANGED <<booking, gateway>>
-----------------------------------------------------------------------------
(* The artist cancels one booking of a group: one transaction that returns *)
(* its share of every paid order.                                          *)
CancelBegin(r, b) ==
    /\ req[r] = Idle /\ booking[b] \in Live
    /\ req' = [req EXCEPT ![r] = [Idle EXCEPT !.op = "cancel", !.pc = "lock",
                                              !.list = <<b>>, !.todo = <<b>>]]
    /\ UNCHANGED <<booking, order, gateway>>

CancelList(r) ==
    /\ req[r].op = "cancel" /\ req[r].pc = "lock" /\ req[r].todo = <<>>
    /\ LET b == Head(req[r].list) IN
       IF booking[b] \in Live
       THEN req' = [req EXCEPT ![r].pc = "refund", ![r].listed = PaidOrders(b) \X {b}]
       ELSE Finish(r)
    /\ UNCHANGED <<booking, order, gateway>>

(* Mutant: a refund the gateway refused is recorded like any other.        *)
RecordableAlways(answer) == TRUE

Recordable(answer) == answer = "returned"

Answers(p) == IF order[p[1]].share[p[2]].amount = 0 THEN {"returned"} ELSE {"returned", "refused"}

(* The gateway is asked first; the payment's row is then updated.          *)
RefundShare(r) ==
    /\ req[r].pc = "refund" /\ req[r].todo = <<>>
    /\ \E p \in req[r].listed : \E answer \in Answers(p) :
          /\ p \notin req[r].held
          /\ gateway' = IF answer = "returned"
                        THEN [gateway EXCEPT ![p[1]].returned = @ \cup {p[2]}] ELSE gateway
          /\ req' = IF Recordable(answer) THEN [req EXCEPT ![r].todo = <<p>>]
                                          ELSE [req EXCEPT ![r].listed = @ \ {p}]
    /\ UNCHANGED <<booking, order>>

LockShare(r) ==
    /\ req[r].pc = "refund" /\ req[r].todo # <<>>
    /\ Free(Head(req[r].todo), r)
    /\ req' = [req EXCEPT ![r].held = @ \cup {Head(req[r].todo)}, ![r].todo = <<>>]
    /\ UNCHANGED <<booking, order, gateway>>

CancelCommit(r) ==
    /\ req[r].pc = "refund" /\ req[r].todo = <<>> /\ req[r].listed \subseteq req[r].held
    /\ booking' = [booking EXCEPT ![Head(req[r].list)] = "cancelled"]
    /\ order' = [o \in Orders |-> [order[o] EXCEPT !.share =
                    [b \in Bookings |-> IF <<o, b>> \in req[r].listed
                                        THEN [@[b] EXCEPT !.status = "refunded"] ELSE @[b]]]]
    /\ Finish(r)
    /\ UNCHANGED gateway

Waits(p, q) == p # q /\ req[p].todo # <<>> /\ Head(req[p].todo) \in req[q].held

DeadlockVictim(r) ==       \* the transaction is rolled back and the call answers with an error
    /\ \E q \in Requests : Waits(r, q) /\ Waits(q, r)
    /\ Finish(r)
    /\ UNCHANGED <<booking, order, gateway>>
-----------------------------------------------------------------------------
Init == /\ booking = [b \in Bookings |-> "pending"]
        /\ order = [o \in Orders |-> NoOrder]
        /\ gateway = [o \in Orders |-> [captured |-> FALSE, returned |-> {}]]
        /\ req = [r \in Requests |-> Idle]

HandlerStep(r) ==
    \/ PlaceOrder(r) \/ mark_paid(r) \/ mark_failed(r)
    \/ CancelList(r) \/ RefundShare(r) \/ CancelCommit(r) \/ DeadlockVictim(r)
    \/ LockNext(r) \/ LockShare(r)

Next == \/ \E r \in Requests :
              \/ HandlerStep(r)
              \/ \E list \in Lists, tier \in Tiers : InitiateRead(r, list, tier)
              \/ \E o \in Orders : CreateOrder(r, o) \/ VerifyRead(r, o)
              \/ \E b \in Bookings : CancelBegin(r, b)
        \/ \E o \in Orders : Capture(o)

Spec == Init /\ [][Next]_vars

-----------------------------------------------------------------------------
TypeOK == /\ booking \in [Bookings -> Live \cup {"cancelled"}]
          /\ order \in [Orders -> PaymentOrder]
          /\ gateway \in [Orders -> [captured : BOOLEAN, returned : SUBSET Bookings]]
          /\ req \in [Requests -> Request]

(* Each booking's paid cash stays within its price, though several group   *)
(* orders for the same bookings are open and verified at once.             *)
CashWithinPrice == \A b \in Bookings : total_paid(b) <= Price[b]

(* Orders that overlap keep their columns and their money in bounds.       *)
GroupSound == TypeOK /\ CashWithinPrice

(* PaymentOrder.mark_paid: a group checkout is all or nothing.  A payment  *)
(* is paid only under a paid order, and a paid order has no payment that   *)
(* is neither paid nor returned since.                                     *)
PaidTogether ==
    \A o \in Orders : \A b \in Range(order[o].list) :
        /\ order[o].share[b].status = "paid" => order[o].status = "paid"
        /\ order[o].status = "paid" => order[o].share[b].status \in {"paid", "refunded"}

(* A share is recorded as refunded only if the gateway returned it.        *)
ShareRefundTrue ==
    \A o \in Orders, b \in Bookings :
        order[o].share[b].status = "refunded" /\ order[o].share[b].amount > 0
            => b \in gateway[o].returned
=============================================================================
