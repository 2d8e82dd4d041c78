------------------------- MODULE PaymentSettlement -------------------------
(***************************************************************************)
(* The payments of one booking: checkout with and without redeemed coins,  *)
(* the verification call that replaces a webhook, the cancellations that   *)
(* return cash and coins, and the sweep of unpaid bookings.  The gateway   *)
(* keeps its own record of what it captured and returned, which a handler  *)
(* changes by a call that no database transaction can undo.                *)
(***************************************************************************)
EXTENDS Integers, FiniteSets, Functions

CONSTANTS
    Payments,   \* Payment rows the table may hold
    Requests,   \* handler activations that can be in flight
    Total,      \* total_amount of the booking, in rupees
    Tiers,      \* rupee_value of the redemption tiers; 0 is a checkout without coins
    MayFail,    \* whether workers die and the gateway refuses
    NoRequest

ASSUME SettlementAssumption ==
    /\ Total \in Nat \ {0} /\ Tiers \subseteq 0..Total /\ MayFail \in BOOLEAN
    /\ NoRequest \notin Requests /\ IsFiniteSet(Payments)

VARIABLES
    booking,    \* the booking's status
    lock,       \* holder of the booking's row lock across several steps
    payment,    \* the payments table, with the REDEMPTION row of each payment
    gateway,    \* what the gateway did with the money of each payment's order
    req         \* the handlers in flight

vars == <<booking, lock, payment, gateway, req>>
-----------------------------------------------------------------------------
Live == {"pending", "confirmed"}
(* cash is Payment.amount, tier the rupees its redemption stands for; the  *)
(* coins are debited or not, and returned so many times.                   *)
Row == [status : {"none", "pending", "paid", "failed", "refunded"},
        cash : 0..Total, tier : 0..Total, recent : BOOLEAN,
        placed : BOOLEAN, known : BOOLEAN, debited : BOOLEAN, returned : Nat]
NoRow == [status |-> "none", cash |-> 0, tier |-> 0, recent |-> FALSE,
          placed |-> FALSE, known |-> FALSE, debited |-> FALSE, returned |-> 0]

Request == [op : {"none", "initiate", "verify", "customer", "artist", "sweep", "retry"},
            pc : {"idle", "create", "order", "debit", "settle", "fetch", "mark", "fail",
                  "cancel", "list", "refund", "record", "coins", "reverse", "commit"},
            amount : 0..Total, tier : Tiers \cup {0},
            todo : SUBSET Payments,       \* rows still to be handled
            cur  : SUBSET Payments,       \* the row whose refund the gateway has accepted
            done : SUBSET Payments,       \* rows this transaction has marked refunded
            back : SUBSET Payments]       \* redemptions this transaction has reversed
Idle == [op |-> "none", pc |-> "idle", amount |-> 0, tier |-> 0,
         todo |-> {}, cur |-> {}, done |-> {}, back |-> {}]

Finish(r) == req' = [req EXCEPT ![r] = Idle]
Goto(r, pc) == req' = [req EXCEPT ![r].pc = pc]
Unlocked == lock = NoRequest
PaymentFree(p)    == \A r \in Requests : p \notin req[r].done
RedemptionFree(p) == \A r \in Requests : p \notin req[r].back

WithStatus(s) == {p \in Payments : payment[p].status = s}
CashOf == [p \in Payments |-> payment[p].cash]
TierOf == [p \in Payments |-> payment[p].tier]

(* A redemption counts as soon as its payment is paid, returned or not.    *)
total_paid    == SumFunctionOnSet(CashOf, WithStatus("paid"))
total_settled == total_paid + SumFunctionOnSet(TierOf, {p \in WithStatus("paid") : payment[p].debited})
live_pending  == {p \in WithStatus("pending") : payment[p].recent}
committed     == SumFunctionOnSet(CashOf, live_pending)
-----------------------------------------------------------------------------
(* Checkout: initiate_extract. *)

Reusable(amount) == {p \in live_pending : payment[p].placed /\ payment[p].cash = amount}

TierFits(amount, tier) == tier <= amount

InitiateRead(r, amount, tier) ==
    /\ req[r] = Idle
    /\ booking \in Live
    /\ amount <= Total - total_settled
    /\ tier = 0 => Reusable(amount) = {}
    /\ committed + amount <= Total - total_settled
    /\ TierFits(amount, tier)
    /\ req' = [req EXCEPT ![r] = [Idle EXCEPT !.op = "initiate", !.pc = "create",
                                              !.amount = amount, !.tier = tier]]
    /\ UNCHANGED <<booking, lock, payment, gateway>>

ReuseOrder(p) ==           \* the open order is answered again
    /\ booking \in Live /\ payment[p].cash <= Total - total_settled
    /\ p \in Reusable(payment[p].cash)
    /\ payment' = [payment EXCEPT ![p].known = TRUE]
    /\ UNCHANGED <<booking, lock, gateway, req>>

CreatePayment(r, p) ==
    /\ req[r].pc = "create" /\ payment[p].status = "none"
    /\ LET cash == req[r].amount - req[r].tier IN
       /\ payment' = [payment EXCEPT ![p] = [NoRow EXCEPT !.status = "pending", !.cash = cash,
                                                          !.tier = req[r].tier, !.recent = TRUE]]
       /\ req' = [req EXCEPT ![r].pc = IF cash = 0 THEN "debit" ELSE "order", ![r].todo = {p}]
    /\ UNCHANGED <<booking, lock, gateway>>

PlaceOrder(r) == \E p \in req[r].todo :
    /\ req[r].pc = "order"
    /\ \/ /\ payment' = [payment EXCEPT ![p].placed = TRUE, ![p].known = (req[r].tier = 0)]
          /\ IF req[r].tier = 0 THEN Finish(r) ELSE Goto(r, "debit")
       \/ /\ MayFail                            \* the gateway refuses: mark_failed
          /\ payment' = [payment EXCEPT ![p].status = "failed"]
          /\ Finish(r)
    /\ UNCHANGED <<booking, lock, gateway>>

DebitRedemption(r) == \E p \in req[r].todo :
    /\ req[r].pc = "debit" /\ PaymentFree(p)
    /\ \/ /\ payment' = [payment EXCEPT ![p].debited = TRUE, ![p].known = payment[p].placed]
          /\ IF payment[p].cash = 0 THEN Goto(r, "settle") ELSE Finish(r)
       \/ /\ payment' = [payment EXCEPT ![p].status = "failed"]   \* insufficient balance
          /\ Finish(r)
    /\ UNCHANGED <<booking, lock, gateway>>

mark_paid_via_wallet(r) == \E p \in req[r].todo :
    /\ req[r].pc = "settle"
    /\ payment' = [payment EXCEPT ![p].status = "paid"]
    /\ Finish(r)
    /\ UNCHANGED <<booking, lock, gateway>>

PendingWindowEnds(p) ==    \* payment_pending_window_minutes have gone by
    /\ payment[p].recent
    /\ payment' = [payment EXCEPT ![p].recent = FALSE]
    /\ UNCHANGED <<booking, lock, gateway, req>>

Capture(p) ==              \* the customer pays at the gateway
    /\ payment[p].known /\ gateway[p] = "open"
    /\ gateway' = [gateway EXCEPT ![p] = "captured"]
    /\ UNCHANGED <<booking, lock, payment, req>>
-----------------------------------------------------------------------------
(* Verification: _verify_solo. *)

VerifyRead(r, p) ==
    /\ req[r] = Idle
    /\ payment[p].known /\ payment[p].status \in {"pending", "failed"}
    /\ gateway[p] # "open" \/ MayFail           \* the app calls once checkout succeeded
    /\ req' = [req EXCEPT ![r] = [Idle EXCEPT !.op = "verify", !.pc = "fetch", !.todo = {p}]]
    /\ UNCHANGED <<booking, lock, payment, gateway>>

FetchFromGateway(r) == \E p \in req[r].todo :
    /\ req[r].pc = "fetch"
    /\ Goto(r, IF gateway[p] = "captured" THEN "mark" ELSE "fail")
    /\ UNCHANGED <<booking, lock, payment, gateway>>

(* Mutant: the overpayment check is dropped. *)
FitsAlways(p) == TRUE

Fits(p) == total_settled + payment[p].cash <= Total

mark_paid_checked(r) == \E p \in req[r].todo :
    /\ req[r].pc = "mark" /\ Unlocked
    /\ IF Fits(p) THEN payment' = [payment EXCEPT ![p].status = "paid"] /\ Finish(r)
                  ELSE UNCHANGED payment /\ Goto(r, "fail")
    /\ UNCHANGED <<booking, lock, gateway>>

mark_failed(r) == \E p \in req[r].todo :
    /\ req[r].pc = "fail" /\ PaymentFree(p)
    /\ payment' = [payment EXCEPT ![p].status = "failed"]
    /\ Finish(r)
    /\ UNCHANGED <<booking, lock, gateway>>
-----------------------------------------------------------------------------
(* The artist accepts a booking that is settled in full. *)
Confirm ==
    /\ Unlocked /\ booking = "pending" /\ total_settled >= Total
    /\ booking' = "confirmed"
    /\ UNCHANGED <<lock, payment, gateway, req>>

(* Cancellation by the customer, by the artist inside one transaction, or  *)
(* by the sweep of pending bookings that hold no paid payment; and the     *)
(* command that retries refunds.                                           *)
CancelRead(r, op) ==
    /\ req[r] = Idle
    /\ \/ op = "customer" /\ booking \in Live /\ UNCHANGED lock
       \/ op = "artist" /\ booking \in Live /\ Unlocked /\ lock' = r
       \/ op = "sweep" /\ booking = "pending" /\ WithStatus("paid") = {} /\ UNCHANGED lock
       \/ op = "retry" /\ booking = "cancelled" /\ WithStatus("paid") # {} /\ UNCHANGED lock
    /\ req' = [req EXCEPT ![r] = [Idle EXCEPT !.op = op,
                  !.pc = IF op \in {"customer", "sweep"} THEN "cancel" ELSE "list"]]
    /\ UNCHANGED <<booking, payment, gateway>>

WriteCancelled(r) ==
    /\ req[r].pc = "cancel" /\ Unlocked
    /\ \/ /\ req[r].op = "customer"
          /\ booking' = "cancelled" /\ Goto(r, "list")
       \/ /\ req[r].op = "sweep"                \* the UPDATE repeats the condition,
          /\ booking' = IF booking = "pending" /\ WithStatus("paid") = {} THEN "cancelled" ELSE booking
          /\ Goto(r, "coins")                   \* the ids were read before it
    /\ UNCHANGED <<lock, payment, gateway>>

ListPaid(r) ==
    /\ req[r].pc = "list"
    /\ req' = [req EXCEPT ![r].todo = WithStatus("paid"), ![r].pc = "refund"]
    /\ UNCHANGED <<booking, lock, payment, gateway>>

(* What a refund call may answer: a payment with no cash at the gateway    *)
(* needs none, and a second refund of the same money is an error.          *)
RefundAnswers(p) ==
    CASE payment[p].cash = 0 \/ gateway[p] = "open" -> {"returned"}
      [] gateway[p] = "captured" -> {"returned"} \cup (IF MayFail THEN {"refused"} ELSE {})
      [] OTHER -> {"refused"}

(* Mutant: the answer of the gateway is not looked at. *)
RecordableAlways(answer) == TRUE

Recordable(answer) == answer = "returned"

RefundAtGateway(r) ==
    /\ req[r].pc = "refund"
    /\ \E p \in req[r].todo : \E answer \in RefundAnswers(p) :
          /\ gateway' = IF answer = "returned" /\ gateway[p] = "captured" /\ payment[p].cash > 0
                        THEN [gateway EXCEPT ![p] = "refunded"] ELSE gateway
          /\ req' = [req EXCEPT ![r].todo = @ \ {p},
                                ![r].cur = IF Recordable(answer) THEN {p} ELSE {},
                                ![r].pc = IF Recordable(answer) THEN "record" ELSE "refund"]
    /\ UNCHANGED <<booking, lock, payment>>

RecordRefund(r) == \E p \in req[r].cur :
    /\ req[r].pc = "record" /\ PaymentFree(p)
    /\ IF req[r].op = "artist"
       THEN /\ req' = [req EXCEPT ![r].cur = {}, ![r].pc = "refund", ![r].done = @ \cup {p}]
            /\ UNCHANGED payment
       ELSE /\ req' = [req EXCEPT ![r].cur = {}, ![r].pc = "refund"]
            /\ payment' = [payment EXCEPT ![p].status = "refunded"]
    /\ UNCHANGED <<booking, lock, gateway>>

RefundsDone(r) ==
    /\ req[r].pc = "refund" /\ req[r].todo = {}
    /\ IF req[r].op = "retry" THEN Finish(r) ELSE Goto(r, "coins")
    /\ UNCHANGED <<booking, lock, payment, gateway>>

ListRedemptions(r) ==      \* reverse_all_redemptions_for_booking
    /\ req[r].pc = "coins"
    /\ req' = [req EXCEPT ![r].todo = {p \in Payments : payment[p].debited /\ payment[p].returned = 0},
                          ![r].pc = "reverse"]
    /\ UNCHANGED <<booking, lock, payment, gateway>>

(* Mutant: reverse_redemption does not look for an earlier REVERSAL. *)
AlreadyReversedUnchecked(p) == FALSE

AlreadyReversed(p) == payment[p].returned > 0

(* A redemption found reversed raises and ends the handler; the artist's   *)
(* transaction, cancellation included, is rolled back.                     *)
ReverseRedemption(r) == \E p \in req[r].todo :
    /\ req[r].pc = "reverse" /\ RedemptionFree(p)
    /\ IF AlreadyReversed(p)
       THEN /\ Finish(r) /\ UNCHANGED payment
            /\ lock' = IF lock = r THEN NoRequest ELSE lock
       ELSE /\ UNCHANGED lock
            /\ IF req[r].op = "artist"
               THEN /\ req' = [req EXCEPT ![r].todo = @ \ {p}, ![r].back = @ \cup {p}]
                    /\ UNCHANGED payment
               ELSE /\ req' = [req EXCEPT ![r].todo = @ \ {p}]
                    /\ payment' = [payment EXCEPT ![p].returned = @ + 1]
    /\ UNCHANGED <<booking, gateway>>

CancelDone(r) ==
    /\ req[r].pc = "reverse" /\ req[r].todo = {}
    /\ IF req[r].op = "artist"
       THEN /\ booking' = "cancelled" /\ lock' = NoRequest
            /\ payment' = [p \in Payments |->
                  [payment[p] EXCEPT !.status = IF p \in req[r].done THEN "refunded" ELSE @,
                                     !.returned = IF p \in req[r].back THEN @ + 1 ELSE @]]
       ELSE UNCHANGED <<booking, lock, payment>>
    /\ Finish(r)
    /\ UNCHANGED gateway

Abandon(r) ==              \* a worker dies; an open transaction is rolled back
    /\ MayFail /\ req[r] # Idle
    /\ Finish(r)
    /\ lock' = IF lock = r THEN NoRequest ELSE lock
    /\ UNCHANGED <<booking, payment, gateway>>
-----------------------------------------------------------------------------
Init == /\ booking = "pending" /\ lock = NoRequest
        /\ payment = [p \in Payments |-> NoRow]
        /\ gateway = [p \in Payments |-> "open"]
        /\ req = [r \in Requests |-> Idle]

CheckoutNext(r) ==
    \/ \E amount \in 1..Total, tier \in Tiers : InitiateRead(r, amount, tier)
    \/ \E p \in Payments : CreatePayment(r, p) \/ VerifyRead(r, p)
    \/ PlaceOrder(r) \/ DebitRedemption(r) \/ mark_paid_via_wallet(r)
    \/ FetchFromGateway(r) \/ mark_paid_checked(r) \/ mark_failed(r)

CancelNext(r) ==
    \/ \E op \in {"customer", "artist", "sweep", "retry"} : CancelRead(r, op)
    \/ WriteCancelled(r) \/ ListPaid(r) \/ RefundAtGateway(r) \/ RecordRefund(r) \/ RefundsDone(r)
    \/ ListRedemptions(r) \/ ReverseRedemption(r) \/ CancelDone(r)

Next == \/ \E r \in Requests : CheckoutNext(r) \/ CancelNext(r) \/ Abandon(r)
        \/ \E p \in Payments : ReuseOrder(p) \/ PendingWindowEnds(p) \/ Capture(p)
        \/ Confirm

Spec == Init /\ [][Next]_vars
-----------------------------------------------------------------------------
TypeOK == /\ booking \in Live \cup {"cancelled"}
          /\ lock \in Requests \cup {NoRequest}
          /\ payment \in [Payments -> Row]
          /\ gateway \in [Payments -> {"open", "captured", "refunded"}]
          /\ req \in [Requests -> Request]

(* The cash of the paid payments never exceeds the price of the booking,   *)
(* whatever orders were opened at the same time and verified in any order. *)
CashWithinTotal == total_paid <= Total

(* Rows, locks and gateway keep their types and the cash its bound.        *)
SettlementSound == TypeOK /\ CashWithinTotal

(* The docstring of mark_refunded: the system never claims money was       *)
(* returned when it was not.                                               *)
RefundClaimsTrue ==
    \A p \in Payments : payment[p].status = "refunded" /\ payment[p].cash > 0
                           => gateway[p] = "refunded"

(* However many of the cancellation paths run at once, the coins of a      *)
(* redemption come back at most once.                                      *)
CoinsReturnedOnce == \A p \in Payments : payment[p].returned <= 1

(* The claim of _verify_solo: verifying a payment that is paid already is  *)
(* a safe no-op.                                                           *)
RepeatedVerifyHarmless ==
    [][\A r \in Requests, p \in Payments :
          mark_failed(r) /\ req[r].todo = {p} => payment[p].status # "paid"]_vars

(* The claim of cancel_extract: the customer does not lose the coins       *)
(* redeemed against a cancelled booking.                                   *)
CoinsNotForfeited ==
    booking = "cancelled" /\ (\A r \in Requests : req[r] = Idle)
        => \A p \in Payments : payment[p].debited => payment[p].returned > 0
=============================================================================
