---------------------- MODULE PaymentSettlementProofs ----------------------
(***************************************************************************)
(* That a booking's payments never take more cash than it costs, never     *)
(* claim a refund the gateway did not make, and return the coins of a      *)
(* redemption at most once: for every set of payments and requests, with   *)
(* or without workers that die and a gateway that refuses.                 *)
(***************************************************************************)
EXTENDS PaymentSettlement, SumFacts

USE SettlementAssumption

(* What a handler knows of the rows it still has to handle.  The row       *)
(* exists, and checkout and verification have one; a payment settled       *)
(* without the gateway has no cash; one about to be marked paid was        *)
(* captured; one about to be refunded has no cash at the gateway or was    *)
(* captured.                                                               *)
Exists(p)    == payment[p].status # "none"
NoCash(p)    == payment[p].cash = 0
WasTaken(p)  == gateway[p] # "open"
WasReturned(p) == NoCash(p) \/ gateway[p] = "refunded"

TodoInv(r) ==
    /\ req[r].pc = "create" => req[r].tier <= req[r].amount
    /\ req[r].pc \in {"order", "debit", "settle", "fetch", "mark", "fail", "refund", "record"}
           => \A p \in req[r].todo : Exists(p)
    /\ req[r].pc \in {"order", "debit", "fetch"} => \A p, q \in req[r].todo : p = q
    /\ req[r].pc = "settle" => \A p \in req[r].todo : NoCash(p)
    /\ req[r].pc = "mark" => \A p \in req[r].todo : WasTaken(p)
    /\ req[r].pc \in {"refund", "record"} => \A p \in req[r].todo : NoCash(p) \/ WasTaken(p)

(* What it has got done without committing it: the gateway has returned    *)
(* the cash of the rows it will mark refunded, and no other transaction    *)
(* has reversed the redemptions it reversed.                               *)
DoneInv(r) ==
    /\ \A p \in req[r].cur \cup req[r].done : Exists(p) /\ WasReturned(p)
    /\ \A p \in req[r].back : payment[p].returned = 0
    /\ \A q \in Requests \ {r} : req[r].back \cap req[q].back = {}

(* A paid payment was captured, and a refunded one returned.               *)
GatewayInv == \A p \in Payments :
    /\ payment[p].status = "paid" => NoCash(p) \/ WasTaken(p)
    /\ payment[p].status = "refunded" => WasReturned(p)

HandlersInv == \A r \in Requests : TodoInv(r) /\ DoneInv(r)

PayInv == TypeOK /\ HandlersInv /\ GatewayInv /\ CoinsReturnedOnce
-----------------------------------------------------------------------------
(* What no step undoes: a row that exists keeps its cash, and the gateway  *)
(* does not forget what it took or returned.                               *)
Advance == \A p \in Payments :
    /\ Exists(p) => Exists(p)' /\ payment'[p].cash = payment[p].cash
    /\ WasTaken(p) => WasTaken(p)'
    /\ gateway[p] = "refunded" => gateway'[p] = "refunded"

LEMMA IdleRequest == Idle \in Request
BY DEF Idle, Request

LEMMA NoRowType == NoRow \in Row
BY DEF NoRow, Row

(* What another handler knows survives a step that advances the table and  *)
(* leaves the redemptions it reversed.                                     *)
LEMMA HandlerKept ==
    ASSUME PayInv, NEW q \in Requests, req'[q] = req[q], Advance,
           \A p \in req[q].back : payment'[p].returned = 0
    PROVE  /\ TodoInv(q)'
           /\ \A p \in req'[q].cur \cup req'[q].done : (Exists(p) /\ WasReturned(p))'
           /\ \A p \in req'[q].back : payment'[p].returned = 0
<1>1. TodoInv(q) /\ DoneInv(q) /\ req[q] \in Request
  BY DEF PayInv, HandlersInv, TypeOK
<1>2. req[q].todo \subseteq Payments /\ req[q].cur \subseteq Payments
      /\ req[q].done \subseteq Payments
  BY <1>1 DEF Request
<1>3. TodoInv(q)'
  BY <1>1, <1>2 DEF TodoInv, Advance, NoCash, Exists
<1> QED
  BY <1>1, <1>2, <1>3 DEF DoneInv, Advance, WasReturned, NoCash

(* The invariant of the handlers holds after a step of r if what r knows   *)
(* holds, and the coins the others reversed stay as they are.              *)
LEMMA HandlerStep ==
    ASSUME PayInv, NEW r \in Requests, NEW x \in Request, req' = [req EXCEPT ![r] = x], Advance,
           TodoInv(r)',
           \A p \in x.cur \cup x.done : (Exists(p) /\ WasReturned(p))',
           \A p \in x.back : payment'[p].returned = 0,
           \A q \in Requests \ {r} : /\ x.back \cap req[q].back = {}
                                     /\ \A p \in req[q].back : payment'[p].returned = 0
    PROVE  HandlersInv'
<1>1. req'[r] = x /\ \A q \in Requests \ {r} : req'[q] = req[q]
  BY DEF PayInv, TypeOK
<1>2. DoneInv(r)'
  BY <1>1 DEF DoneInv
<1>3. ASSUME NEW q \in Requests \ {r} PROVE TodoInv(q)' /\ DoneInv(q)'
  <2>1. /\ TodoInv(q)'
        /\ \A p \in req'[q].cur \cup req'[q].done : (Exists(p) /\ WasReturned(p))'
        /\ \A p \in req'[q].back : payment'[p].returned = 0
    BY <1>1, HandlerKept
  <2>2. \A z \in Requests \ {q} : req'[q].back \cap req'[z].back = {}
    BY <1>1 DEF PayInv, HandlersInv, DoneInv
  <2> QED
    BY <2>1, <2>2 DEF DoneInv
<1> QED
  BY <1>2, <1>3 DEF HandlersInv

(* A step of no handler.                                                   *)
LEMMA QuietStep ==
    ASSUME PayInv, UNCHANGED req, Advance,
           \A q \in Requests : \A p \in req[q].back : payment'[p].returned = 0
    PROVE  HandlersInv'
<1>1. ASSUME NEW q \in Requests PROVE TodoInv(q)' /\ DoneInv(q)'
  <2>1. /\ TodoInv(q)'
        /\ \A p \in req'[q].cur \cup req'[q].done : (Exists(p) /\ WasReturned(p))'
        /\ \A p \in req'[q].back : payment'[p].returned = 0
    BY HandlerKept
  <2> QED
    BY <2>1 DEF DoneInv, PayInv, HandlersInv
<1> QED
  BY <1>1 DEF HandlersInv

(* A handler that ends knows nothing.                                      *)
LEMMA FinishStep ==
    ASSUME PayInv, NEW r \in Requests, Finish(r), Advance,
           \A q \in Requests \ {r} : \A p \in req[q].back : payment'[p].returned = 0
    PROVE  HandlersInv' /\ req' \in [Requests -> Request]
<1>1. req'[r] = Idle
  BY DEF PayInv, TypeOK, Finish
<1>2. TodoInv(r)'
  BY <1>1 DEF TodoInv, Idle
<1>3. HandlersInv'
  BY <1>2, IdleRequest, HandlerStep DEF Finish, Idle
<1> QED
  BY <1>3, IdleRequest DEF Finish, PayInv, TypeOK

(* A step that only moves its own handler.                                 *)
LEMMA ReadStep ==
    ASSUME PayInv, NEW r \in Requests, NEW x \in Request, req' = [req EXCEPT ![r] = x],
           booking' \in Live \cup {"cancelled"}, lock' \in Requests \cup {NoRequest},
           UNCHANGED <<payment, gateway>>,
           TodoInv(r)', x.cur \cup x.done \subseteq req[r].cur \cup req[r].done,
           x.back \subseteq req[r].back
    PROVE  PayInv'
<1>1. Advance
  BY DEF Advance, Exists, WasTaken
<1>2. DoneInv(r) /\ \A q \in Requests : \A p \in req[q].back : payment'[p].returned = 0
  BY DEF PayInv, HandlersInv, DoneInv
<1>3. HandlersInv'
  <2>1. \A p \in x.cur \cup x.done : (Exists(p) /\ WasReturned(p))'
    BY <1>2 DEF DoneInv, Exists, WasReturned, NoCash
  <2>2. \A q \in Requests \ {r} : x.back \cap req[q].back = {}
    BY <1>2 DEF DoneInv
  <2> QED
    BY <1>1, <1>2, <2>1, <2>2, HandlerStep
<1>4. TypeOK' /\ GatewayInv' /\ CoinsReturnedOnce'
  BY DEF PayInv, TypeOK, GatewayInv, CoinsReturnedOnce, NoCash, WasTaken, WasReturned
<1> QED
  BY <1>3, <1>4 DEF PayInv
(* A step of r that rewrites one row.                                      *)
LEMMA RowStep ==
    ASSUME PayInv, NEW r \in Requests, NEW x \in Request, req' = [req EXCEPT ![r] = x],
           NEW p \in Payments, NEW row \in Row, payment' = [payment EXCEPT ![p] = row],
           UNCHANGED <<booking, lock, gateway>>, TodoInv(r)',
           x.cur \cup x.done \subseteq req[r].cur \cup req[r].done, x.back \subseteq req[r].back,
           Exists(p) => row.status # "none", row.cash = payment[p].cash,
           row.status = "paid" => NoCash(p) \/ WasTaken(p),
           row.status = "refunded" => WasReturned(p),
           row.returned = payment[p].returned \/ (row.returned = 1 /\ RedemptionFree(p))
    PROVE  PayInv'
<1>1. payment'[p] = row /\ \A y \in Payments \ {p} : payment'[y] = payment[y]
  BY DEF PayInv, TypeOK
<1>2. Advance
  BY <1>1 DEF Advance, Exists, WasTaken
<1>3. \A q \in Requests : \A y \in req[q].back : payment'[y].returned = 0
  BY <1>1 DEF PayInv, HandlersInv, DoneInv, RedemptionFree, TypeOK, Request
<1>4. req[r].cur \cup req[r].done \subseteq Payments
  BY DEF PayInv, TypeOK, Request
<1>5. \A y \in x.cur \cup x.done : (Exists(y) /\ WasReturned(y))'
  BY <1>2, <1>4 DEF PayInv, HandlersInv, DoneInv, Advance, WasReturned, NoCash
<1>6. \A q \in Requests \ {r} : x.back \cap req[q].back = {}
  BY DEF PayInv, HandlersInv, DoneInv
<1>7. HandlersInv'
  BY <1>2, <1>3, <1>5, <1>6, HandlerStep
<1>8. TypeOK'
  BY DEF PayInv, TypeOK
<1>9. GatewayInv' /\ CoinsReturnedOnce'
  BY <1>1 DEF PayInv, GatewayInv, CoinsReturnedOnce, NoCash, WasTaken, WasReturned
<1> QED
  BY <1>7, <1>8, <1>9 DEF PayInv
-----------------------------------------------------------------------------
(* Checkout and verification. *)

LEMMA InitiateReadStep ==
    ASSUME PayInv, NEW r \in Requests, NEW amount \in 1..Total, NEW tier \in Tiers,
           InitiateRead(r, amount, tier)
    PROVE  PayInv'
<1> DEFINE x == [Idle EXCEPT !.op = "initiate", !.pc = "create", !.amount = amount, !.tier = tier]
<1>1. x \in Request
  <2>1. amount \in 0..Total /\ tier \in Tiers \cup {0}
    OBVIOUS
  <2> QED
    BY <2>1, IdleRequest DEF Request, Idle
<1>2. req' = [req EXCEPT ![r] = x] /\ req[r] = Idle /\ req'[r] = x
  BY DEF InitiateRead, PayInv, TypeOK
<1>3. TodoInv(r)'
  BY <1>2 DEF TodoInv, InitiateRead, TierFits, Idle
<1>4. /\ booking' \in Live \cup {"cancelled"} /\ lock' \in Requests \cup {NoRequest}
      /\ UNCHANGED <<payment, gateway>>
      /\ x.cur = req[r].cur /\ x.done = req[r].done /\ x.back = req[r].back
  BY <1>2 DEF InitiateRead, Idle, PayInv, TypeOK
<1> HIDE DEF x
<1> QED
  BY <1>1, <1>2, <1>3, <1>4, ReadStep

LEMMA CreatePaymentStep ==
    ASSUME PayInv, NEW r \in Requests, NEW p \in Payments, CreatePayment(r, p)
    PROVE  PayInv'
<1> DEFINE c == req[r].amount - req[r].tier
           row == [NoRow EXCEPT !.status = "pending", !.cash = c, !.tier = req[r].tier, !.recent = TRUE]
           x == [req[r] EXCEPT !.pc = IF c = 0 THEN "debit" ELSE "order", !.todo = {p}]
<1>1. /\ req[r] \in Request /\ req[r].pc = "create" /\ req[r].tier <= req[r].amount
      /\ req[r].tier \in 0..Total /\ c \in 0..Total
  BY DEF PayInv, TypeOK, HandlersInv, TodoInv, CreatePayment, Request
<1>2. /\ row \in Row /\ payment' = [payment EXCEPT ![p] = row]
      /\ payment'[p] = row /\ row.status = "pending" /\ row.returned = 0
      /\ \A y \in Payments \ {p} : payment'[y] = payment[y]
  BY <1>1 DEF CreatePayment, PayInv, TypeOK, NoRow, Row
<1>3. /\ x \in Request /\ req' = [req EXCEPT ![r] = x] /\ req'[r] = x
      /\ x.pc \in {"debit", "order"} /\ x.todo = {p}
      /\ x.cur = req[r].cur /\ x.done = req[r].done /\ x.back = req[r].back
  BY <1>1 DEF CreatePayment, PayInv, TypeOK, Request
<1> HIDE DEF row, x
<1>4. ~Exists(p) /\ UNCHANGED <<booking, lock, gateway>>
  BY DEF CreatePayment, Exists
<1>5. Advance
  BY <1>2, <1>4 DEF Advance, Exists, WasTaken
<1>6. HandlersInv'
  <2>1. TodoInv(r)'
    BY <1>2, <1>3 DEF TodoInv, Exists
  <2>2. \A q \in Requests : \A y \in req[q].back : payment'[y].returned = 0
    BY <1>2 DEF PayInv, HandlersInv, DoneInv, TypeOK, Request
  <2>3. \A y \in x.cur \cup x.done : (Exists(y) /\ WasReturned(y))'
    BY <1>1, <1>3, <1>5 DEF PayInv, HandlersInv, DoneInv, Advance, WasReturned, NoCash, Request
  <2>4. \A q \in Requests \ {r} : x.back \cap req[q].back = {}
    BY <1>3 DEF PayInv, HandlersInv, DoneInv
  <2> QED
    BY <1>3, <1>5, <2>1, <2>2, <2>3, <2>4, HandlerStep
<1>7. TypeOK'
  BY <1>2, <1>3, <1>4 DEF PayInv, TypeOK
<1>8. GatewayInv' /\ CoinsReturnedOnce'
  BY <1>2, <1>4 DEF PayInv, GatewayInv, CoinsReturnedOnce, NoCash, WasTaken, WasReturned
<1> QED
  BY <1>6, <1>7, <1>8 DEF PayInv

(* A step of r that rewrites its row and ends.                             *)
LEMMA RowEnds ==
    ASSUME PayInv, NEW r \in Requests, Finish(r),
           NEW p \in Payments, NEW row \in Row, payment' = [payment EXCEPT ![p] = row],
           UNCHANGED <<booking, lock, gateway>>,
           Exists(p), row.status # "none", row.cash = payment[p].cash,
           row.status = "paid" => NoCash(p) \/ WasTaken(p),
           row.status = "refunded" => WasReturned(p),
           row.returned = payment[p].returned
    PROVE  PayInv'
<1>1. req'[r] = Idle
  BY DEF Finish, PayInv, TypeOK
<1>2. TodoInv(r)'
  BY <1>1 DEF TodoInv, Idle
<1> QED
  BY <1>2, IdleRequest, RowStep DEF Finish, Idle

(* A step of r that moves on to a place where it knows the row it has.     *)
LEMMA RowGoes ==
    ASSUME PayInv, NEW r \in Requests, NEW pc \in {"debit", "settle"}, Goto(r, pc),
           NEW p \in req[r].todo, p \in Payments, \A y \in req[r].todo : y = p,
           NEW row \in Row, payment' = [payment EXCEPT ![p] = row],
           UNCHANGED <<booking, lock, gateway>>,
           Exists(p), row.status = payment[p].status, row.cash = payment[p].cash,
           row.returned = payment[p].returned, pc = "settle" => NoCash(p)
    PROVE  PayInv'
<1> DEFINE x == [req[r] EXCEPT !.pc = pc]
<1>1. /\ x \in Request /\ req' = [req EXCEPT ![r] = x] /\ req'[r] = x
      /\ x.pc = pc /\ x.todo = req[r].todo /\ x.cur = req[r].cur
      /\ x.done = req[r].done /\ x.back = req[r].back
  BY DEF Goto, PayInv, TypeOK, Request
<1> HIDE DEF x
<1>2. payment'[p] = row
  BY DEF PayInv, TypeOK
<1>3. TodoInv(r)'
  BY <1>1, <1>2 DEF TodoInv, Exists, NoCash
<1>4. /\ payment[p].status = "paid" => NoCash(p) \/ WasTaken(p)
      /\ payment[p].status = "refunded" => WasReturned(p)
  BY DEF PayInv, GatewayInv
<1> QED
  BY <1>1, <1>3, <1>4, RowStep DEF Exists

LEMMA FailedRow ==
    ASSUME PayInv, NEW r \in Requests, Finish(r), NEW p \in Payments, Exists(p),
           payment' = [payment EXCEPT ![p].status = "failed"],
           UNCHANGED <<booking, lock, gateway>>
    PROVE  PayInv'
<1> DEFINE row == [payment[p] EXCEPT !.status = "failed"]
<1>1. /\ row \in Row /\ payment' = [payment EXCEPT ![p] = row] /\ row.status = "failed"
      /\ row.cash = payment[p].cash /\ row.returned = payment[p].returned
  BY DEF Row, PayInv, TypeOK
<1> HIDE DEF row
<1> QED
  BY <1>1, RowEnds

LEMMA PlaceOrderStep ==
    ASSUME PayInv, NEW r \in Requests, PlaceOrder(r)
    PROVE  PayInv'
<1>1. PICK p \in req[r].todo :
          /\ req[r].pc = "order"
          /\ \/ /\ payment' = [payment EXCEPT ![p].placed = TRUE, ![p].known = (req[r].tier = 0)]
                /\ IF req[r].tier = 0 THEN Finish(r) ELSE Goto(r, "debit")
             \/ payment' = [payment EXCEPT ![p].status = "failed"] /\ Finish(r)
          /\ UNCHANGED <<booking, lock, gateway>>
  BY DEF PlaceOrder
<1>2. p \in Payments /\ Exists(p) /\ payment[p] \in Row /\ \A y \in req[r].todo : y = p
  BY <1>1 DEF PayInv, TypeOK, HandlersInv, TodoInv, Request
<1>3. CASE /\ payment' = [payment EXCEPT ![p].placed = TRUE, ![p].known = (req[r].tier = 0)]
           /\ IF req[r].tier = 0 THEN Finish(r) ELSE Goto(r, "debit")
  <2> DEFINE row == [payment[p] EXCEPT !.placed = TRUE, !.known = (req[r].tier = 0)]
  <2>1. /\ row \in Row /\ payment' = [payment EXCEPT ![p] = row]
        /\ row.status = payment[p].status /\ row.cash = payment[p].cash
        /\ row.returned = payment[p].returned
    BY <1>2, <1>3 DEF Row, PayInv, TypeOK
  <2> HIDE DEF row
  <2>2. /\ payment[p].status = "paid" => NoCash(p) \/ WasTaken(p)
        /\ payment[p].status = "refunded" => WasReturned(p)
    BY <1>2 DEF PayInv, GatewayInv
  <2>3. CASE Finish(r)
    BY <1>1, <1>2, <2>1, <2>2, <2>3, RowEnds DEF Exists
  <2>4. CASE Goto(r, "debit")
    BY <1>1, <1>2, <2>1, <2>4, RowGoes
  <2> QED
    BY <1>3, <2>3, <2>4
<1> QED
  BY <1>1, <1>2, <1>3, FailedRow

LEMMA DebitRedemptionStep ==
    ASSUME PayInv, NEW r \in Requests, DebitRedemption(r)
    PROVE  PayInv'
<1>1. PICK p \in req[r].todo :
          /\ req[r].pc = "debit"
          /\ \/ /\ payment' = [payment EXCEPT ![p].debited = TRUE, ![p].known = payment[p].placed]
                /\ IF payment[p].cash = 0 THEN Goto(r, "settle") ELSE Finish(r)
             \/ payment' = [payment EXCEPT ![p].status = "failed"] /\ Finish(r)
          /\ UNCHANGED <<booking, lock, gateway>>
  BY DEF DebitRedemption
<1>2. p \in Payments /\ Exists(p) /\ payment[p] \in Row /\ \A y \in req[r].todo : y = p
  BY <1>1 DEF PayInv, TypeOK, HandlersInv, TodoInv, Request
<1>3. CASE /\ payment' = [payment EXCEPT ![p].debited = TRUE, ![p].known = payment[p].placed]
           /\ IF payment[p].cash = 0 THEN Goto(r, "settle") ELSE Finish(r)
  <2> DEFINE row == [payment[p] EXCEPT !.debited = TRUE, !.known = payment[p].placed]
  <2>1. /\ row \in Row /\ payment' = [payment EXCEPT ![p] = row]
        /\ row.status = payment[p].status /\ row.cash = payment[p].cash
        /\ row.returned = payment[p].returned
    BY <1>2, <1>3 DEF Row, PayInv, TypeOK
  <2> HIDE DEF row
  <2>2. /\ payment[p].status = "paid" => NoCash(p) \/ WasTaken(p)
        /\ payment[p].status = "refunded" => WasReturned(p)
    BY <1>2 DEF PayInv, GatewayInv
  <2>3. CASE Finish(r)
    BY <1>1, <1>2, <2>1, <2>2, <2>3, RowEnds DEF Exists
  <2>4. CASE payment[p].cash = 0 /\ Goto(r, "settle")
    BY <1>1, <1>2, <2>1, <2>4, RowGoes DEF NoCash
  <2> QED
    BY <1>3, <2>3, <2>4
<1> QED
  BY <1>1, <1>2, <1>3, FailedRow

LEMMA PaidRow ==
    ASSUME PayInv, NEW r \in Requests, Finish(r), NEW p \in Payments, Exists(p),
           NoCash(p) \/ WasTaken(p), payment' = [payment EXCEPT ![p].status = "paid"],
           UNCHANGED <<booking, lock, gateway>>
    PROVE  PayInv'
<1> DEFINE row == [payment[p] EXCEPT !.status = "paid"]
<1>1. /\ row \in Row /\ payment' = [payment EXCEPT ![p] = row] /\ row.status = "paid"
      /\ row.cash = payment[p].cash /\ row.returned = payment[p].returned
  BY DEF Row, PayInv, TypeOK
<1> HIDE DEF row
<1> QED
  BY <1>1, RowEnds

LEMMA WalletStep ==
    ASSUME PayInv, NEW r \in Requests, mark_paid_via_wallet(r)
    PROVE  PayInv'
<1>1. PICK p \in req[r].todo :
          /\ req[r].pc = "settle" /\ payment' = [payment EXCEPT ![p].status = "paid"]
          /\ Finish(r) /\ UNCHANGED <<booking, lock, gateway>>
  BY DEF mark_paid_via_wallet
<1>2. p \in Payments /\ Exists(p) /\ NoCash(p)
  BY <1>1 DEF PayInv, TypeOK, HandlersInv, TodoInv, Request
<1> QED
  BY <1>1, <1>2, PaidRow

(* The steps of no handler. *)
LEMMA KnownStep ==
    ASSUME PayInv, NEW p \in Payments, ReuseOrder(p) \/ PendingWindowEnds(p)
    PROVE  PayInv'
<1>1. UNCHANGED <<booking, lock, gateway, req>>
  BY DEF ReuseOrder, PendingWindowEnds
<1>2. payment' \in [Payments -> Row]
  <2>1. PICK b \in BOOLEAN : \/ payment' = [payment EXCEPT ![p].known = b]
                            \/ payment' = [payment EXCEPT ![p].recent = b]
    BY DEF ReuseOrder, PendingWindowEnds
  <2>2. [payment[p] EXCEPT !.known = b] \in Row /\ [payment[p] EXCEPT !.recent = b] \in Row
    BY DEF PayInv, TypeOK, Row
  <2> QED
    BY <2>1, <2>2 DEF PayInv, TypeOK
<1>3. \A y \in Payments : /\ payment'[y].status = payment[y].status
                          /\ payment'[y].cash = payment[y].cash
                          /\ payment'[y].returned = payment[y].returned
  BY DEF ReuseOrder, PendingWindowEnds, PayInv, TypeOK, Row
<1>4. Advance
  BY <1>1, <1>3 DEF Advance, Exists, WasTaken
<1>5. HandlersInv'
  <2>1. \A q \in Requests : \A y \in req[q].back : payment'[y].returned = 0
    BY <1>3 DEF PayInv, HandlersInv, DoneInv, TypeOK, Request
  <2> QED
    BY <1>1, <1>4, <2>1, QuietStep
<1>6. TypeOK'
  BY <1>1, <1>2 DEF PayInv, TypeOK
<1>7. GatewayInv' /\ CoinsReturnedOnce'
  BY <1>1, <1>3 DEF PayInv, GatewayInv, CoinsReturnedOnce, NoCash, WasTaken, WasReturned
<1> QED
  BY <1>5, <1>6, <1>7 DEF PayInv

LEMMA CaptureStep ==
    ASSUME PayInv, NEW p \in Payments, Capture(p)
    PROVE  PayInv'
<1>1. /\ gateway[p] = "open" /\ gateway' = [gateway EXCEPT ![p] = "captured"]
      /\ UNCHANGED <<booking, lock, payment, req>>
  BY DEF Capture
<1>2. Advance
  BY <1>1 DEF Advance, Exists, WasTaken, PayInv, TypeOK
<1>3. HandlersInv'
  BY <1>1, <1>2, QuietStep DEF PayInv, HandlersInv, DoneInv
<1>4. TypeOK'
  BY <1>1 DEF PayInv, TypeOK
<1>5. GatewayInv' /\ CoinsReturnedOnce'
  BY <1>1 DEF PayInv, TypeOK, GatewayInv, CoinsReturnedOnce, NoCash, WasTaken, WasReturned
<1> QED
  BY <1>3, <1>4, <1>5 DEF PayInv

LEMMA VerifyReadStep ==
    ASSUME PayInv, NEW r \in Requests, NEW p \in Payments, VerifyRead(r, p)
    PROVE  PayInv'
<1> DEFINE x == [Idle EXCEPT !.op = "verify", !.pc = "fetch", !.todo = {p}]
<1>1. /\ x \in Request /\ req' = [req EXCEPT ![r] = x] /\ req'[r] = x /\ req[r] = Idle
      /\ x.pc = "fetch" /\ x.todo = {p} /\ x.cur = {} /\ x.done = {} /\ x.back = {}
  BY DEF VerifyRead, Idle, Request, PayInv, TypeOK
<1> HIDE DEF x
<1>2. Exists(p) /\ UNCHANGED <<booking, lock, payment, gateway>>
  BY DEF VerifyRead, Exists
<1>3. TodoInv(r)'
  BY <1>1, <1>2 DEF TodoInv, Exists
<1>4. booking' \in Live \cup {"cancelled"} /\ lock' \in Requests \cup {NoRequest}
  BY <1>2 DEF PayInv, TypeOK
<1> QED
  BY <1>1, <1>2, <1>3, <1>4, ReadStep

LEMMA FetchStep ==
    ASSUME PayInv, NEW r \in Requests, FetchFromGateway(r)
    PROVE  PayInv'
<1>1. PICK p \in req[r].todo :
          /\ req[r].pc = "fetch" /\ UNCHANGED <<booking, lock, payment, gateway>>
          /\ Goto(r, IF gateway[p] = "captured" THEN "mark" ELSE "fail")
  BY DEF FetchFromGateway
<1> DEFINE pc == IF gateway[p] = "captured" THEN "mark" ELSE "fail"
           x  == [req[r] EXCEPT !.pc = pc]
<1>2. pc \in {"mark", "fail"}
  OBVIOUS
<1>3. /\ x \in Request /\ req' = [req EXCEPT ![r] = x] /\ req'[r] = x
      /\ x.pc = pc /\ x.todo = req[r].todo /\ x.cur = req[r].cur
      /\ x.done = req[r].done /\ x.back = req[r].back
  <2> HIDE DEF pc
  <2> QED
    BY <1>1, <1>2 DEF Goto, PayInv, TypeOK, Request, pc
<1> HIDE DEF x
<1>4. \A y \in req[r].todo : y = p /\ Exists(y)
  BY <1>1 DEF PayInv, HandlersInv, TodoInv
<1>5. TodoInv(r)'
  BY <1>1, <1>3, <1>4 DEF TodoInv, Exists, WasTaken
<1>6. booking' \in Live \cup {"cancelled"} /\ lock' \in Requests \cup {NoRequest}
  BY <1>1 DEF PayInv, TypeOK
<1> QED
  BY <1>1, <1>3, <1>5, <1>6, ReadStep

LEMMA MarkPaidStep ==
    ASSUME PayInv, NEW r \in Requests, mark_paid_checked(r)
    PROVE  PayInv'
<1>1. PICK p \in req[r].todo :
          /\ req[r].pc = "mark" /\ UNCHANGED <<booking, lock, gateway>>
          /\ \/ payment' = [payment EXCEPT ![p].status = "paid"] /\ Finish(r)
             \/ UNCHANGED payment /\ Goto(r, "fail")
  BY DEF mark_paid_checked
<1>2. p \in Payments /\ WasTaken(p) /\ \A y \in req[r].todo : Exists(y)
  BY <1>1 DEF PayInv, TypeOK, HandlersInv, TodoInv, Request
<1>3. CASE payment' = [payment EXCEPT ![p].status = "paid"] /\ Finish(r)
  BY <1>1, <1>2, <1>3, PaidRow
<1>4. CASE UNCHANGED payment /\ Goto(r, "fail")
  <2> DEFINE x == [req[r] EXCEPT !.pc = "fail"]
  <2>1. /\ x \in Request /\ req' = [req EXCEPT ![r] = x] /\ req'[r] = x
        /\ x.pc = "fail" /\ x.todo = req[r].todo /\ x.cur = req[r].cur
        /\ x.done = req[r].done /\ x.back = req[r].back
    BY <1>4 DEF Goto, PayInv, TypeOK, Request
  <2> HIDE DEF x
  <2>2. TodoInv(r)'
    BY <1>2, <1>4, <2>1 DEF TodoInv, Exists
  <2>3. booking' \in Live \cup {"cancelled"} /\ lock' \in Requests \cup {NoRequest}
    BY <1>1 DEF PayInv, TypeOK
  <2> QED
    BY <1>1, <1>4, <2>1, <2>2, <2>3, ReadStep
<1> QED
  BY <1>1, <1>3, <1>4

LEMMA MarkFailedStep ==
    ASSUME PayInv, NEW r \in Requests, mark_failed(r)
    PROVE  PayInv'
<1>1. PICK p \in req[r].todo :
          /\ req[r].pc = "fail" /\ payment' = [payment EXCEPT ![p].status = "failed"]
          /\ Finish(r) /\ UNCHANGED <<booking, lock, gateway>>
  BY DEF mark_failed
<1>2. p \in Payments /\ Exists(p)
  BY <1>1 DEF PayInv, TypeOK, HandlersInv, TodoInv, Request
<1> QED
  BY <1>1, <1>2, FailedRow

LEMMA ConfirmStep == PayInv /\ Confirm => PayInv'
<1> SUFFICES ASSUME PayInv, Confirm PROVE PayInv'
  OBVIOUS
<1>1. booking' = "confirmed" /\ UNCHANGED <<lock, payment, gateway, req>>
  BY DEF Confirm
<1>2. HandlersInv'
  BY <1>1, QuietStep DEF PayInv, HandlersInv, DoneInv, Advance, Exists, WasTaken
<1> QED
  BY <1>1, <1>2 DEF PayInv, TypeOK, Live, GatewayInv, CoinsReturnedOnce, NoCash, WasTaken, WasReturned
-----------------------------------------------------------------------------
(* The cancellations. *)

(* A handler that ends without a commit.                                   *)
LEMMA EndStep ==
    ASSUME PayInv, NEW r \in Requests, Finish(r),
           booking' \in Live \cup {"cancelled"}, lock' \in Requests \cup {NoRequest},
           UNCHANGED <<payment, gateway>>
    PROVE  PayInv'
<1>1. req'[r] = Idle
  BY DEF Finish, PayInv, TypeOK
<1>2. TodoInv(r)'
  BY <1>1 DEF TodoInv, Idle
<1> QED
  BY <1>2, IdleRequest, ReadStep DEF Finish, Idle

(* A handler that moves on to a place where it needs to know nothing.      *)
LEMMA MoveStep ==
    ASSUME PayInv, NEW r \in Requests, NEW pc \in {"list", "coins"}, Goto(r, pc),
           booking' \in Live \cup {"cancelled"}, lock' \in Requests \cup {NoRequest},
           UNCHANGED <<payment, gateway>>
    PROVE  PayInv'
<1> DEFINE x == [req[r] EXCEPT !.pc = pc]
<1>1. /\ x \in Request /\ req' = [req EXCEPT ![r] = x] /\ req'[r] = x
      /\ x.pc = pc /\ x.todo = req[r].todo /\ x.cur = req[r].cur
      /\ x.done = req[r].done /\ x.back = req[r].back
  BY DEF Goto, PayInv, TypeOK, Request
<1> HIDE DEF x
<1>2. TodoInv(r)'
  BY <1>1 DEF TodoInv
<1> QED
  BY <1>1, <1>2, ReadStep

LEMMA CancelReadStep ==
    ASSUME PayInv, NEW r \in Requests, NEW op \in {"customer", "artist", "sweep", "retry"},
           CancelRead(r, op)
    PROVE  PayInv'
<1> DEFINE pc == IF op \in {"customer", "sweep"} THEN "cancel" ELSE "list"
           x  == [Idle EXCEPT !.op = op, !.pc = pc]
<1>1. req' = [req EXCEPT ![r] = x] /\ req'[r] = x /\ req[r] = Idle
  BY DEF CancelRead, PayInv, TypeOK
<1>2. pc \in {"cancel", "list"}
  OBVIOUS
<1>3. /\ x \in Request /\ x.pc = pc
      /\ x.cur = {} /\ x.done = {} /\ x.back = {}
  <2>1. pc \in {"idle", "cancel", "list"} /\ op \in {"customer", "artist", "sweep", "retry"}
    BY <1>2
  <2> HIDE DEF pc
  <2> QED
    BY <2>1, IdleRequest DEF Idle, Request
<1>4. /\ UNCHANGED <<payment, gateway>>
      /\ booking' \in Live \cup {"cancelled"} /\ lock' \in Requests \cup {NoRequest}
  BY DEF CancelRead, PayInv, TypeOK
<1> HIDE DEF x, pc
<1>5. TodoInv(r)'
  BY <1>1, <1>2, <1>3 DEF TodoInv
<1> QED
  BY <1>1, <1>3, <1>4, <1>5, ReadStep

LEMMA WriteCancelledStep ==
    ASSUME PayInv, NEW r \in Requests, WriteCancelled(r)
    PROVE  PayInv'
<1>1. /\ Goto(r, "list") \/ Goto(r, "coins")
      /\ booking' \in Live \cup {"cancelled"} /\ lock' \in Requests \cup {NoRequest}
      /\ UNCHANGED <<payment, gateway>>
  BY DEF WriteCancelled, PayInv, TypeOK
<1> QED
  BY <1>1, MoveStep

LEMMA ListPaidStep ==
    ASSUME PayInv, NEW r \in Requests, ListPaid(r)
    PROVE  PayInv'
<1> DEFINE x == [req[r] EXCEPT !.todo = WithStatus("paid"), !.pc = "refund"]
<1>1. WithStatus("paid") \in SUBSET Payments
  BY DEF WithStatus
<1>2. /\ x \in Request /\ req' = [req EXCEPT ![r] = x] /\ req'[r] = x
      /\ x.pc = "refund" /\ x.todo = WithStatus("paid") /\ x.cur = req[r].cur
      /\ x.done = req[r].done /\ x.back = req[r].back
  BY <1>1 DEF ListPaid, PayInv, TypeOK, Request
<1> HIDE DEF x
<1>3. UNCHANGED <<booking, lock, payment, gateway>>
  BY DEF ListPaid
<1>4. TodoInv(r)'
  BY <1>2, <1>3 DEF TodoInv, WithStatus, Exists, NoCash, WasTaken, PayInv, GatewayInv
<1>5. booking' \in Live \cup {"cancelled"} /\ lock' \in Requests \cup {NoRequest}
  BY <1>3 DEF PayInv, TypeOK
<1> QED
  BY <1>2, <1>3, <1>4, <1>5, ReadStep

(* An accepted refund has returned the cash of the payment, or there was   *)
(* none to return.                                                         *)
LEMMA RefundAtGatewayStep ==
    ASSUME PayInv, NEW r \in Requests, RefundAtGateway(r)
    PROVE  PayInv'
<1>0. PICK p \in req[r].todo : \E answer \in RefundAnswers(p) :
          /\ gateway' = IF answer = "returned" /\ gateway[p] = "captured" /\ payment[p].cash > 0
                        THEN [gateway EXCEPT ![p] = "refunded"] ELSE gateway
          /\ req' = [req EXCEPT ![r].todo = @ \ {p},
                                ![r].cur = IF Recordable(answer) THEN {p} ELSE {},
                                ![r].pc = IF Recordable(answer) THEN "record" ELSE "refund"]
  BY DEF RefundAtGateway
<1>1. PICK answer \in RefundAnswers(p) :
          /\ gateway' = IF answer = "returned" /\ gateway[p] = "captured" /\ payment[p].cash > 0
                        THEN [gateway EXCEPT ![p] = "refunded"] ELSE gateway
          /\ req' = [req EXCEPT ![r].todo = @ \ {p},
                                ![r].cur = IF Recordable(answer) THEN {p} ELSE {},
                                ![r].pc = IF Recordable(answer) THEN "record" ELSE "refund"]
          /\ UNCHANGED <<booking, lock, payment>> /\ req[r].pc = "refund"
  BY <1>0 DEF RefundAtGateway
<1>2. /\ p \in Payments /\ payment[p].cash \in Nat /\ req[r] \in Request
      /\ \A y \in req[r].todo : Exists(y) /\ (NoCash(y) \/ WasTaken(y))
  BY <1>1 DEF PayInv, TypeOK, HandlersInv, TodoInv, Request, Row
<1> DEFINE cur == IF Recordable(answer) THEN {p} ELSE {}
           pc  == IF Recordable(answer) THEN "record" ELSE "refund"
           x   == [req[r] EXCEPT !.todo = @ \ {p}, !.cur = cur, !.pc = pc]
<1>3. cur \in SUBSET Payments /\ pc \in {"record", "refund"}
  BY <1>2
<1>4. /\ x \in Request /\ req' = [req EXCEPT ![r] = x] /\ req'[r] = x
      /\ x.pc = pc /\ x.todo = req[r].todo \ {p} /\ x.cur = cur
      /\ x.done = req[r].done /\ x.back = req[r].back
  <2>1. req' = [req EXCEPT ![r] = x]
    BY <1>1 DEF PayInv, TypeOK
  <2>2. x.todo \subseteq Payments
    BY <1>2 DEF Request
  <2> HIDE DEF cur, pc
  <2> QED
    BY <1>2, <1>3, <2>1, <2>2 DEF PayInv, TypeOK, Request
<1> HIDE DEF x
<1>5. Advance
  BY <1>1, <1>2 DEF Advance, Exists, WasTaken, PayInv, TypeOK
<1>6. Recordable(answer) => (Exists(p) /\ WasReturned(p))'
  <2> SUFFICES ASSUME answer = "returned" PROVE (Exists(p) /\ WasReturned(p))'
    BY DEF Recordable
  <2>1. NoCash(p) \/ gateway[p] = "captured"
    BY <1>1, <1>2 DEF RefundAnswers, NoCash, WasTaken, PayInv, TypeOK
  <2> QED
    BY <1>1, <1>2, <2>1 DEF Exists, WasReturned, NoCash, PayInv, TypeOK
<1>7. TodoInv(r)'
  BY <1>2, <1>3, <1>4, <1>5, <1>1 DEF TodoInv, Advance, Exists, NoCash, PayInv, TypeOK, Request
<1>8. \A q \in Requests : DoneInv(q)
  BY DEF PayInv, HandlersInv
<1>9. HandlersInv'
  <2>1. \A y \in x.cur \cup x.done : (Exists(y) /\ WasReturned(y))'
    BY <1>1, <1>2, <1>4, <1>5, <1>6, <1>8 DEF DoneInv, Advance, WasReturned, NoCash, Request
  <2>2. \A q \in Requests : \A y \in req[q].back : payment'[y].returned = 0
    BY <1>1, <1>8 DEF DoneInv
  <2>3. \A q \in Requests \ {r} : x.back \cap req[q].back = {}
    BY <1>4, <1>8 DEF DoneInv
  <2> QED
    BY <1>4, <1>5, <1>7, <2>1, <2>2, <2>3, HandlerStep
<1>10. TypeOK'
  BY <1>1, <1>4 DEF PayInv, TypeOK
<1>11. GatewayInv' /\ CoinsReturnedOnce'
  BY <1>1, <1>2, <1>5 DEF Advance, PayInv, GatewayInv, CoinsReturnedOnce, NoCash, WasTaken, WasReturned
<1> QED
  BY <1>9, <1>10, <1>11 DEF PayInv

LEMMA RecordRefundStep ==
    ASSUME PayInv, NEW r \in Requests, RecordRefund(r)
    PROVE  PayInv'
<1>1. PICK p \in req[r].cur :
          /\ req[r].pc = "record" /\ UNCHANGED <<booking, lock, gateway>>
          /\ \/ /\ req' = [req EXCEPT ![r].cur = {}, ![r].pc = "refund", ![r].done = @ \cup {p}]
                /\ UNCHANGED payment
             \/ /\ req' = [req EXCEPT ![r].cur = {}, ![r].pc = "refund"]
                /\ payment' = [payment EXCEPT ![p].status = "refunded"]
  BY DEF RecordRefund
<1>2. /\ req[r] \in Request /\ p \in Payments /\ Exists(p) /\ WasReturned(p)
      /\ \A y \in req[r].todo : Exists(y) /\ (NoCash(y) \/ WasTaken(y))
  BY <1>1 DEF PayInv, TypeOK, HandlersInv, TodoInv, DoneInv, Request
<1> DEFINE x(done) == [req[r] EXCEPT !.cur = {}, !.pc = "refund", !.done = done]
<1>3. ASSUME NEW done \in {req[r].done, req[r].done \cup {p}}, NEW y, y = x(done),
             req' = [req EXCEPT ![r] = y]
      PROVE  /\ y \in Request /\ req'[r] = y /\ y.pc = "refund" /\ y.todo = req[r].todo
             /\ y.cur = {} /\ y.done = done /\ y.back = req[r].back
             /\ y.cur \cup y.done \subseteq req[r].cur \cup req[r].done
  <2>1. done \in SUBSET Payments /\ done \subseteq req[r].cur \cup req[r].done
    BY <1>1, <1>2 DEF Request
  <2>2. y \in Request
    BY <1>2, <1>3, <2>1 DEF Request
  <2>3. /\ y.pc = "refund" /\ y.todo = req[r].todo
        /\ y.cur = {} /\ y.done = done /\ y.back = req[r].back
    BY <1>2, <1>3 DEF Request
  <2> QED
    BY <1>3, <2>1, <2>2, <2>3 DEF PayInv, TypeOK
<1>4. CASE /\ req' = [req EXCEPT ![r].cur = {}, ![r].pc = "refund", ![r].done = @ \cup {p}]
           /\ UNCHANGED payment
  <2> DEFINE y == x(req[r].done \cup {p})
  <2>1. req' = [req EXCEPT ![r] = y]
    BY <1>4 DEF PayInv, TypeOK
  <2> HIDE DEF x
  <2>2. /\ y \in Request /\ req'[r] = y /\ y.pc = "refund" /\ y.todo = req[r].todo
        /\ y.back = req[r].back /\ y.cur \cup y.done \subseteq req[r].cur \cup req[r].done
    BY <1>3, <2>1
  <2> HIDE DEF y
  <2>3. TodoInv(r)'
    BY <1>1, <1>2, <1>4, <2>2 DEF TodoInv, Exists, NoCash, WasTaken
  <2>4. booking' \in Live \cup {"cancelled"} /\ lock' \in Requests \cup {NoRequest}
    BY <1>1 DEF PayInv, TypeOK
  <2> QED
    BY <1>1, <1>4, <2>1, <2>2, <2>3, <2>4, ReadStep
<1>5. CASE /\ req' = [req EXCEPT ![r].cur = {}, ![r].pc = "refund"]
           /\ payment' = [payment EXCEPT ![p].status = "refunded"]
  <2> DEFINE y == x(req[r].done)
             row == [payment[p] EXCEPT !.status = "refunded"]
  <2>1. req' = [req EXCEPT ![r] = y]
    BY <1>2, <1>5 DEF PayInv, TypeOK, Request
  <2> HIDE DEF x
  <2>2. /\ y \in Request /\ req'[r] = y /\ y.pc = "refund" /\ y.todo = req[r].todo
        /\ y.back = req[r].back /\ y.cur \cup y.done \subseteq req[r].cur \cup req[r].done
    BY <1>3, <2>1
  <2>3. /\ row \in Row /\ payment' = [payment EXCEPT ![p] = row] /\ row.status = "refunded"
        /\ row.cash = payment[p].cash /\ row.returned = payment[p].returned
    BY <1>2, <1>5 DEF Row, PayInv, TypeOK
  <2> HIDE DEF y, row
  <2>4. TodoInv(r)'
    <3>1. \A z \in Payments : (Exists(z) => Exists(z)') /\ payment'[z].cash = payment[z].cash
      BY <2>3 DEF Exists, PayInv, TypeOK
    <3> QED
      BY <1>1, <1>2, <2>2, <3>1 DEF TodoInv, NoCash, WasTaken, Request
  <2> QED
    BY <1>1, <1>2, <2>1, <2>2, <2>3, <2>4, RowStep
<1> QED
  BY <1>1, <1>4, <1>5

LEMMA RefundsDoneStep ==
    ASSUME PayInv, NEW r \in Requests, RefundsDone(r)
    PROVE  PayInv'
<1>1. /\ Finish(r) \/ Goto(r, "coins")
      /\ UNCHANGED <<payment, gateway>>
      /\ booking' \in Live \cup {"cancelled"} /\ lock' \in Requests \cup {NoRequest}
  BY DEF RefundsDone, PayInv, TypeOK
<1> QED
  BY <1>1, EndStep, MoveStep

LEMMA ListRedemptionsStep ==
    ASSUME PayInv, NEW r \in Requests, ListRedemptions(r)
    PROVE  PayInv'
<1> DEFINE redeemed == {p \in Payments : payment[p].debited /\ payment[p].returned = 0}
           x == [req[r] EXCEPT !.todo = redeemed, !.pc = "reverse"]
<1>1. redeemed \in SUBSET Payments
  OBVIOUS
<1>2. req' = [req EXCEPT ![r] = x]
  BY DEF ListRedemptions, PayInv, TypeOK
<1> HIDE DEF redeemed
<1>3. /\ x \in Request /\ req'[r] = x /\ x.pc = "reverse" /\ x.cur = req[r].cur
      /\ x.done = req[r].done /\ x.back = req[r].back
  <2>1. req[r] \in Request /\ req'[r] = x
    BY <1>2 DEF PayInv, TypeOK
  <2>2. x \in Request
    BY <1>1, <2>1 DEF Request
  <2>3. x.pc = "reverse" /\ x.cur = req[r].cur /\ x.done = req[r].done /\ x.back = req[r].back
    BY <2>1 DEF Request
  <2> QED
    BY <2>1, <2>2, <2>3
<1> HIDE DEF x
<1>4. TodoInv(r)'
  BY <1>3 DEF TodoInv
<1>5. /\ UNCHANGED <<payment, gateway>>
      /\ booking' \in Live \cup {"cancelled"} /\ lock' \in Requests \cup {NoRequest}
  BY DEF ListRedemptions, PayInv, TypeOK
<1> QED
  BY <1>2, <1>3, <1>4, <1>5, ReadStep

(* A redemption is reversed where no transaction in flight has reversed it *)
(* and no earlier reversal is recorded.                                    *)
LEMMA ReverseRedemptionStep ==
    ASSUME PayInv, NEW r \in Requests, ReverseRedemption(r)
    PROVE  PayInv'
<1>1. PICK p \in req[r].todo :
          /\ req[r].pc = "reverse" /\ RedemptionFree(p) /\ UNCHANGED <<booking, gateway>>
          /\ IF AlreadyReversed(p)
             THEN /\ Finish(r) /\ UNCHANGED payment
                  /\ lock' = IF lock = r THEN NoRequest ELSE lock
             ELSE /\ UNCHANGED lock
                  /\ \/ /\ req' = [req EXCEPT ![r].todo = @ \ {p}, ![r].back = @ \cup {p}]
                        /\ UNCHANGED payment
                     \/ /\ req' = [req EXCEPT ![r].todo = @ \ {p}]
                        /\ payment' = [payment EXCEPT ![p].returned = @ + 1]
  BY DEF ReverseRedemption
<1>2. p \in Payments /\ req[r] \in Request /\ req[r].todo \ {p} \in SUBSET Payments
  BY <1>1 DEF PayInv, TypeOK, Request
<1>3. CASE AlreadyReversed(p)
  <2>1. booking' \in Live \cup {"cancelled"} /\ lock' \in Requests \cup {NoRequest}
    BY <1>1, <1>3 DEF PayInv, TypeOK
  <2> QED
    BY <1>1, <1>3, <2>1, EndStep
<1>4. ASSUME ~AlreadyReversed(p) PROVE payment[p].returned = 0
  BY <1>2, <1>4 DEF AlreadyReversed, PayInv, TypeOK, Row
<1>5. CASE /\ ~AlreadyReversed(p) /\ UNCHANGED payment
           /\ req' = [req EXCEPT ![r].todo = @ \ {p}, ![r].back = @ \cup {p}]
  <2> DEFINE x == [req[r] EXCEPT !.todo = @ \ {p}, !.back = @ \cup {p}]
  <2>1. /\ x \in Request /\ x.pc = "reverse" /\ x.cur = req[r].cur
        /\ x.done = req[r].done /\ x.back = req[r].back \cup {p}
    <3>1. req[r].back \cup {p} \in SUBSET Payments
      BY <1>2 DEF Request
    <3> QED
      BY <1>1, <1>2, <3>1 DEF Request
  <2>2. req' = [req EXCEPT ![r] = x] /\ req'[r] = x
    BY <1>5 DEF PayInv, TypeOK
  <2> HIDE DEF x
  <2>3. TodoInv(r)'
    BY <2>1, <2>2 DEF TodoInv
  <2>4. Advance
    BY <1>1, <1>5 DEF Advance, Exists, WasTaken
  <2>5. \A q \in Requests : DoneInv(q)
    BY DEF PayInv, HandlersInv
  <2>6. HandlersInv'
    <3>1. \A y \in x.cur \cup x.done : (Exists(y) /\ WasReturned(y))'
      BY <1>1, <1>5, <2>1, <2>5 DEF DoneInv, Exists, WasReturned, NoCash
    <3>2. \A y \in x.back : payment'[y].returned = 0
      BY <1>4, <1>5, <2>1, <2>5 DEF DoneInv
    <3>3. \A q \in Requests \ {r} : x.back \cap req[q].back = {}
      BY <1>1, <2>1, <2>5 DEF DoneInv, RedemptionFree
    <3>4. \A q \in Requests : \A y \in req[q].back : payment'[y].returned = 0
      BY <1>5, <2>5 DEF DoneInv
    <3> QED
      BY <2>1, <2>2, <2>3, <2>4, <3>1, <3>2, <3>3, <3>4, HandlerStep
  <2>7. TypeOK' /\ GatewayInv' /\ CoinsReturnedOnce'
    BY <1>1, <1>5, <2>1, <2>2 DEF PayInv, TypeOK, GatewayInv, CoinsReturnedOnce,
       NoCash, WasTaken, WasReturned
  <2> QED
    BY <2>6, <2>7 DEF PayInv
<1>6. CASE /\ ~AlreadyReversed(p)
           /\ req' = [req EXCEPT ![r].todo = @ \ {p}]
           /\ payment' = [payment EXCEPT ![p].returned = @ + 1]
  <2> DEFINE x == [req[r] EXCEPT !.todo = @ \ {p}]
             row == [payment[p] EXCEPT !.returned = @ + 1]
  <2>1. /\ x \in Request /\ x.pc = "reverse" /\ x.cur = req[r].cur
        /\ x.done = req[r].done /\ x.back = req[r].back
    BY <1>1, <1>2 DEF Request
  <2>2. req' = [req EXCEPT ![r] = x] /\ req'[r] = x
    BY <1>6 DEF PayInv, TypeOK
  <2>3. /\ row \in Row /\ payment' = [payment EXCEPT ![p] = row] /\ row.returned = 1
        /\ row.cash = payment[p].cash /\ row.status = payment[p].status
    BY <1>2, <1>4, <1>6 DEF Row, PayInv, TypeOK
  <2> HIDE DEF x, row
  <2>4. TodoInv(r)'
    BY <2>1, <2>2 DEF TodoInv
  <2>5. /\ payment[p].status = "paid" => NoCash(p) \/ WasTaken(p)
        /\ payment[p].status = "refunded" => WasReturned(p)
    BY <1>2 DEF PayInv, GatewayInv
  <2>6. UNCHANGED <<booking, lock, gateway>> /\ RedemptionFree(p)
    BY <1>1, <1>6
  <2> QED
    BY <1>2, <2>1, <2>2, <2>3, <2>4, <2>5, <2>6, RowStep DEF Exists
<1> QED
  BY <1>1, <1>3, <1>5, <1>6

(* The artist's transaction commits the refunds and reversals it recorded. *)
LEMMA CancelDoneStep ==
    ASSUME PayInv, NEW r \in Requests, CancelDone(r)
    PROVE  PayInv'
<1>1. CASE /\ booking' = "cancelled" /\ lock' = NoRequest
           /\ payment' = [p \in Payments |->
                  [payment[p] EXCEPT !.status = IF p \in req[r].done THEN "refunded" ELSE @,
                                     !.returned = IF p \in req[r].back THEN @ + 1 ELSE @]]
  <2>1. Finish(r) /\ UNCHANGED gateway /\ \A q \in Requests : DoneInv(q)
    BY DEF CancelDone, PayInv, HandlersInv
  <2>2. \A p \in Payments :
           /\ payment'[p] \in Row /\ payment'[p].cash = payment[p].cash
           /\ payment'[p].status = IF p \in req[r].done THEN "refunded" ELSE payment[p].status
           /\ payment'[p].returned = IF p \in req[r].back THEN payment[p].returned + 1
                                                          ELSE payment[p].returned
    <3> SUFFICES ASSUME NEW p \in Payments
                 PROVE  /\ payment'[p] \in Row /\ payment'[p].cash = payment[p].cash
                        /\ payment'[p].status = IF p \in req[r].done THEN "refunded"
                                                                       ELSE payment[p].status
                        /\ payment'[p].returned = IF p \in req[r].back THEN payment[p].returned + 1
                                                                        ELSE payment[p].returned
      OBVIOUS
    <3> DEFINE st == IF p \in req[r].done THEN "refunded" ELSE payment[p].status
               n  == IF p \in req[r].back THEN payment[p].returned + 1 ELSE payment[p].returned
    <3>1. payment[p] \in Row
      BY DEF PayInv, TypeOK
    <3>2. payment'[p] = [payment[p] EXCEPT !.status = st, !.returned = n]
      BY <1>1
    <3>3. st \in {"none", "pending", "paid", "failed", "refunded"} /\ n \in Nat
      BY <3>1 DEF Row
    <3>4. payment'[p] \in Row /\ payment'[p].cash = payment[p].cash
          /\ payment'[p].status = st /\ payment'[p].returned = n
      <4> HIDE DEF st, n
      <4> QED
        BY <3>1, <3>2, <3>3 DEF Row
    <3> QED
      BY <3>4
  <2>3. Advance
    BY <2>1, <2>2 DEF Advance, Exists, WasTaken
  <2>4. \A q \in Requests \ {r} : \A p \in req[q].back : payment'[p].returned = 0
    BY <2>1, <2>2 DEF DoneInv, PayInv, TypeOK, Request
  <2>5. HandlersInv' /\ req' \in [Requests -> Request]
    BY <2>1, <2>3, <2>4, FinishStep
  <2>6. TypeOK'
    BY <1>1, <2>1, <2>2, <2>5 DEF TypeOK, PayInv
  <2>7. GatewayInv'
    BY <2>1, <2>2 DEF PayInv, GatewayInv, DoneInv, NoCash, WasTaken, WasReturned
  <2>8. CoinsReturnedOnce'
    <3> SUFFICES ASSUME NEW p \in Payments PROVE payment'[p].returned <= 1
      BY DEF CoinsReturnedOnce
    <3>1. payment[p].returned <= 1 /\ payment[p].returned \in Nat
          /\ (p \in req[r].back => payment[p].returned = 0)
      BY <2>1 DEF PayInv, CoinsReturnedOnce, DoneInv, TypeOK, Row
    <3> QED
      BY <2>2, <3>1
  <2> QED
    BY <2>5, <2>6, <2>7, <2>8 DEF PayInv
<1>2. CASE UNCHANGED <<booking, lock, payment>>
  <2>1. booking' \in Live \cup {"cancelled"} /\ lock' \in Requests \cup {NoRequest}
    BY <1>2 DEF PayInv, TypeOK
  <2> QED
    BY <1>2, <2>1, EndStep DEF CancelDone
<1> QED
  BY <1>1, <1>2 DEF CancelDone

LEMMA AbandonStep ==
    ASSUME PayInv, NEW r \in Requests, Abandon(r)
    PROVE  PayInv'
<1>1. booking' \in Live \cup {"cancelled"} /\ lock' \in Requests \cup {NoRequest}
  BY DEF Abandon, PayInv, TypeOK
<1> QED
  BY <1>1, EndStep DEF Abandon
-----------------------------------------------------------------------------
LEMMA InitPay == Init => PayInv
BY IdleRequest, NoRowType DEF Init, PayInv, TypeOK, Live, HandlersInv, TodoInv, DoneInv, GatewayInv,
   CoinsReturnedOnce, Idle, NoRow

LEMMA NextPay == PayInv /\ [Next]_vars => PayInv'
<1> SUFFICES ASSUME PayInv, [Next]_vars PROVE PayInv'
  OBVIOUS
<1>1. ASSUME NEW r \in Requests, CheckoutNext(r) PROVE PayInv'
  BY <1>1, InitiateReadStep, CreatePaymentStep, VerifyReadStep, PlaceOrderStep,
     DebitRedemptionStep, WalletStep, FetchStep, MarkPaidStep, MarkFailedStep DEF CheckoutNext
<1>2. ASSUME NEW r \in Requests, CancelNext(r) PROVE PayInv'
  BY <1>2, CancelReadStep, WriteCancelledStep, ListPaidStep, RefundAtGatewayStep,
     RecordRefundStep, RefundsDoneStep, ListRedemptionsStep, ReverseRedemptionStep,
     CancelDoneStep DEF CancelNext
<1>3. CASE UNCHANGED vars
  BY <1>3 DEF vars, PayInv, TypeOK, HandlersInv, TodoInv, DoneInv, GatewayInv, CoinsReturnedOnce,
     Exists, NoCash, WasTaken, WasReturned
<1> QED
  BY <1>1, <1>2, <1>3, AbandonStep, KnownStep, CaptureStep, ConfirmStep DEF Next

(* Whatever the interleaving of checkouts, verifications, cancellations    *)
(* and dying workers, rows and handlers keep their types and the handlers  *)
(* know what they rely on.                                                 *)
THEOREM PayInvariance == Spec => []PayInv
BY InitPay, NextPay, PTL DEF Spec
-----------------------------------------------------------------------------
(* The cash of the paid payments. *)

(* The cash of the paid payments is at most that of any set they came from. *)
LEMMA PaidSum ==
    ASSUME PayInv, PayInv', NEW U \in SUBSET Payments,
           \A q \in Payments : payment'[q].status = "paid" =>
               q \in U /\ payment'[q].cash = payment[q].cash
    PROVE  total_paid' \in Nat /\ total_paid' <= SumFunctionOnSet(CashOf, U)
<1> DEFINE f == CashOf
           g == CashOf'
           T == WithStatus("paid")'
<1>1. /\ T \subseteq Payments /\ T \subseteq U
      /\ \A q \in Payments : f[q] \in Nat /\ g[q] \in Nat
      /\ \A q \in T : g[q] = f[q]
  BY DEF WithStatus, CashOf, PayInv, TypeOK, Row
<1>2. IsFiniteSet(Payments)
  OBVIOUS
<1>3. total_paid' = SumFunctionOnSet(g, T)
  BY DEF total_paid
<1>4. SumFunctionOnSet(CashOf, U) = SumFunctionOnSet(f, U)
  OBVIOUS
<1> HIDE DEF f, g, T
<1>5. IsFiniteSet(T) /\ IsFiniteSet(U)
  BY <1>1, <1>2, FS_Subset
<1>6. SumFunctionOnSet(g, T) = SumFunctionOnSet(f, T)
  BY <1>1, <1>5, SumSame
<1>7. SumFunctionOnSet(g, T) \in Nat
  BY <1>1, <1>5, SumNat
<1>8. SumFunctionOnSet(f, T) <= SumFunctionOnSet(f, U)
  BY <1>1, <1>5, SumNat
<1> QED
  BY <1>3, <1>4, <1>6, <1>7, <1>8

(* The redemptions settle at least nothing.                                *)
LEMMA SettledCoversPaid ==
    ASSUME PayInv
    PROVE  total_settled \in Nat /\ total_paid \in Nat /\ total_paid <= total_settled
<1> DEFINE S == WithStatus("paid")
           U == {p \in WithStatus("paid") : payment[p].debited}
<1>1. /\ S \subseteq Payments /\ U \subseteq Payments
      /\ \A q \in Payments : CashOf[q] \in Nat /\ TierOf[q] \in Nat
  BY DEF WithStatus, CashOf, TierOf, PayInv, TypeOK, Row
<1>2. total_paid = SumFunctionOnSet(CashOf, S)
      /\ total_settled = total_paid + SumFunctionOnSet(TierOf, U)
  BY DEF total_paid, total_settled
<1> HIDE DEF S, U
<1>3. IsFiniteSet(S) /\ IsFiniteSet(U)
  BY <1>1, FS_Subset
<1>4. SumFunctionOnSet(CashOf, S) \in Nat /\ SumFunctionOnSet(TierOf, U) \in Nat
  BY <1>1, <1>3, SumNat
<1> QED
  BY <1>2, <1>4

(* Only the two ways to settle make a payment paid, and no step changes    *)
(* the cash of one that is.                                                *)
BecomesPaid(p) == \A q \in Payments : payment'[q].status = "paid" =>
    /\ payment[q].status = "paid" \/ q = p
    /\ payment'[q].cash = payment[q].cash

PaidStays == \A q \in Payments : payment'[q].status = "paid" =>
    payment[q].status = "paid" /\ payment'[q].cash = payment[q].cash

LEMMA CheckoutPaid ==
    ASSUME PayInv, NEW r \in Requests, CheckoutNext(r)
    PROVE  \/ PaidStays
           \/ \E p \in Payments : BecomesPaid(p) /\ (NoCash(p) \/ Fits(p))
<1> USE DEF PaidStays
<1>0. /\ payment \in [Payments -> Row] /\ req[r].todo \subseteq Payments
      /\ (req[r].pc = "settle" => \A p \in req[r].todo : NoCash(p))
  BY DEF PayInv, TypeOK, Request, HandlersInv, TodoInv
<1>1. ASSUME NEW p \in Payments, CreatePayment(r, p) PROVE PaidStays
  <2>1. PICK row : row.status = "pending" /\ payment' = [payment EXCEPT ![p] = row]
    BY <1>1 DEF CreatePayment, NoRow
  <2> QED
    BY <1>0, <2>1
<1>2. CASE PlaceOrder(r)
  BY <1>0, <1>2 DEF PlaceOrder, Row
<1>3. CASE DebitRedemption(r)
  BY <1>0, <1>3 DEF DebitRedemption, Row
<1>4. CASE mark_paid_via_wallet(r)
  BY <1>0, <1>4 DEF mark_paid_via_wallet, BecomesPaid, Row
<1>5. CASE mark_paid_checked(r)
  BY <1>0, <1>5 DEF mark_paid_checked, BecomesPaid, Row
<1>6. CASE mark_failed(r)
  BY <1>0, <1>6 DEF mark_failed, Row
<1> QED
  BY <1>1, <1>2, <1>3, <1>4, <1>5, <1>6
     DEF CheckoutNext, InitiateRead, VerifyRead, FetchFromGateway

LEMMA OtherPaid ==
    ASSUME PayInv, NEW r \in Requests, CancelNext(r) \/ Abandon(r)
    PROVE  PaidStays
<1> USE DEF PaidStays
<1>0. /\ payment \in [Payments -> Row]
      /\ req[r].todo \subseteq Payments /\ req[r].cur \subseteq Payments
  BY DEF PayInv, TypeOK, Request
<1>1. CASE RecordRefund(r)
  BY <1>0, <1>1 DEF RecordRefund, Row
<1>2. CASE ReverseRedemption(r)
  BY <1>0, <1>2 DEF ReverseRedemption, Row
<1>3. CASE CancelDone(r)
  <2>1. CASE UNCHANGED payment
    BY <2>1
  <2>2. CASE payment' = [p \in Payments |->
                  [payment[p] EXCEPT !.status = IF p \in req[r].done THEN "refunded" ELSE @,
                                     !.returned = IF p \in req[r].back THEN @ + 1 ELSE @]]
    BY <1>0, <2>2 DEF Row
  <2> QED
    BY <1>3, <2>1, <2>2 DEF CancelDone
<1> QED
  BY <1>1, <1>2, <1>3 DEF CancelNext, CancelRead, WriteCancelled, ListPaid, RefundAtGateway,
     RefundsDone, ListRedemptions, Abandon

LEMMA NextCash ==
    ASSUME PayInv, CashWithinTotal, PayInv', [Next]_vars
    PROVE  CashWithinTotal'
<1>1. /\ Total \in Nat /\ \A q \in Payments : payment[q].cash \in Nat
      /\ total_settled \in Nat /\ total_paid \in Nat /\ total_paid <= total_settled
  BY SettledCoversPaid DEF PayInv, TypeOK, Row
<1>2. /\ total_paid = SumFunctionOnSet(CashOf, WithStatus("paid"))
      /\ WithStatus("paid") \in SUBSET Payments /\ IsFiniteSet(WithStatus("paid"))
      /\ \A q \in Payments : CashOf[q] = payment[q].cash /\ CashOf[q] \in Int
  BY <1>1, FS_Subset DEF total_paid, WithStatus, CashOf
<1>3. ASSUME PaidStays PROVE CashWithinTotal'
  <2>1. \A q \in Payments : payment'[q].status = "paid" =>
           q \in WithStatus("paid") /\ payment'[q].cash = payment[q].cash
    BY <1>3 DEF PaidStays, WithStatus
  <2>2. total_paid' \in Nat /\ total_paid' <= total_paid
    BY <1>2, <2>1, PaidSum
  <2> QED
    BY <1>1, <2>2 DEF CashWithinTotal
<1>4. ASSUME NEW p \in Payments, BecomesPaid(p), NoCash(p) \/ Fits(p) PROVE CashWithinTotal'
  <2>1. CASE p \in WithStatus("paid")
    <3>1. PaidStays
      BY <1>4, <2>1 DEF PaidStays, BecomesPaid, WithStatus
    <3> QED
      BY <1>3, <3>1
  <2>2. CASE p \notin WithStatus("paid")
    <3> DEFINE U == WithStatus("paid") \cup {p}
    <3>1. \A q \in Payments : payment'[q].status = "paid" =>
             q \in U /\ payment'[q].cash = payment[q].cash
      BY <1>4 DEF BecomesPaid, WithStatus
    <3>2. U \in SUBSET Payments
      BY <1>2
    <3>3. SumFunctionOnSet(CashOf, U) = total_paid + payment[p].cash
      BY <1>2, <2>2, SumAdd
    <3> HIDE DEF U
    <3>4. total_paid' \in Nat /\ total_paid' <= total_paid + payment[p].cash
      BY <3>1, <3>2, <3>3, PaidSum
    <3>5. total_paid + payment[p].cash <= Total
      BY <1>1, <1>4 DEF NoCash, Fits, CashWithinTotal
    <3> QED
      BY <1>1, <3>4, <3>5 DEF CashWithinTotal
  <2> QED
    BY <2>1, <2>2
<1>5. CASE \E r \in Requests : CheckoutNext(r)
  BY <1>3, <1>4, <1>5, CheckoutPaid
<1>6. CASE \E r \in Requests : CancelNext(r) \/ Abandon(r)
  BY <1>3, <1>6, OtherPaid
<1>7. CASE (\E p \in Payments : ReuseOrder(p) \/ PendingWindowEnds(p) \/ Capture(p))
           \/ Confirm \/ UNCHANGED vars
  <2>1. payment \in [Payments -> Row]
    BY DEF PayInv, TypeOK
  <2>2. PaidStays
    BY <1>7, <2>1 DEF ReuseOrder, PendingWindowEnds, Capture, Confirm, vars, PaidStays, Row
  <2> QED
    BY <1>3, <2>2
<1> QED
  BY <1>5, <1>6, <1>7 DEF Next

LEMMA InitCash == Init => CashWithinTotal
<1> SUFFICES ASSUME Init PROVE CashWithinTotal
  OBVIOUS
<1>1. WithStatus("paid") = {}
  BY DEF Init, WithStatus, NoRow
<1>2. total_paid = 0
  BY <1>1, SumEmpty DEF total_paid
<1> QED
  BY <1>2 DEF CashWithinTotal

(* The cash of the paid payments never exceeds the price of the booking,   *)
(* however many orders were open at once and in whatever order the         *)
(* verifications of mark_paid_checked came.                                *)
THEOREM SettlementIsSound == Spec => []SettlementSound
<1>1. Init => PayInv /\ CashWithinTotal
  BY InitPay, InitCash
<1>2. PayInv /\ CashWithinTotal /\ [Next]_vars => (PayInv /\ CashWithinTotal)'
  BY NextPay, NextCash
<1>3. PayInv /\ CashWithinTotal => SettlementSound
  BY DEF PayInv, SettlementSound
<1> QED
  BY <1>1, <1>2, <1>3, PTL DEF Spec

(* A payment the table calls refunded had its cash returned by the         *)
(* gateway: mark_refunded runs on an answer the gateway gave, whatever     *)
(* else happened between the answer and the save.                          *)
THEOREM RefundsAreTrue == Spec => []RefundClaimsTrue
<1>1. PayInv => RefundClaimsTrue
  BY DEF PayInv, TypeOK, Row, GatewayInv, RefundClaimsTrue, WasReturned, NoCash
<1> QED
  BY <1>1, PayInvariance, PTL

(* However many cancellations reverse redemptions at once, the coins of    *)
(* one come back at most once.                                             *)
THEOREM CoinsReturnOnce == Spec => []CoinsReturnedOnce
<1>1. PayInv => CoinsReturnedOnce
  BY DEF PayInv
<1> QED
  BY <1>1, PayInvariance, PTL
=============================================================================
