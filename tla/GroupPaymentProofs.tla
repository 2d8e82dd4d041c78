------------------------- MODULE GroupPaymentProofs -------------------------
(***************************************************************************)
(* That group orders over the same bookings, verified and cancelled at     *)
(* once, keep each booking's cash within its price, are paid as a whole    *)
(* and claim only the refunds the gateway made: for every set of bookings, *)
(* orders and requests.                                                    *)
(***************************************************************************)
EXTENDS GroupPayment, SumFacts, SequenceTheorems

USE GroupAssumption

Exists(o) == order[o].status # "none"
Within(o, b) == total_paid(b) + order[o].share[b].amount <= Price[b]
Returned(p) == p[2] \in gateway[p[1]].returned

(* An order is paid with its payments, and only the payments of its list   *)
(* are ever paid.                                                          *)
OrderInv == \A o \in Orders, b \in Bookings :
    /\ order[o].share[b].status = "paid" => order[o].status = "paid" /\ b \in Range(order[o].list)
    /\ order[o].status = "paid" /\ b \in Range(order[o].list)
           => order[o].share[b].status \in {"paid", "refunded"}

(* Where a handler is, and that the orders it works on exist.              *)
PlaceInv(r) ==
    /\ req[r].op \in {"verify", "fail"} => req[r].pc = "lock"
    /\ req[r].pc \in {"create", "place"} => req[r].op = "initiate" /\ req[r].held = {}
    /\ req[r].pc = "refund" => req[r].op = "cancel"
    /\ \A o \in req[r].order : Exists(o)
    /\ req[r].op = "cancel" /\ req[r].pc = "lock"
           => /\ Head(req[r].list) \in Bookings
              /\ req[r].held \subseteq Bookings /\ Range(req[r].todo) \subseteq Bookings

(* A verification has locked every booking of its order or has yet to, and *)
(* the cash of the order fits the bookings it has locked.                  *)
VerifyInv(r) == req[r].op = "verify" => \A o \in req[r].order : \A b \in Range(order[o].list) :
    /\ b \in req[r].held \cup Range(req[r].todo)
    /\ b \in req[r].held => Within(o, b)

(* A share a cancellation has updated, or is about to, the gateway has     *)
(* returned.                                                               *)
RefundInv(r) == req[r].pc = "refund" =>
    \A p \in req[r].listed : p \in req[r].held \cup Range(req[r].todo) => Returned(p)

Exclusive == \A r, q \in Requests : r # q => req[r].held \cap req[q].held = {}

HandlersInv == \A r \in Requests : PlaceInv(r) /\ VerifyInv(r) /\ RefundInv(r)

GroupInv == TypeOK /\ OrderInv /\ HandlersInv /\ Exclusive /\ ShareRefundTrue /\ CashWithinPrice
-----------------------------------------------------------------------------
(* Sequences of rows. *)

LEMMA RangeHead ==
    ASSUME NEW S, NEW s \in Seq(S), s # <<>>
    PROVE  /\ Head(s) \in S /\ Tail(s) \in Seq(S) /\ Head(s) \in Range(s)
           /\ \A x \in Range(s) : x = Head(s) \/ x \in Range(Tail(s))
           /\ Range(Tail(s)) \subseteq Range(s)
<1>1. /\ Head(s) = s[1] /\ 1 \in DOMAIN s /\ Len(s) \in Nat /\ DOMAIN s = 1..Len(s)
      /\ Tail(s) \in Seq(S) /\ Len(Tail(s)) = Len(s) - 1 /\ DOMAIN Tail(s) = 1..(Len(s) - 1)
      /\ \A i \in 1..(Len(s) - 1) : Tail(s)[i] = s[i + 1]
  OBVIOUS
<1>2. ASSUME NEW x \in Range(s), x # Head(s) PROVE x \in Range(Tail(s))
  <2>1. PICK i \in 1..Len(s) : x = s[i]
    BY <1>1 DEF Range
  <2>2. i - 1 \in 1..(Len(s) - 1) /\ s[(i - 1) + 1] = s[i]
    BY <1>1, <1>2, <2>1
  <2>3. Tail(s)[i - 1] = x
    BY <1>1, <2>1, <2>2
  <2> QED
    BY <1>1, <2>2, <2>3 DEF Range
<1>3. ASSUME NEW x \in Range(Tail(s)) PROVE x \in Range(s)
  BY <1>1 DEF Range
<1>4. Head(s) \in Range(s) /\ Head(s) \in S
  BY <1>1 DEF Range
<1> QED
  BY <1>1, <1>2, <1>3, <1>4

LEMMA RangeEmpty == Range(<<>>) = {}
BY DEF Range

LEMMA RangeConcat ==
    ASSUME NEW S, NEW s \in Seq(S), NEW t \in Seq(S)
    PROVE  s \o t \in Seq(S) /\ Range(s) \cup Range(t) \subseteq Range(s \o t)
<1>1. /\ s \o t \in Seq(S) /\ Len(s) \in Nat /\ Len(t) \in Nat
      /\ DOMAIN s = 1..Len(s) /\ DOMAIN t = 1..Len(t) /\ DOMAIN (s \o t) = 1..(Len(s) + Len(t))
      /\ \A i \in 1..Len(s) : (s \o t)[i] = s[i]
      /\ \A i \in 1..Len(t) : (s \o t)[Len(s) + i] = t[i]
  OBVIOUS
<1>2. ASSUME NEW x \in Range(s) PROVE x \in Range(s \o t)
  <2>1. PICK i \in 1..Len(s) : x = s[i]
    BY <1>1 DEF Range
  <2>2. i \in 1..(Len(s) + Len(t)) /\ (s \o t)[i] = x
    BY <1>1, <2>1
  <2> QED
    BY <1>1, <2>2 DEF Range
<1>3. ASSUME NEW x \in Range(t) PROVE x \in Range(s \o t)
  <2>1. PICK i \in 1..Len(t) : x = t[i]
    BY <1>1 DEF Range
  <2>2. Len(s) + i \in 1..(Len(s) + Len(t)) /\ (s \o t)[Len(s) + i] = x
    BY <1>1, <2>1
  <2> QED
    BY <1>1, <2>2 DEF Range
<1> QED
  BY <1>1, <1>2, <1>3

LEMMA RangeIn ==
    ASSUME NEW S, NEW s \in Seq(S)
    PROVE  Range(s) \subseteq S
BY DEF Range

LEMMA OneRow ==
    ASSUME NEW S, NEW x \in S
    PROVE  <<x>> \in Seq(S) /\ Range(<<x>>) = {x} /\ Head(<<x>>) = x /\ <<x>> # <<>>
BY DEF Range
-----------------------------------------------------------------------------
(* Rows. *)

LEMMA IdleRequest == Idle \in Request
<1>1. <<>> \in Seq(Bookings) /\ <<>> \in Seq(Rows)
  OBVIOUS
<1> QED
  BY <1>1 DEF Idle, Request

LEMMA OrderType ==
    ASSUME TypeOK, NEW o \in Orders
    PROVE  /\ order[o] \in PaymentOrder /\ order[o].list \in Seq(Bookings)
           /\ Range(order[o].list) \subseteq Bookings
           /\ \A b \in Bookings : /\ order[o].share[b].amount \in Nat
                                  /\ order[o].share[b].status \in Statuses
BY RangeIn DEF TypeOK, PaymentOrder, Share

(* What is locked before a failure is written, and after a capture.        *)
LEMMA RowsToLock ==
    ASSUME TypeOK, NEW o \in Orders
    PROVE  /\ PaymentRows(o) \in Seq(Rows) /\ order[o].list \in Seq(Rows) /\ <<o>> \in Seq(Rows)
           /\ FailureLocks(o) \in Seq(Rows)
           /\ PaymentRows(o) \o order[o].list \o <<o>> \in Seq(Rows)
           /\ Range(order[o].list) \subseteq Range(PaymentRows(o) \o order[o].list \o <<o>>)
<1>1. order[o].list \in Seq(Bookings)
  BY OrderType
<1>2. PaymentRows(o) \in Seq(Rows)
  <2>1. /\ DOMAIN order[o].list = 1..Len(order[o].list) /\ Len(order[o].list) \in Nat
        /\ \A i \in DOMAIN order[o].list : order[o].list[i] \in Bookings
    BY <1>1
  <2>2. PaymentRows(o) \in [1..Len(order[o].list) -> Rows]
    BY <2>1 DEF PaymentRows, Rows, Payments
  <2> QED
    BY <2>1, <2>2
<1>3. order[o].list \in Seq(Rows)
  BY <1>1 DEF Rows
<1>4. <<o>> \in Seq(Rows)
  BY DEF Rows
<1>5. FailureLocks(o) \in Seq(Rows)
  BY <1>2, <1>4, RangeConcat DEF FailureLocks
<1>6. /\ PaymentRows(o) \o order[o].list \in Seq(Rows)
      /\ Range(order[o].list) \subseteq Range(PaymentRows(o) \o order[o].list)
  BY <1>2, <1>3, RangeConcat
<1>7. /\ (PaymentRows(o) \o order[o].list) \o <<o>> \in Seq(Rows)
      /\ Range(PaymentRows(o) \o order[o].list)
            \subseteq Range((PaymentRows(o) \o order[o].list) \o <<o>>)
  BY <1>4, <1>6, RangeConcat
<1> QED
  BY <1>2, <1>3, <1>4, <1>5, <1>6, <1>7

(* The order and the payments of its list change together.                 *)
LEMMA WithStatusFacts ==
    ASSUME TypeOK, NEW o \in Orders, NEW s \in Statuses, NEW w, w = WithStatus(o, s)
    PROVE  /\ w \in [Orders -> PaymentOrder] /\ \A z \in Orders \ {o} : w[z] = order[z]
           /\ w[o].status = s /\ w[o].list = order[o].list
           /\ \A b \in Bookings : /\ w[o].share[b].amount = order[o].share[b].amount
                                  /\ w[o].share[b].status = IF b \in Range(order[o].list) THEN s
                                                            ELSE order[o].share[b].status
<1> DEFINE sh == [b \in Bookings |-> IF b \in Range(order[o].list)
                      THEN [order[o].share[b] EXCEPT !.status = s] ELSE order[o].share[b]]
           row == [order[o] EXCEPT !.status = s, !.share = sh]
<1>1. order[o] \in PaymentOrder /\ order[o].share \in [Bookings -> Share]
  BY DEF TypeOK, PaymentOrder
<1>2. w = [order EXCEPT ![o] = row]
  BY <1>1 DEF WithStatus, TypeOK, PaymentOrder
<1>3. /\ sh \in [Bookings -> Share]
      /\ \A b \in Bookings : /\ sh[b].amount = order[o].share[b].amount
                             /\ sh[b].status = IF b \in Range(order[o].list) THEN s
                                               ELSE order[o].share[b].status
  BY <1>1 DEF Share
<1> HIDE DEF sh
<1>4. row \in PaymentOrder /\ row.status = s /\ row.list = order[o].list /\ row.share = sh
  BY <1>1, <1>3 DEF PaymentOrder
<1> HIDE DEF row
<1> QED
  BY <1>2, <1>3, <1>4 DEF TypeOK

(* The cash of a booking is at most that of any orders it came from.       *)
LEMMA PaidSum ==
    ASSUME TypeOK, TypeOK', NEW b \in Bookings, NEW U \in SUBSET Orders,
           \A o \in Orders : order'[o].share[b].status = "paid" =>
               o \in U /\ order'[o].share[b].amount = order[o].share[b].amount
    PROVE  total_paid(b)' \in Nat /\ total_paid(b)' <= SumFunctionOnSet(CashOf(b), U)
<1> DEFINE f == CashOf(b)
           g == CashOf(b)'
           T == PaidOrders(b)'
<1>1. /\ T \subseteq Orders /\ T \subseteq U
      /\ \A o \in Orders : f[o] \in Nat /\ g[o] \in Nat
      /\ \A o \in T : g[o] = f[o]
  BY DEF PaidOrders, CashOf, TypeOK, PaymentOrder, Share
<1>2. IsFiniteSet(Orders)
  OBVIOUS
<1>3. total_paid(b)' = SumFunctionOnSet(g, T)
  BY DEF total_paid
<1>4. SumFunctionOnSet(CashOf(b), U) = SumFunctionOnSet(f, U)
  OBVIOUS
<1> HIDE DEF f, g, T
<1>5. IsFiniteSet(T) /\ IsFiniteSet(U)
  BY <1>1, <1>2, FS_Subset
<1>6. SumFunctionOnSet(g, T) = SumFunctionOnSet(f, T)
  BY <1>1, <1>5, SumSame
<1>7. SumFunctionOnSet(g, T) \in Nat
  BY <1>1, <1>5, SumNat
<1>8. SumFunctionOnSet(f, T) <= SumFunctionOnSet(f, U)
  BY <1>1, <1>5, SumNat
<1> QED
  BY <1>3, <1>4, <1>6, <1>7, <1>8

LEMMA PaidFacts ==
    ASSUME TypeOK, NEW b \in Bookings
    PROVE  /\ total_paid(b) = SumFunctionOnSet(CashOf(b), PaidOrders(b)) /\ total_paid(b) \in Nat
           /\ PaidOrders(b) \in SUBSET Orders /\ IsFiniteSet(PaidOrders(b))
           /\ \A o \in Orders : /\ CashOf(b)[o] = order[o].share[b].amount
                                /\ CashOf(b)[o] \in Nat
<1>1. PaidOrders(b) \in SUBSET Orders /\ IsFiniteSet(PaidOrders(b))
  BY FS_Subset DEF PaidOrders
<1>2. \A o \in Orders : CashOf(b)[o] = order[o].share[b].amount /\ CashOf(b)[o] \in Nat
  BY DEF CashOf, TypeOK, PaymentOrder, Share
<1>3. SumFunctionOnSet(CashOf(b), PaidOrders(b)) \in Nat
  BY <1>1, <1>2, SumNat
<1> QED
  BY <1>1, <1>2, <1>3 DEF total_paid

(* An amount still due is positive: the sum settled is a natural number.   *)
LEMMA SettledNat ==
    ASSUME TypeOK, NEW b \in Bookings
    PROVE  total_settled(b) \in Nat /\ total_paid(b) \in Nat /\ total_paid(b) <= total_settled(b)
<1>1. \A o \in Orders : Redeemed(b)[o] \in Nat
  BY DEF Redeemed, TypeOK, PaymentOrder
<1>2. SumFunctionOnSet(Redeemed(b), PaidOrders(b)) \in Nat
  BY <1>1, PaidFacts, SumNat
<1> QED
  BY <1>2, PaidFacts DEF total_settled

(* No step adds cash to a booking none of whose payments becomes paid.     *)
LEMMA CashKept ==
    ASSUME TypeOK, TypeOK', NEW b \in Bookings,
           \A o \in Orders : order'[o].share[b].status = "paid" =>
               /\ order[o].share[b].status = "paid"
               /\ order'[o].share[b].amount = order[o].share[b].amount
    PROVE  total_paid(b)' \in Nat /\ total_paid(b)' <= total_paid(b)
<1>1. \A o \in Orders : order'[o].share[b].status = "paid" =>
          o \in PaidOrders(b) /\ order'[o].share[b].amount = order[o].share[b].amount
  BY DEF PaidOrders
<1> QED
  BY <1>1, PaidFacts, PaidSum

-----------------------------------------------------------------------------
(* A step of r that leaves the orders: the gateway returns more or nothing. *)
LEMMA RequestStep ==
    ASSUME GroupInv, NEW r \in Requests, NEW x \in Request, req' = [req EXCEPT ![r] = x],
           UNCHANGED order, booking' \in [Bookings -> Live \cup {"cancelled"}],
           gateway' \in [Orders -> [captured : BOOLEAN, returned : SUBSET Bookings]],
           \A o \in Orders : gateway[o].returned \subseteq gateway'[o].returned,
           PlaceInv(r)', VerifyInv(r)', RefundInv(r)',
           \A q \in Requests \ {r} : x.held \cap req[q].held = {}
    PROVE  GroupInv'
<1>1. req'[r] = x /\ \A q \in Requests \ {r} : req'[q] = req[q]
  BY DEF GroupInv, TypeOK
<1>2. TypeOK'
  BY DEF GroupInv, TypeOK
<1>3. \A b \in Bookings : total_paid(b)' = total_paid(b)
  BY DEF total_paid, CashOf, PaidOrders
<1>4. ASSUME NEW q \in Requests \ {r} PROVE PlaceInv(q)' /\ VerifyInv(q)' /\ RefundInv(q)'
  <2>1. PlaceInv(q) /\ VerifyInv(q) /\ RefundInv(q) /\ req'[q] = req[q] /\ req[q] \in Request
    BY <1>1 DEF GroupInv, HandlersInv, TypeOK
  <2>2. PlaceInv(q)'
    BY <2>1 DEF PlaceInv, Exists
  <2>3. VerifyInv(q)'
    <3>1. ASSUME NEW o \in req[q].order, NEW b \in Range(order[o].list)
          PROVE  Within(o, b) => Within(o, b)'
      <4>1. b \in Bookings
        BY <2>1, OrderType DEF GroupInv, Request
      <4> QED
        BY <1>3, <4>1 DEF Within
    <3> QED
      BY <2>1, <3>1 DEF VerifyInv
  <2>4. RefundInv(q)'
    <3>1. \A y \in req[q].listed : y[1] \in Orders
      BY <2>1 DEF Request, Payments
    <3> QED
      BY <2>1, <3>1 DEF RefundInv, Returned
  <2> QED
    BY <2>2, <2>3, <2>4
<1>5. HandlersInv'
  BY <1>4 DEF HandlersInv
<1>6. Exclusive'
  BY <1>1 DEF Exclusive, GroupInv
<1>7. OrderInv' /\ ShareRefundTrue'
  BY DEF GroupInv, OrderInv, ShareRefundTrue
<1>8. CashWithinPrice'
  BY <1>3 DEF GroupInv, CashWithinPrice
<1> QED
  BY <1>2, <1>5, <1>6, <1>7, <1>8 DEF GroupInv

LEMMA EndStep ==
    ASSUME GroupInv, NEW r \in Requests, Finish(r), UNCHANGED <<booking, order, gateway>>
    PROVE  GroupInv'
<1>1. req'[r] = Idle /\ req' = [req EXCEPT ![r] = Idle]
  BY DEF Finish, GroupInv, TypeOK
<1>2. PlaceInv(r)' /\ VerifyInv(r)' /\ RefundInv(r)'
  BY <1>1 DEF PlaceInv, VerifyInv, RefundInv, Idle
<1>3. \A q \in Requests \ {r} : Idle.held \cap req[q].held = {}
  BY DEF Idle
<1>4. /\ booking' \in [Bookings -> Live \cup {"cancelled"}]
      /\ gateway' \in [Orders -> [captured : BOOLEAN, returned : SUBSET Bookings]]
      /\ \A o \in Orders : gateway[o].returned \subseteq gateway'[o].returned
  BY DEF GroupInv, TypeOK
<1> QED
  BY <1>1, <1>2, <1>3, <1>4, IdleRequest, RequestStep

(* A step of r that changes orders and holds nothing after it: the orders  *)
(* that exist keep their lists and amounts, and only bookings r has locked *)
(* may gain cash.                                                          *)
LEMMA OrderStep ==
    ASSUME GroupInv, NEW r \in Requests, NEW x \in Request, req' = [req EXCEPT ![r] = x],
           x.held = {},
           (x.op = "none" /\ x.pc = "idle") \/ (x.op = "initiate" /\ x.pc = "place"),
           \A o \in x.order : Exists(o)',
           UNCHANGED gateway, booking' \in [Bookings -> Live \cup {"cancelled"}],
           order' \in [Orders -> PaymentOrder],
           \A o \in Orders : Exists(o) =>
               /\ Exists(o)' /\ order'[o].list = order[o].list
               /\ \A b \in Bookings : order'[o].share[b].amount = order[o].share[b].amount,
           \A b \in Bookings \ req[r].held : total_paid(b)' \in Nat /\ total_paid(b)' <= total_paid(b),
           OrderInv', ShareRefundTrue', CashWithinPrice'
    PROVE  GroupInv'
<1>1. req'[r] = x /\ \A q \in Requests \ {r} : req'[q] = req[q]
  BY DEF GroupInv, TypeOK
<1>2. TypeOK'
  BY DEF GroupInv, TypeOK
<1>3. PlaceInv(r)' /\ VerifyInv(r)' /\ RefundInv(r)'
  BY <1>1 DEF PlaceInv, VerifyInv, RefundInv
<1>4. ASSUME NEW q \in Requests \ {r} PROVE PlaceInv(q)' /\ VerifyInv(q)' /\ RefundInv(q)'
  <2>1. PlaceInv(q) /\ VerifyInv(q) /\ RefundInv(q) /\ req'[q] = req[q] /\ req[q] \in Request
    BY <1>1 DEF GroupInv, HandlersInv, TypeOK
  <2>2. \A o \in req[q].order : o \in Orders /\ Exists(o)
    BY <2>1 DEF PlaceInv, Request
  <2>3. PlaceInv(q)'
    BY <2>1, <2>2 DEF PlaceInv
  <2>4. VerifyInv(q)'
    <3>1. ASSUME NEW o \in req[q].order, NEW b \in Range(order[o].list), b \in req[q].held,
                 Within(o, b)
          PROVE  Within(o, b)'
      <4>1. b \in Bookings /\ b \notin req[r].held
        BY <2>2, <3>1, OrderType DEF GroupInv, Exclusive
      <4>2. order'[o].share[b].amount = order[o].share[b].amount /\ order[o].share[b].amount \in Nat
        BY <2>2, <4>1, OrderType DEF GroupInv
      <4>3. Price[b] \in Nat /\ total_paid(b) \in Nat
            /\ total_paid(b)' \in Nat /\ total_paid(b)' <= total_paid(b)
        BY <4>1, PaidFacts DEF GroupInv
      <4> QED
        BY <3>1, <4>2, <4>3 DEF Within
    <3>2. \A o \in req[q].order : order'[o].list = order[o].list
      BY <2>2
    <3> QED
      BY <2>1, <3>1, <3>2 DEF VerifyInv
  <2>5. RefundInv(q)'
    BY <2>1 DEF RefundInv, Returned
  <2> QED
    BY <2>3, <2>4, <2>5
<1>5. HandlersInv'
  BY <1>3, <1>4 DEF HandlersInv
<1>6. Exclusive'
  BY <1>1 DEF Exclusive, GroupInv
<1> QED
  BY <1>2, <1>5, <1>6 DEF GroupInv

(* A step of r that sets the status of an order and its payments and ends. *)
LEMMA StatusStep ==
    ASSUME GroupInv, NEW r \in Requests, Finish(r), NEW o \in Orders, NEW s \in {"paid", "failed"},
           order' = WithStatus(o, s), UNCHANGED <<booking, gateway>>,
           s = "paid" => \A b \in Range(order[o].list) : b \in req[r].held /\ Within(o, b)
    PROVE  GroupInv'
<1>1. TypeOK /\ s \in Statuses
  BY DEF GroupInv, Statuses
<1>2. /\ order' \in [Orders -> PaymentOrder] /\ \A z \in Orders \ {o} : order'[z] = order[z]
      /\ order'[o].status = s /\ order'[o].list = order[o].list
      /\ \A b \in Bookings : /\ order'[o].share[b].amount = order[o].share[b].amount
                             /\ order'[o].share[b].status = IF b \in Range(order[o].list) THEN s
                                                            ELSE order[o].share[b].status
  <2> DEFINE w == order'
  <2>1. w = WithStatus(o, s)
    OBVIOUS
  <2> HIDE DEF w
  <2>2. /\ w \in [Orders -> PaymentOrder] /\ \A z \in Orders \ {o} : w[z] = order[z]
        /\ w[o].status = s /\ w[o].list = order[o].list
        /\ \A b \in Bookings : /\ w[o].share[b].amount = order[o].share[b].amount
                               /\ w[o].share[b].status = IF b \in Range(order[o].list) THEN s
                                                         ELSE order[o].share[b].status
    BY <1>1, <2>1, WithStatusFacts
  <2> QED
    BY <2>2 DEF w
<1>3. req' = [req EXCEPT ![r] = Idle] /\ req' \in [Requests -> Request]
  BY <1>1, IdleRequest DEF Finish, TypeOK
<1>4. TypeOK'
  BY <1>1, <1>2, <1>3 DEF TypeOK
<1>5. OrderInv' /\ ShareRefundTrue'
  <2>1. OrderInv /\ ShareRefundTrue
    BY DEF GroupInv
  <2>2. OrderInv'
    BY <1>2, <2>1 DEF OrderInv
  <2>3. ShareRefundTrue'
    BY <1>2, <2>1 DEF ShareRefundTrue
  <2> QED
    BY <2>2, <2>3
<1>6. ASSUME NEW b \in Bookings, s = "failed" \/ b \notin Range(order[o].list)
      PROVE  total_paid(b)' \in Nat /\ total_paid(b)' <= total_paid(b)
  <2>1. \A z \in Orders : order'[z].share[b].status = "paid" =>
               /\ order[z].share[b].status = "paid"
               /\ order'[z].share[b].amount = order[z].share[b].amount
    BY <1>2, <1>6
  <2> QED
    BY <1>1, <1>4, <2>1, CashKept
<1>7. ASSUME NEW b \in Bookings, s = "paid", b \in Range(order[o].list)
      PROVE  total_paid(b)' \in Nat /\ total_paid(b)' <= Price[b]
  <2> DEFINE U == PaidOrders(b) \cup {o}
  <2>1. PaidOrders(b) \in SUBSET Orders /\ IsFiniteSet(PaidOrders(b))
        /\ \A z \in Orders : CashOf(b)[z] = order[z].share[b].amount /\ CashOf(b)[z] \in Nat
    BY <1>1, PaidFacts
  <2>2. U \in SUBSET Orders
    BY <2>1
  <2>3. \A z \in Orders : order'[z].share[b].status = "paid" =>
            z \in U /\ order'[z].share[b].amount = order[z].share[b].amount
    BY <1>2 DEF PaidOrders
  <2>4. total_paid(b) = SumFunctionOnSet(CashOf(b), PaidOrders(b)) /\ total_paid(b) \in Nat
    BY <1>1, PaidFacts
  <2>5. SumFunctionOnSet(CashOf(b), U) <= total_paid(b) + order[o].share[b].amount
    <3>1. CASE o \in PaidOrders(b)
      <4>1. SumFunctionOnSet(CashOf(b), U) = total_paid(b)
        <5>1. U = PaidOrders(b)
          BY <3>1
        <5> QED
          BY <2>4, <5>1
      <4>2. order[o].share[b].amount \in Nat
        BY <2>1
      <4> HIDE DEF U
      <4> QED
        BY <2>4, <4>1, <4>2
    <3>2. CASE o \notin PaidOrders(b)
      <4>1. SumFunctionOnSet(CashOf(b), U) = total_paid(b) + order[o].share[b].amount
        BY <2>1, <2>4, <3>2, SumAdd
      <4> QED
        BY <2>1, <2>4, <4>1
    <3> QED
      BY <3>1, <3>2
  <2>6. IsFiniteSet(U)
    BY <2>1, FS_AddElement
  <2> HIDE DEF U
  <2>7. total_paid(b)' \in Nat /\ total_paid(b)' <= SumFunctionOnSet(CashOf(b), U)
    BY <1>1, <1>4, <2>2, <2>3, PaidSum
  <2>8. SumFunctionOnSet(CashOf(b), U) \in Nat
    BY <2>1, <2>2, <2>6, SumNat
  <2>9. total_paid(b) + order[o].share[b].amount <= Price[b] /\ Price[b] \in Nat
        /\ order[o].share[b].amount \in Nat
    BY <1>7, <2>1 DEF Within
  <2> QED
    BY <2>4, <2>5, <2>7, <2>8, <2>9
<1>8. CashWithinPrice'
  <2> SUFFICES ASSUME NEW b \in Bookings PROVE total_paid(b)' <= Price[b]
    BY DEF CashWithinPrice
  <2>1. CASE s = "paid" /\ b \in Range(order[o].list)
    BY <1>7, <2>1
  <2>2. CASE s = "failed" \/ b \notin Range(order[o].list)
    <3>1. total_paid(b) <= Price[b] /\ total_paid(b) \in Nat /\ Price[b] \in Nat
      BY <1>1, PaidFacts DEF GroupInv, CashWithinPrice
    <3> QED
      BY <1>6, <2>2, <3>1
  <2> QED
    BY <2>1, <2>2
<1>9. /\ \A b \in Bookings \ req[r].held : total_paid(b)' \in Nat /\ total_paid(b)' <= total_paid(b)
      /\ booking' \in [Bookings -> Live \cup {"cancelled"}]
      /\ \A z \in Orders : Exists(z) =>
               /\ Exists(z)' /\ order'[z].list = order[z].list
               /\ \A b \in Bookings : order'[z].share[b].amount = order[z].share[b].amount
  BY <1>1, <1>2, <1>6 DEF TypeOK, Exists
<1>10. /\ Idle.op = "none" /\ Idle.pc = "idle"
       /\ Idle.held = {} /\ Idle.order = {}
  BY DEF Idle
<1> QED
  BY <1>2, <1>3, <1>5, <1>8, <1>9, <1>10, IdleRequest, OrderStep

-----------------------------------------------------------------------------
(* Checkout. *)

LEMMA InitiateReadStep ==
    ASSUME GroupInv, NEW r \in Requests, NEW list \in Lists, NEW tier \in Tiers,
           InitiateRead(r, list, tier)
    PROVE  GroupInv'
<1> DEFINE dues == [b \in Bookings |-> IF b \in Range(list) THEN due(b) ELSE 0]
           x == [Idle EXCEPT !.op = "initiate", !.pc = "create", !.list = list,
                             !.tier = tier, !.due = dues]
<1>1. dues \in [Bookings -> Nat]
  <2> SUFFICES ASSUME NEW b \in Bookings, b \in Range(list) PROVE due(b) \in Nat
    OBVIOUS
  <2>1. due(b) > 0 /\ total_settled(b) \in Nat /\ Price[b] \in Nat
    BY SettledNat DEF InitiateRead, GroupInv
  <2> QED
    BY <2>1 DEF due
<1>2. list \in Seq(Bookings)
  BY DEF Lists
<1>3. req' = [req EXCEPT ![r] = x] /\ req'[r] = x
  BY DEF InitiateRead, GroupInv, TypeOK
<1> HIDE DEF dues
<1>4. /\ x \in Request /\ x.op = "initiate" /\ x.pc = "create"
      /\ x.held = {} /\ x.order = {}
  <2>1. tier \in Tiers \cup {0}
    OBVIOUS
  <2> QED
    BY <1>1, <1>2, <2>1, IdleRequest DEF Request, Idle
<1> HIDE DEF x
<1>5. PlaceInv(r)' /\ VerifyInv(r)' /\ RefundInv(r)'
  BY <1>3, <1>4 DEF PlaceInv, VerifyInv, RefundInv
<1>6. UNCHANGED <<booking, order, gateway>>
  BY DEF InitiateRead
<1>7. /\ booking' \in [Bookings -> Live \cup {"cancelled"}]
      /\ gateway' \in [Orders -> [captured : BOOLEAN, returned : SUBSET Bookings]]
      /\ \A o \in Orders : gateway[o].returned \subseteq gateway'[o].returned
      /\ \A q \in Requests \ {r} : x.held \cap req[q].held = {}
  BY <1>4, <1>6 DEF GroupInv, TypeOK
<1> QED
  BY <1>3, <1>4, <1>5, <1>6, <1>7, RequestStep

LEMMA CreateOrderStep ==
    ASSUME GroupInv, NEW r \in Requests, NEW o \in Orders, CreateOrder(r, o)
    PROVE  GroupInv'
<1>1. CASE ~TierFits(r)
  BY <1>1, EndStep DEF CreateOrder
<1>2. CASE TierFits(r)
  <2> DEFINE sh == [b \in Bookings |-> IF b \in Range(req[r].list)
                      THEN [status |-> "pending", amount |-> charge_amount(r, b)] ELSE NoShare]
             row == [NoOrder EXCEPT !.status = "pending", !.list = req[r].list,
                                    !.tier = req[r].tier, !.share = sh]
             x == [req[r] EXCEPT !.pc = "place", !.order = {o}]
  <2>1. /\ req[r] \in Request /\ order[o].status = "none" /\ req[r].pc = "create"
        /\ UNCHANGED <<booking, gateway>>
    BY DEF GroupInv, TypeOK, CreateOrder
  <2>2. /\ sh \in [Bookings -> Share] /\ \A b \in Bookings : sh[b].status \in {"none", "pending"}
    <3> SUFFICES ASSUME NEW b \in Bookings PROVE charge_amount(r, b) \in Nat
      BY DEF Share, NoShare, Statuses
    <3>1. req[r].due[b] \in Nat /\ req[r].tier \in Nat
      BY <2>1 DEF Request
    <3> QED
      BY <1>2, <3>1 DEF TierFits, charge_amount
  <2>3. order' = [order EXCEPT ![o] = row] /\ req' = [req EXCEPT ![r] = x]
    BY <1>2 DEF CreateOrder, GroupInv, TypeOK
  <2> HIDE DEF sh
  <2>4. row \in PaymentOrder /\ row.status = "pending" /\ row.share = sh
    BY <2>1, <2>2 DEF PaymentOrder, NoOrder, Request, Statuses
  <2>5. /\ x \in Request /\ x.pc = "place" /\ x.order = {o}
        /\ x.op = req[r].op /\ x.held = req[r].held
    BY <2>1 DEF Request
  <2> HIDE DEF row, x
  <2>6. /\ order' \in [Orders -> PaymentOrder] /\ order'[o] = row
        /\ \A z \in Orders \ {o} : order'[z] = order[z]
    BY <2>3, <2>4 DEF GroupInv, TypeOK
  <2>7. TypeOK'
    BY <2>1, <2>3, <2>5, <2>6 DEF GroupInv, TypeOK
  <2>8. \A b \in Bookings : total_paid(b)' \in Nat /\ total_paid(b)' <= total_paid(b)
    <3> SUFFICES ASSUME NEW b \in Bookings PROVE total_paid(b)' \in Nat /\ total_paid(b)' <= total_paid(b)
      OBVIOUS
    <3>1. \A z \in Orders : order'[z].share[b].status = "paid" =>
               /\ order[z].share[b].status = "paid"
               /\ order'[z].share[b].amount = order[z].share[b].amount
      BY <2>2, <2>4, <2>6
    <3> QED
      BY <2>7, <3>1, CashKept DEF GroupInv
  <2>9. CashWithinPrice'
    <3> SUFFICES ASSUME NEW b \in Bookings PROVE total_paid(b)' <= Price[b]
      BY DEF CashWithinPrice
    <3>1. total_paid(b) <= Price[b] /\ total_paid(b) \in Nat /\ Price[b] \in Nat
      BY PaidFacts DEF GroupInv, CashWithinPrice
    <3> QED
      BY <2>8, <3>1
  <2>10. OrderInv' /\ ShareRefundTrue'
    BY <2>1, <2>2, <2>4, <2>6 DEF GroupInv, OrderInv, ShareRefundTrue
  <2>11. /\ \A z \in x.order : Exists(z)'
         /\ \A z \in Orders : Exists(z) =>
               /\ Exists(z)' /\ order'[z].list = order[z].list
               /\ \A b \in Bookings : order'[z].share[b].amount = order[z].share[b].amount
    BY <2>1, <2>4, <2>5, <2>6 DEF Exists
  <2>12. booking' \in [Bookings -> Live \cup {"cancelled"}]
    BY <2>1 DEF GroupInv, TypeOK
  <2>13. x.op = "initiate" /\ x.held = {}
    BY <2>1, <2>5 DEF GroupInv, HandlersInv, PlaceInv
  <2> QED
    BY <2>1, <2>3, <2>5, <2>6, <2>8, <2>9, <2>10, <2>11, <2>12, <2>13, OrderStep
<1> QED
  BY <1>1, <1>2

LEMMA PlaceOrderStep ==
    ASSUME GroupInv, NEW r \in Requests, PlaceOrder(r)
    PROVE  GroupInv'
<1>1. PICK o \in req[r].order :
          /\ \/ order' = [order EXCEPT ![o].known = TRUE, ![o].debited = (req[r].tier > 0)]
             \/ order' = WithStatus(o, "failed")
          /\ Finish(r) /\ UNCHANGED <<booking, gateway>>
  BY DEF PlaceOrder
<1>2. o \in Orders
  BY DEF GroupInv, TypeOK, Request
<1>3. CASE order' = WithStatus(o, "failed")
  BY <1>1, <1>2, <1>3, StatusStep
<1>4. ASSUME NEW debited \in BOOLEAN,
             order' = [order EXCEPT ![o].known = TRUE, ![o].debited = debited]
      PROVE  GroupInv'
  <2> DEFINE row == [order[o] EXCEPT !.known = TRUE, !.debited = debited]
  <2>1. /\ row \in PaymentOrder /\ order' = [order EXCEPT ![o] = row]
        /\ row.status = order[o].status /\ row.list = order[o].list /\ row.share = order[o].share
    <3>1. order[o] \in PaymentOrder
      BY <1>2 DEF GroupInv, TypeOK
    <3>2. row \in PaymentOrder
      BY <3>1 DEF PaymentOrder
    <3>3. row.status = order[o].status /\ row.list = order[o].list /\ row.share = order[o].share
      BY <3>1 DEF PaymentOrder
    <3>4. order' = [order EXCEPT ![o] = row]
      BY <1>4
    <3> QED
      BY <3>2, <3>3, <3>4
  <2> HIDE DEF row
  <2>2. /\ order' \in [Orders -> PaymentOrder]
        /\ \A z \in Orders : /\ order'[z].status = order[z].status
                             /\ order'[z].list = order[z].list /\ order'[z].share = order[z].share
    BY <2>1 DEF GroupInv, TypeOK
  <2>3. \A b \in Bookings : total_paid(b)' = total_paid(b)
    <3> SUFFICES ASSUME NEW b \in Bookings PROVE total_paid(b)' = total_paid(b)
      OBVIOUS
    <3>1. CashOf(b)' = CashOf(b) /\ PaidOrders(b)' = PaidOrders(b)
      BY <2>2 DEF CashOf, PaidOrders
    <3> QED
      BY <3>1 DEF total_paid
  <2>4. CashWithinPrice' /\ OrderInv' /\ ShareRefundTrue'
    BY <1>1, <2>2, <2>3 DEF GroupInv, CashWithinPrice, OrderInv, ShareRefundTrue
  <2>5. \A b \in Bookings : total_paid(b)' \in Nat /\ total_paid(b)' <= total_paid(b)
    BY <2>3, PaidFacts DEF GroupInv
  <2>6. /\ Idle.op = "none" /\ Idle.pc = "idle"
        /\ Idle.held = {} /\ Idle.order = {}
    BY DEF Idle
  <2>7. /\ booking' \in [Bookings -> Live \cup {"cancelled"}]
        /\ \A z \in Orders : Exists(z) => Exists(z)'
    BY <1>1, <2>2 DEF GroupInv, TypeOK, Exists
  <2> QED
    BY <1>1, <2>2, <2>4, <2>5, <2>6, <2>7, IdleRequest, OrderStep DEF Finish
<1>5. (req[r].tier > 0) \in BOOLEAN
  OBVIOUS
<1> QED
  BY <1>1, <1>3, <1>4, <1>5

LEMMA CaptureStep ==
    ASSUME GroupInv, NEW o \in Orders, Capture(o)
    PROVE  GroupInv'
<1>1. UNCHANGED <<booking, order, req>>
  BY DEF Capture
<1>2. /\ gateway' \in [Orders -> [captured : BOOLEAN, returned : SUBSET Bookings]]
      /\ \A z \in Orders : gateway'[z].returned = gateway[z].returned
  BY DEF Capture, GroupInv, TypeOK
<1>3. \A b \in Bookings : total_paid(b)' = total_paid(b)
  BY <1>1 DEF total_paid, CashOf, PaidOrders
<1>4. ASSUME NEW q \in Requests PROVE PlaceInv(q)' /\ VerifyInv(q)' /\ RefundInv(q)'
  <2>1. PlaceInv(q) /\ VerifyInv(q) /\ RefundInv(q) /\ req[q] \in Request
    BY DEF GroupInv, HandlersInv, TypeOK
  <2>2. PlaceInv(q)'
    BY <1>1, <2>1 DEF PlaceInv, Exists
  <2>3. ASSUME NEW z \in req[q].order, NEW b \in Range(order[z].list)
        PROVE  Within(z, b) => Within(z, b)'
    <3>1. b \in Bookings
      BY <2>1, OrderType DEF GroupInv, Request
    <3> QED
      BY <1>1, <1>3, <3>1 DEF Within
  <2>4. VerifyInv(q)'
    BY <1>1, <2>1, <2>3 DEF VerifyInv
  <2>5. \A y \in req[q].listed : y[1] \in Orders
    BY <2>1 DEF Request, Payments
  <2>6. RefundInv(q)'
    BY <1>1, <1>2, <2>1, <2>5 DEF RefundInv, Returned
  <2> QED
    BY <2>2, <2>4, <2>6
<1> QED
  BY <1>1, <1>2, <1>3, <1>4 DEF GroupInv, TypeOK, HandlersInv, Exclusive, OrderInv,
     ShareRefundTrue, CashWithinPrice

-----------------------------------------------------------------------------
(* Verification. *)

LEMMA WorkStep ==
    ASSUME GroupInv, NEW r \in Requests, NEW x \in Request, req' = [req EXCEPT ![r] = x],
           UNCHANGED <<booking, order, gateway>>, PlaceInv(r)', VerifyInv(r)', RefundInv(r)',
           \A q \in Requests \ {r} : x.held \cap req[q].held = {}
    PROVE  GroupInv'
<1>1. /\ booking' \in [Bookings -> Live \cup {"cancelled"}]
      /\ gateway' \in [Orders -> [captured : BOOLEAN, returned : SUBSET Bookings]]
      /\ \A o \in Orders : gateway[o].returned \subseteq gateway'[o].returned
  BY DEF GroupInv, TypeOK
<1> QED
  BY <1>1, RequestStep

LEMMA VerifyReadStep ==
    ASSUME GroupInv, NEW r \in Requests, NEW o \in Orders, VerifyRead(r, o)
    PROVE  GroupInv'
<1> DEFINE op == IF Captured(o) THEN "verify" ELSE "fail"
           todo == IF Captured(o) THEN PaymentRows(o) \o order[o].list \o <<o>> ELSE FailureLocks(o)
           x == [Idle EXCEPT !.pc = "lock", !.order = {o}, !.op = op, !.todo = todo]
<1>1. /\ op \in {"verify", "fail"} /\ todo \in Seq(Rows)
      /\ op = "verify" => Range(order[o].list) \subseteq Range(todo)
  BY RowsToLock DEF GroupInv
<1>2. req' = [req EXCEPT ![r] = x] /\ req'[r] = x
  BY DEF VerifyRead, GroupInv, TypeOK
<1>3. Exists(o) /\ UNCHANGED <<booking, order, gateway>>
  BY DEF VerifyRead, Exists
<1> HIDE DEF op, todo
<1>4. /\ x \in Request /\ x.op = op /\ x.pc = "lock" /\ x.order = {o}
      /\ x.todo = todo /\ x.held = {}
  <2>1. op \in {"none", "initiate", "verify", "fail", "cancel"} /\ {o} \in SUBSET Orders
    BY <1>1
  <2> QED
    BY <1>1, <2>1, IdleRequest DEF Request, Idle
<1> HIDE DEF x
<1>5. PlaceInv(r)' /\ RefundInv(r)'
  BY <1>1, <1>2, <1>3, <1>4 DEF PlaceInv, RefundInv, Exists
<1>6. VerifyInv(r)'
  BY <1>1, <1>2, <1>3, <1>4 DEF VerifyInv
<1>7. x \in Request /\ \A q \in Requests \ {r} : x.held \cap req[q].held = {}
  BY <1>4
<1>8. req' = [req EXCEPT ![r] = x] /\ UNCHANGED <<booking, order, gateway>>
  BY <1>2, <1>3
<1> QED
  BY <1>5, <1>6, <1>7, <1>8, WorkStep

(* The lock on a booking comes with the check of its total.                *)
LEMMA LockNextStep ==
    ASSUME GroupInv, NEW r \in Requests, LockNext(r)
    PROVE  GroupInv'
<1> DEFINE h == Head(req[r].todo)
<1>1. /\ req[r] \in Request /\ req[r].todo \in Seq(Rows) /\ req[r].todo # <<>>
      /\ req[r].pc = "lock" /\ Free(h, r) /\ UNCHANGED <<booking, order, gateway>>
      /\ PlaceInv(r) /\ VerifyInv(r)
  BY DEF LockNext, GroupInv, TypeOK, Request, HandlersInv
<1>2. /\ h \in Rows /\ Tail(req[r].todo) \in Seq(Rows) /\ h \in Range(req[r].todo)
      /\ \A y \in Range(req[r].todo) : y = h \/ y \in Range(Tail(req[r].todo))
      /\ Range(Tail(req[r].todo)) \subseteq Range(req[r].todo)
  BY <1>1, RangeHead
<1>3. ASSUME NEW o \in req[r].order,
             req' = [req EXCEPT ![r].op = "fail", ![r].held = {}, ![r].todo = FailureLocks(o)],
             req[r].op = "verify"
      PROVE  GroupInv'
  <2> DEFINE todo == FailureLocks(o)
             x == [req[r] EXCEPT !.op = "fail", !.held = {}, !.todo = todo]
  <2>1. todo \in Seq(Rows)
    BY <1>1, RowsToLock DEF GroupInv, Request
  <2>2. req' = [req EXCEPT ![r] = x] /\ req'[r] = x
    BY <1>3 DEF GroupInv, TypeOK
  <2> HIDE DEF todo
  <2>3. /\ x \in Request /\ x.op = "fail" /\ x.pc = "lock" /\ x.order = req[r].order
        /\ x.held = {}
    BY <1>1, <2>1 DEF Request
  <2> HIDE DEF x
  <2>4. PlaceInv(r)' /\ VerifyInv(r)' /\ RefundInv(r)'
    BY <1>1, <2>2, <2>3 DEF PlaceInv, VerifyInv, RefundInv, Exists
  <2> QED
    BY <1>1, <2>2, <2>3, <2>4, WorkStep
<1>4. ASSUME req' = [req EXCEPT ![r].held = @ \cup {h}, ![r].todo = Tail(@)],
             ~(req[r].op = "verify" /\ h \in Bookings /\ \E o \in req[r].order : ~Fits(o, h))
      PROVE  GroupInv'
  <2> DEFINE x == [req[r] EXCEPT !.held = @ \cup {h}, !.todo = Tail(@)]
  <2>1. req' = [req EXCEPT ![r] = x] /\ req'[r] = x
    BY <1>4 DEF GroupInv, TypeOK
  <2> HIDE DEF h
  <2>2. /\ x \in Request /\ x.op = req[r].op /\ x.pc = "lock" /\ x.order = req[r].order
        /\ x.held = req[r].held \cup {h} /\ x.todo = Tail(req[r].todo) /\ x.list = req[r].list
    BY <1>1, <1>2 DEF Request
  <2> HIDE DEF x
  <2>3. PlaceInv(r)' /\ RefundInv(r)'
    BY <1>1, <1>2, <2>1, <2>2 DEF PlaceInv, RefundInv, Exists
  <2>4. VerifyInv(r)'
    <3> SUFFICES ASSUME req[r].op = "verify", NEW o \in req[r].order,
                        NEW b \in Range(order[o].list)
                 PROVE  /\ b \in x.held \cup Range(x.todo)
                        /\ b \in x.held => Within(o, b)'
      BY <1>1, <2>1, <2>2 DEF VerifyInv
    <3>1. o \in Orders /\ b \in Bookings
      BY <1>1, OrderType DEF GroupInv, Request
    <3>2. b \in req[r].held \cup Range(req[r].todo) /\ (b \in req[r].held => Within(o, b))
      BY <1>1 DEF VerifyInv
    <3>3. Within(o, b)' = Within(o, b)
      BY <1>1 DEF Within, total_paid, CashOf, PaidOrders
    <3>4. b = h => Within(o, b)
      <4> SUFFICES ASSUME b = h PROVE Within(o, b)
        OBVIOUS
      <4>1. Fits(o, b)
        BY <1>4, <3>1
      <4>2. /\ total_settled(b) \in Nat /\ total_paid(b) \in Nat /\ total_paid(b) <= total_settled(b)
            /\ order[o].share[b].amount \in Nat /\ Price[b] \in Nat
        BY <3>1, SettledNat, OrderType DEF GroupInv
      <4> QED
        BY <4>1, <4>2 DEF Fits, Within
    <3> QED
      BY <1>2, <2>2, <3>2, <3>3, <3>4
  <2>5. \A q \in Requests \ {r} : x.held \cap req[q].held = {}
    BY <1>1, <2>2 DEF GroupInv, Exclusive, Free
  <2> QED
    BY <1>1, <2>1, <2>2, <2>3, <2>4, <2>5, WorkStep
<1> QED
  BY <1>3, <1>4 DEF LockNext

LEMMA MarkPaidStep ==
    ASSUME GroupInv, NEW r \in Requests, mark_paid(r)
    PROVE  GroupInv'
<1>1. PICK o \in req[r].order :
          /\ req[r].op = "verify" /\ req[r].todo = <<>> /\ order' = WithStatus(o, "paid")
          /\ Finish(r) /\ UNCHANGED <<booking, gateway>>
  BY DEF mark_paid
<1>2. o \in Orders /\ VerifyInv(r)
  BY DEF GroupInv, TypeOK, Request, HandlersInv
<1>3. \A b \in Range(order[o].list) : b \in req[r].held /\ Within(o, b)
  BY <1>1, <1>2, RangeEmpty DEF VerifyInv
<1> QED
  BY <1>1, <1>2, <1>3, StatusStep

LEMMA MarkFailedStep ==
    ASSUME GroupInv, NEW r \in Requests, mark_failed(r)
    PROVE  GroupInv'
<1>1. PICK o \in req[r].order :
          order' = WithStatus(o, "failed") /\ Finish(r) /\ UNCHANGED <<booking, gateway>>
  BY DEF mark_failed, FailedOrder
<1>2. o \in Orders
  BY DEF GroupInv, TypeOK, Request
<1> QED
  BY <1>1, <1>2, StatusStep
-----------------------------------------------------------------------------
(* The cancellation. *)

LEMMA CancelBeginStep ==
    ASSUME GroupInv, NEW r \in Requests, NEW b \in Bookings, CancelBegin(r, b)
    PROVE  GroupInv'
<1> DEFINE one == <<b>>
           x == [Idle EXCEPT !.op = "cancel", !.pc = "lock", !.list = one, !.todo = one]
<1>1. one \in Seq(Bookings) /\ one \in Seq(Rows) /\ Range(one) = {b} /\ Head(one) = b
  <2>1. b \in Rows
    BY DEF Rows
  <2> QED
    BY <2>1, OneRow
<1>2. /\ req' = [req EXCEPT ![r] = x] /\ req'[r] = x /\ UNCHANGED <<booking, order, gateway>>
  BY DEF CancelBegin, GroupInv, TypeOK
<1> HIDE DEF one
<1>3. /\ x \in Request /\ x.op = "cancel" /\ x.pc = "lock" /\ x.order = {}
      /\ x.todo = one /\ x.list = one /\ x.held = {}
  BY <1>1, IdleRequest DEF Idle, Request
<1> HIDE DEF x
<1>4. PlaceInv(r)' /\ VerifyInv(r)' /\ RefundInv(r)'
  BY <1>1, <1>2, <1>3 DEF PlaceInv, VerifyInv, RefundInv
<1> QED
  BY <1>2, <1>3, <1>4, WorkStep

LEMMA CancelListStep ==
    ASSUME GroupInv, NEW r \in Requests, CancelList(r)
    PROVE  GroupInv'
<1> DEFINE b == Head(req[r].list)
           listed == PaidOrders(b) \X {b}
           x == [req[r] EXCEPT !.pc = "refund", !.listed = listed]
<1>1. CASE Finish(r)
  BY <1>1, EndStep DEF CancelList
<1>2. CASE booking[b] \in Live /\ req' = [req EXCEPT ![r].pc = "refund", ![r].listed = listed]
  <2>1. /\ req[r] \in Request /\ req[r].op = "cancel" /\ req[r].pc = "lock" /\ req[r].todo = <<>>
        /\ UNCHANGED <<booking, order, gateway>> /\ PlaceInv(r)
    BY DEF CancelList, GroupInv, TypeOK, HandlersInv
  <2>2. listed \in SUBSET Payments
    <3>1. b \in Bookings
      BY <2>1 DEF PlaceInv
    <3> QED
      BY <3>1 DEF Payments, PaidOrders
  <2>3. req' = [req EXCEPT ![r] = x] /\ req'[r] = x
    BY <1>2 DEF GroupInv, TypeOK
  <2> HIDE DEF listed
  <2>4. /\ x \in Request /\ x.op = "cancel" /\ x.pc = "refund" /\ x.order = req[r].order
        /\ x.todo = <<>> /\ x.held = req[r].held /\ x.listed = listed
    BY <2>1, <2>2 DEF Request
  <2> HIDE DEF x
  <2>5. PlaceInv(r)' /\ VerifyInv(r)'
    BY <2>1, <2>3, <2>4 DEF PlaceInv, VerifyInv, Exists
  <2>6. RefundInv(r)'
    <3>1. \A p \in listed : p \notin req[r].held \cup Range(<<>>)
      BY <2>1, <2>2, RangeEmpty DEF PlaceInv, Payments
    <3> QED
      BY <2>3, <2>4, <3>1 DEF RefundInv
  <2>7. \A q \in Requests \ {r} : x.held \cap req[q].held = {}
    BY <2>4 DEF GroupInv, Exclusive
  <2> QED
    BY <2>1, <2>3, <2>4, <2>5, <2>6, <2>7, WorkStep
<1> QED
  BY <1>1, <1>2 DEF CancelList

LEMMA RefundShareStep ==
    ASSUME GroupInv, NEW r \in Requests, RefundShare(r)
    PROVE  GroupInv'
<1>1. PICK p \in req[r].listed : \E answer \in Answers(p) :
          /\ gateway' = IF answer = "returned"
                        THEN [gateway EXCEPT ![p[1]].returned = @ \cup {p[2]}] ELSE gateway
          /\ req' = IF Recordable(answer) THEN [req EXCEPT ![r].todo = <<p>>]
                                          ELSE [req EXCEPT ![r].listed = @ \ {p}]
  BY DEF RefundShare
<1>2. PICK answer :
          /\ gateway' = IF answer = "returned"
                        THEN [gateway EXCEPT ![p[1]].returned = @ \cup {p[2]}] ELSE gateway
          /\ req' = IF answer = "returned" THEN [req EXCEPT ![r].todo = <<p>>]
                                           ELSE [req EXCEPT ![r].listed = @ \ {p}]
  BY <1>1 DEF Recordable
<1>3. /\ req[r] \in Request /\ req[r].pc = "refund" /\ req[r].todo = <<>>
      /\ PlaceInv(r) /\ VerifyInv(r) /\ RefundInv(r) /\ UNCHANGED <<booking, order>>
      /\ p \in Payments /\ p[1] \in Orders /\ p[2] \in Bookings
      /\ \A y \in req[r].listed : y[1] \in Orders
  BY <1>1 DEF RefundShare, GroupInv, TypeOK, HandlersInv, Request, Payments
<1>4. /\ gateway' \in [Orders -> [captured : BOOLEAN, returned : SUBSET Bookings]]
      /\ \A o \in Orders : gateway[o].returned \subseteq gateway'[o].returned
      /\ answer = "returned" => p[2] \in gateway'[p[1]].returned
  <2>1. CASE answer = "returned"
    <3> DEFINE row == [gateway[p[1]] EXCEPT !.returned = @ \cup {p[2]}]
    <3>1. /\ row \in [captured : BOOLEAN, returned : SUBSET Bookings]
          /\ row.returned = gateway[p[1]].returned \cup {p[2]}
      BY <1>3 DEF GroupInv, TypeOK
    <3>2. gateway' = [gateway EXCEPT ![p[1]] = row]
      BY <1>2, <2>1 DEF GroupInv, TypeOK
    <3> HIDE DEF row
    <3> QED
      BY <1>3, <3>1, <3>2 DEF GroupInv, TypeOK
  <2>2. CASE answer # "returned"
    BY <1>2, <2>2 DEF GroupInv, TypeOK
  <2> QED
    BY <2>1, <2>2
<1>5. booking' \in [Bookings -> Live \cup {"cancelled"}]
  BY <1>3 DEF GroupInv, TypeOK
<1>6. CASE answer = "returned"
  <2> DEFINE one == <<p>>
             x == [req[r] EXCEPT !.todo = one]
  <2>1. one \in Seq(Rows) /\ Range(one) = {p}
    <3>1. p \in Rows
      BY <1>3 DEF Rows
    <3> QED
      BY <3>1, OneRow
  <2>2. req' = [req EXCEPT ![r] = x] /\ req'[r] = x
    BY <1>2, <1>6 DEF GroupInv, TypeOK
  <2> HIDE DEF one
  <2>3. /\ x \in Request /\ x.op = req[r].op /\ x.pc = "refund" /\ x.order = req[r].order
        /\ x.todo = one /\ x.held = req[r].held /\ x.listed = req[r].listed
    BY <1>3, <2>1 DEF Request
  <2> HIDE DEF x
  <2>4. PlaceInv(r)' /\ VerifyInv(r)'
    BY <1>3, <2>2, <2>3 DEF PlaceInv, VerifyInv, Exists
  <2>5. RefundInv(r)'
    BY <1>3, <1>4, <1>6, <2>1, <2>2, <2>3 DEF RefundInv, Returned
  <2>6. \A q \in Requests \ {r} : x.held \cap req[q].held = {}
    BY <2>3 DEF GroupInv, Exclusive
  <2> QED
    BY <1>3, <1>4, <1>5, <2>2, <2>3, <2>4, <2>5, <2>6, RequestStep
<1>7. CASE answer # "returned"
  <2> DEFINE x == [req[r] EXCEPT !.listed = @ \ {p}]
  <2>1. req' = [req EXCEPT ![r] = x] /\ req'[r] = x
    BY <1>2, <1>7 DEF GroupInv, TypeOK
  <2>2. /\ x \in Request /\ x.op = req[r].op /\ x.pc = "refund" /\ x.order = req[r].order
        /\ x.todo = <<>> /\ x.held = req[r].held /\ x.listed = req[r].listed \ {p}
    BY <1>3 DEF Request
  <2> HIDE DEF x
  <2>3. PlaceInv(r)' /\ VerifyInv(r)'
    BY <1>3, <2>1, <2>2 DEF PlaceInv, VerifyInv, Exists
  <2>4. RefundInv(r)'
    BY <1>3, <1>4, <2>1, <2>2 DEF RefundInv, Returned
  <2>5. \A q \in Requests \ {r} : x.held \cap req[q].held = {}
    BY <2>2 DEF GroupInv, Exclusive
  <2> QED
    BY <1>3, <1>4, <1>5, <2>1, <2>2, <2>3, <2>4, <2>5, RequestStep
<1> QED
  BY <1>6, <1>7

LEMMA LockShareStep ==
    ASSUME GroupInv, NEW r \in Requests, LockShare(r)
    PROVE  GroupInv'
<1> DEFINE h == Head(req[r].todo)
           x == [req[r] EXCEPT !.held = @ \cup {h}, !.todo = <<>>]
<1>1. /\ req[r] \in Request /\ req[r].todo \in Seq(Rows) /\ req[r].todo # <<>>
      /\ req[r].pc = "refund" /\ Free(h, r) /\ UNCHANGED <<booking, order, gateway>>
      /\ PlaceInv(r) /\ VerifyInv(r) /\ RefundInv(r)
  BY DEF LockShare, GroupInv, TypeOK, Request, HandlersInv
<1>2. req' = [req EXCEPT ![r] = x] /\ req'[r] = x
  BY DEF LockShare, GroupInv, TypeOK
<1>3. h \in Rows /\ h \in Range(req[r].todo)
  BY <1>1, RangeHead
<1> HIDE DEF h
<1>4. /\ x \in Request /\ x.op = req[r].op /\ x.pc = "refund" /\ x.order = req[r].order
      /\ x.todo = <<>> /\ x.held = req[r].held \cup {h} /\ x.listed = req[r].listed
  <2>1. <<>> \in Seq(Rows)
    OBVIOUS
  <2> QED
    BY <1>1, <1>3, <2>1 DEF Request
<1> HIDE DEF x
<1>5. PlaceInv(r)' /\ VerifyInv(r)'
  BY <1>1, <1>2, <1>4 DEF PlaceInv, VerifyInv, Exists
<1>6. RefundInv(r)'
  BY <1>1, <1>2, <1>3, <1>4, RangeEmpty DEF RefundInv, Returned
<1>7. \A q \in Requests \ {r} : x.held \cap req[q].held = {}
  BY <1>1, <1>4 DEF GroupInv, Exclusive, Free
<1> QED
  BY <1>1, <1>2, <1>4, <1>5, <1>6, <1>7, WorkStep

(* Every share the commit records as refunded was returned.                *)
LEMMA CancelCommitStep ==
    ASSUME GroupInv, NEW r \in Requests, CancelCommit(r)
    PROVE  GroupInv'
<1>1. /\ req[r].pc = "refund" /\ req[r].listed \subseteq req[r].held /\ Finish(r)
      /\ UNCHANGED gateway /\ booking' \in [Bookings -> Live \cup {"cancelled"}]
      /\ order' = [o \in Orders |-> [order[o] EXCEPT !.share =
                    [b \in Bookings |-> IF <<o, b>> \in req[r].listed
                                        THEN [@[b] EXCEPT !.status = "refunded"] ELSE @[b]]]]
  BY DEF CancelCommit, GroupInv, TypeOK
<1>2. \A o \in Orders, b \in Bookings : <<o, b>> \in req[r].listed => b \in gateway[o].returned
  BY <1>1 DEF GroupInv, HandlersInv, RefundInv, Returned
<1>3. \A o \in Orders :
         /\ order'[o] \in PaymentOrder
         /\ order'[o].status = order[o].status /\ order'[o].list = order[o].list
         /\ \A b \in Bookings :
               /\ order'[o].share[b].amount = order[o].share[b].amount
               /\ order'[o].share[b].status = IF <<o, b>> \in req[r].listed THEN "refunded"
                                              ELSE order[o].share[b].status
  <2> SUFFICES ASSUME NEW o \in Orders
               PROVE  /\ order'[o] \in PaymentOrder
                      /\ order'[o].status = order[o].status /\ order'[o].list = order[o].list
                      /\ \A b \in Bookings :
                            /\ order'[o].share[b].amount = order[o].share[b].amount
                            /\ order'[o].share[b].status =
                                  IF <<o, b>> \in req[r].listed THEN "refunded"
                                  ELSE order[o].share[b].status
    OBVIOUS
  <2> DEFINE sh == [b \in Bookings |-> IF <<o, b>> \in req[r].listed
                       THEN [order[o].share[b] EXCEPT !.status = "refunded"] ELSE order[o].share[b]]
  <2>1. order[o] \in PaymentOrder /\ order[o].share \in [Bookings -> Share]
    BY DEF GroupInv, TypeOK, PaymentOrder
  <2>2. order'[o] = [order[o] EXCEPT !.share = sh]
    BY <1>1, <2>1 DEF PaymentOrder
  <2>3. /\ sh \in [Bookings -> Share]
        /\ \A b \in Bookings : /\ sh[b].amount = order[o].share[b].amount
                               /\ sh[b].status = IF <<o, b>> \in req[r].listed THEN "refunded"
                                                 ELSE order[o].share[b].status
    BY <2>1 DEF Share, Statuses
  <2> HIDE DEF sh
  <2> QED
    BY <2>1, <2>2, <2>3 DEF PaymentOrder
<1>4. order' \in [Orders -> PaymentOrder] /\ req' \in [Requests -> Request]
  BY <1>1, <1>3, IdleRequest DEF Finish, GroupInv, TypeOK
<1>5. TypeOK'
  BY <1>1, <1>4 DEF GroupInv, TypeOK
<1>6. ASSUME NEW b \in Bookings
      PROVE  total_paid(b)' \in Nat /\ total_paid(b)' <= total_paid(b)
  <2>1. \A z \in Orders : order'[z].share[b].status = "paid" =>
               /\ order[z].share[b].status = "paid"
               /\ order'[z].share[b].amount = order[z].share[b].amount
    BY <1>3
  <2> QED
    BY <1>5, <2>1, CashKept DEF GroupInv
<1>7. CashWithinPrice'
  <2> SUFFICES ASSUME NEW b \in Bookings PROVE total_paid(b)' <= Price[b]
    BY DEF CashWithinPrice
  <2>1. total_paid(b) <= Price[b] /\ total_paid(b) \in Nat /\ Price[b] \in Nat
    BY PaidFacts DEF GroupInv, CashWithinPrice
  <2> QED
    BY <1>6, <2>1
<1>8. OrderInv'
  <2> SUFFICES ASSUME NEW o \in Orders, NEW b \in Bookings
               PROVE  /\ order'[o].share[b].status = "paid"
                            => order'[o].status = "paid" /\ b \in Range(order'[o].list)
                      /\ order'[o].status = "paid" /\ b \in Range(order'[o].list)
                            => order'[o].share[b].status \in {"paid", "refunded"}
    BY DEF OrderInv
  <2>1. /\ order[o].share[b].status = "paid"
              => order[o].status = "paid" /\ b \in Range(order[o].list)
        /\ order[o].status = "paid" /\ b \in Range(order[o].list)
              => order[o].share[b].status \in {"paid", "refunded"}
    BY DEF GroupInv, OrderInv
  <2>2. order'[o].share[b].status \in {"refunded", order[o].share[b].status}
        /\ order'[o].status = order[o].status /\ order'[o].list = order[o].list
    BY <1>3
  <2> QED
    BY <2>1, <2>2
<1>9. ShareRefundTrue'
  <2> SUFFICES ASSUME NEW o \in Orders, NEW b \in Bookings,
                      order'[o].share[b].status = "refunded", order'[o].share[b].amount > 0
               PROVE  b \in gateway[o].returned
    BY <1>1 DEF ShareRefundTrue
  <2>1. <<o, b>> \in req[r].listed \/ order[o].share[b].status = "refunded"
    BY <1>3
  <2>2. order[o].share[b].amount > 0
    BY <1>3
  <2> QED
    BY <1>2, <2>1, <2>2 DEF GroupInv, ShareRefundTrue
<1>10. /\ Idle.op = "none" /\ Idle.pc = "idle"
       /\ Idle.held = {} /\ Idle.order = {}
  BY DEF Idle
<1>11. \A z \in Orders : Exists(z) => Exists(z)'
  BY <1>3 DEF Exists
<1>12. req' = [req EXCEPT ![r] = Idle] /\ Idle \in Request
  BY <1>1, IdleRequest DEF Finish
<1>13. /\ UNCHANGED gateway /\ booking' \in [Bookings -> Live \cup {"cancelled"}]
       /\ order' \in [Orders -> PaymentOrder]
  BY <1>1, <1>4, <1>5 DEF TypeOK
<1>14. \A o \in Orders : Exists(o) =>
           /\ Exists(o)' /\ order'[o].list = order[o].list
           /\ \A b \in Bookings : order'[o].share[b].amount = order[o].share[b].amount
  BY <1>3, <1>11
<1>15. /\ \A o \in Idle.order : Exists(o)'
       /\ \A b \in Bookings \ req[r].held : total_paid(b)' \in Nat /\ total_paid(b)' <= total_paid(b)
  BY <1>6, <1>10
<1> QED
  BY <1>7, <1>8, <1>9, <1>10, <1>12, <1>13, <1>14, <1>15, OrderStep
-----------------------------------------------------------------------------
LEMMA InitGroup == Init => GroupInv
<1> SUFFICES ASSUME Init PROVE GroupInv
  OBVIOUS
<1>1. NoOrder \in PaymentOrder
  <2>1. <<>> \in Seq(Bookings)
    OBVIOUS
  <2> QED
    BY <2>1 DEF NoOrder, PaymentOrder, Statuses, Share, NoShare
<1>2. TypeOK
  BY <1>1, IdleRequest DEF Init, TypeOK, Live
<1>3. \A o \in Orders, b \in Bookings : order[o].share[b].status = "none" /\ order[o].status = "none"
  BY DEF Init, NoOrder, NoShare
<1>4. CashWithinPrice
  <2> SUFFICES ASSUME NEW b \in Bookings PROVE total_paid(b) <= Price[b]
    BY DEF CashWithinPrice
  <2>1. PaidOrders(b) = {}
    BY <1>3 DEF PaidOrders
  <2>2. total_paid(b) = 0 /\ Price[b] \in Nat
    BY <2>1, SumEmpty DEF total_paid
  <2> QED
    BY <2>2
<1>5. OrderInv /\ ShareRefundTrue
  BY <1>3 DEF OrderInv, ShareRefundTrue
<1>6. HandlersInv /\ Exclusive
  BY DEF Init, Idle, HandlersInv, Exclusive, PlaceInv, VerifyInv, RefundInv
<1> QED
  BY <1>2, <1>4, <1>5, <1>6 DEF GroupInv

LEMMA NextGroup == GroupInv /\ [Next]_vars => GroupInv'
<1> SUFFICES ASSUME GroupInv, [Next]_vars PROVE GroupInv'
  OBVIOUS
<1>1. ASSUME NEW r \in Requests, HandlerStep(r) PROVE GroupInv'
  BY <1>1, PlaceOrderStep, MarkPaidStep, MarkFailedStep, CancelListStep, RefundShareStep,
     CancelCommitStep, EndStep, LockNextStep, LockShareStep DEF HandlerStep, DeadlockVictim
<1>2. CASE UNCHANGED vars
  <2>1. \A b \in Bookings : total_paid(b)' = total_paid(b)
    BY <1>2 DEF vars, total_paid, CashOf, PaidOrders
  <2>2. TypeOK' /\ OrderInv' /\ Exclusive' /\ ShareRefundTrue' /\ CashWithinPrice'
    BY <1>2, <2>1 DEF vars, GroupInv, TypeOK, OrderInv, Exclusive, ShareRefundTrue, CashWithinPrice
  <2>3. HandlersInv'
    <3>1. ASSUME NEW r \in Requests, NEW o \in req[r].order, NEW b \in Range(order[o].list)
          PROVE  Within(o, b) => Within(o, b)'
      <4>1. b \in Bookings
        BY <3>1, OrderType DEF GroupInv, TypeOK, Request
      <4> QED
        BY <1>2, <2>1, <4>1 DEF vars, Within
    <3> QED
      BY <1>2, <3>1 DEF vars, GroupInv, HandlersInv, PlaceInv, VerifyInv, RefundInv, Exists, Returned
  <2> QED
    BY <2>2, <2>3 DEF GroupInv
<1> QED
  BY <1>1, <1>2, InitiateReadStep, CreateOrderStep, VerifyReadStep, CancelBeginStep, CaptureStep
     DEF Next

THEOREM GroupInvariance == Spec => []GroupInv
BY InitGroup, NextGroup, PTL DEF Spec

(* Each booking's cash stays within its price however group orders that    *)
(* overlap are verified: mark_paid_checked compares the total under the    *)
(* lock of the booking and keeps the lock until the order is paid.         *)
THEOREM GroupIsSound == Spec => []GroupSound
<1>1. GroupInv => GroupSound
  BY DEF GroupInv, GroupSound
<1> QED
  BY <1>1, GroupInvariance, PTL

(* A group checkout is paid as a whole, also when a failure, a             *)
(* cancellation and another verification interleave with it.               *)
THEOREM OrdersPaidTogether == Spec => []PaidTogether
<1>1. GroupInv => PaidTogether
  <2> SUFFICES ASSUME GroupInv, NEW o \in Orders, NEW b \in Range(order[o].list)
               PROVE  /\ order[o].share[b].status = "paid" => order[o].status = "paid"
                      /\ order[o].status = "paid" => order[o].share[b].status \in {"paid", "refunded"}
    BY DEF PaidTogether
  <2>1. b \in Bookings
    BY OrderType DEF GroupInv
  <2> QED
    BY <2>1 DEF GroupInv, OrderInv
<1> QED
  BY <1>1, GroupInvariance, PTL

(* A share the cancellation recorded as refunded was returned, though the  *)
(* record comes only with the commit, after every share was asked for.     *)
THEOREM SharesRefundedTruly == Spec => []ShareRefundTrue
<1>1. GroupInv => ShareRefundTrue
  BY DEF GroupInv
<1> QED
  BY <1>1, GroupInvariance, PTL
=============================================================================
