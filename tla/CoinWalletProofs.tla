-------------------------- MODULE CoinWalletProofs --------------------------
(***************************************************************************)
(* That the wallet's ledger adds up row by row, that no redemption comes   *)
(* back twice, that the balance is what the batches hold, and that a debit *)
(* draws the oldest batches first, for every set of bookings, handlers and *)
(* amounts; and that the wallet is the plain account of CoinAccount.       *)
(***************************************************************************)
EXTENDS CoinWallet, SumFacts, SequenceTheorems

USE WalletAssumption

Transaction == [type : Types, booking : Bookings, coins : Int, balance_after : Int,
                remaining : Int, expires_at : Int, reference : Nat]

ShapeInv == /\ balance \in Int /\ now \in Nat
            /\ ledger \in Seq(Transaction)
            /\ reversing \in [Handlers -> SUBSET Rows]
            /\ sweep \subseteq Rows

(* What a handler has listed are redemptions. *)
ReversingInv == \A h \in Handlers : \A i \in reversing[h] : ledger[i].type = "REDEMPTION"

WalletInv == ShapeInv /\ ReversingInv /\ LedgerChained /\ ReversedOnce

(* Two versions of a row that differ in nothing but the remaining coins.   *)
SameEntry(x, y) == /\ x.type = y.type /\ x.booking = y.booking /\ x.coins = y.coins
                   /\ x.balance_after = y.balance_after /\ x.reference = y.reference
-----------------------------------------------------------------------------
(* The empty wallet. *)
LEMMA EmptyWallet == Init => WalletInv
<1> SUFFICES ASSUME Init PROVE WalletInv
  OBVIOUS
<1>1. ledger = <<>> /\ Rows = {} /\ Len(ledger) = 0
  BY DEF Init, Rows
<1>2. ShapeInv
  BY <1>1 DEF Init, ShapeInv
<1>3. ReversingInv /\ ReversedOnce
  BY <1>1 DEF Init, ReversingInv, ReversedOnce
<1>4. LedgerChained
  BY <1>1 DEF Init, LedgerChained, Before
<1> QED
  BY <1>2, <1>3, <1>4 DEF WalletInv

(* Every change of the ledger has this form: some remaining coins change,  *)
(* one row is added, and its coins go into the balance.                    *)
LEMMA OneMoreRow ==
    ASSUME WalletInv,
           NEW L \in Seq(Transaction), NEW e \in Transaction,
           Len(L) = Len(ledger), \A i \in Rows : SameEntry(L[i], ledger[i]),
           ledger' = Append(L, e),
           balance' = balance + e.coins, e.balance_after = balance + e.coins,
           e.type = "REVERSAL" => /\ e.reference \in Rows /\ ~Reversed(e.reference)
                                  /\ ledger[e.reference].type = "REDEMPTION"
                                  /\ e.coins = -ledger[e.reference].coins,
           reversing' \in [Handlers -> SUBSET Rows],
           \A h \in Handlers : reversing'[h] \subseteq reversing[h],
           sweep' \subseteq Rows, now' = now
    PROVE  WalletInv'
<1> PICK n \in Nat : n = Len(ledger)
  BY LenProperties DEF WalletInv, ShapeInv
<1>1. /\ Rows = 1..n /\ Rows' = 1..(n + 1) /\ Len(ledger') = n + 1
      /\ ledger' \in Seq(Transaction)
      /\ \A i \in Rows : ledger'[i] = L[i]
      /\ ledger'[n + 1] = e
  BY AppendProperties, LenProperties DEF WalletInv, ShapeInv, Rows
<1>2. \A i \in Rows : SameEntry(ledger'[i], ledger[i])
  BY <1>1
<1>3. ShapeInv'
  <2>1. balance' \in Int /\ now' \in Nat
    BY DEF WalletInv, ShapeInv, Transaction
  <2>2. reversing' \in [Handlers -> SUBSET Rows'] /\ sweep' \subseteq Rows'
    BY <1>1
  <2> QED
    BY <1>1, <2>1, <2>2 DEF ShapeInv
<1>4. ReversingInv'
  BY <1>2 DEF WalletInv, ReversingInv, SameEntry
<1>5. LedgerChained'
  <2>1. ASSUME NEW i \in Rows PROVE ledger'[i].balance_after = Before(i)' + ledger'[i].coins
    <3>1. ledger[i].balance_after = Before(i) + ledger[i].coins
      BY DEF WalletInv, LedgerChained
    <3>2. Before(i)' = Before(i)
      <4>1. CASE i = 1
        BY <4>1 DEF Before
      <4>2. CASE i # 1
        <5>1. i - 1 \in Rows
          BY <1>1, <4>2
        <5>2. ledger'[i - 1].balance_after = ledger[i - 1].balance_after
          BY <1>2, <5>1 DEF SameEntry
        <5> QED
          BY <4>2, <5>2 DEF Before
      <4> QED
        BY <4>1, <4>2
    <3> QED
      BY <1>2, <3>1, <3>2 DEF SameEntry
  <2>2. Before(n + 1)' = balance
    <3>1. balance = Before(n + 1)
      BY DEF WalletInv, LedgerChained
    <3>2. CASE n = 0
      BY <3>1, <3>2 DEF Before
    <3>3. CASE n > 0
      BY <1>1, <1>2, <3>1, <3>3 DEF Before, SameEntry
    <3> QED
      BY <1>1, <3>2, <3>3
  <2>3. ledger'[n + 1].balance_after = Before(n + 1)' + ledger'[n + 1].coins
    BY <1>1, <2>2
  <2>4. balance' = Before(Len(ledger) + 1)'
    BY <1>1 DEF Before
  <2>5. \A i \in Rows' : ledger'[i].balance_after = Before(i)' + ledger'[i].coins
    BY <1>1, <2>1, <2>3
  <2> QED
    BY <2>4, <2>5 DEF LedgerChained
<1>6. ReversedOnce'
  <2> SUFFICES ASSUME NEW i \in Rows', ledger'[i].type = "REVERSAL"
               PROVE  /\ \A j \in Rows' \ {i} : ledger'[j].type = "REVERSAL"
                             => ledger'[i].reference # ledger'[j].reference
                      /\ \E k \in Rows' : /\ k = ledger'[i].reference
                                          /\ ledger'[k].type = "REDEMPTION"
                                          /\ ledger'[i].coins = -ledger'[k].coins
    BY DEF ReversedOnce
  <2>1. CASE i \in Rows
    <3>1. ASSUME NEW j \in Rows' \ {i}, ledger'[j].type = "REVERSAL"
          PROVE  ledger'[i].reference # ledger'[j].reference
      <4>1. CASE j \in Rows
        <5>1. /\ ledger[i].type = "REVERSAL" /\ ledger[j].type = "REVERSAL" /\ i # j
              /\ ledger'[i].reference = ledger[i].reference
              /\ ledger'[j].reference = ledger[j].reference
          BY <1>2, <2>1, <3>1, <4>1 DEF SameEntry
        <5> QED
          BY <2>1, <4>1, <5>1 DEF WalletInv, ReversedOnce
      <4>2. CASE j = n + 1
        BY <1>1, <1>2, <2>1, <3>1, <4>2 DEF Reversed, SameEntry
      <4> QED
        BY <1>1, <4>1, <4>2
    <3>2. PICK k \in Rows : /\ k = ledger[i].reference /\ ledger[k].type = "REDEMPTION"
                            /\ ledger[i].coins = -ledger[k].coins
      <4>1. ledger[i].type = "REVERSAL"
        BY <1>2, <2>1 DEF SameEntry
      <4> QED
        BY <2>1, <4>1 DEF WalletInv, ReversedOnce
    <3>3. /\ k \in Rows' /\ k = ledger'[i].reference /\ ledger'[k].type = "REDEMPTION"
          /\ ledger'[i].coins = -ledger'[k].coins
      BY <1>1, <1>2, <2>1, <3>2 DEF SameEntry
    <3> QED
      BY <3>1, <3>3
  <2>2. CASE i = n + 1
    <3>1. /\ e.type = "REVERSAL" /\ e.reference \in Rows /\ ~Reversed(e.reference)
          /\ ledger[e.reference].type = "REDEMPTION" /\ e.coins = -ledger[e.reference].coins
      BY <1>1, <2>2
    <3>2. \A j \in Rows : ledger'[j].type = "REVERSAL" => ledger'[j].reference # e.reference
      BY <1>2, <3>1 DEF Reversed, SameEntry
    <3>3. \A j \in Rows' \ {i} : j \in Rows
      BY <1>1, <2>2
    <3>4. /\ e.reference \in Rows' /\ ledger'[e.reference].type = "REDEMPTION"
          /\ e.coins = -ledger'[e.reference].coins /\ ledger'[i] = e
      BY <1>1, <1>2, <2>2, <3>1 DEF SameEntry
    <3> QED
      BY <3>2, <3>3, <3>4
  <2> QED
    BY <1>1, <2>1, <2>2
<1> QED
  BY <1>3, <1>4, <1>5, <1>6 DEF WalletInv

(* A step that leaves the ledger alone. *)
LEMMA SameLedger ==
    ASSUME WalletInv, UNCHANGED <<balance, ledger>>,
           reversing' \in [Handlers -> SUBSET Rows],
           \A h \in Handlers : \A i \in reversing'[h] : ledger[i].type = "REDEMPTION",
           sweep' \subseteq Rows, now' \in Nat
    PROVE  WalletInv'
<1>1. ShapeInv'
  BY DEF WalletInv, ShapeInv, Rows
<1>2. ReversingInv'
  BY DEF ReversingInv
<1>3. LedgerChained' /\ ReversedOnce'
  BY DEF WalletInv, LedgerChained, ReversedOnce, Before, Rows
<1> QED
  BY <1>1, <1>2, <1>3 DEF WalletInv

(* What a new row records. *)
LEMMA EntryShape ==
    ASSUME WalletInv, NEW type \in Types, NEW b \in Bookings, NEW coins \in Int, NEW ref \in Nat
    PROVE  /\ Entry(type, b, coins, ref) \in Transaction
           /\ Entry(type, b, coins, ref).type = type
           /\ Entry(type, b, coins, ref).coins = coins
           /\ Entry(type, b, coins, ref).balance_after = balance + coins
           /\ Entry(type, b, coins, ref).reference = ref
BY DEF Entry, Transaction, WalletInv, ShapeInv

(* The rows are numbered from 1, and each has its columns. *)
LEMMA RowShape ==
    ASSUME WalletInv
    PROVE  /\ Rows = 1..Len(ledger) /\ Len(ledger) \in Nat
           /\ \A i \in Rows : /\ i \in Nat /\ ledger[i] \in Transaction
                             /\ ledger[i].remaining \in Int /\ ledger[i].coins \in Int
                             /\ ledger[i].booking \in Bookings
<1>1. /\ Rows = 1..Len(ledger) /\ Len(ledger) \in Nat
      /\ \A i \in Rows : i \in Nat /\ ledger[i] \in Transaction
  BY LenProperties, ElementOfSeq DEF WalletInv, ShapeInv, Rows
<1>2. \A i \in Rows : /\ ledger[i].remaining \in Int /\ ledger[i].coins \in Int
                     /\ ledger[i].booking \in Bookings
  BY <1>1 DEF Transaction
<1> QED
  BY <1>1, <1>2

(* A credit, whatever the wallet's other variables do within their bounds. *)
LEMMA CreditStep ==
    ASSUME WalletInv, NEW type \in Types, NEW b \in Bookings, NEW coins \in Int, NEW ref \in Nat,
           credit(type, b, coins, ref),
           type = "REVERSAL" => /\ ref \in Rows /\ ~Reversed(ref)
                                /\ ledger[ref].type = "REDEMPTION" /\ coins = -ledger[ref].coins,
           reversing' \in [Handlers -> SUBSET Rows],
           \A h \in Handlers : reversing'[h] \subseteq reversing[h],
           UNCHANGED <<sweep, now>>
    PROVE  WalletInv'
<1> DEFINE e == Entry(type, b, coins, ref)
<1>1. /\ e \in Transaction /\ e.type = type /\ e.coins = coins
      /\ e.balance_after = balance + coins /\ e.reference = ref
  BY EntryShape
<1>2. ledger' = Append(ledger, e) /\ balance' = balance + coins
  BY DEF credit
<1>3. ledger \in Seq(Transaction) /\ sweep' \subseteq Rows
  BY DEF WalletInv, ShapeInv
<1>4. \A i \in Rows : SameEntry(ledger[i], ledger[i])
  BY DEF SameEntry
<1> HIDE DEF e
<1> QED
  BY <1>1, <1>2, <1>3, <1>4, OneMoreRow

LEMMA AwardStep ==
    ASSUME WalletInv, NEW b \in Bookings, NEW coins \in CashbackCoins, award_cashback(b, coins)
    PROVE  WalletInv'
<1>1. credit("CASHBACK", b, coins, 0) /\ UNCHANGED <<reversing, sweep, now>>
  BY DEF award_cashback
<1>2. reversing' \in [Handlers -> SUBSET Rows]
  BY <1>1 DEF WalletInv, ShapeInv
<1>3. "CASHBACK" \in Types /\ coins \in Int
  BY DEF Types, BATCH_TRANSACTION_TYPES
<1> QED
  BY <1>1, <1>2, <1>3, CreditStep

(* Rows whose remaining coins are set anew are the same entries. *)
LEMMA RemainingOnly ==
    ASSUME WalletInv, NEW new \in [Rows -> Int]
    PROVE  LET L == [i \in Rows |-> [ledger[i] EXCEPT !.remaining = new[i]]]
           IN  /\ L \in Seq(Transaction) /\ Len(L) = Len(ledger)
               /\ \A i \in Rows : SameEntry(L[i], ledger[i])
<1> DEFINE L == [i \in Rows |-> [ledger[i] EXCEPT !.remaining = new[i]]]
<1>1. Rows = 1..Len(ledger) /\ Len(ledger) \in Nat /\ \A i \in Rows : ledger[i] \in Transaction
  BY RowShape
<1>2. \A i \in Rows : L[i] \in Transaction /\ SameEntry(L[i], ledger[i])
  BY <1>1 DEF Transaction, SameEntry
<1>3. L \in [1..Len(ledger) -> Transaction]
  BY <1>1, <1>2
<1>4. L \in Seq(Transaction) /\ Len(L) = Len(ledger)
  BY <1>1, <1>3, IsASeq, LenProperties
<1> QED
  BY <1>2, <1>4

LEMMA DebitStep ==
    ASSUME WalletInv, NEW b \in Bookings, NEW coins \in TierCosts, debit(b, coins)
    PROVE  WalletInv'
<1>1. PICK k \in Rows : \E part \in 1..ledger[k].remaining :
          ledger' = Append([i \in Rows |-> [ledger[i] EXCEPT !.remaining =
                                IF i \in DrawnBefore(k) THEN 0 ELSE IF i = k THEN @ - part ELSE @]],
                           Entry("REDEMPTION", b, -coins, 0))
  BY DEF debit
<1>2. PICK part \in 1..ledger[k].remaining :
          ledger' = Append([i \in Rows |-> [ledger[i] EXCEPT !.remaining =
                                IF i \in DrawnBefore(k) THEN 0 ELSE IF i = k THEN @ - part ELSE @]],
                           Entry("REDEMPTION", b, -coins, 0))
  BY <1>1
<1> DEFINE new == [i \in Rows |-> IF i \in DrawnBefore(k) THEN 0
                                 ELSE IF i = k THEN ledger[i].remaining - part
                                 ELSE ledger[i].remaining]
           L == [i \in Rows |-> [ledger[i] EXCEPT !.remaining = new[i]]]
           e == Entry("REDEMPTION", b, -coins, 0)
<1>3. \A i \in Rows : ledger[i].remaining \in Int
  BY RowShape
<1>4. new \in [Rows -> Int]
  BY <1>3
<1>5. ledger' = Append(L, e)
  BY <1>2
<1>6. /\ e \in Transaction /\ e.type = "REDEMPTION" /\ e.coins = -coins
      /\ e.balance_after = balance + (-coins)
  <2>1. "REDEMPTION" \in Types /\ -coins \in Int /\ coins \in Int
    BY DEF Types
  <2> QED
    BY <2>1, EntryShape
<1>7. balance' = balance + e.coins /\ UNCHANGED <<reversing, sweep, now>>
  BY <1>6 DEF debit, WalletInv, ShapeInv
<1>8. /\ L \in Seq(Transaction) /\ Len(L) = Len(ledger)
      /\ \A i \in Rows : SameEntry(L[i], ledger[i])
  BY <1>4, RemainingOnly
<1>9. /\ reversing' \in [Handlers -> SUBSET Rows] /\ sweep' \subseteq Rows
      /\ \A h \in Handlers : reversing'[h] \subseteq reversing[h]
  BY <1>7 DEF WalletInv, ShapeInv
<1> HIDE DEF new, L, e
<1> QED
  BY <1>5, <1>6, <1>7, <1>8, <1>9, OneMoreRow
-----------------------------------------------------------------------------
LEMMA ReverseStep ==
    ASSUME WalletInv, NEW h \in Handlers, reverse_redemption(h)
    PROVE  WalletInv'
<1>1. PICK i \in reversing[h] :
          \/ /\ Reversible(i)
             /\ credit("REVERSAL", ledger[i].booking, -ledger[i].coins, i)
             /\ reversing' = [reversing EXCEPT ![h] = @ \ {i}]
             /\ UNCHANGED <<sweep, now>>
          \/ /\ reversing' = [reversing EXCEPT ![h] = {}]
             /\ UNCHANGED <<balance, ledger, sweep, now>>
  BY DEF reverse_redemption
<1>2. /\ i \in Rows /\ i \in Nat /\ ledger[i].type = "REDEMPTION"
      /\ ledger[i].booking \in Bookings /\ ledger[i].coins \in Int
  BY RowShape DEF WalletInv, ShapeInv, ReversingInv
<1>3. CASE /\ Reversible(i)
           /\ credit("REVERSAL", ledger[i].booking, -ledger[i].coins, i)
           /\ reversing' = [reversing EXCEPT ![h] = @ \ {i}]
           /\ UNCHANGED <<sweep, now>>
  <2>1. /\ reversing' \in [Handlers -> SUBSET Rows]
        /\ \A g \in Handlers : reversing'[g] \subseteq reversing[g]
    BY <1>3 DEF WalletInv, ShapeInv
  <2>2. "REVERSAL" \in Types /\ -ledger[i].coins \in Int /\ ~Reversed(i)
    BY <1>2, <1>3 DEF Types, BATCH_TRANSACTION_TYPES, Reversible
  <2> QED
    BY <1>2, <1>3, <2>1, <2>2, CreditStep
<1>4. CASE /\ reversing' = [reversing EXCEPT ![h] = {}]
           /\ UNCHANGED <<balance, ledger, sweep, now>>
  <2>1. /\ reversing' \in [Handlers -> SUBSET Rows]
        /\ \A g \in Handlers : \A j \in reversing'[g] : ledger[j].type = "REDEMPTION"
    BY <1>4 DEF WalletInv, ShapeInv, ReversingInv
  <2>2. sweep' \subseteq Rows /\ now' \in Nat
    BY <1>4 DEF WalletInv, ShapeInv
  <2> QED
    BY <1>4, <2>1, <2>2, SameLedger
<1> QED
  BY <1>1, <1>3, <1>4

(* Zeroing one batch is setting the remaining coins of every row anew. *)
LEMMA ZeroedRow ==
    ASSUME WalletInv, NEW i \in Rows
    PROVE  LET new == [j \in Rows |-> IF j = i THEN 0 ELSE ledger[j].remaining]
           IN  /\ new \in [Rows -> Int]
               /\ [ledger EXCEPT ![i].remaining = 0]
                      = [j \in Rows |-> [ledger[j] EXCEPT !.remaining = new[j]]]
<1> DEFINE new == [j \in Rows |-> IF j = i THEN 0 ELSE ledger[j].remaining]
           L == [j \in Rows |-> [ledger[j] EXCEPT !.remaining = new[j]]]
<1>1. \A j \in Rows : ledger[j].remaining \in Int
  BY RowShape
<1>2. new \in [Rows -> Int]
  <2>1. \A j \in Rows : (IF j = i THEN 0 ELSE ledger[j].remaining) \in Int
    BY <1>1
  <2> QED
    BY <2>1, Zenon
<1>3. ledger \in [Rows -> Transaction]
  BY RowShape, LenProperties DEF WalletInv, ShapeInv
<1>4. \A j \in Rows : ledger[j] = [ledger[j] EXCEPT !.remaining = ledger[j].remaining]
  BY RowShape DEF Transaction
<1>5. \A j \in Rows : [ledger EXCEPT ![i].remaining = 0][j] = L[j]
  BY <1>3, <1>4
<1>6. [ledger EXCEPT ![i].remaining = 0] = L
  BY <1>3, <1>5
<1> QED
  BY <1>2, <1>6

LEMMA ExpireStep ==
    ASSUME WalletInv, Expire
    PROVE  WalletInv'
<1>1. PICK i \in sweep :
          /\ sweep' = sweep \ {i}
          /\ IF Lapsed(i)
             THEN /\ balance' = balance - ledger[i].remaining
                  /\ ledger' = Append([ledger EXCEPT ![i].remaining = 0],
                                Entry("EXPIRY", ledger[i].booking, -ledger[i].remaining, i))
             ELSE UNCHANGED <<balance, ledger>>
          /\ UNCHANGED <<reversing, now>>
  BY DEF Expire
<1>2. /\ i \in Rows /\ i \in Nat /\ \A j \in Rows : ledger[j].remaining \in Int
      /\ ledger[i].booking \in Bookings /\ ledger[i].remaining \in Int
  BY RowShape DEF WalletInv, ShapeInv
<1>3. reversing' \in [Handlers -> SUBSET Rows] /\ sweep' \subseteq Rows /\ now' \in Nat
  BY <1>1 DEF WalletInv, ShapeInv
<1>4. CASE Lapsed(i)
  <2> DEFINE new == [j \in Rows |-> IF j = i THEN 0 ELSE ledger[j].remaining]
             L == [j \in Rows |-> [ledger[j] EXCEPT !.remaining = new[j]]]
             e == Entry("EXPIRY", ledger[i].booking, -ledger[i].remaining, i)
  <2>1. new \in [Rows -> Int]
    BY <1>2, ZeroedRow
  <2>2. [ledger EXCEPT ![i].remaining = 0] = L
    BY <1>2, ZeroedRow
  <2>3. /\ e \in Transaction /\ e.type = "EXPIRY" /\ e.coins = -ledger[i].remaining
        /\ e.balance_after = balance + (-ledger[i].remaining)
    <3>1. "EXPIRY" \in Types /\ -ledger[i].remaining \in Int
      BY <1>2 DEF Types
    <3> QED
      BY <1>2, <3>1, EntryShape
  <2>4. ledger' = Append(L, e) /\ balance' = balance + e.coins
    BY <1>1, <1>2, <1>4, <2>2, <2>3 DEF WalletInv, ShapeInv
  <2>5. /\ L \in Seq(Transaction) /\ Len(L) = Len(ledger)
        /\ \A j \in Rows : SameEntry(L[j], ledger[j])
    BY <2>1, RemainingOnly
  <2>6. \A h \in Handlers : reversing'[h] \subseteq reversing[h]
    BY <1>1
  <2> HIDE DEF new, L, e
  <2> QED
    BY <1>1, <1>3, <2>3, <2>4, <2>5, <2>6, OneMoreRow
<1>5. CASE ~Lapsed(i)
  <2>1. \A h \in Handlers : \A j \in reversing'[h] : ledger[j].type = "REDEMPTION"
    BY <1>1 DEF WalletInv, ReversingInv
  <2> QED
    BY <1>1, <1>3, <1>5, <2>1, SameLedger
<1> QED
  BY <1>4, <1>5

(* The steps that only list rows, drop a list, or let time pass. *)
LEMMA ListingStep ==
    ASSUME WalletInv,
           \/ \E b \in Bookings, h \in Handlers : ListUnreversed(h, b)
           \/ \E h \in Handlers : Abandon(h)
           \/ ScanLapsed \/ Tick \/ UNCHANGED vars
    PROVE  WalletInv'
<1>1. UNCHANGED <<balance, ledger>>
  BY DEF ListUnreversed, Abandon, ScanLapsed, Tick, vars
<1>2. /\ reversing' \in [Handlers -> SUBSET Rows]
      /\ \A h \in Handlers : \A i \in reversing'[h] : ledger[i].type = "REDEMPTION"
  BY DEF ListUnreversed, Abandon, ScanLapsed, Tick, vars, WalletInv, ShapeInv, ReversingInv
<1>3. sweep' \subseteq Rows
  BY DEF ListUnreversed, Abandon, ScanLapsed, Tick, vars, WalletInv, ShapeInv, ToExpire
<1>4. now' \in Nat
  BY DEF ListUnreversed, Abandon, ScanLapsed, Tick, vars, WalletInv, ShapeInv
<1> QED
  BY <1>1, <1>2, <1>3, <1>4, SameLedger

(* The inductive invariant: what the rows record, and what is listed for   *)
(* reversal, hold for every wallet.                                        *)
THEOREM WalletInvariance == Spec => []WalletInv
<1>1. WalletInv /\ [Next]_vars => WalletInv'
  <2> SUFFICES ASSUME WalletInv, [Next]_vars PROVE WalletInv'
    OBVIOUS
  <2>1. CASE \E b \in Bookings, coins \in CashbackCoins : award_cashback(b, coins)
    BY <2>1, AwardStep
  <2>2. CASE \E b \in Bookings, coins \in TierCosts : debit(b, coins)
    BY <2>2, DebitStep
  <2>3. CASE \E h \in Handlers : reverse_redemption(h)
    BY <2>3, ReverseStep
  <2>4. CASE Expire
    BY <2>4, ExpireStep
  <2>5. CASE \/ \E b \in Bookings, h \in Handlers : ListUnreversed(h, b)
             \/ \E h \in Handlers : Abandon(h)
             \/ ScanLapsed \/ Tick \/ UNCHANGED vars
    BY <2>5, ListingStep
  <2> QED
    BY <2>1, <2>2, <2>3, <2>4, <2>5 DEF Next
<1> QED
  BY EmptyWallet, <1>1, PTL DEF Spec

(* The claim of wallet/admin.py, row by row: the balance always matches    *)
(* the ledger, in every wallet and after any number of transactions.       *)
THEOREM LedgerAddsUp == Spec => []LedgerChained
<1>1. WalletInv => LedgerChained
  BY DEF WalletInv
<1> QED
  BY WalletInvariance, <1>1, PTL

(* However many handlers list the redemptions of a booking at once, and    *)
(* wherever they stop, no redemption is credited back twice.               *)
THEOREM NoDoubleReversal == Spec => []ReversedOnce
<1>1. WalletInv => ReversedOnce
  BY DEF WalletInv
<1> QED
  BY WalletInvariance, <1>1, PTL
-----------------------------------------------------------------------------
(* A debit takes from a batch only after the spendable batches before it   *)
(* are empty; a lapsed batch is never spent and a spendable one never      *)
(* lapses, so no other step touches the coins of a spendable batch.        *)
LEMMA DrawStep == WalletInv /\ [Next]_vars =>
    [\A i, j \in Rows :
        /\ balance' < balance /\ Spendable(i) /\ Spendable(j) /\ i < j
        /\ ledger'[j].remaining < ledger[j].remaining
        => ledger'[i].remaining = 0]_vars
<1> SUFFICES ASSUME WalletInv, Next, NEW i \in Rows, NEW j \in Rows,
                    Spendable(i), Spendable(j), i < j,
                    ledger'[j].remaining < ledger[j].remaining
             PROVE  ledger'[i].remaining = 0
  OBVIOUS
<1>1. /\ Rows = 1..Len(ledger) /\ Len(ledger) \in Nat
      /\ \A k \in Rows : k \in Nat /\ ledger[k].remaining \in Int
  BY RowShape
<1>2. ASSUME NEW L \in Seq(Transaction), NEW e, Len(L) = Len(ledger), ledger' = Append(L, e)
      PROVE  \A k \in Rows : ledger'[k] = L[k]
  BY <1>1, <1>2, AppendProperties
<1>3. ledger \in Seq(Transaction)
  BY DEF WalletInv, ShapeInv
<1>4. ASSUME NEW type, NEW b, NEW coins, NEW ref, credit(type, b, coins, ref) PROVE FALSE
  <2>1. ledger' = Append(ledger, Entry(type, b, coins, ref))
    BY <1>4 DEF credit
  <2>2. ledger'[j] = ledger[j]
    BY <1>1, <1>3, <2>1, AppendProperties
  <2> QED
    BY <1>1, <2>2
<1>5. CASE UNCHANGED ledger
  BY <1>1, <1>5
<1>6. ASSUME NEW b \in Bookings, NEW coins \in TierCosts, debit(b, coins)
      PROVE  ledger'[i].remaining = 0
  <2>1. PICK k \in Rows : \E part \in 1..ledger[k].remaining :
            ledger' = Append([m \in Rows |-> [ledger[m] EXCEPT !.remaining =
                                  IF m \in DrawnBefore(k) THEN 0 ELSE IF m = k THEN @ - part ELSE @]],
                             Entry("REDEMPTION", b, -coins, 0))
    BY <1>6 DEF debit
  <2>2. PICK part \in 1..ledger[k].remaining :
            ledger' = Append([m \in Rows |-> [ledger[m] EXCEPT !.remaining =
                                  IF m \in DrawnBefore(k) THEN 0 ELSE IF m = k THEN @ - part ELSE @]],
                             Entry("REDEMPTION", b, -coins, 0))
    BY <2>1
  <2> DEFINE new == [m \in Rows |-> IF m \in DrawnBefore(k) THEN 0
                                   ELSE IF m = k THEN ledger[m].remaining - part
                                   ELSE ledger[m].remaining]
             L == [m \in Rows |-> [ledger[m] EXCEPT !.remaining = new[m]]]
  <2>3. new \in [Rows -> Int]
    BY <1>1
  <2>4. L \in Seq(Transaction) /\ Len(L) = Len(ledger)
    BY <2>3, RemainingOnly
  <2>5. ledger' = Append(L, Entry("REDEMPTION", b, -coins, 0))
    BY <2>2
  <2>6. ledger'[i] = L[i] /\ ledger'[j] = L[j]
    <3> HIDE DEF L, new
    <3> QED
      BY <1>2, <2>4, <2>5
  <2>7. ledger'[i].remaining = new[i] /\ ledger'[j].remaining = new[j]
    BY <2>6, RowShape DEF Transaction
  <2>8. j \in DrawnBefore(k) \/ j = k
    BY <1>1, <2>7
  <2>9. i \in DrawnBefore(k)
    BY <1>1, <2>8 DEF DrawnBefore
  <2> QED
    BY <2>7, <2>9
<1>7. CASE Expire
  <2>1. PICK k \in sweep :
            IF Lapsed(k)
            THEN ledger' = Append([ledger EXCEPT ![k].remaining = 0],
                                  Entry("EXPIRY", ledger[k].booking, -ledger[k].remaining, k))
            ELSE UNCHANGED ledger
    BY <1>7 DEF Expire
  <2>2. CASE Lapsed(k)
    <3>1. k \in Rows /\ k # j
      <4>1. k \in Rows
        BY DEF WalletInv, ShapeInv
      <4>2. ledger[k].expires_at \in Int /\ now \in Int
        BY <4>1, RowShape DEF Transaction, WalletInv, ShapeInv
      <4> QED
        BY <2>2, <4>1, <4>2 DEF Lapsed, Spendable
    <3> DEFINE new == [m \in Rows |-> IF m = k THEN 0 ELSE ledger[m].remaining]
               L == [m \in Rows |-> [ledger[m] EXCEPT !.remaining = new[m]]]
    <3>2. new \in [Rows -> Int] /\ [ledger EXCEPT ![k].remaining = 0] = L
      BY <3>1, ZeroedRow
    <3>3. L \in Seq(Transaction) /\ Len(L) = Len(ledger)
      BY <3>2, RemainingOnly
    <3>4. ledger' = Append(L, Entry("EXPIRY", ledger[k].booking, -ledger[k].remaining, k))
      BY <2>1, <2>2, <3>2
    <3>5. ledger'[j] = L[j]
      <4> HIDE DEF L, new
      <4> QED
        BY <1>2, <3>3, <3>4
    <3>6. L[j].remaining = ledger[j].remaining
      BY <3>1, RowShape DEF Transaction
    <3> QED
      BY <1>1, <3>5, <3>6
  <2>3. CASE ~Lapsed(k)
    BY <1>5, <2>1, <2>3
  <2> QED
    BY <2>2, <2>3
<1> QED
  BY <1>4, <1>5, <1>6, <1>7 DEF Next, award_cashback, reverse_redemption, ListUnreversed,
                                Abandon, ScanLapsed, Tick

(* A customer never loses newer coins to a debit that leaves older ones.   *)
THEOREM DebitsOldestFirst == Spec => OldestFirst
  BY WalletInvariance, DrawStep, PTL DEF Spec, OldestFirst
-----------------------------------------------------------------------------
(* The batches hold the balance, and nothing is negative but the coins a   *)
(* redemption or a lapse records.                                          *)
RowSound(i) == /\ ledger[i].remaining \in Nat /\ ledger[i].balance_after \in Nat
               /\ ledger[i].expires_at \in Nat
               /\ ledger[i].type = "REDEMPTION" => ledger[i].coins < 0

BackedInv == BalanceBacked /\ \A i \in Rows : RowSound(i)

LEMMA BatchesFinite ==
    ASSUME WalletInv
    PROVE  IsFiniteSet(Rows) /\ IsFiniteSet(Batches) /\ Batches \subseteq Rows
<1>1. IsFiniteSet(Rows)
  BY RowShape, FS_Interval
<1> QED
  BY <1>1, FS_Subset DEF Batches

LEMMA BackedBalance == ASSUME WalletInv, BackedInv PROVE balance \in Nat
<1> DEFINE f == [i \in Rows |-> ledger[i].remaining]
<1>1. \A i \in Batches : f[i] \in Nat
  BY BatchesFinite DEF BackedInv, RowSound
<1>2. SumFunctionOnSet(f, Batches) \in Nat
  <2> HIDE DEF f
  <2> QED
    BY <1>1, BatchesFinite, SumNat
<1> QED
  BY <1>2 DEF BackedInv, BalanceBacked, Remaining

(* One more row, and new remaining coins for the others.                   *)
LEMMA BackedGrows ==
    ASSUME WalletInv, BackedInv, NEW new \in [Rows -> Nat], NEW e \in Transaction,
           ledger' = Append([i \in Rows |-> [ledger[i] EXCEPT !.remaining = new[i]]], e),
           balance' = SumFunctionOnSet(new, Batches)
                      + (IF e.type \in BATCH_TRANSACTION_TYPES THEN e.remaining ELSE 0),
           e.balance_after = balance', e.remaining \in Nat, e.expires_at \in Nat,
           e.type = "REDEMPTION" => e.coins < 0
    PROVE  BackedInv'
<1> DEFINE L == [i \in Rows |-> [ledger[i] EXCEPT !.remaining = new[i]]]
<1> PICK n \in Nat : n = Len(ledger)
  BY RowShape
<1>1. /\ L \in Seq(Transaction) /\ Len(L) = n
      /\ \A i \in Rows : SameEntry(L[i], ledger[i])
  BY RemainingOnly
<1>2. \A i \in Rows : /\ L[i].remaining = new[i] /\ L[i].expires_at = ledger[i].expires_at
                      /\ SameEntry(L[i], ledger[i])
  BY <1>1, RowShape DEF Transaction
<1>3. /\ Rows = 1..n /\ Rows' = 1..(n + 1) /\ n + 1 \notin Rows
      /\ ledger'[n + 1] = e /\ \A i \in Rows : ledger'[i] = L[i]
  <2> HIDE DEF L
  <2>1. ledger' = Append(L, e)
    BY DEF L
  <2> QED
    BY <1>1, <2>1, RowShape, AppendProperties, LenProperties DEF Rows
<1> HIDE DEF L
<1> DEFINE f == [i \in Rows' |-> ledger'[i].remaining]
<1>4. \A i \in Rows : f[i] = new[i] /\ f[i] \in Nat
  BY <1>2, <1>3
<1>5. f[n + 1] = e.remaining
  BY <1>3
<1>6. Batches' = IF e.type \in BATCH_TRANSACTION_TYPES THEN Batches \cup {n + 1} ELSE Batches
  BY <1>2, <1>3 DEF Batches, SameEntry
<1>7. SumFunctionOnSet(f, Batches) = SumFunctionOnSet(new, Batches)
  <2>1. \A i \in Batches : f[i] = new[i]
    BY <1>4, BatchesFinite
  <2> HIDE DEF f
  <2> QED
    BY <2>1, BatchesFinite, SumSame
<1>8. SumFunctionOnSet(f, Batches') = balance'
  <2> HIDE DEF f
  <2>1. /\ IsFiniteSet(Batches) /\ n + 1 \notin Batches
        /\ \A i \in Batches : f[i] \in Int
    BY <1>3, <1>4, BatchesFinite
  <2>2. CASE e.type \in BATCH_TRANSACTION_TYPES
    <3>1. SumFunctionOnSet(f, Batches \cup {n + 1}) = SumFunctionOnSet(f, Batches) + f[n + 1]
      BY <1>5, <2>1, SumAdd
    <3> QED
      BY <1>5, <1>6, <1>7, <2>2, <3>1
  <2>3. CASE e.type \notin BATCH_TRANSACTION_TYPES
    <3>1. SumFunctionOnSet(new, Batches) \in Int
      BY <1>7, <2>1, SumInt
    <3> QED
      BY <1>6, <1>7, <2>3, <3>1
  <2> QED
    BY <2>2, <2>3
<1>9. BalanceBacked'
  BY <1>8 DEF BalanceBacked, Remaining
<1>10. balance' \in Nat
  <2>1. /\ \A i \in Batches : f[i] \in Nat
    BY <1>4, BatchesFinite
  <2>2. SumFunctionOnSet(f, Batches) \in Nat
    <3> HIDE DEF f
    <3> QED
      BY <2>1, BatchesFinite, SumNat
  <2>3. (IF e.type \in BATCH_TRANSACTION_TYPES THEN e.remaining ELSE 0) \in Nat
    OBVIOUS
  <2> HIDE DEF f
  <2> QED
    BY <1>7, <2>2, <2>3
<1>11. ASSUME NEW i \in Rows' PROVE RowSound(i)'
  <2>1. CASE i = n + 1
    BY <1>3, <1>10, <2>1 DEF RowSound
  <2>2. CASE i \in Rows
    <3>1. RowSound(i)
      BY <2>2 DEF BackedInv
    <3> QED
      BY <1>2, <1>3, <2>2, <3>1 DEF RowSound, SameEntry
  <2> QED
    BY <1>3, <2>1, <2>2
<1> QED
  BY <1>9, <1>11 DEF BackedInv

(* What a new row holds and when it lapses. *)
LEMMA EntryBatch ==
    ASSUME WalletInv, NEW type \in Types, NEW b \in Bookings, NEW coins \in Int, NEW ref \in Nat
    PROVE  /\ type \in BATCH_TRANSACTION_TYPES => Entry(type, b, coins, ref).remaining = coins
           /\ type \notin BATCH_TRANSACTION_TYPES => Entry(type, b, coins, ref).remaining = 0
           /\ Entry(type, b, coins, ref).expires_at \in Nat
BY DEF Entry, WalletInv, ShapeInv

(* A credit opens a batch that holds all of it. *)
LEMMA CreditBacked ==
    ASSUME WalletInv, BackedInv, NEW type \in BATCH_TRANSACTION_TYPES, NEW b \in Bookings,
           NEW coins \in Nat, NEW ref \in Nat, credit(type, b, coins, ref)
    PROVE  BackedInv'
<1> DEFINE e == Entry(type, b, coins, ref)
           f == [i \in Rows |-> ledger[i].remaining]
<1>1. type \in Types /\ type # "REDEMPTION" /\ coins \in Int
  BY DEF Types, BATCH_TRANSACTION_TYPES
<1>2. /\ e \in Transaction /\ e.type = type /\ e.balance_after = balance + coins
      /\ e.remaining = coins /\ e.expires_at \in Nat
  BY <1>1, EntryShape, EntryBatch
<1>3. f \in [Rows -> Nat]
  BY DEF BackedInv, RowSound
<1>4. ledger = [i \in Rows |-> [ledger[i] EXCEPT !.remaining = f[i]]]
  <2>1. ledger \in [Rows -> Transaction]
    BY RowShape, LenProperties DEF WalletInv, ShapeInv
  <2>2. \A i \in Rows : ledger[i] = [ledger[i] EXCEPT !.remaining = f[i]]
    BY RowShape DEF Transaction
  <2> QED
    BY <2>1, <2>2
<1>5. ledger' = Append([i \in Rows |-> [ledger[i] EXCEPT !.remaining = f[i]]], e)
  BY <1>4 DEF credit
<1>6. balance = SumFunctionOnSet(f, Batches) /\ balance' = balance + coins
  BY DEF credit, BackedInv, BalanceBacked, Remaining
<1> HIDE DEF e, f
<1> QED
  BY <1>1, <1>2, <1>3, <1>5, <1>6, BackedGrows

(* What a debit takes from the batches is what it takes from the balance.  *)
LEMMA DebitBacked ==
    ASSUME WalletInv, BackedInv, NEW b \in Bookings, NEW coins \in TierCosts, debit(b, coins)
    PROVE  BackedInv'
<1>1. PICK k \in Rows : \E part \in 1..ledger[k].remaining :
          /\ Spendable(k) /\ Remaining(DrawnBefore(k)) + part = coins
          /\ ledger' = Append([i \in Rows |-> [ledger[i] EXCEPT !.remaining =
                                IF i \in DrawnBefore(k) THEN 0 ELSE IF i = k THEN @ - part ELSE @]],
                           Entry("REDEMPTION", b, -coins, 0))
  BY DEF debit
<1>2. PICK part \in 1..ledger[k].remaining :
          /\ Spendable(k) /\ Remaining(DrawnBefore(k)) + part = coins
          /\ ledger' = Append([i \in Rows |-> [ledger[i] EXCEPT !.remaining =
                                IF i \in DrawnBefore(k) THEN 0 ELSE IF i = k THEN @ - part ELSE @]],
                           Entry("REDEMPTION", b, -coins, 0))
  BY <1>1
<1> DEFINE D == DrawnBefore(k)
           f == [i \in Rows |-> ledger[i].remaining]
           new == [i \in Rows |-> IF i \in D THEN 0
                                 ELSE IF i = k THEN ledger[i].remaining - part
                                 ELSE ledger[i].remaining]
           e == Entry("REDEMPTION", b, -coins, 0)
<1>3. \A i \in Rows : f[i] \in Nat /\ new[i] \in Nat
  BY DEF BackedInv, RowSound
<1>4. new \in [Rows -> Nat]
  BY <1>3
<1>5. ledger' = Append([i \in Rows |-> [ledger[i] EXCEPT !.remaining = new[i]]], e)
  BY <1>2
<1>6. /\ e \in Transaction /\ e.type = "REDEMPTION" /\ e.coins = -coins /\ e.coins < 0
      /\ e.balance_after = balance + (-coins) /\ e.remaining = 0 /\ e.expires_at \in Nat
      /\ "REDEMPTION" \notin BATCH_TRANSACTION_TYPES
  <2>1. /\ "REDEMPTION" \in Types /\ "REDEMPTION" \notin BATCH_TRANSACTION_TYPES
        /\ -coins \in Int /\ coins \in Int /\ -coins < 0
    BY DEF Types, BATCH_TRANSACTION_TYPES
  <2> QED
    BY <2>1, EntryShape, EntryBatch
<1>7. /\ D \in SUBSET Batches /\ k \in Batches \ D /\ Batches \subseteq Rows
      /\ IsFiniteSet(Batches) /\ IsFiniteSet(D) /\ IsFiniteSet(Batches \ D)
  <2>1. D \in SUBSET Batches /\ k \in Batches \ D
    BY <1>2, RowShape DEF DrawnBefore, Spendable
  <2> QED
    BY <2>1, BatchesFinite, FS_Subset
<1>8. /\ \A i \in Batches : f[i] \in Int /\ new[i] \in Int
      /\ \A i \in Batches \ D : f[i] \in Int /\ new[i] \in Int
      /\ \A i \in (Batches \ D) \ {k} : f[i] = new[i]
      /\ \A i \in D : new[i] = 0
      /\ f[k] - new[k] = part /\ f[k] \in Int /\ new[k] \in Int /\ part \in Int
  BY <1>3, <1>7
<1>9. /\ balance = SumFunctionOnSet(f, Batches)
      /\ SumFunctionOnSet(f, D) + part = coins
      /\ balance' = balance - coins
  BY <1>2 DEF debit, BackedInv, BalanceBacked, Remaining
<1> HIDE DEF D, f, new, e
<1>10. /\ SumFunctionOnSet(f, Batches) = SumFunctionOnSet(f, D) + SumFunctionOnSet(f, Batches \ D)
       /\ SumFunctionOnSet(new, Batches)
              = SumFunctionOnSet(new, D) + SumFunctionOnSet(new, Batches \ D)
  BY <1>7, <1>8, SumUnion
<1>11. SumFunctionOnSet(new, D) = 0
  BY <1>7, <1>8, SumZero
<1>12. SumFunctionOnSet(new, Batches \ D) = SumFunctionOnSet(f, Batches \ D) - f[k] + new[k]
  <2> DEFINE C == Batches \ D
  <2>1. /\ IsFiniteSet(C) /\ k \in C /\ \A i \in C : f[i] \in Int /\ new[i] \in Int
        /\ \A i \in C \ {k} : f[i] = new[i]
    BY <1>7, <1>8
  <2> HIDE DEF C
  <2>2. SumFunctionOnSet(new, C) = SumFunctionOnSet(f, C) - f[k] + new[k]
    BY <2>1, SumChange
  <2> QED
    BY <2>2 DEF C
<1>13. SumFunctionOnSet(f, D) \in Int /\ SumFunctionOnSet(f, Batches \ D) \in Int
  BY <1>7, <1>8, SumInt
<1>14. coins \in Int /\ balance \in Int
  BY DEF WalletInv, ShapeInv
<1>15. SumFunctionOnSet(new, Batches) = balance - coins
  BY <1>8, <1>9, <1>10, <1>11, <1>12, <1>13, <1>14
<1>16. /\ balance' = SumFunctionOnSet(new, Batches)
                     + (IF e.type \in BATCH_TRANSACTION_TYPES THEN e.remaining ELSE 0)
       /\ e.balance_after = balance'
  BY <1>6, <1>9, <1>14, <1>15
<1>17. e.remaining \in Nat
  BY <1>6
<1> QED
  BY <1>4, <1>5, <1>6, <1>16, <1>17, BackedGrows

(* A lapsed batch leaves the balance with all that was left in it.         *)
LEMMA ExpireBacked == ASSUME WalletInv, BackedInv, Expire PROVE BackedInv'
<1>1. PICK i \in sweep :
          IF Lapsed(i)
          THEN /\ balance' = balance - ledger[i].remaining
               /\ ledger' = Append([ledger EXCEPT ![i].remaining = 0],
                             Entry("EXPIRY", ledger[i].booking, -ledger[i].remaining, i))
          ELSE UNCHANGED <<balance, ledger>>
  BY DEF Expire
<1>2. CASE ~Lapsed(i)
  BY <1>1, <1>2 DEF BackedInv, BalanceBacked, RowSound, Remaining, Batches, Rows
<1>3. CASE Lapsed(i)
  <2> DEFINE f == [j \in Rows |-> ledger[j].remaining]
             new == [j \in Rows |-> IF j = i THEN 0 ELSE ledger[j].remaining]
             e == Entry("EXPIRY", ledger[i].booking, -ledger[i].remaining, i)
  <2>1. /\ i \in Rows /\ i \in Nat /\ ledger[i].booking \in Bookings
        /\ ledger[i].remaining \in Nat /\ i \in Batches
    BY <1>3, RowShape DEF WalletInv, ShapeInv, BackedInv, RowSound, Lapsed
  <2>2. /\ "EXPIRY" \in Types /\ "EXPIRY" \notin BATCH_TRANSACTION_TYPES
        /\ -ledger[i].remaining \in Int
    BY <2>1 DEF Types, BATCH_TRANSACTION_TYPES
  <2>3. /\ e \in Transaction /\ e.type = "EXPIRY" /\ e.remaining = 0 /\ e.expires_at \in Nat
        /\ e.balance_after = balance + (-ledger[i].remaining)
    BY <2>1, <2>2, EntryShape, EntryBatch
  <2>4. \A j \in Rows : f[j] \in Nat /\ new[j] \in Nat
    BY DEF BackedInv, RowSound
  <2>5. new \in [Rows -> Nat]
    BY <2>4
  <2>6. ledger' = Append([j \in Rows |-> [ledger[j] EXCEPT !.remaining = new[j]]], e)
    BY <1>1, <1>3, <2>1, ZeroedRow
  <2>7. /\ \A j \in Batches : f[j] \in Int /\ new[j] \in Int
        /\ \A j \in Batches \ {i} : f[j] = new[j]
        /\ f[i] = ledger[i].remaining /\ new[i] = 0
    <3>1. Batches \subseteq Rows
      BY BatchesFinite
    <3>2. \A j \in Batches \ {i} : f[j] = new[j]
      BY <3>1
    <3>3. f[i] = ledger[i].remaining /\ new[i] = 0
      BY <2>1
    <3> HIDE DEF f, new
    <3>4. \A j \in Batches : f[j] \in Int /\ new[j] \in Int
      BY <2>4, <3>1
    <3> QED
      BY <3>2, <3>3, <3>4
  <2>8. balance = SumFunctionOnSet(f, Batches)
    BY DEF BackedInv, BalanceBacked, Remaining
  <2> HIDE DEF f, new, e
  <2>9. SumFunctionOnSet(new, Batches) = SumFunctionOnSet(f, Batches) - f[i] + new[i]
    <3>1. IsFiniteSet(Batches) /\ i \in Batches
      BY <2>1, BatchesFinite
    <3> QED
      BY <2>7, <3>1, SumChange
  <2>10. balance' = SumFunctionOnSet(new, Batches) /\ balance' = e.balance_after
    BY <1>1, <1>3, <2>1, <2>3, <2>7, <2>8, <2>9 DEF WalletInv, ShapeInv
  <2>11. SumFunctionOnSet(new, Batches) \in Int
    BY <2>7, BatchesFinite, SumInt
  <2>12. balance' = SumFunctionOnSet(new, Batches)
                    + (IF e.type \in BATCH_TRANSACTION_TYPES THEN e.remaining ELSE 0)
    BY <2>2, <2>3, <2>10, <2>11
  <2>13. e.remaining \in Nat /\ (e.type = "REDEMPTION" => e.coins < 0)
    BY <2>3
  <2> QED
    BY <2>3, <2>5, <2>6, <2>10, <2>12, <2>13, BackedGrows
<1> QED
  BY <1>2, <1>3

(* A redemption comes back as a batch of the coins it cost.                *)
LEMMA ReverseBacked ==
    ASSUME WalletInv, BackedInv, NEW h \in Handlers, reverse_redemption(h)
    PROVE  BackedInv'
<1>1. PICK i \in reversing[h] :
          \/ credit("REVERSAL", ledger[i].booking, -ledger[i].coins, i)
          \/ UNCHANGED <<balance, ledger>>
  BY DEF reverse_redemption
<1>2. CASE UNCHANGED <<balance, ledger>>
  BY <1>2 DEF BackedInv, BalanceBacked, RowSound, Remaining, Batches, Rows
<1>3. CASE credit("REVERSAL", ledger[i].booking, -ledger[i].coins, i)
  <2>1. i \in Rows /\ i \in Nat /\ ledger[i].type = "REDEMPTION" /\ ledger[i].booking \in Bookings
    BY RowShape DEF WalletInv, ShapeInv, ReversingInv
  <2>2. -ledger[i].coins \in Nat
    BY <2>1, RowShape DEF BackedInv, RowSound
  <2> QED
    BY <1>3, <2>1, <2>2, CreditBacked DEF BATCH_TRANSACTION_TYPES
<1> QED
  BY <1>1, <1>2, <1>3

THEOREM BackedInvariance == Spec => []BackedInv
<1>1. Init => BackedInv
  <2> SUFFICES ASSUME Init PROVE BackedInv
    OBVIOUS
  <2>1. Rows = {} /\ Batches = {} /\ balance = 0
    BY DEF Init, Rows, Batches
  <2> QED
    BY <2>1, SumEmpty DEF BackedInv, BalanceBacked, Remaining
<1>2. WalletInv /\ BackedInv /\ [Next]_vars => BackedInv'
  <2> SUFFICES ASSUME WalletInv, BackedInv, [Next]_vars PROVE BackedInv'
    OBVIOUS
  <2>1. ASSUME NEW b \in Bookings, NEW coins \in CashbackCoins, award_cashback(b, coins)
        PROVE  BackedInv'
    BY <2>1, CreditBacked DEF award_cashback, BATCH_TRANSACTION_TYPES
  <2>2. CASE UNCHANGED <<balance, ledger>>
    BY <2>2 DEF BackedInv, BalanceBacked, RowSound, Remaining, Batches, Rows
  <2> QED
    BY <2>1, <2>2, DebitBacked, ReverseBacked, ExpireBacked
       DEF Next, ListUnreversed, Abandon, ScanLapsed, Tick, vars
<1> QED
  BY <1>1, <1>2, WalletInvariance, PTL DEF Spec

(* The coins the customer sees are the coins the batches hold: no debit,   *)
(* reversal or lapse, however their handlers interleave, loses or invents  *)
(* one.                                                                    *)
THEOREM BalanceIsBacked == Spec => []BalanceBacked
<1>1. BackedInv => BalanceBacked
  BY DEF BackedInv
<1> QED
  BY <1>1, BackedInvariance, PTL

(* The balance, and the balance every row records, never go below zero.    *)
THEOREM WalletTypeCorrect == Spec => []TypeOK
<1>1. WalletInv /\ BackedInv => TypeOK
  <2> SUFFICES ASSUME WalletInv, BackedInv PROVE TypeOK
    OBVIOUS
  <2>1. \A i \in 1..Len(ledger) : ledger[i] \in CoinTransaction
    BY RowShape DEF BackedInv, RowSound, Transaction, CoinTransaction
  <2>2. ledger \in [1..Len(ledger) -> CoinTransaction] /\ Len(ledger) \in Nat
    BY <2>1, LenProperties DEF WalletInv, ShapeInv
  <2>3. ledger \in Seq(CoinTransaction)
    BY <2>2, IsASeq
  <2> QED
    BY <2>3, BackedBalance DEF TypeOK, WalletInv, ShapeInv
<1> QED
  BY <1>1, WalletInvariance, BackedInvariance, PTL
-----------------------------------------------------------------------------
(* The wallet as CoinAccount sees it: which bookings have earned, and what *)
(* has been spent and not come back.                                       *)
Earned == {b \in Bookings : \E i \in Rows : ledger[i].type = "CASHBACK" /\ ledger[i].booking = b}
Unreversed == {j \in Rows : ledger[j].type = "REDEMPTION" /\ ~Reversed(j)}
Receipt(i) == [receipt |-> i, coins |-> -ledger[i].coins]
Outstanding == {Receipt(i) : i \in Unreversed}

(* What one more row does to that view.                                    *)
LEMMA ViewGrows ==
    ASSUME WalletInv, NEW L \in Seq(Transaction), NEW e \in Transaction,
           Len(L) = Len(ledger), \A i \in Rows : SameEntry(L[i], ledger[i]),
           ledger' = Append(L, e)
    PROVE  /\ e.type = "CASHBACK" => Earned' = Earned \cup {e.booking}
           /\ e.type # "CASHBACK" => UNCHANGED Earned
           /\ e.type = "REDEMPTION" =>
                  Outstanding' = Outstanding
                                 \cup {[receipt |-> Len(ledger) + 1, coins |-> -e.coins]}
           /\ e.type = "REVERSAL" /\ e.reference \in Unreversed =>
                  Outstanding' = Outstanding \ {Receipt(e.reference)}
           /\ e.type \notin {"REDEMPTION", "REVERSAL"} => UNCHANGED Outstanding
<1> PICK n \in Nat : n = Len(ledger)
  BY RowShape
<1>1. /\ Rows = 1..n /\ Rows' = 1..(n + 1)
      /\ \A i \in Rows : ledger'[i] = L[i] /\ i # n + 1
      /\ ledger'[n + 1] = e
  BY RowShape, AppendProperties, LenProperties DEF Rows
<1>2. Rows' = Rows \cup {n + 1} /\ \A i \in Rows : SameEntry(ledger'[i], ledger[i])
  BY <1>1
<1>3. e.booking \in Bookings
  BY DEF Transaction
<1>4. /\ e.type = "CASHBACK" => Earned' = Earned \cup {e.booking}
      /\ e.type # "CASHBACK" => UNCHANGED Earned
  BY <1>1, <1>2, <1>3 DEF Earned, SameEntry
<1>5. ASSUME NEW j
      PROVE  Reversed(j)' <=> Reversed(j) \/ (e.type = "REVERSAL" /\ e.reference = j)
  BY <1>1, <1>2 DEF Reversed, SameEntry
<1>6. \A i \in Rows : Receipt(i)' = Receipt(i)
  BY <1>2 DEF Receipt, SameEntry
<1>7. ~Reversed(n + 1)
  BY <1>1 DEF Reversed, WalletInv, ReversedOnce
<1>8. ASSUME e.type = "REDEMPTION"
      PROVE  Outstanding' = Outstanding \cup {[receipt |-> n + 1, coins |-> -e.coins]}
  <2>1. Unreversed' = Unreversed \cup {n + 1}
    BY <1>1, <1>2, <1>5, <1>7, <1>8 DEF Unreversed, SameEntry
  <2>2. Receipt(n + 1)' = [receipt |-> n + 1, coins |-> -e.coins]
    BY <1>1 DEF Receipt
  <2>3. \A i \in Unreversed : Receipt(i)' = Receipt(i)
    BY <1>6 DEF Unreversed
  <2> QED
    BY <2>1, <2>2, <2>3 DEF Outstanding
<1>9. ASSUME e.type = "REVERSAL", e.reference \in Unreversed
      PROVE  Outstanding' = Outstanding \ {Receipt(e.reference)}
  <2>1. Unreversed' = Unreversed \ {e.reference}
    BY <1>1, <1>2, <1>5, <1>9 DEF Unreversed, SameEntry
  <2>2. \A i \in Unreversed : Receipt(i)' = Receipt(i)
    BY <1>6 DEF Unreversed
  <2>3. \A i, j : Receipt(i) = Receipt(j) => i = j
    BY DEF Receipt
  <2> QED
    BY <1>9, <2>1, <2>2, <2>3 DEF Outstanding
<1>10. ASSUME e.type \notin {"REDEMPTION", "REVERSAL"} PROVE UNCHANGED Outstanding
  <2>1. Unreversed' = Unreversed
    BY <1>1, <1>2, <1>5, <1>10 DEF Unreversed, SameEntry
  <2>2. \A i \in Unreversed : Receipt(i)' = Receipt(i)
    BY <1>6 DEF Unreversed
  <2> QED
    BY <2>1, <2>2 DEF Outstanding
<1> QED
  BY <1>4, <1>8, <1>9, <1>10


(* A step of the wallet, as a step of the account.                         *)
ViewNext ==
    \/ \E b \in Bookings, n \in CashbackCoins :
          /\ b \notin Earned /\ Earned' = Earned \cup {b}
          /\ balance' = balance + n /\ UNCHANGED Outstanding
    \/ \E r \in 1..MaxRows, n \in TierCosts :
          /\ n <= balance /\ balance' = balance - n
          /\ Outstanding' = Outstanding \cup {[receipt |-> r, coins |-> n]} /\ UNCHANGED Earned
    \/ \E e \in Outstanding :
          /\ balance' = balance + e.coins /\ Outstanding' = Outstanding \ {e} /\ UNCHANGED Earned
    \/ \E n \in 1..balance : balance' = balance - n /\ UNCHANGED <<Earned, Outstanding>>
    \/ UNCHANGED <<balance, Earned, Outstanding>>

(* A ledger that gains a row and changes no other has not changed at all   *)
(* but for that row.                                                       *)
LEMMA CreditView ==
    ASSUME WalletInv, NEW type \in Types, NEW b \in Bookings, NEW coins \in Int, NEW ref \in Nat,
           credit(type, b, coins, ref)
    PROVE  /\ type = "CASHBACK" => Earned' = Earned \cup {b} /\ UNCHANGED Outstanding
           /\ type = "REVERSAL" /\ ref \in Unreversed =>
                  Outstanding' = Outstanding \ {Receipt(ref)} /\ UNCHANGED Earned
<1> DEFINE e == Entry(type, b, coins, ref)
<1>1. e \in Transaction /\ e.type = type /\ e.booking = b /\ e.reference = ref
  BY EntryShape DEF Entry
<1>2. ledger \in Seq(Transaction) /\ \A i \in Rows : SameEntry(ledger[i], ledger[i])
  BY DEF WalletInv, ShapeInv, SameEntry
<1>3. ledger' = Append(ledger, e)
  BY DEF credit
<1> HIDE DEF e
<1> QED
  BY <1>1, <1>2, <1>3, ViewGrows

LEMMA DebitView ==
    ASSUME WalletInv, NEW b \in Bookings, NEW coins \in TierCosts, debit(b, coins)
    PROVE  ViewNext
<1>1. PICK k \in Rows : \E part \in 1..ledger[k].remaining :
          ledger' = Append([i \in Rows |-> [ledger[i] EXCEPT !.remaining =
                                IF i \in DrawnBefore(k) THEN 0 ELSE IF i = k THEN @ - part ELSE @]],
                           Entry("REDEMPTION", b, -coins, 0))
  BY DEF debit
<1>2. PICK part \in 1..ledger[k].remaining :
          ledger' = Append([i \in Rows |-> [ledger[i] EXCEPT !.remaining =
                                IF i \in DrawnBefore(k) THEN 0 ELSE IF i = k THEN @ - part ELSE @]],
                           Entry("REDEMPTION", b, -coins, 0))
  BY <1>1
<1> DEFINE new == [i \in Rows |-> IF i \in DrawnBefore(k) THEN 0
                                 ELSE IF i = k THEN ledger[i].remaining - part
                                 ELSE ledger[i].remaining]
           L == [i \in Rows |-> [ledger[i] EXCEPT !.remaining = new[i]]]
           e == Entry("REDEMPTION", b, -coins, 0)
<1>3. \A i \in Rows : ledger[i].remaining \in Int
  BY RowShape
<1>4. new \in [Rows -> Int]
  BY <1>3
<1>5. ledger' = Append(L, e)
  BY <1>2
<1>6. e \in Transaction /\ e.type = "REDEMPTION" /\ -e.coins = coins
  <2>1. "REDEMPTION" \in Types /\ -coins \in Int /\ coins \in Int
    BY DEF Types
  <2> QED
    BY <2>1, EntryShape
<1>7. /\ L \in Seq(Transaction) /\ Len(L) = Len(ledger)
      /\ \A i \in Rows : SameEntry(L[i], ledger[i])
  BY <1>4, RemainingOnly
<1> HIDE DEF new, L, e
<1>8. /\ Outstanding' = Outstanding \cup {[receipt |-> Len(ledger) + 1, coins |-> -e.coins]}
      /\ UNCHANGED Earned
  BY <1>5, <1>6, <1>7, ViewGrows
<1>9. Len(ledger) + 1 \in 1..MaxRows
  BY RowShape DEF debit
<1> QED
  BY <1>6, <1>8, <1>9 DEF debit, ViewNext

LEMMA ExpireView ==
    ASSUME WalletInv, WalletInv', BackedInv, BackedInv', Expire
    PROVE  ViewNext
<1>1. PICK i \in sweep :
          IF Lapsed(i)
          THEN /\ balance' = balance - ledger[i].remaining
               /\ ledger' = Append([ledger EXCEPT ![i].remaining = 0],
                             Entry("EXPIRY", ledger[i].booking, -ledger[i].remaining, i))
          ELSE UNCHANGED <<balance, ledger>>
  BY DEF Expire
<1>2. CASE ~Lapsed(i)
  BY <1>1, <1>2 DEF ViewNext, Earned, Outstanding, Unreversed, Receipt, Reversed, Rows
<1>3. CASE Lapsed(i)
  <2> DEFINE new == [j \in Rows |-> IF j = i THEN 0 ELSE ledger[j].remaining]
             L == [j \in Rows |-> [ledger[j] EXCEPT !.remaining = new[j]]]
             e == Entry("EXPIRY", ledger[i].booking, -ledger[i].remaining, i)
  <2>1. /\ i \in Rows /\ i \in Nat /\ ledger[i].booking \in Bookings
        /\ ledger[i].remaining \in Nat /\ ledger[i].remaining > 0
    BY <1>3, RowShape DEF WalletInv, ShapeInv, BackedInv, RowSound, Lapsed
  <2>2. "EXPIRY" \in Types /\ -ledger[i].remaining \in Int
    BY <2>1 DEF Types
  <2>3. e \in Transaction /\ e.type = "EXPIRY"
    BY <2>1, <2>2, EntryShape
  <2>4. new \in [Rows -> Int] /\ ledger' = Append(L, e)
    BY <1>1, <1>3, <2>1, ZeroedRow
  <2>5. /\ L \in Seq(Transaction) /\ Len(L) = Len(ledger)
        /\ \A j \in Rows : SameEntry(L[j], ledger[j])
    BY <2>4, RemainingOnly
  <2> HIDE DEF new, L, e
  <2>6. UNCHANGED <<Earned, Outstanding>>
    BY <2>3, <2>4, <2>5, ViewGrows
  <2>7. balance \in Nat /\ balance' \in Nat
    <3>1. balance \in Nat
      BY BackedBalance
    <3>2. (WalletInv /\ BackedInv => balance \in Nat)'
      BY BackedBalance, PTL
    <3> QED
      BY <3>1, <3>2
  <2>8. ledger[i].remaining \in 1..balance
    BY <1>1, <1>3, <2>1, <2>7
  <2> QED
    BY <1>1, <1>3, <2>6, <2>8 DEF ViewNext
<1> QED
  BY <1>2, <1>3

LEMMA NextView ==
    WalletInv /\ WalletInv' /\ BackedInv /\ BackedInv' /\ [Next]_vars => ViewNext
<1> SUFFICES ASSUME WalletInv, WalletInv', BackedInv, BackedInv', [Next]_vars PROVE ViewNext
  OBVIOUS
<1>1. ASSUME NEW b \in Bookings, NEW coins \in CashbackCoins, award_cashback(b, coins)
      PROVE  ViewNext
  <2>1. credit("CASHBACK", b, coins, 0) /\ b \notin Earned
    BY <1>1 DEF award_cashback, CashbackFree, Earned
  <2>2. "CASHBACK" \in Types /\ coins \in Int
    BY DEF Types, BATCH_TRANSACTION_TYPES
  <2>3. Earned' = Earned \cup {b} /\ UNCHANGED Outstanding /\ balance' = balance + coins
    BY <2>1, <2>2, CreditView DEF credit
  <2> QED
    BY <2>1, <2>3 DEF ViewNext
<1>2. ASSUME NEW h \in Handlers, reverse_redemption(h) PROVE ViewNext
  <2>1. PICK i \in reversing[h] :
            \/ /\ Reversible(i)
               /\ credit("REVERSAL", ledger[i].booking, -ledger[i].coins, i)
            \/ UNCHANGED <<balance, ledger>>
    BY <1>2 DEF reverse_redemption
  <2>2. CASE UNCHANGED <<balance, ledger>>
    BY <2>2 DEF ViewNext, Earned, Outstanding, Unreversed, Receipt, Reversed, Rows
  <2>3. CASE Reversible(i) /\ credit("REVERSAL", ledger[i].booking, -ledger[i].coins, i)
    <3>1. /\ i \in Rows /\ i \in Nat /\ i \in Unreversed
          /\ ledger[i].booking \in Bookings /\ -ledger[i].coins \in Int /\ "REVERSAL" \in Types
      BY <2>3, RowShape DEF WalletInv, ShapeInv, ReversingInv, Reversible, Unreversed, Types,
                            BATCH_TRANSACTION_TYPES
    <3>2. /\ Outstanding' = Outstanding \ {Receipt(i)} /\ UNCHANGED Earned
          /\ balance' = balance + (-ledger[i].coins)
      BY <2>3, <3>1, CreditView DEF credit
    <3>3. Receipt(i) \in Outstanding /\ Receipt(i).coins = -ledger[i].coins
      BY <3>1 DEF Outstanding, Receipt
    <3> QED
      BY <3>2, <3>3 DEF ViewNext
  <2> QED
    BY <2>1, <2>2, <2>3
<1>3. CASE UNCHANGED <<balance, ledger>>
  BY <1>3 DEF ViewNext, Earned, Outstanding, Unreversed, Receipt, Reversed, Rows
<1> QED
  BY <1>1, <1>2, <1>3, DebitView, ExpireView
     DEF Next, ListUnreversed, Abandon, ScanLapsed, Tick, vars

(* Whatever its handlers and its sweep do at the same time, the wallet is  *)
(* the account of CoinAccount: a booking earns once, a spend is covered, a *)
(* redemption comes back at most once and whole, and no other step moves a *)
(* coin but a lapse.                                                       *)
THEOREM WalletIsAccount == Spec => KeepsAccount
<1>1. Init => Account!AccountInit
  BY DEF Init, Account!AccountInit, Rows
<1>2. ViewNext => [Account!AccountNext]_(Account!accountVars)
  BY DEF Earned, Outstanding, Unreversed, Receipt, ViewNext,
         Account!AccountNext, Account!Earn, Account!Spend, Account!Return,
                  Account!Lapse, Account!accountVars
<1>3. WalletInv /\ WalletInv' /\ BackedInv /\ BackedInv' /\ [Next]_vars
         => [Account!AccountNext]_(Account!accountVars)
  BY <1>2, NextView
<1> QED
  BY <1>1, <1>3, WalletInvariance, BackedInvariance, PTL DEF Spec, KeepsAccount, Account!AccountSpec
=============================================================================
