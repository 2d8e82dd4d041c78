----------------------------- MODULE CoinWallet -----------------------------
(***************************************************************************)
(* A customer's coin wallet: the balance and its ledger of coin            *)
(* transactions, where every credit is a batch that is spent oldest first  *)
(* and lapses on its own date.  Each change is one transaction under the   *)
(* lock of the wallet's row; the handlers that reverse the redemptions of  *)
(* a booking, and the sweep of lapsed batches, choose the rows to work on  *)
(* beforehand and without a lock.                                          *)
(***************************************************************************)
EXTENDS Integers, Sequences, FiniteSets, Functions

CONSTANTS
    Bookings,      \* bookings of the customer
    Handlers,      \* handlers that can be reversing a booking's redemptions
    CashbackCoins, \* what award_cashback may come to: cashback_percentage of the
                   \* price at the coin's value, rounded down; 0 credits nothing
    TierCosts,     \* coin_cost of the redemption tiers
    ExpiryDays,    \* CoinConfig.coin_expiry_days
    MaxTime,       \* bound on the clock, in days
    MaxRows        \* bound on the ledger; a sweep may go past it

ASSUME WalletAssumption ==
    /\ CashbackCoins \subseteq Nat \ {0} /\ TierCosts \subseteq Nat \ {0}
    /\ ExpiryDays \in Nat /\ MaxTime \in Nat /\ MaxRows \in Nat

VARIABLES
    balance,    \* CustomerWallet.balance_coins
    ledger,     \* coin_transactions, in order of creation
    reversing,  \* the redemptions each handler still has to reverse
    sweep,      \* the lapsed batches the sweep still has to zero
    now

vars == <<balance, ledger, reversing, sweep, now>>
-----------------------------------------------------------------------------
(* Mutant: coins that come back from a redemption form no batch. *)
BATCH_TYPES_CASHBACK == {"CASHBACK"}

BATCH_TRANSACTION_TYPES == {"CASHBACK", "REVERSAL", "ADJUSTMENT"}
Types == BATCH_TRANSACTION_TYPES \cup {"REDEMPTION", "EXPIRY"}

(* reference is the row a REVERSAL or an EXPIRY is about; 0 is null. *)
CoinTransaction == [type : Types, booking : Bookings, coins : Int, balance_after : Nat,
                    remaining : Nat, expires_at : Nat, reference : Nat]

Rows == DOMAIN ledger
Batches == {i \in Rows : ledger[i].type \in BATCH_TRANSACTION_TYPES}
Spendable(i) == i \in Batches /\ ledger[i].remaining > 0 /\ ledger[i].expires_at > now
Lapsed(i)    == i \in Batches /\ ledger[i].remaining > 0 /\ ledger[i].expires_at <= now
Remaining(S) == SumFunctionOnSet([i \in Rows |-> ledger[i].remaining], S)

(* Mutant: the row records the balance it found, not the one it left. *)
EntryBalanceBefore(type, b, coins, ref) ==
    [type |-> type, booking |-> b, coins |-> coins, balance_after |-> balance,
     remaining |-> IF type \in BATCH_TRANSACTION_TYPES THEN coins ELSE 0,
     expires_at |-> IF type \in BATCH_TRANSACTION_TYPES THEN now + ExpiryDays ELSE 0,
     reference |-> ref]

(* Mutant: every row is given remaining coins, whatever its type. *)
EntryAlwaysBatch(type, b, coins, ref) ==
    [type |-> type, booking |-> b, coins |-> coins, balance_after |-> balance + coins,
     remaining |-> coins, expires_at |-> now + ExpiryDays, reference |-> ref]

Entry(type, b, coins, ref) ==
    [type |-> type, booking |-> b, coins |-> coins, balance_after |-> balance + coins,
     remaining |-> IF type \in BATCH_TRANSACTION_TYPES THEN coins ELSE 0,
     expires_at |-> IF type \in BATCH_TRANSACTION_TYPES THEN now + ExpiryDays ELSE 0,
     reference |-> ref]

credit(type, b, coins, ref) ==
    /\ Len(ledger) < MaxRows                                            \* bound
    /\ balance' = balance + coins
    /\ ledger' = Append(ledger, Entry(type, b, coins, ref))

(* Mutant: nothing keeps a booking from being credited again. *)
CashbackRepeatable(b) == TRUE

CashbackFree(b) == \A i \in Rows : ~(ledger[i].type = "CASHBACK" /\ ledger[i].booking = b)

award_cashback(b, coins) ==
    /\ CashbackFree(b)
    /\ credit("CASHBACK", b, coins, 0)
    /\ UNCHANGED <<reversing, sweep, now>>

(* Mutant: the batches are drawn down newest first. *)
DrawnNewestFirst(k) == {i \in Rows : i > k /\ Spendable(i)}

(* The batches a debit empties before it takes the rest from batch k: the  *)
(* last batch it needs is the first whose older ones do not cover the cost.*)
DrawnBefore(k) == {i \in Rows : i < k /\ Spendable(i)}

debit(b, coins) ==
    /\ coins <= balance
    /\ Len(ledger) < MaxRows                                            \* bound
    /\ \E k \in Rows : \E part \in 1..ledger[k].remaining :
          /\ Spendable(k) /\ Remaining(DrawnBefore(k)) + part = coins
          /\ ledger' = Append([i \in Rows |-> [ledger[i] EXCEPT !.remaining =
                                   IF i \in DrawnBefore(k) THEN 0 ELSE IF i = k THEN @ - part ELSE @]],
                              Entry("REDEMPTION", b, -coins, 0))
    /\ balance' = balance - coins
    /\ UNCHANGED <<reversing, sweep, now>>
-----------------------------------------------------------------------------
Reversed(i) == \E j \in Rows : ledger[j].type = "REVERSAL" /\ ledger[j].reference = i

(* reverse_all_redemptions_for_booking picks its rows ...                  *)
ListUnreversed(h, b) ==
    /\ reversing[h] = {}
    /\ reversing' = [reversing EXCEPT ![h] =
           {i \in Rows : ledger[i].type = "REDEMPTION" /\ ledger[i].booking = b /\ ~Reversed(i)}]
    /\ UNCHANGED <<balance, ledger, sweep, now>>

(* A worker dies between two reversals. *)
Abandon(h) ==
    /\ reversing[h] # {}
    /\ reversing' = [reversing EXCEPT ![h] = {}]
    /\ UNCHANGED <<balance, ledger, sweep, now>>

(* Mutant: the row is not looked at again under its lock. *)
ReversibleAlways(i) == TRUE

Reversible(i) == ~Reversed(i)

(* ... and reverses them one transaction at a time; a row that another     *)
(* handler has reversed raises, and the rest of the list is dropped.       *)
reverse_redemption(h) == \E i \in reversing[h] :
    /\ \/ /\ Reversible(i)
          /\ credit("REVERSAL", ledger[i].booking, -ledger[i].coins, i)
          /\ reversing' = [reversing EXCEPT ![h] = @ \ {i}]
       \/ /\ ~Reversible(i)
          /\ reversing' = [reversing EXCEPT ![h] = {}]
          /\ UNCHANGED <<balance, ledger>>
    /\ UNCHANGED <<sweep, now>>
-----------------------------------------------------------------------------
(* Mutant: the scan overlooks batches that a reversal created. *)
ToExpireCashback == {i \in Rows : Lapsed(i) /\ ledger[i].type = "CASHBACK"}

ToExpire == {i \in Rows : Lapsed(i)}

(* expire_lapsed_coins lists the lapsed batches ...                        *)
ScanLapsed ==
    /\ sweep = {}
    /\ sweep' = ToExpire
    /\ UNCHANGED <<balance, ledger, reversing, now>>

(* ... and zeroes each one, looking at it again under the locks.           *)
Expire == \E i \in sweep :
    /\ sweep' = sweep \ {i}
    /\ IF Lapsed(i)
       THEN /\ balance' = balance - ledger[i].remaining
            /\ ledger' = Append([ledger EXCEPT ![i].remaining = 0],
                                Entry("EXPIRY", ledger[i].booking, -ledger[i].remaining, i))
       ELSE UNCHANGED <<balance, ledger>>
    /\ UNCHANGED <<reversing, now>>

Tick == /\ now < MaxTime
        /\ now' = now + 1
        /\ UNCHANGED <<balance, ledger, reversing, sweep>>

Init == /\ balance = 0 /\ ledger = <<>> /\ now = 0
        /\ reversing = [h \in Handlers |-> {}] /\ sweep = {}

Next == \/ \E b \in Bookings : \/ \E coins \in CashbackCoins : award_cashback(b, coins)
                               \/ \E coins \in TierCosts : debit(b, coins)
                               \/ \E h \in Handlers : ListUnreversed(h, b)
        \/ \E h \in Handlers : reverse_redemption(h) \/ Abandon(h)
        \/ ScanLapsed \/ Expire \/ Tick

Spec == Init /\ [][Next]_vars

(* Celery beat starts the sweep every day and each run works off its list. *)
FairSpec == Spec /\ WF_vars(ScanLapsed) /\ WF_vars(Expire)
-----------------------------------------------------------------------------
TypeOK == /\ balance \in Nat
          /\ ledger \in Seq(CoinTransaction)
          /\ reversing \in [Handlers -> SUBSET Rows]
          /\ sweep \subseteq Rows
          /\ now \in Nat

(* Every row records the balance it left behind, and the wallet's balance  *)
(* is that of the last row: the history shown to the customer adds up.     *)
Before(i) == IF i = 1 THEN 0 ELSE ledger[i - 1].balance_after
LedgerChained ==
    /\ \A i \in Rows : ledger[i].balance_after = Before(i) + ledger[i].coins
    /\ balance = Before(Len(ledger) + 1)

(* The balance is what the batches hold: no coin is shown that no batch    *)
(* backs, and none is left in a batch after it was spent or lapsed.        *)
BalanceBacked == balance = Remaining(Batches)

(* A redemption comes back once, and whole, however many cancellation      *)
(* paths list it at the same time.                                         *)
ReversedOnce ==
    \A i \in Rows : ledger[i].type = "REVERSAL" =>
        /\ \A j \in Rows \ {i} : ledger[j].type = "REVERSAL"
                               => ledger[i].reference # ledger[j].reference
        /\ \E k \in Rows : /\ k = ledger[i].reference /\ ledger[k].type = "REDEMPTION"
                           /\ ledger[i].coins = -ledger[k].coins

(* A debit leaves no older spendable coin behind when it takes a newer.    *)
OldestFirst ==
    [][\A i, j \in Rows :
          /\ balance' < balance /\ Spendable(i) /\ Spendable(j) /\ i < j
          /\ ledger'[j].remaining < ledger[j].remaining
          => ledger'[i].remaining = 0]_vars

(* Coins past their date do not stay in the visible balance for ever.      *)
LapsedCoinsLeave ==
    \A i \in 1..MaxRows : (i \in Rows /\ Lapsed(i)) ~> ~Lapsed(i)

(* Behind its ledger, its batches and its concurrent handlers the wallet   *)
(* is a plain account: every step of award_cashback, debit, the reversals  *)
(* and the sweep is one step of CoinAccount, or none.                      *)
Account == INSTANCE CoinAccount WITH
    Earnings    <- CashbackCoins,
    Costs       <- TierCosts,
    Receipts    <- 1..MaxRows,
    coins       <- balance,
    earned      <- {b \in Bookings : \E i \in Rows : ledger[i].type = "CASHBACK" /\ ledger[i].booking = b},
    outstanding <- {[receipt |-> i, coins |-> -ledger[i].coins] :
                        i \in {j \in Rows : ledger[j].type = "REDEMPTION" /\ ~Reversed(j)}}

KeepsAccount == Account!AccountSpec
=============================================================================
