---------------------------- MODULE CoinAccount -----------------------------
(***************************************************************************)
(* What a coin wallet promises its customer, without ledger, batches or    *)
(* concurrency: a booking earns coins once, coins are spent against a      *)
(* receipt and no more of them than there are, a receipt can be turned     *)
(* back into its coins once, and coins may lapse.  CoinWallet implements   *)
(* this.                                                                   *)
(***************************************************************************)
EXTENDS Integers

CONSTANTS
    Bookings,       \* bookings that can earn
    Earnings,       \* what one may earn
    Costs,          \* what may be spent at once
    Receipts        \* names for what was spent

VARIABLES
    coins,          \* what the customer can see and spend
    earned,         \* bookings that have earned
    outstanding     \* receipts not turned back, with their coins

accountVars == <<coins, earned, outstanding>>
-----------------------------------------------------------------------------
Earn(b, n) ==
    /\ b \notin earned
    /\ coins' = coins + n /\ earned' = earned \cup {b}
    /\ UNCHANGED outstanding

Spend(r, n) ==
    /\ n <= coins
    /\ coins' = coins - n /\ outstanding' = outstanding \cup {[receipt |-> r, coins |-> n]}
    /\ UNCHANGED earned

Return(e) ==
    /\ coins' = coins + e.coins /\ outstanding' = outstanding \ {e}
    /\ UNCHANGED earned

Lapse(n) ==
    /\ coins' = coins - n
    /\ UNCHANGED <<earned, outstanding>>

AccountInit == coins = 0 /\ earned = {} /\ outstanding = {}

AccountNext ==
    \/ \E b \in Bookings, n \in Earnings : Earn(b, n)
    \/ \E r \in Receipts, n \in Costs : Spend(r, n)
    \/ \E e \in outstanding : Return(e)
    \/ \E n \in 1..coins : Lapse(n)

AccountSpec == AccountInit /\ [][AccountNext]_accountVars
=============================================================================
