----------------------------- MODULE Redemption -----------------------------
(***************************************************************************)
(* Coins for rupees: the administrator's tiers, the screen that offers     *)
(* them for one booking, and the checkout that is sent from that screen.   *)
(* The screen repeats the checkout's tests with queries of its own, some   *)
(* time earlier.  Amounts are in units of the smallest coin value.         *)
(***************************************************************************)
EXTENDS Integers

CONSTANTS
    Tiers,          \* rows of RedemptionTier
    TierValues,     \* rupee values an administrator enters
    CoinValues,     \* values of CoinConfig.coin_value_rupees
    Total,          \* of the booking
    Amounts,        \* what a customer chooses to pay: a part or all
    MaxCoins        \* bound on the wallet

ASSUME RedemptionAssumption ==
    /\ TierValues \subseteq Nat \ {0} /\ CoinValues \subseteq Nat \ {0}
    /\ Total \in Nat /\ Amounts \subseteq 1..Total /\ MaxCoins \in Nat

VARIABLES
    coin_value,     \* CoinConfig, a single row
    tier,           \* RedemptionTier: rupee value, coin cost, is_active
    fresh, lapsed,  \* coins of the wallet, before and past their expiry date
    due,            \* the booking's total less what is settled
    open,           \* cash of its other recent pending orders
    live,           \* its status is one of ACTIVE_STATUSES
    screen,         \* the eligible tiers a screen shows
    checkout        \* the request sent from that screen

redemptionVars == <<coin_value, tier, fresh, lapsed, due, open, live, screen, checkout>>
-----------------------------------------------------------------------------
NoTier == [value |-> 0, cost |-> 0, is_active |-> FALSE]
BlankScreen == [amount |-> 0, rows |-> {}]
NoCheckout == [stage |-> "none", amount |-> 0, tier |-> NoTier, quoted |-> FALSE]
balance_coins == fresh + lapsed

(* A payment is pending with its charge from before the gateway is asked.  *)
charge_amount == checkout.amount - checkout.tier.value
committed == open + (IF checkout.stage = "created" THEN charge_amount ELSE 0)

(* What the screen was computed from has changed: it promises nothing now. *)
Moved == screen' = BlankScreen /\ checkout' = [checkout EXCEPT !.quoted = FALSE]

(* A screen in front of a refused or accepted request is left.             *)
Leave == checkout' = NoCheckout /\ screen' = BlankScreen
-----------------------------------------------------------------------------
(* CoinConfigAdmin: tiers keep the cost they were saved with.              *)
SetCoinValue(v) ==
    /\ coin_value' = v
    /\ UNCHANGED <<tier, fresh, lapsed, due, open, live, screen, checkout>>

(* RedemptionTier.save: the cost follows the coin value of the moment, and *)
(* every save, a mere change of is_active too, computes it anew.           *)
_resolve_coin_cost(value) == {cost \in 1..value : cost * coin_value = value}

SaveTier(t, value, active) ==
    /\ \A s \in Tiers \ {t} : tier[s].value # value
    /\ \E cost \in _resolve_coin_cost(value) :
          tier' = [tier EXCEPT ![t] = [value |-> value, cost |-> cost, is_active |-> active]]
    /\ Moved
    /\ UNCHANGED <<coin_value, fresh, lapsed, due, open, live>>
-----------------------------------------------------------------------------
(* EligibleTiersView.get_extract.                                          *)
(* Mutant: the price in coins is not compared with the balance.            *)
EligibleAtAnyCost(amount) == {tier[t] : t \in {s \in Tiers : tier[s].is_active /\ tier[s].value <= amount}}
Eligible(amount) ==
    {tier[t] : t \in {s \in Tiers : tier[s].is_active /\ tier[s].value <= amount /\ tier[s].cost <= balance_coins}}

EligibleTiers(amount) ==
    /\ checkout = NoCheckout /\ amount <= due
    /\ screen' = [amount |-> amount, rows |-> Eligible(amount)]
    /\ UNCHANGED <<coin_value, tier, fresh, lapsed, due, open, live, checkout>>

(* InitiatePaymentView.initiate_extract up to the gateway's answer: the    *)
(* booking, the open amount and the tier are read once.                    *)
Accepted_by_checks(amount, t) ==
    /\ live /\ amount <= due /\ committed + amount <= due
    /\ tier[t].is_active /\ tier[t].value <= amount

Initiate(amount, t) ==
    /\ checkout = NoCheckout /\ tier[t] # NoTier
    /\ checkout' = [stage |-> IF Accepted_by_checks(amount, t) THEN "created" ELSE "refused",
                    amount |-> amount, tier |-> tier[t],
                    quoted |-> screen.amount = amount /\ tier[t] \in screen.rows]
    /\ UNCHANGED <<coin_value, tier, fresh, lapsed, due, open, live, screen>>

(* A refused order; one of nothing is never sent to the gateway.           *)
GatewayRefuses ==
    /\ checkout.stage = "created" /\ checkout.tier.value < checkout.amount
    /\ Leave
    /\ UNCHANGED <<coin_value, tier, fresh, lapsed, due, open, live>>

(* _debit_redemption_or_fail with CustomerWallet.debit, which counts all   *)
(* coins and then draws on those that have not lapsed.                     *)
Debit ==
    /\ checkout.stage = "created"
    /\ LET cost == checkout.tier.cost IN
       IF balance_coins >= cost /\ fresh >= cost
       THEN /\ checkout' = [checkout EXCEPT !.stage = "accepted"]
            /\ fresh' = fresh - cost
            /\ IF charge_amount = 0
               THEN due' = due - checkout.amount /\ UNCHANGED open
               ELSE open' = open + charge_amount /\ UNCHANGED due
       ELSE checkout' = [checkout EXCEPT !.stage = "refused"] /\ UNCHANGED <<fresh, due, open>>
    /\ UNCHANGED <<coin_value, tier, lapsed, live, screen>>

(* The customer reads the answer before anything else happens.             *)
Answered == checkout.stage \in {"accepted", "refused"}

Done ==
    /\ Answered /\ Leave
    /\ UNCHANGED <<coin_value, tier, fresh, lapsed, due, open, live>>
-----------------------------------------------------------------------------
(* What happens to the booking and the wallet meanwhile; PaymentSettlement *)
(* and CoinWallet have the steps in full.                                  *)
OtherOrder(amount) ==
    /\ live /\ committed + amount <= due /\ open' = open + amount
    /\ UNCHANGED <<coin_value, tier, fresh, lapsed, due, live, screen, checkout>>

(* The window of the open orders passes, or they are paid, with the coins  *)
(* redeemed along with them.                                               *)
OrdersLapse ==
    /\ open > 0 /\ open' = 0
    /\ UNCHANGED <<coin_value, tier, fresh, lapsed, due, live, screen, checkout>>

OrdersPaid(amount) ==
    /\ open > 0 /\ open' = 0
    /\ amount <= due /\ due' = due - amount /\ Moved
    /\ UNCHANGED <<coin_value, tier, fresh, lapsed, live>>

BookingEnds ==
    /\ live /\ live' = FALSE
    /\ UNCHANGED <<coin_value, tier, fresh, lapsed, due, open, screen, checkout>>

CoinsEarned ==
    /\ balance_coins < MaxCoins /\ fresh' = fresh + 1
    /\ UNCHANGED <<coin_value, tier, lapsed, due, open, live, screen, checkout>>

CoinsSpent ==
    /\ fresh > 0 /\ fresh' = fresh - 1 /\ Moved
    /\ UNCHANGED <<coin_value, tier, lapsed, due, open, live>>

CoinsLapse ==
    /\ fresh > 0 /\ fresh' = 0 /\ lapsed' = lapsed + fresh
    /\ UNCHANGED <<coin_value, tier, due, open, live, screen, checkout>>

CoinsSwept ==
    /\ lapsed > 0 /\ lapsed' = 0 /\ Moved
    /\ UNCHANGED <<coin_value, tier, fresh, due, open, live>>
-----------------------------------------------------------------------------
RedemptionInit ==
    /\ coin_value \in CoinValues
    /\ tier = [t \in Tiers |-> NoTier]
    /\ fresh = 0 /\ lapsed = 0
    /\ due = Total /\ open = 0 /\ live = TRUE
    /\ screen = BlankScreen /\ checkout = NoCheckout

RedemptionNext ==
    \/ Done
    \/ /\ ~Answered
       /\ \/ \E v \in CoinValues : SetCoinValue(v)
          \/ \E t \in Tiers, value \in TierValues, active \in BOOLEAN : SaveTier(t, value, active)
          \/ \E amount \in Amounts : EligibleTiers(amount) \/ OtherOrder(amount) \/ \E t \in Tiers : Initiate(amount, t)
          \/ GatewayRefuses \/ Debit
          \/ OrdersLapse \/ \E amount \in Amounts : OrdersPaid(amount)
          \/ BookingEnds \/ CoinsEarned \/ CoinsSpent \/ CoinsLapse \/ CoinsSwept

RedemptionSpec == RedemptionInit /\ [][RedemptionNext]_redemptionVars
-----------------------------------------------------------------------------
TierRow == [value : TierValues, cost : Nat \ {0}, is_active : BOOLEAN]

(* Coins are never negative; coins and cash together may overpay, cash not.*)
RedemptionTypeOK ==
    /\ coin_value \in CoinValues
    /\ \A t \in Tiers : tier[t] = NoTier \/ tier[t] \in TierRow
    /\ fresh \in Nat /\ lapsed \in Nat /\ fresh + lapsed <= MaxCoins
    /\ due \in -Total..Total /\ open \in 0..Total /\ live \in BOOLEAN
    /\ screen.amount \in 0..Total /\ \A row \in screen.rows : row \in TierRow /\ row.value <= screen.amount
    /\ checkout.stage \in {"none", "created", "refused", "accepted"}

(* "Eligible here if it would actually be accepted there": a tier taken    *)
(* from a screen that is still up to date is refused only when the booking *)
(* has ended, another order is open, or some of the coins shown have       *)
(* lapsed and no sweep has removed them.  And what is taken is the price   *)
(* of the tier as it was once saved, at the coin value of that time, never *)
(* an old price for a new discount.                                        *)
OfferHonoured ==
    /\ checkout.stage = "refused" /\ checkout.quoted
          => ~live \/ open > 0 \/ lapsed > 0
    /\ checkout.stage = "accepted"
          => \E v \in CoinValues : checkout.tier.value = checkout.tier.cost * v
=============================================================================
