--------------------------- MODULE BookingService ---------------------------
(***************************************************************************)
(* What a customer meets on the way to a booking and through it: the       *)
(* storefront, the artist's free time, the booking's life, the screens     *)
(* that show it and the coins that may pay for it.  Each part has bookings *)
(* of its own, reduced to what it reads, so that no step of one touches a  *)
(* variable of another; a behaviour follows the part it chose at the start *)
(* (aspect) while the others rest.                                         *)
(***************************************************************************)
EXTENDS BookingLifecycle, BookingScreens, Redemption, SlotRules, Storefront

VARIABLE aspect

Aspects == {"store", "slots", "life", "screens", "coins"}

serviceVars == <<vars, screenVars, redemptionVars, slotVars, storeVars, aspect>>

ServiceInit ==
    /\ Init /\ ScreensInit /\ RedemptionInit /\ SlotRulesInit /\ StorefrontInit
    /\ aspect \in Aspects
    /\ aspect # "coins" => coin_value = CHOOSE v \in CoinValues : TRUE

Rest(part, partVars) == aspect # part => UNCHANGED partVars

ServiceNext ==
    /\ \/ aspect = "store" /\ StorefrontNext
       \/ aspect = "slots" /\ SlotRulesNext
       \/ aspect = "life" /\ Next
       \/ aspect = "screens" /\ ScreensNext
       \/ aspect = "coins" /\ RedemptionNext
    /\ Rest("store", storeVars) /\ Rest("slots", slotVars)
    /\ Rest("life", vars) /\ Rest("screens", screenVars) /\ Rest("coins", redemptionVars)
    /\ UNCHANGED aspect

(* Celery beat starts the sweep of BookingLifecycle every five minutes.    *)
ServiceSpec ==
    /\ ServiceInit /\ [][ServiceNext]_serviceVars
    /\ WF_vars(FindMissed) /\ WF_vars(MarkMissed)
-----------------------------------------------------------------------------
(* Every row, page, screen and handler of the five keeps its type, and the *)
(* booking never pays its cashback twice nor shows a PIN nobody earned.    *)
ServiceSound ==
    /\ BookingSound
    /\ ScreensTypeOK /\ RedemptionTypeOK
    /\ SlotRulesTypeOK /\ StorefrontTypeOK
=============================================================================
