----------------------------- MODULE Storefront -----------------------------
(***************************************************************************)
(* What customers are shown of an artist and what they can order.  The     *)
(* search, the artist's page, the public page behind the share link and    *)
(* the order itself each select the rows they use with a query of their    *)
(* own.  Each is one step here: an order that overlaps an edit is decided  *)
(* by what its queries find.  Whether the slot is free is the subject of   *)
(* SlotRules and SlotCalendar.                                             *)
(***************************************************************************)
EXTENDS Integers, FiniteSets, FiniteSetsExt

CONSTANTS
    Offers,         \* rows of PricingPackage
    Extras,         \* rows of PackageAddOn, each of price 1
    Cities,         \* cities of service areas and of customer addresses
    Prices,         \* of a package
    VisitCharge,    \* charge_amount of a per_visit area
    NoCity          \* the order names no address

ASSUME StorefrontAssumption ==
    /\ IsFiniteSet(Offers) /\ IsFiniteSet(Extras) /\ NoCity \notin Cities
    /\ Prices \subseteq Nat /\ VisitCharge \in Nat

VARIABLES
    approved, accepting,    \* of the profile
    offer, extra, coverage, \* packages, add-ons, service areas
    visits                  \* ArtistLocationPreference

storeVars == <<approved, accepting, offer, extra, coverage, visits>>
-----------------------------------------------------------------------------
VisitPlaces == {"Home Visit", "Studio"}
OfferRow == [stored : BOOLEAN, is_active : BOOLEAN, price : Prices \cup {0}]
ExtraRow == [stored : BOOLEAN, is_active : BOOLEAN, packages : SUBSET Offers]
AreaRow == [stored : BOOLEAN, is_active : BOOLEAN, type : {"free", "per_visit"}]
NoOffer == [stored |-> FALSE, is_active |-> FALSE, price |-> 0]
NoExtra == [stored |-> FALSE, is_active |-> FALSE, packages |-> {}]
NoArea == [stored |-> FALSE, is_active |-> FALSE, type |-> "free"]
Orders == [package : Offers, addons : SUBSET Extras, location : VisitPlaces, city : Cities \cup {NoCity}]

On(rows) == {i \in DOMAIN rows : rows[i].stored /\ rows[i].is_active}
-----------------------------------------------------------------------------
(* SearchArtistView: approved, accepting, and an active package to give    *)
(* the starting price.                                                     *)
Found == approved /\ accepting /\ On(offer) # {}
starting_price == Min({offer[p].price : p \in On(offer)})

(* ArtistDetailView and the public page: an approved artist's active rows. *)
DetailPage ==
    [shown |-> approved, isAcceptingBookings |-> accepting, packages |-> [p \in On(offer) |-> offer[p].price],
     addOns |-> [a \in On(extra) |-> extra[a].packages], serviceAreas |-> [c \in On(coverage) |-> coverage[c].type]]

PublicPage ==
    [shown |-> approved, isAcceptingBookings |-> accepting, packages |-> [p \in On(offer) |-> offer[p].price],
     serviceAreas |-> On(coverage)]

get_all_locations == visits

(* ArtistServiceArea.find_for_city and has_active.                         *)
find_for_city(city) == {c \in On(coverage) : c = city}
has_active == On(coverage) # {}

(* Mutant: an add-on that was switched off can still be ordered.           *)
AddOnsStored(order) == \A a \in order.addons : extra[a].stored /\ order.package \in extra[a].packages

AddOnsFit(order) == \A a \in order.addons : a \in On(extra) /\ order.package \in extra[a].packages

TravelApplies(order) == order.location = "Home Visit" /\ has_active

travel_fee(order) ==
    IF TravelApplies(order) /\ coverage[order.city].type = "per_visit" THEN VisitCharge ELSE 0

create_extract(order) ==
    /\ approved /\ accepting
    /\ offer[order.package].stored /\ offer[order.package].is_active
    /\ order.location \in visits
    /\ AddOnsFit(order)
    /\ TravelApplies(order) => order.city # NoCity /\ find_for_city(order.city) # {}

total_amount(order) == offer[order.package].price + Cardinality(order.addons) + travel_fee(order)
-----------------------------------------------------------------------------
SetApproval(on) == approved' = on /\ UNCHANGED <<accepting, offer, extra, coverage, visits>>

set_accepting_bookings(on) == accepting' = on /\ UNCHANGED <<approved, offer, extra, coverage, visits>>

SavePackage(p, active, price) ==        \* created active
    /\ offer[p].stored \/ active
    /\ offer' = [offer EXCEPT ![p] = [stored |-> TRUE, is_active |-> active, price |-> price]]
    /\ UNCHANGED <<approved, accepting, extra, coverage, visits>>

RemovePackage(p) ==                     \* with its links to add-ons
    /\ offer[p].stored
    /\ offer' = [offer EXCEPT ![p] = NoOffer]
    /\ extra' = [a \in Extras |-> [extra[a] EXCEPT !.packages = @ \ {p}]]
    /\ UNCHANGED <<approved, accepting, coverage, visits>>

SaveAddOnRow(a, active, packages) ==
    /\ extra[a].stored \/ active
    /\ \A p \in packages : offer[p].stored
    /\ extra' = [extra EXCEPT ![a] = [stored |-> TRUE, is_active |-> active, packages |-> packages]]
    /\ UNCHANGED <<approved, accepting, offer, coverage, visits>>

RemoveAddOn(a) ==
    /\ extra[a].stored /\ extra' = [extra EXCEPT ![a] = NoExtra]
    /\ UNCHANGED <<approved, accepting, offer, coverage, visits>>

SaveServiceArea(city, active, type) ==
    /\ coverage[city].stored \/ active
    /\ coverage' = [coverage EXCEPT ![city] = [stored |-> TRUE, is_active |-> active, type |-> type]]
    /\ UNCHANGED <<approved, accepting, offer, extra, visits>>

RemoveServiceArea(city) ==
    /\ coverage[city].stored /\ coverage' = [coverage EXCEPT ![city] = NoArea]
    /\ UNCHANGED <<approved, accepting, offer, extra, visits>>

AddLocation(location) ==
    /\ visits' = visits \cup {location} /\ UNCHANGED <<approved, accepting, offer, extra, coverage>>

RemoveLocation(location) ==
    /\ visits' = visits \ {location} /\ UNCHANGED <<approved, accepting, offer, extra, coverage>>

StorefrontInit ==
    /\ approved = FALSE /\ accepting = TRUE /\ visits = {}
    /\ offer = [p \in Offers |-> NoOffer] /\ extra = [a \in Extras |-> NoExtra]
    /\ coverage = [c \in Cities |-> NoArea]

StorefrontNext ==
    \/ \E on \in BOOLEAN : SetApproval(on) \/ set_accepting_bookings(on)
    \/ \E p \in Offers : RemovePackage(p) \/ \E b \in BOOLEAN, n \in Prices : SavePackage(p, b, n)
    \/ \E a \in Extras : RemoveAddOn(a) \/ \E b \in BOOLEAN, ps \in SUBSET Offers : SaveAddOnRow(a, b, ps)
    \/ \E c \in Cities :
          RemoveServiceArea(c) \/ \E b \in BOOLEAN, t \in {"free", "per_visit"} : SaveServiceArea(c, b, t)
    \/ \E l \in VisitPlaces : AddLocation(l) \/ RemoveLocation(l)
-----------------------------------------------------------------------------
StorefrontTypeOK ==
    /\ {approved, accepting} \subseteq BOOLEAN /\ visits \subseteq VisitPlaces
    /\ offer \in [Offers -> OfferRow] /\ extra \in [Extras -> ExtraRow] /\ coverage \in [Cities -> AreaRow]

(* What a customer expects who reads the artist's page and locations.      *)
ExpectedOffer(page, order) ==
    /\ page.shown /\ page.isAcceptingBookings /\ order.package \in DOMAIN page.packages
    /\ order.location \in get_all_locations
    /\ \A a \in order.addons : a \in DOMAIN page.addOns /\ order.package \in page.addOns[a]
    /\ order.location = "Home Visit" /\ DOMAIN page.serviceAreas # {} => order.city \in DOMAIN page.serviceAreas

ExpectedPrice(page, order) ==
    page.packages[order.package] + Cardinality(order.addons)
    + (IF order.location = "Home Visit" /\ order.city \in DOMAIN page.serviceAreas
          /\ page.serviceAreas[order.city] = "per_visit" THEN VisitCharge ELSE 0)

(* CreateBookingView.create_extract against the three places that show an  *)
(* artist: an order is accepted exactly if the page offers it, at the      *)
(* price that can be read there, and the artist is found by the search,    *)
(* with the right starting price, exactly when the pages have something to *)
(* order.                                                                  *)
PageMatchesOrder ==
    /\ \A order \in Orders :
          /\ create_extract(order) <=> ExpectedOffer(DetailPage, order)
          /\ create_extract(order) => /\ total_amount(order) = ExpectedPrice(DetailPage, order)
                                      /\ Found /\ order.package \in DOMAIN PublicPage.packages
    /\ Found <=> PublicPage.shown /\ PublicPage.isAcceptingBookings /\ DOMAIN PublicPage.packages # {}
    /\ Found => \E p \in DOMAIN DetailPage.packages :
                   /\ starting_price = DetailPage.packages[p]
                   /\ \A q \in DOMAIN PublicPage.packages : starting_price <= PublicPage.packages[q]
=============================================================================
