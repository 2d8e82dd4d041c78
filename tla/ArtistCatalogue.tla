-------------------------- MODULE ArtistCatalogue ---------------------------
(***************************************************************************)
(* What one artist offers: packages, add-ons, services and specialities,   *)
(* cities served, portfolio, payout account, and the brand list the        *)
(* administrators keep.  Every handler is one transaction without a lock   *)
(* on what it checks: it reads, decides, loads the row it will change and  *)
(* saves the whole row.  Rows of a deleted object that is saved again are  *)
(* inserted anew.  The exceptions take the row lock first: an add to or a  *)
(* decision on the brand list, and the payout account.                     *)
(***************************************************************************)
EXTENDS Integers, FiniteSets

CONSTANTS
    Packages, AddOns, Services, Areas, Items, Brands, BrandRequests,  \* rows the tables may hold
    Names,          \* cities, or brand names, that differ by more than case
    Accounts,       \* payout accounts
    Workers,        \* handlers that can be in flight
    MaxSamples,     \* work samples an artist may have
    MaxPortfolio,   \* other portfolio items
    MaxPending,     \* MAX_PENDING_REQUESTS
    None

ASSUME CatalogueAssumption ==
    /\ {MaxSamples, MaxPortfolio, MaxPending} \subseteq Nat \ {0}
    /\ None \notin Names \cup Accounts /\ None \notin 0..1 /\ None \notin {"free", "per_visit"}

VARIABLES
    package, addon,         \* PricingPackage, PackageAddOn
    offering, speciality,   \* sub-categories offered, and those specialised in
    area,                   \* ArtistServiceArea
    item,                   \* Portfolio
    payout,                 \* ArtistPayoutAccount
    brand, ask,             \* Brand, BrandRequest
    work                    \* the handlers in flight

catalogueVars == <<package, addon, offering, speciality, area, item, payout, brand, ask, work>>
-----------------------------------------------------------------------------
Lives == {"new", "live", "gone"}
Package == [state : Lives, active : BOOLEAN]
AddOn   == [state : Lives, active : BOOLEAN, packages : SUBSET Packages]
Area    == [state : Lives, city : Names \cup {None}, charge_type : {"free", "per_visit"},
            charge_amount : 0..1, active : BOOLEAN]
Item    == [state : Lives, active : BOOLEAN, sample : BOOLEAN]
Payout  == [account : Accounts \cup {None}, verification : {"pending", "approved"}]
Brand   == [state : Lives, name : Names \cup {None}]
Ask     == [state : Lives, name : Names \cup {None}, status : {"pending", "approved", "rejected"}]

NewPackage == [state |-> "new", active |-> TRUE]
NewAddOn   == [state |-> "new", active |-> TRUE, packages |-> {}]
NewArea    == [state |-> "new", city |-> None, charge_type |-> "free", charge_amount |-> 0,
               active |-> TRUE]
NewItem    == [state |-> "new", active |-> TRUE, sample |-> FALSE]
NewBrand   == [state |-> "new", name |-> None]
NewAsk     == [state |-> "new", name |-> None, status |-> "pending"]

(* row is the row to be saved; part is what is still to be put into it.    *)
NoWork == [op |-> "none"]
Work == {NoWork}
    \cup [op : {"package"}, id : Packages, row : Package]
    \cup [op : {"package delete"}, id : Packages]
    \cup [op : {"addon"}, id : AddOns, row : AddOn, linked : BOOLEAN]
    \cup [op : {"area load"}, id : Areas, part : [city : Names \cup {None},
              charge_type : {None, "free", "per_visit"}, charge_amount : {None} \cup 0..1]]
    \cup [op : {"area"}, id : Areas, row : Area]
    \cup [op : {"item"}, id : Items, row : Item]
    \cup [op : {"speciality"}, wanted : SUBSET Services]
    \cup [op : {"brand", "brand locked"}, id : Brands, row : Brand]
    \cup [op : {"ask"}, id : BrandRequests, row : Ask]
    \cup [op : {"decide"}, id : BrandRequests]

Begin(w, task) == work[w] = NoWork /\ work' = [work EXCEPT ![w] = task]
End(w) == work' = [work EXCEPT ![w] = NoWork]
Doing(w, op) == work[w].op = op
Unclaimed(op, i) == \A v \in Workers : ~(Doing(v, op) /\ work[v].id = i)
Live(table) == {i \in DOMAIN table : table[i].state = "live"}
-----------------------------------------------------------------------------
(* PricingPackage.  The last active package may not be deleted.            *)
ActivePackages == {p \in Live(package) : package[p].active}

CreatePackage(p) ==
    /\ package[p].state = "new"
    /\ package' = [package EXCEPT ![p].state = "live"]
    /\ UNCHANGED <<addon, work>>

(* update, set_photo and remove_photo load the row and save all of it.     *)
UpdatePackageBegin(w, p, active) ==
    /\ package[p].state = "live"
    /\ Begin(w, [op |-> "package", id |-> p, row |-> [package[p] EXCEPT !.active = active]])
    /\ UNCHANGED <<package, addon>>

UpdatePackage(w) ==
    /\ Doing(w, "package")
    /\ package' = [package EXCEPT ![work[w].id] = work[w].row]
    /\ End(w) /\ UNCHANGED addon

DeletePackageBegin(w, p) ==
    /\ package[p].state = "live"
    /\ package[p].active => Cardinality(ActivePackages) > 1
    /\ Begin(w, [op |-> "package delete", id |-> p])
    /\ UNCHANGED <<package, addon>>

(* The links of the add-ons go with the package.                           *)
Unlinked(p) == [a \in AddOns |-> [addon[a] EXCEPT !.packages = @ \ {p}]]

DeletePackage(w) ==
    /\ Doing(w, "package delete")
    /\ LET p == work[w].id IN
       IF package[p].state = "live"
       THEN package' = [package EXCEPT ![p].state = "gone"] /\ addon' = Unlinked(p)
       ELSE UNCHANGED <<package, addon>>
    /\ End(w)

(* PackageAddOn: its packages are looked up first and linked last; a link  *)
(* to a package deleted meanwhile breaks the foreign key and fails it all. *)
AddOnBegin(w, a, active, linked, ps) ==
    /\ \/ addon[a].state = "live"
       \/ addon[a].state = "new" /\ Unclaimed("addon", a)
    /\ ps \subseteq Live(package)
    /\ Begin(w, [op |-> "addon", id |-> a, linked |-> linked,
                 row |-> [state |-> "live", active |-> active, packages |-> ps]])
    /\ UNCHANGED <<package, addon>>

SaveAddOn(w) ==
    /\ Doing(w, "addon")
    /\ LET a == work[w].id  row == work[w].row IN
       addon' = IF ~work[w].linked THEN [addon EXCEPT ![a] = [row EXCEPT !.packages = addon[a].packages]]
                ELSE IF row.packages \subseteq Live(package) THEN [addon EXCEPT ![a] = row] ELSE addon
    /\ End(w) /\ UNCHANGED package

DeleteAddOn(a) ==
    /\ addon[a].state = "live"
    /\ addon' = [addon EXCEPT ![a].state = "gone", ![a].packages = {}]
    /\ UNCHANGED <<package, work>>

PackagesNext ==
    \/ \E p \in Packages : CreatePackage(p)
    \/ \E w \in Workers : UpdatePackage(w) \/ DeletePackage(w) \/ SaveAddOn(w)
    \/ \E w \in Workers, p \in Packages : \/ DeletePackageBegin(w, p)
                                          \/ \E b \in BOOLEAN : UpdatePackageBegin(w, p, b)
    \/ \E w \in Workers, a \in AddOns, active, linked \in BOOLEAN, ps \in SUBSET Packages :
          AddOnBegin(w, a, active, linked, ps)
    \/ \E a \in AddOns : DeleteAddOn(a)
-----------------------------------------------------------------------------
(* Services offered (and, alike, location preferences).  set_specialities  *)
(* looks at the offering, removes what is no longer wanted and inserts.    *)
add(s) == offering' = offering \cup {s} /\ UNCHANGED speciality
remove(s) == offering' = offering \ {s} /\ speciality' = speciality \ {s}

AddService(s) == add(s) /\ UNCHANGED work

RemoveService(s) == s \in offering /\ remove(s) /\ UNCHANGED work

SetSpecialitiesBegin(w, wanted) ==
    /\ wanted \subseteq offering
    /\ Begin(w, [op |-> "speciality", wanted |-> wanted])
    /\ UNCHANGED <<offering, speciality>>

replace_for_artist(w) ==
    /\ Doing(w, "speciality")
    /\ speciality' = work[w].wanted
    /\ End(w) /\ UNCHANGED offering

ServicesNext ==
    \/ \E s \in Services : AddService(s) \/ RemoveService(s)
    \/ \E w \in Workers : \/ replace_for_artist(w)
                          \/ \E wanted \in SUBSET Services : SetSpecialitiesBegin(w, wanted)
-----------------------------------------------------------------------------
(* ArtistServiceArea, unique by lower(city) for an artist.                 *)
city_exists(i, city) == \E j \in Live(area) \ {i} : area[j].city = city

(* Mutant: the table has no unique constraint.                             *)
CityFreeUnchecked(i, city) == TRUE

CityFree(i, city) == ~city_exists(i, city)

AddAreaBegin(w, i, city, charge) ==
    /\ area[i].state = "new" /\ Unclaimed("area", i) /\ ~city_exists(i, city)
    /\ Begin(w, [op |-> "area", id |-> i, row |-> [state |-> "live", city |-> city, active |-> TRUE,
                    charge_type |-> IF charge = 0 THEN "free" ELSE "per_visit",
                    charge_amount |-> charge]])
    /\ UNCHANGED area

(* What the request sent of the pair is completed from the stored area.    *)
(* Mutant: what was not sent is left to the row that is loaded later.      *)
ChargePairAsSent(i, type, amount) == [charge_type |-> type, charge_amount |-> amount]

ChargePair(i, type, amount) ==
    LET charge_type == IF type = None THEN area[i].charge_type ELSE type IN
    [charge_type |-> charge_type,
     charge_amount |-> IF charge_type = "free" THEN 0
                       ELSE IF amount = None THEN area[i].charge_amount ELSE amount]

UpdateAreaBegin(w, i, city, type, amount) ==
    /\ area[i].state = "live" /\ ~city_exists(i, city)
    /\ LET pair == ChargePair(i, type, amount) IN
       /\ pair.charge_type # "free" => pair.charge_amount # 0
       /\ Begin(w, [op |-> "area load", id |-> i, part |-> [city |-> city,
                       charge_type |-> pair.charge_type, charge_amount |-> pair.charge_amount]])
    /\ UNCHANGED area

Put(part, row) == [row EXCEPT !.city = IF part.city = None THEN @ ELSE part.city,
                              !.charge_type = IF part.charge_type = None THEN @ ELSE part.charge_type,
                              !.charge_amount = IF part.charge_amount = None THEN @
                                                ELSE part.charge_amount]

LoadArea(w) ==
    /\ Doing(w, "area load")
    /\ LET i == work[w].id IN
       IF area[i].state = "live"
       THEN work' = [work EXCEPT ![w] = [op |-> "area", id |-> i, row |-> Put(work[w].part, area[i])]]
       ELSE End(w)
    /\ UNCHANGED area

SaveArea(w) ==             \* a repeated city raises IntegrityError
    /\ Doing(w, "area")
    /\ area' = IF CityFree(work[w].id, work[w].row.city)
               THEN [area EXCEPT ![work[w].id] = work[w].row] ELSE area
    /\ End(w)

RemoveArea(i) ==
    /\ area[i].state = "live"
    /\ area' = [area EXCEPT ![i].state = "gone"]
    /\ UNCHANGED work

AreasNext ==
    \/ \E w \in Workers : LoadArea(w) \/ SaveArea(w)
    \/ \E w \in Workers, i \in Areas :
          \/ \E city \in Names, charge \in 0..1 : AddAreaBegin(w, i, city, charge)
          \/ \E city \in Names \cup {None}, type \in {None, "free", "per_visit"}, amount \in {None, 0, 1} :
                UpdateAreaBegin(w, i, city, type, amount)
    \/ \E i \in Areas : RemoveArea(i)
-----------------------------------------------------------------------------
(* Portfolio.  The limits are counted before an item is inserted, and are  *)
(* not looked at when one is made active again.                            *)
CountItems(sample) == Cardinality({i \in Live(item) : item[i].active /\ item[i].sample = sample})

AddItemBegin(w, i, sample) ==
    /\ item[i].state = "new" /\ Unclaimed("item", i)
    /\ CountItems(sample) < IF sample THEN MaxSamples ELSE MaxPortfolio
    /\ Begin(w, [op |-> "item", id |-> i, row |-> [state |-> "live", active |-> TRUE,
                                                   sample |-> sample]])
    /\ UNCHANGED item

UpdateItemBegin(w, i, active) ==
    /\ item[i].state = "live"
    /\ Begin(w, [op |-> "item", id |-> i, row |-> [item[i] EXCEPT !.active = active]])
    /\ UNCHANGED item

SaveItem(w) ==
    /\ Doing(w, "item")
    /\ item' = [item EXCEPT ![work[w].id] = work[w].row]
    /\ End(w)

RemoveItem(i) ==
    /\ item[i].state = "live"
    /\ item' = [item EXCEPT ![i].state = "gone"]
    /\ UNCHANGED work

PortfolioNext ==
    \/ \E w \in Workers : SaveItem(w)
    \/ \E w \in Workers, i \in Items, b \in BOOLEAN : AddItemBegin(w, i, b) \/ UpdateItemBegin(w, i, b)
    \/ \E i \in Items : RemoveItem(i)
-----------------------------------------------------------------------------
(* The payout account: set_for_artist is update_or_create, under the lock  *)
(* of the row.  The administrator checks the account that is stored.       *)
set_for_artist(account) == payout' = [account |-> account, verification |-> "pending"]

VerifyPayout ==
    /\ payout.account # None /\ payout.verification = "pending"
    /\ payout' = [payout EXCEPT !.verification = "approved"]

SetPayoutAccount == \E account \in Accounts : set_for_artist(account)

PayoutNext == SetPayoutAccount \/ VerifyPayout
-----------------------------------------------------------------------------
(* The brand list: an administrator adds or renames a brand, an artist     *)
(* asks for one, an administrator decides; all check the name first.       *)
name_exists(b, name) == \E c \in Live(brand) \ {b} : brand[c].name = name

CreateBrandBegin(w, b, name) ==
    /\ brand[b].state = "new" /\ Unclaimed("brand", b) /\ ~name_exists(b, name)
    /\ Begin(w, [op |-> "brand", id |-> b, row |-> [state |-> "live", name |-> name]])
    /\ UNCHANGED <<brand, ask>>

UpdateBrandBegin(w, b, name) ==        \* from here to SaveBrand under the row lock
    /\ brand[b].state = "live" /\ ~name_exists(b, name)
    /\ Unclaimed("brand locked", b)        \* the lock is free
    /\ Begin(w, [op |-> "brand locked", id |-> b, row |-> [state |-> "live", name |-> name]])
    /\ UNCHANGED <<brand, ask>>

SaveBrand(w) ==                        \* unique_brand_name_ci
    /\ Doing(w, "brand") \/ Doing(w, "brand locked")
    /\ LET b == work[w].id  row == work[w].row IN
       brand' = IF name_exists(b, row.name) THEN brand ELSE [brand EXCEPT ![b] = row]
    /\ End(w) /\ UNCHANGED ask

PendingAsks == {q \in Live(ask) : ask[q].status = "pending"}

AskBrandBegin(w, q, name) ==
    /\ ask[q].state = "new" /\ Unclaimed("ask", q) /\ \A b \in Live(brand) : brand[b].name # name
    /\ \A p \in PendingAsks : ask[p].name # name
    /\ Cardinality(PendingAsks) < MaxPending
    /\ Begin(w, [op |-> "ask", id |-> q, row |-> [NewAsk EXCEPT !.state = "live", !.name = name]])
    /\ UNCHANGED <<brand, ask>>

SaveAsk(w) ==
    /\ Doing(w, "ask")
    /\ ask' = [ask EXCEPT ![work[w].id] = work[w].row]
    /\ End(w) /\ UNCHANGED brand

(* Mutant: the request is read before its row is locked.                   *)
AskUnlocked(q) == TRUE

AskFree(q) == \A v \in Workers : ~(Doing(v, "decide") /\ work[v].id = q)

DecideBegin(w, q) ==
    /\ ask[q].state = "live" /\ ask[q].status = "pending" /\ AskFree(q)
    /\ Begin(w, [op |-> "decide", id |-> q])
    /\ UNCHANGED <<brand, ask>>

(* Approval adds the brand unless it is there by now; if another handler   *)
(* adds it at the same time the constraint fails the decision.             *)
Decide(w) ==
    /\ Doing(w, "decide")
    /\ LET q == work[w].id IN
       \/ ask' = [ask EXCEPT ![q].status = "rejected"] /\ UNCHANGED brand
       \/ /\ ask' = [ask EXCEPT ![q].status = "approved"]
          /\ IF \E b \in Live(brand) : brand[b].name = ask[q].name
             THEN UNCHANGED brand
             ELSE \E b \in Brands : /\ brand[b].state = "new" /\ Unclaimed("brand", b)
                                    /\ brand' = [brand EXCEPT ![b] = [state |-> "live", name |-> ask[q].name]]
       \/ UNCHANGED <<brand, ask>>
    /\ End(w)

BrandsNext ==
    \/ \E w \in Workers : SaveBrand(w) \/ SaveAsk(w) \/ Decide(w)
    \/ \E w \in Workers, name \in Names :
          \/ \E b \in Brands : CreateBrandBegin(w, b, name) \/ UpdateBrandBegin(w, b, name)
          \/ \E q \in BrandRequests : AskBrandBegin(w, q, name)
    \/ \E w \in Workers, q \in BrandRequests : DecideBegin(w, q)
-----------------------------------------------------------------------------
CatalogueInit ==
    /\ package = [p \in Packages |-> NewPackage] /\ addon = [a \in AddOns |-> NewAddOn]
    /\ offering = {} /\ speciality = {}
    /\ area = [i \in Areas |-> NewArea] /\ item = [i \in Items |-> NewItem]
    /\ payout = [account |-> None, verification |-> "pending"]
    /\ brand = [b \in Brands |-> NewBrand] /\ ask = [q \in BrandRequests |-> NewAsk]
    /\ work = [w \in Workers |-> NoWork]
-----------------------------------------------------------------------------
CatalogueTypeOK ==
    /\ package \in [Packages -> Package] /\ addon \in [AddOns -> AddOn]
    /\ offering \subseteq Services /\ speciality \subseteq Services
    /\ area \in [Areas -> Area] /\ item \in [Items -> Item]
    /\ payout \in Payout
    /\ brand \in [Brands -> Brand] /\ ask \in [BrandRequests -> Ask]
    /\ work \in [Workers -> Work]

(* ServiceAreaView: whatever half of a charge is sent and whoever else     *)
(* edits the area, it is free with no amount or charged with one, and an   *)
(* artist serves a city once.                                              *)
AreasConsistent ==
    \A i \in Live(area) :
        /\ (area[i].charge_type = "free") = (area[i].charge_amount = 0)
        /\ ~city_exists(i, area[i].city)
=============================================================================
