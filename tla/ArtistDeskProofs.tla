-------------------------- MODULE ArtistDeskProofs --------------------------
(***************************************************************************)
(* That the artist's side of the platform keeps its word although its      *)
(* handlers decide on what they read earlier and save whole rows: areas    *)
(* are consistent, approvals follow verification, no submission is lost,   *)
(* figures have bookings behind them, and a decision is taken once; for    *)
(* every set of rows and handlers.                                         *)
(***************************************************************************)
EXTENDS ArtistDesk, FiniteSetTheorems, TLAPS

-----------------------------------------------------------------------------
(* Catalogue.  A charge of an area, stored, about to be saved or about to  *)
(* be put into the row that is loaded.                                     *)
FairCharge(row) == (row.charge_type = "free") = (row.charge_amount = 0)

FairAreas ==
    /\ \A i \in Areas : area[i].state = "live" => FairCharge(area[i])
    /\ \A i, j \in Areas : area[i].state = "live" /\ area[j].state = "live" /\ area[i].city = area[j].city
                           => i = j

FairWork == \A w \in Workers :
    /\ Doing(w, "area") => FairCharge(work[w].row)
    /\ Doing(w, "area load") => /\ work[w].part.charge_type # None
                                /\ work[w].part.charge_amount # None
                                /\ FairCharge(work[w].part)

(* A brand request in flight is not yet stored; one that is being decided  *)
(* is pending, and nobody else decides it.                                 *)
AsksInv ==
    /\ \A q \in BrandRequests : ask[q].state = "new" => ask[q].status = "pending"
    /\ \A w \in Workers :
          /\ Doing(w, "ask") =>
                /\ ask[work[w].id].state = "new" /\ work[w].row.status = "pending"
                /\ \A v \in Workers : Doing(v, "ask") /\ work[v].id = work[w].id => v = w
          /\ Doing(w, "decide") =>
                /\ ask[work[w].id].state = "live" /\ ask[work[w].id].status = "pending"
                /\ \A v \in Workers : Doing(v, "decide") /\ work[v].id = work[w].id => v = w

CatalogueInv == CatalogueTypeOK /\ FairAreas /\ FairWork /\ AsksInv
-----------------------------------------------------------------------------
(* Review.  What a profile shows that is stored or that a form has loaded  *)
(* and will save.                                                          *)
Posted == {b \in Bookings : review[b] # "none"}

Honest(row) ==
    /\ row.status \in {"approved", "suspended"} => verified /\ "approved" \in decisions
    /\ row.submitted => ~row.reason /\ row.status # "rejected"
    /\ row.total_reviews <= Cardinality(Posted)

ProfilesInv ==
    /\ Honest(profile)
    /\ \A r \in Requests : /\ job[r].op = "save" => Honest(job[r].row)
                           /\ job[r].op = "approve" => verified

(* A document being verified is stored and pending, one being uploaded is  *)
(* not stored yet, and either is in one request's hands.                   *)
DocumentsInv ==
    /\ \A d \in Documents : document[d].status = "approved" /\ document[d].type = "id_proof" => verified
    /\ \A r \in Requests :
          /\ job[r].op = "verify" =>
                /\ document[job[r].id].stored /\ document[job[r].id].status = "pending"
                /\ \A q \in Requests : job[q].op = "verify" /\ job[q].id = job[r].id => q = r
          /\ job[r].op = "upload" =>
                /\ ~document[job[r].id].stored /\ document[job[r].id].status = "pending"
                /\ \A q \in Requests : job[q].op = "upload" /\ job[q].id = job[r].id => q = r

ReviewInv == ReviewTypeOK /\ ProfilesInv /\ DocumentsInv
-----------------------------------------------------------------------------
(* Clients.  Whoever has a visit that makes a client is known for good,    *)
(* and whatever was read of the clients is about those.                    *)
VisitsKnown ==
    /\ \A v \in Visits : appointment[v].status \in CLIENT_STATUSES => appointment[v].client \in known
    /\ \A v \in rated : appointment[v].status # "none" /\ appointment[v].client \in known

(* Visits completed by now were completed when they were counted, or since. *)
QueryInv(q) ==
    /\ q.op \in {"note", "clear"} => q.client \in known
    /\ q.op \in {"rows", "list"} => q.rows \subseteq known
    /\ q.op = "list" => q.notes \subseteq known
    /\ q.op = "counted" => Cardinality(With({"completed"}) \ q.since) <= q.completed
    /\ q.op = "summary" => 2 * q.repeat <= q.completed + Cardinality(q.since)

ClientsInv ==
    /\ ClientsTypeOK /\ VisitsKnown /\ note \subseteq known
    /\ \A d \in Devices : QueryInv(query[d])

DeskInv == CatalogueInv /\ ReviewInv /\ ClientsInv
-----------------------------------------------------------------------------
(* What the handlers of the catalogue carry, by what they do.              *)
LEMMA TaskTypes ==
    /\ NoWork \in Work
    /\ \A p \in Packages, row \in Package : [op |-> "package", id |-> p, row |-> row] \in Work
    /\ \A p \in Packages : [op |-> "package delete", id |-> p] \in Work
    /\ \A a \in AddOns, row \in AddOn, linked \in BOOLEAN :
          [op |-> "addon", id |-> a, linked |-> linked, row |-> row] \in Work
    /\ \A i \in Areas, row \in Area : [op |-> "area", id |-> i, row |-> row] \in Work
    /\ \A i \in Items, row \in Item : [op |-> "item", id |-> i, row |-> row] \in Work
    /\ \A wanted \in SUBSET Services : [op |-> "speciality", wanted |-> wanted] \in Work
    /\ \A b \in Brands, row \in Brand, op \in {"brand", "brand locked"} :
          [op |-> op, id |-> b, row |-> row] \in Work
    /\ \A q \in BrandRequests, row \in Ask : [op |-> "ask", id |-> q, row |-> row] \in Work
    /\ \A q \in BrandRequests : [op |-> "decide", id |-> q] \in Work
BY DEF Work, NoWork

LEMMA AreaLoadType ==
    ASSUME NEW i \in Areas, NEW city \in Names \cup {None}, NEW type \in {None, "free", "per_visit"},
           NEW amount \in {None} \cup 0..1
    PROVE  [op |-> "area load", id |-> i,
            part |-> [city |-> city, charge_type |-> type, charge_amount |-> amount]] \in Work
BY DEF Work

LEMMA WorkTypes ==
    ASSUME NEW t \in Work
    PROVE  /\ t.op = "package" => t.id \in Packages /\ t.row \in Package
           /\ t.op = "package delete" => t.id \in Packages
           /\ t.op = "addon" => t.id \in AddOns /\ t.row \in AddOn /\ t.linked \in BOOLEAN
           /\ t.op = "area load" => /\ t.id \in Areas /\ t.part.city \in Names \cup {None}
                                    /\ t.part.charge_type \in {None, "free", "per_visit"}
                                    /\ t.part.charge_amount \in {None} \cup 0..1
           /\ t.op = "area" => t.id \in Areas /\ t.row \in Area
           /\ t.op = "item" => t.id \in Items /\ t.row \in Item
           /\ t.op = "speciality" => t.wanted \subseteq Services
           /\ t.op \in {"brand", "brand locked"} => t.id \in Brands /\ t.row \in Brand
           /\ t.op = "ask" => t.id \in BrandRequests /\ t.row \in Ask
           /\ t.op = "decide" => t.id \in BrandRequests
<1> DEFINE package_row == [op : {"package"}, id : Packages, row : Package]
           package_gone == [op : {"package delete"}, id : Packages]
           addon_row == [op : {"addon"}, id : AddOns, row : AddOn, linked : BOOLEAN]
           area_part == [op : {"area load"}, id : Areas, part : [city : Names \cup {None},
              charge_type : {None, "free", "per_visit"}, charge_amount : {None} \cup 0..1]]
           area_row == [op : {"area"}, id : Areas, row : Area]
           item_row == [op : {"item"}, id : Items, row : Item]
           services == [op : {"speciality"}, wanted : SUBSET Services]
           brand_row == [op : {"brand", "brand locked"}, id : Brands, row : Brand]
           ask_row == [op : {"ask"}, id : BrandRequests, row : Ask]
           decision == [op : {"decide"}, id : BrandRequests]
<1>1. \/ t.op = "none" \/ t \in package_row \/ t \in package_gone \/ t \in addon_row
      \/ t \in area_part \/ t \in area_row \/ t \in item_row \/ t \in services
      \/ t \in brand_row \/ t \in ask_row \/ t \in decision
  <2> HIDE DEF package_row, package_gone, addon_row, area_part, area_row, item_row, services,
               brand_row, ask_row, decision
  <2>1. t \in {NoWork} \cup package_row \cup package_gone \cup addon_row \cup area_part
           \cup area_row \cup item_row \cup services \cup brand_row \cup ask_row \cup decision
    BY DEF Work, package_row, package_gone, addon_row, area_part, area_row, item_row, services,
           brand_row, ask_row, decision
  <2>2. NoWork.op = "none"
    BY DEF NoWork
  <2> QED
    BY <2>1, <2>2
<1>2. /\ t \in package_row => t.op = "package" /\ t.id \in Packages /\ t.row \in Package
      /\ t \in package_gone => t.op = "package delete" /\ t.id \in Packages
      /\ t \in addon_row => /\ t.op = "addon" /\ t.id \in AddOns /\ t.row \in AddOn
                             /\ t.linked \in BOOLEAN
  OBVIOUS
<1>3. /\ t \in area_part => /\ t.op = "area load" /\ t.id \in Areas
                             /\ t.part.city \in Names \cup {None}
                             /\ t.part.charge_type \in {None, "free", "per_visit"}
                             /\ t.part.charge_amount \in {None} \cup 0..1
      /\ t \in area_row => t.op = "area" /\ t.id \in Areas /\ t.row \in Area
      /\ t \in item_row => t.op = "item" /\ t.id \in Items /\ t.row \in Item
      /\ t \in services => t.op = "speciality" /\ t.wanted \subseteq Services
  OBVIOUS
<1>4. /\ t \in brand_row => /\ t.op \in {"brand", "brand locked"} /\ t.id \in Brands
                             /\ t.row \in Brand
      /\ t \in ask_row => t.op = "ask" /\ t.id \in BrandRequests /\ t.row \in Ask
      /\ t \in decision => t.op = "decide" /\ t.id \in BrandRequests
  OBVIOUS
<1> HIDE DEF package_row, package_gone, addon_row, area_part, area_row, item_row, services,
             brand_row, ask_row, decision
<1> QED
  BY <1>1, <1>2, <1>3, <1>4

LEMMA DeskStarts == DeskInit => CatalogueInv
<1>1. NewPackage \in Package /\ NewAddOn \in AddOn /\ NewArea \in Area /\ NewItem \in Item
      /\ NewBrand \in Brand /\ NewAsk \in Ask
  BY DEF NewPackage, Package, NewAddOn, AddOn, NewArea, Area, NewItem, Item, NewBrand, Brand, NewAsk, Ask, Lives
<1>2. NoWork.op = "none"
  BY DEF NoWork
<1>3. ASSUME CatalogueInit
      PROVE  CatalogueTypeOK /\ FairAreas /\ FairWork /\ AsksInv
  <2>1. CatalogueTypeOK
    BY <1>1, <1>3, TaskTypes DEF CatalogueInit, CatalogueTypeOK, Payout
  <2>2. \A i \in Areas : area[i].state # "live"
    BY <1>3 DEF CatalogueInit, NewArea
  <2>3. \A w \in Workers : work[w].op = "none"
    BY <1>2, <1>3 DEF CatalogueInit
  <2> QED
    BY <2>1, <2>2, <2>3, <1>3 DEF FairAreas, FairWork, AsksInv, Doing, CatalogueInit, NewAsk
<1> QED
  BY <1>3 DEF DeskInit, CatalogueInv
-----------------------------------------------------------------------------
(* Brand requests are as they were when no handler takes one up.           *)
LEMMA AsksStay ==
    ASSUME AsksInv, NEW w \in Workers, NEW t, t.op \notin {"ask", "decide"}, UNCHANGED ask,
           \A v \in Workers : work'[v] = IF v = w THEN t ELSE work[v]
    PROVE  AsksInv'
<1>1. ASSUME NEW v \in Workers, NEW op \in {"ask", "decide"}, Doing(v, op)'
      PROVE  Doing(v, op) /\ work'[v] = work[v]
  BY <1>1 DEF Doing
<1>2. ASSUME NEW v \in Workers, Doing(v, "ask")'
      PROVE  /\ ask'[work'[v].id].state = "new" /\ work'[v].row.status = "pending"
             /\ \A u \in Workers : Doing(u, "ask")' /\ work'[u].id = work'[v].id => u = v
  <2>1. \A u \in Workers : Doing(u, "ask")' => Doing(u, "ask") /\ work'[u] = work[u]
    BY <1>1
  <2> QED
    BY <1>2, <2>1 DEF AsksInv
<1>3. ASSUME NEW v \in Workers, Doing(v, "decide")'
      PROVE  /\ ask'[work'[v].id].state = "live" /\ ask'[work'[v].id].status = "pending"
             /\ \A u \in Workers : Doing(u, "decide")' /\ work'[u].id = work'[v].id => u = v
  <2>1. \A u \in Workers : Doing(u, "decide")' => Doing(u, "decide") /\ work'[u] = work[u]
    BY <1>1
  <2> QED
    BY <1>3, <2>1 DEF AsksInv
<1> QED
  BY <1>2, <1>3 DEF AsksInv

(* Work on other tables does not disturb the areas and the brand requests. *)
LEMMA OtherWork ==
    ASSUME CatalogueInv, NEW w \in Workers, NEW t \in Work, work' = [work EXCEPT ![w] = t],
           t.op \notin {"area", "area load", "ask", "decide"}, UNCHANGED <<area, ask>>
    PROVE  FairAreas' /\ FairWork' /\ AsksInv' /\ work' \in [Workers -> Work]
<1>1. work \in [Workers -> Work] /\ FairAreas /\ FairWork /\ AsksInv
  BY DEF CatalogueInv, CatalogueTypeOK
<1>2. work' \in [Workers -> Work] /\ \A v \in Workers : work'[v] = IF v = w THEN t ELSE work[v]
  BY <1>1
<1>3. FairAreas'
  BY <1>1 DEF FairAreas, FairCharge
<1>4. FairWork'
  BY <1>1, <1>2 DEF FairWork, FairCharge, Doing
<1>5. AsksInv'
  BY <1>1, <1>2, AsksStay
<1> QED
  BY <1>2, <1>3, <1>4, <1>5

LEMMA WorkRests ==
    ASSUME CatalogueInv, UNCHANGED <<area, ask, work>>
    PROVE  FairAreas' /\ FairWork' /\ AsksInv' /\ work' \in [Workers -> Work]
BY DEF CatalogueInv, CatalogueTypeOK, FairAreas, FairWork, AsksInv, FairCharge, Doing

LEMMA PackagesStep ==
    ASSUME CatalogueInv, PackagesNext, UNCHANGED <<offering, speciality, area, item, payout, brand, ask>>
    PROVE  CatalogueInv'
<1>t. CatalogueTypeOK
  BY DEF CatalogueInv
<1>n. NoWork \in Work /\ NoWork.op = "none"
  BY TaskTypes DEF NoWork
<1> SUFFICES /\ package' \in [Packages -> Package] /\ addon' \in [AddOns -> AddOn]
             /\ FairAreas' /\ FairWork' /\ AsksInv' /\ work' \in [Workers -> Work]
  BY <1>t DEF CatalogueInv, CatalogueTypeOK
<1>1. ASSUME NEW p \in Packages, CreatePackage(p)
      PROVE  /\ package' \in [Packages -> Package] /\ addon' \in [AddOns -> AddOn]
             /\ UNCHANGED <<area, ask, work>>
  BY <1>1, <1>t DEF CreatePackage, CatalogueTypeOK, Package, Lives
<1>2. ASSUME NEW w \in Workers, UpdatePackage(w) \/ DeletePackage(w) \/ SaveAddOn(w)
      PROVE  /\ package' \in [Packages -> Package] /\ addon' \in [AddOns -> AddOn]
             /\ work' = [work EXCEPT ![w] = NoWork]
  <2> DEFINE t == work[w]
  <2>1. /\ t.op = "package" => t.id \in Packages /\ t.row \in Package
        /\ t.op = "package delete" => t.id \in Packages
        /\ t.op = "addon" => t.id \in AddOns /\ t.row \in AddOn
    BY <1>t, WorkTypes DEF CatalogueTypeOK
  <2>2. CASE UpdatePackage(w)
    BY <2>1, <2>2, <1>t DEF UpdatePackage, End, Doing, CatalogueTypeOK
  <2>3. CASE DeletePackage(w)
    <3>1. \A p \in Packages : [package EXCEPT ![p].state = "gone"] \in [Packages -> Package]
      BY <1>t DEF CatalogueTypeOK, Package, Lives
    <3>2. \A p \in Packages : Unlinked(p) \in [AddOns -> AddOn]
      BY <1>t DEF CatalogueTypeOK, AddOn, Unlinked
    <3> QED
      BY <2>1, <2>3, <3>1, <3>2, <1>t DEF DeletePackage, End, Doing, CatalogueTypeOK
  <2>4. CASE SaveAddOn(w)
    <3>1. ASSUME t.op = "addon"
          PROVE  /\ [t.row EXCEPT !.packages = addon[t.id].packages] \in AddOn
    <4>1. addon[t.id] \in AddOn /\ t.row \in AddOn
      BY <2>1, <3>1, <1>t DEF CatalogueTypeOK
    <4> QED
      BY <4>1 DEF AddOn
    <3> QED
      BY <2>1, <2>4, <3>1, <1>t DEF SaveAddOn, End, Doing, CatalogueTypeOK
  <2> QED
    BY <1>2, <2>2, <2>3, <2>4
<1>3. ASSUME NEW w \in Workers, NEW p \in Packages, NEW active \in BOOLEAN,
             DeletePackageBegin(w, p) \/ UpdatePackageBegin(w, p, active)
      PROVE  /\ UNCHANGED <<package, addon>>
             /\ \E t \in Work : /\ work' = [work EXCEPT ![w] = t]
                                /\ t.op \notin {"area", "area load", "ask", "decide"}
  <2>1. [package[p] EXCEPT !.active = active] \in Package
    BY <1>t DEF CatalogueTypeOK, Package
  <2>2. [op |-> "package delete", id |-> p] \in Work
        /\ [op |-> "package", id |-> p, row |-> [package[p] EXCEPT !.active = active]] \in Work
    BY <2>1, TaskTypes
  <2> QED
    BY <1>3, <2>2 DEF DeletePackageBegin, UpdatePackageBegin, Begin
<1>4. ASSUME NEW w \in Workers, NEW a \in AddOns, NEW active \in BOOLEAN, NEW linked \in BOOLEAN,
             NEW ps \in SUBSET Packages, AddOnBegin(w, a, active, linked, ps)
      PROVE  /\ UNCHANGED <<package, addon>>
             /\ \E t \in Work : /\ work' = [work EXCEPT ![w] = t]
                                /\ t.op \notin {"area", "area load", "ask", "decide"}
  <2>1. [state |-> "live", active |-> active, packages |-> ps] \in AddOn
    BY DEF AddOn, Lives
  <2>2. [op |-> "addon", id |-> a, linked |-> linked,
         row |-> [state |-> "live", active |-> active, packages |-> ps]] \in Work
    BY <2>1, TaskTypes
  <2> QED
    BY <1>4, <2>2 DEF AddOnBegin, Begin
<1>5. ASSUME NEW a \in AddOns, DeleteAddOn(a)
      PROVE  /\ package' \in [Packages -> Package] /\ addon' \in [AddOns -> AddOn]
             /\ UNCHANGED <<area, ask, work>>
  BY <1>5, <1>t DEF DeleteAddOn, CatalogueTypeOK, AddOn, Lives
<1>6. package' \in [Packages -> Package] /\ addon' \in [AddOns -> AddOn]
  BY <1>1, <1>2, <1>3, <1>4, <1>5, <1>t DEF PackagesNext, CatalogueTypeOK
<1>7. UNCHANGED work \/ \E w \in Workers, t \in Work :
         work' = [work EXCEPT ![w] = t] /\ t.op \notin {"area", "area load", "ask", "decide"}
  <2>1. \A w \in Workers : UpdatePackage(w) \/ DeletePackage(w) \/ SaveAddOn(w) =>
           \E t \in Work : /\ work' = [work EXCEPT ![w] = t]
                           /\ t.op \notin {"area", "area load", "ask", "decide"}
    BY <1>2, <1>n
  <2>2. (\E p \in Packages : CreatePackage(p)) \/ (\E a \in AddOns : DeleteAddOn(a)) => work' = work
    BY <1>1, <1>5
  <2>3. \A w \in Workers, p \in Packages :
           DeletePackageBegin(w, p) \/ (\E active \in BOOLEAN : UpdatePackageBegin(w, p, active)) =>
           \E t \in Work : /\ work' = [work EXCEPT ![w] = t]
                           /\ t.op \notin {"area", "area load", "ask", "decide"}
    <3>1. TRUE \in BOOLEAN
      OBVIOUS
    <3> QED
      BY <3>1, <1>3
  <2>4. (\E w \in Workers, a \in AddOns, active, linked \in BOOLEAN, ps \in SUBSET Packages :
           AddOnBegin(w, a, active, linked, ps)) =>
        \E w \in Workers, t \in Work : /\ work' = [work EXCEPT ![w] = t]
                                        /\ t.op \notin {"area", "area load", "ask", "decide"}
    <3> DEFINE Takes(w) == \E t \in Work : /\ work' = [work EXCEPT ![w] = t]
                                           /\ t.op \notin {"area", "area load", "ask", "decide"}
    <3>1. ASSUME NEW w \in Workers, NEW a \in AddOns, NEW active \in BOOLEAN,
                 NEW linked \in BOOLEAN, NEW ps \in SUBSET Packages,
                 AddOnBegin(w, a, active, linked, ps)
          PROVE  Takes(w)
      BY <1>4, <3>1
    <3> HIDE DEF Takes
    <3>2. (\E w \in Workers, a \in AddOns, active, linked \in BOOLEAN, ps \in SUBSET Packages :
             AddOnBegin(w, a, active, linked, ps)) => \E w \in Workers : Takes(w)
      BY <3>1
    <3> USE DEF Takes
    <3> QED
      BY <3>2
  <2> QED
    BY <2>1, <2>2, <2>3, <2>4 DEF PackagesNext
<1> QED
  BY <1>6, <1>7, OtherWork, WorkRests

LEMMA ServicesStep ==
    ASSUME CatalogueInv, ServicesNext, UNCHANGED <<package, addon, area, item, payout, brand, ask>>
    PROVE  CatalogueInv'
<1>t. CatalogueTypeOK
  BY DEF CatalogueInv
<1>n. NoWork \in Work /\ NoWork.op = "none"
  BY TaskTypes DEF NoWork
<1>1. ASSUME NEW s \in Services, AddService(s) \/ RemoveService(s)
      PROVE  offering' \subseteq Services /\ speciality' \subseteq Services /\ work' = work
  BY <1>1, <1>t DEF AddService, RemoveService, add, remove, CatalogueTypeOK
<1>2. ASSUME NEW w \in Workers, replace_for_artist(w)
      PROVE  /\ offering' \subseteq Services /\ speciality' \subseteq Services
             /\ work' = [work EXCEPT ![w] = NoWork]
  BY <1>2, <1>t, WorkTypes DEF replace_for_artist, Doing, End, CatalogueTypeOK
<1>3. ASSUME NEW w \in Workers, NEW wanted \in SUBSET Services, SetSpecialitiesBegin(w, wanted)
      PROVE  /\ offering' \subseteq Services /\ speciality' \subseteq Services
             /\ \E t \in Work : /\ work' = [work EXCEPT ![w] = t]
                                /\ t.op \notin {"area", "area load", "ask", "decide"}
  BY <1>3, <1>t, TaskTypes DEF SetSpecialitiesBegin, Begin, CatalogueTypeOK
<1>4. offering' \subseteq Services /\ speciality' \subseteq Services
  BY <1>1, <1>2, <1>3 DEF ServicesNext
<1>5. UNCHANGED work \/ \E w \in Workers, t \in Work :
         work' = [work EXCEPT ![w] = t] /\ t.op \notin {"area", "area load", "ask", "decide"}
  <2>1. (\E s \in Services : AddService(s) \/ RemoveService(s)) => work' = work
    BY <1>1
  <2>2. \A w \in Workers : replace_for_artist(w) =>
           \E t \in Work : /\ work' = [work EXCEPT ![w] = t]
                           /\ t.op \notin {"area", "area load", "ask", "decide"}
    BY <1>2, <1>n
  <2> QED
    BY <2>1, <2>2, <1>3 DEF ServicesNext
<1>6. FairAreas' /\ FairWork' /\ AsksInv' /\ work' \in [Workers -> Work]
  BY <1>5, OtherWork, WorkRests
<1> QED
  BY <1>t, <1>4, <1>6 DEF CatalogueInv, CatalogueTypeOK

LEMMA PortfolioStep ==
    ASSUME CatalogueInv, PortfolioNext,
           UNCHANGED <<package, addon, offering, speciality, area, payout, brand, ask>>
    PROVE  CatalogueInv'
<1>t. CatalogueTypeOK
  BY DEF CatalogueInv
<1>n. NoWork \in Work /\ NoWork.op = "none"
  BY TaskTypes DEF NoWork
<1>1. ASSUME NEW w \in Workers, SaveItem(w)
      PROVE  item' \in [Items -> Item] /\ work' = [work EXCEPT ![w] = NoWork]
  BY <1>1, <1>t, WorkTypes DEF SaveItem, Doing, End, CatalogueTypeOK
<1>2. ASSUME NEW w \in Workers, NEW i \in Items, NEW b \in BOOLEAN,
             AddItemBegin(w, i, b) \/ UpdateItemBegin(w, i, b)
      PROVE  /\ item' \in [Items -> Item]
             /\ \E t \in Work : /\ work' = [work EXCEPT ![w] = t]
                                /\ t.op \notin {"area", "area load", "ask", "decide"}
  <2>1. [state |-> "live", active |-> TRUE, sample |-> b] \in Item
    BY DEF Item, Lives
  <2>2. [item[i] EXCEPT !.active = b] \in Item
    BY <1>t DEF CatalogueTypeOK, Item
  <2>3. \A row \in Item : [op |-> "item", id |-> i, row |-> row] \in Work
    BY TaskTypes
  <2> QED
    BY <1>2, <1>t, <2>1, <2>2, <2>3 DEF AddItemBegin, UpdateItemBegin, Begin, CatalogueTypeOK
<1>3. ASSUME NEW i \in Items, RemoveItem(i)
      PROVE  item' \in [Items -> Item] /\ work' = work
  BY <1>3, <1>t DEF RemoveItem, CatalogueTypeOK, Item, Lives
<1>4. item' \in [Items -> Item]
  BY <1>1, <1>2, <1>3 DEF PortfolioNext
<1>5. UNCHANGED work \/ \E w \in Workers, t \in Work :
         work' = [work EXCEPT ![w] = t] /\ t.op \notin {"area", "area load", "ask", "decide"}
  <2>1. \A w \in Workers : SaveItem(w) =>
           \E t \in Work : /\ work' = [work EXCEPT ![w] = t]
                           /\ t.op \notin {"area", "area load", "ask", "decide"}
    BY <1>1, <1>n
  <2>2. (\E w \in Workers, i \in Items, b \in BOOLEAN : AddItemBegin(w, i, b) \/ UpdateItemBegin(w, i, b))
        => \E w \in Workers, t \in Work : /\ work' = [work EXCEPT ![w] = t]
                                           /\ t.op \notin {"area", "area load", "ask", "decide"}
    BY <1>2
  <2>3. (\E i \in Items : RemoveItem(i)) => work' = work
    BY <1>3
  <2> QED
    BY <2>1, <2>2, <2>3 DEF PortfolioNext
<1>6. FairAreas' /\ FairWork' /\ AsksInv' /\ work' \in [Workers -> Work]
  BY <1>5, OtherWork, WorkRests
<1> QED
  BY <1>t, <1>4, <1>6 DEF CatalogueInv, CatalogueTypeOK

LEMMA PayoutStep ==
    ASSUME CatalogueInv, PayoutNext,
           UNCHANGED <<package, addon, offering, speciality, area, item, brand, ask, work>>
    PROVE  CatalogueInv'
<1>t. CatalogueTypeOK
  BY DEF CatalogueInv
<1>1. payout' \in Payout
  BY <1>t DEF PayoutNext, SetPayoutAccount, set_for_artist, VerifyPayout, CatalogueTypeOK, Payout
<1>2. FairAreas' /\ FairWork' /\ AsksInv' /\ work' \in [Workers -> Work]
  BY WorkRests
<1> QED
  BY <1>t, <1>1, <1>2 DEF CatalogueInv, CatalogueTypeOK
-----------------------------------------------------------------------------
(* Areas: the row to be saved carries a pair that was made consistent, and *)
(* the unique index decides when it is written.                            *)
LEMMA ChargeIsFair ==
    ASSUME CatalogueInv, NEW i \in Areas, area[i].state = "live",
           NEW type \in {None, "free", "per_visit"}, NEW amount \in {None, 0, 1},
           ChargePair(i, type, amount).charge_type # "free" => ChargePair(i, type, amount).charge_amount # 0
    PROVE  /\ ChargePair(i, type, amount).charge_type \in {"free", "per_visit"}
           /\ ChargePair(i, type, amount).charge_amount \in 0..1
           /\ FairCharge(ChargePair(i, type, amount))
<1>1. area[i].charge_type \in {"free", "per_visit"} /\ area[i].charge_amount \in 0..1
  BY DEF CatalogueInv, CatalogueTypeOK, Area
<1>2. CASE type = None
  BY <1>1, <1>2 DEF ChargePair, FairCharge
<1>3. CASE type # None
  BY <1>1, <1>3 DEF ChargePair, FairCharge
<1> QED
  BY <1>2, <1>3

LEMMA PutIsFair ==
    ASSUME NEW row \in Area, NEW part, part.city \in Names \cup {None},
           part.charge_type \in {"free", "per_visit"}, part.charge_amount \in 0..1, FairCharge(part)
    PROVE  Put(part, row) \in Area /\ FairCharge(Put(part, row))
<1>1. part.charge_type # None /\ part.charge_amount # None
  BY CatalogueAssumption
<1> QED
  BY <1>1 DEF Put, Area, FairCharge

(* A handler of an area starts, loads its row, or saves it.                *)
LEMMA AreaWork ==
    ASSUME CatalogueInv, NEW w \in Workers, NEW t \in Work, work' = [work EXCEPT ![w] = t],
           t.op \notin {"ask", "decide"}, UNCHANGED ask,
           t.op = "area" => FairCharge(t.row),
           t.op = "area load" => /\ t.part.charge_type # None /\ t.part.charge_amount # None
                                 /\ FairCharge(t.part)
    PROVE  FairWork' /\ AsksInv' /\ work' \in [Workers -> Work]
<1>1. work \in [Workers -> Work] /\ FairWork /\ AsksInv
  BY DEF CatalogueInv, CatalogueTypeOK
<1>2. work' \in [Workers -> Work] /\ \A v \in Workers : work'[v] = IF v = w THEN t ELSE work[v]
  BY <1>1
<1>3. FairWork'
  BY <1>1, <1>2 DEF FairWork, FairCharge, Doing
<1>4. AsksInv'
  BY <1>1, <1>2, AsksStay
<1> QED
  BY <1>2, <1>3, <1>4

LEMMA AreasStep ==
    ASSUME CatalogueInv, AreasNext,
           UNCHANGED <<package, addon, offering, speciality, item, payout, brand, ask>>
    PROVE  CatalogueInv'
<1>t. CatalogueTypeOK /\ FairAreas /\ FairWork
  BY DEF CatalogueInv
<1>n. NoWork \in Work /\ NoWork.op = "none"
  BY TaskTypes DEF NoWork
<1> SUFFICES /\ area' \in [Areas -> Area] /\ work' \in [Workers -> Work]
             /\ FairAreas' /\ FairWork' /\ AsksInv'
  BY <1>t DEF CatalogueInv, CatalogueTypeOK
<1>u. ASSUME area' = area
      PROVE  area' \in [Areas -> Area] /\ FairAreas'
  BY <1>t, <1>u DEF CatalogueTypeOK, FairAreas, FairCharge
<1>1. ASSUME NEW w \in Workers, LoadArea(w)
      PROVE  area' = area /\ FairWork' /\ AsksInv' /\ work' \in [Workers -> Work]
  <2>1. CASE End(w)
    BY <1>1, <1>n, <2>1, AreaWork DEF LoadArea, End
  <2>2. CASE ~End(w)
    <3> DEFINE i == work[w].id
               row == Put(work[w].part, area[i])
               t == [op |-> "area", id |-> i, row |-> row]
    <3>1. /\ i \in Areas /\ work[w].part.city \in Names \cup {None}
          /\ work[w].part.charge_type \in {"free", "per_visit"}
          /\ work[w].part.charge_amount \in 0..1 /\ FairCharge(work[w].part)
      BY <1>1, <1>t, WorkTypes DEF LoadArea, Doing, FairWork, CatalogueTypeOK
    <3>2. row \in Area /\ FairCharge(row)
      BY <3>1, <1>t, PutIsFair DEF CatalogueTypeOK
    <3>3. work' = [work EXCEPT ![w] = t] /\ area' = area
      BY <1>1, <2>2 DEF LoadArea
    <3>4. t \in Work /\ t.op = "area" /\ t.row = row
      BY <3>1, <3>2, TaskTypes
    <3> HIDE DEF t
    <3> QED
      BY <3>2, <3>3, <3>4, AreaWork
  <2> QED
    BY <2>1, <2>2
<1>2. ASSUME NEW w \in Workers, SaveArea(w)
      PROVE  /\ area' \in [Areas -> Area] /\ FairAreas'
             /\ FairWork' /\ AsksInv' /\ work' \in [Workers -> Work]
  <2>1. FairWork' /\ AsksInv' /\ work' \in [Workers -> Work]
    BY <1>2, <1>n, AreaWork DEF SaveArea, End
  <2> DEFINE i == work[w].id
             row == work[w].row
  <2>2. i \in Areas /\ row \in Area /\ FairCharge(row)
    BY <1>2, <1>t, WorkTypes DEF SaveArea, Doing, FairWork, CatalogueTypeOK
  <2>3. CASE ~CityFree(i, row.city)
    BY <1>2, <1>u, <2>1, <2>3 DEF SaveArea
  <2>4. CASE CityFree(i, row.city)
    <3>1. area' = [area EXCEPT ![i] = row]
      BY <1>2, <2>4 DEF SaveArea
    <3>2. area' \in [Areas -> Area] /\ \A j \in Areas : area'[j] = IF j = i THEN row ELSE area[j]
      BY <2>2, <3>1, <1>t DEF CatalogueTypeOK
    <3>3. \A j \in Areas : j # i /\ area[j].state = "live" => area[j].city # row.city
      BY <2>4, <1>t DEF CityFree, city_exists, Live, CatalogueTypeOK
    <3>4. \A j \in Areas : area'[j].state = "live" => FairCharge(area'[j])
      BY <2>2, <3>2, <1>t DEF FairAreas
    <3>5. \A j, k \in Areas : area'[j].state = "live" /\ area'[k].state = "live"
                              /\ area'[j].city = area'[k].city => j = k
      BY <2>2, <3>2, <3>3, <1>t DEF FairAreas
    <3>6. FairAreas'
      BY <3>4, <3>5 DEF FairAreas, FairCharge
    <3> QED
      BY <2>1, <3>2, <3>6
  <2> QED
    BY <2>3, <2>4
<1>3. ASSUME NEW w \in Workers, NEW i \in Areas, NEW city \in Names, NEW charge \in 0..1,
             AddAreaBegin(w, i, city, charge)
      PROVE  area' = area /\ FairWork' /\ AsksInv' /\ work' \in [Workers -> Work]
  <2> DEFINE row == [state |-> "live", city |-> city, active |-> TRUE,
                     charge_type |-> IF charge = 0 THEN "free" ELSE "per_visit",
                     charge_amount |-> charge]
             t == [op |-> "area", id |-> i, row |-> row]
  <2>1. row \in Area /\ FairCharge(row)
    BY DEF Area, Lives, FairCharge
  <2>2. work' = [work EXCEPT ![w] = t] /\ area' = area
    BY <1>3 DEF AddAreaBegin, Begin
  <2>3. t \in Work /\ t.op = "area" /\ t.row = row
    BY <2>1, TaskTypes
  <2> HIDE DEF t, row
  <2> QED
    BY <2>1, <2>2, <2>3, AreaWork
<1>4. ASSUME NEW w \in Workers, NEW i \in Areas, NEW city \in Names \cup {None},
             NEW type \in {None, "free", "per_visit"}, NEW amount \in {None, 0, 1},
             UpdateAreaBegin(w, i, city, type, amount)
      PROVE  area' = area /\ FairWork' /\ AsksInv' /\ work' \in [Workers -> Work]
  <2> DEFINE pair == ChargePair(i, type, amount)
             part == [city |-> city, charge_type |-> pair.charge_type,
                      charge_amount |-> pair.charge_amount]
             t == [op |-> "area load", id |-> i, part |-> part]
  <2>1. pair.charge_type \in {"free", "per_visit"} /\ pair.charge_amount \in 0..1 /\ FairCharge(pair)
    BY <1>4, ChargeIsFair DEF UpdateAreaBegin
  <2>2. work' = [work EXCEPT ![w] = t] /\ area' = area
    BY <1>4 DEF UpdateAreaBegin, Begin
  <2> HIDE DEF pair
  <2>3. t \in Work
    BY <2>1, AreaLoadType
  <2>4. /\ t.op = "area load" /\ t.part.charge_type # None /\ t.part.charge_amount # None
        /\ FairCharge(t.part)
    BY <2>1, CatalogueAssumption DEF FairCharge
  <2> HIDE DEF t
  <2> QED
    BY <2>2, <2>3, <2>4, AreaWork
<1>5. ASSUME NEW i \in Areas, RemoveArea(i)
      PROVE  /\ area' \in [Areas -> Area] /\ FairAreas'
             /\ FairWork' /\ AsksInv' /\ work' \in [Workers -> Work]
  <2>1. area' \in [Areas -> Area]
    BY <1>5, <1>t DEF RemoveArea, CatalogueTypeOK, Area, Lives
  <2>2. \A j \in Areas : /\ area'[j].state = "live" => area[j].state = "live"
                         /\ area'[j].city = area[j].city
                         /\ area'[j].charge_type = area[j].charge_type
                         /\ area'[j].charge_amount = area[j].charge_amount
    BY <1>5, <1>t DEF RemoveArea, CatalogueTypeOK, Area
  <2>3. FairAreas'
    BY <2>2, <1>t DEF FairAreas, FairCharge
  <2>4. FairWork' /\ AsksInv' /\ work' \in [Workers -> Work]
    BY <1>5, <1>t DEF RemoveArea, CatalogueInv, CatalogueTypeOK, FairWork, AsksInv, FairCharge, Doing
  <2> QED
    BY <2>1, <2>3, <2>4
<1> QED
  BY <1>u, <1>1, <1>2, <1>3, <1>4, <1>5 DEF AreasNext
-----------------------------------------------------------------------------
(* Brands: a request and a decision on it are in one worker's hands.       *)
LEMMA SaveAskStep ==
    ASSUME CatalogueInv, NEW w \in Workers, SaveAsk(w)
    PROVE  ask' \in [BrandRequests -> Ask] /\ AsksInv'
<1> DEFINE q == work[w].id
           row == work[w].row
<1>1. q \in BrandRequests /\ row \in Ask /\ Doing(w, "ask")
  BY WorkTypes DEF SaveAsk, Doing, CatalogueInv, CatalogueTypeOK
<1>2. /\ ask' \in [BrandRequests -> Ask] /\ \A p \in BrandRequests : ask'[p] = IF p = q THEN row ELSE ask[p]
      /\ \A v \in Workers : work'[v] = IF v = w THEN NoWork ELSE work[v]
  BY <1>1 DEF SaveAsk, End, CatalogueInv, CatalogueTypeOK
<1>3. /\ row.status = "pending" /\ ask[q].state = "new"
      /\ \A v \in Workers : Doing(v, "ask") /\ work[v].id = q => v = w
      /\ \A v \in Workers : Doing(v, "decide") => work[v].id # q
  BY <1>1 DEF CatalogueInv, AsksInv
<1>4. NoWork.op = "none" /\ AsksInv
  BY DEF NoWork, CatalogueInv
<1>5. \A v \in Workers : /\ Doing(v, "ask")' => v # w /\ Doing(v, "ask") /\ work'[v] = work[v]
                         /\ Doing(v, "decide")' => v # w /\ Doing(v, "decide") /\ work'[v] = work[v]
  BY <1>2, <1>4 DEF Doing
<1>6. \A v \in Workers : /\ Doing(v, "ask") => work[v].id \in BrandRequests
                         /\ Doing(v, "decide") => work[v].id \in BrandRequests
  BY WorkTypes DEF CatalogueInv, CatalogueTypeOK, Doing
<1> HIDE DEF q, row
<1>7. \A p \in BrandRequests : ask'[p].state = "new" => ask'[p].status = "pending"
  BY <1>2, <1>3, <1>4 DEF AsksInv
<1>8. ASSUME NEW v \in Workers, Doing(v, "ask")'
      PROVE  /\ ask'[work'[v].id].state = "new" /\ work'[v].row.status = "pending"
             /\ \A u \in Workers : Doing(u, "ask")' /\ work'[u].id = work'[v].id => u = v
  BY <1>2, <1>3, <1>4, <1>5, <1>6, <1>8 DEF AsksInv
<1>9. ASSUME NEW v \in Workers, Doing(v, "decide")'
      PROVE  /\ ask'[work'[v].id].state = "live" /\ ask'[work'[v].id].status = "pending"
             /\ \A u \in Workers : Doing(u, "decide")' /\ work'[u].id = work'[v].id => u = v
  BY <1>2, <1>3, <1>4, <1>5, <1>6, <1>9 DEF AsksInv
<1> QED
  BY <1>2, <1>7, <1>8, <1>9 DEF AsksInv

LEMMA DecideStep ==
    ASSUME CatalogueInv, NEW w \in Workers, Decide(w)
    PROVE  ask' \in [BrandRequests -> Ask] /\ AsksInv' /\ brand' \in [Brands -> Brand]
<1> DEFINE q == work[w].id
<1>1. q \in BrandRequests /\ Doing(w, "decide")
  BY WorkTypes DEF Decide, Doing, CatalogueInv, CatalogueTypeOK
<1>2. PICK status \in {"pending", "approved", "rejected"} : ask' = [ask EXCEPT ![q].status = status]
  <2>1. CASE UNCHANGED ask
    <3>1. ask[q].status \in {"pending", "approved", "rejected"} /\ ask' = [ask EXCEPT ![q].status = ask[q].status]
      BY <1>1, <2>1 DEF CatalogueInv, CatalogueTypeOK, Ask
    <3> QED
      BY <3>1
  <2> QED
    BY <2>1 DEF Decide
<1>3. /\ ask' \in [BrandRequests -> Ask]
      /\ \A p \in BrandRequests : ask'[p].state = ask[p].state /\ (p # q => ask'[p] = ask[p])
      /\ \A v \in Workers : work'[v] = IF v = w THEN NoWork ELSE work[v]
  BY <1>1, <1>2 DEF Decide, End, CatalogueInv, CatalogueTypeOK, Ask
<1>4. brand' \in [Brands -> Brand]
  <2>1. ask[q].name \in Names \cup {None} /\ brand \in [Brands -> Brand]
    BY <1>1 DEF CatalogueInv, CatalogueTypeOK, Ask
  <2>2. [state |-> "live", name |-> ask[q].name] \in Brand
    BY <2>1 DEF Brand, Lives
  <2> QED
    BY <2>1, <2>2 DEF Decide
<1>5. /\ ask[q].state = "live"
      /\ \A v \in Workers : Doing(v, "decide") /\ work[v].id = q => v = w
      /\ \A v \in Workers : Doing(v, "ask") => work[v].id # q
  BY <1>1 DEF CatalogueInv, AsksInv
<1>6. NoWork.op = "none" /\ AsksInv
  BY DEF NoWork, CatalogueInv
<1>7. \A v \in Workers : /\ Doing(v, "ask")' => v # w /\ Doing(v, "ask") /\ work'[v] = work[v]
                         /\ Doing(v, "decide")' => v # w /\ Doing(v, "decide") /\ work'[v] = work[v]
  BY <1>3, <1>6 DEF Doing
<1>8. \A v \in Workers : /\ Doing(v, "ask") => work[v].id \in BrandRequests
                         /\ Doing(v, "decide") => work[v].id \in BrandRequests
  BY WorkTypes DEF CatalogueInv, CatalogueTypeOK, Doing
<1> HIDE DEF q
<1>9. \A p \in BrandRequests : ask'[p].state = "new" => ask'[p].status = "pending"
  BY <1>1, <1>3, <1>5, <1>6 DEF AsksInv
<1>10. ASSUME NEW v \in Workers, Doing(v, "ask")'
       PROVE  /\ ask'[work'[v].id].state = "new" /\ work'[v].row.status = "pending"
              /\ \A u \in Workers : Doing(u, "ask")' /\ work'[u].id = work'[v].id => u = v
  BY <1>3, <1>5, <1>6, <1>7, <1>8, <1>10 DEF AsksInv
<1>11. ASSUME NEW v \in Workers, Doing(v, "decide")'
       PROVE  /\ ask'[work'[v].id].state = "live" /\ ask'[work'[v].id].status = "pending"
              /\ \A u \in Workers : Doing(u, "decide")' /\ work'[u].id = work'[v].id => u = v
  <2>1. work[v].id # q
    BY <1>5, <1>7, <1>11
  <2> QED
    BY <2>1, <1>3, <1>6, <1>7, <1>8, <1>11 DEF AsksInv
<1> QED
  BY <1>3, <1>4, <1>9, <1>10, <1>11 DEF AsksInv

LEMMA BrandsStep ==
    ASSUME CatalogueInv, BrandsNext,
           UNCHANGED <<package, addon, offering, speciality, area, item, payout>>
    PROVE  CatalogueInv'
<1>t. CatalogueTypeOK /\ FairAreas /\ FairWork /\ AsksInv
  BY DEF CatalogueInv
<1>n. NoWork \in Work /\ NoWork.op = "none"
  BY TaskTypes DEF NoWork
<1> SUFFICES /\ brand' \in [Brands -> Brand] /\ ask' \in [BrandRequests -> Ask]
             /\ work' \in [Workers -> Work] /\ FairWork' /\ AsksInv'
  BY <1>t DEF CatalogueInv, CatalogueTypeOK, FairAreas, FairCharge
<1>f. ASSUME NEW w \in Workers, NEW t \in Work, work' = [work EXCEPT ![w] = t],
             t.op \notin {"area", "area load"}
      PROVE  FairWork' /\ work' \in [Workers -> Work]
  <2>1. \A v \in Workers : work'[v] = IF v = w THEN t ELSE work[v]
    BY <1>t, <1>f DEF CatalogueTypeOK
  <2> QED
    BY <1>t, <1>f, <2>1 DEF FairWork, FairCharge, Doing, CatalogueTypeOK
<1>1. ASSUME NEW w \in Workers, SaveBrand(w)
      PROVE  /\ brand' \in [Brands -> Brand] /\ ask' \in [BrandRequests -> Ask]
             /\ work' \in [Workers -> Work] /\ FairWork' /\ AsksInv'
  <2>1. work' = [work EXCEPT ![w] = NoWork] /\ ask' = ask
    BY <1>1 DEF SaveBrand, End
  <2>2. FairWork' /\ AsksInv' /\ work' \in [Workers -> Work]
    BY <2>1, <1>n, OtherWork
  <2>3. work[w].id \in Brands /\ work[w].row \in Brand
    BY <1>1, <1>t, WorkTypes DEF SaveBrand, Doing, CatalogueTypeOK
  <2>4. brand' \in [Brands -> Brand]
    BY <1>1, <2>3, <1>t DEF SaveBrand, CatalogueTypeOK
  <2> QED
    BY <2>1, <2>2, <2>4, <1>t DEF CatalogueTypeOK
<1>2. ASSUME NEW w \in Workers, NEW b \in Brands, NEW name \in Names,
             CreateBrandBegin(w, b, name) \/ UpdateBrandBegin(w, b, name)
      PROVE  /\ brand' \in [Brands -> Brand] /\ ask' \in [BrandRequests -> Ask]
             /\ work' \in [Workers -> Work] /\ FairWork' /\ AsksInv'
  <2> DEFINE row == [state |-> "live", name |-> name]
  <2>1. row \in Brand
    BY DEF Brand, Lives
  <2>2. PICK op \in {"brand", "brand locked"} : work' = [work EXCEPT ![w] = [op |-> op, id |-> b, row |-> row]]
    BY <1>2 DEF CreateBrandBegin, UpdateBrandBegin, Begin
  <2> DEFINE t == [op |-> op, id |-> b, row |-> row]
  <2>3. t \in Work /\ t.op \in {"brand", "brand locked"}
    BY <2>1, TaskTypes
  <2>4. brand' = brand /\ ask' = ask
    BY <1>2 DEF CreateBrandBegin, UpdateBrandBegin
  <2> HIDE DEF t
  <2>5. work' = [work EXCEPT ![w] = t]
    BY <2>2 DEF t
  <2>6. FairWork' /\ AsksInv' /\ work' \in [Workers -> Work]
    BY <2>3, <2>4, <2>5, OtherWork
  <2> QED
    BY <2>4, <2>6, <1>t DEF CatalogueTypeOK
<1>3. ASSUME NEW w \in Workers, SaveAsk(w)
      PROVE  /\ brand' \in [Brands -> Brand] /\ ask' \in [BrandRequests -> Ask]
             /\ work' \in [Workers -> Work] /\ FairWork' /\ AsksInv'
  BY <1>3, <1>f, <1>n, <1>t, SaveAskStep DEF SaveAsk, End, CatalogueTypeOK
<1>4. ASSUME NEW w \in Workers, Decide(w)
      PROVE  /\ brand' \in [Brands -> Brand] /\ ask' \in [BrandRequests -> Ask]
             /\ work' \in [Workers -> Work] /\ FairWork' /\ AsksInv'
  BY <1>4, <1>f, <1>n, DecideStep DEF Decide, End
<1>5. ASSUME NEW w \in Workers, NEW q \in BrandRequests, NEW name \in Names, AskBrandBegin(w, q, name)
      PROVE  /\ brand' \in [Brands -> Brand] /\ ask' \in [BrandRequests -> Ask]
             /\ work' \in [Workers -> Work] /\ FairWork' /\ AsksInv'
  <2> DEFINE row == [NewAsk EXCEPT !.state = "live", !.name = name]
             t == [op |-> "ask", id |-> q, row |-> row]
  <2>1. row \in Ask /\ row.status = "pending"
    BY DEF Ask, NewAsk, Lives
  <2>2. t \in Work /\ t.op = "ask" /\ t.id = q /\ t.row = row
    BY <2>1, TaskTypes
  <2>3. work' = [work EXCEPT ![w] = t] /\ brand' = brand /\ ask' = ask
    BY <1>5 DEF AskBrandBegin, Begin
  <2>4. ask[q].state = "new" /\ \A v \in Workers : ~(Doing(v, "ask") /\ work[v].id = q)
    BY <1>5 DEF AskBrandBegin, Unclaimed
  <2> HIDE DEF t, row
  <2>5. FairWork' /\ work' \in [Workers -> Work]
    BY <2>2, <2>3, <1>f
  <2>6. \A v \in Workers : work'[v] = IF v = w THEN t ELSE work[v]
    BY <2>3, <1>t DEF CatalogueTypeOK
  <2>7. AsksInv'
    BY <2>1, <2>2, <2>3, <2>4, <2>6, <1>t DEF AsksInv, Doing
  <2> QED
    BY <2>3, <2>5, <2>7, <1>t DEF CatalogueTypeOK
<1>6. ASSUME NEW w \in Workers, NEW q \in BrandRequests, DecideBegin(w, q)
      PROVE  /\ brand' \in [Brands -> Brand] /\ ask' \in [BrandRequests -> Ask]
             /\ work' \in [Workers -> Work] /\ FairWork' /\ AsksInv'
  <2> DEFINE t == [op |-> "decide", id |-> q]
  <2>1. t \in Work /\ t.op = "decide" /\ t.id = q
    BY TaskTypes
  <2>2. work' = [work EXCEPT ![w] = t] /\ brand' = brand /\ ask' = ask
    BY <1>6 DEF DecideBegin, Begin
  <2>3. /\ ask[q].state = "live" /\ ask[q].status = "pending"
        /\ \A v \in Workers : ~(Doing(v, "decide") /\ work[v].id = q)
    BY <1>6 DEF DecideBegin, AskFree
  <2> HIDE DEF t
  <2>4. FairWork' /\ work' \in [Workers -> Work]
    BY <2>1, <2>2, <1>f
  <2>5. \A v \in Workers : work'[v] = IF v = w THEN t ELSE work[v]
    BY <2>2, <1>t DEF CatalogueTypeOK
  <2>6. AsksInv'
    BY <2>1, <2>2, <2>3, <2>5, <1>t DEF AsksInv, Doing
  <2> QED
    BY <2>2, <2>4, <2>6, <1>t DEF CatalogueTypeOK
<1> QED
  BY <1>1, <1>2, <1>3, <1>4, <1>5, <1>6 DEF BrandsNext
-----------------------------------------------------------------------------
(* Review.  What the requests carry, by what they do.                      *)
LEMMA JobKinds ==
    /\ NoJob \in Job
    /\ \A row \in Profile : [op |-> "save", row |-> row] \in Job
    /\ \A op \in {"submit", "approve", "reject"} : [op |-> op] \in Job
    /\ \A d \in Documents, type \in {"id_proof", "other"}, old \in SUBSET Documents :
          [op |-> "upload", id |-> d, type |-> type, old |-> old] \in Job
    /\ \A d \in Documents : [op |-> "verify", id |-> d] \in Job
    /\ \A b \in Bookings : [op |-> "review", booking |-> b] \in Job
BY DEF Job, NoJob

LEMMA JobTypes ==
    ASSUME NEW t \in Job
    PROVE  /\ t.op = "save" => t.row \in Profile
           /\ t.op = "upload" => /\ t.id \in Documents /\ t.type \in {"id_proof", "other"}
                                 /\ t.old \subseteq Documents
           /\ t.op = "verify" => t.id \in Documents
           /\ t.op = "review" => t.booking \in Bookings
<1> DEFINE saved == [op : {"save"}, row : Profile]
           upload == [op : {"upload"}, id : Documents, type : {"id_proof", "other"}, old : SUBSET Documents]
           verify == [op : {"verify"}, id : Documents]
           posting == [op : {"review"}, booking : Bookings]
<1>1. t.op \in {"none", "submit", "approve", "reject"} \/ t \in saved \/ t \in upload \/ t \in verify \/ t \in posting
  BY DEF Job, NoJob
<1>2. /\ t \in saved => t.op = "save" /\ t.row \in Profile
      /\ t \in upload => /\ t.op = "upload" /\ t.id \in Documents /\ t.type \in {"id_proof", "other"}
                         /\ t.old \subseteq Documents
      /\ t \in verify => t.op = "verify" /\ t.id \in Documents
      /\ t \in posting => t.op = "review" /\ t.booking \in Bookings
  OBVIOUS
<1> HIDE DEF saved, upload, verify, posting
<1> QED
  BY <1>1, <1>2

LEMMA PostedFinite == IsFiniteSet(Posted) /\ Cardinality(Posted) \in Nat
<1>1. Posted \in SUBSET Bookings
  BY DEF Posted
<1> QED
  BY <1>1, ReviewAssumption, FS_Subset, FS_CardinalityType

LEMMA ReviewStarts == ReviewInit => ReviewInv
<1> SUFFICES ASSUME ReviewInit PROVE ReviewInv
  OBVIOUS
<1>1. NewProfile \in Profile /\ NoDocument \in Document /\ NoJob \in Job /\ NoJob.op = "none"
  BY JobKinds DEF NewProfile, Profile, NoDocument, Document, NoJob, ApprovalStatuses
<1>2. ReviewTypeOK
  BY <1>1 DEF ReviewInit, ReviewTypeOK
<1>3. \A r \in Requests : job[r].op = "none"
  BY <1>1 DEF ReviewInit
<1>4. ProfilesInv
  BY <1>3, PostedFinite DEF ReviewInit, ProfilesInv, Honest, NewProfile
<1>5. DocumentsInv
  BY <1>3 DEF ReviewInit, DocumentsInv, NoDocument
<1> QED
  BY <1>2, <1>4, <1>5 DEF ReviewInv
-----------------------------------------------------------------------------
(* A row that was honest stays so: verification, decisions and reviews are *)
(* only added to.                                                          *)
LEMMA HonestStays ==
    ASSUME ReviewInv, NEW row \in Profile, Honest(row), verified => verified', decisions \subseteq decisions',
           \A b \in Bookings : review[b] # "none" => review'[b] # "none"
    PROVE  /\ row.status \in {"approved", "suspended"} => verified' /\ "approved" \in decisions'
           /\ row.submitted => ~row.reason /\ row.status # "rejected"
           /\ row.total_reviews <= Cardinality(Posted')
<1>1. Posted \in SUBSET Posted' /\ Posted' \in SUBSET Bookings
  BY DEF Posted
<1>2. IsFiniteSet(Posted') /\ Cardinality(Posted') \in Nat
  BY <1>1, ReviewAssumption, FS_Subset, FS_CardinalityType
<1>3. Cardinality(Posted) <= Cardinality(Posted') /\ Cardinality(Posted) \in Nat
  BY <1>1, <1>2, FS_Subset, PostedFinite
<1>4. row.total_reviews \in Nat
  BY DEF Profile
<1> QED
  BY <1>2, <1>3, <1>4 DEF Honest

(* What a step has to show of the profiles: that the one it stores and the *)
(* one it loads are honest, and that an approval follows a verification.   *)
LEMMA ProfilesStep ==
    ASSUME ReviewInv, verified => verified', decisions \subseteq decisions',
           \A b \in Bookings : review[b] # "none" => review'[b] # "none",
           profile' \in Profile, Honest(profile)',
           \A r \in Requests : job'[r] # job[r] =>
              /\ job'[r].op = "save" => job'[r].row \in Profile /\ Honest(job'[r].row)
              /\ job'[r].op = "approve" => verified
    PROVE  ProfilesInv'
<1>1. \A r \in Requests : job[r].op = "save" => job[r].row \in Profile
  BY JobTypes DEF ReviewInv, ReviewTypeOK
<1>2. ASSUME NEW r \in Requests
      PROVE  /\ job'[r].op = "save" => Honest(job[r].row)'
             /\ job'[r].op = "approve" => verified'
  <2>1. job'[r].op = "save" => job'[r].row \in Profile /\ Honest(job'[r].row)
    BY <1>1 DEF ReviewInv, ProfilesInv
  <2>2. job'[r].op = "save" => Honest(job[r].row)'
    <3> DEFINE row == job'[r].row
    <3>1. SUFFICES ASSUME job'[r].op = "save" PROVE Honest(job[r].row)'
      OBVIOUS
    <3>2. row \in Profile /\ Honest(row)
      BY <2>1, <3>1
    <3>3. /\ row.status \in {"approved", "suspended"} => verified' /\ "approved" \in decisions'
          /\ row.submitted => ~row.reason /\ row.status # "rejected"
          /\ row.total_reviews <= Cardinality(Posted')
      BY <3>2, HonestStays
    <3> QED
      BY <3>3 DEF Honest
  <2> QED
    BY <2>2 DEF ReviewInv, ProfilesInv
<1> QED
  BY <1>2 DEF ProfilesInv

(* A request that has nothing to do with documents starts or ends.         *)
LEMMA PaperRests ==
    ASSUME ReviewInv, NEW r \in Requests, NEW t \in Job, job' = [job EXCEPT ![r] = t],
           t.op \notin {"verify", "upload"}, document' = document, verified => verified'
    PROVE  /\ DocumentsInv' /\ job' \in [Requests -> Job] /\ document' \in [Documents -> Document]
           /\ \A q \in Requests : job'[q] # job[q] => job'[q] = t
<1>1. job \in [Requests -> Job] /\ document \in [Documents -> Document] /\ DocumentsInv
  BY DEF ReviewInv, ReviewTypeOK
<1>2. job' \in [Requests -> Job] /\ \A q \in Requests : job'[q] = IF q = r THEN t ELSE job[q]
  BY <1>1
<1>3. DocumentsInv'
  BY <1>1, <1>2 DEF DocumentsInv
<1> QED
  BY <1>1, <1>2, <1>3

LEMMA RequestStep ==
    ASSUME ReviewInv, NEW r \in Requests,
           \/ \E details \in BOOLEAN : LoadProfile(r, details)
           \/ SubmitBegin(r) \/ ApproveBegin(r) \/ RejectBegin(r)
           \/ \E b \in Bookings : ReviewBegin(r, b)
    PROVE  ReviewInv'
<1>1. ReviewTypeOK /\ Honest(profile)
  BY DEF ReviewInv, ProfilesInv
<1>2. PICK t \in Job : /\ job' = [job EXCEPT ![r] = t] /\ t.op \notin {"verify", "upload"}
                       /\ t.op = "save" => t.row \in Profile /\ Honest(t.row)
                       /\ t.op = "approve" => verified
  <2>1. ASSUME NEW details \in BOOLEAN, LoadProfile(r, details)
        PROVE  \E t \in Job : /\ job' = [job EXCEPT ![r] = t] /\ t.op \notin {"verify", "upload"}
                              /\ t.op = "save" => t.row \in Profile /\ Honest(t.row)
                              /\ t.op = "approve" => verified
    <3> DEFINE row == [profile EXCEPT !.details = profile.details \/ details]
               t == [op |-> "save", row |-> row]
    <3>1. row \in Profile /\ Honest(row)
      BY <1>1 DEF ReviewTypeOK, Profile, Honest
    <3>2. t \in Job /\ t.op = "save" /\ t.row = row
      BY <3>1, JobKinds
    <3>3. job' = [job EXCEPT ![r] = t]
      BY <2>1 DEF LoadProfile, Take
    <3> HIDE DEF t, row
    <3> QED
      BY <3>1, <3>2, <3>3
  <2>2. CASE SubmitBegin(r) \/ RejectBegin(r) \/ \E b \in Bookings : ReviewBegin(r, b)
    BY <2>2, JobKinds DEF SubmitBegin, RejectBegin, ReviewBegin, Take
  <2>3. CASE ApproveBegin(r)
    <3>1. verified
      BY <2>3 DEF ApproveBegin, KycVerified, IdProofs, ReviewInv, DocumentsInv
    <3> QED
      BY <2>3, <3>1, JobKinds DEF ApproveBegin, Take
  <2> QED
    BY <2>1, <2>2, <2>3
<1>3. UNCHANGED <<profile, ready, document, decisions, verified, review>>
  BY DEF LoadProfile, SubmitBegin, ApproveBegin, RejectBegin, ReviewBegin
<1>4. /\ DocumentsInv' /\ job' \in [Requests -> Job]
      /\ \A q \in Requests : job'[q] # job[q] => job'[q] = t
  BY <1>2, <1>3, PaperRests
<1>5. Honest(profile)'
  BY <1>1, <1>3 DEF Honest, Posted
<1>6. ProfilesInv'
  BY <1>1, <1>2, <1>3, <1>4, <1>5, ProfilesStep DEF ReviewTypeOK
<1>7. ReviewTypeOK'
  BY <1>1, <1>3, <1>4 DEF ReviewTypeOK
<1> QED
  BY <1>4, <1>6, <1>7 DEF ReviewInv

LEMMA ProfileStep ==
    ASSUME ReviewInv, AcceptAgreement \/ OtherSteps \/ Suspend \/ Reinstate
    PROVE  ReviewInv'
<1>1. ReviewTypeOK /\ Honest(profile) /\ DocumentsInv
  BY DEF ReviewInv, ProfilesInv
<1>2. UNCHANGED <<document, decisions, verified, review, job>>
  BY DEF AcceptAgreement, OtherSteps, Suspend, Reinstate
<1>3. profile' \in Profile /\ ready' \in BOOLEAN
  BY <1>1 DEF AcceptAgreement, OtherSteps, Suspend, Reinstate, ReviewTypeOK, Profile, ApprovalStatuses
<1>4. /\ profile'.submitted = profile.submitted /\ profile'.reason = profile.reason
      /\ profile'.total_reviews = profile.total_reviews
      /\ \/ profile'.status = profile.status
         \/ {profile.status, profile'.status} \subseteq {"approved", "suspended"}
  BY <1>1 DEF AcceptAgreement, OtherSteps, Suspend, Reinstate, ReviewTypeOK, Profile
<1>5. Honest(profile)'
  BY <1>1, <1>2, <1>4 DEF Honest, Posted
<1>6. ProfilesInv'
  BY <1>2, <1>3, <1>5, ProfilesStep
<1>7. DocumentsInv' /\ ReviewTypeOK'
  BY <1>1, <1>2, <1>3 DEF DocumentsInv, ReviewTypeOK
<1> QED
  BY <1>6, <1>7 DEF ReviewInv

LEMMA DecisionStep ==
    ASSUME ReviewInv, NEW r \in Requests, SaveProfile(r) \/ submit_for_review(r) \/ approve(r) \/ reject(r)
    PROVE  ReviewInv'
<1>1. ReviewTypeOK /\ Honest(profile)
  BY DEF ReviewInv, ProfilesInv
<1>2. /\ UNCHANGED <<ready, document, verified, review>> /\ job' = [job EXCEPT ![r] = NoJob]
      /\ decisions \subseteq decisions' /\ decisions' \subseteq {"approved", "rejected"}
  BY <1>1 DEF SaveProfile, submit_for_review, approve, reject, Leave, record, ReviewTypeOK
<1>3. NoJob \in Job /\ NoJob.op = "none"
  BY JobKinds DEF NoJob
<1>4. /\ DocumentsInv' /\ job' \in [Requests -> Job]
      /\ \A q \in Requests : job'[q] # job[q] => job'[q] = NoJob
  BY <1>2, <1>3, PaperRests
<1>5. profile' \in Profile /\ Honest(profile)'
  <2>1. CASE SaveProfile(r)
    <3>1. job[r].row \in Profile /\ Honest(job[r].row) /\ profile' = job[r].row /\ decisions' = decisions
      BY <2>1, <1>1, JobTypes DEF SaveProfile, ReviewInv, ProfilesInv, ReviewTypeOK
    <3> QED
      BY <3>1, <1>2 DEF Honest, Posted
  <2>2. CASE submit_for_review(r)
    <3>1. /\ profile' \in Profile /\ profile'.status = "pending" /\ ~profile'.reason
          /\ profile'.total_reviews = profile.total_reviews /\ decisions' = decisions
      BY <2>2, <1>1 DEF submit_for_review, Submitted, ReviewTypeOK, Profile, ApprovalStatuses
    <3> QED
      BY <3>1, <1>1, <1>2 DEF Honest, Posted
  <2>3. CASE approve(r)
    <3>1. /\ profile' \in Profile /\ profile'.status = "approved" /\ ~profile'.reason
          /\ profile'.total_reviews = profile.total_reviews /\ "approved" \in decisions'
      BY <2>3, <1>1 DEF approve, record, ReviewTypeOK, Profile, ApprovalStatuses
    <3>2. verified
      BY <2>3 DEF approve, ReviewInv, ProfilesInv
    <3> QED
      BY <3>1, <3>2, <1>1, <1>2 DEF Honest, Posted
  <2>4. CASE reject(r)
    <3>1. /\ profile' \in Profile /\ profile'.status = "rejected" /\ ~profile'.submitted
          /\ profile'.total_reviews = profile.total_reviews
      BY <2>4, <1>1 DEF reject, ReviewTypeOK, Profile, ApprovalStatuses
    <3> QED
      BY <3>1, <1>1, <1>2 DEF Honest, Posted
  <2> QED
    BY <2>1, <2>2, <2>3, <2>4
<1>6. ProfilesInv'
  BY <1>2, <1>3, <1>4, <1>5, ProfilesStep
<1>7. ReviewTypeOK'
  BY <1>1, <1>2, <1>4, <1>5 DEF ReviewTypeOK
<1> QED
  BY <1>4, <1>6, <1>7 DEF ReviewInv

LEMMA PostStep ==
    ASSUME ReviewInv, NEW r \in Requests, record_review(r)
    PROVE  ReviewInv'
<1>1. ReviewTypeOK /\ Honest(profile)
  BY DEF ReviewInv, ProfilesInv
<1>2. UNCHANGED <<ready, document, decisions, verified>> /\ job' = [job EXCEPT ![r] = NoJob]
  BY DEF record_review, Leave
<1>3. NoJob \in Job /\ NoJob.op = "none"
  BY JobKinds DEF NoJob
<1>4. /\ DocumentsInv' /\ job' \in [Requests -> Job]
      /\ \A q \in Requests : job'[q] # job[q] => job'[q] = NoJob
  BY <1>2, <1>3, PaperRests
<1>5. job[r].booking \in Bookings
  BY <1>1, JobTypes DEF record_review, ReviewTypeOK
<1>6. /\ review' \in [Bookings -> {"none", "posted"}] /\ profile' \in Profile /\ Honest(profile)'
      /\ \A b \in Bookings : review[b] # "none" => review'[b] # "none"
  <2> DEFINE b == job[r].booking
  <2>1. CASE ~Unreviewed(b)
    <3>1. UNCHANGED <<review, profile>>
      BY <2>1 DEF record_review
    <3> QED
      BY <3>1, <1>1, <1>2 DEF ReviewTypeOK, Honest, Posted
  <2>2. CASE Unreviewed(b)
    <3>1. review' = [review EXCEPT ![b] = "posted"] /\ review[b] = "none"
      BY <2>2 DEF record_review, Unreviewed
    <3>2. profile' = [profile EXCEPT !.total_reviews = profile.total_reviews + 1]
      BY <2>2 DEF record_review
    <3>3. Posted' = Posted \cup {b} /\ b \notin Posted
      BY <3>1, <1>1, <1>5 DEF Posted, ReviewTypeOK
    <3>4. Cardinality(Posted') = Cardinality(Posted) + 1
      BY <3>3, PostedFinite, FS_AddElement
    <3>5. /\ profile' \in Profile /\ profile'.status = profile.status /\ profile'.submitted = profile.submitted
          /\ profile'.reason = profile.reason /\ profile'.total_reviews = profile.total_reviews + 1
      BY <3>2, <1>1 DEF ReviewTypeOK, Profile
    <3>6. profile'.total_reviews <= Cardinality(Posted')
      BY <3>4, <3>5, <1>1, PostedFinite DEF Honest, ReviewTypeOK, Profile
    <3>7. Honest(profile)'
      BY <3>5, <3>6, <1>1, <1>2 DEF Honest
    <3> QED
      BY <3>1, <3>5, <3>7, <1>1, <1>5 DEF ReviewTypeOK
  <2> QED
    BY <2>1, <2>2
<1>7. ProfilesInv'
  BY <1>2, <1>3, <1>4, <1>6, ProfilesStep
<1>8. ReviewTypeOK'
  BY <1>1, <1>2, <1>4, <1>6 DEF ReviewTypeOK
<1> QED
  BY <1>4, <1>7, <1>8 DEF ReviewInv
-----------------------------------------------------------------------------
(* Documents.  What a step has to show of them, when it leaves profile,    *)
(* decisions and reviews alone.                                            *)
LEMMA PaperStep ==
    ASSUME ReviewInv, UNCHANGED <<profile, ready, decisions, review>>,
           NEW r \in Requests, NEW t \in Job, t.op \notin {"save", "approve"},
           job' = [job EXCEPT ![r] = t] \/ job' = job,
           document' \in [Documents -> Document], verified' \in BOOLEAN, verified => verified', DocumentsInv'
    PROVE  ReviewInv'
<1>1. ReviewTypeOK /\ Honest(profile)
  BY DEF ReviewInv, ProfilesInv
<1>2. job' \in [Requests -> Job] /\ \A q \in Requests : job'[q] # job[q] => job'[q] = t
  BY <1>1 DEF ReviewTypeOK
<1>3. Honest(profile)'
  BY <1>1 DEF Honest, Posted
<1>4. ProfilesInv'
  BY <1>1, <1>2, <1>3, ProfilesStep DEF ReviewTypeOK
<1>5. ReviewTypeOK'
  BY <1>1, <1>2 DEF ReviewTypeOK
<1> QED
  BY <1>4, <1>5 DEF ReviewInv

LEMMA UploadStarts ==
    ASSUME ReviewInv, NEW r \in Requests, NEW d \in Documents, NEW type \in {"id_proof", "other"},
           UploadBegin(r, d, type)
    PROVE  ReviewInv'
<1>1. ReviewTypeOK /\ DocumentsInv
  BY DEF ReviewInv
<1> DEFINE old == IF type = "id_proof" THEN IdProofs ELSE {}
           t == [op |-> "upload", id |-> d, type |-> type, old |-> old]
<1>2. old \in SUBSET Documents
  BY DEF IdProofs
<1>3. t \in Job /\ t.op = "upload" /\ t.id = d
  BY <1>2, JobKinds
<1>4. job' = [job EXCEPT ![r] = t] /\ UNCHANGED <<profile, ready, document, decisions, verified, review>>
  BY DEF UploadBegin, Take
<1>5. /\ ~document[d].stored /\ document[d].status = "pending"
      /\ \A q \in Requests : ~(job[q].op = "upload" /\ job[q].id = d)
  BY DEF UploadBegin, Free, NoDocument
<1> HIDE DEF t
<1>6. \A q \in Requests : job'[q] = IF q = r THEN t ELSE job[q]
  BY <1>1, <1>4 DEF ReviewTypeOK
<1>7. DocumentsInv'
  BY <1>1, <1>3, <1>4, <1>5, <1>6 DEF DocumentsInv
<1> QED
  BY <1>1, <1>3, <1>4, <1>7, PaperStep DEF ReviewTypeOK

LEMMA VerifyStarts ==
    ASSUME ReviewInv, NEW r \in Requests, NEW d \in Documents, VerifyBegin(r, d)
    PROVE  ReviewInv'
<1>1. ReviewTypeOK /\ DocumentsInv
  BY DEF ReviewInv
<1> DEFINE t == [op |-> "verify", id |-> d]
<1>2. t \in Job /\ t.op = "verify" /\ t.id = d
  BY JobKinds
<1>3. job' = [job EXCEPT ![r] = t] /\ UNCHANGED <<profile, ready, document, decisions, verified, review>>
  BY DEF VerifyBegin, Take
<1>4. /\ document[d].stored /\ document[d].status = "pending"
      /\ \A q \in Requests : ~(job[q].op = "verify" /\ job[q].id = d)
  BY DEF VerifyBegin, DocumentFree
<1> HIDE DEF t
<1>5. \A q \in Requests : job'[q] = IF q = r THEN t ELSE job[q]
  BY <1>1, <1>3 DEF ReviewTypeOK
<1>6. DocumentsInv'
  BY <1>1, <1>2, <1>3, <1>4, <1>5 DEF DocumentsInv
<1> QED
  BY <1>1, <1>2, <1>3, <1>6, PaperStep DEF ReviewTypeOK

LEMMA VerifyEnds ==
    ASSUME ReviewInv, NEW r \in Requests, NEW decision \in {"approved", "rejected"},
           VerifyDocument(r, decision)
    PROVE  ReviewInv'
<1>1. ReviewTypeOK /\ DocumentsInv
  BY DEF ReviewInv
<1> DEFINE d == job[r].id
<1>2. d \in Documents /\ job[r].op = "verify"
  BY <1>1, JobTypes DEF VerifyDocument, ReviewTypeOK
<1>3. NoJob \in Job /\ NoJob.op = "none"
  BY JobKinds DEF NoJob
<1>4. /\ document' = [document EXCEPT ![d].status = decision]
      /\ job' = [job EXCEPT ![r] = NoJob] /\ UNCHANGED <<profile, ready, decisions, review>>
      /\ verified' = (verified \/ (decision = "approved" /\ document[d].type = "id_proof"))
  BY DEF VerifyDocument, Leave
<1>5. /\ \A q \in Requests : job[q].op = "verify" /\ job[q].id = d => q = r
      /\ document[d].stored
      /\ \A q \in Requests : job[q].op = "upload" => job[q].id # d
  BY <1>1, <1>2 DEF DocumentsInv
<1>6. \A q \in Requests : /\ job[q].op = "verify" => job[q].id \in Documents
                          /\ job[q].op = "upload" => job[q].id \in Documents
  BY <1>1, JobTypes DEF ReviewTypeOK
<1>7. \A q \in Requests : job'[q] = IF q = r THEN NoJob ELSE job[q]
  BY <1>1, <1>4 DEF ReviewTypeOK
<1>8. /\ document' \in [Documents -> Document]
      /\ \A e \in Documents : /\ document'[e].type = document[e].type /\ document'[e].stored = document[e].stored
                              /\ document'[e].status = IF e = d THEN decision ELSE document[e].status
  BY <1>1, <1>2, <1>4 DEF ReviewTypeOK, Document
<1>9. verified' \in BOOLEAN /\ (verified => verified')
  BY <1>1, <1>4 DEF ReviewTypeOK
<1> HIDE DEF d
<1>10. \A e \in Documents : document'[e].status = "approved" /\ document'[e].type = "id_proof" => verified'
  BY <1>1, <1>4, <1>8 DEF DocumentsInv
<1>11. ASSUME NEW q \in Requests, job'[q].op = "verify"
       PROVE  /\ document'[job'[q].id].stored /\ document'[job'[q].id].status = "pending"
              /\ \A p \in Requests : job'[p].op = "verify" /\ job'[p].id = job'[q].id => p = q
  BY <1>1, <1>3, <1>5, <1>6, <1>7, <1>8, <1>11 DEF DocumentsInv
<1>12. ASSUME NEW q \in Requests, job'[q].op = "upload"
       PROVE  /\ ~document'[job'[q].id].stored /\ document'[job'[q].id].status = "pending"
              /\ \A p \in Requests : job'[p].op = "upload" /\ job'[p].id = job'[q].id => p = q
  BY <1>1, <1>3, <1>5, <1>6, <1>7, <1>8, <1>12 DEF DocumentsInv
<1>13. DocumentsInv'
  BY <1>10, <1>11, <1>12 DEF DocumentsInv
<1> QED
  BY <1>3, <1>4, <1>8, <1>9, <1>13, PaperStep

LEMMA UploadEnds ==
    ASSUME ReviewInv, NEW r \in Requests, Upload(r)
    PROVE  ReviewInv'
<1>1. ReviewTypeOK /\ DocumentsInv
  BY DEF ReviewInv
<1> DEFINE d == job[r].id
           old == job[r].old
<1>2. /\ d \in Documents /\ job[r].op = "upload" /\ job[r].type \in {"id_proof", "other"}
      /\ old \subseteq Documents
  BY <1>1, JobTypes DEF Upload, ReviewTypeOK
<1>3. NoJob \in Job /\ NoJob.op = "none"
  BY JobKinds DEF NoJob
<1>4. /\ document' = [e \in Documents |->
            IF e = d THEN [stored |-> TRUE, type |-> job[r].type, status |-> "pending"]
            ELSE IF e \in old THEN [document[e] EXCEPT !.stored = FALSE] ELSE document[e]]
      /\ job' = [job EXCEPT ![r] = NoJob] /\ UNCHANGED <<profile, ready, decisions, verified, review>>
  BY DEF Upload, Leave
<1>5. /\ \A q \in Requests : job[q].op = "upload" /\ job[q].id = d => q = r
      /\ \A q \in Requests : job[q].op = "verify" => job[q].id # d
      /\ \A q \in Requests : job[q].op = "verify" => job[q].id \notin old
  BY <1>1, <1>2 DEF DocumentsInv, Upload, DocumentFree
<1>6. \A q \in Requests : /\ job[q].op = "verify" => job[q].id \in Documents
                          /\ job[q].op = "upload" => job[q].id \in Documents
  BY <1>1, JobTypes DEF ReviewTypeOK
<1>7. \A q \in Requests : job'[q] = IF q = r THEN NoJob ELSE job[q]
  BY <1>1, <1>4 DEF ReviewTypeOK
<1>8. /\ document' \in [Documents -> Document]
      /\ document'[d].status = "pending"
      /\ \A e \in Documents : e # d => /\ document'[e].type = document[e].type
                                       /\ document'[e].status = document[e].status
                                       /\ document'[e].stored => document[e].stored
                                       /\ e \notin old => document'[e] = document[e]
  <2>1. [stored |-> TRUE, type |-> job[r].type, status |-> "pending"] \in Document
    BY <1>2 DEF Document
  <2>2. \A e \in Documents : /\ [document[e] EXCEPT !.stored = FALSE] \in Document /\ document[e] \in Document
                             /\ [document[e] EXCEPT !.stored = FALSE].type = document[e].type
                             /\ [document[e] EXCEPT !.stored = FALSE].status = document[e].status
                             /\ ~[document[e] EXCEPT !.stored = FALSE].stored
    BY <1>1 DEF ReviewTypeOK, Document
  <2> HIDE DEF d, old
  <2> QED
    BY <1>2, <1>4, <2>1, <2>2
<1> HIDE DEF d, old
<1>9. verified' \in BOOLEAN
  BY <1>1, <1>4 DEF ReviewTypeOK
<1>10. \A e \in Documents : document'[e].status = "approved" /\ document'[e].type = "id_proof" => verified'
  BY <1>1, <1>4, <1>8 DEF DocumentsInv
<1>11. ASSUME NEW q \in Requests, job'[q].op = "verify"
       PROVE  /\ document'[job'[q].id].stored /\ document'[job'[q].id].status = "pending"
              /\ \A p \in Requests : job'[p].op = "verify" /\ job'[p].id = job'[q].id => p = q
  BY <1>1, <1>3, <1>5, <1>6, <1>7, <1>8, <1>11 DEF DocumentsInv
<1>12. ASSUME NEW q \in Requests, job'[q].op = "upload"
       PROVE  /\ ~document'[job'[q].id].stored /\ document'[job'[q].id].status = "pending"
              /\ \A p \in Requests : job'[p].op = "upload" /\ job'[p].id = job'[q].id => p = q
  BY <1>1, <1>3, <1>5, <1>6, <1>7, <1>8, <1>12 DEF DocumentsInv
<1>13. DocumentsInv'
  BY <1>10, <1>11, <1>12 DEF DocumentsInv
<1> QED
  BY <1>3, <1>4, <1>8, <1>9, <1>13, PaperStep

LEMMA DocumentGoes ==
    ASSUME ReviewInv, NEW d \in Documents, DeleteDocument(d)
    PROVE  ReviewInv'
<1>1. ReviewTypeOK /\ DocumentsInv /\ Honest(profile)
  BY DEF ReviewInv, ProfilesInv
<1>2. UNCHANGED <<profile, ready, decisions, verified, review, job>>
  BY DEF DeleteDocument
<1>3. /\ document' \in [Documents -> Document]
      /\ \A e \in Documents : /\ document'[e].type = document[e].type /\ document'[e].status = document[e].status
                              /\ document'[e].stored => document[e].stored
                              /\ e # d => document'[e] = document[e]
  BY <1>1 DEF DeleteDocument, ReviewTypeOK, Document
<1>4. \A q \in Requests : job[q].op = "verify" => job[q].id # d
  BY DEF DeleteDocument, DocumentFree
<1>5. \A q \in Requests : /\ job[q].op = "verify" => job[q].id \in Documents
                          /\ job[q].op = "upload" => job[q].id \in Documents
  BY <1>1, JobTypes DEF ReviewTypeOK
<1>6. DocumentsInv'
  BY <1>1, <1>2, <1>3, <1>4, <1>5 DEF DocumentsInv
<1>7. Honest(profile)'
  BY <1>1, <1>2 DEF Honest, Posted
<1>8. ProfilesInv'
  BY <1>1, <1>2, <1>7, ProfilesStep DEF ReviewTypeOK
<1>9. ReviewTypeOK'
  BY <1>1, <1>2, <1>3 DEF ReviewTypeOK
<1> QED
  BY <1>6, <1>8, <1>9 DEF ReviewInv

LEMMA ReviewStep ==
    ASSUME ReviewInv, ReviewNext
    PROVE  ReviewInv'
BY RequestStep, ProfileStep, DecisionStep, PostStep, UploadStarts, VerifyStarts, VerifyEnds, UploadEnds,
   DocumentGoes DEF ReviewNext

LEMMA ReviewRests ==
    ASSUME ReviewInv, UNCHANGED reviewVars
    PROVE  ReviewInv'
BY DEF ReviewInv, ReviewTypeOK, ProfilesInv, DocumentsInv, Honest, Posted, reviewVars
-----------------------------------------------------------------------------
(* Clients.  Whoever has two things of a set has half of it at most: twice *)
(* the number of those is no more than the size of the set.                *)
LEMMA TwoEach ==
    ASSUME NEW C, NEW V, IsFiniteSet(V), NEW R \in SUBSET C, NEW f \in [V -> C],
           \A c \in R : \E v, w \in V : v # w /\ f[v] = c /\ f[w] = c
    PROVE  IsFiniteSet(R) => 2 * Cardinality(R) <= Cardinality(V)
<1> SUFFICES ASSUME IsFiniteSet(R) PROVE 2 * Cardinality(R) <= Cardinality(V)
  OBVIOUS
<1> DEFINE one(c) == CHOOSE v \in V : f[v] = c /\ \E w \in V : w # v /\ f[w] = c
           two(c) == CHOOSE w \in V : w # one(c) /\ f[w] = c
           pick == [p \in R \X {1, 2} |-> IF p[2] = 1 THEN one(p[1]) ELSE two(p[1])]
<1>1. \A c \in R : one(c) \in V /\ f[one(c)] = c /\ \E w \in V : w # one(c) /\ f[w] = c
  OBVIOUS
<1>2. \A c \in R : two(c) \in V /\ f[two(c)] = c /\ two(c) # one(c)
  <2> SUFFICES ASSUME NEW c \in R PROVE two(c) \in V /\ f[two(c)] = c /\ two(c) # one(c)
    OBVIOUS
  <2>1. \E w \in V : w # one(c) /\ f[w] = c
    BY <1>1
  <2> HIDE DEF one
  <2> QED
    BY <2>1
<1> HIDE DEF one, two
<1>3. pick \in [R \X {1, 2} -> V]
  BY <1>1, <1>2
<1>4. ASSUME NEW p \in R \X {1, 2}, NEW q \in R \X {1, 2}, pick[p] = pick[q]
      PROVE  p = q
  <2>1. f[pick[p]] = p[1] /\ f[pick[q]] = q[1]
    BY <1>1, <1>2
  <2>2. p[1] = q[1]
    BY <2>1, <1>4
  <2>3. p[2] = q[2]
    BY <2>2, <1>2, <1>4
  <2> QED
    BY <2>2, <2>3
<1>5. pick \in Injection(R \X {1, 2}, V)
  BY <1>3, <1>4 DEF Injection, IsInjective
<1>6. Cardinality(R \X {1, 2}) <= Cardinality(V)
  BY <1>5, FS_Injection
<1>7. IsFiniteSet({1, 2}) /\ Cardinality({1, 2}) = 2
  <2>1. IsFiniteSet({1}) /\ Cardinality({1}) = 1
    BY FS_Singleton
  <2>2. {1, 2} = {1} \cup {2} /\ 2 \notin {1}
    OBVIOUS
  <2>3. /\ IsFiniteSet({1} \cup {2})
        /\ Cardinality({1} \cup {2}) = IF 2 \in {1} THEN Cardinality({1}) ELSE Cardinality({1}) + 1
    BY <2>1, FS_AddElement
  <2> QED
    BY <2>1, <2>2, <2>3
<1>8. Cardinality(R \X {1, 2}) = Cardinality(R) * 2 /\ Cardinality(R) \in Nat
  BY <1>7, FS_Product, FS_CardinalityType
<1> QED
  BY <1>6, <1>8, <1>7

(* A set of two or more has two members that differ.                       *)
LEMMA TwoMembers ==
    ASSUME NEW S, IsFiniteSet(S), Cardinality(S) >= 2
    PROVE  \E v, w \in S : v # w
<1>1. S # {}
  BY FS_EmptySet
<1>2. PICK v \in S : TRUE
  BY <1>1
<1>3. IsFiniteSet(S \ {v}) /\ Cardinality(S \ {v}) = Cardinality(S) - 1
  BY FS_RemoveElement
<1>4. S \ {v} # {}
  BY <1>3, FS_EmptySet, FS_CardinalityType
<1> QED
  BY <1>4

LEMMA RepeatsAreBacked ==
    ASSUME ClientsTypeOK
    PROVE  /\ 2 * Cardinality(RepeatClients) <= Cardinality(With({"completed"}))
           /\ Cardinality(RepeatClients) \in 0..Cardinality(Clients)
           /\ Cardinality(With({"completed"})) \in 0..Cardinality(Visits)
<1> DEFINE V == With({"completed"})
           f == [v \in V |-> appointment[v].client]
<1>1. V \in SUBSET Visits /\ IsFiniteSet(V) /\ Cardinality(V) \in 0..Cardinality(Visits)
  BY ClientsAssumption, FS_Subset, FS_CardinalityType DEF With
<1>2. /\ RepeatClients \in SUBSET Clients /\ IsFiniteSet(RepeatClients)
      /\ Cardinality(RepeatClients) \in 0..Cardinality(Clients)
  <2>1. RepeatClients \in SUBSET Clients
    BY DEF RepeatClients
  <2> QED
    BY <2>1, ClientsAssumption, FS_Subset, FS_CardinalityType
<1>3. f \in [V -> Clients]
  BY <1>1 DEF ClientsTypeOK
<1>4. ASSUME NEW c \in RepeatClients
      PROVE  \E v, w \in V : v # w /\ f[v] = c /\ f[w] = c
  <2>1. VisitsOf(c, {"completed"}) = {v \in V : f[v] = c}
    BY DEF VisitsOf
  <2>2. Cardinality(VisitsOf(c, {"completed"})) >= 2
    BY <1>4 DEF RepeatClients
  <2>3. IsFiniteSet({v \in V : f[v] = c})
    <3>1. {v \in V : f[v] = c} \in SUBSET V
      OBVIOUS
    <3> QED
      BY <3>1, <1>1, FS_Subset
  <2> HIDE DEF V, f
  <2> QED
    BY <2>1, <2>2, <2>3, TwoMembers
<1> HIDE DEF V, f
<1>5. 2 * Cardinality(RepeatClients) <= Cardinality(V)
  BY <1>1, <1>2, <1>3, <1>4, TwoEach
<1> QED
  BY <1>1, <1>2, <1>5 DEF V
-----------------------------------------------------------------------------
(* What the requests of the artist carry, by what they do.                 *)
LEMMA QueryKinds ==
    /\ NoQuery \in Query
    /\ \A op \in {"note", "clear"}, c \in Clients : [op |-> op, client |-> c] \in Query
    /\ \A rows \in SUBSET Clients : [op |-> "rows", rows |-> rows] \in Query
    /\ \A rows, notes \in SUBSET Clients : [op |-> "list", rows |-> rows, notes |-> notes] \in Query
    /\ \A op \in {"counted", "summary"}, completed \in 0..Cardinality(Visits),
          repeat \in 0..Cardinality(Clients), since \in SUBSET Visits :
          [op |-> op, completed |-> completed, repeat |-> repeat, since |-> since] \in Query
BY DEF Query, NoQuery

LEMMA QueryTypes ==
    ASSUME NEW q \in Query
    PROVE  /\ q.op \in {"note", "clear"} => q.client \in Clients
           /\ q.op \in {"rows", "list"} => q.rows \subseteq Clients
           /\ q.op \in {"counted", "summary"} =>
                 /\ q.completed \in 0..Cardinality(Visits) /\ q.repeat \in 0..Cardinality(Clients)
                 /\ q.since \subseteq Visits
                 /\ q \in [op : {"counted", "summary"}, completed : 0..Cardinality(Visits),
                           repeat : 0..Cardinality(Clients), since : SUBSET Visits]
<1> DEFINE writing == [op : {"note", "clear"}, client : Clients]
           rows == [op : {"rows"}, rows : SUBSET Clients]
           list == [op : {"list"}, rows : SUBSET Clients, notes : SUBSET Clients]
           summary == [op : {"counted", "summary"}, completed : 0..Cardinality(Visits),
                       repeat : 0..Cardinality(Clients), since : SUBSET Visits]
<1>1. q.op = "none" \/ q \in writing \/ q \in rows \/ q \in list \/ q \in summary
  BY DEF Query, NoQuery
<1>2. /\ q \in writing => q.op \in {"note", "clear"} /\ q.client \in Clients
      /\ q \in rows => q.op = "rows" /\ q.rows \subseteq Clients
      /\ q \in list => q.op = "list" /\ q.rows \subseteq Clients
  OBVIOUS
<1>3. q \in summary =>
         /\ q.op \in {"counted", "summary"}
         /\ q.completed \in 0..Cardinality(Visits) /\ q.repeat \in 0..Cardinality(Clients)
         /\ q.since \subseteq Visits
  OBVIOUS
<1>4. q.op \in {"counted", "summary"} => q \in summary
  <2> HIDE DEF writing, rows, list, summary
  <2> QED
    BY <1>1, <1>2
<1> QED
  <2> HIDE DEF writing, rows, list
  <2> QED
    BY <1>1, <1>2, <1>3, <1>4

LEMMA ClientsStart == ClientsInit => ClientsInv
<1> SUFFICES ASSUME ClientsInit PROVE ClientsInv
  OBVIOUS
<1>1. (CHOOSE c \in Clients : TRUE) \in Clients
  BY ClientsAssumption
<1>2. NoQuery \in Query /\ NoQuery.op = "none"
  BY QueryKinds DEF NoQuery
<1>3. ClientsTypeOK
  BY <1>1, <1>2 DEF ClientsInit, ClientsTypeOK, VisitStatuses
<1>4. \A v \in Visits : appointment[v].status = "none"
  BY DEF ClientsInit
<1>5. VisitsKnown /\ note \subseteq known
  BY <1>4 DEF ClientsInit, VisitsKnown, CLIENT_STATUSES
<1>6. \A d \in Devices : QueryInv(query[d])
  BY <1>2 DEF ClientsInit, QueryInv
<1> QED
  BY <1>3, <1>5, <1>6 DEF ClientsInv

(* A request that starts or goes on while the bookings rest.               *)
LEMMA AnswerStep ==
    ASSUME ClientsInv, UNCHANGED <<appointment, rated, known>>, NEW d \in Devices, NEW new \in Query,
           query' = [query EXCEPT ![d] = new], QueryInv(new), note' \subseteq known
    PROVE  ClientsInv'
<1>1. ClientsTypeOK /\ VisitsKnown /\ \A e \in Devices : QueryInv(query[e])
  BY DEF ClientsInv
<1>2. query' \in [Devices -> Query] /\ \A e \in Devices : query'[e] = IF e = d THEN new ELSE query[e]
  BY <1>1 DEF ClientsTypeOK
<1>3. ClientsTypeOK'
  BY <1>1, <1>2 DEF ClientsTypeOK
<1>4. VisitsKnown'
  BY <1>1 DEF VisitsKnown
<1>5. With({"completed"})' = With({"completed"})
  BY DEF With
<1>6. ASSUME NEW e \in Devices
      PROVE  QueryInv(query[e])'
  <2>1. QueryInv(query'[e])
    BY <1>1, <1>2
  <2> QED
    BY <2>1, <1>5 DEF QueryInv
<1> QED
  BY <1>3, <1>4, <1>6 DEF ClientsInv

LEMMA QueriesStep ==
    ASSUME ClientsInv, NEW d \in Devices,
           \/ \E c \in Clients, op \in {"note", "clear"} : NoteBegin(d, c, op)
           \/ SetNote(d) \/ ListClients(d) \/ ListNotes(d)
           \/ CountStatuses(d) \/ CountRepeats(d) \/ Answered(d)
    PROVE  ClientsInv'
<1>1. ClientsTypeOK /\ VisitsKnown /\ note \subseteq known /\ QueryInv(query[d]) /\ query[d] \in Query
  BY DEF ClientsInv, ClientsTypeOK
<1>2. NoQuery \in Query /\ QueryInv(NoQuery)
  BY QueryKinds DEF NoQuery, QueryInv
<1>3. \A c \in Clients : IsClient(c) => c \in known
  BY <1>1 DEF IsClient, VisitsOf, With, VisitsKnown
<1>4. ASSUME NEW c \in Clients, NEW op \in {"note", "clear"}, NoteBegin(d, c, op)
      PROVE  ClientsInv'
  <2> DEFINE new == [op |-> op, client |-> c]
  <2>1. new \in Query /\ new.op = op /\ new.client = c
    BY QueryKinds
  <2>2. query' = [query EXCEPT ![d] = new] /\ UNCHANGED <<appointment, note, rated, known>>
    BY <1>4 DEF NoteBegin, Send
  <2>3. c \in known
    BY <1>3, <1>4 DEF NoteBegin
  <2> HIDE DEF new
  <2>4. QueryInv(new)
    BY <2>1, <2>3 DEF QueryInv
  <2> QED
    BY <1>1, <2>1, <2>2, <2>4, AnswerStep
<1>5. CASE SetNote(d)
  <2>1. query[d].client \in known
    BY <1>1, <1>5 DEF SetNote, QueryInv
  <2>2. note' \subseteq known
    BY <1>1, <1>5, <2>1 DEF SetNote
  <2> QED
    BY <1>2, <1>5, <2>2, AnswerStep DEF SetNote, Answer
<1>6. CASE ListClients(d)
  <2> DEFINE rows == {c \in Clients : IsClient(c)}
             new == [op |-> "rows", rows |-> rows]
  <2>1. rows \in SUBSET Clients /\ rows \subseteq known
    BY <1>3
  <2>2. query' = [query EXCEPT ![d] = new] /\ UNCHANGED <<appointment, note, rated, known>>
    BY <1>6 DEF ListClients, Send
  <2> HIDE DEF rows
  <2>3. new \in Query /\ new.op = "rows" /\ new.rows = rows
    BY <2>1, QueryKinds
  <2> HIDE DEF new
  <2>4. QueryInv(new)
    BY <2>1, <2>3 DEF QueryInv
  <2> QED
    BY <1>1, <2>2, <2>3, <2>4, AnswerStep
<1>7. CASE ListNotes(d)
  <2> DEFINE rows == query[d].rows
             notes == note \cap rows
             new == [op |-> "list", rows |-> rows, notes |-> notes]
  <2>1. rows \in SUBSET Clients /\ rows \subseteq known
    BY <1>1, <1>7, QueryTypes DEF ListNotes, QueryInv
  <2>2. query' = [query EXCEPT ![d] = new] /\ UNCHANGED <<appointment, note, rated, known>>
    BY <1>7 DEF ListNotes, Answer
  <2>3. notes \in SUBSET Clients /\ notes \subseteq known
    BY <2>1
  <2> HIDE DEF rows, notes
  <2>4. new \in Query /\ new.op = "list" /\ new.rows = rows /\ new.notes = notes
    BY <2>1, <2>3, QueryKinds
  <2> HIDE DEF new
  <2>5. QueryInv(new)
    BY <2>1, <2>3, <2>4 DEF QueryInv
  <2> QED
    BY <1>1, <2>2, <2>4, <2>5, AnswerStep
<1>8. CASE CountStatuses(d)
  <2> DEFINE completed == Cardinality(With({"completed"}))
             new == [op |-> "counted", completed |-> completed, repeat |-> 0, since |-> {}]
  <2>1. completed \in 0..Cardinality(Visits) /\ 0 \in 0..Cardinality(Clients)
    BY <1>1, RepeatsAreBacked, ClientsAssumption, FS_CardinalityType
  <2>2. query' = [query EXCEPT ![d] = new] /\ UNCHANGED <<appointment, note, rated, known>>
    BY <1>8 DEF CountStatuses, Send
  <2>3. new.op = "counted" /\ new.completed = completed /\ new.since = {}
    OBVIOUS
  <2>4. Cardinality(With({"completed"}) \ {}) <= completed
    <3>1. With({"completed"}) \ {} = With({"completed"})
      OBVIOUS
    <3> QED
      BY <2>1, <3>1
  <2>5. new \in Query
    <3> HIDE DEF completed
    <3> QED
      BY <2>1, QueryKinds
  <2> HIDE DEF completed, new
  <2>6. QueryInv(new)
    BY <2>3, <2>4 DEF QueryInv
  <2> QED
    BY <1>1, <2>2, <2>5, <2>6, AnswerStep
<1>9. CASE CountRepeats(d)
  <2> DEFINE q == query[d]
             repeat == Cardinality(RepeatClients)
             new == [q EXCEPT !.op = "summary", !.repeat = repeat]
             V == With({"completed"})
  <2>1. /\ q.op = "counted" /\ q.completed \in 0..Cardinality(Visits) /\ q.since \subseteq Visits
        /\ q \in [op : {"counted", "summary"}, completed : 0..Cardinality(Visits),
                  repeat : 0..Cardinality(Clients), since : SUBSET Visits]
        /\ Cardinality(V \ q.since) <= q.completed
    BY <1>1, <1>9, QueryTypes DEF CountRepeats, QueryInv
  <2>2. query' = [query EXCEPT ![d] = new] /\ UNCHANGED <<appointment, note, rated, known>>
    BY <1>9 DEF CountRepeats, Answer
  <2>3. /\ 2 * repeat <= Cardinality(V) /\ repeat \in 0..Cardinality(Clients)
        /\ Cardinality(V) \in 0..Cardinality(Visits)
    BY <1>1, RepeatsAreBacked
  <2>4. /\ IsFiniteSet(V \ q.since) /\ IsFiniteSet(q.since)
        /\ Cardinality(V \ q.since) \in Nat /\ Cardinality(q.since) \in Nat
        /\ Cardinality(V) <= Cardinality(V \ q.since) + Cardinality(q.since)
    <3>1. IsFiniteSet(V \ q.since) /\ IsFiniteSet(q.since)
      <4>1. V \ q.since \in SUBSET Visits /\ q.since \in SUBSET Visits
        BY <2>1 DEF With
      <4> QED
        BY <4>1, ClientsAssumption, FS_Subset
    <3> DEFINE S == V \ q.since
               T == q.since
    <3>2. S \cap T = {} /\ V \in SUBSET (S \cup T)
      OBVIOUS
    <3>3. IsFiniteSet(S) /\ IsFiniteSet(T)
      BY <3>1
    <3> HIDE DEF S, T
    <3>4. /\ IsFiniteSet(S \cup T)
          /\ Cardinality(S \cup T) = Cardinality(S) + Cardinality(T) - Cardinality(S \cap T)
      BY <3>3, FS_Union
    <3>5. Cardinality(S \cap T) = 0
      BY <3>2, FS_EmptySet
    <3>6. Cardinality(V) <= Cardinality(S \cup T)
      BY <3>2, <3>4, FS_Subset
    <3>7. Cardinality(S) \in Nat /\ Cardinality(T) \in Nat
      BY <3>3, FS_CardinalityType
    <3> QED
      BY <3>3, <3>4, <3>5, <3>6, <3>7 DEF S, T
  <2>5. /\ new \in [op : {"counted", "summary"}, completed : 0..Cardinality(Visits),
                    repeat : 0..Cardinality(Clients), since : SUBSET Visits]
        /\ new.op = "summary" /\ new.completed = q.completed /\ new.repeat = repeat /\ new.since = q.since
    <3> HIDE DEF q, repeat
    <3> QED
      BY <2>1, <2>3
  <2>6. 2 * repeat <= q.completed + Cardinality(q.since)
    <3> HIDE DEF q, repeat, V
    <3>1. q.completed \in Nat /\ repeat \in Nat /\ Cardinality(V) \in Nat
      BY <2>1, <2>3, ClientsAssumption, FS_CardinalityType
    <3> QED
      BY <2>1, <2>3, <2>4, <3>1
  <2>7. new \in Query
    BY <2>5 DEF Query
  <2> HIDE DEF q, repeat, new
  <2>8. QueryInv(new)
    BY <2>5, <2>6 DEF QueryInv
  <2> QED
    BY <1>1, <2>2, <2>7, <2>8, AnswerStep
<1>10. CASE Answered(d)
  BY <1>1, <1>2, <1>10, AnswerStep DEF Answered, Answer
<1> QED
  BY <1>4, <1>5, <1>6, <1>7, <1>8, <1>9, <1>10

LEMMA BookStep ==
    ASSUME ClientsInv, NEW v \in Visits, NEW c \in Clients, BookVisit(v, c)
    PROVE  ClientsInv'
<1>1. ClientsTypeOK /\ VisitsKnown /\ note \subseteq known /\ \A e \in Devices : QueryInv(query[e])
  BY DEF ClientsInv
<1>2. /\ appointment[v].status = "none" /\ UNCHANGED <<note, rated, query, known>>
      /\ appointment' = [appointment EXCEPT ![v] = [client |-> c, status |-> "pending"]]
  BY DEF BookVisit
<1>3. \A u \in Visits : appointment'[u] = IF u = v THEN [client |-> c, status |-> "pending"] ELSE appointment[u]
  BY <1>1, <1>2 DEF ClientsTypeOK
<1>4. ClientsTypeOK'
  BY <1>1, <1>2 DEF ClientsTypeOK, VisitStatuses
<1>5. VisitsKnown'
  BY <1>1, <1>2, <1>3 DEF VisitsKnown, CLIENT_STATUSES, ClientsTypeOK
<1>6. With({"completed"})' = With({"completed"})
  BY <1>2, <1>3 DEF With
<1>7. ASSUME NEW e \in Devices
      PROVE  QueryInv(query[e])'
  BY <1>1, <1>2, <1>6 DEF QueryInv
<1> QED
  BY <1>1, <1>2, <1>4, <1>5, <1>7 DEF ClientsInv

LEMMA RateStep ==
    ASSUME ClientsInv, NEW v \in Visits, RateCustomer(v)
    PROVE  ClientsInv'
<1>1. ClientsTypeOK /\ VisitsKnown /\ note \subseteq known /\ \A e \in Devices : QueryInv(query[e])
  BY DEF ClientsInv
<1>2. /\ appointment[v].status = "completed" /\ rated' = rated \cup {v}
      /\ UNCHANGED <<appointment, note, query, known>>
  BY DEF RateCustomer
<1>3. ClientsTypeOK'
  BY <1>1, <1>2 DEF ClientsTypeOK
<1>4. VisitsKnown'
  BY <1>1, <1>2 DEF VisitsKnown, CLIENT_STATUSES
<1>5. With({"completed"})' = With({"completed"})
  BY <1>2 DEF With
<1>6. ASSUME NEW e \in Devices
      PROVE  QueryInv(query[e])'
  BY <1>1, <1>2, <1>5 DEF QueryInv
<1> QED
  BY <1>1, <1>2, <1>3, <1>4, <1>6 DEF ClientsInv

LEMMA MoveStep ==
    ASSUME ClientsInv, NEW v \in Visits, NEW status \in VisitStatuses, VisitMoves(v, status)
    PROVE  ClientsInv'
<1>1. ClientsTypeOK /\ VisitsKnown /\ note \subseteq known /\ \A e \in Devices : QueryInv(query[e])
  BY DEF ClientsInv
<1> DEFINE client == appointment[v].client
<1>2. /\ appointment' = [appointment EXCEPT ![v].status = status] /\ status # "none"
      /\ known' = known \cup (IF status \in CLIENT_STATUSES THEN {client} ELSE {})
      /\ query' = [d \in Devices |-> IF query[d].op = "counted" /\ status = "completed"
                                     THEN [query[d] EXCEPT !.since = query[d].since \cup {v}] ELSE query[d]]
      /\ UNCHANGED <<note, rated>>
  BY DEF VisitMoves
<1>3. \A u \in Visits : /\ appointment'[u].client = appointment[u].client
                        /\ appointment'[u].status = IF u = v THEN status ELSE appointment[u].status
  BY <1>1, <1>2 DEF ClientsTypeOK
<1>4. client \in Clients /\ known \subseteq known'
  BY <1>1, <1>2 DEF ClientsTypeOK
<1>5. appointment' \in [Visits -> [client : Clients, status : VisitStatuses]]
  BY <1>1, <1>2 DEF ClientsTypeOK
<1>6. VisitsKnown'
  <2>1. ASSUME NEW u \in Visits, appointment'[u].status \in CLIENT_STATUSES
        PROVE  appointment'[u].client \in known'
    BY <1>1, <1>2, <1>3, <1>4, <2>1 DEF VisitsKnown
  <2>2. ASSUME NEW u \in rated
        PROVE  appointment'[u].status # "none" /\ appointment'[u].client \in known'
    <3>1. u \in Visits
      BY <1>1 DEF ClientsTypeOK
    <3> QED
      BY <1>1, <1>2, <1>3, <1>4, <3>1 DEF VisitsKnown
  <2> QED
    BY <1>2, <2>1, <2>2 DEF VisitsKnown
<1>7. ASSUME NEW e \in Devices
      PROVE  query'[e] \in Query /\ QueryInv(query[e])'
  <2> DEFINE q == query[e]
  <2>1. q \in Query /\ QueryInv(q)
    BY <1>1 DEF ClientsTypeOK
  <2>2. q.op = "counted" => /\ q.completed \in 0..Cardinality(Visits) /\ q.since \subseteq Visits
                            /\ q \in [op : {"counted", "summary"}, completed : 0..Cardinality(Visits),
                                      repeat : 0..Cardinality(Clients), since : SUBSET Visits]
    BY <2>1, QueryTypes
  <2>3. CASE q.op # "counted"
    <3>1. query'[e] = q
      BY <1>2, <2>3
    <3> QED
      BY <2>1, <2>3, <3>1, <1>4 DEF QueryInv
  <2>4. CASE q.op = "counted"
    <3>1. /\ query'[e] \in Query /\ query'[e].op = "counted" /\ query'[e].completed = q.completed
          /\ query'[e].since = IF status = "completed" THEN q.since \cup {v} ELSE q.since
      <4> DEFINE new == [q EXCEPT !.since = q.since \cup {v}]
                 summary == [op : {"counted", "summary"}, completed : 0..Cardinality(Visits),
                             repeat : 0..Cardinality(Clients), since : SUBSET Visits]
      <4>1. /\ new \in summary /\ new.op = "counted" /\ new.completed = q.completed
            /\ new.since = q.since \cup {v}
        <5> HIDE DEF q
        <5> QED
          BY <2>2, <2>4
      <4>2. query'[e] = IF status = "completed" THEN new ELSE q
        BY <1>2, <2>4
      <4>3. new \in Query
        BY <4>1 DEF Query
      <4> HIDE DEF new, summary
      <4> QED
        BY <2>1, <2>4, <4>1, <4>2, <4>3
    <3>2. With({"completed"})' \ query'[e].since \in SUBSET (With({"completed"}) \ q.since)
      BY <1>3, <3>1 DEF With
    <3>3. With({"completed"}) \ q.since \in SUBSET Visits
      BY DEF With
    <3>4. /\ Cardinality(With({"completed"})' \ query'[e].since) <= Cardinality(With({"completed"}) \ q.since)
          /\ Cardinality(With({"completed"})' \ query'[e].since) \in Nat
          /\ Cardinality(With({"completed"}) \ q.since) \in Nat
      BY <3>2, <3>3, ClientsAssumption, FS_Subset, FS_CardinalityType
    <3>5. Cardinality(With({"completed"}) \ q.since) <= q.completed
      BY <2>1, <2>4 DEF QueryInv
    <3>6. q.completed \in Nat
      BY <2>2, <2>4, ClientsAssumption, FS_CardinalityType
    <3>7. Cardinality(With({"completed"})' \ query'[e].since) <= query'[e].completed
      BY <3>1, <3>4, <3>5, <3>6
    <3> QED
      BY <3>1, <3>7 DEF QueryInv
  <2> QED
    BY <2>3, <2>4
<1>8. query' \in [Devices -> Query]
  BY <1>2, <1>7
<1>9. ClientsTypeOK'
  BY <1>1, <1>2, <1>4, <1>5, <1>8 DEF ClientsTypeOK
<1> QED
  BY <1>1, <1>2, <1>4, <1>6, <1>7, <1>9 DEF ClientsInv

LEMMA ClientsStep ==
    ASSUME ClientsInv, ClientsNext
    PROVE  ClientsInv'
BY BookStep, MoveStep, RateStep, QueriesStep DEF ClientsNext

LEMMA ClientsRest ==
    ASSUME ClientsInv, UNCHANGED clientVars
    PROVE  ClientsInv'
BY DEF ClientsInv, ClientsTypeOK, VisitsKnown, QueryInv, With, clientVars
-----------------------------------------------------------------------------
(* The desk: a step works on one part, and the others rest.                *)
LEMMA CatalogueRests ==
    ASSUME CatalogueInv, UNCHANGED catalogueVars
    PROVE  CatalogueInv'
<1>1. UNCHANGED <<package, addon, offering, speciality, area, item, payout, brand, ask, work>>
  BY DEF catalogueVars
<1>2. FairAreas' /\ FairWork' /\ AsksInv' /\ work' \in [Workers -> Work]
  BY <1>1, WorkRests
<1> QED
  BY <1>1, <1>2 DEF CatalogueInv, CatalogueTypeOK

LEMMA DeskStep == DeskInv /\ [DeskNext]_deskVars => DeskInv'
<1> SUFFICES ASSUME DeskInv, [DeskNext]_deskVars PROVE DeskInv'
  OBVIOUS
<1>1. CatalogueInv /\ ReviewInv /\ ClientsInv
  BY DEF DeskInv
<1>2. CASE UNCHANGED deskVars
  BY <1>1, <1>2, CatalogueRests, ReviewRests, ClientsRest DEF deskVars, DeskInv
<1>3. CASE DeskNext
  <2>1. CatalogueInv'
    <3>1. \/ PackagesNext /\ UNCHANGED <<offering, speciality, area, item, payout, brand, ask>>
          \/ ServicesNext /\ UNCHANGED <<package, addon, area, item, payout, brand, ask>>
          \/ AreasNext /\ UNCHANGED <<package, addon, offering, speciality, item, payout, brand, ask>>
          \/ PortfolioNext /\ UNCHANGED <<package, addon, offering, speciality, area, payout, brand, ask>>
          \/ PayoutNext /\ UNCHANGED <<package, addon, offering, speciality, area, item, brand, ask, work>>
          \/ BrandsNext /\ UNCHANGED <<package, addon, offering, speciality, area, item, payout>>
          \/ UNCHANGED catalogueVars
      BY <1>3 DEF DeskNext, WorkOn
    <3> QED
      BY <1>1, <3>1, PackagesStep, ServicesStep, AreasStep, PortfolioStep, PayoutStep, BrandsStep,
         CatalogueRests
  <2>2. ReviewInv'
    <3>1. ReviewNext \/ UNCHANGED reviewVars
      BY <1>3 DEF DeskNext, WorkOn, Rest
    <3> QED
      BY <1>1, <3>1, ReviewStep, ReviewRests
  <2>3. ClientsInv'
    <3>1. ClientsNext \/ UNCHANGED clientVars
      BY <1>3 DEF DeskNext, WorkOn, Rest
    <3> QED
      BY <1>1, <3>1, ClientsStep, ClientsRest
  <2> QED
    BY <2>1, <2>2, <2>3 DEF DeskInv
<1> QED
  BY <1>2, <1>3

(* In every reachable state the rows of the desk, and the rows and figures *)
(* its handlers have read, satisfy the inductive invariant: the statements *)
(* below follow from it.                                                   *)
THEOREM DeskInvariance == DeskSpec => []DeskInv
<1>1. DeskInit => DeskInv
  BY DeskStarts, ReviewStarts, ClientsStart DEF DeskInit, DeskInv
<1>2. DeskInv /\ [DeskNext]_deskVars => DeskInv'
  BY DeskStep
<1> QED
  BY <1>1, <1>2, PTL DEF DeskSpec
-----------------------------------------------------------------------------
(* ServiceAreaView and the tables of the artist: rows keep their types, an *)
(* area is free or has a charge, and a city is served once, whatever forms *)
(* were loaded before.                                                     *)
THEOREM DeskIsSound == DeskSpec => []DeskSound
<1>1. DeskInv => DeskSound
  <2> SUFFICES ASSUME DeskInv PROVE DeskSound
    OBVIOUS
  <2>1. CatalogueTypeOK /\ FairAreas /\ ReviewTypeOK /\ ClientsTypeOK
    BY DEF DeskInv, CatalogueInv, ReviewInv, ClientsInv
  <2>2. AreasConsistent
    BY <2>1 DEF AreasConsistent, FairAreas, FairCharge, Live, city_exists, CatalogueTypeOK
  <2> QED
    BY <2>1, <2>2 DEF DeskSound
<1> QED
  BY <1>1, DeskInvariance, PTL

(* approve_extract: an artist is approved or suspended only after an ID    *)
(* proof and the artist have been approved by an administrator, although   *)
(* forms save profiles they loaded before and documents come and go.       *)
THEOREM ApprovalIsEarned == DeskSpec => []ApprovedOnceVerified
<1>1. DeskInv => ApprovedOnceVerified
  BY DEF DeskInv, ReviewInv, ProfilesInv, Honest, ApprovedOnceVerified
<1> QED
  BY <1>1, DeskInvariance, PTL

(* submit_for_review: a submitted profile is before the administrators or  *)
(* accepted, in every order of resubmission, decision and stale save.      *)
THEOREM SubmissionsAreSeen == DeskSpec => []SubmissionVisible
<1>1. DeskInv => SubmissionVisible
  BY DEF DeskInv, ReviewInv, ReviewTypeOK, Profile, ApprovalStatuses, ProfilesInv, Honest,
         SubmissionVisible, get_review_queue, _compute_status
<1> QED
  BY <1>1, DeskInvariance, PTL

(* ReviewView and ArtistInsightsView: ratings, notes, client lists and the *)
(* figures of the summary have completed bookings behind them, also when   *)
(* the bookings change between the queries.                                *)
THEOREM FiguresAreHonest == DeskSpec => []FiguresHonest
<1>1. DeskInv => FiguresHonest
  <2> SUFFICES ASSUME DeskInv PROVE FiguresHonest
    OBVIOUS
  <2>1. RatingsBacked
    BY DEF DeskInv, ReviewInv, ProfilesInv, Honest, Posted, RatingsBacked
  <2>2. ClientsHonest
    BY DEF DeskInv, ClientsInv, VisitsKnown, QueryInv, ClientsHonest
  <2> QED
    BY <2>1, <2>2 DEF FiguresHonest
<1> QED
  BY <1>1, DeskInvariance, PTL
-----------------------------------------------------------------------------
(* A decision on a brand request ends it, and nothing else writes to it.   *)
LEMMA AsksDecidedOnce ==
    ASSUME CatalogueInv, BrandsNext, NEW q \in BrandRequests, ask[q].status # "pending"
    PROVE  ask'[q] = ask[q]
<1>1. CatalogueTypeOK /\ AsksInv
  BY DEF CatalogueInv
<1>2. ASSUME NEW w \in Workers, SaveAsk(w)
      PROVE  ask'[q] = ask[q]
  <2>1. work[w].id # q
    BY <1>1, <1>2 DEF SaveAsk, AsksInv
  <2> QED
    BY <1>1, <1>2, <2>1 DEF SaveAsk, CatalogueTypeOK
<1>3. ASSUME NEW w \in Workers, Decide(w)
      PROVE  ask'[q] = ask[q]
  <2>1. work[w].id # q
    BY <1>1, <1>3 DEF Decide, AsksInv
  <2> QED
    BY <1>1, <1>3, <2>1 DEF Decide, CatalogueTypeOK
<1> QED
  BY <1>2, <1>3 DEF BrandsNext, SaveBrand, CreateBrandBegin, UpdateBrandBegin, AskBrandBegin, DecideBegin

LEMMA DocumentsDecidedOnce ==
    ASSUME ReviewInv, ReviewNext, NEW d \in Documents, document[d].status # "pending"
    PROVE  document'[d].status = document[d].status
<1>1. ReviewTypeOK /\ DocumentsInv
  BY DEF ReviewInv
<1>2. ASSUME NEW r \in Requests, Upload(r)
      PROVE  document'[d].status = document[d].status
  <2>1. job[r].id # d
    BY <1>1, <1>2 DEF Upload, DocumentsInv
  <2>2. document'[d] = IF d \in job[r].old THEN [document[d] EXCEPT !.stored = FALSE] ELSE document[d]
    BY <1>2, <2>1 DEF Upload
  <2>3. document[d] \in Document
    BY <1>1 DEF ReviewTypeOK
  <2> QED
    BY <2>2, <2>3 DEF Document
<1>3. ASSUME NEW r \in Requests, NEW decision \in {"approved", "rejected"}, VerifyDocument(r, decision)
      PROVE  document'[d].status = document[d].status
  <2>1. job[r].id # d
    BY <1>1, <1>3 DEF VerifyDocument, DocumentsInv
  <2> QED
    BY <1>1, <1>3, <2>1 DEF VerifyDocument, ReviewTypeOK
<1>4. ASSUME NEW e \in Documents, DeleteDocument(e)
      PROVE  document'[d].status = document[d].status
  BY <1>1, <1>4 DEF DeleteDocument, ReviewTypeOK, Document
<1> QED
  BY <1>2, <1>3, <1>4 DEF ReviewNext, AcceptAgreement, OtherSteps, Suspend, Reinstate, LoadProfile, SaveProfile,
     SubmitBegin, submit_for_review, ApproveBegin, approve, RejectBegin, reject, record_review, VerifyBegin,
     UploadBegin, ReviewBegin

(* decide_extract and verify_extract: a brand request or a document is     *)
(* decided once and stays decided, however many administrators have it     *)
(* open, because the row is locked from the test of its status on.         *)
THEOREM DecisionsStand == DeskSpec => DecidedOnce
<1>1. DeskInv /\ [DeskNext]_deskVars =>
         [/\ \A q \in BrandRequests : ask[q].status # "pending" => ask'[q] = ask[q]
          /\ \A d \in Documents : document[d].status # "pending" => document'[d].status = document[d].status
         ]_deskVars
  <2> SUFFICES ASSUME DeskInv, DeskNext
               PROVE  /\ \A q \in BrandRequests : ask[q].status # "pending" => ask'[q] = ask[q]
                      /\ \A d \in Documents : document[d].status # "pending"
                                              => document'[d].status = document[d].status
    OBVIOUS
  <2>1. CatalogueInv /\ ReviewInv
    BY DEF DeskInv
  <2>2. BrandsNext \/ UNCHANGED ask
    BY DEF DeskNext, WorkOn, catalogueVars, ServicesNext
  <2>3. ReviewNext \/ UNCHANGED document
    BY DEF DeskNext, WorkOn, Rest, reviewVars
  <2> QED
    BY <2>1, <2>2, <2>3, AsksDecidedOnce, DocumentsDecidedOnce
<1> QED
  BY <1>1, DeskInvariance, PTL DEF DeskSpec, DecidedOnce
=============================================================================
