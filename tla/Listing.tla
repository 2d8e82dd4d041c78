------------------------------ MODULE Listing -------------------------------
(***************************************************************************)
(* The lists of the API.  Every request runs its query again, cuts the     *)
(* page it wants out of the result and links the next one, so a client     *)
(* that follows the links reads rows that come, go and move meanwhile.     *)
(* What a listing is comes down to three things: the orders it may be      *)
(* asked for, whether its query keeps only some of the rows (those of the  *)
(* caller, an artist, a conversation, a status) and whether it is cut into *)
(* pages.  A row has the time it was created, one column a list can be     *)
(* sorted by, and an id.                                                   *)
(***************************************************************************)
EXTENDS Integers, FiniteSets, SequencesExt

CONSTANTS
    MaxRows,        \* bound: rows of the table
    PageRows,       \* limit, rows on a page
    LastTick,       \* bound of the clock
    Values,         \* of the sortable column
    MaxShifts       \* bound: rows that leave or move during a walk

ASSUME ListingAssumption ==
    /\ {MaxRows, PageRows} \subseteq Nat \ {0} /\ {LastTick, MaxShifts} \subseteq Nat
    /\ Values \subseteq Nat /\ Values # {}

VARIABLES
    table,          \* the rows
    tick,           \* the clock
    walk            \* a client following the links of one listing

listingVars == <<table, tick, walk>>
-----------------------------------------------------------------------------
(* Orders: a sequence of columns, each rising or falling.                  *)
Asc(column) == [by |-> column, falling |-> FALSE]
Desc(column) == [by |-> column, falling |-> TRUE]
Either(column) == {Asc(column), Desc(column)}

(* sort_by as reverse_mapper knows it, or the default order.               *)
Sorted(default) == {default} \cup {<<o>> : o \in Either("created") \cup Either("value")}
Always(order) == {order}

CustomerAddress_get_all == Sorted(<<>>)
ArtistDocument_get_all == Sorted(<<>>)
PricingPackage_get_all == Sorted(<<>>)
ArtistProfile_get_review_queue == Sorted(<<>>)
ServiceSubCategory_get_all == Sorted(<<>>)
ServiceCategory_get_all == Sorted(<<>>)
LocationType_get_all == Sorted(<<>>)
Booking_get_all == Sorted(<<Desc("created")>>)
Review_get_all == Sorted(<<Desc("created")>>)
CoinTransaction_get_all == Sorted(<<Desc("created")>>)
Notification_get_all == Sorted(<<Desc("created")>>)
Payment_get_all == Sorted(<<Desc("created")>>)
SupportConversation_get_all == Sorted(<<Desc("created")>>)
BookingReschedule_get_all == Sorted(<<Desc("created"), Desc("id")>>)
PackageAddOn_get_all == Sorted(<<Asc("id")>>)
Portfolio_get_all == Sorted(<<Asc("value"), Asc("id")>>)
ArtistReviewFeedback_get_all == {<<o, p>> : o \in Either("created"), p \in Either("id")}
Message_get_all == {<<o, Asc("id")>> : o \in Either("created")}
SupportMessage_get_all == {<<o, Asc("id")>> : o \in Either("created")}
ArtistServiceOffering_get_all == Always(<<>>)
ArtistLocationPreference_get_all == Always(<<>>)
ArtistSpeciality_get_all == Always(<<Asc("id")>>)    \* an artist has a sub-category once
ArtistServiceArea_get_all == Always(<<Asc("id")>>)
ArtistAvailabilityBlock_get_all == Always(<<>>)
ArtistAvailabilitySchedule_get_all == Always(<<>>)
-----------------------------------------------------------------------------
(* Views: Of keeps the rows of the caller, an artist, a conversation or a  *)
(* status; Every keeps all; Whole is not cut into pages.                   *)
Of(orders) == [order : orders, some : {TRUE}, paged : {TRUE}]
Every(orders) == [order : orders, some : {FALSE}, paged : {TRUE}]
Whole(orders) == [order : orders, some : {TRUE}, paged : {FALSE}]

CustomerAddresses == Of(CustomerAddress_get_all)
CustomerBookings == Of(Booking_get_all)
CustomerReviews == Of(Review_get_all)           \* of the artist asked for
CustomerPayments == Of(Payment_get_all)
CustomerCoins == Of(CoinTransaction_get_all)
Reschedules == Of(BookingReschedule_get_all)    \* of either side
Notifications == Of(Notification_get_all)
ChatMessages == Of(Message_get_all)
ArtistBookings == Of(Booking_get_all)
ArtistReviews == Of(Review_get_all)
ArtistClients == Of({<<o, Asc("id")>> : o \in Either("value")})
ArtistCustomerReviews == Of(Always(<<Desc("created"), Desc("id")>>))
ArtistDocuments == Of(ArtistDocument_get_all)
ArtistPackages == Of(PricingPackage_get_all)    \* a visitor sees the active ones
ArtistAddOns == Of(PackageAddOn_get_all)
ArtistPortfolio == Of(Portfolio_get_all)
ArtistBrandRequests == Of(Always(<<Desc("created"), Desc("id")>>))
ArtistFeedback == Of(ArtistReviewFeedback_get_all)
ArtistServices == Whole(ArtistServiceOffering_get_all)
ArtistLocations == Whole(ArtistLocationPreference_get_all)
ArtistSpecialities == Whole(ArtistSpeciality_get_all)
ArtistServiceAreas == Whole(ArtistServiceArea_get_all)
ArtistSchedules == Whole(ArtistAvailabilitySchedule_get_all)
ArtistBlocks == Whole(ArtistAvailabilityBlock_get_all)
AdminReviewQueue == Of(ArtistProfile_get_review_queue)
AdminDocuments == Whole(Always(<<Desc("created")>>))
AdminBrandRequests == Every(Always(<<Asc("created"), Asc("id")>>))
AdminConversations == Every(SupportConversation_get_all)
AdminMessages == Of(SupportMessage_get_all)
AdminTickets == Every(Always(<<Asc("created"), Asc("id")>>))
SupportMessages == Of(SupportMessage_get_all)
OwnTickets == Of({<<o, Desc("id")>> : o \in Either("created")})
ServiceCategories == Every(ServiceCategory_get_all)
ServiceSubCategories == Every(ServiceSubCategory_get_all)
LocationTypes == Every(LocationType_get_all)
Brands == Of(Always(<<Asc("value"), Asc("id")>>))   \* a name, which no two brands share

Listings ==
    UNION {CustomerAddresses, CustomerBookings, CustomerReviews, CustomerPayments, CustomerCoins,
           Reschedules, Notifications, ChatMessages, ArtistBookings, ArtistReviews, ArtistClients,
           ArtistCustomerReviews, ArtistDocuments, ArtistPackages, ArtistAddOns, ArtistPortfolio,
           ArtistBrandRequests, ArtistFeedback, ArtistServices, ArtistLocations, ArtistSpecialities,
           ArtistServiceAreas, ArtistSchedules, ArtistBlocks, AdminReviewQueue, AdminDocuments, AdminBrandRequests,
           AdminConversations, AdminMessages, AdminTickets, SupportMessages, OwnTickets,
           ServiceCategories, ServiceSubCategories, LocationTypes, Brands}
-----------------------------------------------------------------------------
Ids == 1..MaxRows
TableRow == [state : {"new", "live", "gone"}, created : 0..LastTick, value : Values, some : BOOLEAN]
NoWalk == [step |-> "none"]
Walk == {NoWalk} \cup
    [step : {"open", "ended"}, listing : Listings, page : Nat, must : SUBSET Ids,
     seen : SUBSET Ids, shifts : Nat, tied : BOOLEAN]

Selected(rows, listing) == {r \in Ids : rows[r].state = "live" /\ (listing.some => rows[r].some)}

Cell(rows, r, column) ==
    CASE column = "created" -> rows[r].created [] column = "value" -> rows[r].value [] column = "id" -> r

(* ORDER BY: r goes before s.                                              *)
Ahead(r, s, order) ==
    \E i \in DOMAIN order :
        /\ \A j \in 1..i - 1 : Cell(table, r, order[j].by) = Cell(table, s, order[j].by)
        /\ IF order[i].falling THEN Cell(table, r, order[i].by) > Cell(table, s, order[i].by)
                               ELSE Cell(table, r, order[i].by) < Cell(table, s, order[i].by)

(* Rows the order does not tell apart come in any order, request by request. *)
Results(listing) ==
    {result \in SetToSeqs(Selected(table, listing)) :
        \A i, j \in DOMAIN result : i < j => ~Ahead(result[j], result[i], listing.order)}

Tied(listing) ==
    \E r, s \in Selected(table, listing) : r # s /\ ~Ahead(r, s, listing.order) /\ ~Ahead(s, r, listing.order)

RowsOn(listing) == IF listing.paged THEN PageRows ELSE MaxRows
num_pages(listing) ==           \* an empty list has one page
    LET n == Cardinality(Selected(table, listing)) + RowsOn(listing) - 1
    IN IF n < RowsOn(listing) THEN 1 ELSE n \div RowsOn(listing)

PageOf(result, listing, page) ==
    {result[i] : i \in {k \in DOMAIN result :
        RowsOn(listing) * (page - 1) < k /\ k <= RowsOn(listing) * page}}

(* Mutant: the link to the last page is missing.                           *)
HasNextShort(page, total) == total > 1 /\ page + 1 < total

(* add_page_parameter: the link to the next page.                          *)
HasNext(page, total) == total > 1 /\ page < total

(* One request; past the last page it is refused.                          *)
ReadPage(w) ==
    \E result \in Results(w.listing) :
        LET total == num_pages(w.listing)
            goes_on == w.page <= total /\ HasNext(w.page, total)
        IN walk' = [w EXCEPT !.seen = @ \cup PageOf(result, w.listing, w.page),
                             !.tied = @ \/ Tied(w.listing),
                             !.step = IF goes_on THEN "open" ELSE "ended",
                             !.page = IF goes_on THEN @ + 1 ELSE @]

OpenList(listing) ==
    /\ walk = NoWalk
    /\ ReadPage([step |-> "open", listing |-> listing, page |-> 1, must |-> Selected(table, listing),
                 seen |-> {}, shifts |-> 0, tied |-> FALSE])
    /\ UNCHANGED <<table, tick>>

FollowNext ==
    /\ walk.step = "open" /\ ReadPage(walk)
    /\ UNCHANGED <<table, tick>>

(* The rows a change takes out of the walked listing or moves in it.       *)
Shifted(rows) ==
    {r \in Selected(table, walk.listing) :
        \/ r \notin Selected(rows, walk.listing)
        \/ \E i \in DOMAIN walk.listing.order :
              LET column == walk.listing.order[i].by IN Cell(rows, r, column) # Cell(table, r, column)}

(* A change of the table while somebody walks it.                          *)
Writes(rows) ==
    /\ walk.step = "open" /\ walk.shifts + Cardinality(Shifted(rows)) <= MaxShifts
    /\ table' = rows
    /\ walk' = [walk EXCEPT !.must = @ \ Shifted(rows), !.shifts = @ + Cardinality(Shifted(rows))]
    /\ UNCHANGED tick

Inserted(r, value, some) ==
    [table EXCEPT ![r] = [state |-> "live", created |-> tick, value |-> value, some |-> some]]

InsertRow(r, value, some) ==
    /\ table[r].state = "new" /\ \A s \in 1..r - 1 : table[s].state # "new"
    /\ \/ Writes(Inserted(r, value, some))
       \/ walk = NoWalk /\ table' = Inserted(r, value, some) /\ UNCHANGED <<tick, walk>>

(* Before a walk, rows that go or change leave tables that inserts alone   *)
(* can fill.                                                               *)
DeleteRow(r) ==
    /\ table[r].state = "live"
    /\ Writes([table EXCEPT ![r].state = "gone"])

EditRow(r, value, some) ==      \* also its status, which the listing may ask for
    /\ table[r].state = "live" /\ <<value, some>> # <<table[r].value, table[r].some>>
    /\ Writes([table EXCEPT ![r].value = value, ![r].some = some])

Elapse ==
    /\ tick < LastTick /\ walk.step # "ended"
    /\ tick' = tick + 1
    /\ UNCHANGED <<table, walk>>

ListingInit ==
    /\ table = [r \in Ids |-> [state |-> "new", created |-> 0, value |-> CHOOSE v \in Values : TRUE, some |-> FALSE]]
    /\ tick = 0 /\ walk = NoWalk

ListingNext ==
    \/ Elapse \/ FollowNext
    \/ \E listing \in Listings : OpenList(listing)
    \/ \E r \in Ids :
          \/ DeleteRow(r)
          \/ \E value \in Values, some \in BOOLEAN : InsertRow(r, value, some) \/ EditRow(r, value, some)
-----------------------------------------------------------------------------
ListingTypeOK == table \in [Ids -> TableRow] /\ tick \in 0..LastTick /\ walk \in Walk

(* add_page_parameter and the get_all views: a client that follows the     *)
(* links to the end misses at most one row for every row that left the     *)
(* listing or moved in it meanwhile, whatever is added, in every listing   *)
(* and order that tells its rows apart.                                    *)
WalkMissesFew ==
    walk.step = "ended" /\ ~walk.tied => Cardinality(walk.must \ walk.seen) <= walk.shifts
=============================================================================
