----------------------------- MODULE ClientBook -----------------------------
(***************************************************************************)
(* What an artist keeps and reads about the customers: private notes,      *)
(* ratings of completed bookings, the list of clients and the summary of   *)
(* the business.  All are derived from bookings that go on changing; the   *)
(* list and the summary are put together from several queries.             *)
(***************************************************************************)
EXTENDS Integers, FiniteSets

CONSTANTS
    Visits,         \* bookings of the artist
    Clients,        \* customers
    Devices         \* requests of the artist that can be in flight

ASSUME ClientsAssumption == IsFiniteSet(Visits) /\ IsFiniteSet(Clients) /\ Clients # {}

VARIABLES
    appointment,    \* customer and status of each booking
    note,           \* customers with a row of ArtistClientNote
    rated,          \* bookings with a row of CustomerReview
    query,          \* the requests in flight
    known           \* history: customers who have been clients

clientVars == <<appointment, note, rated, query, known>>
-----------------------------------------------------------------------------
VisitStatuses == {"none", "pending", "confirmed", "in_progress", "completed", "cancelled", "no_show"}
CLIENT_STATUSES == {"confirmed", "in_progress", "completed"}
Ended == {"completed", "cancelled", "no_show"}

NoQuery == [op |-> "none"]
Query == {NoQuery}
    \cup [op : {"note", "clear"}, client : Clients]
    \cup [op : {"rows"}, rows : SUBSET Clients]
    \cup [op : {"list"}, rows : SUBSET Clients, notes : SUBSET Clients]
    \cup [op : {"counted", "summary"}, completed : 0..Cardinality(Visits), repeat : 0..Cardinality(Clients),
          since : SUBSET Visits]

With(statuses) == {v \in Visits : appointment[v].status \in statuses}
VisitsOf(c, statuses) == {v \in With(statuses) : appointment[v].client = c}
IsClient(c) == VisitsOf(c, CLIENT_STATUSES) # {}

Send(d, new) == query[d] = NoQuery /\ query' = [query EXCEPT ![d] = new]
Answer(d, new) == query' = [query EXCEPT ![d] = new]
-----------------------------------------------------------------------------
(* Bookings come and go as in BookingLifecycle; a stale row saved whole or *)
(* a late sweep also changes one that has ended.                           *)
BookVisit(v, c) ==
    /\ appointment[v].status = "none"
    /\ appointment' = [appointment EXCEPT ![v] = [client |-> c, status |-> "pending"]]
    /\ UNCHANGED <<note, rated, query, known>>

VisitMoves(v, status) ==
    /\ \/ appointment[v].status = "pending" /\ status \in {"confirmed", "cancelled", "no_show"}
       \/ appointment[v].status = "confirmed" /\ status \in {"in_progress", "cancelled", "no_show"}
       \/ appointment[v].status = "in_progress" /\ status \in {"completed", "no_show"}
       \/ appointment[v].status \in Ended /\ status \in {"confirmed", "in_progress", "no_show"}
    /\ appointment' = [appointment EXCEPT ![v].status = status]
    /\ known' = known \cup (IF status \in CLIENT_STATUSES THEN {appointment[v].client} ELSE {})
    /\ query' = [d \in Devices |-> IF query[d].op = "counted" /\ status = "completed"
                                   THEN [query[d] EXCEPT !.since = @ \cup {v}] ELSE query[d]]
    /\ UNCHANGED <<note, rated>>
-----------------------------------------------------------------------------
(* set_note_extract: the customer is a client when it is looked up; an     *)
(* empty note deletes the row.                                             *)
NoteBegin(d, c, op) ==
    /\ IsClient(c)
    /\ Send(d, [op |-> op, client |-> c])
    /\ UNCHANGED <<appointment, note, rated, known>>

SetNote(d) ==
    /\ query[d].op \in {"note", "clear"}
    /\ note' = IF query[d].op = "note" THEN note \cup {query[d].client} ELSE note \ {query[d].client}
    /\ Answer(d, NoQuery) /\ UNCHANGED <<appointment, rated, known>>

(* ArtistCustomerReviewView.create_extract, under the booking's row lock.  *)
RateCustomer(v) ==
    /\ appointment[v].status = "completed" /\ v \notin rated
    /\ rated' = rated \cup {v}
    /\ UNCHANGED <<appointment, note, query, known>>

(* get_all_extract: the clients, and then the notes of those on the page.  *)
ListClients(d) ==
    /\ Send(d, [op |-> "rows", rows |-> {c \in Clients : IsClient(c)}])
    /\ UNCHANGED <<appointment, note, rated, known>>

ListNotes(d) ==
    /\ query[d].op = "rows"
    /\ Answer(d, [op |-> "list", rows |-> query[d].rows, notes |-> note \cap query[d].rows])
    /\ UNCHANGED <<appointment, note, rated, known>>

(* ArtistInsightsView.summary_extract: the bookings by status, and then    *)
(* the customers with two that are completed.                              *)
CountStatuses(d) ==
    /\ Send(d, [op |-> "counted", completed |-> Cardinality(With({"completed"})), repeat |-> 0, since |-> {}])
    /\ UNCHANGED <<appointment, note, rated, known>>

(* Mutant: bookings of any status make a customer a repeat client.         *)
RepeatBooked == {c \in Clients : Cardinality(VisitsOf(c, CLIENT_STATUSES)) >= 2}

RepeatClients == {c \in Clients : Cardinality(VisitsOf(c, {"completed"})) >= 2}

CountRepeats(d) ==
    /\ query[d].op = "counted"
    /\ Answer(d, [query[d] EXCEPT !.op = "summary", !.repeat = Cardinality(RepeatClients)])
    /\ UNCHANGED <<appointment, note, rated, known>>

Answered(d) ==
    /\ query[d].op \in {"list", "summary"}
    /\ Answer(d, NoQuery) /\ UNCHANGED <<appointment, note, rated, known>>
-----------------------------------------------------------------------------
ClientsInit ==
    /\ appointment = [v \in Visits |-> [client |-> CHOOSE c \in Clients : TRUE, status |-> "none"]]
    /\ note = {} /\ rated = {} /\ known = {}
    /\ query = [d \in Devices |-> NoQuery]

ClientsNext ==
    \/ \E v \in Visits :
          \/ \E c \in Clients : BookVisit(v, c)
          \/ \E status \in VisitStatuses : VisitMoves(v, status)
          \/ RateCustomer(v)
    \/ \E d \in Devices :
          \/ \E c \in Clients, op \in {"note", "clear"} : NoteBegin(d, c, op)
          \/ SetNote(d) \/ ListClients(d) \/ ListNotes(d)
          \/ CountStatuses(d) \/ CountRepeats(d) \/ Answered(d)
-----------------------------------------------------------------------------
ClientsTypeOK ==
    /\ appointment \in [Visits -> [client : Clients, status : VisitStatuses]]
    /\ note \cup known \subseteq Clients /\ rated \subseteq Visits
    /\ query \in [Devices -> Query]

(* Notes, ratings, list and summary are about real clients: a note is of   *)
(* somebody who has been one, though the booking may be gone when it is    *)
(* written, and so is a rating; the summary never has more repeat clients  *)
(* than its completed bookings allow, but for those completed between its  *)
(* queries.                                                                *)
ClientsHonest ==
    /\ note \subseteq known
    /\ \A v \in rated : appointment[v].client \in known
    /\ \A d \in Devices :
          /\ query[d].op = "list" => query[d].notes \subseteq known
          /\ query[d].op = "summary" => 2 * query[d].repeat <= query[d].completed + Cardinality(query[d].since)
=============================================================================
