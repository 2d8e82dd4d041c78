---------------------------- MODULE SupportDesk -----------------------------
(***************************************************************************)
(* One user at the help centre: the running conversation with the          *)
(* administrators, and tickets.  A conversation is looked up and written   *)
(* to in one transaction without a lock; a ticket is changed under its row *)
(* lock, and the limit of open tickets is counted without one.             *)
(***************************************************************************)
EXTENDS Integers, FiniteSets

CONSTANTS
    MaxConversations, MaxTickets,   \* rows that may come to exist
    MaxOpenTickets,                 \* MAX_OPEN_TICKETS
    Handlers                        \* handlers that can be in flight

ASSUME SupportAssumption == {MaxConversations, MaxTickets, MaxOpenTickets} \subseteq Nat

VARIABLES
    support,        \* statuses of the conversations, the oldest first
    messages,       \* who has written into each
    ticket,         \* statuses of the tickets, the oldest first
    task            \* the handlers in flight

supportVars == <<support, messages, ticket, task>>
-----------------------------------------------------------------------------
Conversations == 1..MaxConversations
Tickets == 1..MaxTickets
ConversationStatuses == {"open", "running", "closed"}
TicketStatuses == {"open", "in_progress", "resolved", "closed"}
OPEN_STATUSES == {"open", "in_progress"}

NoTask == [op |-> "none"]
NoConversation == 0
Task == {NoTask}
    \cup [op : {"customer"}, conversation : Conversations \cup {NoConversation}]
    \cup [op : {"admin"}, conversation : Conversations, status : ConversationStatuses]
    \cup [op : {"create"}]
    \cup [op : {"update"}, ticket : Tickets, status : TicketStatuses]

TakeUp(h, new) == task[h] = NoTask /\ task' = [task EXCEPT ![h] = new]
Finish(h) == task' = [task EXCEPT ![h] = NoTask]
InTable(table, i) == table[i] # "none"
FirstFree(table, i) == ~InTable(table, i) /\ \A j \in DOMAIN table : j < i => InTable(table, j)
-----------------------------------------------------------------------------
(* get_or_create_for_customer answers the newest that is not closed.       *)
OpenOnes == {c \in Conversations : support[c] \in {"open", "running"}}

CustomerBegin(h) ==
    /\ TakeUp(h, [op |-> "customer",
                 conversation |-> IF OpenOnes = {} THEN NoConversation
                                  ELSE CHOOSE c \in OpenOnes : \A d \in OpenOnes : d <= c])
    /\ UNCHANGED <<support, messages, ticket>>

SendCustomerMessage(h) ==
    /\ task[h].op = "customer"
    /\ LET found == task[h].conversation IN
       \/ /\ found # NoConversation
          /\ messages' = [messages EXCEPT ![found] = @ \cup {"customer"}] /\ UNCHANGED support
       \/ /\ found = NoConversation
          /\ \E c \in Conversations :
                /\ FirstFree(support, c)
                /\ support' = [support EXCEPT ![c] = "open"]
                /\ messages' = [messages EXCEPT ![c] = {"customer"}]
    /\ Finish(h) /\ UNCHANGED ticket

AdminBegin(h, c) ==
    /\ support[c] \in {"open", "running"}
    /\ TakeUp(h, [op |-> "admin", conversation |-> c, status |-> support[c]])
    /\ UNCHANGED <<support, messages, ticket>>

(* Mutant: the update names the conversation only by its id.               *)
mark_running_always(c) == [support EXCEPT ![c] = "running"]

(* Mutant: a conversation takes the word that tickets use.                 *)
mark_running_as_ticket(c) == [support EXCEPT ![c] = IF @ = "open" THEN "in_progress" ELSE @]

mark_running(c) == [support EXCEPT ![c] = IF @ = "open" THEN "running" ELSE @]

SendAdminMessage(h) ==
    /\ task[h].op = "admin"
    /\ LET c == task[h].conversation IN
       /\ messages' = [messages EXCEPT ![c] = @ \cup {"admin"}]
       /\ support' = IF task[h].status = "open" THEN mark_running(c) ELSE support
    /\ Finish(h) /\ UNCHANGED ticket

CloseConversation(c) ==
    /\ InTable(support, c)
    /\ support' = [support EXCEPT ![c] = "closed"]
    /\ UNCHANGED <<messages, ticket, task>>
-----------------------------------------------------------------------------
OpenTickets == {t \in Tickets : ticket[t] \in OPEN_STATUSES}

CreateTicketBegin(h) ==
    /\ Cardinality(OpenTickets) < MaxOpenTickets
    /\ TakeUp(h, [op |-> "create"])
    /\ UNCHANGED <<support, messages, ticket>>

CreateTicket(h) ==
    /\ task[h].op = "create"
    /\ \E t \in Tickets : FirstFree(ticket, t) /\ ticket' = [ticket EXCEPT ![t] = "open"]
    /\ Finish(h) /\ UNCHANGED <<support, messages>>

(* Mutant: the row is read without its lock.                               *)
TicketUnlocked(t) == TRUE

TicketFree(t) == \A h \in Handlers : ~(task[h].op = "update" /\ task[h].ticket = t)

(* The user's close_extract and the administrators' update_status_extract. *)
UpdateTicketBegin(h, t, status) ==
    /\ InTable(ticket, t) /\ ticket[t] # "closed" /\ TicketFree(t)
    /\ TakeUp(h, [op |-> "update", ticket |-> t, status |-> status])
    /\ UNCHANGED <<support, messages, ticket>>

UpdateTicket(h) ==
    /\ task[h].op = "update"
    /\ ticket' = [ticket EXCEPT ![task[h].ticket] = task[h].status]
    /\ Finish(h) /\ UNCHANGED <<support, messages>>
-----------------------------------------------------------------------------
SupportInit ==
    /\ support = [c \in Conversations |-> "none"] /\ messages = [c \in Conversations |-> {}]
    /\ ticket = [t \in Tickets |-> "none"] /\ task = [h \in Handlers |-> NoTask]

SupportNext ==
    \/ \E h \in Handlers :
          \/ CustomerBegin(h) \/ SendCustomerMessage(h) \/ SendAdminMessage(h)
          \/ \E c \in Conversations : AdminBegin(h, c)
          \/ CreateTicketBegin(h) \/ CreateTicket(h) \/ UpdateTicket(h)
          \/ \E t \in Tickets, status \in TicketStatuses : UpdateTicketBegin(h, t, status)
    \/ \E c \in Conversations : CloseConversation(c)
-----------------------------------------------------------------------------
SupportTypeOK ==
    /\ support \in [Conversations -> ConversationStatuses \cup {"none"}]
    /\ messages \in [Conversations -> SUBSET {"customer", "admin"}]
    /\ ticket \in [Tickets -> TicketStatuses \cup {"none"}]
    /\ task \in [Handlers -> Task]

(* SupportConversation.mark_running, TicketView.close_extract: an answer   *)
(* or a change of status begun before a conversation or a ticket was       *)
(* closed does not open it again.                                          *)
ClosedStaysClosed ==
    [][/\ \A c \in Conversations : support[c] = "closed" => support'[c] = "closed"
       /\ \A t \in Tickets : ticket[t] = "closed" => ticket'[t] = "closed"]_supportVars
=============================================================================
