-------------------------------- MODULE Chat --------------------------------
(***************************************************************************)
(* The conversation of one booking.  A message is checked, stored and      *)
(* committed, then pushed to the connections of the booking's group; HTTP  *)
(* sends are stored only.  Whether one may write is derived from the       *)
(* booking's status; "closed" is a signal sent after the completion has    *)
(* committed.  Handlers of the artist's PINs save the row of the booking   *)
(* whole, so that an ended booking may be put back among the open ones.    *)
(* The channel layer (Redis) may refuse or drop what it gets.              *)
(***************************************************************************)
EXTENDS FiniteSets

CONSTANTS
    Sessions,       \* connections of the two participants
    Messages        \* messages that may be written

Closed == "closed"

ASSUME ChatAssumption == Closed \notin Messages    \* an event of a kind of its own

VARIABLES
    phase,          \* the booking: before, in or after Conversation.OPEN_BOOKING_STATUSES
    conversation,   \* the Conversation row exists
    stored,         \* rows of Message
    group,          \* connections in the group chat_<booking>
    channel,        \* events on their way to a connection
    shown,          \* messages a client shows
    told,           \* clients that were told the conversation is closed
    sending,        \* ChatService.send_message in flight, one for a session
    closing,        \* the completion has committed, its signal is not sent yet
    inHand,         \* phases with which handlers in flight may save the booking
    reopened        \* history: such a save has put an ended booking back

bookingVars == <<phase, inHand, reopened>>
messageVars == <<conversation, stored, group, channel, shown, told, sending>>
chatVars == <<bookingVars, messageVars, closing>>
-----------------------------------------------------------------------------
NoSend == [step |-> "none"]
Send == {NoSend} \cup [step : {"checked", "stored"}, message : Messages, live : BOOLEAN]

is_open == phase = "open"
Unwritten == Messages \ (stored \cup {sending[s].message : s \in {t \in Sessions : sending[t] # NoSend}})
Announce(event) == channel' = [s \in Sessions |-> channel[s] \cup IF s \in group THEN {event} ELSE {}]

(* ChatConsumer.connect and disconnect; a group_add that fails leaves the  *)
(* client out.                                                             *)
Connect(s) ==
    /\ s \notin group
    /\ group' = group \cup {s}
    /\ UNCHANGED <<bookingVars, conversation, stored, channel, shown, told, sending, closing>>

Disconnect(s) ==
    /\ s \in group
    /\ group' = group \ {s} /\ channel' = [channel EXCEPT ![s] = {}]
    /\ UNCHANGED <<bookingVars, conversation, stored, shown, told, sending, closing>>

get_or_create_for_booking == conversation' = TRUE

get_or_create_conversation ==
    /\ is_open /\ get_or_create_for_booking
    /\ UNCHANGED <<bookingVars, stored, group, channel, shown, told, sending, closing>>

Fetch(s) ==                     \* MessageView.get_all_extract
    /\ conversation /\ shown' = [shown EXCEPT ![s] = @ \cup stored]
    /\ UNCHANGED <<bookingVars, conversation, stored, group, channel, told, sending, closing>>

SendBegin(s, m, live) ==
    /\ sending[s] = NoSend /\ m \in Unwritten /\ is_open
    /\ live => s \in group
    /\ sending' = [sending EXCEPT ![s] = [step |-> "checked", message |-> m, live |-> live]]
    /\ UNCHANGED <<bookingVars, conversation, stored, group, channel, shown, told, closing>>

(* The transaction commits, or an error of the database rolls it back.     *)
Store(s) ==
    /\ sending[s].step = "checked"
    /\ \/ /\ get_or_create_for_booking /\ stored' = stored \cup {sending[s].message}
          /\ sending' = [sending EXCEPT ![s] = IF @.live THEN [@ EXCEPT !.step = "stored"] ELSE NoSend]
       \/ sending' = [sending EXCEPT ![s] = NoSend] /\ UNCHANGED <<conversation, stored>>
    /\ UNCHANGED <<bookingVars, group, channel, shown, told, closing>>

(* Mutant: the push does not wait for the commit.                          *)
CommittedOrChecked(s) == sending[s].step \in {"checked", "stored"}

Committed(s) == sending[s].step = "stored"

Broadcast(s) ==                 \* ChatConsumer.receive_json
    /\ Committed(s)
    /\ \/ Announce(sending[s].message) /\ UNCHANGED shown
       \/ shown' = [shown EXCEPT ![s] = @ \cup {sending[s].message}] /\ UNCHANGED channel
    /\ sending' = [sending EXCEPT ![s] = NoSend]
    /\ UNCHANGED <<bookingVars, conversation, stored, group, told, closing>>

(* chat_message and chat_closed; what is dropped is never shown.           *)
Deliver(s, event) ==
    /\ event \in channel[s]
    /\ channel' = [channel EXCEPT ![s] = @ \ {event}]
    /\ \/ event = Closed /\ told' = told \cup {s} /\ UNCHANGED shown
       \/ event # Closed /\ shown' = [shown EXCEPT ![s] = @ \cup {event}] /\ UNCHANGED told
       \/ UNCHANGED <<shown, told>>
    /\ UNCHANGED <<bookingVars, conversation, stored, group, sending, closing>>

(* The booking is confirmed, completed, or ended without a signal.         *)
Confirm ==
    /\ phase = "before" /\ phase' = "open"
    /\ UNCHANGED <<inHand, reopened, messageVars, closing>>

CompleteBooking ==
    /\ phase = "open" /\ phase' = "over" /\ closing' = TRUE
    /\ UNCHANGED <<inHand, reopened, messageVars>>

EndBooking ==
    /\ phase # "over" /\ phase' = "over"
    /\ UNCHANGED <<inHand, reopened, messageVars, closing>>

(* The counters of the PINs, start_service and confirm_arrival: a handler  *)
(* that finds the booking open reads its row some time later, once more    *)
(* unlocked, and saves all of it.  Any number of them may be in flight.    *)
LoadRow ==
    /\ is_open \/ "open" \in inHand
    /\ inHand' = inHand \cup {phase}
    /\ UNCHANGED <<phase, reopened, messageVars, closing>>

SaveRow(p) ==
    /\ p \in inHand /\ phase' = p
    /\ reopened' = (reopened \/ (phase = "over" /\ p = "open"))
    /\ UNCHANGED <<inHand, messageVars, closing>>

(* A booking that was put back may be completed twice.                     *)
close_conversation ==
    /\ closing /\ closing' \in {FALSE, reopened}
    /\ (conversation /\ Announce(Closed)) \/ UNCHANGED channel
    /\ UNCHANGED <<bookingVars, conversation, stored, group, shown, told, sending>>
-----------------------------------------------------------------------------
ChatInit ==
    /\ phase = "before" /\ conversation = FALSE /\ stored = {} /\ group = {}
    /\ channel = [s \in Sessions |-> {}] /\ shown = [s \in Sessions |-> {}] /\ told = {}
    /\ sending = [s \in Sessions |-> NoSend] /\ closing = FALSE
    /\ inHand = {} /\ reopened = FALSE

ChatNext ==
    \/ \E s \in Sessions : \/ Connect(s) \/ Disconnect(s) \/ Fetch(s) \/ Store(s) \/ Broadcast(s)
                           \/ \E m \in Messages, live \in BOOLEAN : SendBegin(s, m, live)
                           \/ \E event \in Messages \cup {Closed} : Deliver(s, event)
    \/ get_or_create_conversation \/ Confirm \/ CompleteBooking \/ EndBooking \/ close_conversation
    \/ LoadRow \/ \E p \in {"open", "over"} : SaveRow(p)
-----------------------------------------------------------------------------
ChatTypeOK ==
    /\ phase \in {"before", "open", "over"} /\ conversation \in BOOLEAN
    /\ stored \subseteq Messages /\ group \subseteq Sessions
    /\ channel \in [Sessions -> SUBSET (Messages \cup {Closed})]
    /\ shown \in [Sessions -> SUBSET Messages] /\ told \subseteq Sessions
    /\ sending \in [Sessions -> Send] /\ closing \in BOOLEAN
    /\ inHand \subseteq {"open", "over"} /\ reopened \in BOOLEAN

(* ChatConsumer: what a client is told live is so.  Every message it shows *)
(* is in the history it will fetch later, and when it was told that the    *)
(* conversation is closed, send_message refuses every further one, unless  *)
(* a whole-row save begun before the end has put the booking back.  (What  *)
(* was checked before the end may still be stored after the signal.)       *)
LiveIsTrue ==
    /\ \A s \in Sessions : shown[s] \subseteq stored
    /\ stored # {} => conversation
    /\ told # {} => ~is_open \/ reopened
=============================================================================
