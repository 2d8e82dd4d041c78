---------------------------- MODULE ArtistDiary -----------------------------
(***************************************************************************)
(* What a calendar promises an artist, without locks, proposals or         *)
(* handlers: an appointment is entered or moved only where it clashes with *)
(* no other, never once the artist has set off for it, and until it is     *)
(* struck out it is known that they have.  SlotCalendar implements this    *)
(* with the bookings that no stale save has put back.                      *)
(***************************************************************************)
EXTENDS Integers

CONSTANTS
    Bookings,
    Slots,
    Clashes,        \* pairs of slots that one artist cannot serve both
    NoSlot

VARIABLES
    appointment,    \* the slot each booking has in the diary
    setOff          \* the bookings the artist is on the way to, or at

diaryVars == <<appointment, setOff>>
-----------------------------------------------------------------------------
Arrange(b, s) ==
    /\ \A c \in Bookings \ {b} : <<appointment[c], s>> \notin Clashes
    /\ b \notin setOff
    /\ appointment' = [appointment EXCEPT ![b] = s]
    /\ UNCHANGED setOff

Depart(b) ==
    /\ appointment[b] # NoSlot
    /\ setOff' = setOff \cup {b}
    /\ UNCHANGED appointment

Strike(b) ==
    /\ appointment' = [appointment EXCEPT ![b] = NoSlot]
    /\ setOff' = setOff \ {b}

DiaryInit == appointment = [b \in Bookings |-> NoSlot] /\ setOff = {}

DiaryNext == \E b \in Bookings :
    \/ \E s \in Slots : Arrange(b, s)
    \/ Depart(b)
    \/ Strike(b)

DiarySpec == DiaryInit /\ [][DiaryNext]_diaryVars
=============================================================================
