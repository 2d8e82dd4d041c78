--------------------------- MODULE MCSlotCalendar ---------------------------
(* A morning of one artist: the slots conflict pairwise or only through   *)
(* their buffers, and one lies after the others.                           *)
EXTENDS SlotCalendar, TLC

Window(start, end, before, after) ==
    [day |-> 0, start |-> start, end |-> end, before |-> before, after |-> after]

Early  == Window(1, 3, 0, 0)
Middle == Window(2, 4, 0, 0)
Travel == Window(4, 5, 2, 0)
MCSlots == {Early, Middle, Travel}
MCClosures == {{}}
Late == Window(4, 6, 0, 0)
MCProgressSlots == {Early, Late}
MCProgressClosures == {{}, {Late}}
Symmetry == Permutations(Bookings) \cup Permutations(Requests)
=============================================================================
