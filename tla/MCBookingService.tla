-------------------------- MODULE MCBookingService --------------------------
(* One appointment from 1 to 2, watched from before its on-my-way window   *)
(* until every PIN has expired; for the screens it may be moved to 4.  The *)
(* larger tier takes the whole booking, or costs more coins than there are.*)
EXTENDS BookingService

(* A whole day, a working day, and hours entered the wrong way round.      *)
MCHours == {[from |-> 0, to |-> DayEnd], [from |-> 1, to |-> DayEnd - 1], [from |-> DayEnd - 1, to |-> 1]}
=============================================================================
