------------------------- MODULE MCBookingLifecycle -------------------------
(* One appointment from 1 to 2, watched from before its on-my-way window   *)
(* until every PIN has expired.                                            *)
EXTENDS BookingLifecycle, TLC

Symmetry == Permutations(Requests)
=============================================================================
