--------------------------- MODULE MCGroupPayment ---------------------------
(* Two bookings, two orders over both, two requests at a time. *)
EXTENDS GroupPayment, TLC

Symmetry == Permutations(Bookings) \cup Permutations(Orders) \cup Permutations(Requests)
MCPrice == [b \in Bookings |-> 1]
=============================================================================
