------------------------ MODULE MCPaymentSettlement ------------------------
(* Two orders and two requests at a time on a booking of two or three rupees.     *)
EXTENDS PaymentSettlement, TLC

Symmetry == Permutations(Payments) \cup Permutations(Requests)
=============================================================================
