----------------------------- MODULE MCCredentials --------------------------
(* Two accounts, two contacts and two handlers at a time; two guessers. *)
EXTENDS Credentials, TLC

Symmetry == Permutations(Users) \cup Permutations(Contacts) \cup Permutations(Requests)
=============================================================================
