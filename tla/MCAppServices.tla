--------------------------- MODULE MCAppServices ----------------------------
EXTENDS AppServices, TLC

(* Appointments agreed before either window and within one, so that two    *)
(* starts fall into each window and no third.                              *)
MCFirst == {1451, 128}

Symmetry == Permutations(Messages) \cup Permutations(Handlers) \cup Permutations(Uploaders)
=============================================================================
