---------------------------- MODULE MCArtistDesk ----------------------------
EXTENDS ArtistDesk, TLC

Symmetry == Permutations(Workers) \cup Permutations(Requests) \cup Permutations(Documents)
=============================================================================
