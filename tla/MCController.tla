---------------------------- MODULE MCController ----------------------------
(* A phone that opens up to two incidents of its own and may answer another's. *)
EXTENDS MobileController

CONSTANTS c1, c2, i1, i2

Symmetry == Permutations({c1, c2}) \cup Permutations({i1, i2})
=============================================================================
