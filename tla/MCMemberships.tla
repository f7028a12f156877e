--------------------------- MODULE MCMemberships ----------------------------
(* Instances of Memberships for TLC.                                         *)
EXTENDS Memberships, TLC

Symmetric == Permutations(Request)
=============================================================================
