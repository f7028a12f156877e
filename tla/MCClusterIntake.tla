-------------------------- MODULE MCClusterIntake ---------------------------
(* Instances of ClusterIntake for TLC.                                       *)
EXTENDS ClusterIntake, TLC

Symmetric == Permutations(Request) \cup Permutations(Alias) \cup Permutations(Allowed)
=============================================================================
