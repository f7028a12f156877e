------------------------- MODULE MCClusterLifecycle -------------------------
(* Instances of ClusterLifecycle for TLC.                                   *)
EXTENDS ClusterLifecycle
=============================================================================
