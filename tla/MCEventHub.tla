----------------------------- MODULE MCEventHub -----------------------------
(* Instances of EventHub for TLC.                                            *)
EXTENDS EventHub, TLC

Connections == Permutations(Client)
=============================================================================
