---------------------------- MODULE MCAuditChain ----------------------------
(* Instances of AuditChain for TLC.                                          *)
EXTENDS AuditChain, TLC

Symmetric == Permutations(Tx) \cup Permutations(Payload)
=============================================================================
