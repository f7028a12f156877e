----------------------------- MODULE MCPasskeys -----------------------------
(* Instances of Passkeys for TLC.                                            *)
EXTENDS Passkeys, TLC

OneRegistered == <<"k1">>

Peers == Permutations(Session)
=============================================================================
