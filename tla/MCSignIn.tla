------------------------------ MODULE MCSignIn ------------------------------
(* Instances of SignIn for TLC.                                              *)
EXTENDS SignIn, TLC

Peers == Permutations(Organization) \cup Permutations(Request)
=============================================================================
