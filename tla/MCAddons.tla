------------------------------ MODULE MCAddons ------------------------------
(* Instances of Addons for TLC.                                              *)
EXTENDS Addons
=============================================================================
