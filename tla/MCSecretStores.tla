--------------------------- MODULE MCSecretStores ---------------------------
(* Instances of SecretStores for TLC.                                        *)
EXTENDS SecretStores, TLC

Symmetric == Permutations(Pod) \cup Permutations(Migrator) \cup Permutations(Value)
=============================================================================
