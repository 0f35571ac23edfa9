------------------------- MODULE MCCredentialGuard -------------------------
(* CredentialGuard for TLC: the constants are given in the .cfg files.     *)
EXTENDS CredentialGuard, TLC

Symmetry == Permutations(Keyrings)
============================================================================
