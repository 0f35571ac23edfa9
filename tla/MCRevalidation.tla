--------------------------- MODULE MCRevalidation ---------------------------
(* Revalidation for TLC: the constants are given in the .cfg files.        *)
EXTENDS Revalidation
=============================================================================
