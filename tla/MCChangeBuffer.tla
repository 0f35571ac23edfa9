--------------------------- MODULE MCChangeBuffer ---------------------------
(* ChangeBuffer for TLC: the constants are given in the .cfg files.        *)
EXTENDS ChangeBuffer
=============================================================================
