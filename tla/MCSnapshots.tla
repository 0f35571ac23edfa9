---------------------------- MODULE MCSnapshots ----------------------------
(* Snapshots for TLC. *)
EXTENDS Snapshots, TLC

Symmetry == Permutations(Calls)
=============================================================================
