------------------------- MODULE MCCollectionReader -------------------------
(* CollectionReader for TLC: the union of several small instances, each     *)
(* some docs, so many writes and so many loads under way.                    *)
EXTENDS CollectionReader, TLC

CONSTANTS f, f2, r, m, g  \* two folders, a request, its meta and a folder's

MCInstances ==
  {[ids |-> {f, r}, writes |-> 3, loads |-> 1],
   [ids |-> {r, m}, writes |-> 3, loads |-> 1],
   [ids |-> {f, r, m}, writes |-> 2, loads |-> 1],
   [ids |-> {f, g}, writes |-> 2, loads |-> 1],
   [ids |-> {f, f2, r}, writes |-> 2, loads |-> 1],
   [ids |-> {r, m}, writes |-> 2, loads |-> 2],
   [ids |-> {f}, writes |-> 1, loads |-> 2]}

Symmetry == Permutations(Loads)
=============================================================================
