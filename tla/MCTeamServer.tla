---------------------------- MODULE MCTeamServer ----------------------------
(* Two people, one collection at a time, and pushes to it *)
EXTENDS TeamServer, TLC

CONSTANTS kim, lee, s1, main, dev, c1, c2, c3, k1, k2, p1, p2

\* Calls, commands and pushes differ by their name only
Symmetry == Permutations(Calls) \cup Permutations(Commands) \cup Permutations(Pushes)
=============================================================================
