---------------------------- MODULE MCFolderSync ----------------------------
(* FolderSync for TLC: what the requests may be at first.                  *)
EXTENDS FolderSync

\* One request in the folder, or two of the same name at the top.
OneDoc == {[i \in Ids |-> IF i = 1 THEN [dir |-> "sub", name |-> 1, text |-> 1] ELSE NoDoc]}
TwoDocs == {[i \in Ids |-> IF i <= 2 THEN [dir |-> "top", name |-> 1, text |-> 1] ELSE NoDoc]}
=============================================================================
