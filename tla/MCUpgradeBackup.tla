-------------------------- MODULE MCUpgradeBackup --------------------------
(* UpgradeBackup for TLC: the constants are given in the .cfg files.       *)
EXTENDS UpgradeBackup
============================================================================
