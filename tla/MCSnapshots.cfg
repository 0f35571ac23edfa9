SPECIFICATION Spec
CONSTANTS
  c1 = c1
  c2 = c2
  Calls = {c1, c2}
  SnapshotsToKeep = 1
  MaxTaken = 3
  MaxWrites = 2
  MaxCrashes = 1
  MaxFailures = 1
SYMMETRY Symmetry
INVARIANTS NeverMixed RestorePointsKept DailyHistoryKept OpensRestoredOrAsBefore
CHECK_DEADLOCK FALSE
