SPECIFICATION Spec
CONSTANTS
  c1 = c1
  c2 = c2
  Calls = {c1, c2}
  SnapshotsToKeep = 1
  MaxTaken = 3
  MaxWrites = 1
  MaxCrashes = 0
  MaxFailures = 0
INVARIANT RestoreCanBeUndone
CHECK_DEADLOCK FALSE
