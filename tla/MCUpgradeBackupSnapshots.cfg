SPECIFICATION Spec
CONSTANTS
  Versions = {1, 2, 3, 4}
  BackupsToKeep = 3
  MayDowngrade = FALSE
  MaxLaunches = 4
  MaxCrashes = 0
  MaxFailures = 0
PROPERTY SnapshotsKept
CHECK_DEADLOCK FALSE
