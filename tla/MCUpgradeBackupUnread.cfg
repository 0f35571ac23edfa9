SPECIFICATION Spec
CONSTANTS
  Versions = {1, 2}
  BackupsToKeep = 3
  MayDowngrade = FALSE
  MaxLaunches = 4
  MaxCrashes = 0
  MaxFailures = 1
INVARIANT NotTriedAgain
CHECK_DEADLOCK FALSE
