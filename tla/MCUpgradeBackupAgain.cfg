SPECIFICATION Spec
CONSTANTS
  Versions = {1, 2}
  BackupsToKeep = 3
  MayDowngrade = TRUE
  MaxLaunches = 5
  MaxCrashes = 0
  MaxFailures = 0
INVARIANT UpgradeIsBackedUp
CHECK_DEADLOCK FALSE
