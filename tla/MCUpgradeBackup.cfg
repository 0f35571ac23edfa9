SPECIFICATION Spec
CONSTANTS
  Versions = {1, 2, 3}
  BackupsToKeep = 3
  MayDowngrade = FALSE
  MaxLaunches = 5
  MaxCrashes = 2
  MaxFailures = 2
INVARIANTS CopiedBeforeOpened UpgradeIsBackedUp
CHECK_DEADLOCK FALSE
