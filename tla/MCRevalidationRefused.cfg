SPECIFICATION WindowSpec
CONSTANTS
  w = w
  Window = w
  f1 = f1
  Fetchers = {f1}
  Hidden = {}
  FailuresOverlap = TRUE
  MaxChanges = 2
  MaxActions = 1
  MaxNavigations = 0
INVARIANT NothingMissed
CHECK_DEADLOCK FALSE
