SPECIFICATION FairSpec
CONSTANTS
  w = w
  Window = w
  f1 = f1
  f2 = f2
  Fetchers = {f1, f2}
  Hidden = {2}
  FailuresOverlap = FALSE
  MaxChanges = 3
  MaxActions = 2
  MaxNavigations = 1
INVARIANTS NothingMissed RedirectsKept
PROPERTIES ShownInTheEnd
CHECK_DEADLOCK FALSE
