SPECIFICATION FairSpec
CONSTANTS
  hooks = hooks
  sync = sync
  Hooks = hooks
  Listeners = {hooks, sync}
  Failing = {sync}
  Windows = {w1}
  MaxChanges = 3
  MaxBuffers = 2
INVARIANTS TypeOK NothingStranded HooksHearAllInOrder ToldOnce
PROPERTIES OverlapsCoalesce ReachesWindows KeepsThePromise
CHECK_DEADLOCK FALSE
