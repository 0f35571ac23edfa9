SPECIFICATION Spec
CONSTANTS
  MaxAttempts = 1
  MaxOpens = 2
  MaxOverlapped = 2
INVARIANT UserCloseIsFinal
CHECK_DEADLOCK FALSE
