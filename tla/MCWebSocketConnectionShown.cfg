SPECIFICATION Spec
CONSTANTS
  MaxAttempts = 1
  MaxOpens = 3
  MaxOverlapped = 3
INVARIANT OpenIsShown
CHECK_DEADLOCK FALSE
