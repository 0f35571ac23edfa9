SPECIFICATION FairSpec
CONSTANTS
  MaxAttempts = 2
  MaxOpens = 4
  MaxOverlapped = 2
INVARIANTS Tracked NotForgotten AttemptsRunOut CloseIsFinal StatusIsShown
PROPERTY DropSettled
CHECK_DEADLOCK FALSE
