SPECIFICATION Spec
CONSTANTS
  w1 = w1
  w2 = w2
  a1 = a1
  d1 = d1
  Connects = {w1, w2, a1}
  Disconnects = {d1}
  Window = {w1, w2, d1}
  Amid = FALSE
  MaxLeaves = 1
INVARIANTS OneConnection ShownIsThere ConnectingEnds
PROPERTIES StopIsFinal
CHECK_DEADLOCK FALSE
