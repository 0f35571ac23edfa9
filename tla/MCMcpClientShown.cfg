SPECIFICATION Spec
CONSTANTS
  w1 = w1
  w2 = w2
  a1 = a1
  d1 = d1
  Connects = {w1, a1}
  Disconnects = {d1}
  Window = {w1, d1}
  Amid = FALSE
  MaxLeaves = 0
INVARIANTS AgentsConnectionIsShown
CHECK_DEADLOCK FALSE
