CONSTANTS
  None = None
  w1 = w1
  w2 = w2
  Works <- TwoWorks
  Priorities <- TwoPriorities
  Every = 8
  Durations <- Short
  Horizon = 2
SPECIFICATION Spec
SYMMETRY Symmetry
INVARIANTS InSync
PROPERTIES PushTakesEffect PopsByPriority
CHECK_DEADLOCK FALSE
