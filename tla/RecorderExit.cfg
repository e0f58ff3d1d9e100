SPECIFICATION Spec
CONSTANTS
  Paths = {p}
  Contents = {x, y}
  Timestamps = {1, 2, 3}
  Suffixes = {1}
  Unstorable = {}
  MonotonicClock = TRUE
  MaxFaults = 0
  Nil = Nil
INVARIANT TimelineCompleteAtExit
