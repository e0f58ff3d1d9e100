SPECIFICATION Spec
CONSTANTS
  Paths = {p}
  Contents = {x, y}
  Timestamps = {1, 2}
  Suffixes = {1, 2}
  Unstorable = {}
  MonotonicClock = FALSE
  MaxFaults = 0
  Nil = Nil
INVARIANT NoVersionLost
