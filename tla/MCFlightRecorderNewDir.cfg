SPECIFICATION FRSpec
CONSTANTS
  f = f
  g = g
  x = x
  top = top
  sub = sub
  Paths = {f, g}
  Dirs = {top, sub}
  Root = top
  DirOf <- MCDirOf
  QueueMax = 2
  MaxOps = 3
  Contents = {x, y}
  Timestamps = {1, 2, 3}
  Suffixes = {1}
  Unstorable = {}
  MonotonicClock = TRUE
  MaxFaults = 0
  Nil = Nil
PROPERTY EveryChangeNoticed
