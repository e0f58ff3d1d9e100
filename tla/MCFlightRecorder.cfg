SPECIFICATION MCFairSpec
CONSTANTS
  f = f
  g = g
  x = x
  top = top
  sub = sub
  Paths = {f, g}
  Dirs = {top, sub}
  Root = top
  DirOf <- MCDirOf
  QueueMax = 1
  MaxOps = 2
  Contents = {x, y, z}
  Timestamps = {1, 2, 3}
  Suffixes = {1}
  Unstorable = {z}
  MonotonicClock = TRUE
  MaxFaults = 1
  Nil = Nil
INVARIANTS
  FRTypeOK
  LatestIsCurrent
  StaleReadIsFollowed
  MetadataBacked
  NoVersionLost
  StartPrecedesEvents
PROPERTIES
  CrashTakesOnlyTail
  AppendOnly
  PastIsFrozen
  ImplementsHistory
  ChangeBecomesVisible
  DrainedWhileRecording
