SPECIFICATION ExSpec
CONSTANTS
  x = x
  y = y
  ExNames = {"a", "b"}
  ExPaths <- MCExPaths
  ExContents = {x, y}
  Second = 2
  ExMaxTick = 4
  ExMaxRecords = 2
  ExMaxExports = 2
  Cut = Cut
  ExNil = ExNil
INVARIANT TimelinePickRestores
CHECK_DEADLOCK FALSE
