SPECIFICATION CkSpec
CONSTANTS
  Base = 4
  WordBytes = 4
  Mod = 127
  MinMaskBits = 2
  MaxMaskBits = 6
  CkDefaults <- MCCkDefaults
  CkRequests <- MCCkRequests
  CkBytes = {0, 3}
  CkMaxInput = 8
  CkMaxErrors = 1
  CkNil = Nil
INVARIANT HashIsOfWindow
CHECK_DEADLOCK FALSE
