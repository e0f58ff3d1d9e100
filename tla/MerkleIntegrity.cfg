SPECIFICATION MkSpec
CONSTANTS
  MkKeys = {key}
  MkCids = {x, y, z}
  MkMaxLen = 4
  MkNil = MkNil
INVARIANT DifferentCIDsRefused
