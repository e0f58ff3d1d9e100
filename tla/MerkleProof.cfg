SPECIFICATION MkSpec
CONSTANTS
  MkKeys = {key}
  MkCids = {x, y}
  MkMaxLen = 4
  MkNil = MkNil
INVARIANT GeneratedProofsVerify
