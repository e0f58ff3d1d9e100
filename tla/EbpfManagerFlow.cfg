SPECIFICATION FairSpec
CONSTANTS
  Lifecycle = TRUE
  RingMax = 2
  ChanMax = 2
  MaxEmits = 4
  Nil = Nil
PROPERTY RingIsDrained
CHECK_DEADLOCK FALSE
