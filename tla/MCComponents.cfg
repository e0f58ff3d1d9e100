SPECIFICATION MCSpec
CONSTANTS
  x = x
  y = y
  ExNames = {"a", "b"}
  ExPaths <- MCExPaths
  ExContents = {x, y}
  Second = 2
  ExMaxTick = 4
  ExMaxRecords = 3
  ExMaxExports = 2
  Cut = Cut
  ExNil = Nil
  Base = 4
  WordBytes = 4
  Mod = 127
  MinMaskBits = 2
  MaxMaskBits = 6
  CkDefaults <- MCCkDefaults
  CkRequests <- MCCkRequests
  CkBytes = {0, 3}
  CkMaxInput = 8
  CkMaxErrors = 1
  CkNil = Nil
  MkKeys = {key}
  MkCids = {x, y}
  MkMaxLen = 4
  MkNil = Nil
  PrPaths = {p, q}
  AlphaNum = 1
  AlphaDen = 2
  PrThreshold = 1
  PrScale = 8
  PrMaxCount = 3
  PrMaxFlushes = 3
  PrNil = Nil
  MeCallers = {p, q}
  MeSizes = {0, 1, 3}
  MeMaxCalls = 3
  MeClients = {p, q}
  MeNil = Nil
  BtProcs = {p, q}
  BtMaxLoads = 4
  BtNil = Nil
  DcContents = {x, y}
  Empty = Empty
  Corrupt = Corrupt
  DcMaxVersions = 6
  Contents = {x, y}
  Files = {p, q}
  HashAlgo = "sha256"
  CsNil = Nil
  ScMaxJournal = 3
  ScNil = Nil
  Lifecycle = TRUE
  RingMax = 2
  ChanMax = 2
  MaxEmits = 4
  Nil = Nil
INVARIANTS
  ExportIsTheMoment
  EveryFileIsAVersion
  FailsOnlyOnClash
  ChunksAreTheInput
  ChunkSizesBounded
  ShortWindowRolls
  SplitRoundTrips
  ProofVerdict
  RootIdentifiesFile
  HotOnlyIfBusy
  HintsFollowEstimates
  CountersConsistent
  RatiosExactAlone
  NoScrapeCutOff
  TempFilesRemoved
  DamagedOnlyIfBroken
  ChainReconstructs
  CountIsNumberOfFiles
  CollectsWhatStatsReport
  NeverRestsInside
  TypeOK
  NoChannelPanic
  NothingLeaked
PROPERTIES
  ServeEnds
  WholeStaysWhole
  ReferencedSurvives
  CatchesUp
  ConsumersStop
CHECK_DEADLOCK FALSE
