SPECIFICATION GrowSpec
CONSTANTS
  NumInodes = 4
  NumData = 4
  DataStart = 4
  DirectPtrs = 2
  BlockSize = 2
  WordBits = 2
  Names = {n1, n2, long}
  LongNames = {long}
  Ops = {"lookup", "creat", "write", "read"}
  AppendOnly = TRUE
  CrashPoints = "idle"
  StaleInodes <- TwoStale
  DirtyGarbage <- AnyDirty
  MaxFileSize = 5
INVARIANTS
  TypeOK
  Coherent
  SuccessIsDurable
  BlocksOwnedOnce
  NoBlockLost
  SizeCountsEntries
  TreeShape
  LookupIsExact
  FileContents
  DeathNeedsLeak
PROPERTIES
  Implements
CHECK_DEADLOCK FALSE
