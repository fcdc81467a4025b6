SPECIFICATION MSpec
CONSTANTS
  NumInodes = 3
  NumData = 3
  DataStart = 5
  DirectPtrs = 2
  BlockSize = 2
  WordBits = 2
  Names = {n1, n2}
  LongNames = {}
  Ops = {"creat", "write"}
  AppendOnly = TRUE
  CrashPoints = "any"
  StaleInodes <- OneStale
  DirtyGarbage <- CleanDirty
  MaxFileSize = 3
  BitsPerBlock = 16
  InodesPerBlock = 2
  IntBlocks = 8
  MinCount = 2
  InodeArgs <- AllInodeArgs
  DataArgs <- AllDataArgs
INVARIANTS
  LayoutSound
  DotTells
PROPERTIES
  CommittedCellsStable
SYMMETRY NameSymmetry
CHECK_DEADLOCK FALSE
