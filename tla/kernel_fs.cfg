SPECIFICATION KSpec
CONSTANTS
  NumInodes = 3
  NumData = 4
  DataStart = 4
  DirectPtrs = 2
  BlockSize = 2
  WordBits = 2
  Names = {n1, d1}
  LongNames = {}
  Ops = {"lookup", "creat", "write", "unlink"}
  AppendOnly = TRUE
  CrashPoints = "idle"
  StaleInodes <- OneStale
  DirtyGarbage <- CleanDirty
  MaxFileSize = 3
  Space = 64
  Start = 8
  DNames = {d1}
  StackDepth = 4
  Misreads <- AnyEntry
  KernelOps = {"lookup", "creat", "write", "read", "unlink"}
INVARIANTS
  SizeCountsEntries
  TreeShape
  FileContents
  PrintedIsTree
  PrintingPanics
  KernelAgrees
  KernelSeesImage
PROPERTIES
  CallsReturn
  BootEnds
CHECK_DEADLOCK FALSE
