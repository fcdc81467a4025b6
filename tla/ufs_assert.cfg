SPECIFICATION Spec
CONSTANTS
  NumInodes = 4
  NumData = 4
  DataStart = 3
  DirectPtrs = 2
  BlockSize = 2
  WordBits = 2
  Names = {n1, n2}
  LongNames = {}
  Ops = {"lookup", "creat", "unlink"}
  AppendOnly = TRUE
  CrashPoints = "never"
  StaleInodes <- OneStale
  DirtyGarbage <- CleanDirty
  MaxFileSize = 3
INVARIANTS
  AssertionHolds
SYMMETRY NameSymmetry
CHECK_DEADLOCK FALSE
