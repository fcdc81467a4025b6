SPECIFICATION Spec
CONSTANTS
  NumInodes = 4
  NumData = 4
  DataStart = 4
  DirectPtrs = 2
  BlockSize = 2
  WordBits = 2
  Names = {n1, n2}
  LongNames = {}
  Ops = {"creat", "write"}
  AppendOnly = FALSE
  CrashPoints = "never"
  StaleInodes <- OneStale
  DirtyGarbage <- CleanDirty
  MaxFileSize = 3
INVARIANTS
  SizeIsBytes
SYMMETRY NameSymmetry
CHECK_DEADLOCK FALSE
