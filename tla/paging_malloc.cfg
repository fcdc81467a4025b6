SPECIFICATION Spec
CONSTANTS
  PageSize = 32
  NFrames = 24
  WordBits = 4
  TableEntries = 8
  DirSize = 65
  FreeStarts <- SmallModules
  Garbage <- Zeroed
  Sizes <- SomeSizes
  Ops = {"malloc"}
  MaxAddr = 768
INVARIANTS
  MallocNeverFaults
CHECK_DEADLOCK FALSE
