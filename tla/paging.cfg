SPECIFICATION Spec
CONSTANTS
  PageSize = 32
  NFrames = 24
  WordBits = 4
  TableEntries = 8
  DirSize = 65
  FreeStarts <- AnyModules
  Garbage <- SomeGarbage
  Sizes <- SomeSizes
  Ops = {"malloc", "free"}
  MaxAddr = 768
INVARIANTS
  TypeOK
  FramesOwned
  KernelMapped
  SharedOnlyFrameZero
PROPERTIES
  BootReachesPaging
CHECK_DEADLOCK FALSE
