SPECIFICATION Spec
CONSTANTS
  Width = 4
  Height = 3
  PtrSize = 4
  CharMod = 16
  ShortMod = 256
  IntMod = 16384
  Junk <- AnyJunk
  Texts <- SomeTexts
  Directives <- FewForms
  Vectors <- Faults
  MaxPrints = 1
INVARIANTS
  OtherNumbersRight
CHECK_DEADLOCK FALSE
