SPECIFICATION Spec
CONSTANTS
  Width = 4
  Height = 3
  PtrSize = 4
  CharMod = 16
  ShortMod = 256
  IntMod = 16384
  Junk <- AnyJunk
  Texts <- SomeTexts
  Directives <- SomeForms
  Vectors <- Faults
  MaxPrints = 2
INVARIANTS
  TypeOK
  ScreenIsPage
  MessageShown
  NumbersRight
CHECK_DEADLOCK FALSE
