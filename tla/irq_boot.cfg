SPECIFICATION Spec
CONSTANTS
  DeviceLines = {0, 1, 8}
  BiosMask <- AnyMask
  TickLimit = 3
  ChecksLimits = {TRUE, FALSE}
  Spurious = TRUE
INVARIANTS
  TypeOK
  HangsOnlyWhileOpen
  PicsConfigured
  NothingInService
PROPERTIES
  TimerFaults
CHECK_DEADLOCK FALSE
