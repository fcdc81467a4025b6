SPECIFICATION Spec
CONSTANTS
  DeviceLines = {0, 1}
  BiosMask <- AnyMask
  TickLimit = 3
  ChecksLimits = {FALSE}
  Spurious = FALSE
INVARIANTS
  NoDeviceStopsBoot
CHECK_DEADLOCK FALSE
