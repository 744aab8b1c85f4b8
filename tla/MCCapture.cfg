CONSTANTS
  MaxPacketsPerLoop = 10
SPECIFICATION CaptureSpec
INVARIANTS
  CaptureTypeOK
  NoPollAfterClose
PROPERTIES
  DestructionEnds
CHECK_DEADLOCK FALSE
