SPECIFICATION Spec
CONSTANTS
  ZmqModulus = 4
  MaxBurst = 2
  MaxSilent = 2
  MaxPublished = 6
  OverflowChecks = FALSE
INVARIANTS
  GapFree
PROPERTIES
  LossEndsStream
  NothingSwallowed
CHECK_DEADLOCK FALSE
