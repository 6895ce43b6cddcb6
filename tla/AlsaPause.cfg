CONSTANTS
  Periods <- MCPeriods
  PauseSupport = {TRUE}
  BufferFrames = 3
  MaxFrames = 5
  MaxSuspends = 1
SPECIFICATION Spec
INVARIANT PauseHolds
CHECK_DEADLOCK FALSE
