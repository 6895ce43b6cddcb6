CONSTANTS
  Periods <- MCPeriods
  PauseSupport = {TRUE}
  BufferFrames = 3
  MaxFrames = 5
  MaxSuspends = 1
SPECIFICATION FairSpec
PROPERTY StopTerminates
CHECK_DEADLOCK FALSE
