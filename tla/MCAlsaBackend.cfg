CONSTANTS
  Periods <- MCPeriods
  PauseSupport = {TRUE, FALSE}
  BufferFrames = 3
  MaxFrames = 5
  MaxSuspends = 1
SPECIFICATION FairSpec
INVARIANTS
  PcmLifetime
  ClockIsAccepted
  PositionNotAhead
PROPERTIES
  StopOfUnpausedTerminates
  ImplementsLifecycle
CHECK_DEADLOCK FALSE
