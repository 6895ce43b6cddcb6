CONSTANTS
  None = None
  Hints <- MCHints
  Granted <- MCGranted
  MinFrames = 2
  DeviceCap = 4
  MaxRendered = 5
  MaxToggles = 2
SPECIFICATION FairSpec
INVARIANTS
  FdLifetime
  ClockDrift
PROPERTIES
  StopTerminates
  ImplementsAudioStream
CHECK_DEADLOCK FALSE
