CONSTANTS
  None = None
  Requests <- MCRequests
  MaxU32 = 60000
  ServerCap = 2
  MaxRendered = 3
  MaxToggles = 3
SPECIFICATION FairSpec
INVARIANTS
  ConnectionLifetime
  EachPeriodHeardOnce
  ClockDrift
  AttrAccepted
PROPERTIES
  StopTerminates
  ImplementsAudioStream
CHECK_DEADLOCK FALSE
