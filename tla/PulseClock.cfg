CONSTANTS
  None = None
  Requests <- MCRequests
  MaxU32 = 60000
  ServerCap = 2
  MaxRendered = 3
  MaxToggles = 3
SPECIFICATION Spec
INVARIANT ClockCountsPlayed
CHECK_DEADLOCK FALSE
