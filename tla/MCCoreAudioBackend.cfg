CONSTANTS
  None = None
  speakers = speakers
  headset = headset
  Devices = {speakers, headset}
  Hal <- MCHal
  NumBuffers = 3
  Requests <- MCRequests
  U32 = 4096
  MaxRendered = 3
  MaxRefused = 1
  MaxToggles = 2
SPECIFICATION FairSpec
INVARIANTS
  StateLifetime
  HeardOnceInOrder
  ClockDrift
  LatencyFollowsRoute
PROPERTIES
  KeepsFilling
  ImplementsAudioStream
CHECK_DEADLOCK FALSE
