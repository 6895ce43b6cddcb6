CONSTANTS
  None = None
  NaN = NaN
  Requests <- MCRequests
  VolumeArgs <- MCVolumeArgs
  CaptureCap = 3
  Slices = 2
  MaxPeriods = 2
  MaxForeign = 1
SPECIFICATION FairSpec
INVARIANTS
  TypeOK
  ClockExact
  CaptureFaithful
  RenderedWhole
  PromptStop
PROPERTIES
  NeverReentered
  StopTerminates
  KeepsRendering
  ImplementsAudioStream
CHECK_DEADLOCK FALSE
