CONSTANTS
  BufferFrames = 2
  PipeFrames = 1
  SampleRate = 3
  ClockFrequency = 2
  NoReading = NoReading
  MaxReleased = 4
SPECIFICATION FairSpec
INVARIANTS
  ObjectLifetime
  LatencyBounded
PROPERTIES
  StopTerminates
  ImplementsAudioStream
CHECK_DEADLOCK FALSE
