CONSTANTS
  BufferFrames = 2
  PipeFrames = 1
  SampleRate = 3
  ClockFrequency = 2
  NoReading = NoReading
  MaxReleased = 4
SPECIFICATION Spec
INVARIANT ComBalanced
CHECK_DEADLOCK FALSE
