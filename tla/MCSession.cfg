CONSTANTS
  FrameParts = 2
  StreamSpace = 2
  CommandLines <- SmallCommandLines
  Simulated = Simulated
  SegmentFrames = 1
  Frames = {1, 2}
  Torn = Torn
  Capacity = 1
  ExpectedFrames = 2
  FlushEvery = 2
SPECIFICATION FairSession
INVARIANTS SessionTypeOK RefusalsExplained SentCaptureCovers
PROPERTIES ImplementsChannel SessionEnds
CHECK_DEADLOCK FALSE
