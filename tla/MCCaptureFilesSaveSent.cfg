CONSTANTS
  SegmentFrames = 2
  FlushEvery = 0
  MaxFrames = 5
  MaxRuns = 1
SPECIFICATION Spec
INVARIANT SuccessIsComplete
\* The last process that the bound allows has ended.
CHECK_DEADLOCK FALSE
