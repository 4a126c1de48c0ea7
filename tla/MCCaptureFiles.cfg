CONSTANTS
  SegmentFrames = 4
  FlushEvery = 2
  MaxFrames = 9
  MaxRuns = 3
SPECIFICATION Spec
INVARIANTS
  ConfirmedIsReadable
  RunIsPrefix
  SuccessIsComplete
  StaleOnlyAfter
\* The last process that the bound allows has ended.
CHECK_DEADLOCK FALSE
