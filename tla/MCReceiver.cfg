CONSTANTS
  Frames = {f1, f2}
  Torn = Torn
  Capacity = 3
  ExpectedFrames = 6
  FlushEvery = 3
SPECIFICATION FairSpec
INVARIANTS
  TypeOK
  StoredIsPrefix
  ExitZeroIsClean
  OverrunReachesHighWater
  FlushKeepsUp
  FailureStopsAcquisition
PROPERTIES
  UsesQueue
  LostNotifyRepaired
  EndsUnlessWakeupLost
