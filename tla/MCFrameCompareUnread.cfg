CONSTANTS
  Frames <- SomeFrames
  MaxFrames = 2
  MaxUnread = 1
  TornSides = {}
SPECIFICATION Spec
INVARIANT
  ExitZeroComparesAll
