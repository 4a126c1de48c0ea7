CONSTANTS
  Frames <- SomeFrames
  MaxFrames = 3
  MaxUnread = 0
  TornSides = {"actual"}
SPECIFICATION Spec
INVARIANTS
  Accounted
  VerdictIsExact
  InPlaceDamage
  MergeIsExact
