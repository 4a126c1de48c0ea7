CONSTANTS
  Frames = {f1, f2, f3}
  Torn = Torn
  Capacity = 2
  ExpectedFrames = 7
SYMMETRY FrameSymmetry
SPECIFICATION MemorySpec
INVARIANTS
  TypeOK
  SlotsDisjoint
  Conservation
  RaceFree
PROPERTY ImplementsFifo
\* The acquisition ends when every expected frame was published, and the
\* worker is then left waiting: the shutdown protocol is in module Receiver.
CHECK_DEADLOCK FALSE
