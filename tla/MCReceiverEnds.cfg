CONSTANTS
  Frames = {f1}
  Torn = Torn
  Capacity = 2
  ExpectedFrames = 2
  FlushEvery = 2
SPECIFICATION FairSpec
PROPERTY ReceiverEnds
