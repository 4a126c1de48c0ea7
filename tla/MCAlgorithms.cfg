CONSTANTS
  IdBits = 3
  MaxObserved = 5
  ExactRange = 3
  MaxValue = 5
  MaxSamples = 4
  ByteBits = 1
  Polynomial = {2, 3}
  MaxMessage = 16
  HeaderCrc <- SmallHeaderCrc
  PayloadCrc <- SmallPayloadCrc
  Samples = {0, 1}
  Tags = {0, 1}
  ChannelCount = 1
SPECIFICATION AlgorithmsSpec
INVARIANTS
  SpanAccounted
  NoAnomalyIffConsecutive
  MissingBoundsLoss
  PercentileIsExact
  CrcIsBitwise
  ParserIsExact
\* Every algorithm stops at the bound of its input.
CHECK_DEADLOCK FALSE
