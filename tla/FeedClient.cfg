SPECIFICATION FairSpec
CONSTANTS
  FirstSeq = 1
  MaxSeq = 4
  MaxFrame = 2
  MaxStream = 2
  ChannelCapacity = 2
  MaxDrops = 2
  MaxBad = 1
  MaxFatal = 1
INVARIANTS
  EachOnceInOrder
PROPERTIES
  EventuallyPassedOn
CHECK_DEADLOCK FALSE
