SPECIFICATION RSpec
CONSTANTS
  Msg <- MCMsg
  BlockContents <- RestartBlocks
  Sequenced <- DelayedSequenced
  MaxBlocks = 4
  MaxIdx = 3
  StartingPositions = {1}
  StartingHeights = {1}
  max_full_queue_entries = 2
  HOTSHOT_RANGE_LIMIT = 3
  HotshotChannelCapacity = 1
  FeedCapacity = 3
  MaxFailures = 1
  MaxReorgs = 1
CONSTRAINTS
  BlocksOnce
  RelayIdle
  FewCertificates
INVARIANTS
  L1InEspressoOrder
  OnlyStubsAreMissed
  HoldsWhatL1MayNeed
  VerifyLoopAgrees
  SplittingIsNeutral
