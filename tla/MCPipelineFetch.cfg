SPECIFICATION PFairSpec
CONSTANTS
  Msg <- MCMsg
  BlockContents <- LiveBlocks
  Sequenced <- L2Sequenced
  MaxBlocks = 2
  MaxIdx = 4
  StartingPositions = {1}
  StartingHeights = {0}
  max_full_queue_entries = 2
  HOTSHOT_RANGE_LIMIT = 3
  HotshotChannelCapacity = 1
  FeedCapacity = 3
  MaxFailures = 1
  MaxReorgs = 0
PROPERTIES
  ReachesL1
