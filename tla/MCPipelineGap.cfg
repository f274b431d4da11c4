SPECIFICATION PSpec
CONSTANTS
  Msg <- MCMsg
  BlockContents <- DelayedBlocks
  Sequenced <- DelayedSequenced
  MaxBlocks = 3
  MaxIdx = 3
  StartingPositions = {1}
  StartingHeights = {0}
  max_full_queue_entries = 2
  HOTSHOT_RANGE_LIMIT = 3
  HotshotChannelCapacity = 1
  FeedCapacity = 3
  MaxFailures = 0
  MaxReorgs = 0
INVARIANTS
  L1FollowsEspresso
