SPECIFICATION Spec
CONSTANTS
  Msg = {"a", "b"}
  BlockContents <- MCBlocks
  MaxBlocks = 4
  MaxIdx = 4
  StartingPositions = {0, 2}
  StartingHeights = {0, 1}
  max_full_queue_entries = 2
  HOTSHOT_RANGE_LIMIT = 3
  HotshotChannelCapacity = 1
  FeedCapacity = 1
INVARIANTS
  TypeOK
  QueueWithinCap
  NoMessageLost
  FirstInclusionWins
  FeedInOrderWithoutGaps
  FeedFollowsEspresso
  PollerCoversEveryHeight
  RetryNotForgotten
  LoopsAgree
PROPERTIES
  ForgetsOnlyFinal
