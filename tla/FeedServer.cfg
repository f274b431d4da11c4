SPECIFICATION FairSpec
CONSTANTS
  Clients = {c1}
  MaxSeq = 3
  broadcast_channel_capacity = 2
  MaxConnects = 2
  MaxConfirms = 1
INVARIANTS
  BacklogIsComplete
  NoGapNoRepetition
PROPERTIES
  ReachesSubscriber
CHECK_DEADLOCK FALSE
