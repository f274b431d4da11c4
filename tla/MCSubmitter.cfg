SPECIFICATION FairSpec
CONSTANTS
  Size <- MCSize
  Encodable = {1, 3, 4}
  HeaderSize = 1
  LEN_SIZE = 1
  HOTSHOT_TX_PAYLOAD_MAX_SIZE = 5
  MaxMsgs = 4
  ChannelCapacity = 2
  max_in_flight = 2
  max_finalization_poll_retries = 2
  MaxFaults = 1
INVARIANTS
  PackedInFeedOrder
PROPERTIES
  RoundConsumesAMessage
  ImplementsDelivery
  EventuallyOnEspresso
CHECK_DEADLOCK FALSE
