SPECIFICATION Spec
CONSTANTS
  Size <- OversizedSize
  Encodable = {1, 2}
  HeaderSize = 1
  LEN_SIZE = 1
  HOTSHOT_TX_PAYLOAD_MAX_SIZE = 5
  MaxMsgs = 2
  ChannelCapacity = 2
  max_in_flight = 2
  max_finalization_poll_retries = 2
  MaxFaults = 0
PROPERTIES
  RoundConsumesAMessage
CHECK_DEADLOCK FALSE
