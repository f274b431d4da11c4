SPECIFICATION Spec
CONSTANTS
  MAX_SEGMENTS = 3
  Items <- MCItems
  MaxItems = 4
  QueueMsgs <- MCQueueMsgs
  Size <- MCSize
  Encodable <- MCEncodable
  HeaderSize = 12
  LEN_SIZE = 8
  INDEX_SIZE = 8
  HOTSHOT_TX_PAYLOAD_MAX_SIZE = 31
  HeaderBytes <- MCHeaderBytes
  Json <- MCJson
  Rlp <- MCRlp
  NoSigner = 0
  SignedParts <- MCSignedParts
  trusted_sequencer_addresses = {3}
  legacy_signer_addresses = {5}
  Chunks <- MCChunks
  MaxChunks = 4
  Cuts = {1, 2, 9, 12}
  MaxMsgs = 4
  MaxBlocks = 3
  Messages <- MCMessages
  CERT_HEADER_SIZE_V0 = 32
  CAS_SIG_SIZE = 65
  SEQUENCER_HEADER_LEN = 40
  Verdicts <- MCVerdicts
INVARIANTS
  ReplayFollowsQueue
  ReadsWhatWasFramed
  BuiltIsReadBack
  RlpRoundTrip
  TakesOffWhatWasPutOn
CHECK_DEADLOCK FALSE
