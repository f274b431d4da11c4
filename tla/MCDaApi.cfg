SPECIFICATION Spec
CONSTANTS
  Batches = {b1, b2}
  Sizes = {1, 2, 3, 5}
  Configs <- MCConfigs
  calldata_max_size = 4
  ESPRESSO_CERT_SIZE = 2
  MaxStarts = 2
INVARIANTS
  SignedOnlyVerified
  RecoverFindsTheBatch
  FallbackJustified
SYMMETRY Symmetry
CHECK_DEADLOCK FALSE
