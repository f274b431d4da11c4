SPECIFICATION Spec
CONSTANTS
  max_register_attempts = 2
  MaxStarts = 2
  Steps = {0, 1, 2}
  Limits = {0, 1, 3}
  MaxHead = 3
  Deployments <- MCDeployments
INVARIANTS
  UpOnlyRegistered
  StartsAsConfigured
  ScanFindsLatest
  WatchIsFinal
PROPERTIES
  StartEnds
  FinalityIsPublished
CHECK_DEADLOCK FALSE
