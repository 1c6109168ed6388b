SPECIFICATION Spec
CONSTANTS
  Configs <- AllConfigs
  DeviceLists <- Lists
  Pgsize = 4
  PoolLen = 8
  Dists <- TwoDists
  None = None
CHECK_DEADLOCK FALSE
INVARIANTS
  RegisteredIsMapped CleanupMatchesSetup RunsOnlyWhenUp
