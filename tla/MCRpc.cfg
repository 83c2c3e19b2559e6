CONSTANTS
  Kinds = {"writes", "timestamp"}
  MaxConcurrency = 2
  MaxAttempts = 2
  NWorkers = 2
  NBlocks = 2
  MaxFetches = 2
SPECIFICATION Spec
CHECK_DEADLOCK FALSE
INVARIANTS
  CountersAgree
PROPERTIES
  EveryFetchEnds
