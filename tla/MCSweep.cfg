CONSTANTS
  Policies <- MCPolicies
  WINDOWS <- MCWindows
  CAPACITY_PCTS <- MCPcts
  Stats <- MCStats
  StrataFile <- MCStrataFile
  Shards <- MCShards
  Threads = 2
  NONE = NONE
  MaxSweeps = 2
  MaxFailures = 1
SPECIFICATION Spec
CHECK_DEADLOCK FALSE
INVARIANTS
  CellsFollowTheStream
  RunsAreBacked
