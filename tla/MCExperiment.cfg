CONSTANTS
  Width = 8
  NoSlot = NoSlot
  Addresses = {"a", "b"}
  NodeWidth = 256
  HeaderOffset = 64
  WINDOWS <- MCWindows
  CAPACITY_PCTS <- MCPcts
  StatWindows = {1, 2}
  N_TOP_CONTRACTS = 1
  Latest = 7
  Margin = 1
  NBlocks = {0, 3, 9}
  Starts <- MCStarts
  Ends <- MCEnds
  ShardSize = 2
  Versions = {1, 2}
  Chains <- MCChains
  PlainChain <- MCPlainChain
SPECIFICATION Spec
CHECK_DEADLOCK FALSE
INVARIANTS
  AcceptedIsTheRange
  VerdictsDivideOnNothing
  CapacitiesMeasureTheData
  StrataSeparate
  LeafIsUnique
  MirrorAgrees
