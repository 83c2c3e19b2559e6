CONSTANTS
  Contracts = {1, 2, 3}
  Ages <- MCAges
  Outcomes <- MCOutcomes
  Label <- MCLabel
  TopK = 2
  MaxSurvivals = 2
  MaxInvalidations = 3
  MaxBlocks = 2
SPECIFICATION MetricsSpec
CHECK_DEADLOCK FALSE
INVARIANTS
  RowMatchesSeries
  TalliesAreExact
