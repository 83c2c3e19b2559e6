CONSTANTS
  a1 = a1
  a2 = a2
  Addresses <- MCAddresses
  NodeWidth = 2
  HeaderOffset = 1
  NoSlot = NoSlot
  Keys <- MCKeys
  LeafCapacity = 2
  StemCapacity = 1
  Retention = 2
  Sinks <- MCSinks
  InStratum <- MCInStratum
  MaxReads = 2
  MaxReadsInAll = 5
  MaxWrites = 1
  MaxGap = 2
  LastBlock = 4
SPECIFICATION Spec
CHECK_DEADLOCK FALSE
INVARIANTS
  TypeOK
  WindowsMatchPolicies
  WithinRetention
  WrittenIsForgotten
  WarmOnlyIfHeldOnArrival
  BooksBalance
  StrataAddUp
  BytesDoNotUnderflow
