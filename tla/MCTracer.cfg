CONSTANTS
  Addresses <- MCAddresses
  Slots <- MCSlots
  HeaderFields = {"balance", "code"}
  Values = {0, 1}
  NONE = NONE
  NoSlot = NoSlot
  Absent = Absent
  InitialWorld <- MCInitialWorld
  MaxTxs = 2
SPECIFICATION TraceSpec
CHECK_DEADLOCK FALSE
INVARIANTS
  ReadsAreTheTouched
  WritesCoverTheChanges
