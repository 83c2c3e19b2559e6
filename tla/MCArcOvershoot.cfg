CONSTANTS
  Keys = {k1, k2, k3, k4, k5}
  Capacity = 2
  MaxUses = 3
SPECIFICATION Spec
INVARIANTS
  CapacityNeverExceeded
