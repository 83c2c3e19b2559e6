CONSTANTS
  Keys = {k1, k2, k3, k4, k5, k6, k7}
  Capacity = 3
  MaxUses = 3
SYMMETRY KeySymmetry
SPECIFICATION Spec
INVARIANTS
  TypeOK
  LfuBucketsMatch
  LfuMinReachesBucket
  ArcListsDisjoint
  ArcDirectoryBounded
  OccupancyBounded
PROPERTIES
  VictimIsJustified
  ImplementsResidentSet
