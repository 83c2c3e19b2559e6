CONSTANTS
  Keys = {k1, k2, k3}
  Vals = {0, 1}
  Default = 0
  Absent = Absent
SPECIFICATION Spec
INVARIANTS
  TypeOK
  ListAndSlotsAgree
PROPERTIES
  ImplementsRecencyMap
