SPECIFICATION Spec
CONSTANTS
  Spaces = {s1, s2}
  Names = {n1, n2}
  s1 = s1
  s2 = s2
  n1 = n1
  n2 = n2
  Values <- MCValues
  DataBuffer = 2
  SpaceSlots = 2
  NameSlots = 2
  SectorSize = 4
  MaxMishaps = 1
  MaxFails = 1
SYMMETRY MCSymmetry
INVARIANTS TypeOK OnePlace EntriesApart
PROPERTY KeepsContract
