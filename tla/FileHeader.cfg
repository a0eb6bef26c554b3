SPECIFICATION Spec
CONSTANTS
  NumSectors = 48
  SectorSize = 2
  NumDirect = 3
  Files = {f, g}
  Sizes = {0, 1, 6, 7, 18, 19, 54, 55}
  MaxCalls = 4
  Absent = Absent
INVARIANTS
  OneOwner
  ByteToSectorOK
PROPERTIES
  CreatedComplete
  RemovesComplete
CHECK_DEADLOCK FALSE
