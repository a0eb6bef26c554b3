SPECIFICATION Spec
SYMMETRY Symmetry
CONSTANTS
  NumSectors = 11
  NumDirEntries = 2
  Names = {a, b}
  MaxDepth = 2
  MaxCalls = 6
  NoName = NoName
  CheckedPaths = TRUE
  CrashDuring = {"Remove"}
INVARIANTS
  OneOwner
  NoOtherLeak
  OpenFindsFile
  ListingExact
PROPERTIES
  OthersUntouched
CHECK_DEADLOCK FALSE
