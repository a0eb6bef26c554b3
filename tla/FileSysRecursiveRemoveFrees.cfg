SPECIFICATION Spec
CONSTANTS
  NumSectors = 11
  NumDirEntries = 2
  Names = {a, b}
  MaxDepth = 2
  MaxCalls = 6
  NoName = NoName
  CheckedPaths = TRUE
  CrashDuring = {}
INVARIANT
  RecursiveRemoveFrees
CHECK_DEADLOCK FALSE
