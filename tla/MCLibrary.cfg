SPECIFICATION LibSpec
CONSTANTS
  Keys = {0, 1, 2, 4, 6, 8}
  InitialBuckets = 2
  ResizeRatio = 1
  IncreaseSizeBy = 2
  MaxBuckets = 8
  NumBits = 7
  BitsInWord = 3
  Entries <- MCEntries
CHECK_DEADLOCK FALSE
INVARIANTS
  ContentsExact
  SelfTestsPass
PROPERTY
  IteratorComplete
