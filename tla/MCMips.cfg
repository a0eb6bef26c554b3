SPECIFICATION Spec
CONSTANTS
  ByteBits = 2
  PageSize = 8
  NumPhysPages = 4
  Programs <- MCPrograms
  Registers0 <- MCRegisters0
  Tables <- MCTables
  BitAnd <- WordAnd
  BitOr <- WordOr
  BitXor <- WordXor
CHECK_DEADLOCK FALSE
INVARIANTS
  InterruptsInvisible
  UnalignedPairs
  StoresConfined
PROPERTIES
  ArithmeticExact
  FaultsRestart
