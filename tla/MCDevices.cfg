SPECIFICATION Spec
CONSTANTS
  Workloads <- MCWorkloads
  Keyboards <- MCKeyboards
  SystemTick = 2
  UserTick = 1
  ConsoleTime = 3
  TimerTicks = 5
  RotationTime = 4
  SeekTime = 3
  SectorsPerTrack = 3
  Delays = {4, 7}
CHECK_DEADLOCK FALSE
INVARIANTS
  FiredInOrder
  HaltStrandsOnlyReaders
PROPERTIES
  LatencyExact
