SPECIFICATION Spec
CONSTANTS
  Main = main
  Appenders = {a1, a2}
  Removers = {r1, r2}
  Threads = {main, a1, a2, r1, r2}
  Lock = lock
  Sems = {lock, main, a1, a2, r1, r2}
  Calls = 1
  NoThread = NoThread
  NoItem = NoItem
INVARIANTS
  NoLostSignal
PROPERTIES
  ImplementsQueue
  KernelHalts
CHECK_DEADLOCK FALSE
