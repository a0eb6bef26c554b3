SPECIFICATION Spec
CONSTANTS
  Main = main
  Threads = {main, t1, t2, t3}
  Lock = lock
  Done = done
  Sems = {lock, done}
  Calls = 2
  NoThread = NoThread
INVARIANTS
  ThreadsPlaced
  InterruptMatched
PROPERTY
  KernelHalts
CHECK_DEADLOCK FALSE
