SPECIFICATION TestSpec
CONSTANTS
  Producers = {p1, p2}
  Consumers = {c1, c2, c3}
  Threads = {p1, p2, c1, c2, c3}
  Items = {p1, p2}
  buffer_size = 2
  NoThread = NoThread
  NoItem = NoItem
  MaxSpurious = 1
INVARIANTS
  NoLostWakeup
PROPERTIES
  ImplementsBoundedQueue
  AllReturn
CHECK_DEADLOCK FALSE
