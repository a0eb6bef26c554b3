SPECIFICATION Spec
CONSTANTS
  N = 3
  Producers = {p1, p2}
  Consumers = {c1, c2}
  READER_QUEUE_SIZE = 1
  WORKER_QUEUE_SIZE = 2
  WRITER_QUEUE_SIZE = 1
  low_threshold = 1
  high_threshold = 1
  NoItem = NoItem
INVARIANTS
  ExactlyOnce
  VectorIsWorkforce
PROPERTY
  WriterFinishes
CHECK_DEADLOCK FALSE
