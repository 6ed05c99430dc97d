CONSTANTS
  Workers = {w1, w2}
  Callers = {c1, c2}
  MaxQueueSize = 2
  MaxTasks = 4
  Producers = {p1, p2, p3}
  Consumers = {c1, c2}
  QueueSize = 2
  MaxPuts = 5
  Capacity = 3
  MaxBuffers = 2
  MaxLines = 7
  Lengths = {1, 2}
  RollSize = 5
  FlushInterval = 1
  CheckEveryN = 2
  Period = 4
  MaxTime = 10
  MaxAppends = 3
SPECIFICATION Spec
INVARIANTS TypeOK HandedOver NoLostNotify InOrder FilesRolled
PROPERTY WaitsEnd
CHECK_DEADLOCK FALSE
