SPECIFICATION Spec
CONSTANTS
  w1 = w1
  w2 = w2
  c1 = c1
  c2 = c2
  Workers = {w1, w2}
  Callers = {c1, c2}
  MaxQueueSize = 2
  MaxTasks = 6
  NoTask = NoTask
INVARIANTS TypeOK TasksInOrder NoLostWakeup QuietAfterStop
PROPERTIES TasksComplete StopReturns
CHECK_DEADLOCK FALSE
