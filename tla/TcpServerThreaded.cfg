SPECIFICATION Spec
CONSTANTS
  t1 = t1
  t2 = t2
  MaxThreads = 4
  Callers = {t1, t2}
INVARIANTS TypeOK ShutdownSafe
PROPERTIES StartCompletes DestructorReturns
CHECK_DEADLOCK FALSE
