SPECIFICATION Spec
CONSTANTS
  t1 = t1
  MaxThreads = 3
  Callers = {t1}
PROPERTY DestructorAlwaysReturns
CHECK_DEADLOCK FALSE
