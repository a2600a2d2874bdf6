SPECIFICATION Spec
CONSTANTS
  a = a
  b = b
  Timers = {a, b}
  NoTimer = NoTimer
  Delays = {0, 2}
  Intervals = {0, 1}
  MaxTime = 3
INVARIANTS TypeOK OnePlace UseAfterFreeExplained ArmedForFirst
PROPERTIES TimerExpires
CHECK_DEADLOCK FALSE
