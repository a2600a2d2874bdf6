SPECIFICATION SafeSpec
CONSTANTS
  a = a
  b = b
  Timers = {a, b}
  NoTimer = NoTimer
  Delays = {0, 2}
  Intervals = {0, 1}
  MaxTime = 3
INVARIANT RunningTimerExists
CHECK_DEADLOCK FALSE
