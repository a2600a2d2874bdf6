SPECIFICATION SafeSpec
CONSTANTS
  t1 = t1
  t2 = t2
  Threads = {t1}
  MsgLen = 2
  MaxUnits = 4
  MaxJobs = 1
  HighWaterMark = 2
  Callbacks = {}
  Usage = {"dropRef", "threadClose", "threadRead", "lateShutdown", "lateRead", "destroyServer", "stopRead", "urgent"}
INVARIANT BytesInOrder
CHECK_DEADLOCK FALSE
