SPECIFICATION SafeSpec
CONSTANTS
  t1 = t1
  Threads = {t1}
  MsgLen = 2
  MaxUnits = 2
  MaxJobs = 2
  HighWaterMark = 2
  Callbacks = {}
  Usage = {"dropRef"}
INVARIANT ChannelOutlivesHandler
CHECK_DEADLOCK FALSE
