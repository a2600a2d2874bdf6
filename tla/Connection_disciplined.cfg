SPECIFICATION Spec
CONSTANTS
  t1 = t1
  Threads = {t1}
  MsgLen = 2
  MaxUnits = 4
  MaxJobs = 2
  HighWaterMark = 2
  Callbacks = {"writeComplete", "highWater"}
  Usage = {"stopRead"}
INVARIANTS TypeOK BytesInOrder WriteInterest FinAfterOutput NoAbort
PROPERTIES ClosesComplete OutputDrains
CHECK_DEADLOCK FALSE
