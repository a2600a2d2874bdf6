SPECIFICATION Spec
CONSTANTS
  Byte = {0, 1, 2}
  Zero = 0
  KCheapPrepend = 2
  InitialSize = 2
  ExtraBuf = 2
  Inputs <- MCInputs
  MaxReadable = 4
INVARIANTS TypeOK AssertionsHold
PROPERTIES GrowsOnlyWhenFull ImplementsByteQueue
CHECK_DEADLOCK FALSE
