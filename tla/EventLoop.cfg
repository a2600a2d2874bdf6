SPECIFICATION Spec
CONSTANTS
  t1 = t1
  t2 = t2
  c1 = c1
  c2 = c2
  j1 = j1
  j2 = j2
  e1 = e1
  Threads = {t1, t2}
  Jobs = {j1, j2, e1}
  EarlyJobs = {e1}
  NoJob = NoJob
  Channels = {c1, c2}
  WakeupChl = WakeupChl
  InitEvents = 1
  Usage = {"quitOutsideLoop", "runLvalue", "destroy"}
INVARIANTS TypeOK NoStrandedJob NoStrandedQuit
PROPERTIES RunsJobsInOrder ImplementsJobQueue ReadyIsHandled QuitReturns
CHECK_DEADLOCK FALSE
