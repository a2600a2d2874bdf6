SPECIFICATION Spec
CONSTANTS
  c1 = c1
  c2 = c2
  c3 = c3
  f1 = f1
  f2 = f2
  Conns = {c1, c2, c3}
  Fds = {f1, f2}
  NoFd = NoFd
  AcceptChl = AcceptChl
  Timer = Timer
  MaxPhantoms = 1
INVARIANTS TypeOK ActiveChannelsExist ConnectionsAgree DescriptorsOwned
PROPERTIES ConnectionFreed
CHECK_DEADLOCK FALSE
