SPECIFICATION FairSpec
CONSTANTS
  FD = {f1}
  NoFd = NoFd
  Listener = Listener
  MaxConnect = 2
  ConnBound = 1
  ConnectTimeout = 0
  RetryCount = 0
  DirectConnect = FALSE
  AppMode = {}
PROPERTY ConfiguredIsServed
CHECK_DEADLOCK FALSE
