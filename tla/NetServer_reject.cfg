SPECIFICATION Spec
CONSTANTS
  FD = {f1, f2, f3}
  NoFd = NoFd
  Listener = Listener
  MaxConnect = 3
  ConnBound = 4
PROPERTY RejectOnlyWhenFull
CHECK_DEADLOCK FALSE
