SPECIFICATION SSpec
CONSTANTS
  FD = {f1, f2}
  NoFd = NoFd
  Listener = Listener
  MaxConnect = 3
  ConnBound = 3
PROPERTY MessageReachesFA
CHECK_DEADLOCK FALSE
