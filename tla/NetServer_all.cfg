SPECIFICATION FairSpec
CONSTANTS
  FD = {f1, f2}
  NoFd = NoFd
  Listener = Listener
  MaxConnect = 3
  ConnBound = 4
INVARIANTS TypeOK CountCovers SlotsSound NoLeak ReservedForGreeter
PROPERTIES RequestServed StopsServing
CHECK_DEADLOCK FALSE
