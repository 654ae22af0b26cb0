SPECIFICATION Spec
CONSTANTS
  f1 = f1
  f2 = f2
  Filter = {f1, f2}
  Scripts <- MCScripts
  MaxHandlers = 1
  MaxIncoming = 1
  MaxPacketId = 3
  MaxTroubles = 1
INVARIANTS DeliveredAsPromised CallsTruthful
PROPERTIES DeadNoticed
