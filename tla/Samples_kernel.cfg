SPECIFICATION BoardSpec
CONSTANTS
  Producer = {p1, p2, p3}
  Consumer = {c1, c2}
  BufferSize = 2
  IntRange = 3
  MutexThread = {1, 2, 3}
  MaxValue = 4
  Sender = {s1, s2, s3}
  Receiver = {r1, r2}
  QueueSize = 1
  MaxCount = 3
  Worker = {w1, w2, w3, w4}
  MachineNumber = 2
  Word = 64
  MaxElapsed = 50
INVARIANTS StockSafe MutexSafe
PROPERTIES Implements NoStarvation MessagesGoOn WorkersServed MainUndisturbed
CHECK_DEADLOCK FALSE
