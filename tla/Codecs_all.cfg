SPECIFICATION BoardSpec
CONSTANTS
  BufLen = 140
  MaxBegun = 5
  MaxSent = 4
  Strings <- MCStrings
  Ids <- MCIds
  Payloads <- MCPayloads
  Lengths <- MCLengths
  Slack <- MCSlack
  Request <- MCRequest
  Middle = 11
  Port = {"ohos", "FreeRTOS"}
  Base = 2
  Remaining = {0, 3, 5}
  OwnLength = {3}
  ReadBufSize = 6
  MaxIn = 2
  MaxOut = 1
  MaxCut = 1
  sysPerTick = 3
  TickWrap = 3
  SysWrap = 8
  Interval = {0, 4}
  MaxNow = 11
INVARIANTS SymbolReadable
PROPERTIES PacketsKept PortsKept
CHECK_DEADLOCK FALSE
