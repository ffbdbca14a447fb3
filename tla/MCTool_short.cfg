\* Messages with room for ten words: replies of one, two and three messages.
SPECIFICATION FairToolSpec
CONSTANTS
  Xfers = {x1}
  Requests <- AllRequests
  Lines <- AllLines
  MaxLoads = 2
  UINT32_MAX = 33554431
  ULLONG_MAX = 268435455
  Glob <- Buses
  Cap = 10
  RcvBuf = 4
  PcSpan = 131072
  ParallelOps = FALSE
  Faults = {"bus", "probe", "socket"}
  DevInit <- ToolDevices
  DevRead <- BusRead
  DevWrite <- BusWrite
  OtherAccess <- Quiet
  BenchReads = 2
  Values = {5}
  MaxDump = 13
  CommandSet = "short"
INVARIANTS Truthful NeverBlocked ErrorReported SuccessReported StatusMeans
PROPERTIES Returns Ends
