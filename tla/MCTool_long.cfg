\* The size of a message on a machine with 4 kB pages, and the longest programs.
SPECIFICATION ToolSpec
CONSTANTS
  Xfers = {x1}
  Requests <- AllRequests
  Lines <- AllLines
  MaxLoads = 1
  UINT32_MAX = 33554431
  ULLONG_MAX = 268435455
  Glob <- Buses
  Cap = 938
  RcvBuf = 4
  PcSpan = 131072
  ParallelOps = FALSE
  Faults = {}
  DevInit <- ToolDevices
  DevRead <- BusRead
  DevWrite <- BusWrite
  OtherAccess <- Quiet
  BenchReads = 2
  Values = {5}
  MaxDump = 16
  CommandSet = "long"
CONSTRAINT FreshDevice
INVARIANTS SuccessReported NeverMore LayoutRight
