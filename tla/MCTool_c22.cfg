\* mmd-c22 status reads the device with Clause 45 bus cycles.
SPECIFICATION ToolSpec
CONSTANTS
  Xfers = {x1}
  Requests <- AllRequests
  Lines <- AllLines
  MaxLoads = 1
  UINT32_MAX = 33554431
  ULLONG_MAX = 268435455
  Glob <- Buses
  Cap = 938
  RcvBuf = 4
  PcSpan = 131072
  ParallelOps = FALSE
  Faults = {"bus"}
  DevInit <- ToolDevices
  DevRead <- BusRead
  DevWrite <- BusWrite
  OtherAccess <- Quiet
  BenchReads = 2
  Values = {5}
  MaxDump = 16
  CommandSet = "c22"
INVARIANTS C22Only
