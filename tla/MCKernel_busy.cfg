SPECIFICATION FairSpec
CONSTANTS
  Xfers = {x1, x2}
  Requests <- BusyRequests
  Cap = 6
  RcvBuf = 2
  PcSpan = 131072
  ParallelOps = TRUE
  Faults = {"bus"}
  DevInit = {0, 1}
  DevRead <- RegRead
  DevWrite <- RegWrite
  OtherAccess <- RegOther
  MaxLen = 0
  MaxEmit = 0
  Cells = {0, 1}
INVARIANTS LockHeld
PROPERTIES Isolated Completes
