SPECIFICATION Spec
CONSTANTS
  Xfers = {x1}
  Requests <- AllRequests
  Cap = 6
  RcvBuf = 2
  PcSpan = 131072
  ParallelOps = FALSE
  Faults = {"bus", "nomem", "peer"}
  DevInit = {0, 1}
  DevRead <- RegRead
  DevWrite <- RegWrite
  OtherAccess <- RegOther
  MaxLen = 2
  MaxEmit = 14
  Cells = {0, 1}
INVARIANTS TypeOK NoBug RefsBalance OwnsMessage DataIsEmitted OneDone
CHECK_DEADLOCK TRUE
