\* DATA holds words no EMIT put there when ERROR fits a message and NLMSG_DONE does not.
SPECIFICATION Spec
CONSTANTS
  Xfers = {x1}
  Requests <- EmitRequests
  Cap = 6
  RcvBuf = 4
  PcSpan = 131072
  ParallelOps = FALSE
  Faults = {"bus"}
  DevInit = {0, 1}
  DevRead <- RegRead
  DevWrite <- RegWrite
  OtherAccess <- RegOther
  MaxLen = 0
  MaxEmit = 8
  Cells = {0, 1}
INVARIANTS OnlyEmittedInData
