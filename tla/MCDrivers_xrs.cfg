\* The value of a masked write is encoded twice by the xrs driver.
SPECIFICATION Spec
CONSTANTS
  Xfers = {x1}
  Requests <- OpRequests
  Cap = 6
  RcvBuf = 2
  PcSpan = 131072
  ParallelOps = FALSE
  Faults = {"bus"}
  DevInit <- Devices
  DevRead <- BusRead
  DevWrite <- BusWrite
  OtherAccess <- BusOther
  BenchReads = 2
  Values = {0, 3}
  Registers <- SomeRegisters
  MaskedValues = {1}
  Masks = {2}
  OpKinds = {"write"}
  XrsMasked = TRUE
INVARIANTS MaskedWriteEffect
