\* 25 bits for the 32 of a register number, 28 for the 64 of strtoull.
SPECIFICATION PureSpec
CONSTANTS
  Views <- SomeViews
  BenchReads = 2
  UINT32_MAX = 33554431
  ULLONG_MAX = 268435455
  Glob <- Buses
  Inputs <- AllInputs
INVARIANTS PortsShown VlansShown PvtShown AddressesShown
INVARIANTS LineMeans CyclesExist DumpsCounted DumpsWhole RequestsFit
