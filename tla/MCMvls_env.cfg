SPECIFICATION EnvSpec
CONSTANTS
  Procs = {p1, p2}
  Systems <- Pair
  Commands <- AllCommands
  MaxVersion = 1
  MaxOrphans = 1
  Faults = {"query", "new", "read", "del", "kill"}
SYMMETRY Symmetry
INVARIANTS Coherent NoLeak Complete
PROPERTIES OnlyOwnDeleted
