\* One pass over the list does not sort three devices.
SPECIFICATION EnvSpec
CONSTANTS
  Procs = {p1}
  Systems <- Three
  Commands <- AtuOnly
  MaxVersion = 0
  MaxOrphans = 0
  Faults = {}
INVARIANTS Sorted
