\* The lists of ports in JSON are not emptied from one VLAN to the next.
SPECIFICATION ViewSpec
CONSTANTS
  Views <- SomeViews
INVARIANTS JsonOneState
