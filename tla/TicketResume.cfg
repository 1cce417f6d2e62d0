SPECIFICATION Spec
CONSTANTS
  a = a
  b = b
  Role <- Bugfix
  Keys = {a}
  Owner <- OneOwned
  KeepsBranch = FALSE
  Flags = {}
  Faults = {}
  MaxAsks = 0
  MaxOpens = 0
  MaxCrashes = 1
  MaxReopens = 0
  MaxSweeps = 0
CHECK_DEADLOCK FALSE
INVARIANT
  PhasesInOrder
