SPECIFICATION FairSpec
CONSTANTS
  a = a
  b = b
  Role <- Short
  Keys = {a}
  Owner <- OneOwned
  KeepsBranch = FALSE
  Flags = {"resolved", "blocked", "failed"}
  Faults = {"worktree", "raise", "escape", "federation", "sa", "commit", "merge", "conflict"}
  MaxAsks = 1
  MaxOpens = 1
  MaxCrashes = 1
  MaxReopens = 1
  MaxSweeps = 1
CHECK_DEADLOCK FALSE
INVARIANTS
  TypeOK
  NothingLost
  ResolvedMeansMerged
PROPERTIES
  
  RunEnds
