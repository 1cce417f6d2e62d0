SPECIFICATION Spec
CONSTANTS
  a = a
  b = b
  Role <- Bugfix
  Keys = {a, b}
  Owner <- TestOwned
  KeepsBranch = FALSE
  Flags = {"blocked", "resolved"}
  Faults = {"federation", "sa", "merge"}
  MaxAsks = 1
  MaxOpens = 0
  MaxCrashes = 0
  MaxReopens = 0
  MaxSweeps = 0
CHECK_DEADLOCK FALSE
INVARIANTS
  PhasesInOrder
  RoundsBounded
PROPERTY
  SurvivalCountsFixes FollowsLifecycle
