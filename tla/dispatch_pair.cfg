CONSTANTS
  a = a
  b = b
  held = held
  Jobs <- ThreeJobs
  DependsOn <- BAfterA
  Barred = {held}
  Classes = {"lease_lost"}
  NextLane <- TableLane
  MaxAttempts <- TableAttempts
  MaxLeases = 1
  Faults = {"operator", "write_fails", "restart"}
  DepsQueryRuns = TRUE
SPECIFICATION Spec
INVARIANTS HeldOrBeingFreed BarredNeverRuns
PROPERTIES DependencyRanFirst
