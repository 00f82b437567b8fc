CONSTANTS
  a = a
  b = b
  held = held
  Jobs <- OneJob
  DependsOn <- NoDeps
  Barred = {}
  Classes = {"lease_lost", "quota_exceeded", "dependency_missing", "unknown", "dependency_unresolved_7d"}
  NextLane <- TableLane
  MaxAttempts <- TableAttempts
  MaxLeases = 3
  Faults = {"restart", "write_fails", "claim_by_id", "operator"}
  DepsQueryRuns = TRUE
SPECIFICATION Spec
INVARIANTS TypeOK ReviewUnheld HeldOrBeingFreed RetryBudget
PROPERTIES RestIsBroken LeasesAsPromised
