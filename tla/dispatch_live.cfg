CONSTANTS
  a = a
  b = b
  held = held
  Jobs <- OneJob
  DependsOn <- NoDeps
  Barred = {}
  Classes = {"lease_lost"}
  NextLane <- TableLane
  MaxAttempts <- TableAttempts
  MaxLeases = 3
  Faults = {"operator", "claim_by_id"}
  DepsQueryRuns = FALSE
SPECIFICATION FairSpec
PROPERTIES DeadHolderRecovered WaitsEnd RetryGranted
