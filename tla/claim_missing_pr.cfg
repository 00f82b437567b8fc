CONSTANTS
  a = a
  b = b
  Jobs = {a}
  DependsOn <- NoDeps
  Barred = {}
  Classes = {"lease_lost", "watchdog_turn_max"}
  NextLane <- TableLane
  MaxAttempts <- TableAttempts
  MaxLeases = 2
  Faults = {}
  DepsQueryRuns = FALSE
  Agents = {"v1"}
  Orchestrated = {}
  Phases = 1
  WatchdogClass = "watchdog_turn_max"
  Mishaps = {}
SPECIFICATION PollerSpec
INVARIANTS RerunHasReason
CHECK_DEADLOCK FALSE
