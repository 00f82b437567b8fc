CONSTANTS
  a = a
  b = b
  Jobs = {a}
  DependsOn <- NoDeps
  Barred = {}
  Classes = {"lease_lost", "watchdog_turn_max"}
  NextLane <- TableLane
  MaxAttempts <- TableAttempts
  MaxLeases = 2
  Faults = {}
  DepsQueryRuns = FALSE
  Agents = {"v1", "v2"}
  Orchestrated = {"v2"}
  Phases = 1
  WatchdogClass = "watchdog_turn_max"
  Mishaps = {"stop", "crash", "http", "upgrade", "hang"}
SPECIFICATION PollerSpec
INVARIANTS PollerTypeOK RunsHeld OneRunPerJob
PROPERTIES Spec
CHECK_DEADLOCK FALSE
