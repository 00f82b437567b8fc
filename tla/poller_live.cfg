CONSTANTS
  a = a
  b = b
  Jobs = {a}
  DependsOn <- NoDeps
  Barred = {}
  Classes = {"lease_lost", "watchdog_turn_max"}
  NextLane <- TableLane
  MaxAttempts <- TableAttempts
  MaxLeases = 2
  Faults = {}
  DepsQueryRuns = FALSE
  Agents = {"v1", "v2"}
  Orchestrated = {"v2"}
  Phases = 2
  WatchdogClass = "watchdog_turn_max"
  Mishaps = {"crash", "http", "upgrade", "outage"}
SPECIFICATION FairPollerSpec
PROPERTIES LostRunStops JobComesBack
CHECK_DEADLOCK FALSE
