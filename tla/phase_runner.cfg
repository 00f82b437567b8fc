CONSTANTS
  s1 = s1
  s2 = s2
  v1 = v1
  v2 = v2
  Main = Main
  Operator = Operator
  None = None
  VMs = {v1, v2}
  Stories = {s1, s2}
  Path <- SmallScope
  Declared <- Seeds
  Required = {1}
  OnMain <- SeedOnMain
  Prewritten = {s2}
  MaxRuns <- TwoAndOne
  MaxOdd = 3
  Faults = {"crash", "push", "branch", "stash", "commit", "fail", "stray", "count", "released", "tree", "token"}
SPECIFICATION Spec
SYMMETRY EitherVM
INVARIANTS TypeOK OwnFilesOnly ReportedIsCommitted AcceptedHasCommits AcceptedKept
PROPERTIES KeepsBranches
CHECK_DEADLOCK FALSE
