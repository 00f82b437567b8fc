CONSTANTS
  i1 = i1
  i2 = i2
  s1 = s1
  s2 = s2
  None = None
  Items = {i1, i2}
  Stories = {s1, s2}
  StoryOf <- TwoStories
  Agents = {a1}
  DependsOn <- SecondAfterFirst
  MaxRetries = 0
  MaxStale = 0
  Calls = {"cancel", "complete", "reclaim"}
  Faults = {"check", "late", "lost_answer", "restart"}
SPECIFICATION Spec
INVARIANTS TypeOK OneClaimEach WorkAfterDeps NoSlowTier
PROPERTIES TerminalLeftByEnqueue
