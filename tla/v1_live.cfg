CONSTANTS
  i1 = i1
  i2 = i2
  s1 = s1
  s2 = s2
  None = None
  Items = {i1}
  Stories = {s1}
  StoryOf <- OneStory
  Agents = {a1, a2}
  DependsOn <- NoDeps
  MaxRetries = 1
  MaxStale = 1
  Calls = {"pause", "question", "release", "review"}
  Faults = {"lost_answer", "restart"}
SPECIFICATION FairSpec
PROPERTIES DeadClaimReturns
