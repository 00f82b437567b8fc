CONSTANTS
  Null = Null
  Jobs = {j1, j2, j3}
  Stories = {s}
  Keys = {k1}
  IdemKeys = {i1}
  Handlers = {h1, h2}
  ReuseGate = FALSE
  ForcedCancelRuns = TRUE
  Events = {"failed", "requeued", "quarantined"}
SPECIFICATION Spec
SYMMETRY Symmetry
INVARIANTS TypeOK DuplicatesOverlap LineageExclusive IdempotentButForSiblings
