SPECIFICATION Spec
CONSTANTS
  Node = {"fails", "passes"}
  Ignore = Ignore
  Path = Path
  K = K
  L = L
  Scope <- MCScope
  Made <- MCMade
  Chosen = {0, 3}
  StrayBound = 0
INVARIANTS
  CompleteMeansCollected
CHECK_DEADLOCK FALSE
