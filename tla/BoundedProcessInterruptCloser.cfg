SPECIFICATION Spec
CONSTANTS
  Modes = {"capture"}
  PipeCapacity = 1
  ChunkSize = 2
  OutputBound = 1
  FaultBound = 1
  LapseBound = 0
  Interruptible = TRUE
INVARIANTS
  SoleCloser
CHECK_DEADLOCK FALSE
