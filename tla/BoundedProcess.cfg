SPECIFICATION FairSpec
CONSTANTS
  Modes = {"inherit", "consume"}
  PipeCapacity = 1
  ChunkSize = 2
  OutputBound = 2
  FaultBound = 1
  LapseBound = 2
  Interruptible = TRUE
INVARIANTS
  TypeOK
  AcceptedOutputIsComplete
  SoleCloserWhenRegistered
  AbandonedChildIsKilled
  EarlyCleanupIsComplete
PROPERTIES
  NoLateConsumer
  ContractSpec
  EveryCallEnds
  FailureEndsAll
CHECK_DEADLOCK FALSE
