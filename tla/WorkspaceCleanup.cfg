SPECIFICATION FairSpec
CONSTANTS
  SubDirectory = {"sub", "other"}
  Leaf = {"file", "inner", "foreign"}
  Name = {"a", "b"}
  Contents <- MCContents
  MaxEntries = 3
  MaxDepth = 2
  MoveBound = 3
  FaultBound = 1
INVARIANTS
  TypeOK
  OnlyValidatedIsUnlinked
  SuccessIsExact
  KnownQuarantineIsReported
PROPERTIES
  FailureStopsDeletion
  CleanupReturns
CHECK_DEADLOCK FALSE
