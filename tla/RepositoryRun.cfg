SPECIFICATION FairSpec
CONSTANTS
  Plans <- MCPlans
  DisturbanceBound = 2
INVARIANTS
  TypeOK
  EvidenceIsKept
  ChecksAreIndependent
  WorkspaceIsAccountedFor
  RepositoryIsVerified
PROPERTIES
  ContractSpec
  RunReturns
CHECK_DEADLOCK FALSE
