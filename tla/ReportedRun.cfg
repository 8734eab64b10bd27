SPECIFICATION Spec
CONSTANTS
  Invocations <- MCInvocations
  Followed <- MCFollowed
  DeviationBound = 2
INVARIANTS
  TypeOK
  PlanAnswersRequest
  RefusalIsExplained
  VerdictNeedsEvidence
  ThresholdIsTheOneApplied
PROPERTIES
  NothingIsForgotten
CHECK_DEADLOCK FALSE
