SPECIFICATION Spec
CONSTANTS
  Invocations <- MCInvocations
  Followed <- MCFollowed
  DeviationBound = 0
INVARIANT FixIsSelectedAlone
CHECK_DEADLOCK FALSE
