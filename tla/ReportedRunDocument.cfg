SPECIFICATION Spec
CONSTANTS
  Invocations <- MCInvocations
  Followed <- MCFollowed
  DeviationBound = 1
INVARIANT OneDocumentIsEmitted
CHECK_DEADLOCK FALSE
