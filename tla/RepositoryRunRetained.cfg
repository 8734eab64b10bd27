SPECIFICATION Spec
CONSTANTS
  Plans <- MCPlans
  DisturbanceBound = 1
INVARIANT
  RetainedDirectoryIsReported
CHECK_DEADLOCK FALSE
