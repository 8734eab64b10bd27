SPECIFICATION Spec
CONSTANTS
  MaxBlocks = 2
  InterferenceBound = 2
  CoarseClock = TRUE
INVARIANTS
  TypeOK
  ReadingIsOneMoment
  AcceptedStartIsWhole
  AcceptedIsConvertedOriginal
CHECK_DEADLOCK FALSE
