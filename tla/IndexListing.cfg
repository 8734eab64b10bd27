SPECIFICATION ListingSpec
CONSTANTS
  PathSymbol = {"a"}
  Byte = {"a", "nul", "bad", "unmerged"}
  MaxRecord = 2
  Limit = 3
  MaxChunk = 4
  StreamBound = 6
INVARIANTS
  ListingTypeOK
  TailIsSuffix
  StreamedEqualsBuffered
  SnapshotIsTheListing
CHECK_DEADLOCK FALSE
