SPECIFICATION FairSpec
CONSTANTS
  N = 3
  Replicas = {r1, r2}
  Limit = 2
  MaxTrouble = 2
INVARIANTS
  MarkedWasPublished
  DuplicatesHaveACause
  PublishedInOrder
PROPERTIES
  EveryEntryIsPublished
  StopReturns
CHECK_DEADLOCK FALSE
