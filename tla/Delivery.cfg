SPECIFICATION FairSpec
CONSTANTS
  MaxSeq = 2
  MaxStreams = 3
  MaxCrashes = 2
  MaxRejects = 2
INVARIANTS
  FirstSeenInOrder
PROPERTIES
  DeliversAtLeastOnce
  EventuallyAcked
  EventuallyExits
CHECK_DEADLOCK FALSE
