SPECIFICATION Spec
CONSTANTS
  MaxSeq = 1
  MaxStreams = 2
  MaxCrashes = 0
  MaxRejects = 0
INVARIANTS
  NotRepublished
CHECK_DEADLOCK FALSE
