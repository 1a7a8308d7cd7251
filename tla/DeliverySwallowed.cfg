SPECIFICATION Spec
CONSTANTS
  MaxSeq = 2
  MaxStreams = 1
  MaxCrashes = 0
  MaxRejects = 1
INVARIANTS
  AckMeansStored
CHECK_DEADLOCK FALSE
