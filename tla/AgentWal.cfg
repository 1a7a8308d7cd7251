SPECIFICATION Spec
CONSTANTS
  MaxEvents = 3
  MaxCrashes = 2
  TornAppends = TRUE
  CompactSlack = 0
INVARIANTS
  AppendsAscend
  CleanAppendsSurvive
PROPERTY OutboxRefinement
CHECK_DEADLOCK FALSE
