SPECIFICATION Spec
CONSTANTS
  MaxEvents = 3
  MaxCrashes = 2
  TornAppends = FALSE
  CompactSlack = 0
INVARIANT PromisesKept
CHECK_DEADLOCK FALSE
