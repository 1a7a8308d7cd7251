SPECIFICATION Spec
CONSTANTS
  MaxCalls = 3
  Limit = 1
  Quantum = 2
  MaxClock = 5
INVARIANTS
  ListsMostRecent
CHECK_DEADLOCK FALSE
