SPECIFICATION Spec
CONSTANTS
  Threads = {"t1", "t2"}
  Devices = {"d1", "d2"}
  Ops = {"Update", "Get"}
  MaxEvents = 1
INVARIANTS
  OneCommandAtATime
CHECK_DEADLOCK FALSE
