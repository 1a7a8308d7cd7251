SPECIFICATION FairSpec
CONSTANTS
  Threads = {"t1"}
  Devices = {"d1"}
  Ops = {"Update"}
  MaxEvents = 1
PROPERTIES
  RebuiltByHeartbeat
CHECK_DEADLOCK FALSE
