SPECIFICATION MCSpec
CONSTANTS
  Fields = {1, 4}
  Startup <- MCStartup
  MaxVersion = 2
  MaxRestarts = 1
  MaxReconnects = 1
  Slots = 2
  Devices = {"d1", "d2"}
  MaxSeq <- MCMaxSeq
  MaxStreams <- MCMaxStreams
  MaxFaults = 1
  Callers = {"c1", "c2"}
  MaxCalls = 3
  MaxInvocations = 3
  Limit = 2
  Quantum = 3
  MaxInstant = 3
INVARIANTS
  VersionMeansSetting
  NoFalseLoss
  SummaryAddsUp
  TrueMeansStored
  WrapperIsLive
  FeedIsComplete
PROPERTIES
  NoReapply
  Converges
  FleetEnds
  AlwaysReturns
CHECK_DEADLOCK FALSE
