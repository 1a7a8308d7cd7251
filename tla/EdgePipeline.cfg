SPECIFICATION FairSpec
CONSTANTS
  FrameSlots = 2
  EventSlots = 1
  Settings <- MCSettings
  MaxFrames = 5
  MaxRebuilds = 1
INVARIANTS
  FramesAccounted
  OneEventPerEpisode
  FinishedIsComplete
PROPERTIES
  ProducerEnds
CHECK_DEADLOCK FALSE
