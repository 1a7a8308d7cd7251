SPECIFICATION MCSpec
CONSTANTS
  Writers = {w1, w2}
  MaxAttempts = 3
  MaxUpserts = 4
  Handlers = {"h1", "h2"}
  Keys = {"t1"}
  KeyOf <- MCKeyOf
  Capacity = 2
  Rate = 1
  Confidences = {20, 30, 60, 85}
  Thresholds <- MCThresholds
  Readings <- MCReadings
  MaxClock = 3
  MaxGrants = 4
  MaxProcs = 4
  Versions = {1}
  Texts <- MCTexts
  MaxMishaps = 1
  Slice = 1
  Periods = {1, 4}
  MaxEmit = 2
  MaxOver = 1
  Duration = 10
  MaxSeq = 4
  MaxMessages = 6
  S = 4
  Strides <- MCStrides
  Frames <- MCFrames
  Outputs <- MCOutputs
  ScoreLimit = 3
  IouLimit = 4
  Targets = {2}
INVARIANTS
  WritesFormAChain
  StoredAtMostOnce
  ReturnIsTrue
  LimitIsExact
  AlertsReported
  VerifiedIsSigned
  RateIsKept
  ConfigIsPrompt
  GapIsUnpublished
  LostIsNotRejected
  AckIsPublished
  TensorIsThisFrame
  SuppressionIsSound
CHECK_DEADLOCK FALSE
