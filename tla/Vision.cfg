CONSTANTS
  MissedThreshold = 3
  CoastTimeout = 2
  StaleTimeout = 2
  ReacquisitionTimeout = 3
  LockConfirmFrames = 1
  TrackerFrames <- MCFrames
  Interval = 3
  EveryN = 1
  StartTime = 6
  Period = 3
  Jitter = 2
  EncodeTime = 3
  InferenceTime = 4
  RelayDepths = {0}
  Restamps = FALSE
  Horizon = 30
  ChunkSize = 2
  PipeSize = 2
  StreamBound = 8
CHECK_DEADLOCK FALSE
SPECIFICATION PartSpec
INVARIANTS
  TypeOK
  SteersAtTarget
  LockedMeansVisible
  ImagesAreThoseOfTheStream
  RateIsKept
  DetectionsAreRecent
  FewAreSkipped
PROPERTIES
  VisibleWithinGrace
  LockNeedsDetection
  UnseenIsGivenUp
