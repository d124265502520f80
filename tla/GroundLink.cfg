CONSTANTS
  GateHeartbeatAge = 1
  GateDetectionAge = 1
  RequireHeartbeat = TRUE
  MaxDetections = 1
  WatchdogHeartbeatAge = 1
  WatchdogDetectionAge = 0
  DeassertOnLinkLoss = TRUE
  RequestHoldOnLinkLoss = TRUE
  BeatDelay = 1
  FrameDelay = 2
  Detections <- MCDetections
  MaxSequence = 2
SPECIFICATION FairSpec
INVARIANTS LossIsNoticed
PROPERTIES LaptopBehindFrames LossEndsInDeassert LinkRecovers
