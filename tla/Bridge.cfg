CONSTANTS
  AllowMavsdkActions = TRUE
  AllowArmViaMavsdk = TRUE
  RequireArmed = TRUE
  StopOffboardOnDisable = TRUE
  AllowTranslation = TRUE
  MinBattery = 20
  LinkFaults = FALSE
  Preemption = FALSE
  ControlInputs <- MCControlInputs
  ActionInputs <- MCActionInputs
  VehicleInputs <- MCAlwaysFlying
  StallingStreams <- MCStalling
  Grace = 3
  ReconnectInterval = 5
  ConnectionTimeout = 2
  MaxSessions = 2
  MaxFailures = 1
SPECIFICATION PartSpec
INVARIANTS
  KnowsOffboard
  ActionOnceUnderPolicy
PROPERTIES
  EntersOffboardHolding
  DisableEnds
  MotionEnds
  LossNeedsGrace
  ConnectedFollowsLink
