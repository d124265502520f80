CONSTANTS
  Plans <- MCGotoPlans
  MaxStepAge = 3
  LandRetry = 2
  Report <- MCReport
  QueueDepth = 3
  Buttons = {"LAND"}
  AllowMavsdkActions = TRUE
  AllowArmViaMavsdk = FALSE
  RequireArmed = TRUE
  StopOffboardOnDisable = TRUE
  AllowTranslation = FALSE
  MinBattery = 20
  LinkFaults = FALSE
  Preemption = FALSE
  ControlInputs = {}
  ActionInputs = {}
  VehicleInputs = {}
  StallingStreams = {}
SPECIFICATION HandoverSpec
PROPERTY LandButtonLands
