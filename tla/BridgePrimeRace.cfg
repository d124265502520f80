CONSTANTS
  AllowMavsdkActions = TRUE
  AllowArmViaMavsdk = TRUE
  RequireArmed = TRUE
  StopOffboardOnDisable = TRUE
  AllowTranslation = TRUE
  MinBattery = 20
  LinkFaults = FALSE
  Preemption = TRUE
  ControlInputs <- MCNoControl
  ActionInputs <- MCNoControl
  VehicleInputs <- MCAlwaysFlying
  StallingStreams <- MCStalling
SPECIFICATION FlyingFairSpec
PROPERTY DisableEndsOffboard
