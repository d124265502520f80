\* The opt-in scan without a lock, a request that can expire, and Offboard only
\* while tracking or scanning.
CONSTANTS
  ManagerEnabled = TRUE
  TargetTimeout = 1
  TelemetryTimeout = 1
  RequestTimeout = 1
  MissionTimeout = 1
  AllowScanWithoutLock = TRUE
  EnableOffboardWhenReady = FALSE
  RequireHealth = FALSE
  MinBattery = 20
  TargetInputs <- MCTargetInputs
  TelemetryInputs <- MCTelemetryInputs
  MissionInputs <- MCMissionInputs
  ControlTargetTimeout = 1
  ControlTelemetryTimeout = 1
  ControlMissionTimeout = 0
  ControlMinBattery = 25
  RequireArmed = TRUE
  RequireGps = TRUE
  EnableApproachTranslation = TRUE
  ControlTargetInputs <- ControlTargets
  ControlTelemetryInputs <- ControlTelemetry
  ControlMissionInputs <- ControlMissions
SPECIFICATION PartSpec
INVARIANTS
  TypeOK
  AutonomyGateFollowsEvidence
  OffboardGateFollowsEvidence
  NothingStandsDisabled
  NeverSentBack
PROPERTIES
  ImplementsContract
  MotionEndsWithMessages
  HoldingResumes
