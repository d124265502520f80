CONSTANTS
  Plans <- MCFlightPlans
  MissionEnabled = TRUE
  TelemetryTimeout = 1
  TargetTimeout = 1
  RepublishTime = 1
  TakeoffRetry = 2
  LandRetry = 1
  LandSettle = 1
  GotoSettle = 0
  MaxStepAge = 4
  UseMavsdkOrbit = TRUE
  RequireDistance = TRUE
  RequireCentered = TRUE
  TargetInputs <- MCTargetInputs
  TelemetryInputs <- MCTelemetryInputs
  MaxRequests = 2
SPECIFICATION MFairSpec
INVARIANTS
  IdleMeansReleased
PROPERTIES
  OffboardReleasedForPX4
  GotoDestinationFixed
  LeaveOnlyAfterAction
  TimedStepsEnd
