CONSTANTS
  Plans <- MCPlans
  MissionEnabled = TRUE
  TelemetryTimeout = 1
  TargetTimeout = 0
  RepublishTime = 0
  TakeoffRetry = 0
  LandRetry = 0
  LandSettle = 0
  GotoSettle = 0
  MaxStepAge = 2
  UseMavsdkOrbit = FALSE
  RequireDistance = FALSE
  RequireCentered = FALSE
  TargetInputs = {}
  TelemetryInputs <- MCTelemetryInputs
  Documents <- MCDocuments
  RunFullOrbit = FALSE
  ParserImportable = FALSE
  DefaultTimeout <- MCDefaultTimeout
  RevolutionTime = 1
  DefaultHold <- MCDefaultHold
  Threads = {t1, t2}
  MaxSends = 2
  MaxRequests = 2
SYMMETRY MCSymmetry
SPECIFICATION UploadSpec
INVARIANTS
  AckIsTrue
  PreviewMatchesAck
  RefusedNeverFlies
PROPERTY CleanPlansPrimeFirst
