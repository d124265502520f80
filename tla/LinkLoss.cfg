CONSTANTS
  Plans <- MCPlans
  MaxStepAge = 3
  Report <- MCReport
  HeartbeatTimeout = 1
SPECIFICATION Spec
PROPERTY ReactionStands
