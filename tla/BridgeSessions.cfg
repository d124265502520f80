CONSTANTS
  Grace = 3
  ReconnectInterval = 5
  ConnectionTimeout = 2
  MaxSessions = 2
  MaxFailures = 1
SPECIFICATION Spec
PROPERTY ActionsUseTheConnection
CHECK_DEADLOCK FALSE
