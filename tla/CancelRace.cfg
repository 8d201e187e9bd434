SPECIFICATION Spec
CONSTANTS
  Jobs = {j1}
  Pollers = {p1}
  Dispatchers = {}
  Handlers <- MCFullHandlers
  DispatchKinds <- MCNoKinds
  MaxAttempts = 1
  MaxCrashes = 0
  MaxDbLosses = 0
  NoJob = NoJob
PROPERTY TerminalIsFinal
CHECK_DEADLOCK FALSE
