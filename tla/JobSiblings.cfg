SPECIFICATION Spec
CONSTANTS
  Jobs = {j1, j2}
  Pollers = {p1, p2}
  Dispatchers = {}
  Handlers <- MCFullHandlers
  DispatchKinds <- MCNoKinds
  MaxAttempts = 2
  MaxCrashes = 0
  MaxDbLosses = 1
  NoJob = NoJob
SYMMETRY Symmetry
INVARIANTS TypeOK AttemptsNeverMeet NoLeakWithoutFault
PROPERTY Implements
CHECK_DEADLOCK FALSE
