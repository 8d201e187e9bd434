SPECIFICATION FairSpec
CONSTANTS
  Jobs = {j1}
  Pollers = {p1, p2}
  Dispatchers = {d1}
  Handlers <- MCMixedHandlers
  DispatchKinds <- MCKinds
  MaxAttempts = 2
  MaxCrashes = 1
  MaxDbLosses = 1
  NoJob = NoJob
INVARIANT SucceededRunFinished
PROPERTIES VerdictsAreFinal JobsSettle
CHECK_DEADLOCK FALSE
