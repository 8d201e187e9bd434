SPECIFICATION FairSpec
CONSTANTS
  Jobs = {j1, j2}
  Pollers = {p1}
  MaxCrashes = 1
  NoJob = NoJob
  MaxEvents = 4
  MaxPolls = 2
  MaxLosses = 1
  MaxNetFailures = 2
  Callers = {c1, c2}
  MaxAttempts = 2
  Concurrency = 2
  MaxLapses = 1
INVARIANTS TypesOK  GateIsSafe
PROPERTIES RunsSettle ViewerSettles CallsEnd
\* Everything ends.
CHECK_DEADLOCK FALSE
