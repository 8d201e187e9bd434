SPECIFICATION Spec
CONSTANTS
  Threads = {t1, t2}
  ChainLength = 2
  MaxAttempts = 2
  MaxMinuteRetries = 2
  MaxDay = 2
  Budget = 20
  Fixed = 40
  MaxContext = 64
INVARIANT FailsAtTheEnd
