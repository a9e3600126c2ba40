\* The process ends.
CONSTANTS
  Signals = {t1}
  Errors = {e1}
  MaxRequests = 1

SPECIFICATION Spec
INVARIANT CauseIsReported
CHECK_DEADLOCK FALSE
