\* The process ends.
CONSTANTS
  Signals = {t1, t2}
  Errors = {e1}
  MaxRequests = 2

SPECIFICATION FairSpec
INVARIANT TypeOK
INVARIANT DatabasesOutliveRequests
INVARIANT ZeroMeansAsked
INVARIANT NothingUnsent
PROPERTY StopsWhenAsked
PROPERTY BootSettles
CHECK_DEADLOCK FALSE
