SPECIFICATION FairSpec
CONSTANTS
  None = None
  Workers = {w1, w2}
  Records = {r1, r2}
  Malformed = {r2}
  BatchSize = 2
  MaxReceive = 2
  Budget = 2
  Margin = 1
INVARIANTS TypeOK ReportIsExact ContextNamesRecord BatchInv
PROPERTIES AcknowledgedWasHandled EventuallySettled
CHECK_DEADLOCK FALSE
