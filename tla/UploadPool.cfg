SPECIFICATION FairSpec
CONSTANTS
  None = None
  Files = {f1, f2}
  Threads = {t1, t2}
  Contents = {c1, c2}
  Statuses = {released}
  MaxCalls = 3
INVARIANTS TypeOK PoolInv OkMeansCurrent ClientsAreOwn
PROPERTIES CallReturns
CHECK_DEADLOCK FALSE
