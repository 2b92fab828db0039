SPECIFICATION FairSpec
CONSTANTS
  Requests = {r1, r2}
  Conns = {c1}
  Workers = {w1, w2}
  None = None
INVARIANTS ServerInv AnsweredOnce MembersOutliveWorkers ServedOnShutdown
PROPERTIES PoolUsed LoopUsed RequestsAnswered
CHECK_DEADLOCK FALSE
