SPECIFICATION FairSpec
CONSTANTS
  Workers = {w1, w2, w3}
  Tasks = {t1, t2, t3}
  None = None
  MaxSpurious = 1
INVARIANTS PoolInv ExactlyOnce NoIdleWhileQueued DrainedOnDestruction
PROPERTY TasksRun
CHECK_DEADLOCK FALSE
