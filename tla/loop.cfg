SPECIFICATION FairSpec
CONSTANT Functors = {f1, f2, f3}
INVARIANTS EventLoopInv NoLostWakeup RunsInOrder
PROPERTIES FunctorsRun QuitEndsLoop
CHECK_DEADLOCK FALSE
