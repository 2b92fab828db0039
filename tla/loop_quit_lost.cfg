SPECIFICATION FairSpec
CONSTANT Functors = {f1}
PROPERTY QuitIsNotLost
CHECK_DEADLOCK FALSE
