SPECIFICATION FairSpec
CONSTANTS
    Endpoints = {e1, e2}
    Discovers = {d1, d2}
    EventThread = ev
    None = None
    Builds = {"zk", "stub"}
    MaxLosses = 1
INVARIANTS   WatchesBounded
PROPERTIES CallsReturn
CHECK_DEADLOCK FALSE
