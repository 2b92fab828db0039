SPECIFICATION FairSpec
CONSTANTS
    Endpoints = {e1, e2}
    Discovers = {d1, d2}
    EventThread = ev
    None = None
    Builds = {"zk"}
    MaxLosses = 0
PROPERTIES CacheFollowsRegistry
CHECK_DEADLOCK FALSE
