CONSTANTS
    Adapters = {e0, e1}
    Lists = {v1, v2}
    NoList = nolist
    Idle = idle
    NoFile = nofile
    Torn = torn
    MaxFailures = 1
    MaxCrashes = 2
    MaxPlugs = 1
    MaxFeeds = 1
CHECK_DEADLOCK FALSE
SPECIFICATION Spec
 
PROPERTIES   FeedReachesAgent
