CONSTANTS
    Adapters = {e0}
    Lists = {v1, v2}
    NoList = nolist
    Idle = idle
    NoFile = nofile
    Torn = torn
    MaxFailures = 0
    MaxCrashes = 0
    MaxPlugs = 0
    MaxFeeds = 1
CHECK_DEADLOCK FALSE
SPECIFICATION Spec
PROPERTIES RefreshedFeedArrives
