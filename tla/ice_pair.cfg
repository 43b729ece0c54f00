CONSTANTS
    Nil = nil
    Live = live
    Stale = stale
    MaxLost = 1
    MaxRestarts = 1
    MaxRemovals = 1
CHECK_DEADLOCK FALSE
SPECIFICATION Spec
PROPERTIES AttemptsMeet 
