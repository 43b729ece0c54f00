SPECIFICATION Spec
CONSTANTS
    Conns = {c1}
    NoConn = nil
    Threshold = 3
    Paths = {"good", "slow", "dead"}
    WriteMayFail = TRUE
PROPERTIES  DeadPathAbandoned HealthyPathUsed
