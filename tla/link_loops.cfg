SPECIFICATION Spec
CONSTANTS
    Conns = {c1, c2}
    NoConn = nil
    Threshold = 1
    Paths = {"good"}
    WriteMayFail = FALSE
CHECK_DEADLOCK FALSE
PROPERTIES LoopsEnd
