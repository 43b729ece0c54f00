CONSTANTS
    WGKeys = {k1, k2}
    SetupKeys = {dk, ek}
    EndingKeys = {dk, ek}
    DefaultKey = dk
    Ephemeral = {ek}
    Base = 0
    Broadcast = 4
    Logins = {l1}
    Deleters = {}
    Savers = {s1}
    Durable = TRUE
    StoreMayFail = TRUE
    PreloadMayFail = FALSE
    MaxId = 4
    MaxRestarts = 1
    Sources = {src1, src2}
    NoSource = nosource
    Capacity = 2
    Refill = 2
    CleanAfter = 2
    EvictAfter = 4
    AdminCalls = {c1, c2}
    MaxTries = 1
    Agents = {k1, k2}
    MaxDeletes = 2
    MaxFaults = 1
SPECIFICATION AdmissionSpec
CHECK_DEADLOCK FALSE
INVARIANTS LimiterExact FailuresBounded RevokedIsRefused
PROPERTIES  StableIP AgentsGetIn
