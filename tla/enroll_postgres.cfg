CONSTANTS
    WGKeys = {k1, k2}
    SetupKeys = {dk, sk1}
    EndingKeys = {sk1}
    DefaultKey = dk
    Ephemeral = {}
    Base = 0
    Broadcast = 3
    Logins = {l1, l2}
    Deleters = {d1}
    Savers = {s1}
    Durable = TRUE
    StoreMayFail = TRUE
    PreloadMayFail = FALSE
    MaxId = 3
    MaxRestarts = 1
SPECIFICATION Spec
SYMMETRY Symmetry
CHECK_DEADLOCK FALSE
INVARIANTS TypeOK UniqueIPs
PROPERTIES  ImplementsAddressBook
