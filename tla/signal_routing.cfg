CONSTANTS
    Keys = {k1, k2}
    Calls = {c1, c2}
    PendingPerPeer = 1
    InOrder = TRUE
    MaxMessages = 2
SPECIFICATION Spec
INVARIANTS CurrentStreamRouted DeliveredOnce HeldBounded
 
