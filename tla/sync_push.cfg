CONSTANTS
    Keys = {k1, k2}
    Calls = {c1}
    Mutators = {m1}
    Overlap = FALSE
    MaxVersion = 1
SPECIFICATION Spec
INVARIANTS NoLostWakeup 
PROPERTIES ChangesArePushed
