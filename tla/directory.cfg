SPECIFICATION Spec
CONSTANTS
    Star = star
    k1 = k1
    k2 = k2
    lan = lan
    staff = staff
    r1 = r1
    r2 = r2
    Devices = {k1, k2}
    Hosts = {k1, k2, lan}
    Groups = {default, staff}
    Default = default
    AutoGroups = {staff}
    NoKey = nokey
    RuleIds = {r1, r2}
    SeedId = r1
    RuleSpace <- MCRules
    RuleEdits <- MCEdits
    Packets <- MCPackets
    Handlers = {h1, h2}
    MaxEdits = 5
SYMMETRY MCSymmetry
CHECK_DEADLOCK FALSE
INVARIANTS DefaultForAll 
 
