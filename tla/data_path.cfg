SPECIFICATION Spec
CONSTANTS
    Star = star
    self = self
    dhcp = dhcp
    peer = peer
    lan = lan
    web = web
    f1 = f1
    f2 = f2
    f3 = f3
    a1 = a1
    a2 = a2
    a3 = a3
    subnet = subnet
    Groups = {}
    Hosts = {self, dhcp, peer, lan, web}
    Flows = {f1, f2, f3}
    Label <- MCLabel
    OwnFlows = {f1}
    Addresses = {self, dhcp}
    Policies <- MCPolicies
    NoPolicy = nopolicy
    Idle = idle
    ConntrackMax = 1
    Arrivals = {a1, a2, a3}
    Target <- MCTarget
    LocalAddr = self
    NeverForwarded = {self, peer}
    PrivateHosts = {lan}
    Subnets = {subnet, default}
    DefaultPrefix = default
    Covers <- MCCovers
    RouterPolicies <- MCRouterPolicies
    MaxForwards = 1
    MaxICMP = 1
CHECK_DEADLOCK FALSE
INVARIANTS TypeOK SlotsHeld
PROPERTIES OnlyRepliesPass SlotsReturned
