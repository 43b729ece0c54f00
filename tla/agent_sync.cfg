CONSTANTS
    Peers = {a, b}
    NoPeer = none
    IPs = {i1, i2}
    Hostnames = {h1, h2}
    Labels = {l1, l2}
    Label <- MCLabel
    Cidrs = {all, lan}
    Default = all
    Rules = {r}
    Servers = {s}
    EndpointSpace = 3
    MaxEdits = 3
    MaxStarts = 2
    h1 = h1
    h2 = h2
    l1 = l1
    l2 = l2
SPECIFICATION Spec
SYMMETRY Symmetry
CHECK_DEADLOCK FALSE
INVARIANTS PathsMatchPeers AddressRouted NoStaleNames RoutesAdvertised ExitFollowsAnswer 
