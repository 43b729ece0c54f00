----------------------------- MODULE MCDataPath -----------------------------
(* DataPath with flows and rules for TLC. *)
EXTENDS DataPath, TLC

CONSTANTS self, dhcp, peer, lan, web, f1, f2, f3, a1, a2, a3, subnet

Packet(s, d, p, n) == [src |-> s, dst |-> d, proto |-> p, dport |-> n]

Rule(s, d, p, n, act) ==
    [src |-> s, dst |-> d, proto |-> p, port |-> n, action |-> act, enabled |-> TRUE, prio |-> 1]

(* The host talks to a routed subnet; peers reach two of its addresses. *)
MCLabel ==
    f1 :> Packet(self, lan, "tcp", 80) @@ f2 :> Packet(peer, self, "tcp", 22)
        @@ f3 :> Packet(peer, dhcp, "other", 0)

MCTarget ==
    a1 :> Packet(peer, lan, "tcp", 80) @@ a2 :> Packet(peer, web, "udp", 53)
        @@ a3 :> Packet(peer, lan, "icmp", 0)

MCCovers == subnet :> {lan} @@ DefaultPrefix :> {self, peer, lan, web}

MCPolicies == {<<>>, <<Rule(peer, self, "tcp", 22, "allow")>>}

MCRouterPolicies == {<<>>, <<Rule(peer, Star, "all", 0, "allow")>>}
=============================================================================
