------------------------------- MODULE Policy -------------------------------
(***************************************************************************)
(* Access rules: how the management server compiles them and how the three *)
(* kinds of agent evaluate them.                                           *)
(*                                                                         *)
(* A rule has src, dst, proto, port (0 is any), action, enabled and prio.  *)
(* An end of a rule is Star, a group or a host; a device stands for its     *)
(* address.  A packet has src, dst, proto and dport.  The server replaces  *)
(* groups by addresses; a Linux agent makes iptables entries of the rules, *)
(* a router in netstack mode and the filter of a Windows agent interpret   *)
(* them.                                                                   *)
(***************************************************************************)
EXTENDS Integers, Sequences, FiniteSets, Functions

CONSTANTS
    Star,        \* "*"
    Groups,     \* group names
    Hosts       \* addresses: of devices and others

ASSUME EndAssumption == Star \notin Groups \cup Hosts /\ Groups \cap Hosts = {}

Protocols == {"tcp", "udp", "icmp", "all"}

(* The orders in which the store may list a set of rules: by priority, the  *)
(* order of equal priorities being the database's.                          *)
PriorityOrders(R) ==
    {s \in Injection(1 .. Cardinality(R), R) :
        \A i, j \in DOMAIN s : i < j => s[i].prio <= s[j].prio}

-----------------------------------------------------------------------------
(* Plausible faults of the operators below, to show that the properties     *)
(* notice them.                                                             *)

(* an empty group is taken for any address *)
EmptyIsAny(r, members) ==
    LET ends(e) == IF e \in Groups /\ members[e] # {} THEN members[e]
                   ELSE IF e \in Groups THEN {Star} ELSE {e}
    IN  {[r EXCEPT !.src = s, !.dst = d] : s \in ends(r.src), d \in ends(r.dst)}

-----------------------------------------------------------------------------
(* The server: expandGroupRule and the rules of buildSyncResponse *)

(* A rule with a group that has no member disappears. *)
ExpandGroupRule(r, members) ==
    LET ends(e) == IF e \in Groups THEN members[e] ELSE {e}
    IN  {[r EXCEPT !.src = s, !.dst = d] : s \in ends(r.src), d \in ends(r.dst)}

(* The entries of the rules, in the order of the rules; those of one rule   *)
(* come in some order.                                                      *)
SyncRules(order, members) ==
    LET entries(i) == LET E == ExpandGroupRule(order[i], members)
                      IN  CHOOSE s \in [1 .. Cardinality(E) -> E] : IsInjective(s)
        upTo[n \in 0 .. Len(order)] ==
            IF n = 0 THEN <<>> ELSE upTo[n - 1] \o entries(n)
    IN  upTo[Len(order)]

-----------------------------------------------------------------------------
(* The agents *)

(* The first rule that matches decides; without one the packet is dropped. *)
FirstMatch(matching, allowing) ==
    \E i \in matching \cap allowing : \A j \in matching : i <= j

(* A group that was not expanded matches nothing. *)
AclHostMatch(field, host) == field = Star \/ field = host

AclRuleMatch(r, pkt) ==
    /\ r.enabled
    /\ AclHostMatch(r.src, pkt.src) /\ AclHostMatch(r.dst, pkt.dst)
    /\ \/ r.proto = "all"
       \/ /\ r.proto = pkt.proto
          /\ r.port > 0 /\ r.proto \in {"tcp", "udp"} => r.port = pkt.dport

(* RoutingNet.aclAllows, for a flow a router in netstack mode forwards *)
AclAllows(list, pkt) ==
    FirstMatch({i \in DOMAIN list : AclRuleMatch(list[i], pkt)},
               {i \in DOMAIN list : list[i].action = "allow"})

(* aclFilterAllowsFor of a Windows agent with addresses locals: transit     *)
(* passes.                                                                  *)
AclFilterAllows(list, pkt, locals) ==
    (locals # {} /\ pkt.dst \notin locals) \/ AclAllows(list, pkt)

(* buildIPTablesArgs: "" is an option that is left out *)
BuildIPTablesArgs(r) ==
    [src |-> r.src, dst |-> r.dst,
     proto |-> IF r.proto = "all" THEN "" ELSE r.proto,
     port |-> IF r.proto \in {"tcp", "udp"} THEN r.port ELSE 0,
     target |-> IF r.action = "deny" THEN "DROP" ELSE "ACCEPT"]

(* ApplyRules: the entries of BLINEX-ACL between the one that accepts       *)
(* replies and the final DROP, by the position of the rule they are made of *)
ApplyRules(list) ==
    [i \in {j \in DOMAIN list : list[j].enabled} |-> BuildIPTablesArgs(list[i])]

(* iptables on a packet that begins a flow *)
ChainAccepts(chain, pkt) ==
    LET matches(e) ==
            /\ e.src \in {Star, pkt.src} /\ e.dst \in {Star, pkt.dst}
            /\ e.proto \in {"", pkt.proto} /\ e.port \in {0, pkt.dport}
    IN  FirstMatch({i \in DOMAIN chain : matches(chain[i])},
                   {i \in DOMAIN chain : chain[i].target = "ACCEPT"})

-----------------------------------------------------------------------------
(* What the operator means, for rules in the given order: a host belongs to *)
(* a group or is named, and rules that are not enabled are not there.       *)

Belongs(host, end, members) ==
    \/ end = Star \/ end = host
    \/ end \in Groups /\ host \in members[end]

Concerns(r, pkt, members) ==
    /\ r.enabled
    /\ Belongs(pkt.src, r.src, members) /\ Belongs(pkt.dst, r.dst, members)
    /\ r.proto \in {"all", pkt.proto}
    /\ r.proto \in {"tcp", "udp"} => r.port \in {0, pkt.dport}

Permits(order, members, pkt) ==
    \E i \in DOMAIN order :
        /\ Concerns(order[i], pkt, members) /\ order[i].action = "allow"
        /\ \A j \in 1 .. i - 1 : ~Concerns(order[j], pkt, members)
=============================================================================
