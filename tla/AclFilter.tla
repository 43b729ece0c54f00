----------------------------- MODULE AclFilter ------------------------------
(***************************************************************************)
(* The packet filter of a Windows agent: aclFilterTUN between WireGuard    *)
(* and the operating system, with its table of flows the host started.     *)
(*                                                                         *)
(* The policy is what ApplyRules installed last; before the first answer   *)
(* of the server there is none.  (Nothing calls RemoveChain.)  Write takes *)
(* the policy and the host's addresses first and decides later, while      *)
(* SetRules, other packets and the passing of time go on.                  *)
(***************************************************************************)
EXTENDS Policy, FiniteSets, GoMaps

CONSTANTS
    Flows,          \* flows between this host and others
    Label,          \* the header of the first packet of each flow
    OwnFlows,       \* flows this host starts
    Addresses,      \* addresses this host may have
    Policies,       \* rule lists the server may send
    NoPolicy,       \* !rulesSet
    Idle,           \* no packet
    ConntrackMax    \* capacity of the table

ASSUME FilterAssumption ==
    /\ ConntrackMax \in Nat \ {0}
    /\ OwnFlows \subseteq Flows /\ Addresses \subseteq Hosts
    /\ NoPolicy \notin Policies

Datagrams == [flow : Flows, reply : BOOLEAN]

ASSUME IdleAssumption == Idle \notin Datagrams

VARIABLES
    policy,     \* rules and rulesSet
    flows,      \* conntrack.flows: map from the expected reply to its age
    addrs,      \* the host's addresses
    cache,      \* localCache and whether localAt is within localAddrsTTL
    batch,      \* what Write decides about, with the policy and addresses it took
    passed,     \* the packet Write just handed to the operating system, or Idle
    owed        \* history: replies to what the host sent within conntrackTTL

filterVars == <<policy, flows, addrs, cache, batch, passed, owed>>

(* The header of a packet; the port of a reply is the one the sender of the *)
(* flow chose, which no rule names.                                         *)
Header(p) ==
    LET l == Label[p.flow]
    IN  IF p.reply THEN [src |-> l.dst, dst |-> l.src, proto |-> l.proto, dport |-> 0] ELSE l

Outbound == {p \in Datagrams : p.reply = (p.flow \notin OwnFlows)}

Inbound == Datagrams \ Outbound

(* flowKey.reverse *)
ReplyTo(p) == [flow |-> p.flow, reply |-> ~p.reply]

(* parseFlowKey succeeds *)
Trackable(p) == Label[p.flow].proto \in {"tcp", "udp", "icmp"}

-----------------------------------------------------------------------------
(* Plausible faults of the operations below, to show that the properties    *)
(* notice them.                                                             *)

(* the table may exceed its capacity by one *)
ObserveLate(p) ==
    IF ~Trackable(p) THEN flows
    ELSE IF Cardinality(DOMAIN flows) > ConntrackMax
         THEN Put(EmptyMap, ReplyTo(p), "fresh")
         ELSE Put(flows, ReplyTo(p), "fresh")

(* an entry never expires *)
AnyEntry(p) == Trackable(p) /\ p \in DOMAIN flows

-----------------------------------------------------------------------------
(* observeOutbound: a full table is cleared. *)
ObserveOutbound(p) ==
    IF ~Trackable(p) THEN flows
    ELSE IF Cardinality(DOMAIN flows) >= ConntrackMax
         THEN Put(EmptyMap, ReplyTo(p), "fresh")
         ELSE Put(flows, ReplyTo(p), "fresh")

(* Read: the host sends a packet, recorded once there is a policy. *)
ReadOutbound(p) ==
    /\ flows' = IF policy = NoPolicy THEN flows ELSE ObserveOutbound(p)
    /\ owed' = owed \cup {ReplyTo(p)}
    /\ UNCHANGED <<policy, addrs, cache, batch, passed>>

(* conntrackTTL passes since the host last sent the packet p replies to. *)
FlowAges(p) ==
    /\ p \in owed
    /\ owed' = owed \ {p}
    /\ flows' = IF p \in DOMAIN flows THEN Put(flows, p, "old") ELSE flows
    /\ UNCHANGED <<policy, addrs, cache, batch, passed>>

SetRules(list) ==
    /\ policy' = list
    /\ UNCHANGED <<flows, addrs, cache, batch, passed, owed>>

(* localAddrs: ok says whether the addresses can be listed. *)
LocalAddrs(ok) == IF cache.fresh THEN cache.set ELSE IF ok THEN addrs ELSE {}

BeginWrite(p, ok) ==
    /\ batch = Idle
    /\ batch' = [pkt |-> p, rules |-> policy,
                 locals |-> IF policy = NoPolicy THEN {} ELSE LocalAddrs(ok)]
    /\ cache' = IF policy # NoPolicy /\ ~cache.fresh /\ ok
                THEN [set |-> addrs, fresh |-> TRUE] ELSE cache
    /\ passed' = Idle
    /\ UNCHANGED <<policy, flows, addrs, owed>>

AllowInbound(p) == Trackable(p) /\ p \in DOMAIN flows /\ flows[p] = "fresh"

(* The decision about the packet; an expired entry is removed. *)
EndWrite ==
    /\ batch # Idle
    /\ LET p == batch.pkt
           allowed == \/ batch.rules = NoPolicy
                      \/ AllowInbound(p)
                      \/ AclFilterAllows(batch.rules, Header(p), batch.locals)
       IN  /\ passed' = IF allowed THEN p ELSE Idle
           /\ flows' = IF batch.rules # NoPolicy /\ p \in DOMAIN flows /\ ~AllowInbound(p)
                       THEN Drop(flows, p) ELSE flows
    /\ batch' = Idle
    /\ UNCHANGED <<policy, addrs, cache, owed>>

(* The host's addresses change; localAddrsTTL passes. *)
AddressesChange(A) ==
    /\ addrs' = A
    /\ UNCHANGED <<policy, flows, cache, batch, passed, owed>>

CacheAges ==
    /\ cache' = [cache EXCEPT !.fresh = FALSE]
    /\ UNCHANGED <<policy, flows, addrs, batch, passed, owed>>

-----------------------------------------------------------------------------
FilterInit ==
    /\ policy = NoPolicy
    /\ flows = EmptyMap
    /\ addrs \in SUBSET Addresses
    /\ cache = [set |-> {}, fresh |-> FALSE]
    /\ batch = Idle
    /\ passed = Idle
    /\ owed = {}

FilterNext ==
    \/ \E p \in Outbound : ReadOutbound(p)
    \/ \E p \in Datagrams : FlowAges(p)
    \/ \E list \in Policies : SetRules(list)
    \/ \E p \in Inbound, ok \in BOOLEAN : BeginWrite(p, ok)
    \/ EndWrite
    \/ \E A \in SUBSET Addresses : AddressesChange(A)
    \/ CacheAges

FilterSpec == FilterInit /\ [][FilterNext]_filterVars

-----------------------------------------------------------------------------
(* Properties *)

(* Every variable keeps its type, and the table its capacity. *)
FilterTypeOK ==
    /\ policy \in Policies \cup {NoPolicy}
    /\ IsMap(flows, Datagrams, {"fresh", "old"})
    /\ IsFiniteSet(DOMAIN flows) /\ Cardinality(DOMAIN flows) <= ConntrackMax
    /\ addrs \subseteq Addresses
    /\ cache \in [set : SUBSET Addresses, fresh : BOOLEAN]
    /\ batch \in [pkt : Inbound, rules : Policies \cup {NoPolicy}, locals : SUBSET Addresses]
                 \cup {Idle}
    /\ passed \in Inbound \cup {Idle}
    /\ owed \subseteq Datagrams

(* "Tracking the outbound direction and admitting only its return": a       *)
(* packet for an address the host had when it last looked reaches the       *)
(* operating system only if the policy Write took allows it or the host     *)
(* sent what it replies to within conntrackTTL, however full the table got  *)
(* and however often the policy changed.                                    *)
OnlyRepliesPass ==
    [][\A p \in Inbound :
        batch # Idle /\ batch' = Idle /\ passed' = p =>
            \/ batch.rules = NoPolicy
            \/ batch.locals # {} /\ Header(p).dst \notin batch.locals
            \/ AclAllows(batch.rules, Header(p))
            \/ p \in owed]_filterVars
=============================================================================
