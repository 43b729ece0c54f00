----------------------------- MODULE NetRouter ------------------------------
(***************************************************************************)
(* A netstack agent as subnet router and exit node: RoutingNet.            *)
(*                                                                         *)
(* A flow of a mesh peer that arrives is checked against the advertised    *)
(* subnets and the policy, takes a slot and is relayed by a goroutine to a *)
(* connection of the host; an echo request is repeated by the host and its *)
(* reply handed to WireGuard over an unbuffered channel.  The engine sets  *)
(* subnets and policy meanwhile, and closes the device at the end.         *)
(***************************************************************************)
EXTENDS Policy, FiniteSets

CONSTANTS
    Arrivals,           \* flows and pings of peers
    Target,             \* the header of each
    LocalAddr,          \* the agent's mesh address
    NeverForwarded,     \* mesh, loopback, link-local and multicast addresses
    PrivateHosts,       \* addresses of private networks
    Subnets,            \* prefixes the peer may advertise
    DefaultPrefix,      \* 0.0.0.0/0
    Covers,             \* the hosts in each prefix
    RouterPolicies,     \* rule lists the server may send
    MaxForwards,        \* maxConcurrentForwards
    MaxICMP             \* maxConcurrentICMP

ASSUME RouterAssumption ==
    /\ IsFiniteSet(Arrivals)
    /\ MaxForwards \in Nat /\ MaxICMP \in Nat

VARIABLES
    subnets,    \* RoutingNet.subnets
    aclRules,   \* RoutingNet.aclRules
    sem,        \* slots taken
    icmpSem,    \* slots taken by pings
    at,         \* where the handler and the goroutine of an arrival are
    gone,       \* arrivals whose peer sends nothing more
    notify,     \* WriteNotify is sending to incomingPacket
    device      \* "open", "closed", or "crashed" by a panic

routerVars == <<subnets, aclRules, sem, icmpSem, at, gone, notify, device>>

Pings == {f \in Arrivals : Target[f].proto = "icmp"}

(* An arrival that holds a slot *)
Relaying == {f \in Arrivals \ Pings : at[f] \in {"endpoint", "dial", "pipe"}}
Pinging == {f \in Pings : at[f] \in {"ping", "send"}}

ShouldForward(dst) ==
    /\ dst \notin NeverForwarded
    /\ \E s \in subnets : dst \in Covers[s] /\ ~(s = DefaultPrefix /\ dst \in PrivateHosts)

(* release and releaseICMP, deferred by the goroutine of f *)
Release(f) ==
    /\ at' = [at EXCEPT ![f] = "none"]
    /\ sem' = IF f \in Pings THEN sem ELSE sem - 1
    /\ icmpSem' = IF f \in Pings THEN icmpSem - 1 ELSE icmpSem

-----------------------------------------------------------------------------
(* Plausible faults of the operations below, to show that the properties    *)
(* notice them.                                                             *)

(* the handler that could not create an endpoint returns with its slot *)
KeepSlot(f) ==
    /\ at[f] = "endpoint"
    /\ at' = [at EXCEPT ![f] = "none"]
    /\ UNCHANGED <<subnets, aclRules, sem, icmpSem, gone, notify, device>>

(* a relay ends only when one of its ends closes the connection *)
PipeWithoutDeadline(f) ==
    /\ at[f] = "pipe" /\ f \notin gone
    /\ Release(f)
    /\ UNCHANGED <<subnets, aclRules, gone, notify, device>>

-----------------------------------------------------------------------------
(* handleTCP, handleUDP and interceptICMPv4 *)

(* A flow arrives: for the agent's own address, over TCP, or forwarded. *)
Arrive(f) ==
    /\ device = "open" /\ at[f] = "none"
    /\ \/ Target[f].proto = "tcp" /\ Target[f].dst = LocalAddr
       \/ ShouldForward(Target[f].dst)
    /\ at' = [at EXCEPT ![f] = "acl"]
    /\ gone' = gone \ {f}
    /\ UNCHANGED <<subnets, aclRules, sem, icmpSem, notify, device>>

CheckAcl(f) ==
    /\ at[f] = "acl"
    /\ at' = [at EXCEPT ![f] = IF AclAllows(aclRules, Target[f]) THEN "acquire" ELSE "none"]
    /\ UNCHANGED <<subnets, aclRules, sem, icmpSem, gone, notify, device>>

Capacity(f) == IF f \in Pings THEN icmpSem < MaxICMP ELSE sem < MaxForwards

(* acquire and acquireICMP; without a slot the flow is refused. *)
Acquire(f) ==
    /\ at[f] = "acquire"
    /\ IF Capacity(f)
       THEN /\ at' = [at EXCEPT ![f] = IF f \in Pings THEN "ping" ELSE "endpoint"]
            /\ sem' = IF f \in Pings THEN sem ELSE sem + 1
            /\ icmpSem' = IF f \in Pings THEN icmpSem + 1 ELSE icmpSem
       ELSE at' = [at EXCEPT ![f] = "none"] /\ UNCHANGED <<sem, icmpSem>>
    /\ UNCHANGED <<subnets, aclRules, gone, notify, device>>

CreateEndpoint(f) ==
    /\ at[f] = "endpoint"
    /\ at' = [at EXCEPT ![f] = "dial"]
    /\ UNCHANGED <<subnets, aclRules, sem, icmpSem, gone, notify, device>>

EndpointFails(f) ==
    /\ at[f] = "endpoint"
    /\ Release(f)
    /\ UNCHANGED <<subnets, aclRules, gone, notify, device>>

(* The goroutine of a flow dials the target ... *)
Dial(f) ==
    /\ at[f] = "dial"
    /\ at' = [at EXCEPT ![f] = "pipe"]
    /\ UNCHANGED <<subnets, aclRules, sem, icmpSem, gone, notify, device>>

DialFails(f) ==
    /\ at[f] = "dial"
    /\ Release(f)
    /\ UNCHANGED <<subnets, aclRules, gone, notify, device>>

(* ... and relays until a direction ends or is silent for forwardIdleTimeout. *)
PipeEnds(f) ==
    /\ at[f] = "pipe"
    /\ Release(f)
    /\ UNCHANGED <<subnets, aclRules, gone, notify, device>>

-----------------------------------------------------------------------------
(* forwardICMPv4 and pingHost *)

PingAnswered(f) ==
    /\ at[f] = "ping"
    /\ at' = [at EXCEPT ![f] = "send"]
    /\ UNCHANGED <<subnets, aclRules, sem, icmpSem, gone, notify, device>>

PingFails(f) ==
    /\ at[f] = "ping"
    /\ Release(f)
    /\ UNCHANGED <<subnets, aclRules, gone, notify, device>>

(* WireGuard's Read takes the reply, or the channel was closed and the      *)
(* goroutine recovers from the panic.                                       *)
ReplySent(f) ==
    /\ at[f] = "send" /\ device # "crashed"
    /\ Release(f)
    /\ UNCHANGED <<subnets, aclRules, gone, notify, device>>

-----------------------------------------------------------------------------
(* The stack hands a packet to WireGuard; nothing recovers WriteNotify from *)
(* a send on a closed channel.                                              *)
WriteNotify ==
    /\ device = "open" /\ ~notify
    /\ notify' = TRUE
    /\ UNCHANGED <<subnets, aclRules, sem, icmpSem, at, gone, device>>

NotifySent ==
    /\ notify
    /\ notify' = FALSE
    /\ device' = IF device = "closed" THEN "crashed" ELSE device
    /\ UNCHANGED <<subnets, aclRules, sem, icmpSem, at, gone>>

(* Close removes the interface: no peer reaches the stack any more. *)
Close ==
    /\ device = "open"
    /\ device' = "closed"
    /\ gone' = Arrivals
    /\ UNCHANGED <<subnets, aclRules, sem, icmpSem, at, notify>>

SetSubnets(S) ==
    /\ device = "open"
    /\ subnets' = S
    /\ UNCHANGED <<aclRules, sem, icmpSem, at, gone, notify, device>>

SetACLRules(list) ==
    /\ device = "open"
    /\ aclRules' = list
    /\ UNCHANGED <<subnets, sem, icmpSem, at, gone, notify, device>>

(* The peer of a flow disappears. *)
Vanish(f) ==
    /\ f \notin gone
    /\ gone' = gone \cup {f}
    /\ UNCHANGED <<subnets, aclRules, sem, icmpSem, at, notify, device>>

-----------------------------------------------------------------------------
RouterInit ==
    /\ subnets = {}
    /\ aclRules = <<>>
    /\ sem = 0
    /\ icmpSem = 0
    /\ at = [f \in Arrivals |-> "none"]
    /\ gone = {}
    /\ notify = FALSE
    /\ device = "open"

(* A step of a handler or of a goroutine that it started *)
HandlerStep(f) ==
    /\ device # "crashed"
    /\ \/ CheckAcl(f)
       \/ Acquire(f)
       \/ CreateEndpoint(f)
       \/ EndpointFails(f)
       \/ Dial(f)
       \/ DialFails(f)
       \/ PingAnswered(f)
       \/ PingFails(f)
       \/ ReplySent(f)

RelayEnds(f) == device # "crashed" /\ PipeEnds(f)

RouterNext ==
    \/ \E f \in Arrivals : Arrive(f) \/ HandlerStep(f) \/ RelayEnds(f) \/ Vanish(f)
    \/ WriteNotify \/ NotifySent \/ Close
    \/ \E S \in SUBSET Subnets : SetSubnets(S)
    \/ \E list \in RouterPolicies : SetACLRules(list)

(* Goroutines run, dials and pings have timeouts, WireGuard reads from the  *)
(* device, and the read deadline passes on a relay whose peer is silent.    *)
RouterFairness ==
    \A f \in Arrivals :
        WF_routerVars(HandlerStep(f)) /\ WF_routerVars(f \in gone /\ RelayEnds(f))

RouterSpec == RouterInit /\ [][RouterNext]_routerVars /\ RouterFairness

-----------------------------------------------------------------------------
(* Properties *)

(* Every variable keeps its type, and the slots their capacity. *)
RouterTypeOK ==
    /\ subnets \subseteq Subnets
    /\ aclRules \in RouterPolicies \cup {<<>>}
    /\ sem \in 0 .. MaxForwards
    /\ icmpSem \in 0 .. MaxICMP
    /\ at \in [Arrivals -> {"none", "acl", "acquire", "endpoint", "dial", "pipe", "ping", "send"}]
    /\ gone \subseteq Arrivals
    /\ notify \in BOOLEAN
    /\ device \in {"open", "closed", "crashed"}

(* No slot is lost or returned twice: the two semaphores count the flows    *)
(* and the pings that are on their way, after every failure on it and       *)
(* after Close.                                                             *)
SlotsHeld ==
    /\ sem = Cardinality(Relaying)
    /\ icmpSem = Cardinality(Pinging)

(* "abandoned relays (e.g. a peer that opened a flow and vanished) don't    *)
(* pin resources": the slot of a flow whose peer vanished is free in the    *)
(* end, and so is that of a ping, also one that Close interrupts.           *)
SlotsReturned ==
    \A f \in Arrivals :
        /\ (f \in gone /\ f \in Relaying) ~> (f \notin gone \/ f \notin Relaying \/ device = "crashed")
        /\ (f \in Pinging) ~> (f \notin Pinging \/ device = "crashed")
=============================================================================
