----------------------------- MODULE AgentSync -----------------------------
(***************************************************************************)
(* The agent applies the answers of the Sync stream to its host: WireGuard *)
(* peers and endpoints, DNS records, OS routes, NAT, the exit node and the *)
(* ACL chain.                                                              *)
(*                                                                         *)
(* The management side is the directory an answer is built from.  applySync*)
(* runs in one goroutine; a step is the work on one peer or one stage of   *)
(* it, and the process may end between any two.  Everything inside the     *)
(* process is then gone, and so are the TUN device and the routes through  *)
(* it; iptables rules and host routes stay.                                *)
(***************************************************************************)
EXTENDS Integers, GoMaps

CONSTANTS
    Peers,          \* the other devices of the account, by WireGuard key
    NoPeer,         \* ""
    IPs,            \* mesh addresses
    Hostnames,      \* display names ...
    Labels,         \* ... and Magic DNS labels
    Label,          \* domain.ToDNSLabel: several names may share a label
    Cidrs,          \* routes that may be advertised, Default among them
    Default,        \* "0.0.0.0/0"
    Rules,          \* ACL rules
    Servers,        \* the addresses of the management and the signal server
    EndpointSpace,  \* number of relay endpoints 127.127.x.y:1
    MaxEdits,       \* bound: changes of the directory
    MaxStarts       \* bound: starts of the agent

ASSUME NameAssumption == Label \in [Hostnames -> Labels]

ASSUME PeerAssumption == NoPeer \notin Peers /\ Default \in Cidrs

(* setPeerRoutes refuses a route that overlaps the mesh's addresses. *)
ASSUME RouteAssumption == IPs \cap Cidrs = {}

ASSUME BoundAssumption ==
    /\ EndpointSpace \in Nat \ {0}
    /\ MaxEdits \in Nat /\ MaxStarts \in Nat

VARIABLES
    \* management
    dir,        \* the peer records: map from key to [ip, host, routes]
    selfRoutes, \* AdvertisedRoutes of this device
    choice,     \* ExitNode of this device, or NoPeer
    rules,      \* the enabled rules
    edits,      \* number of changes so far
    \* the agent process
    phase,      \* where it is: "down", "idle", or a stage of applySync
    starts,     \* number of starts so far
    netstack,   \* wg.NetstackMode()
    answer,     \* the SyncResponse being applied, or applied last
    synced,     \* this process has applied an answer completely
    known,      \* peer.Manager.peers
    todo,       \* what Diff returned and is not applied yet
    dns,        \* Resolver.records: map from label to address
    wgPeers,    \* WireGuard's peers: map from key to endpoint, or Unset
    allowed,    \* WireGuard's allowed IPs: map from prefix to key
    endpoints,  \* relayEndpts, relayConns and links: map from key to endpoint
    bind,       \* RelayBind.endpoints: map from endpoint to the key of the link
    counter,    \* relayCounter
    ice,        \* the keys ice.Manager has an attempt for
    applied,    \* appliedRoutes: map from key to set of routes
    exit,       \* exitNode: [on, hosts]
    subnets,    \* the router subnets of netstack mode
    \* the host
    osRoutes,   \* routes through the WireGuard interface
    split,      \* the two /1 routes through the WireGuard interface
    pins,       \* servers with a host route through the default gateway
    nat,        \* number of MASQUERADE rules
    chain       \* the rules in BLINEX-ACL

directory == <<dir, selfRoutes, choice, rules, edits>>
process == <<starts, netstack, answer>>
tunnel == <<wgPeers, allowed, endpoints, bind, counter>>
exitState == <<exit, split, pins>>
vars == <<directory, process, phase, synced, known, todo, dns, tunnel, ice,
          applied, exitState, subnets, osRoutes, nat, chain>>

(* No endpoint is set. *)
Unset == -1

NothingToDo == [added |-> {}, updated |-> EmptyMap, removed |-> EmptyMap]

NoExit == [on |-> FALSE, hosts |-> {}]

(* buildSyncResponse: AllowedIps are the own address and the routes. *)
AllowedIps(r) == {r.ip} \cup r.routes

(* resolveExitNode: the chosen peer must still be there and still offer a   *)
(* default route.                                                           *)
ResolveExitNode ==
    IF choice \in DOMAIN dir /\ Default \in dir[choice].routes THEN choice ELSE NoPeer

BuildSyncResponse ==
    [peers |-> dir, selfRoutes |-> selfRoutes, exit |-> ResolveExitNode, rules |-> rules]

-----------------------------------------------------------------------------
(* Plausible faults of the operations below, to show that the properties    *)
(* notice them.                                                             *)

(* the endpoint is the counter's high byte *)
EndpointHighByte == (counter + 1) \div EndpointSpace

(* removing a peer releases the prefixes it once had, whoever has them now *)
RemoveClaims(p) ==
    /\ allowed' = [c \in DOMAIN allowed \ AllowedIps(todo.removed[p]) |-> allowed[c]]
    /\ wgPeers' = Drop(wgPeers, p)

(* a rename keeps the old record *)
KeepOldRecord(p, old, new) == Put(dns, new, known[p].ip)

(* routes are not compared *)
DiffersByName(old, new) == old.ip # new.ip \/ old.host # new.host

(* the NAT rule is appended without looking for it *)
AppendNat(wanted) == IF wanted THEN {nat, nat + 1} ELSE {IF nat > 0 THEN nat - 1 ELSE 0}

(* an exit node is never deactivated *)
ExitKept ==
    /\ phase = "exit"
    /\ phase' = "diff"
    /\ UNCHANGED <<exitState, directory, process, synced, known, todo, dns, tunnel, ice,
                   applied, subnets, osRoutes, nat, chain>>

-----------------------------------------------------------------------------
(* Changes of the directory (the handlers are in Enrollment and Directory) *)

(* The agent reads the directory only through the answer that begins a      *)
(* sync, so a change during a sync has the effect of one after it.          *)
Edit == phase \in {"down", "idle"} /\ edits < MaxEdits /\ edits' = edits + 1

AgentUnchanged ==
    UNCHANGED <<process, phase, synced, known, todo, dns, tunnel, ice, applied,
                exitState, subnets, osRoutes, nat, chain>>

Enroll(p, i, h) ==
    /\ Edit /\ AgentUnchanged
    /\ p \notin DOMAIN dir
    /\ \A q \in DOMAIN dir : dir[q].ip # i
    /\ dir' = Put(dir, p, [ip |-> i, host |-> h, routes |-> {}])
    /\ UNCHANGED <<selfRoutes, choice, rules>>

DeletePeer(p) ==
    /\ Edit /\ AgentUnchanged
    /\ p \in DOMAIN dir
    /\ dir' = Drop(dir, p)
    /\ UNCHANGED <<selfRoutes, choice, rules>>

Rename(p, h) ==
    /\ Edit /\ AgentUnchanged
    /\ p \in DOMAIN dir /\ dir[p].host # h
    /\ dir' = [dir EXCEPT ![p].host = h]
    /\ UNCHANGED <<selfRoutes, choice, rules>>

SetPeerRoutes(p, R) ==
    /\ Edit /\ AgentUnchanged
    /\ p \in DOMAIN dir /\ dir[p].routes # R
    /\ dir' = [dir EXCEPT ![p].routes = R]
    /\ UNCHANGED <<selfRoutes, choice, rules>>

SetSelfRoutes(R) ==
    /\ Edit /\ AgentUnchanged
    /\ selfRoutes # R
    /\ selfRoutes' = R
    /\ UNCHANGED <<dir, choice, rules>>

SetPeerExitNode(p) ==
    /\ Edit /\ AgentUnchanged
    /\ choice # p
    /\ p = NoPeer \/ (p \in DOMAIN dir /\ Default \in dir[p].routes)
    /\ choice' = p
    /\ UNCHANGED <<dir, selfRoutes, rules>>

SetRules(R) ==
    /\ Edit /\ AgentUnchanged
    /\ rules # R
    /\ rules' = R
    /\ UNCHANGED <<dir, selfRoutes, choice>>

-----------------------------------------------------------------------------
(* The process: New and Run, and its end at any point *)

(* New: without a TUN device the agent runs in netstack mode.  The Login of *)
(* Run saves a record without the ExitNode of the old one.                  *)
Start(ns) ==
    /\ phase = "down" /\ starts < MaxStarts
    /\ phase' = "idle"
    /\ starts' = starts + 1
    /\ netstack' = ns
    /\ choice' = NoPeer
    /\ UNCHANGED <<dir, selfRoutes, rules, edits, answer, synced, known, todo, dns, tunnel, ice, applied,
                   exitState, subnets, osRoutes, nat, chain>>

(* Run returns, or the process is killed.  Run does not deactivate an exit  *)
(* node and does not remove NAT or ACL rules.                               *)
Stop ==
    /\ phase # "down"
    /\ phase' = "down"
    /\ synced' = FALSE
    /\ known' = EmptyMap /\ todo' = NothingToDo /\ dns' = EmptyMap
    /\ wgPeers' = EmptyMap /\ allowed' = EmptyMap
    /\ endpoints' = EmptyMap /\ bind' = EmptyMap /\ counter' = 0
    /\ ice' = {} /\ applied' = EmptyMap /\ exit' = NoExit /\ subnets' = {}
    /\ osRoutes' = {} /\ split' = FALSE
    /\ UNCHANGED <<directory, process, pins, nat, chain>>

-----------------------------------------------------------------------------
(* applySync, first part: forwarding, NAT and the exit node *)

(* AddMasquerade checks for the rule first, and may fail; RemoveMasquerade  *)
(* deletes one.  The removal of a rule or route that is there is taken to   *)
(* succeed, here and below.                                                 *)
NatAfter(wanted) ==
    IF wanted THEN {nat, IF nat = 0 THEN 1 ELSE nat}
    ELSE {IF nat > 0 THEN nat - 1 ELSE 0}

BeginSync ==
    /\ phase = "idle"
    /\ answer' = BuildSyncResponse
    /\ synced' = FALSE
    /\ IF netstack
       THEN /\ subnets' = answer'.selfRoutes
            /\ phase' = "diff"
            /\ UNCHANGED nat
       ELSE /\ nat' \in NatAfter(answer'.selfRoutes # {})
            /\ phase' = "exit"
            /\ UNCHANGED subnets
    /\ UNCHANGED <<directory, starts, netstack, known, todo, dns, tunnel, ice, applied,
                   exitState, osRoutes, chain>>

UseExitNode == answer.exit # NoPeer

SyncUnchanged ==
    UNCHANGED <<directory, process, synced, known, todo, dns, tunnel, ice, applied,
                subnets, osRoutes, nat, chain>>

(* No change of exit-node state; or activateExitNode finds no default       *)
(* gateway and leaves everything alone.                                     *)
ExitUnchanged ==
    /\ phase = "exit" /\ (UseExitNode \/ ~exit.on)
    /\ phase' = "diff"
    /\ UNCHANGED exitState /\ SyncUnchanged

(* activateExitNode: pin the servers that resolve and whose route can be    *)
(* added, then add the two /1 routes, which may fail.                       *)
ActivateExitNode(hosts) ==
    /\ phase = "exit" /\ UseExitNode /\ ~exit.on
    /\ pins' = pins \cup hosts
    /\ exit' = [on |-> FALSE, hosts |-> hosts]
    /\ phase' = "split"
    /\ UNCHANGED split /\ SyncUnchanged

AddSplitRoutes(ok) ==
    /\ phase = "split"
    /\ split' = ok
    /\ exit' = [exit EXCEPT !.on = TRUE]
    /\ phase' = "diff"
    /\ UNCHANGED pins /\ SyncUnchanged

(* deactivateExitNode: the /1 routes first, then the pins. *)
DeactivateExitNode ==
    /\ phase = "exit" /\ ~UseExitNode /\ exit.on
    /\ split' = FALSE
    /\ phase' = "unpin"
    /\ UNCHANGED <<exit, pins>> /\ SyncUnchanged

RemovePins ==
    /\ phase = "unpin"
    /\ pins' = pins \ exit.hosts
    /\ exit' = NoExit
    /\ phase' = "diff"
    /\ UNCHANGED split /\ SyncUnchanged

-----------------------------------------------------------------------------
(* applySync, second part: peer.Manager.Diff and the three loops *)

(* The fields Diff compares. *)
Differs(old, new) ==
    old.ip # new.ip \/ old.host # new.host \/ AllowedIps(old) # AllowedIps(new)

(* Diff commits the new set before anything of it is applied. *)
Diff ==
    /\ phase = "diff"
    /\ LET incoming == answer.peers
           both == DOMAIN known \cap DOMAIN incoming
           changed == {p \in both : Differs(known[p], incoming[p])}
           gone == DOMAIN known \ DOMAIN incoming
       IN todo' = [added |-> DOMAIN incoming \ DOMAIN known,
                   updated |-> [p \in changed |-> known[p]],
                   removed |-> [p \in gone |-> known[p]]]
    /\ known' = answer.peers
    /\ phase' = "peers"
    /\ UNCHANGED <<directory, process, synced, dns, tunnel, ice, applied, exitState,
                   subnets, osRoutes, nat, chain>>

(* UpsertPeer: replace_allowed_ips is not set, so the prefixes are added,   *)
(* and WireGuard (external) moves a prefix to the peer that claims it last. *)
UpsertPeer(p) ==
    LET claimed == AllowedIps(known[p]) IN
    allowed' = [c \in DOMAIN allowed \cup claimed |-> IF c \in claimed THEN p ELSE allowed[c]]

(* WireGuard drops the prefixes of a removed peer. *)
RemovePeer(p) ==
    /\ allowed' = [c \in {d \in DOMAIN allowed : allowed[d] # p} |-> allowed[c]]
    /\ wgPeers' = Drop(wgPeers, p)

(* relay.New: the address is the low 16 bits of a counter. *)
NextEndpoint == (counter + 1) % EndpointSpace

(* ensureRelayLink: a no-op when the peer has its endpoint and its link. *)
EnsureRelayLink(p) ==
    IF p \in DOMAIN endpoints
    THEN /\ wgPeers' = IF p \in DOMAIN wgPeers THEN wgPeers ELSE Put(wgPeers, p, Unset)
         /\ UNCHANGED <<endpoints, bind, counter>>
    ELSE /\ counter' = counter + 1
         /\ endpoints' = Put(endpoints, p, NextEndpoint)
         /\ bind' = Put(bind, NextEndpoint, p)
         /\ wgPeers' = Put(wgPeers, p, NextEndpoint)

(* applyOSRoutes: default routes are skipped, AddRoute may fail, and with   *)
(* no new route (nil) the record of the peer's routes is left as it is.     *)
ApplyOSRoutes(p, old, new, failed) ==
    /\ osRoutes' = (osRoutes \ ((old \ new) \ {Default}))
                       \cup ((new \ old) \ ({Default} \cup failed))
    /\ applied' = IF new # {} THEN Put(applied, p, new) ELSE applied

Applied(p) == IF p \in DOMAIN applied THEN applied[p] ELSE {}

RoutesOf(p, old, failed) ==
    IF netstack THEN UNCHANGED <<osRoutes, applied>>
    ELSE ApplyOSRoutes(p, old, known[p].routes, failed)

ApplyAdded(p, failed) ==
    /\ phase = "peers" /\ p \in todo.added
    /\ UpsertPeer(p)
    /\ RoutesOf(p, {}, failed)
    /\ dns' = Put(dns, Label[known[p].host], known[p].ip)
    /\ EnsureRelayLink(p)
    /\ ice' = ice \cup {p}
    /\ todo' = [todo EXCEPT !.added = @ \ {p}]
    /\ UNCHANGED <<directory, process, phase, synced, known, exitState, subnets, nat, chain>>

(* A changed label is removed before the new one is set. *)
RenameRecord(p, old, new) ==
    Put(IF old # new THEN Drop(dns, old) ELSE dns, new, known[p].ip)

ApplyUpdated(p, failed) ==
    /\ phase = "peers" /\ todo.added = {} /\ p \in DOMAIN todo.updated
    /\ UpsertPeer(p)
    /\ RoutesOf(p, Applied(p), failed)
    /\ dns' = RenameRecord(p, Label[todo.updated[p].host], Label[known[p].host])
    /\ EnsureRelayLink(p)
    /\ todo' = [todo EXCEPT !.updated = Drop(@, p)]
    /\ UNCHANGED <<directory, process, phase, synced, known, ice, exitState, subnets, nat, chain>>

ApplyRemoved(p) ==
    /\ phase = "peers" /\ todo.added = {} /\ DOMAIN todo.updated = {}
    /\ p \in DOMAIN todo.removed
    /\ RemovePeer(p)
    /\ osRoutes' = IF netstack THEN osRoutes ELSE osRoutes \ (Applied(p) \ {Default})
    /\ applied' = Drop(applied, p)
    /\ dns' = Drop(dns, Label[todo.removed[p].host])
    /\ ice' = ice \ {p}
    /\ endpoints' = Drop(endpoints, p)
    /\ todo' = [todo EXCEPT !.removed = Drop(@, p)]
    /\ UNCHANGED <<directory, process, phase, synced, known, bind, counter, exitState, subnets,
                   nat, chain>>

(* EnsureChain and ApplyRules, on every sync in kernel mode: flush, install *)
(* the enabled rules, deny the rest.  When iptables fails the chain stays.  *)
FinishSync(ok) ==
    /\ phase = "peers" /\ todo = NothingToDo
    /\ chain' = IF ~netstack /\ ok THEN answer.rules ELSE chain
    /\ phase' = "idle"
    /\ synced' = ok
    /\ UNCHANGED <<directory, process, known, todo, dns, tunnel, ice, applied, exitState,
                   subnets, osRoutes, nat>>

-----------------------------------------------------------------------------
Init ==
    /\ \E D \in SUBSET Peers : dir \in [D -> [ip : IPs, host : Hostnames, routes : {{}}]]
    /\ \A p, q \in DOMAIN dir : dir[p].ip = dir[q].ip => p = q
    /\ selfRoutes = {} /\ choice = NoPeer /\ rules = {} /\ edits = 0
    /\ phase = "down" /\ starts = 0 /\ netstack = FALSE
    /\ answer = [peers |-> EmptyMap, selfRoutes |-> {}, exit |-> NoPeer, rules |-> {}]
    /\ synced = FALSE /\ known = EmptyMap /\ todo = NothingToDo /\ dns = EmptyMap
    /\ wgPeers = EmptyMap /\ allowed = EmptyMap
    /\ endpoints = EmptyMap /\ bind = EmptyMap /\ counter = 0
    /\ ice = {} /\ applied = EmptyMap /\ exit = NoExit /\ subnets = {}
    /\ osRoutes = {} /\ split = FALSE /\ pins = {} /\ nat = 0 /\ chain = {}

Manage ==
    \/ \E p \in Peers :
          \/ \E i \in IPs, h \in Hostnames : Enroll(p, i, h)
          \/ DeletePeer(p)
          \/ \E h \in Hostnames : Rename(p, h)
          \/ \E R \in SUBSET Cidrs : SetPeerRoutes(p, R)
    \/ \E R \in SUBSET Cidrs : SetSelfRoutes(R)
    \/ \E p \in Peers \cup {NoPeer} : SetPeerExitNode(p)
    \/ \E R \in SUBSET Rules : SetRules(R)

ExitStep ==
    \/ ExitUnchanged
    \/ \E hosts \in SUBSET Servers : ActivateExitNode(hosts)
    \/ \E ok \in BOOLEAN : AddSplitRoutes(ok)
    \/ DeactivateExitNode
    \/ RemovePins

PeerStep ==
    \E p \in Peers :
        \/ \E failed \in SUBSET Cidrs : ApplyAdded(p, failed) \/ ApplyUpdated(p, failed)
        \/ ApplyRemoved(p)

Next ==
    \/ Manage
    \/ \E ns \in BOOLEAN : Start(ns)
    \/ Stop
    \/ BeginSync
    \/ ExitStep
    \/ Diff
    \/ PeerStep
    \/ \E ok \in BOOLEAN : FinishSync(ok)

Spec == Init /\ [][Next]_vars

-----------------------------------------------------------------------------
(* Properties *)

IsRecordMap(m) == IsMap(m, Peers, [ip : IPs, host : Hostnames, routes : SUBSET Cidrs])

(* Every variable keeps its type. *)
TypeOK ==
    /\ IsRecordMap(dir) /\ IsRecordMap(answer.peers) /\ IsRecordMap(known)
    /\ IsRecordMap(todo.updated) /\ IsRecordMap(todo.removed) /\ todo.added \subseteq Peers
    /\ choice \in Peers \cup {NoPeer} /\ answer.exit \in Peers \cup {NoPeer}
    /\ phase \in {"down", "idle", "exit", "split", "unpin", "diff", "peers"}
    /\ IsMap(dns, Labels, IPs)
    /\ IsMap(wgPeers, Peers, 0 .. EndpointSpace - 1 \cup {Unset})
    /\ IsMap(endpoints, Peers, 0 .. EndpointSpace - 1)
    /\ IsMap(bind, 0 .. EndpointSpace - 1, Peers)
    /\ IsMap(allowed, IPs \cup Cidrs, Peers)
    /\ IsMap(applied, Peers, SUBSET Cidrs)
    /\ ice \subseteq Peers /\ osRoutes \subseteq Cidrs /\ pins \subseteq Servers
    /\ exit.on \in BOOLEAN /\ exit.hosts \subseteq Servers
    /\ nat \in Nat /\ counter \in Nat

(* The loops of applySync have nothing left to do. *)
Settled == todo = NothingToDo

(* Once an answer is applied, exactly its peers are in WireGuard, and each  *)
(* has an ICE attempt and a data path of its own: the endpoint WireGuard    *)
(* sends to is the one registered for that peer's link.  This holds until   *)
(* the endpoint counter wraps.                                              *)
PathsMatchPeers ==
    Settled /\ counter < EndpointSpace =>
        /\ DOMAIN wgPeers = DOMAIN known /\ DOMAIN endpoints = DOMAIN known
        /\ \A p \in DOMAIN known :
              /\ p \in ice
              /\ wgPeers[p] = endpoints[p]
              /\ bind[endpoints[p]] = p

(* WireGuard routes the address of every peer to that peer, also when the   *)
(* address was another peer's before, whatever the order of the updates.    *)
AddressRouted ==
    Settled =>
        \A p \in DOMAIN known : known[p].ip \in DOMAIN allowed /\ allowed[known[p].ip] = p

(* Names leave no stale record behind: every name that resolves is the      *)
(* label of a peer of the last answer and gives that peer's address.        *)
NoStaleNames ==
    Settled =>
        \A l \in DOMAIN dns : \E p \in DOMAIN known : Label[known[p].host] = l /\ known[p].ip = dns[l]

(* An OS route into the tunnel is one that some peer of the last answer     *)
(* advertises: a withdrawn route, or one of a removed peer, is gone.        *)
RoutesAdvertised ==
    Settled => osRoutes \subseteq (UNION {known[p].routes : p \in DOMAIN known}) \ {Default}

(* The default route leads into the tunnel only while the server selects an *)
(* exit node for this device, and never before the servers that could be    *)
(* pinned to the original gateway are pinned.                               *)
ExitFollowsAnswer ==
    /\ split => exit.on \/ phase = "unpin"
    /\ synced /\ split => UseExitNode
    /\ split => exit.hosts \subseteq pins

(* After a sync the netstack router has the own routes of the answer; in    *)
(* kernel mode NAT is on only for a device that advertises routes, with     *)
(* at most one rule, and the ACL chain holds the rules of the answer,       *)
(* whatever an earlier process of the agent left on the host.               *)
HostFollowsAnswer ==
    /\ nat <= 1
    /\ synced /\ netstack => subnets = answer.selfRoutes
    /\ synced /\ ~netstack => (nat > 0 => answer.selfRoutes # {}) /\ chain = answer.rules
=============================================================================
