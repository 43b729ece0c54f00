-------------------------- MODULE AgentSyncProofs --------------------------
(***************************************************************************)
(* What applySync leaves on the host agrees with the answer it applied,    *)
(* for any peers, addresses, names, routes and rules, and whatever the     *)
(* order of the updates.                                                   *)
(*                                                                         *)
(* The properties hold between syncs.  The invariants below say what holds *)
(* in the middle of one: a peer is either done, and its state is that of   *)
(* the answer, or still to do, and its state is that of the answer before. *)
(***************************************************************************)
EXTENDS AgentSync, TLAPS

Phases == {"down", "idle", "exit", "split", "unpin", "diff", "peers"}

(* Peers of the answer that are applied *)
Done == DOMAIN known \ (todo.added \cup DOMAIN todo.updated)

(* Peers that have a tunnel *)
Present == (DOMAIN known \ todo.added) \cup DOMAIN todo.removed

-----------------------------------------------------------------------------
(* The inductive invariant *)

(* Addresses are unique, in the directory and so in every answer. *)
Unique(m) == \A p, q \in DOMAIN m : m[p].ip = m[q].ip => p = q

Records ==
    /\ IsRecordMap(dir) /\ IsRecordMap(answer.peers) /\ IsRecordMap(known)
    /\ Unique(dir) /\ Unique(answer.peers) /\ Unique(known)

(* What Diff returned: three disjoint sets of peers, and nothing outside    *)
(* the loops.                                                               *)
Work ==
    /\ phase \in Phases
    /\ todo = [added |-> todo.added, updated |-> todo.updated, removed |-> todo.removed]
    /\ IsRecordMap(todo.updated) /\ IsRecordMap(todo.removed)
    /\ todo.added \subseteq DOMAIN known
    /\ DOMAIN todo.updated \subseteq DOMAIN known \ todo.added
    /\ DOMAIN todo.removed \cap DOMAIN known = {}
    /\ phase # "peers" => todo = NothingToDo
    /\ phase = "down" => known = EmptyMap

(* Every tunnel has an endpoint of its own, numbered by the counter. *)
Tunnels ==
    /\ counter \in Nat
    /\ counter < EndpointSpace =>
        /\ DOMAIN wgPeers = Present /\ DOMAIN endpoints = Present
        /\ \A p \in Present :
            /\ p \in ice
            /\ wgPeers[p] = endpoints[p]
            /\ endpoints[p] \in 1 .. counter /\ endpoints[p] \in DOMAIN bind
            /\ bind[endpoints[p]] = p

(* The address of a peer that is done leads to it. *)
Addressed ==
    \A p \in Done : known[p].ip \in DOMAIN allowed /\ allowed[known[p].ip] = p

(* A record is of a peer that is done, or of one whose old record the loops *)
(* will remove.                                                             *)
Named ==
    \A l \in DOMAIN dns :
        \/ \E p \in Done : Label[known[p].host] = l /\ known[p].ip = dns[l]
        \/ \E p \in DOMAIN todo.updated : Label[todo.updated[p].host] = l
        \/ \E p \in DOMAIN todo.removed : Label[todo.removed[p].host] = l

(* The record of routes covers what a peer that is done advertises, and a   *)
(* route is advertised, or recorded for a peer that is still to do.         *)
Routed ==
    /\ netstack \in BOOLEAN
    /\ netstack \/ phase = "down" => osRoutes = {}
    /\ Default \notin osRoutes
    /\ ~netstack => \A p \in Done : known[p].routes \subseteq Applied(p)
    /\ \A r \in osRoutes :
        \/ \E p \in Done : r \in known[p].routes
        \/ \E p \in DOMAIN todo.updated \cup DOMAIN todo.removed : r \in Applied(p)

PeerInv == Records /\ Work /\ Tunnels /\ Addressed /\ Named /\ Routed

(* Traffic goes to the exit node of the answer, from the point on where     *)
(* applySync has dealt with it.                                             *)
ExitInv ==
    /\ phase \in Phases /\ synced \in BOOLEAN /\ split \in BOOLEAN
    /\ exit \in [on : BOOLEAN, hosts : SUBSET Servers]
    /\ synced => phase = "idle"
    /\ split => exit.on /\ ~netstack
    /\ phase = "down" => ~split
    /\ phase \in {"exit", "split", "unpin"} => ~netstack
    /\ exit.hosts \subseteq pins
    /\ phase = "split" => UseExitNode
    /\ phase = "unpin" => ~split
    /\ (phase \in {"diff", "peers"} \/ synced) /\ split => UseExitNode

(* So do forwarding, NAT and the ACL chain. *)
HostInv ==
    /\ phase \in Phases /\ synced \in BOOLEAN
    /\ nat \in {0, 1}
    /\ synced => phase = "idle"
    /\ phase \in {"exit", "split", "unpin"} => ~netstack
    /\ (phase \in {"diff", "peers"} \/ synced) /\ netstack => subnets = answer.selfRoutes
    /\ (phase \notin {"down", "idle"} \/ synced) /\ ~netstack =>
        (nat > 0 => answer.selfRoutes # {})
    /\ synced /\ ~netstack => chain = answer.rules
-----------------------------------------------------------------------------
(* The exit node, NAT and the ACL chain *)

(* A change of the directory reaches the agent only with the next answer. *)
LEMMA ManageLeaves ==
    Manage => AgentUnchanged /\ phase \in {"down", "idle"}
  BY DEF Manage, Enroll, DeletePeer, Rename, SetPeerRoutes, SetSelfRoutes, SetPeerExitNode,
         SetRules, Edit

(* Every step keeps ExitInv, a stop in the middle of it included. *)
LEMMA ExitInductive ==
    ASSUME ExitInv, [Next]_vars
    PROVE  ExitInv'
<1> USE DEF Phases, UseExitNode, exitState
<1>1. CASE Manage \/ UNCHANGED vars
  BY <1>1, ManageLeaves DEF ExitInv, AgentUnchanged, process, vars
<1>2. ASSUME NEW ns \in BOOLEAN, Start(ns)
      PROVE  ExitInv'
  BY <1>2 DEF ExitInv, Start
<1>3. CASE Stop
  BY <1>3 DEF ExitInv, Stop, NoExit, process
<1>4. CASE BeginSync
  BY <1>4 DEF ExitInv, BeginSync
<1>5. CASE ExitUnchanged
  BY <1>5 DEF ExitInv, ExitUnchanged, SyncUnchanged, process
<1>6. ASSUME NEW hosts \in SUBSET Servers, ActivateExitNode(hosts)
      PROVE  ExitInv'
  BY <1>6 DEF ExitInv, ActivateExitNode, SyncUnchanged, process
<1>7. ASSUME NEW ok \in BOOLEAN, AddSplitRoutes(ok)
      PROVE  ExitInv'
  BY <1>7 DEF ExitInv, AddSplitRoutes, SyncUnchanged, process
<1>8. CASE DeactivateExitNode
  BY <1>8 DEF ExitInv, DeactivateExitNode, SyncUnchanged, process
<1>9. CASE RemovePins
  BY <1>9 DEF ExitInv, RemovePins, SyncUnchanged, process, NoExit
<1>10. CASE Diff \/ PeerStep
  <2>1. UNCHANGED <<answer, netstack, exit, split, pins, synced>>
    BY <1>10 DEF Diff, PeerStep, ApplyAdded, ApplyUpdated, ApplyRemoved, process
  <2>2. phase' = "peers" /\ phase \in {"diff", "peers"}
    BY <1>10 DEF Diff, PeerStep, ApplyAdded, ApplyUpdated, ApplyRemoved
  <2> QED
    BY <2>1, <2>2 DEF ExitInv
<1>11. ASSUME NEW ok \in BOOLEAN, FinishSync(ok)
       PROVE  ExitInv'
  BY <1>11 DEF ExitInv, FinishSync, process
<1> QED
  BY <1>1, <1>2, <1>3, <1>4, <1>5, <1>6, <1>7, <1>8, <1>9, <1>10, <1>11 DEF Next, ExitStep

(* Every step keeps HostInv. *)
LEMMA HostInductive ==
    ASSUME HostInv, [Next]_vars
    PROVE  HostInv'
<1> USE DEF Phases
<1>1. CASE Manage \/ UNCHANGED vars
  BY <1>1, ManageLeaves DEF HostInv, AgentUnchanged, process, vars
<1>2. ASSUME NEW ns \in BOOLEAN, Start(ns)
      PROVE  HostInv'
  BY <1>2 DEF HostInv, Start
<1>3. CASE Stop
  BY <1>3 DEF HostInv, Stop, process
<1>4. CASE BeginSync
  <2>1. ~netstack => nat' \in NatAfter(answer'.selfRoutes # {})
    BY <1>4 DEF BeginSync
  <2>2. ~netstack => nat' \in {0, 1} /\ (nat' > 0 => answer'.selfRoutes # {})
    BY <2>1 DEF HostInv, NatAfter
  <2> QED
    BY <1>4, <2>2 DEF HostInv, BeginSync
<1>5. CASE ExitStep
  <2>1. UNCHANGED <<answer, netstack, nat, subnets, chain, synced>>
    BY <1>5 DEF ExitStep, ExitUnchanged, ActivateExitNode, AddSplitRoutes, DeactivateExitNode,
                RemovePins, SyncUnchanged, process
  <2>2. phase \in {"exit", "split", "unpin"} /\ phase' \in {"split", "unpin", "diff"}
    BY <1>5 DEF ExitStep, ExitUnchanged, ActivateExitNode, AddSplitRoutes, DeactivateExitNode,
                RemovePins
  <2> QED
    BY <2>1, <2>2 DEF HostInv
<1>6. CASE Diff \/ PeerStep
  <2>1. UNCHANGED <<answer, netstack, nat, subnets, chain, synced>>
    BY <1>6 DEF Diff, PeerStep, ApplyAdded, ApplyUpdated, ApplyRemoved, process
  <2>2. phase' = "peers" /\ phase \in {"diff", "peers"}
    BY <1>6 DEF Diff, PeerStep, ApplyAdded, ApplyUpdated, ApplyRemoved
  <2> QED
    BY <2>1, <2>2 DEF HostInv
<1>7. ASSUME NEW ok \in BOOLEAN, FinishSync(ok)
      PROVE  HostInv'
  BY <1>7 DEF HostInv, FinishSync, process
<1> QED
  BY <1>1, <1>2, <1>3, <1>4, <1>5, <1>6, <1>7 DEF Next

(* The default route leads into the tunnel only for an exit node of the     *)
(* answer, and after the pins, whenever activateExitNode and                *)
(* deactivateExitNode are interrupted and whatever earlier processes left.  *)
THEOREM ExitFollows == Spec => []ExitFollowsAnswer
<1>1. Init => ExitInv
  <2> SUFFICES ASSUME Init PROVE ExitInv
    OBVIOUS
  <2>1. phase = "down" /\ synced = FALSE /\ split = FALSE /\ exit = NoExit /\ pins = {}
    BY DEF Init
  <2> QED
    BY <2>1 DEF ExitInv, Phases, NoExit
<1>2. ExitInv => ExitFollowsAnswer
  BY DEF ExitInv, ExitFollowsAnswer
<1> QED
  BY <1>1, <1>2, ExitInductive, PTL DEF Spec

(* After a sync, forwarding, NAT and the ACL chain of the host are those    *)
(* of the answer, with at most one NAT rule ever.                           *)
THEOREM HostFollows == Spec => []HostFollowsAnswer
<1>1. Init => HostInv
  BY DEF Init, HostInv, Phases
<1>2. HostInv => HostFollowsAnswer
  BY DEF HostInv, HostFollowsAnswer
<1> QED
  BY <1>1, <1>2, HostInductive, PTL DEF Spec
-----------------------------------------------------------------------------
(* Peers: records and what Diff returns *)

(* Peer records *)
RecordSet == [ip : IPs, host : Hostnames, routes : SUBSET Cidrs]

(* An empty map is a record map with unique addresses. *)
LEMMA EmptyRecords == DOMAIN EmptyMap = {} /\ IsRecordMap(EmptyMap) /\ Unique(EmptyMap)
  BY DEF EmptyMap, IsRecordMap, IsMap, Unique

(* The operator's requests keep addresses unique. *)
LEMMA DirectoryKeeps ==
    ASSUME IsRecordMap(dir), Unique(dir), Manage
    PROVE  IsRecordMap(dir') /\ Unique(dir')
<1> USE DEF IsRecordMap, IsMap, Unique
<1>1. ASSUME NEW p \in Peers, NEW i \in IPs, NEW h \in Hostnames, Enroll(p, i, h)
      PROVE  IsRecordMap(dir') /\ Unique(dir')
  <2>1. [ip |-> i, host |-> h, routes |-> {}] \in RecordSet
    BY DEF RecordSet
  <2> QED
    BY <1>1, <2>1 DEF Enroll, Put, RecordSet
<1>2. ASSUME NEW p \in Peers, DeletePeer(p)
      PROVE  IsRecordMap(dir') /\ Unique(dir')
  BY <1>2 DEF DeletePeer, Drop
<1>3. ASSUME NEW p \in Peers, NEW h \in Hostnames, Rename(p, h)
      PROVE  IsRecordMap(dir') /\ Unique(dir')
  BY <1>3 DEF Rename
<1>4. ASSUME NEW p \in Peers, NEW R \in SUBSET Cidrs, SetPeerRoutes(p, R)
      PROVE  IsRecordMap(dir') /\ Unique(dir')
  BY <1>4 DEF SetPeerRoutes
<1>5. ASSUME UNCHANGED dir
      PROVE  IsRecordMap(dir') /\ Unique(dir')
  BY <1>5
<1> QED
  BY <1>1, <1>2, <1>3, <1>4, <1>5 DEF Manage, SetSelfRoutes, SetPeerExitNode, SetRules

(* Every step keeps Records. *)
LEMMA RecordsInductive ==
    ASSUME Records, [Next]_vars
    PROVE  Records'
<1> USE DEF Records
<1>1. CASE Manage
  <2>1. UNCHANGED <<answer, known>>
    BY <1>1, ManageLeaves DEF AgentUnchanged, process
  <2> QED
    BY <1>1, <2>1, DirectoryKeeps
<1>2. CASE Stop
  <2>1. known' = EmptyMap /\ UNCHANGED <<dir, answer>>
    BY <1>2 DEF Stop, directory, process
  <2> QED
    BY <2>1, EmptyRecords
<1>3. CASE BeginSync
  <2>1. answer'.peers = dir /\ UNCHANGED <<dir, known>>
    BY <1>3 DEF BeginSync, BuildSyncResponse, directory
  <2> QED
    BY <2>1
<1>4. CASE Diff
  <2>1. known' = answer.peers /\ UNCHANGED <<dir, answer>>
    BY <1>4 DEF Diff, directory, process
  <2> QED
    BY <2>1
<1>5. CASE (\E ns \in BOOLEAN : Start(ns)) \/ ExitStep \/ PeerStep
           \/ (\E ok \in BOOLEAN : FinishSync(ok)) \/ UNCHANGED vars
  <2>1. UNCHANGED <<dir, answer, known>>
    BY <1>5 DEF Start, ExitStep, ExitUnchanged, ActivateExitNode, AddSplitRoutes,
         DeactivateExitNode, RemovePins, SyncUnchanged, PeerStep, ApplyAdded, ApplyUpdated,
         ApplyRemoved, FinishSync, directory, process, vars
  <2> QED
    BY <2>1
<1> QED
  BY <1>1, <1>2, <1>3, <1>4, <1>5 DEF Next

(* Outside the loops there is nothing to do. *)
LEMMA NothingPending ==
    ASSUME todo = NothingToDo
    PROVE  /\ todo.added = {} /\ DOMAIN todo.updated = {} /\ DOMAIN todo.removed = {}
           /\ Done = DOMAIN known /\ Present = DOMAIN known
  BY EmptyRecords DEF NothingToDo, Done, Present

(* Diff sorts the peers of both answers. *)
LEMMA DiffSorts ==
    ASSUME Records, Work, Diff
    PROVE  /\ Work'
           /\ Present' = DOMAIN known
           /\ DOMAIN known' = DOMAIN answer.peers /\ known' = answer.peers
           /\ Done' = {p \in DOMAIN known \cap DOMAIN answer.peers :
                            ~Differs(known[p], answer.peers[p])}
           /\ DOMAIN todo'.updated = {p \in DOMAIN known \cap DOMAIN answer.peers :
                            Differs(known[p], answer.peers[p])}
           /\ DOMAIN todo'.removed = DOMAIN known \ DOMAIN answer.peers
           /\ \A p \in DOMAIN todo'.updated : todo'.updated[p] = known[p]
           /\ \A p \in DOMAIN todo'.removed : todo'.removed[p] = known[p]
<1> DEFINE incoming == answer.peers
           both == DOMAIN known \cap DOMAIN incoming
           changed == {p \in both : Differs(known[p], incoming[p])}
           gone == DOMAIN known \ DOMAIN incoming
           upd == [p \in changed |-> known[p]]
           rem == [p \in gone |-> known[p]]
<1>1. /\ todo' = [added |-> DOMAIN incoming \ DOMAIN known, updated |-> upd, removed |-> rem]
      /\ known' = incoming /\ phase' = "peers"
  BY DEF Diff
<1>2. DOMAIN upd = changed /\ DOMAIN rem = gone
  OBVIOUS
<1>3. IsRecordMap(upd) /\ IsRecordMap(rem)
  BY DEF Records, IsRecordMap, IsMap
<1>4. changed \subseteq both /\ gone \cap DOMAIN incoming = {}
  OBVIOUS
<1>5. /\ \A p \in changed : upd[p] = known[p]
      /\ \A p \in gone : rem[p] = known[p]
  OBVIOUS
<1>6. both \ changed = {p \in both : ~Differs(known[p], incoming[p])}
  OBVIOUS
<1>7. /\ todo'.added = DOMAIN incoming \ DOMAIN known
      /\ todo'.updated = upd /\ todo'.removed = rem
      /\ todo' = [added |-> todo'.added, updated |-> todo'.updated, removed |-> todo'.removed]
  BY <1>1
<1> HIDE DEF changed, upd, rem
<1>8. Work'
  BY <1>1, <1>2, <1>3, <1>4, <1>7 DEF Work, Phases
<1>9. Present' = DOMAIN known
  BY <1>1, <1>2, <1>7 DEF Present
<1>10. Done' = both \ changed
  BY <1>1, <1>2, <1>7 DEF Done
<1> QED
  BY <1>1, <1>2, <1>5, <1>6, <1>7, <1>8, <1>9, <1>10 DEF changed
(* A step of a loop takes one peer off what is to do. *)
LEMMA AddedTaken ==
    ASSUME Work, NEW p \in Peers, NEW failed, ApplyAdded(p, failed)
    PROVE  /\ Work' /\ known' = known /\ p \in DOMAIN known
           /\ p \notin Done /\ Done' = Done \cup {p}
           /\ p \notin Present /\ Present' = Present \cup {p}
           /\ UNCHANGED <<todo.updated, todo.removed>>
           /\ p \notin DOMAIN todo.updated \cup DOMAIN todo.removed
<1>1. /\ phase = "peers" /\ p \in todo.added
      /\ todo' = [todo EXCEPT !.added = @ \ {p}] /\ UNCHANGED <<known, phase>>
  BY DEF ApplyAdded
<1>2. /\ todo'.added = todo.added \ {p}
      /\ todo'.updated = todo.updated /\ todo'.removed = todo.removed
      /\ todo' = [added |-> todo'.added, updated |-> todo'.updated, removed |-> todo'.removed]
  BY <1>1 DEF Work
<1>3. Work'
  BY <1>1, <1>2 DEF Work
<1> QED
  BY <1>1, <1>2, <1>3 DEF Work, Done, Present

(* The same for a peer that is updated ... *)
LEMMA UpdatedTaken ==
    ASSUME Work, NEW p \in Peers, NEW failed, ApplyUpdated(p, failed)
    PROVE  /\ Work' /\ known' = known /\ p \in DOMAIN known
           /\ p \notin Done /\ Done' = Done \cup {p}
           /\ p \in Present /\ Present' = Present
           /\ UNCHANGED <<todo.added, todo.removed>>
           /\ p \in DOMAIN todo.updated /\ todo'.updated = Drop(todo.updated, p)
           /\ p \notin DOMAIN todo.removed
<1>1. /\ phase = "peers" /\ p \in DOMAIN todo.updated
      /\ todo' = [todo EXCEPT !.updated = Drop(@, p)] /\ UNCHANGED <<known, phase>>
  BY DEF ApplyUpdated
<1>2. /\ todo'.updated = Drop(todo.updated, p)
      /\ todo'.added = todo.added /\ todo'.removed = todo.removed
      /\ todo' = [added |-> todo'.added, updated |-> todo'.updated, removed |-> todo'.removed]
  BY <1>1 DEF Work
<1>3. DOMAIN todo'.updated = DOMAIN todo.updated \ {p} /\ IsRecordMap(todo'.updated)
  BY <1>2 DEF Work, Drop, IsRecordMap, IsMap
<1>4. Work'
  BY <1>1, <1>2, <1>3 DEF Work
<1> QED
  BY <1>1, <1>2, <1>3, <1>4 DEF Work, Done, Present

(* ... and for one that is removed. *)
LEMMA RemovedTaken ==
    ASSUME Work, NEW p \in Peers, ApplyRemoved(p)
    PROVE  /\ Work' /\ known' = known /\ p \notin DOMAIN known
           /\ p \notin Done /\ Done' = Done
           /\ Present' = Present \ {p}
           /\ UNCHANGED <<todo.added, todo.updated>>
           /\ p \in DOMAIN todo.removed /\ todo'.removed = Drop(todo.removed, p)
           /\ DOMAIN todo.updated = {}
<1>1. /\ phase = "peers" /\ p \in DOMAIN todo.removed /\ DOMAIN todo.updated = {}
      /\ todo' = [todo EXCEPT !.removed = Drop(@, p)] /\ UNCHANGED <<known, phase>>
  BY DEF ApplyRemoved
<1>2. /\ todo'.removed = Drop(todo.removed, p)
      /\ todo'.added = todo.added /\ todo'.updated = todo.updated
      /\ todo' = [added |-> todo'.added, updated |-> todo'.updated, removed |-> todo'.removed]
  BY <1>1 DEF Work
<1>3. DOMAIN todo'.removed = DOMAIN todo.removed \ {p} /\ IsRecordMap(todo'.removed)
  BY <1>2 DEF Work, Drop, IsRecordMap, IsMap
<1>4. Work'
  BY <1>1, <1>2, <1>3 DEF Work
<1> QED
  BY <1>1, <1>2, <1>3, <1>4 DEF Work, Done, Present

(* The steps that leave the peers alone *)
Aside ==
    \/ Manage \/ BeginSync \/ ExitStep
    \/ \E ns \in BOOLEAN : Start(ns)
    \/ \E ok \in BOOLEAN : FinishSync(ok)
    \/ UNCHANGED vars

(* They change neither the peers nor what is to do. *)
LEMMA AsideLeaves ==
    ASSUME Aside
    PROVE  UNCHANGED <<known, todo, dns, wgPeers, allowed, endpoints, bind, counter, ice, applied,
                       osRoutes>>
  BY ManageLeaves DEF Aside, AgentUnchanged, BeginSync, ExitStep, ExitUnchanged, ActivateExitNode,
     AddSplitRoutes, DeactivateExitNode, RemovePins, SyncUnchanged, Start, FinishSync, tunnel, vars

(* A step is one of those, or one of the four that touch the peers. *)
LEMMA NextCases ==
    ASSUME [Next]_vars
    PROVE  \/ Aside \/ Stop \/ Diff
           \/ \E p \in Peers : \/ \E failed \in SUBSET Cidrs :
                                      ApplyAdded(p, failed) \/ ApplyUpdated(p, failed)
                               \/ ApplyRemoved(p)
  BY DEF Next, Aside, PeerStep

(* Every step keeps Work. *)
LEMMA WorkInductive ==
    ASSUME Records, Work, [Next]_vars
    PROVE  Work'
<1>1. CASE Aside
  <2>1. UNCHANGED <<known, todo>>
    BY <1>1, AsideLeaves
  <2>2. phase' \in Phases /\ (phase = "peers" /\ phase' # "peers" => todo = NothingToDo)
    BY <1>1, ManageLeaves DEF Aside, AgentUnchanged, BeginSync, ExitStep, ExitUnchanged,
       ActivateExitNode, AddSplitRoutes, DeactivateExitNode, RemovePins, Start, FinishSync, vars,
       Work, Phases
  <2>3. phase' = "down" => phase = "down"
    BY <1>1, ManageLeaves DEF Aside, AgentUnchanged, BeginSync, ExitStep, ExitUnchanged,
       ActivateExitNode, AddSplitRoutes, DeactivateExitNode, RemovePins, Start, FinishSync, vars
  <2> QED
    BY <2>1, <2>2, <2>3 DEF Work
<1>2. CASE Stop
  <2>1. phase' = "down" /\ known' = EmptyMap /\ todo' = NothingToDo
    BY <1>2 DEF Stop
  <2> QED
    BY <2>1, EmptyRecords DEF Work, Phases, NothingToDo
<1>3. CASE Diff
  BY <1>3, DiffSorts
<1> QED
  BY <1>1, <1>2, <1>3, NextCases, AddedTaken, UpdatedTaken, RemovedTaken

-----------------------------------------------------------------------------
(* Tunnels *)

(* A number below the modulus is its own remainder. *)
LEMMA SmallMod ==
    ASSUME NEW a \in Nat, NEW n \in Nat, a < n
    PROVE  a % n = a
  OBVIOUS

(* A new endpoint is one that no link has, until the counter wraps. *)
LEMMA TunnelAdded ==
    ASSUME Work, Tunnels, NEW p \in Peers, NEW failed, ApplyAdded(p, failed)
    PROVE  Tunnels'
<1>1. p \notin Present /\ Present' = Present \cup {p}
  BY AddedTaken
<1>2. ice' = ice \cup {p} /\ EnsureRelayLink(p)
  BY DEF ApplyAdded
<1>3. counter' \in Nat /\ counter <= counter'
  BY <1>2 DEF EnsureRelayLink, Tunnels
<1> SUFFICES ASSUME counter' < EndpointSpace
             PROVE  Tunnels'
  BY <1>3 DEF Tunnels
<1>4. counter < EndpointSpace
  BY <1>3, BoundAssumption DEF Tunnels
<1>5. p \notin DOMAIN endpoints
  BY <1>1, <1>4 DEF Tunnels
<1>6. counter' = counter + 1
  BY <1>2, <1>5 DEF EnsureRelayLink
<1>7. NextEndpoint = counter'
  BY <1>3, <1>6, SmallMod, BoundAssumption DEF NextEndpoint
<1>8. /\ endpoints' = Put(endpoints, p, counter') /\ wgPeers' = Put(wgPeers, p, counter')
      /\ bind' = Put(bind, counter', p)
  BY <1>2, <1>5, <1>7 DEF EnsureRelayLink
<1>9. \A q \in Present : endpoints[q] # counter'
  BY <1>4, <1>6 DEF Tunnels
<1>10. DOMAIN endpoints' = Present' /\ DOMAIN wgPeers' = Present'
  BY <1>1, <1>4, <1>8 DEF Put, Tunnels
<1>11. /\ wgPeers'[p] = counter' /\ endpoints'[p] = counter'
       /\ counter' \in DOMAIN bind' /\ bind'[counter'] = p
  BY <1>8 DEF Put
<1>12. ASSUME NEW q \in Present
       PROVE  /\ wgPeers'[q] = endpoints'[q] /\ q \in ice'
              /\ endpoints'[q] \in 1 .. counter /\ endpoints'[q] \in DOMAIN bind'
              /\ bind'[endpoints'[q]] = q
  BY <1>1, <1>2, <1>4, <1>8, <1>9 DEF Put, Tunnels
<1> QED
  BY <1>1, <1>2, <1>3, <1>6, <1>10, <1>11, <1>12 DEF Tunnels

(* Every step keeps Tunnels. *)
LEMMA TunnelsInductive ==
    ASSUME Records, Work, Tunnels, [Next]_vars
    PROVE  Tunnels'
<1>1. CASE Aside
  BY <1>1, AsideLeaves DEF Tunnels, Present
<1>2. CASE Stop
  <2>1. /\ known' = EmptyMap /\ todo' = NothingToDo /\ wgPeers' = EmptyMap
        /\ endpoints' = EmptyMap /\ counter' = 0
    BY <1>2 DEF Stop
  <2>2. Present' = {}
    BY <2>1, EmptyRecords DEF Present, NothingToDo
  <2> QED
    BY <2>1, <2>2, EmptyRecords DEF Tunnels
<1>3. CASE Diff
  <2>1. UNCHANGED <<wgPeers, endpoints, bind, counter, ice>>
    BY <1>3 DEF Diff, tunnel
  <2>2. Present' = Present
    <3>1. todo = NothingToDo
      BY <1>3 DEF Diff, Work
    <3> QED
      BY <1>3, <3>1, DiffSorts, NothingPending
  <2> QED
    BY <2>1, <2>2 DEF Tunnels
<1>4. ASSUME NEW p \in Peers, NEW failed \in SUBSET Cidrs, ApplyUpdated(p, failed)
      PROVE  Tunnels'
  <2>1. p \in Present /\ Present' = Present
    BY <1>4, UpdatedTaken
  <2>2. EnsureRelayLink(p) /\ UNCHANGED ice
    BY <1>4 DEF ApplyUpdated
  <2>3. counter' \in Nat /\ counter <= counter'
    BY <2>2 DEF EnsureRelayLink, Tunnels
  <2>4. CASE counter' < EndpointSpace
    <3>1. counter < EndpointSpace
      BY <2>3, <2>4, BoundAssumption DEF Tunnels
    <3>2. UNCHANGED <<wgPeers, endpoints, bind, counter>>
      BY <2>1, <2>2, <3>1 DEF EnsureRelayLink, Tunnels
    <3> QED
      BY <2>1, <2>2, <3>2 DEF Tunnels
  <2> QED
    BY <2>3, <2>4 DEF Tunnels
<1>5. ASSUME NEW p \in Peers, ApplyRemoved(p)
      PROVE  Tunnels'
  <2>1. Present' = Present \ {p}
    BY <1>5, RemovedTaken
  <2>2. /\ wgPeers' = Drop(wgPeers, p) /\ endpoints' = Drop(endpoints, p) /\ ice' = ice \ {p}
        /\ UNCHANGED <<bind, counter>>
    BY <1>5 DEF ApplyRemoved, RemovePeer
  <2> QED
    BY <2>1, <2>2 DEF Tunnels, Drop
<1> QED
  BY <1>1, <1>2, <1>3, <1>4, <1>5, NextCases, TunnelAdded
-----------------------------------------------------------------------------
(* Addresses *)

(* A peer that is upserted takes no address of another peer. *)
LEMMA UpsertClaims ==
    ASSUME Records, Addressed, NEW p \in DOMAIN known, UpsertPeer(p), known' = known,
           Done' = Done \cup {p}
    PROVE  Addressed'
<1>1. known[p].ip \in DOMAIN allowed' /\ allowed'[known[p].ip] = p
  BY DEF UpsertPeer, AllowedIps
<1>2. ASSUME NEW q \in Done, q # p
      PROVE  known[q].ip \in DOMAIN allowed' /\ allowed'[known[q].ip] = q
  <2>1. q \in DOMAIN known
    BY DEF Done
  <2>2. known[q].ip # known[p].ip
    BY <1>2, <2>1 DEF Records, Unique
  <2>3. known[q].ip \in IPs /\ known[p].routes \subseteq Cidrs
    BY <2>1 DEF Records, IsRecordMap, IsMap
  <2>4. known[q].ip \notin AllowedIps(known[p])
    BY <2>2, <2>3, RouteAssumption DEF AllowedIps
  <2> QED
    BY <2>4 DEF UpsertPeer, Addressed
<1> QED
  BY <1>1, <1>2 DEF Addressed

(* Every step keeps Addressed. *)
LEMMA AddressedInductive ==
    ASSUME Records, Work, Addressed, [Next]_vars
    PROVE  Addressed'
<1>1. CASE Aside
  BY <1>1, AsideLeaves DEF Addressed, Done
<1>2. CASE Stop
  <2>1. known' = EmptyMap
    BY <1>2 DEF Stop
  <2> QED
    BY <2>1, EmptyRecords DEF Addressed, Done
<1>3. CASE Diff
  <2>1. Done = DOMAIN known /\ UNCHANGED allowed
    <3>1. todo = NothingToDo
      BY <1>3 DEF Diff, Work
    <3> QED
      BY <1>3, <3>1, NothingPending DEF Diff, tunnel
  <2>2. \A p \in Done' : p \in DOMAIN known /\ known'[p].ip = known[p].ip
    BY <1>3, DiffSorts DEF Differs
  <2> QED
    BY <2>1, <2>2 DEF Addressed
<1>4. ASSUME NEW p \in Peers, NEW failed \in SUBSET Cidrs,
             ApplyAdded(p, failed) \/ ApplyUpdated(p, failed)
      PROVE  Addressed'
  <2>1. p \in DOMAIN known /\ known' = known /\ Done' = Done \cup {p}
    BY <1>4, AddedTaken, UpdatedTaken
  <2>2. UpsertPeer(p)
    BY <1>4 DEF ApplyAdded, ApplyUpdated
  <2> QED
    BY <2>1, <2>2, UpsertClaims
<1>5. ASSUME NEW p \in Peers, ApplyRemoved(p)
      PROVE  Addressed'
  <2>1. p \notin Done /\ Done' = Done /\ known' = known
    BY <1>5, RemovedTaken
  <2>2. allowed' = [c \in {d \in DOMAIN allowed : allowed[d] # p} |-> allowed[c]]
    BY <1>5 DEF ApplyRemoved, RemovePeer
  <2> QED
    BY <2>1, <2>2 DEF Addressed
<1> QED
  BY <1>1, <1>2, <1>3, <1>4, <1>5, NextCases

-----------------------------------------------------------------------------
(* Names *)

(* Every step keeps Named: a loop removes the old record of a peer before   *)
(* or with the step that makes it done.                                     *)
LEMMA NamedInductive ==
    ASSUME Records, Work, Named, [Next]_vars
    PROVE  Named'
<1>1. CASE Aside
  BY <1>1, AsideLeaves DEF Named, Done
<1>2. CASE Stop
  <2>1. dns' = EmptyMap
    BY <1>2 DEF Stop
  <2> QED
    BY <2>1, EmptyRecords DEF Named
<1>3. CASE Diff
  <2>1. Done = DOMAIN known /\ DOMAIN todo.updated = {} /\ DOMAIN todo.removed = {}
    <3>1. todo = NothingToDo
      BY <1>3 DEF Diff, Work
    <3> QED
      BY <3>1, NothingPending
  <2>2. UNCHANGED dns
    BY <1>3 DEF Diff
  <2> SUFFICES ASSUME NEW l \in DOMAIN dns
               PROVE  \/ \E p \in Done' : Label[known'[p].host] = l /\ known'[p].ip = dns[l]
                      \/ \E p \in DOMAIN todo'.updated : Label[todo'.updated[p].host] = l
                      \/ \E p \in DOMAIN todo'.removed : Label[todo'.removed[p].host] = l
    BY <2>2 DEF Named
  <2>3. PICK p \in DOMAIN known : Label[known[p].host] = l /\ known[p].ip = dns[l]
    BY <2>1 DEF Named
  <2>4. CASE p \notin DOMAIN answer.peers
    BY <1>3, <2>3, <2>4, DiffSorts
  <2>5. CASE p \in DOMAIN answer.peers /\ Differs(known[p], answer.peers[p])
    BY <1>3, <2>3, <2>5, DiffSorts
  <2>6. CASE p \in DOMAIN answer.peers /\ ~Differs(known[p], answer.peers[p])
    <3>1. p \in Done' /\ known' = answer.peers
      BY <1>3, <2>6, DiffSorts
    <3>2. answer.peers[p].host = known[p].host /\ answer.peers[p].ip = known[p].ip
      BY <2>6 DEF Differs
    <3> QED
      BY <2>3, <3>1, <3>2
  <2> QED
    BY <2>4, <2>5, <2>6
<1>4. ASSUME NEW p \in Peers, NEW failed \in SUBSET Cidrs, ApplyAdded(p, failed)
      PROVE  Named'
  <2>1. /\ known' = known /\ Done' = Done \cup {p}
        /\ UNCHANGED <<todo.updated, todo.removed>>
    BY <1>4, AddedTaken
  <2>2. dns' = Put(dns, Label[known[p].host], known[p].ip)
    BY <1>4 DEF ApplyAdded
  <2>3. \A l \in DOMAIN dns' : \/ l = Label[known[p].host] /\ dns'[l] = known[p].ip
                               \/ l \in DOMAIN dns /\ dns'[l] = dns[l]
    BY <2>2 DEF Put
  <2> QED
    BY <2>1, <2>3 DEF Named
<1>5. ASSUME NEW p \in Peers, NEW failed \in SUBSET Cidrs, ApplyUpdated(p, failed)
      PROVE  Named'
  <2> DEFINE old == Label[todo.updated[p].host]
  <2>1. /\ known' = known /\ Done' = Done \cup {p} /\ UNCHANGED todo.removed
        /\ p \in DOMAIN todo.updated /\ todo'.updated = Drop(todo.updated, p)
    BY <1>5, UpdatedTaken
  <2>2. /\ DOMAIN todo'.updated = DOMAIN todo.updated \ {p}
        /\ \A q \in DOMAIN todo'.updated : todo'.updated[q] = todo.updated[q]
    BY <2>1 DEF Drop
  <2>3. dns' = RenameRecord(p, old, Label[known[p].host])
    BY <1>5 DEF ApplyUpdated
  <2>4. \A l \in DOMAIN dns' : \/ l = Label[known[p].host] /\ dns'[l] = known[p].ip
                               \/ l # old /\ l \in DOMAIN dns /\ dns'[l] = dns[l]
    BY <2>3 DEF RenameRecord, Put, Drop
  <2> HIDE DEF old
  <2> SUFFICES ASSUME NEW l \in DOMAIN dns'
               PROVE  \/ \E q \in Done' : Label[known[q].host] = l /\ known[q].ip = dns'[l]
                      \/ \E q \in DOMAIN todo'.updated : Label[todo'.updated[q].host] = l
                      \/ \E q \in DOMAIN todo'.removed : Label[todo'.removed[q].host] = l
    BY <2>1 DEF Named
  <2>5. CASE l = Label[known[p].host] /\ dns'[l] = known[p].ip
    BY <2>1, <2>5
  <2>6. CASE l # old /\ l \in DOMAIN dns /\ dns'[l] = dns[l]
    BY <2>1, <2>2, <2>6 DEF Named, old
  <2> QED
    BY <2>4, <2>5, <2>6
<1>6. ASSUME NEW p \in Peers, ApplyRemoved(p)
      PROVE  Named'
  <2> DEFINE old == Label[todo.removed[p].host]
  <2>1. /\ known' = known /\ Done' = Done /\ UNCHANGED todo.updated
        /\ p \in DOMAIN todo.removed /\ todo'.removed = Drop(todo.removed, p)
    BY <1>6, RemovedTaken
  <2>2. /\ DOMAIN todo'.removed = DOMAIN todo.removed \ {p}
        /\ \A q \in DOMAIN todo'.removed : todo'.removed[q] = todo.removed[q]
    BY <2>1 DEF Drop
  <2>3. dns' = Drop(dns, old)
    BY <1>6 DEF ApplyRemoved
  <2>4. \A l \in DOMAIN dns' : l # old /\ l \in DOMAIN dns /\ dns'[l] = dns[l]
    BY <2>3 DEF Drop
  <2> HIDE DEF old
  <2> QED
    BY <2>1, <2>2, <2>4 DEF Named, old
<1> QED
  BY <1>1, <1>2, <1>3, <1>4, <1>5, <1>6, NextCases

-----------------------------------------------------------------------------
(* Routes *)

(* The routes of a peer that is added or updated replace the recorded ones. *)
LEMMA RoutesReplaced ==
    ASSUME Records, Work, Routed, NEW p \in DOMAIN known, NEW old, NEW failed,
           old = {} \/ old = Applied(p),
           RoutesOf(p, old, failed), known' = known, UNCHANGED <<netstack, phase>>,
           Done' = Done \cup {p},
           DOMAIN todo'.updated = DOMAIN todo.updated \ {p}, UNCHANGED todo.removed,
           p \notin DOMAIN todo.removed,
           p \in DOMAIN todo.updated => old = Applied(p), phase # "down"
    PROVE  Routed'
<1>1. CASE netstack
  BY <1>1 DEF RoutesOf, Routed
<1>2. CASE ~netstack
  <2> DEFINE new == known[p].routes
  <2>1. /\ osRoutes' = (osRoutes \ ((old \ new) \ {Default})) \cup ((new \ old) \ ({Default} \cup failed))
        /\ applied' = IF new # {} THEN Put(applied, p, new) ELSE applied
    BY <1>2 DEF RoutesOf, ApplyOSRoutes
  <2>2. new \subseteq Applied(p)'
    BY <2>1 DEF Applied, Put
  <2>3. \A q : q # p => Applied(q)' = Applied(q)
    BY <2>1 DEF Applied, Put
  <2>4. Default \notin osRoutes'
    BY <2>1 DEF Routed
  <2>5. \A q \in Done' : known[q].routes \subseteq Applied(q)'
    BY <1>2, <2>2, <2>3 DEF Routed
  <2>6. ASSUME NEW r \in osRoutes'
        PROVE  \/ \E q \in Done' : r \in known[q].routes
               \/ \E q \in DOMAIN todo'.updated \cup DOMAIN todo'.removed : r \in Applied(q)'
    <3>1. CASE r \in new
      BY <3>1
    <3>2. CASE r \notin new
      <4>1. r \in osRoutes /\ r \notin old
        BY <2>1, <2>4, <3>2
      <4>2. CASE \E q \in Done : r \in known[q].routes
        BY <4>2
      <4>3. CASE \E q \in DOMAIN todo.updated \cup DOMAIN todo.removed : r \in Applied(q)
        <5>1. PICK q \in DOMAIN todo.updated \cup DOMAIN todo.removed : r \in Applied(q)
          BY <4>3
        <5>2. q # p
          BY <4>1, <5>1
        <5> QED
          BY <2>3, <5>1, <5>2
      <4> QED
        BY <4>1, <4>2, <4>3 DEF Routed
    <3> QED
      BY <3>1, <3>2
  <2> QED
    BY <1>2, <2>4, <2>5, <2>6 DEF Routed
<1> QED
  BY <1>1, <1>2 DEF Routed
(* Every step keeps Routed. *)
LEMMA RoutedInductive ==
    ASSUME Records, Work, Routed, [Next]_vars
    PROVE  Routed'
<1>1. CASE Aside
  <2>1. UNCHANGED <<known, todo, applied, osRoutes>>
    BY <1>1, AsideLeaves
  <2>2. Done' = Done /\ \A q : Applied(q)' = Applied(q)
    BY <2>1 DEF Done, Applied
  <2>3. CASE \E ns \in BOOLEAN : Start(ns)
    <3>1. phase = "down" /\ netstack' \in BOOLEAN
      BY <2>3 DEF Start
    <3>2. osRoutes = {} /\ Done = {}
      BY <3>1, EmptyRecords DEF Routed, Work, Done
    <3> QED
      BY <2>1, <2>2, <3>1, <3>2 DEF Routed
  <2>4. CASE ~\E ns \in BOOLEAN : Start(ns)
    <3>1. UNCHANGED netstack /\ (phase' = "down" => phase = "down")
      BY <1>1, <2>4, ManageLeaves DEF Aside, AgentUnchanged, BeginSync, ExitStep, ExitUnchanged,
         ActivateExitNode, AddSplitRoutes, DeactivateExitNode, RemovePins, SyncUnchanged,
         FinishSync, process, vars
    <3> QED
      BY <2>1, <2>2, <3>1 DEF Routed
  <2> QED
    BY <2>3, <2>4
<1>2. CASE Stop
  <2>1. known' = EmptyMap /\ osRoutes' = {} /\ UNCHANGED netstack
    BY <1>2 DEF Stop, process
  <2>2. Done' = {}
    BY <2>1, EmptyRecords DEF Done
  <2> QED
    BY <2>1, <2>2 DEF Routed
<1>3. CASE Diff
  <2>1. Done = DOMAIN known /\ DOMAIN todo.updated = {} /\ DOMAIN todo.removed = {}
    <3>1. todo = NothingToDo
      BY <1>3 DEF Diff, Work
    <3> QED
      BY <3>1, NothingPending
  <2>2. phase' = "peers" /\ phase = "diff" /\ UNCHANGED <<netstack, applied, osRoutes>>
    BY <1>3 DEF Diff, process
  <2>3. \A q : Applied(q)' = Applied(q)
    BY <2>2 DEF Applied
  <2>4. ASSUME NEW p \in Done'
        PROVE  p \in DOMAIN known /\ known'[p].routes = known[p].routes
    <3>1. /\ p \in DOMAIN known /\ p \in DOMAIN answer.peers /\ known' = answer.peers
          /\ ~Differs(known[p], answer.peers[p])
      BY <1>3, DiffSorts
    <3>2. /\ known[p].ip \in IPs /\ known[p].routes \subseteq Cidrs
          /\ answer.peers[p].routes \subseteq Cidrs
      BY <3>1 DEF Records, IsRecordMap, IsMap
    <3>3. /\ answer.peers[p].ip = known[p].ip
          /\ {known[p].ip} \cup known[p].routes = {known[p].ip} \cup answer.peers[p].routes
      BY <3>1 DEF Differs, AllowedIps
    <3> QED
      BY <3>1, <3>2, <3>3, RouteAssumption
  <2>5. ~netstack' => \A p \in Done' : known'[p].routes \subseteq Applied(p)'
    BY <2>1, <2>2, <2>3, <2>4 DEF Routed
  <2>6. ASSUME NEW r \in osRoutes'
        PROVE  \/ \E p \in Done' : r \in known'[p].routes
               \/ \E p \in DOMAIN todo'.updated \cup DOMAIN todo'.removed : r \in Applied(p)'
    <3>1. r \in osRoutes /\ ~netstack
      BY <2>2, <2>6 DEF Routed
    <3>2. PICK p \in DOMAIN known : r \in known[p].routes
      BY <2>1, <3>1 DEF Routed
    <3>3. r \in Applied(p)'
      BY <2>1, <2>3, <3>1, <3>2 DEF Routed
    <3>4. p \in Done' \/ p \in DOMAIN todo'.updated \/ p \in DOMAIN todo'.removed
      BY <1>3, DiffSorts
    <3> QED
      BY <2>4, <3>2, <3>3, <3>4
  <2> QED
    BY <2>2, <2>5, <2>6 DEF Routed
<1>4. ASSUME NEW p \in Peers, NEW failed \in SUBSET Cidrs, ApplyAdded(p, failed)
      PROVE  Routed'
  <2>1. RoutesOf(p, {}, failed) /\ UNCHANGED <<netstack, phase>> /\ phase # "down"
    BY <1>4 DEF ApplyAdded, process
  <2>2. /\ p \in DOMAIN known /\ known' = known /\ Done' = Done \cup {p}
        /\ UNCHANGED <<todo.updated, todo.removed>>
        /\ p \notin DOMAIN todo.updated \cup DOMAIN todo.removed
    BY <1>4, AddedTaken
  <2> QED
    BY <2>1, <2>2, RoutesReplaced
<1>5. ASSUME NEW p \in Peers, NEW failed \in SUBSET Cidrs, ApplyUpdated(p, failed)
      PROVE  Routed'
  <2>1. RoutesOf(p, Applied(p), failed) /\ UNCHANGED <<netstack, phase>> /\ phase # "down"
    BY <1>5 DEF ApplyUpdated, process
  <2>2. /\ p \in DOMAIN known /\ known' = known /\ Done' = Done \cup {p}
        /\ todo'.updated = Drop(todo.updated, p) /\ UNCHANGED todo.removed
        /\ p \notin DOMAIN todo.removed
    BY <1>5, UpdatedTaken
  <2>3. DOMAIN todo'.updated = DOMAIN todo.updated \ {p}
    BY <2>2 DEF Drop
  <2> QED
    BY <2>1, <2>2, <2>3, RoutesReplaced
<1>6. ASSUME NEW p \in Peers, ApplyRemoved(p)
      PROVE  Routed'
  <2>1. /\ known' = known /\ Done' = Done /\ p \notin Done /\ UNCHANGED todo.updated
        /\ p \in DOMAIN todo.removed /\ todo'.removed = Drop(todo.removed, p)
        /\ DOMAIN todo.updated = {}
    BY <1>6, RemovedTaken
  <2>2. /\ osRoutes' = (IF netstack THEN osRoutes ELSE osRoutes \ (Applied(p) \ {Default}))
        /\ applied' = Drop(applied, p) /\ UNCHANGED <<netstack, phase>> /\ phase # "down"
    BY <1>6 DEF ApplyRemoved, process
  <2>3. \A q : q # p => Applied(q)' = Applied(q)
    BY <2>2 DEF Applied, Drop
  <2>4. DOMAIN todo'.removed = DOMAIN todo.removed \ {p}
    BY <2>1 DEF Drop
  <2>5. osRoutes' \subseteq osRoutes
    BY <2>2
  <2>6. ASSUME NEW r \in osRoutes', NEW q, r \in Applied(q)
        PROVE  q # p
    BY <2>2, <2>6 DEF Routed
  <2> QED
    BY <2>1, <2>2, <2>3, <2>4, <2>5, <2>6 DEF Routed
<1> QED
  BY <1>1, <1>2, <1>3, <1>4, <1>5, <1>6, NextCases

-----------------------------------------------------------------------------
(* The peers of the host are those of the answer. *)

(* The invariant of the peers *)
LEMMA PeersInductive == Spec => []PeerInv
<1>1. Init => PeerInv
  <2> SUFFICES ASSUME Init PROVE PeerInv
    OBVIOUS
  <2>1. PICK D \in SUBSET Peers : dir \in [D -> [ip : IPs, host : Hostnames, routes : {{}}]]
    BY DEF Init
  <2>2. IsRecordMap(dir) /\ Unique(dir)
    BY <2>1 DEF Init, IsRecordMap, IsMap, Unique
  <2>3. /\ answer.peers = EmptyMap /\ known = EmptyMap /\ todo = NothingToDo /\ phase = "down"
        /\ netstack = FALSE /\ dns = EmptyMap /\ wgPeers = EmptyMap /\ endpoints = EmptyMap
        /\ counter = 0 /\ osRoutes = {}
    BY DEF Init
  <2>4. Done = {} /\ Present = {} /\ DOMAIN dns = {} /\ DOMAIN wgPeers = {} /\ DOMAIN endpoints = {}
    BY <2>3, NothingPending, EmptyRecords
  <2>5. Records
    BY <2>2, <2>3, EmptyRecords DEF Records
  <2>6. Work
    BY <2>3, EmptyRecords DEF Work, NothingToDo, Phases
  <2>7. Tunnels
    BY <2>3, <2>4 DEF Tunnels
  <2>8. Addressed /\ Named /\ Routed
    BY <2>3, <2>4 DEF Addressed, Named, Routed
  <2> QED
    BY <2>5, <2>6, <2>7, <2>8 DEF PeerInv
<1>2. PeerInv /\ [Next]_vars => PeerInv'
  BY RecordsInductive, WorkInductive, TunnelsInductive, AddressedInductive, NamedInductive,
     RoutedInductive DEF PeerInv
<1> QED
  BY <1>1, <1>2, PTL DEF Spec

(* Until the endpoint counter wraps, an applied answer leaves exactly its   *)
(* peers in WireGuard, each with an ICE attempt and with an endpoint that   *)
(* ensureRelayLink registered for it and for no other peer.                 *)
THEOREM PathsMatch == Spec => []PathsMatchPeers
<1>1. PeerInv => PathsMatchPeers
  BY NothingPending DEF PeerInv, Tunnels, PathsMatchPeers, Settled
<1> QED
  BY <1>1, PeersInductive, PTL

(* UpsertPeer never replaces the prefixes of a peer, yet after a sync the   *)
(* address of every peer leads to it, also one that was another's before.   *)
THEOREM AddressesRouted == Spec => []AddressRouted
<1>1. PeerInv => AddressRouted
  BY NothingPending DEF PeerInv, Addressed, AddressRouted, Settled
<1> QED
  BY <1>1, PeersInductive, PTL

(* Whatever names share a label and in whatever order peers are renamed,    *)
(* added and removed, no record of the resolver outlives its peer's name.   *)
THEOREM NamesCurrent == Spec => []NoStaleNames
<1>1. PeerInv => NoStaleNames
  BY NothingPending DEF PeerInv, Named, NoStaleNames, Settled
<1> QED
  BY <1>1, PeersInductive, PTL

(* applyOSRoutes keeps an old record for a peer that withdraws its last     *)
(* route; even so, after a sync every OS route into the tunnel is           *)
(* advertised by a peer of the answer.                                      *)
THEOREM RoutesCurrent == Spec => []RoutesAdvertised
<1>1. PeerInv => RoutesAdvertised
  <2> SUFFICES ASSUME PeerInv, Settled, NEW r \in osRoutes
               PROVE  r \in UNION {known[p].routes : p \in DOMAIN known} /\ r # Default
    BY DEF RoutesAdvertised
  <2>1. PICK p \in DOMAIN known : r \in known[p].routes
    BY NothingPending DEF PeerInv, Routed, Settled
  <2> QED
    BY <2>1 DEF PeerInv, Routed
<1> QED
  BY <1>1, PeersInductive, PTL
=============================================================================
