----------------------------- MODULE Directory ------------------------------
(***************************************************************************)
(* The operator's data on the management server, with the PostgreSQL       *)
(* store: peer records, groups and access rules.                           *)
(*                                                                         *)
(* The handlers of the dashboard's API and Login read a record, change it  *)
(* and save the whole record; several of them run at a time, and between   *)
(* the read and the save others may save or delete the record.  The server *)
(* may stop between them; at its start it repairs and seeds the store.  Of *)
(* a record the model keeps the ID, the groups, whether an operator named  *)
(* the device, whether 0.0.0.0/0 is advertised, and the exit node;         *)
(* addresses are the subject of Enrollment.                                *)
(***************************************************************************)
EXTENDS Policy, FiniteSets, GoMaps

CONSTANTS
    Devices,        \* public keys
    NoKey,          \* no exit node
    Default,        \* the group every peer belongs to
    AutoGroups,     \* auto-groups of the setup key
    RuleIds,        \* IDs of rules
    SeedId,         \* the ID of the seeded rule
    RuleSpace,      \* rules a request may describe
    RuleEdits,      \* sets of fields a request may change in a rule
    Packets,        \* packets to evaluate the rules with
    Handlers,       \* requests in progress
    MaxEdits        \* bound: requests

RuleFields == {"name", "src", "dst", "proto", "port", "action", "enabled", "prio"}

(* A packet has the addresses of hosts. *)
ASSUME DirectoryAssumption ==
    /\ Default \in Groups /\ AutoGroups \subseteq Groups
    /\ Devices \subseteq Hosts /\ NoKey \notin Devices
    /\ SeedId \in RuleIds /\ MaxEdits \in Nat \ {0}
    /\ \A r \in RuleSpace : DOMAIN r = RuleFields
    /\ \A pkt \in Packets : pkt.src \in Hosts /\ pkt.dst \in Hosts

VARIABLES
    peers,      \* map from key to [id, groups, named, offers, exit]
    groups,     \* the rows <<id, name>> of groups
    rules,      \* map from ID to rule
    call,       \* what each handler is about to save, or Idle
    up,         \* whether the server runs
    edits       \* number of requests so far

vars == <<peers, groups, rules, call, up, edits>>

Idle == [op |-> "idle"]

Request == up /\ edits < MaxEdits /\ edits' = edits + 1 /\ UNCHANGED up

(* The rule Seed creates. *)
SeedRule ==
    [name |-> "Default allow", src |-> Default, dst |-> Default, proto |-> "all", port |-> 0, action |-> "allow",
     enabled |-> TRUE, prio |-> 1000]

MaxPort == 65535

(* validateRuleFields, and the check of the action *)
ValidRule(r) ==
    /\ r.src \in {Star} \cup Groups \cup Hosts /\ r.dst \in {Star} \cup Groups \cup Hosts
    /\ r.proto \in Protocols /\ r.port \in 0 .. MaxPort
    /\ r.action \in {"allow", "deny"}

(* groupIPs of buildSyncResponse *)
Members == [g \in Groups |-> {k \in DOMAIN peers : g \in peers[k].groups}]

-----------------------------------------------------------------------------
(* Plausible faults of the operations below, to show that the properties    *)
(* notice them.                                                             *)

(* the request's groups as they are *)
GroupsAsSent(G) == G

(* the name and the groups of a known device are those it enrolls with *)
EnrollAfresh(k) ==
    [id |-> IF k \in DOMAIN peers THEN peers[k].id ELSE edits,
     groups |-> {Default} \cup AutoGroups, named |-> FALSE, offers |-> FALSE, exit |-> NoKey]

-----------------------------------------------------------------------------
(* Requests that read a peer record and save it later *)

Begin(h, op, k, row) ==
    /\ Request
    /\ call[h] = Idle
    /\ call' = [call EXCEPT ![h] = [op |-> op, key |-> k, row |-> row]]
    /\ UNCHANGED <<peers, groups, rules>>

EnsureDefaultGroup(G) == G \cup {Default}

(* updatePeer: the groups, and the name if the request has one *)
UpdatePeer(h, k, G, rename) ==
    /\ k \in DOMAIN peers
    /\ Begin(h, "peer", k,
             [peers[k] EXCEPT !.groups = EnsureDefaultGroup(G), !.named = @ \/ rename])

SetPeerRoutes(h, k, offers) ==
    /\ k \in DOMAIN peers
    /\ Begin(h, "peer", k, [peers[k] EXCEPT !.offers = offers])

SetPeerExitNode(h, k, e) ==
    /\ k \in DOMAIN peers /\ e # k
    /\ Begin(h, IF e = NoKey THEN "peer" ELSE "gateway", k, [peers[k] EXCEPT !.exit = e])

(* setPeerExitNode reads the chosen device, which must offer a default route. *)
CheckGateway(h) ==
    /\ call[h].op = "gateway"
    /\ LET e == call[h].row.exit
       IN  call' = [call EXCEPT ![h] = IF e \in DOMAIN peers /\ peers[e].offers
                                       THEN [@ EXCEPT !.op = "peer"] ELSE Idle]
    /\ UNCHANGED <<peers, groups, rules, up, edits>>

(* The record Login saves: a known device keeps ID, groups, routes and name. *)
LoginRecord(k) ==
    IF k \in DOMAIN peers
    THEN [id |-> peers[k].id, groups |-> peers[k].groups, named |-> peers[k].named,
          offers |-> peers[k].offers, exit |-> NoKey]
    ELSE [id |-> edits, groups |-> {Default} \cup AutoGroups, named |-> FALSE,
          offers |-> FALSE, exit |-> NoKey]

Login(h, k) == Begin(h, "login", k, LoginRecord(k))

(* SavePeer writes the whole row; a key that has a row with another ID makes *)
(* it fail.                                                                 *)
SavePeer(h) ==
    /\ call[h].op \in {"peer", "login"}
    /\ LET k == call[h].key
           accepted == k \in DOMAIN peers => peers[k].id = call[h].row.id
       IN  peers' = IF accepted THEN Put(peers, k, call[h].row) ELSE peers
    /\ call' = [call EXCEPT ![h] = Idle]
    /\ UNCHANGED <<groups, rules, up, edits>>

DeletePeer(k) ==
    /\ Request
    /\ k \in DOMAIN peers
    /\ peers' = Drop(peers, k)
    /\ UNCHANGED <<groups, rules, call>>

-----------------------------------------------------------------------------
(* Groups and rules *)

(* createGroup looks for the name first; the row is created later. *)
CreateGroup(h, g) == (\A row \in groups : row[2] # g) /\ Begin(h, "group", edits, g)

SaveGroup(h) ==
    /\ call[h].op = "group"
    /\ groups' = groups \cup {<<call[h].key, call[h].row>>}
    /\ call' = [call EXCEPT ![h] = Idle]
    /\ UNCHANGED <<peers, rules, up, edits>>

(* deleteGroup deletes the row; members keep the name. *)
DeleteGroup(row) ==
    /\ Request
    /\ row[2] # Default
    /\ groups' = groups \ {row}
    /\ UNCHANGED <<peers, rules, call>>

CreateRule(id, r) ==
    /\ Request
    /\ id \notin DOMAIN rules /\ id # SeedId /\ ValidRule(r)
    /\ rules' = Put(rules, id, r)
    /\ UNCHANGED <<peers, groups, call>>

(* updateRule: the fields the request has replace those of the rule read. *)
UpdatedRule(id, fields, r) ==
    [f \in RuleFields |-> IF f \in fields THEN r[f] ELSE rules[id][f]]

UpdateRule(h, id, fields, r) ==
    /\ id \in DOMAIN rules
    /\ ValidRule(UpdatedRule(id, fields, r))
    /\ Begin(h, "rule", id, UpdatedRule(id, fields, r))

(* SaveRule also inserts a rule that was deleted meanwhile. *)
SaveRule(h) ==
    /\ call[h].op = "rule"
    /\ rules' = Put(rules, call[h].key, call[h].row)
    /\ call' = [call EXCEPT ![h] = Idle]
    /\ UNCHANGED <<peers, groups, up, edits>>

DeleteRule(id) ==
    /\ Request
    /\ id \in DOMAIN rules
    /\ rules' = Drop(rules, id)
    /\ UNCHANGED <<peers, groups, call>>

-----------------------------------------------------------------------------
(* The server stops, with what its handlers were about to do. *)
Stop ==
    /\ up
    /\ up' = FALSE
    /\ call' = [h \in Handlers |-> Idle]
    /\ UNCHANGED <<peers, groups, rules, edits>>

(* postgres.New puts peers of earlier versions into Default. *)
Backfill(k) == [peers[k] EXCEPT !.groups = @ \cup {Default}]

(* New and Seed: Seed looks for its rule by the name and the ID (gorm adds  *)
(* the key of the row it is given) and creates it otherwise; a rule that    *)
(* has this ID and another name makes that fail, and the server ends.       *)
Start ==
    /\ ~up
    /\ peers' = [k \in DOMAIN peers |-> Backfill(k)]
    /\ groups' = IF \E row \in groups : row[2] = Default THEN groups
                 ELSE groups \cup {<<SeedId, Default>>}
    /\ rules' = IF SeedId \in DOMAIN rules THEN rules ELSE Put(rules, SeedId, SeedRule)
    /\ up' = (SeedId \in DOMAIN rules => rules[SeedId].name = SeedRule.name)
    /\ UNCHANGED <<call, edits>>

-----------------------------------------------------------------------------
(* A fresh database, or one from before groups, with a device in no group *)
Init ==
    /\ peers \in {EmptyMap} \cup
                 {[j \in {k} |-> [id |-> 0, groups |-> {}, named |-> FALSE, offers |-> FALSE,
                                  exit |-> NoKey]] : k \in Devices}
    /\ groups = {}
    /\ rules = EmptyMap
    /\ call = [h \in Handlers |-> Idle]
    /\ up = FALSE
    /\ edits = 1

PeerRequest(h, k) ==
    \/ \E G \in SUBSET Groups, rename \in BOOLEAN : UpdatePeer(h, k, G, rename)
    \/ \E offers \in BOOLEAN : SetPeerRoutes(h, k, offers)
    \/ \E e \in Devices \cup {NoKey} : SetPeerExitNode(h, k, e)
    \/ Login(h, k)

Handler(h) ==
    \/ \E k \in Devices : PeerRequest(h, k)
    \/ \E g \in Groups : CreateGroup(h, g)
    \/ \E id \in RuleIds, fields \in RuleEdits, r \in RuleSpace : UpdateRule(h, id, fields, r)
    \/ CheckGateway(h) \/ SavePeer(h) \/ SaveGroup(h) \/ SaveRule(h)

Next ==
    \/ \E h \in Handlers : Handler(h)
    \/ \E k \in Devices : DeletePeer(k)
    \/ \E row \in groups : DeleteGroup(row)
    \/ \E id \in RuleIds : DeleteRule(id) \/ \E r \in RuleSpace : CreateRule(id, r)
    \/ Stop \/ Start

Spec == Init /\ [][Next]_vars

-----------------------------------------------------------------------------
(* Properties *)

(* Every variable keeps its type; a stored rule is valid. *)
TypeOK ==
    /\ IsMap(peers, Devices,
             [id : 0 .. MaxEdits, groups : SUBSET Groups, named : BOOLEAN, offers : BOOLEAN,
              exit : Devices \cup {NoKey}])
    /\ groups \subseteq ((0 .. MaxEdits) \cup {SeedId}) \X Groups
    /\ DOMAIN rules \subseteq RuleIds
    /\ \A id \in DOMAIN rules : DOMAIN rules[id] = RuleFields /\ ValidRule(rules[id])
    /\ up \in BOOLEAN /\ edits \in 1 .. MaxEdits

(* "Every peer is always in Default": while the server runs, however        *)
(* enrollments and edits overlap and from whatever version the database is, *)
(* every stored peer is in the group Default, and Default is listed.        *)
DefaultForAll ==
    up => /\ \A k \in DOMAIN peers : Default \in peers[k].groups
          /\ \E row \in groups : row[2] = Default

(* The policy that reaches the agents is the operator's: whatever groups    *)
(* are empty and whichever order the store lists equal priorities in, the   *)
(* iptables chain of a Linux agent, the filter of a Windows agent and a     *)
(* netstack router decide about a new flow as the rules on groups say.      *)
PolicyEnforced ==
    \A order \in PriorityOrders({rules[id] : id \in DOMAIN rules}) :
        LET list == SyncRules(order, Members)
            chain == ApplyRules(list)
        IN  \A pkt \in Packets :
                LET permitted == Permits(order, Members, pkt)
                IN  /\ ChainAccepts(chain, pkt) = permitted
                    /\ AclAllows(list, pkt) = permitted
                    /\ AclFilterAllows(list, pkt, {pkt.dst}) = permitted

(* Enrollment does not undo the operator's decisions: a Login of a known    *)
(* device that no other request overlaps leaves its groups, name and        *)
(* routes.                                                                  *)
ReenrollKeeps ==
    [][\A h \in Handlers, k \in DOMAIN peers :
        call[h] = Idle /\ call'[h].op = "login" /\ call'[h].key = k =>
            LET row == call'[h].row
            IN  <<row.id, row.groups, row.named, row.offers>>
                    = <<peers[k].id, peers[k].groups, peers[k].named, peers[k].offers>>]_vars
=============================================================================
