--------------------------- MODULE DataPathProofs ---------------------------
(***************************************************************************)
(* The filter and the router of DataPath, for any flows, policies, subnets *)
(* and capacities.                                                         *)
(***************************************************************************)
EXTENDS DataPath, FiniteSetTheorems, TLAPS

RelayPlaces == {"endpoint", "dial", "pipe"}
PingPlaces == {"ping", "send"}

(* A goroutine is in the part of the code that belongs to its protocol: it  *)
(* gives back a slot of the semaphore it took one from.                     *)
LanesKept ==
    \A f \in Arrivals :
        /\ at[f] \in RelayPlaces => f \notin Pings
        /\ at[f] \in PingPlaces => f \in Pings

RouterInv == RouterTypeOK /\ SlotsHeld /\ LanesKept

(* An entry of the table that counts is for a reply that is owed. *)
FreshIsOwed == \A p \in DOMAIN flows : flows[p] = "fresh" => p \in owed

-----------------------------------------------------------------------------
(* Slots and the arrivals that hold them *)

(* The sets the semaphores are compared with are finite. *)
LEMMA HoldersFinite ==
    /\ IsFiniteSet(Relaying) /\ Cardinality(Relaying) \in Nat
    /\ IsFiniteSet(Pinging) /\ Cardinality(Pinging) \in Nat
<1>1. Relaying \in SUBSET Arrivals /\ Pinging \in SUBSET Arrivals
  BY DEF Relaying, Pinging, Pings
<1> QED
  BY <1>1, FS_Subset, FS_CardinalityType, RouterAssumption

(* An arrival that moves on without entering or leaving the guarded part    *)
(* changes neither count.                                                   *)
LEMMA Stay ==
    ASSUME NEW f \in Arrivals, NEW x, RouterTypeOK, SlotsHeld,
           at' = [at EXCEPT ![f] = x], UNCHANGED <<sem, icmpSem>>,
           x \in RelayPlaces <=> at[f] \in RelayPlaces,
           x \in PingPlaces <=> at[f] \in PingPlaces
    PROVE  SlotsHeld'
<1>1. Relaying' = Relaying /\ Pinging' = Pinging
  BY DEF RouterTypeOK, Relaying, Pinging, RelayPlaces, PingPlaces, Pings
<1> QED
  BY <1>1 DEF SlotsHeld

(* A slot is taken with the step into the guarded part ... *)
LEMMA Enter ==
    ASSUME NEW f \in Arrivals, RouterTypeOK, SlotsHeld, at[f] = "acquire",
           at' = [at EXCEPT ![f] = IF f \in Pings THEN "ping" ELSE "endpoint"],
           sem' = IF f \in Pings THEN sem ELSE sem + 1,
           icmpSem' = IF f \in Pings THEN icmpSem + 1 ELSE icmpSem
    PROVE  SlotsHeld'
<1>1. CASE f \in Pings
  <2>1. Relaying' = Relaying /\ Pinging' = Pinging \cup {f} /\ f \notin Pinging
    BY <1>1 DEF RouterTypeOK, Relaying, Pinging, Pings
  <2>2. Cardinality(Pinging \cup {f}) = Cardinality(Pinging) + 1
    BY <2>1, HoldersFinite, FS_AddElement
  <2> QED
    BY <1>1, <2>1, <2>2 DEF SlotsHeld
<1>2. CASE f \notin Pings
  <2>1. Relaying' = Relaying \cup {f} /\ Pinging' = Pinging /\ f \notin Relaying
    BY <1>2 DEF RouterTypeOK, Relaying, Pinging, Pings
  <2>2. Cardinality(Relaying \cup {f}) = Cardinality(Relaying) + 1
    BY <2>1, HoldersFinite, FS_AddElement
  <2> QED
    BY <1>2, <2>1, <2>2 DEF SlotsHeld
<1> QED
  BY <1>1, <1>2

(* ... and given back with the step out of it. *)
LEMMA Leave ==
    ASSUME NEW f \in Arrivals, RouterInv, at[f] \in RelayPlaces \cup PingPlaces, Release(f)
    PROVE  SlotsHeld' /\ sem' \in 0 .. MaxForwards /\ icmpSem' \in 0 .. MaxICMP
<1> USE DEF RouterInv
<1>1. CASE f \in Pings
  <2>1. Relaying' = Relaying /\ Pinging' = Pinging \ {f} /\ f \in Pinging
    BY <1>1 DEF RouterTypeOK, LanesKept, Relaying, Pinging, Pings, Release, RelayPlaces, PingPlaces
  <2>2. Cardinality(Pinging \ {f}) = Cardinality(Pinging) - 1 /\ Cardinality(Pinging) # 0
    BY <2>1, HoldersFinite, FS_RemoveElement, FS_EmptySet
  <2> QED
    BY <1>1, <2>1, <2>2, HoldersFinite, RouterAssumption DEF SlotsHeld, Release, RouterTypeOK
<1>2. CASE f \notin Pings
  <2>1. Relaying' = Relaying \ {f} /\ Pinging' = Pinging /\ f \in Relaying
    BY <1>2 DEF RouterTypeOK, LanesKept, Relaying, Pinging, Pings, Release, RelayPlaces, PingPlaces
  <2>2. Cardinality(Relaying \ {f}) = Cardinality(Relaying) - 1 /\ Cardinality(Relaying) # 0
    BY <2>1, HoldersFinite, FS_RemoveElement, FS_EmptySet
  <2> QED
    BY <1>2, <2>1, <2>2, HoldersFinite, RouterAssumption DEF SlotsHeld, Release, RouterTypeOK
<1> QED
  BY <1>1, <1>2
-----------------------------------------------------------------------------
(* The router *)

(* A new RoutingNet has no slot taken. *)
LEMMA RouterInitOK == RouterInit => RouterInv
<1> SUFFICES ASSUME RouterInit PROVE RouterInv
  OBVIOUS
<1>0. sem \in 0 .. MaxForwards /\ icmpSem \in 0 .. MaxICMP
  BY RouterAssumption DEF RouterInit
<1>1. RouterTypeOK
  BY <1>0, Zenon DEF RouterInit, RouterTypeOK
<1>2. Relaying = {} /\ Pinging = {}
  BY DEF RouterInit, Relaying, Pinging, Pings
<1>3. SlotsHeld
  BY <1>2, FS_EmptySet DEF RouterInit, SlotsHeld
<1>4. LanesKept
  BY DEF RouterInit, LanesKept, RelayPlaces, PingPlaces
<1> QED
  BY <1>1, <1>3, <1>4 DEF RouterInv

(* Whatever fails on its way, a step of a flow or of a ping keeps the count.*)
LEMMA HandlerKeeps ==
    ASSUME RouterInv, NEW f \in Arrivals, HandlerStep(f) \/ RelayEnds(f)
    PROVE  RouterInv'
<1> USE DEF RouterInv
<1>1. CASE CheckAcl(f)
  <2> DEFINE x == IF AclAllows(aclRules, Target[f]) THEN "acquire" ELSE "none"
  <2>1. at' = [at EXCEPT ![f] = x] /\ x \in {"acquire", "none"} /\ at[f] = "acl"
    BY <1>1 DEF CheckAcl
  <2> HIDE DEF x
  <2>2. UNCHANGED <<subnets, aclRules, sem, icmpSem, gone, notify, device>>
    BY <1>1 DEF CheckAcl
  <2>3. SlotsHeld'
    BY <2>1, <2>2, Stay DEF RelayPlaces, PingPlaces
  <2>4. RouterTypeOK' /\ LanesKept'
    BY <2>1, <2>2 DEF RouterTypeOK, LanesKept, RelayPlaces, PingPlaces, Pings
  <2> QED
    BY <2>3, <2>4
<1>2. CASE Acquire(f)
  <2>1. CASE Capacity(f)
    <3>1. SlotsHeld'
      BY <1>2, <2>1, Enter DEF Acquire
    <3>2. sem' \in 0 .. MaxForwards /\ icmpSem' \in 0 .. MaxICMP
      BY <1>2, <2>1, RouterAssumption DEF Acquire, Capacity, RouterTypeOK
    <3>3. RouterTypeOK' /\ LanesKept'
      BY <1>2, <2>1, <3>2 DEF Acquire, RouterTypeOK, LanesKept, RelayPlaces, PingPlaces, Pings
    <3> QED
      BY <3>1, <3>3
  <2>2. CASE ~Capacity(f)
    <3>1. SlotsHeld'
      BY <1>2, <2>2, Stay DEF Acquire, RelayPlaces, PingPlaces
    <3>2. RouterTypeOK' /\ LanesKept'
      BY <1>2, <2>2 DEF Acquire, RouterTypeOK, LanesKept, RelayPlaces, PingPlaces, Pings
    <3> QED
      BY <3>1, <3>2
  <2> QED
    BY <2>1, <2>2
<1>3. CASE CreateEndpoint(f) \/ Dial(f) \/ PingAnswered(f)
  <2>1. SlotsHeld'
    BY <1>3, Stay DEF CreateEndpoint, Dial, PingAnswered, RelayPlaces, PingPlaces
  <2>2. RouterTypeOK' /\ LanesKept'
    BY <1>3 DEF CreateEndpoint, Dial, PingAnswered, RouterTypeOK, LanesKept, RelayPlaces,
                PingPlaces, Pings
  <2> QED
    BY <2>1, <2>2
<1>4. CASE EndpointFails(f) \/ DialFails(f) \/ PipeEnds(f) \/ PingFails(f) \/ ReplySent(f)
  <2>1. /\ Release(f) /\ at[f] \in RelayPlaces \cup PingPlaces
        /\ UNCHANGED <<subnets, aclRules, gone, notify, device>>
    BY <1>4 DEF EndpointFails, DialFails, PipeEnds, PingFails, ReplySent, RelayPlaces, PingPlaces
  <2>2. SlotsHeld' /\ sem' \in 0 .. MaxForwards /\ icmpSem' \in 0 .. MaxICMP
    BY <2>1, Leave
  <2>3. RouterTypeOK' /\ LanesKept'
    BY <2>1, <2>2 DEF Release, RouterTypeOK, LanesKept, RelayPlaces, PingPlaces, Pings
  <2> QED
    BY <2>2, <2>3
<1> QED
  BY <1>1, <1>2, <1>3, <1>4 DEF HandlerStep, RelayEnds

(* Nor does any other step of the router lose or duplicate a slot. *)
LEMMA RouterKeeps ==
    ASSUME RouterInv, RouterNext \/ UNCHANGED routerVars
    PROVE  RouterInv'
<1> USE DEF RouterInv
<1>1. ASSUME NEW f \in Arrivals, Arrive(f)
      PROVE  RouterInv'
  <2>1. SlotsHeld'
    BY <1>1, Stay DEF Arrive, RelayPlaces, PingPlaces
  <2>2. RouterTypeOK' /\ LanesKept'
    BY <1>1 DEF Arrive, RouterTypeOK, LanesKept, RelayPlaces, PingPlaces, Pings
  <2> QED
    BY <2>1, <2>2
<1>2. ASSUME UNCHANGED <<at, sem, icmpSem>>
      PROVE  SlotsHeld' /\ LanesKept'
  BY <1>2 DEF SlotsHeld, LanesKept, Relaying, Pinging, Pings
<1>3. ASSUME NEW f \in Arrivals, Vanish(f)
      PROVE  RouterInv'
  BY <1>2, <1>3 DEF Vanish, RouterTypeOK
<1>4. CASE WriteNotify \/ NotifySent \/ Close
  BY <1>2, <1>4 DEF WriteNotify, NotifySent, Close, RouterTypeOK
<1>5. ASSUME NEW S \in SUBSET Subnets, SetSubnets(S)
      PROVE  RouterInv'
  BY <1>2, <1>5 DEF SetSubnets, RouterTypeOK
<1>6. ASSUME NEW list \in RouterPolicies, SetACLRules(list)
      PROVE  RouterInv'
  BY <1>2, <1>6 DEF SetACLRules, RouterTypeOK
<1>7. CASE UNCHANGED routerVars
  BY <1>2, <1>7 DEF routerVars, RouterTypeOK
<1> QED
  BY <1>1, <1>3, <1>4, <1>5, <1>6, <1>7, HandlerKeeps DEF RouterNext

-----------------------------------------------------------------------------
(* The filter *)

(* The table is within its limit and counts only what is owed. *)
FilterInv == FilterTypeOK /\ FreshIsOwed

(* An empty table has the type of any. *)
LEMMA EmptyIsMap ==
    ASSUME NEW K, NEW V
    PROVE  IsMap(EmptyMap, K, V) /\ DOMAIN EmptyMap = {}
  BY DEF EmptyMap, IsMap

(* observeOutbound keeps the table within its limit, and what it adds is    *)
(* the reply to the packet.                                                 *)
LEMMA ObserveBounded ==
    ASSUME FilterTypeOK, NEW p \in Datagrams, NEW t, t = ObserveOutbound(p)
    PROVE  /\ IsMap(t, Datagrams, {"fresh", "old"})
           /\ IsFiniteSet(DOMAIN t) /\ Cardinality(DOMAIN t) <= ConntrackMax
           /\ \A q \in DOMAIN t : q # ReplyTo(p) => q \in DOMAIN flows /\ t[q] = flows[q]
<1> DEFINE r == ReplyTo(p)
      A == {"fresh", "old"}
<1>0. r \in Datagrams /\ "fresh" \in A
  BY DEF ReplyTo, Datagrams
<1>1. /\ IsMap(flows, Datagrams, A) /\ IsFiniteSet(DOMAIN flows)
      /\ Cardinality(DOMAIN flows) <= ConntrackMax
  BY DEF FilterTypeOK
<1>2. Cardinality(DOMAIN flows) \in Nat /\ ConntrackMax \in Nat /\ 1 <= ConntrackMax
  BY <1>1, FS_CardinalityType, FilterAssumption
<1> HIDE DEF r, A
<1>3. CASE ~Trackable(p)
  BY <1>1, <1>3 DEF ObserveOutbound, A
<1>4. CASE Trackable(p) /\ Cardinality(DOMAIN flows) >= ConntrackMax
  <2>1. t = Put(EmptyMap, r, "fresh")
    BY <1>4 DEF ObserveOutbound, r
  <2>2. IsMap(EmptyMap, Datagrams, A) /\ DOMAIN EmptyMap = {}
    BY EmptyIsMap
  <2>3. IsMap(t, Datagrams, A) /\ DOMAIN t = {r}
    BY <1>0, <2>1, <2>2 DEF Put, IsMap
  <2>4. IsFiniteSet({r}) /\ Cardinality({r}) = 1
    BY FS_Singleton
  <2> QED
    BY <1>2, <2>3, <2>4 DEF r, A
<1>5. CASE Trackable(p) /\ ~(Cardinality(DOMAIN flows) >= ConntrackMax)
  <2>1. t = Put(flows, r, "fresh")
    BY <1>5 DEF ObserveOutbound, r
  <2>2. /\ IsMap(t, Datagrams, A) /\ DOMAIN t = DOMAIN flows \cup {r}
        /\ \A q \in DOMAIN flows : q # r => t[q] = flows[q]
    BY <1>0, <1>1, <2>1 DEF Put, IsMap
  <2>3. /\ IsFiniteSet(DOMAIN flows \cup {r})
        /\ Cardinality(DOMAIN flows \cup {r}) <= Cardinality(DOMAIN flows) + 1
    <3>1. /\ IsFiniteSet(DOMAIN flows \cup {r})
          /\ Cardinality(DOMAIN flows \cup {r})
                = IF r \in DOMAIN flows THEN Cardinality(DOMAIN flows)
                  ELSE Cardinality(DOMAIN flows) + 1
      BY <1>1, FS_AddElement
    <3> QED
      BY <1>2, <3>1
  <2>4. Cardinality(DOMAIN flows) + 1 <= ConntrackMax
    BY <1>2, <1>5
  <2>5. Cardinality(DOMAIN t) <= ConntrackMax
    BY <1>2, <2>2, <2>3, <2>4, FS_CardinalityType
  <2> QED
    BY <2>2, <2>3, <2>5 DEF r, A
<1> QED
  BY <1>3, <1>4, <1>5
(* A new filter has an empty table. *)
LEMMA FilterInitOK == FilterInit => FilterInv
<1> SUFFICES ASSUME FilterInit PROVE FilterInv
  OBVIOUS
<1>1. IsMap(flows, Datagrams, {"fresh", "old"}) /\ DOMAIN flows = {}
  BY EmptyIsMap DEF FilterInit
<1>2. IsFiniteSet(DOMAIN flows) /\ Cardinality(DOMAIN flows) <= ConntrackMax
  BY <1>1, FS_EmptySet, FilterAssumption
<1>3. FilterTypeOK
  BY <1>1, <1>2 DEF FilterInit, FilterTypeOK
<1> QED
  BY <1>1, <1>3 DEF FilterInv, FreshIsOwed

(* A step of the filter keeps the table within its limit; entries become    *)
(* fresh only when the host sends, and old before the reply is not owed.    *)
LEMMA FilterKeeps ==
    ASSUME FilterInv, FilterNext \/ UNCHANGED filterVars
    PROVE  FilterInv'
<1> USE DEF FilterInv
<1>1. ASSUME NEW p \in Outbound, ReadOutbound(p)
      PROVE  FilterInv'
  <2>0. p \in Datagrams /\ ReplyTo(p) \in Datagrams
    BY DEF Outbound, ReplyTo, Datagrams
  <2>1. PICK t : t = ObserveOutbound(p)
    OBVIOUS
  <2>2. /\ IsMap(t, Datagrams, {"fresh", "old"})
        /\ IsFiniteSet(DOMAIN t) /\ Cardinality(DOMAIN t) <= ConntrackMax
        /\ \A q \in DOMAIN t : q # ReplyTo(p) => q \in DOMAIN flows /\ t[q] = flows[q]
    BY <2>0, <2>1, ObserveBounded
  <2>3. flows' = flows \/ flows' = t
    BY <1>1, <2>1 DEF ReadOutbound
  <2>4. owed' = owed \cup {ReplyTo(p)} /\ UNCHANGED <<policy, addrs, cache, batch, passed>>
    BY <1>1 DEF ReadOutbound
  <2>5. FilterTypeOK'
    BY <2>0, <2>2, <2>3, <2>4 DEF FilterTypeOK
  <2>6. FreshIsOwed'
    BY <2>2, <2>3, <2>4 DEF FreshIsOwed
  <2> QED
    BY <2>5, <2>6
<1>2. ASSUME NEW p \in Datagrams, FlowAges(p)
      PROVE  FilterInv'
  <2>1. /\ IsMap(flows', Datagrams, {"fresh", "old"}) /\ DOMAIN flows' = DOMAIN flows
        /\ \A q \in DOMAIN flows : q # p => flows'[q] = flows[q]
        /\ p \in DOMAIN flows => flows'[p] = "old"
    BY <1>2 DEF FlowAges, FilterTypeOK, Put, IsMap
  <2>2. owed' = owed \ {p} /\ UNCHANGED <<policy, addrs, cache, batch, passed>>
    BY <1>2 DEF FlowAges
  <2>3. FilterTypeOK'
    BY <2>1, <2>2 DEF FilterTypeOK
  <2>4. FreshIsOwed'
    BY <2>1, <2>2 DEF FreshIsOwed
  <2> QED
    BY <2>3, <2>4
<1>3. ASSUME NEW list \in Policies, SetRules(list)
      PROVE  FilterInv'
  BY <1>3 DEF SetRules, FilterTypeOK, FreshIsOwed
<1>4. ASSUME NEW p \in Inbound, NEW ok \in BOOLEAN, BeginWrite(p, ok)
      PROVE  FilterInv'
  <2>1. LocalAddrs(ok) \in SUBSET Addresses
    BY DEF LocalAddrs, FilterTypeOK
  <2>2. cache' \in [set : SUBSET Addresses, fresh : BOOLEAN]
    BY <1>4 DEF BeginWrite, FilterTypeOK
  <2>3. batch' \in [pkt : Inbound, rules : Policies \cup {NoPolicy}, locals : SUBSET Addresses]
    BY <1>4, <2>1 DEF BeginWrite, FilterTypeOK
  <2>4. passed' = Idle /\ UNCHANGED <<policy, flows, addrs, owed>>
    BY <1>4 DEF BeginWrite
  <2> QED
    BY <2>2, <2>3, <2>4 DEF FilterTypeOK, FreshIsOwed
<1>5. CASE EndWrite
  <2>1. batch.pkt \in Inbound /\ batch' = Idle /\ UNCHANGED <<policy, addrs, cache, owed>>
    BY <1>5 DEF EndWrite, FilterTypeOK
  <2>2. passed' \in Inbound \cup {Idle}
    BY <1>5, <2>1 DEF EndWrite
  <2>3. flows' = flows \/ flows' = Drop(flows, batch.pkt)
    BY <1>5 DEF EndWrite
  <2>4. /\ IsMap(flows', Datagrams, {"fresh", "old"}) /\ DOMAIN flows' \in SUBSET DOMAIN flows
        /\ \A q \in DOMAIN flows' : flows'[q] = flows[q]
    BY <2>3 DEF FilterTypeOK, Drop, IsMap
  <2>5. IsFiniteSet(DOMAIN flows') /\ Cardinality(DOMAIN flows') <= Cardinality(DOMAIN flows)
    BY <2>4, FS_Subset DEF FilterTypeOK
  <2>6. Cardinality(DOMAIN flows') <= ConntrackMax
    BY <2>5, FS_CardinalityType, FilterAssumption DEF FilterTypeOK
  <2>7. FilterTypeOK'
    BY <2>1, <2>2, <2>4, <2>5, <2>6 DEF FilterTypeOK
  <2>8. FreshIsOwed'
    BY <2>1, <2>4 DEF FreshIsOwed
  <2> QED
    BY <2>7, <2>8
<1>6. ASSUME NEW A \in SUBSET Addresses, AddressesChange(A)
      PROVE  FilterInv'
  BY <1>6 DEF AddressesChange, FilterTypeOK, FreshIsOwed
<1>7. CASE CacheAges
  BY <1>7 DEF CacheAges, FilterTypeOK, FreshIsOwed
<1>8. CASE UNCHANGED filterVars
  BY <1>8 DEF filterVars, FilterTypeOK, FreshIsOwed
<1> QED
  BY <1>1, <1>2, <1>3, <1>4, <1>5, <1>6, <1>7, <1>8 DEF FilterNext

-----------------------------------------------------------------------------
(* The two together *)

(* The inductive invariant *)
IInv == platform \in {"windows", "netstack"} /\ FilterInv /\ RouterInv

(* The invariant of both components, on either platform. *)
LEMMA Inductive == Spec => []IInv
<1>1. Init => IInv
  BY FilterInitOK, RouterInitOK DEF Init, IInv
<1>2. IInv /\ [Next]_vars => IInv'
  <2> SUFFICES ASSUME IInv, [Next]_vars PROVE IInv'
    OBVIOUS
  <2>1. FilterNext \/ UNCHANGED filterVars
    BY DEF Next, vars
  <2>2. RouterNext \/ UNCHANGED routerVars
    BY DEF Next, vars
  <2>3. UNCHANGED platform
    BY DEF Next, vars
  <2> QED
    BY <2>1, <2>2, <2>3, FilterKeeps, RouterKeeps DEF IInv
<1> QED
  BY <1>1, <1>2, PTL DEF Spec

(* Every variable keeps its type: the flow table of the Windows filter      *)
(* never exceeds ConntrackMax, and the router's semaphores stay between 0   *)
(* and their capacities.                                                    *)
THEOREM DataPathTyped == Spec => []TypeOK
<1>1. IInv => TypeOK
  BY DEF IInv, TypeOK, FilterInv, RouterInv
<1> QED
  BY <1>1, Inductive, PTL

(* No slot of the router is lost or returned twice: acquire, release and    *)
(* their ICMP counterparts count the goroutines on their way, on every      *)
(* failure path and after Close, for any number of arrivals.                *)
THEOREM SlotsAreHeld == Spec => []SlotsHeld
<1>1. IInv => SlotsHeld
  BY DEF IInv, RouterInv
<1> QED
  BY <1>1, Inductive, PTL

(* What aclFilterTUN.Write admits without the policy's leave is a reply to  *)
(* a packet the host sent within conntrackTTL, for every policy and table   *)
(* size.                                                                    *)
THEOREM OnlyReplies == Spec => OnlyRepliesPass
<1> DEFINE Admitted(p) ==
      batch # Idle /\ batch' = Idle /\ passed' = p =>
            \/ batch.rules = NoPolicy
            \/ batch.locals # {} /\ Header(p).dst \notin batch.locals
            \/ AclAllows(batch.rules, Header(p))
            \/ p \in owed
<1>1. IInv /\ [Next]_vars => [\A p \in Inbound : Admitted(p)]_filterVars
  <2> SUFFICES ASSUME IInv, Next, NEW p \in Inbound,
                      batch # Idle, batch' = Idle, passed' = p, ~UNCHANGED filterVars
               PROVE  \/ batch.rules = NoPolicy
                      \/ batch.locals # {} /\ Header(p).dst \notin batch.locals
                      \/ AclAllows(batch.rules, Header(p))
                      \/ p \in owed
    BY DEF vars
  <2>1. EndWrite
    BY DEF Next, FilterNext, ReadOutbound, FlowAges, SetRules, BeginWrite, AddressesChange,
           CacheAges
  <2>2. p # Idle
    BY IdleAssumption DEF Inbound
  <2>3. /\ p = batch.pkt
        /\ \/ batch.rules = NoPolicy
           \/ AllowInbound(p)
           \/ AclFilterAllows(batch.rules, Header(p), batch.locals)
    BY <2>1, <2>2 DEF EndWrite
  <2>4. AllowInbound(p) => p \in owed
    BY DEF AllowInbound, IInv, FilterInv, FreshIsOwed
  <2> QED
    BY <2>3, <2>4 DEF AclFilterAllows
<1> QED
  BY <1>1, Inductive, PTL DEF Spec, OnlyRepliesPass
=============================================================================
