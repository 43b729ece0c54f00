-------------------------- MODULE EnrollmentProofs --------------------------
(* Proofs about Enrollment, for any number of devices, addresses, setup     *)
(* keys, concurrent handlers and restarts.                                  *)
EXTENDS Enrollment, TLAPS

USE DEF Addresses

LEMMA EmptyMapIsMap ==
    ASSUME NEW K, NEW V
    PROVE  IsMap(EmptyMap, K, V) /\ DOMAIN EmptyMap = {}
BY DEF IsMap, EmptyMap

(* The handlers' local records by program counter. *)
LEMMA LocalStates ==
    ASSUME TypeOK
    PROVE  /\ \A l \in Logins :
                 /\ login[l] \in LoginStates
                 /\ login[l].pc = "allocate" =>
                        /\ login[l].key \in WGKeys
                        /\ login[l].sk \in SetupKeys
                        /\ login[l].id \in Nat
                 /\ login[l].pc \in {"lookup", "save", "finish"} =>
                        /\ login[l].key \in WGKeys
                        /\ login[l].sk \in SetupKeys
                        /\ login[l].rec \in PeerRecords
           /\ \A d \in Deleters : deleter[d].pc # "idle" => deleter[d].key \in WGKeys
           /\ \A s \in Savers : saver[s].pc = "save" =>
                        saver[s].key \in WGKeys /\ saver[s].rec \in PeerRecords
<1>1. ASSUME NEW l \in Logins
      PROVE  /\ login[l] \in LoginStates
             /\ login[l].pc = "allocate" =>
                    login[l].key \in WGKeys /\ login[l].sk \in SetupKeys /\ login[l].id \in Nat
             /\ login[l].pc \in {"lookup", "save", "finish"} =>
                    login[l].key \in WGKeys /\ login[l].sk \in SetupKeys /\ login[l].rec \in PeerRecords
  <2>1. login[l] \in LoginStates
    BY DEF TypeOK
  <2>. QED
    BY <2>1 DEF LoginStates, Idle
<1>2. ASSUME NEW d \in Deleters, deleter[d].pc # "idle"
      PROVE  deleter[d].key \in WGKeys
  BY <1>2 DEF TypeOK, DeleterStates, Idle
<1>3. ASSUME NEW s \in Savers, saver[s].pc = "save"
      PROVE  saver[s].key \in WGKeys /\ saver[s].rec \in PeerRecords
  BY <1>3 DEF TypeOK, SaverStates, Idle
<1>. QED
  BY <1>1, <1>2, <1>3

(* What a handler writes into its local record is of its type. *)
LEMMA LocalUpdates ==
    /\ Idle \in LoginStates /\ Idle \in DeleterStates /\ Idle \in SaverStates
    /\ \A k \in WGKeys, sk \in SetupKeys, id \in Nat :
          [pc |-> "allocate", key |-> k, sk |-> sk, id |-> id] \in LoginStates
    /\ \A k \in WGKeys, sk \in SetupKeys, r \in PeerRecords, pc \in {"lookup", "save", "finish"} :
          [pc |-> pc, key |-> k, sk |-> sk, rec |-> r] \in LoginStates
    /\ \A k \in WGKeys, pc \in {"delete", "release"} :
          [pc |-> pc, key |-> k] \in DeleterStates
    /\ \A k \in WGKeys, r \in PeerRecords :
          [pc |-> "save", key |-> k, rec |-> r] \in SaverStates
BY DEF LoginStates, DeleterStates, SaverStates, Idle

LEMMA TypeInit == Init => TypeOK
BY PoolAssumption, KeyAssumption, BoundAssumption, EmptyMapIsMap, LocalUpdates
DEF Init, TypeOK, KeyStates

(* A step of Login keeps every type: an address handed out lies below the   *)
(* broadcast address because Allocate tests `next` first.                   *)
LEMMA TypeLogin ==
    ASSUME TypeOK, NEW l \in Logins, LoginStep(l)
    PROVE  TypeOK'
<1>. USE LocalUpdates, PoolAssumption
<1>1. CASE \E key \in WGKeys, sk \in SetupKeys : LoginStart(l, key, sk)
  BY <1>1 DEF LoginStart, TypeOK, IsMap
<1>2. CASE LoginAllocate(l)
  <2>. DEFINE k == login[l].key
  <2>1. k \in WGKeys /\ login[l].sk \in SetupKeys /\ login[l].id \in Nat
    BY <1>2, LocalStates DEF LoginAllocate
  <2>2. ASSUME NEW a \in Addresses, LoginGotAddress(l, a)
        PROVE  login' \in [Logins -> LoginStates]
    <3>1. [id |-> login[l].id, ip |-> a] \in PeerRecords
      BY <2>1 DEF PeerRecords
    <3>. QED
      BY <2>1, <2>2, <3>1 DEF LoginGotAddress, TypeOK
  <2>3. CASE k \in DOMAIN leased
    <3>1. leased[k] \in Addresses
      BY <2>3 DEF TypeOK, IsMap
    <3>. QED
      BY <1>2, <2>2, <2>3, <3>1 DEF LoginAllocate, TypeOK, IsMap
  <2>4. CASE k \notin DOMAIN leased /\ AllocateNext(k) /\ LoginGotAddress(l, leased'[k])
    <3>1. next \in Addresses /\ next' \in (Base + 1) .. Broadcast
      BY <2>4 DEF AllocateNext, TypeOK
    <3>2. IsMap(leased', WGKeys, Addresses) /\ leased'[k] = next
      BY <2>1, <2>4, <3>1 DEF AllocateNext, TypeOK, IsMap, Put
    <3>. QED
      BY <1>2, <2>2, <2>4, <3>1, <3>2 DEF LoginAllocate, TypeOK, IsMap
  <2>5. CASE login' = [login EXCEPT ![l] = Idle] /\ UNCHANGED <<next, leased>>
    BY <1>2, <2>5 DEF LoginAllocate, TypeOK, IsMap
  <2>. QED
    BY <1>2, <2>3, <2>4, <2>5 DEF LoginAllocate
<1>3. CASE LoginLookup(l)
  <2>1. /\ login[l].key \in WGKeys /\ login[l].sk \in SetupKeys
        /\ login[l].rec \in PeerRecords
    BY <1>3, LocalStates DEF LoginLookup
  <2>2. ASSUME NEW id \in Nat, LoginBuilt(l, id)
        PROVE  login' \in [Logins -> LoginStates]
    <3>1. [id |-> id, ip |-> login[l].rec.ip] \in PeerRecords
      BY <2>1 DEF PeerRecords
    <3>. QED
      BY <2>1, <2>2, <3>1 DEF LoginBuilt, TypeOK
  <2>3. login[l].key \in DOMAIN peers => peers[login[l].key].id \in Nat
    BY DEF TypeOK, IsMap, PeerRecords
  <2>4. login[l].rec.id \in Nat
    BY <2>1 DEF PeerRecords
  <2>5. login' \in [Logins -> LoginStates]
    BY <1>3, <2>2, <2>3, <2>4 DEF LoginLookup
  <2>. QED
    BY <1>3, <2>5 DEF LoginLookup, TypeOK, IsMap
<1>4. CASE LoginSave(l)
  <2>1. /\ login[l].key \in WGKeys /\ login[l].sk \in SetupKeys
        /\ login[l].rec \in PeerRecords
    BY <1>4, LocalStates DEF LoginSave
  <2>2. login' \in [Logins -> LoginStates]
    <3>1. [pc |-> "finish", key |-> login[l].key, sk |-> login[l].sk, rec |-> login[l].rec]
              \in LoginStates
      BY <2>1
    <3>. QED
      BY <1>4, <3>1 DEF LoginSave, TypeOK
  <2>3. IsMap(peers', WGKeys, PeerRecords)
    BY <1>4, <2>1 DEF LoginSave, TypeOK, IsMap, Put
  <2>. QED
    BY <1>4, <2>2, <2>3 DEF LoginSave, TypeOK, IsMap
<1>5. CASE LoginFinish(l)
  <2>1. login[l].sk \in SetupKeys
    BY <1>5, LocalStates DEF LoginFinish
  <2>. QED
    BY <1>5, <2>1 DEF LoginFinish, IncrementSetupKeyUsage, TypeOK, IsMap
<1>. QED
  BY <1>1, <1>2, <1>3, <1>4, <1>5 DEF LoginStep

LEMMA TypeDelete ==
    ASSUME TypeOK, NEW d \in Deleters, DeleteStep(d)
    PROVE  TypeOK'
<1>. USE LocalUpdates
<1>1. CASE \E key \in WGKeys : DeleteStart(d, key)
  BY <1>1 DEF DeleteStart, TypeOK, IsMap
<1>2. CASE DeletePeer(d)
  <2>1. deleter[d].key \in WGKeys
    BY <1>2, LocalStates DEF DeletePeer
  <2>2. IsMap(peers', WGKeys, PeerRecords)
    BY <1>2 DEF DeletePeer, TypeOK, IsMap, Drop
  <2>. QED
    BY <1>2, <2>1, <2>2 DEF DeletePeer, TypeOK, IsMap
<1>3. CASE DeleteRelease(d)
  <2>1. IsMap(leased', WGKeys, Addresses)
    BY <1>3 DEF DeleteRelease, Release, TypeOK, IsMap, Drop
  <2>. QED
    BY <1>3, <2>1 DEF DeleteRelease, TypeOK, IsMap
<1>. QED
  BY <1>1, <1>2, <1>3 DEF DeleteStep

LEMMA TypeSaver ==
    ASSUME TypeOK, NEW s \in Savers, SaverStep(s)
    PROVE  TypeOK'
<1>. USE LocalUpdates
<1>1. ASSUME NEW key \in WGKeys, SaverRead(s, key)
      PROVE  TypeOK'
  <2>1. peers[key] \in PeerRecords
    BY <1>1 DEF SaverRead, TypeOK, IsMap
  <2>. QED
    BY <1>1, <2>1 DEF SaverRead, TypeOK, IsMap
<1>2. CASE SaverSave(s)
  <2>1. IsMap(peers', WGKeys, PeerRecords)
    BY <1>2, LocalStates DEF SaverSave, TypeOK, IsMap, Put
  <2>. QED
    BY <1>2, <2>1 DEF SaverSave, TypeOK, IsMap
<1>. QED
  BY <1>1, <1>2 DEF SaverStep

LEMMA TypeSetupKey ==
    ASSUME TypeOK, NEW sk \in SetupKeys, SetupKeyStep(sk)
    PROVE  TypeOK'
BY DEF SetupKeyStep, CreateSetupKey, DeleteSetupKey, ExpireSetupKey, TypeOK, IsMap, KeyStates

(* A restart rebuilds the IPAM from the stored records, which lie in the    *)
(* pool, or starts it afresh.                                               *)
LEMMA TypeRestart ==
    ASSUME TypeOK, Restart
    PROVE  TypeOK'
<1>1. IsMap(peers', WGKeys, PeerRecords)
  BY EmptyMapIsMap DEF Restart, TypeOK
<1>2. IsMap(leased', WGKeys, Addresses) /\ next' \in (Base + 1) .. Broadcast
  <2>1. PICK ps : PreloadPeers(ps) /\ IsMap(ps, WGKeys, PeerRecords)
    BY <1>1, EmptyMapIsMap DEF Restart, Listed
  <2>2. \A k \in DOMAIN ps : ps[k].ip \in Addresses
    BY <2>1 DEF IsMap, PeerRecords
  <2>. QED
    BY <2>1, <2>2 DEF PreloadPeers, IsMap
<1>3. keyState' \in [SetupKeys -> KeyStates] /\ used' \subseteq Ephemeral
  BY DEF Restart, SeedSetupKeys, TypeOK, KeyStates
<1>. QED
  BY <1>1, <1>2, <1>3, LocalUpdates DEF Restart, TypeOK

LEMMA TypeNext == TypeOK /\ [Next]_vars => TypeOK'
<1>. SUFFICES ASSUME TypeOK, [Next]_vars PROVE TypeOK'
  OBVIOUS
<1>1. CASE UNCHANGED vars
  BY <1>1 DEF vars, TypeOK, IsMap
<1>. QED
  BY <1>1, TypeLogin, TypeDelete, TypeSaver, TypeSetupKey, TypeRestart DEF Next

(* Every variable keeps its type in every behaviour; in particular no       *)
(* device is ever given the network or the broadcast address.               *)
THEOREM TypeCorrect == Spec => []TypeOK
BY TypeInit, TypeNext, PTL DEF Spec

-----------------------------------------------------------------------------
(* Uniqueness of addresses.  A step either adds no claim on an address, or  *)
(* is the Allocate that hands out `next`, which nobody can hold yet.        *)

(* A step that adds no claim and does not lower `next` keeps AddressOwned.  *)
LEMMA NoNewClaim ==
    ASSUME AddressOwned, TypeOK, TypeOK', next' >= next,
           \A k \in WGKeys, a \in Addresses : Holds(k, a)' => Holds(k, a)
    PROVE  AddressOwned'
<1>. SUFFICES ASSUME NEW k \in WGKeys, NEW a \in Addresses, Holds(k, a)'
              PROVE  a < next' /\ \A j \in WGKeys : Holds(j, a)' => j = k
  BY DEF AddressOwned
<1>1. Holds(k, a)
  OBVIOUS
<1>2. a < next /\ \A j \in WGKeys : Holds(j, a) => j = k
  BY <1>1 DEF AddressOwned
<1>3. next \in Int /\ next' \in Int /\ a \in Int
  BY PoolAssumption DEF TypeOK
<1>. QED
  BY <1>2, <1>3

LEMMA NoHolderAtStart ==
    ASSUME Init, NEW k, NEW a
    PROVE  ~Holds(k, a)
BY DEF Init, Holds, Claims, Idle, EmptyMap

LEMMA OwnedInit == Init => AddressOwned
BY NoHolderAtStart DEF AddressOwned

(* The holders depend on these four variables only. *)
LEMMA SameHolders ==
    ASSUME UNCHANGED <<leased, peers, login, saver>>, NEW k, NEW a
    PROVE  Holds(k, a)' <=> Holds(k, a)
BY DEF Holds, Claims

(* Who claims an address after one Login, or one write-back, moved on. *)
LEMMA LoginMoves ==
    ASSUME DOMAIN login = Logins, NEW l \in Logins, NEW v,
           login' = [login EXCEPT ![l] = v], NEW k, NEW a,
           NEW m \in Logins, Claims(login'[m], k, a)
    PROVE  Claims(login[m], k, a) \/ Claims(v, k, a)
BY SMT

LEMMA SaverMoves ==
    ASSUME DOMAIN saver = Savers, NEW s \in Savers, NEW v,
           saver' = [saver EXCEPT ![s] = v], NEW k, NEW a,
           NEW m \in Savers, Claims(saver'[m], k, a)
    PROVE  Claims(saver[m], k, a) \/ Claims(v, k, a)
BY SMT

(* The calls in flight have their domains. *)
LEMMA CallDomains ==
    ASSUME TypeOK
    PROVE  DOMAIN login = Logins /\ DOMAIN saver = Savers
BY DEF TypeOK

(* A Login adds a holder only when Allocate hands out `next`. *)
LEMMA LoginHolders ==
    ASSUME TypeOK, NEW l \in Logins, LoginStep(l), NEW k \in WGKeys, NEW a \in Addresses, Holds(k, a)'
    PROVE  \/ Holds(k, a)
           \/ /\ LoginAllocate(l) /\ AllocateNext(k)
              /\ k = login[l].key /\ k \notin DOMAIN leased /\ a = next
<1>0. DOMAIN login = Logins /\ saver' = saver
  BY CallDomains DEF LoginStep, LoginStart, LoginAllocate, LoginLookup, LoginSave, LoginFinish
<1>. DEFINE Before == Holds(k, a)
<1>1. ASSUME NEW v, login' = [login EXCEPT ![l] = v]
      PROVE  (\E m \in Logins : Claims(login[m], k, a)') => Before \/ Claims(v, k, a)
  BY <1>0, <1>1, LoginMoves DEF Holds, Claims
<1>2. CASE \E key \in WGKeys, sk \in SetupKeys : LoginStart(l, key, sk)
  <2>1. PICK key \in WGKeys, sk \in SetupKeys : LoginStart(l, key, sk)
    BY <1>2
  <2>. DEFINE v == [pc |-> "allocate", key |-> key, sk |-> sk, id |-> nextId]
  <2>2. login' = [login EXCEPT ![l] = v] /\ UNCHANGED <<leased, peers>>
    BY <2>1 DEF LoginStart
  <2>3. ~Claims(v, k, a)
    BY DEF Claims
  <2>. QED
    BY <1>0, <1>1, <2>2, <2>3 DEF Holds, Claims
<1>3. CASE LoginAllocate(l)
  <2>. DEFINE v(ip) == [pc |-> "lookup", key |-> login[l].key, sk |-> login[l].sk,
                        rec |-> [id |-> login[l].id, ip |-> ip]]
  <2>0. peers' = peers
    BY <1>3 DEF LoginAllocate
  <2>1. ASSUME NEW ip, Claims(v(ip), k, a)
        PROVE  k = login[l].key /\ a = ip
    BY <2>1 DEF Claims
  <2>2. CASE /\ login[l].key \in DOMAIN leased
             /\ LoginGotAddress(l, leased[login[l].key])
             /\ UNCHANGED <<next, leased>>
    <3>1. login' = [login EXCEPT ![l] = v(leased[login[l].key])]
      BY <2>2 DEF LoginGotAddress
    <3>2. Claims(v(leased[login[l].key]), k, a) => Before
      BY <2>1, <2>2 DEF Holds
    <3>. QED
      BY <1>0, <1>1, <2>0, <2>2, <3>1, <3>2 DEF Holds, Claims
  <2>3. CASE /\ login[l].key \notin DOMAIN leased
             /\ AllocateNext(login[l].key)
             /\ LoginGotAddress(l, leased'[login[l].key])
    <3>1. /\ leased'[login[l].key] = next
          /\ \A j \in DOMAIN leased' : j = login[l].key \/ (j \in DOMAIN leased /\ leased'[j] = leased[j])
      BY <2>3 DEF AllocateNext, Put
    <3>2. login' = [login EXCEPT ![l] = v(next)]
      BY <2>3, <3>1 DEF LoginGotAddress
    <3>3. Claims(v(next), k, a) => k = login[l].key /\ a = next
      BY <2>1
    <3>4. (\E m \in Logins : Claims(login[m], k, a)') => Before \/ (k = login[l].key /\ a = next)
      BY <1>1, <3>2, <3>3
    <3>5. Before \/ (k = login[l].key /\ a = next)
      BY <1>0, <2>0, <3>1, <3>4 DEF Holds, Claims
    <3>. QED
      BY <1>3, <2>3, <3>5
  <2>4. CASE login' = [login EXCEPT ![l] = Idle] /\ UNCHANGED <<next, leased>>
    <3>1. ~Claims(Idle, k, a)
      BY DEF Claims, Idle
    <3>. QED
      BY <1>0, <1>1, <2>0, <2>4, <3>1 DEF Holds, Claims
  <2>. QED
    BY <1>3, <2>2, <2>3, <2>4 DEF LoginAllocate
<1>4. CASE LoginLookup(l)
  <2>. DEFINE v(id) == [pc |-> "save", key |-> login[l].key, sk |-> login[l].sk,
                        rec |-> [id |-> id, ip |-> login[l].rec.ip]]
  <2>1. login[l].pc = "lookup" /\ UNCHANGED <<leased, peers>>
    BY <1>4 DEF LoginLookup
  <2>2. PICK id : login' = [login EXCEPT ![l] = v(id)]
    BY <1>4 DEF LoginLookup, LoginBuilt
  <2>3. Claims(v(id), k, a) => Claims(login[l], k, a)
    BY <2>1 DEF Claims
  <2>4. Claims(login[l], k, a) => Before
    BY DEF Holds
  <2>. QED
    BY <1>0, <1>1, <2>1, <2>2, <2>3, <2>4 DEF Holds, Claims
<1>5. CASE LoginSave(l)
  <2>. DEFINE v == [pc |-> "finish", key |-> login[l].key, sk |-> login[l].sk, rec |-> login[l].rec]
  <2>1. login[l].pc = "save" /\ UNCHANGED leased
    BY <1>5 DEF LoginSave
  <2>2. (Claims(v, k, a) => Before) /\ ~Claims(Idle, k, a)
    BY <2>1 DEF Claims, Holds, Idle
  <2>3. (\E m \in Logins : Claims(login[m], k, a)') => Before
    BY <1>1, <1>5, <2>2 DEF LoginSave
  <2>4. k \in DOMAIN peers' /\ peers'[k].ip = a => Before
    <3>1. CASE peers' = Put(peers, login[l].key, login[l].rec) /\ k = login[l].key
      <4>1. peers'[k] = login[l].rec
        BY <3>1 DEF Put
      <4>. QED
        BY <2>1, <3>1, <4>1 DEF Holds, Claims
    <3>2. CASE peers' = Put(peers, login[l].key, login[l].rec) /\ k # login[l].key
      BY <3>2 DEF Holds, Put
    <3>3. CASE peers' = peers
      BY <3>3 DEF Holds
    <3>. QED
      BY <1>5, <3>1, <3>2, <3>3 DEF LoginSave
  <2>. QED
    BY <1>0, <2>1, <2>3, <2>4 DEF Holds, Claims
<1>6. CASE LoginFinish(l)
  <2>1. login' = [login EXCEPT ![l] = Idle] /\ UNCHANGED <<leased, peers>>
    BY <1>6 DEF LoginFinish
  <2>2. ~Claims(Idle, k, a)
    BY DEF Claims, Idle
  <2>. QED
    BY <1>0, <1>1, <2>1, <2>2 DEF Holds, Claims
<1>. QED
  BY <1>2, <1>3, <1>4, <1>5, <1>6 DEF LoginStep

(* deletePeer adds no holder. *)
LEMMA DeleteHolders ==
    ASSUME NEW d \in Deleters, DeleteStep(d), NEW k \in WGKeys, NEW a \in Addresses, Holds(k, a)'
    PROVE  Holds(k, a)
<1>1. UNCHANGED <<login, saver>>
  BY DEF DeleteStep, DeleteStart, DeletePeer, DeleteRelease
<1>2. k \in DOMAIN leased' => k \in DOMAIN leased /\ leased'[k] = leased[k]
  BY DEF DeleteStep, DeleteStart, DeletePeer, DeleteRelease, Release, Drop
<1>3. k \in DOMAIN peers' => k \in DOMAIN peers /\ peers'[k] = peers[k]
  BY DEF DeleteStep, DeleteStart, DeletePeer, DeleteRelease, Drop
<1>. QED
  BY <1>1, <1>2, <1>3 DEF Holds, Claims

(* A stale write-back revives an address, but only for the device that had  *)
(* it: while it was in flight it was a holder.                              *)
LEMMA SaverHolders ==
    ASSUME TypeOK, NEW s \in Savers, SaverStep(s), NEW k \in WGKeys, NEW a \in Addresses, Holds(k, a)'
    PROVE  Holds(k, a)
<1>0. DOMAIN saver = Savers /\ UNCHANGED <<login, leased>>
  BY CallDomains DEF SaverStep, SaverRead, SaverSave
<1>1. ASSUME NEW v, saver' = [saver EXCEPT ![s] = v]
      PROVE  (\E m \in Savers : Claims(saver[m], k, a)') => Holds(k, a) \/ Claims(v, k, a)
  BY <1>0, <1>1, SaverMoves DEF Holds, Claims
<1>2. ASSUME NEW key \in WGKeys, SaverRead(s, key)
      PROVE  Holds(k, a)
  <2>. DEFINE v == [pc |-> "save", key |-> key, rec |-> peers[key]]
  <2>1. saver' = [saver EXCEPT ![s] = v] /\ peers' = peers /\ key \in DOMAIN peers
    BY <1>2 DEF SaverRead
  <2>2. Claims(v, k, a) => Holds(k, a)
    BY <2>1 DEF Claims, Holds
  <2>. QED
    BY <1>0, <1>1, <2>1, <2>2 DEF Holds, Claims
<1>3. CASE SaverSave(s)
  <2>1. saver[s].pc = "save" /\ saver' = [saver EXCEPT ![s] = Idle]
    BY <1>3 DEF SaverSave
  <2>2. ~Claims(Idle, k, a)
    BY DEF Claims, Idle
  <2>3. (\E m \in Savers : Claims(saver[m], k, a)') => Holds(k, a)
    BY <1>1, <2>1, <2>2
  <2>4. k \in DOMAIN peers' /\ peers'[k].ip = a => Holds(k, a)
    <3>1. CASE peers' = Put(peers, saver[s].key, saver[s].rec) /\ k = saver[s].key
      <4>1. peers'[k] = saver[s].rec
        BY <3>1 DEF Put
      <4>. QED
        BY <2>1, <3>1, <4>1 DEF Holds, Claims
    <3>2. CASE peers' = Put(peers, saver[s].key, saver[s].rec) /\ k # saver[s].key
      BY <3>2 DEF Holds, Put
    <3>3. CASE peers' = peers
      BY <3>3 DEF Holds
    <3>. QED
      BY <1>3, <3>1, <3>2, <3>3 DEF SaverSave
  <2>. QED
    BY <1>0, <2>3, <2>4 DEF Holds, Claims
<1>. QED
  BY <1>2, <1>3 DEF SaverStep

(* The handlers of setup keys concern no address. *)
LEMMA SetupKeyHolders ==
    ASSUME NEW sk \in SetupKeys, SetupKeyStep(sk)
    PROVE  UNCHANGED <<next, leased, peers, login, saver>>
BY DEF SetupKeyStep, CreateSetupKey, DeleteSetupKey, ExpireSetupKey

LEMMA OwnedLogin ==
    ASSUME TypeOK, TypeOK', AddressOwned, NEW l \in Logins, LoginStep(l)
    PROVE  AddressOwned'
<1>1. next \in Int
  BY PoolAssumption DEF TypeOK
<1>2. CASE \A k \in WGKeys, a \in Addresses : Holds(k, a)' => Holds(k, a)
  <2>1. next' = next \/ next' = next + 1
    BY DEF LoginStep, LoginStart, LoginAllocate, LoginLookup, LoginSave, LoginFinish, AllocateNext
  <2>2. next' >= next
    BY <1>1, <2>1
  <2>. QED
    BY <1>2, <2>2, NoNewClaim
<1>3. CASE ~(\A k \in WGKeys, a \in Addresses : Holds(k, a)' => Holds(k, a))
  <2>1. PICK key \in WGKeys : AllocateNext(key) /\ key = login[l].key
    BY <1>3, LoginHolders
  <2>2. next' = next + 1
    BY <2>1 DEF AllocateNext
  <2>3. \A k \in WGKeys, a \in Addresses : Holds(k, a)' => Holds(k, a) \/ (k = key /\ a = next)
    BY <2>1, LoginHolders
  <2>. QED
    BY <1>1, <2>2, <2>3, PoolAssumption DEF AddressOwned
<1>. QED
  BY <1>2, <1>3

LEMMA OwnedDelete ==
    ASSUME TypeOK, TypeOK', AddressOwned, NEW d \in Deleters, DeleteStep(d)
    PROVE  AddressOwned'
<1>1. next' = next
  BY DEF DeleteStep, DeleteStart, DeletePeer, DeleteRelease
<1>2. next \in Int
  BY PoolAssumption DEF TypeOK
<1>. QED
  BY <1>1, <1>2, DeleteHolders, NoNewClaim

LEMMA OwnedSaver ==
    ASSUME TypeOK, TypeOK', AddressOwned, NEW s \in Savers, SaverStep(s)
    PROVE  AddressOwned'
<1>1. next' = next
  BY DEF SaverStep, SaverRead, SaverSave
<1>2. next \in Int
  BY PoolAssumption DEF TypeOK
<1>. QED
  BY <1>1, <1>2, SaverHolders, NoNewClaim

LEMMA OwnedSetupKey ==
    ASSUME TypeOK, TypeOK', AddressOwned, NEW sk \in SetupKeys, SetupKeyStep(sk)
    PROVE  AddressOwned'
BY SetupKeyHolders, SameHolders DEF AddressOwned

(* A restart forgets the calls in flight and the leases without a record;   *)
(* what is left are the stored records, and PreloadPeers lifts `next` above *)
(* them.                                                                    *)
LEMMA RestartHolders ==
    ASSUME TypeOK', Restart, PreloadMayFail = FALSE, NEW k \in WGKeys, NEW a \in Addresses,
           Holds(k, a)'
    PROVE  Holds(k, a) /\ a < next'
<1>1. PreloadPeers(peers')
  BY DEF Restart, Listed
<1>2. peers' = peers \/ DOMAIN peers' = {}
  BY EmptyMapIsMap DEF Restart
<1>3. k \in DOMAIN peers' /\ peers'[k].ip = a
  BY <1>1 DEF Restart, PreloadPeers, Holds, Claims, Idle
<1>. QED
  BY <1>1, <1>2, <1>3 DEF PreloadPeers, Holds

LEMMA OwnedRestart ==
    ASSUME TypeOK, TypeOK', AddressOwned, Restart, PreloadMayFail = FALSE
    PROVE  AddressOwned'
BY RestartHolders DEF AddressOwned

LEMMA OwnedNext ==
    ASSUME PreloadMayFail = FALSE
    PROVE  TypeOK /\ TypeOK' /\ AddressOwned /\ [Next]_vars => AddressOwned'
<1>. SUFFICES ASSUME TypeOK, TypeOK', AddressOwned, [Next]_vars
              PROVE  AddressOwned'
  OBVIOUS
<1>1. CASE UNCHANGED vars
  BY <1>1, SameHolders DEF vars, AddressOwned
<1>. QED
  BY <1>1, OwnedLogin, OwnedDelete, OwnedSaver, OwnedSetupKey, OwnedRestart DEF Next

(* Leases, records and calls in flight never give one address to two        *)
(* devices, provided the IPAM is preloaded at every start.                  *)
THEOREM AddressesOwned ==
    ASSUME PreloadMayFail = FALSE
    PROVE  Spec => []AddressOwned
<1>1. Init => AddressOwned
  BY OwnedInit
<1>2. TypeOK /\ TypeOK' /\ AddressOwned /\ [Next]_vars => AddressOwned'
  BY OwnedNext
<1>. QED
  BY <1>1, <1>2, TypeCorrect, PTL DEF Spec

(* Two stored devices never share a mesh address, provided the IPAM is      *)
(* preloaded at every start.                                                *)
THEOREM AddressesUnique ==
    ASSUME PreloadMayFail = FALSE
    PROVE  Spec => []UniqueIPs
<1>1. TypeOK /\ AddressOwned => UniqueIPs
  <2>. SUFFICES ASSUME TypeOK, AddressOwned,
                       NEW j \in DOMAIN peers, NEW k \in DOMAIN peers,
                       peers[j].ip = peers[k].ip
                PROVE  j = k
    BY DEF UniqueIPs
  <2>1. j \in WGKeys /\ k \in WGKeys /\ peers[k].ip \in Addresses
    BY DEF TypeOK, IsMap, PeerRecords
  <2>2. Holds(j, peers[k].ip) /\ Holds(k, peers[k].ip)
    BY DEF Holds
  <2>. QED
    BY <2>1, <2>2 DEF AddressOwned
<1>. QED
  BY <1>1, TypeCorrect, AddressesOwned, PTL

-----------------------------------------------------------------------------
(* Refinement of AddressBook. *)

(* No step but the Allocate of one Login adds a claim; that Login takes no  *)
(* claim away.                                                              *)
LEMMA BookForgets ==
    ASSUME \A k \in WGKeys, a \in Addresses : Holds(k, a)' => Holds(k, a)
    PROVE  Book!Forget
BY DEF Book!Forget

LEMMA AllocateKeeps ==
    ASSUME TypeOK, NEW l \in Logins, LoginAllocate(l),
           NEW key \in WGKeys, key = login[l].key, key \notin DOMAIN leased, AllocateNext(key),
           NEW k \in WGKeys, NEW a \in Addresses, Holds(k, a)
    PROVE  Holds(k, a)'
<1>1. DOMAIN login = Logins /\ UNCHANGED <<peers, saver>> /\ login[l].pc = "allocate"
  BY CallDomains DEF LoginAllocate
<1>2. k \in DOMAIN leased => k \in DOMAIN leased' /\ leased'[k] = leased[k]
  BY DEF AllocateNext, Put
<1>3. PICK v : login' = [login EXCEPT ![l] = v]
  BY DEF LoginAllocate, LoginGotAddress
<1>4. ASSUME NEW m \in Logins, Claims(login[m], k, a) PROVE Claims(login'[m], k, a)
  <2>1. m # l
    BY <1>1, <1>4 DEF Claims
  <2>2. login'[m] = login[m]
    BY <1>1, <1>3, <2>1
  <2>. QED
    BY <1>4, <2>2
<1>. QED
  BY <1>1, <1>2, <1>4 DEF Holds, Claims

LEMMA BookGrants ==
    ASSUME TypeOK, TypeOK', AddressOwned, NEW l \in Logins, LoginAllocate(l),
           NEW key \in WGKeys, key = login[l].key, key \notin DOMAIN leased, AllocateNext(key)
    PROVE  Book!Next
<1>1. PICK n \in Addresses : n = next
  BY PoolAssumption DEF AllocateNext, TypeOK
<1>2. LoginStep(l)
  BY DEF LoginStep
<1>3. Holds(key, n)'
  BY <1>1 DEF AllocateNext, Put, Holds
<1>4. \A k \in WGKeys, a \in Addresses :
         Holds(k, a)' <=> Holds(k, a) \/ (k = key /\ a = n)
  BY <1>1, <1>2, <1>3, LoginHolders, AllocateKeeps
<1>5. \A k \in WGKeys : ~Holds(k, n)
  BY <1>1 DEF AddressOwned
<1>6. Book!Grant(key, n)
  <2>. DEFINE C == {c \in WGKeys \X Addresses : Holds(c[1], c[2])}
  <2>1. \A c \in C : c[2] # n
    BY <1>5
  <2>2. \A c \in WGKeys \X Addresses : Holds(c[1], c[2])' <=> c \in C \cup {<<key, n>>}
    <3>. TAKE c \in WGKeys \X Addresses
    <3>1. c[1] \in WGKeys /\ c[2] \in Addresses /\ c = <<c[1], c[2]>>
      OBVIOUS
    <3>2. Holds(c[1], c[2])' <=> Holds(c[1], c[2]) \/ (c[1] = key /\ c[2] = n)
      BY <1>4, <3>1
    <3>3. c = <<key, n>> <=> c[1] = key /\ c[2] = n
      BY <3>1
    <3>. QED
      BY <3>2, <3>3
  <2>3. {c \in WGKeys \X Addresses : Holds(c[1], c[2])'} = C \cup {<<key, n>>}
    BY <2>2
  <2>. QED
    BY <2>1, <2>3 DEF Book!Grant
<1>. QED
  BY <1>6 DEF Book!Next

LEMMA BookNext ==
    ASSUME PreloadMayFail = FALSE, TypeOK, TypeOK', AddressOwned, Next
    PROVE  Book!Next
<1>1. ASSUME NEW l \in Logins, LoginStep(l) PROVE Book!Next
  <2>1. CASE \A k \in WGKeys, a \in Addresses : Holds(k, a)' => Holds(k, a)
    BY <2>1, BookForgets DEF Book!Next
  <2>2. CASE ~(\A k \in WGKeys, a \in Addresses : Holds(k, a)' => Holds(k, a))
    <3>1. PICK key \in WGKeys : /\ LoginAllocate(l) /\ AllocateNext(key)
                               /\ key = login[l].key /\ key \notin DOMAIN leased
      BY <1>1, <2>2, LoginHolders
    <3>. QED
      BY <3>1, BookGrants
  <2>. QED
    BY <2>1, <2>2
<1>2. ASSUME NEW d \in Deleters, DeleteStep(d) PROVE Book!Next
  BY <1>2, DeleteHolders, BookForgets DEF Book!Next
<1>3. ASSUME NEW s \in Savers, SaverStep(s) PROVE Book!Next
  BY <1>3, SaverHolders, BookForgets DEF Book!Next
<1>4. ASSUME NEW sk \in SetupKeys, SetupKeyStep(sk) PROVE Book!Next
  BY <1>4, SetupKeyHolders, SameHolders, BookForgets DEF Book!Next
<1>5. CASE Restart
  BY <1>5, RestartHolders, BookForgets DEF Book!Next
<1>. QED
  BY <1>1, <1>2, <1>3, <1>4, <1>5 DEF Next

(* Enrollment implements AddressBook, provided the IPAM is preloaded at     *)
(* every start.                                                             *)
THEOREM BookImplemented ==
    ASSUME PreloadMayFail = FALSE
    PROVE  Spec => ImplementsAddressBook
<1>1. Init => Book!Init
  BY NoHolderAtStart DEF Book!Init
<1>. DEFINE Claimed == {c \in WGKeys \X Addresses : Holds(c[1], c[2])}
<1>2. TypeOK /\ TypeOK' /\ AddressOwned /\ [Next]_vars => [Book!Next]_Claimed
  <2>1. ASSUME UNCHANGED vars PROVE Claimed' = Claimed
    BY <2>1, SameHolders DEF vars
  <2>. QED
    BY <2>1, BookNext
<1>. QED
  BY <1>1, <1>2, TypeCorrect, AddressesOwned, PTL DEF Spec, ImplementsAddressBook, Book!Spec

-----------------------------------------------------------------------------
(* Stability of a record's ID. *)

(* With the postgres store a record keeps its ID for as long as it exists:  *)
(* the unique index on wg_pub_key refuses the write of a Login that missed  *)
(* the record.                                                              *)
THEOREM IdStable ==
    ASSUME Durable = TRUE
    PROVE  Spec => StableId
<1>. DEFINE Kept == \A k \in (DOMAIN peers) \cap (DOMAIN peers') : peers'[k].id = peers[k].id
<1>1. TypeOK /\ Next => Kept
  <2>. SUFFICES ASSUME TypeOK, Next PROVE Kept
    OBVIOUS
  <2>1. ASSUME NEW l \in Logins, LoginStep(l) PROVE Kept
    BY <2>1 DEF LoginStep, LoginStart, LoginAllocate, LoginLookup, LoginSave, LoginFinish,
                SaveAccepted, Put
  <2>2. ASSUME NEW d \in Deleters, DeleteStep(d) PROVE Kept
    BY <2>2 DEF DeleteStep, DeleteStart, DeletePeer, DeleteRelease, Drop
  <2>3. ASSUME NEW s \in Savers, SaverStep(s) PROVE Kept
    BY <2>3 DEF SaverStep, SaverRead, SaverSave, SaveAccepted, Put
  <2>4. ASSUME NEW sk \in SetupKeys, SetupKeyStep(sk) PROVE Kept
    BY <2>4 DEF SetupKeyStep, CreateSetupKey, DeleteSetupKey, ExpireSetupKey
  <2>5. CASE Restart
    BY <2>5 DEF Restart
  <2>. QED
    BY <2>1, <2>2, <2>3, <2>4, <2>5 DEF Next
<1>2. TypeOK /\ [Next]_vars => [Kept]_vars
  BY <1>1
<1>. QED
  BY <1>2, TypeCorrect, PTL DEF Spec, StableId

-----------------------------------------------------------------------------
(* Stability of a record's address when no device is deleted.               *)

(* Records and calls in flight agree with the IPAM: the lease of a device   *)
(* is the only address anyone holds for it.                                 *)
LeaseRules ==
    \A k \in WGKeys, a \in Addresses : Holds(k, a) => k \in DOMAIN leased /\ leased[k] = a

LEMMA LeaseNext ==
    ASSUME Deleters = {}, PreloadMayFail = FALSE
    PROVE  TypeOK /\ TypeOK' /\ LeaseRules /\ [Next]_vars => LeaseRules'
<1>. SUFFICES ASSUME TypeOK, TypeOK', LeaseRules, [Next]_vars
              PROVE  LeaseRules'
  OBVIOUS
<1>1. ASSUME NEW l \in Logins, LoginStep(l)
      PROVE  LeaseRules'
  <2>1. \/ UNCHANGED leased
        \/ leased' = Put(leased, login[l].key, next) /\ login[l].key \notin DOMAIN leased
    BY <1>1 DEF LoginStep, LoginStart, LoginAllocate, LoginLookup, LoginSave, LoginFinish, AllocateNext
  <2>2. \A k \in DOMAIN leased : k \in DOMAIN leased' /\ leased'[k] = leased[k]
    BY <2>1 DEF Put
  <2>3. \A k \in WGKeys : AllocateNext(k) => k \in DOMAIN leased' /\ leased'[k] = next
    BY DEF AllocateNext, Put
  <2>. QED
    BY <1>1, <2>2, <2>3, LoginHolders DEF LeaseRules
<1>2. ASSUME NEW s \in Savers, SaverStep(s)
      PROVE  LeaseRules'
  <2>1. UNCHANGED leased
    BY <1>2 DEF SaverStep, SaverRead, SaverSave
  <2>. QED
    BY <1>2, <2>1, SaverHolders DEF LeaseRules
<1>3. ASSUME NEW sk \in SetupKeys, SetupKeyStep(sk)
      PROVE  LeaseRules'
  BY <1>3, SetupKeyHolders, SameHolders DEF LeaseRules
<1>4. CASE Restart
  <2>1. leased' = [k \in DOMAIN peers' |-> peers'[k].ip]
    BY <1>4 DEF Restart, Listed, PreloadPeers
  <2>2. /\ \A l \in Logins : login'[l] = Idle
        /\ \A s \in Savers : saver'[s] = Idle
    BY <1>4 DEF Restart
  <2>3. \A k \in WGKeys, a \in Addresses :
           Holds(k, a)' => k \in DOMAIN peers' /\ peers'[k].ip = a
    <3>1. \A k, a : ~Claims(Idle, k, a)
      BY DEF Claims, Idle
    <3>2. ASSUME NEW k \in WGKeys, NEW a \in Addresses, Holds(k, a)'
          PROVE  k \in DOMAIN peers' /\ peers'[k].ip = a
      <4>1. \/ k \in DOMAIN leased' /\ leased'[k] = a
            \/ k \in DOMAIN peers' /\ peers'[k].ip = a
            \/ \E l \in Logins : Claims(login'[l], k, a)
            \/ \E s \in Savers : Claims(saver'[s], k, a)
        BY <3>2 DEF Holds, Claims
      <4>. QED
        BY <2>1, <2>2, <3>1, <4>1
    <3>. QED
      BY <3>2
  <2>. QED
    BY <2>1, <2>3 DEF LeaseRules
<1>5. CASE UNCHANGED vars
  BY <1>5, SameHolders DEF vars, LeaseRules
<1>. QED
  BY <1>1, <1>2, <1>3, <1>4, <1>5 DEF Next

(* As long as no device is deleted, re-enrollment, write-backs and restarts *)
(* (with a successful preload) never change the address of a record.        *)
THEOREM AddressStable ==
    ASSUME Deleters = {}, PreloadMayFail = FALSE
    PROVE  Spec => StableIP
<1>. DEFINE Kept == \A k \in (DOMAIN peers) \cap (DOMAIN peers') : peers'[k].ip = peers[k].ip
<1>1. Init => LeaseRules
  BY NoHolderAtStart DEF LeaseRules
<1>2. TypeOK /\ TypeOK' /\ LeaseRules /\ [Next]_vars => LeaseRules'
  BY LeaseNext
<1>3. TypeOK /\ LeaseRules /\ Next => Kept
  <2>. SUFFICES ASSUME TypeOK, LeaseRules, Next PROVE Kept
    OBVIOUS
  <2>0. \A k \in DOMAIN peers : k \in WGKeys /\ peers[k].ip \in Addresses /\ Holds(k, peers[k].ip)
    BY DEF TypeOK, IsMap, PeerRecords, Holds
  <2>1. ASSUME NEW l \in Logins, LoginStep(l) PROVE Kept
    <3>1. CASE LoginSave(l)
      <4>0. login[l].pc = "save"
        BY <3>1 DEF LoginSave
      <4>1. login[l].rec.ip \in Addresses /\ login[l].key \in WGKeys
        BY <4>0, LocalStates DEF PeerRecords
      <4>2. Holds(login[l].key, login[l].rec.ip)
        BY <4>0 DEF Holds, Claims
      <4>3. login[l].key \in DOMAIN peers => peers[login[l].key].ip = login[l].rec.ip
        BY <2>0, <4>1, <4>2 DEF LeaseRules
      <4>. QED
        BY <3>1, <4>3 DEF LoginSave, Put
    <3>. QED
      BY <2>1, <3>1 DEF LoginStep, LoginStart, LoginAllocate, LoginLookup, LoginFinish
  <2>2. ASSUME NEW s \in Savers, SaverStep(s) PROVE Kept
    <3>1. CASE SaverSave(s)
      <4>0. saver[s].pc = "save"
        BY <3>1 DEF SaverSave
      <4>1. saver[s].rec.ip \in Addresses /\ saver[s].key \in WGKeys
        BY <4>0, LocalStates DEF PeerRecords
      <4>2. Holds(saver[s].key, saver[s].rec.ip)
        BY <4>0 DEF Holds, Claims
      <4>3. saver[s].key \in DOMAIN peers => peers[saver[s].key].ip = saver[s].rec.ip
        BY <2>0, <4>1, <4>2 DEF LeaseRules
      <4>. QED
        BY <3>1, <4>3 DEF SaverSave, Put
    <3>. QED
      BY <2>2, <3>1 DEF SaverStep, SaverRead
  <2>3. ASSUME NEW sk \in SetupKeys, SetupKeyStep(sk) PROVE Kept
    BY <2>3 DEF SetupKeyStep, CreateSetupKey, DeleteSetupKey, ExpireSetupKey
  <2>4. CASE Restart
    BY <2>4, EmptyMapIsMap DEF Restart
  <2>. QED
    BY <2>1, <2>2, <2>3, <2>4 DEF Next
<1>4. TypeOK /\ LeaseRules /\ [Next]_vars => [Kept]_vars
  BY <1>3
<1>. QED
  BY <1>1, <1>2, <1>4, TypeCorrect, PTL DEF Spec, StableIP

-----------------------------------------------------------------------------
(* One-time use of a setup key *)

(* The key a Login was accepted with has not been counted since. *)
KeyUnused ==
    \A l \in Logins : login[l].pc # "idle" => ~(login[l].sk \in Ephemeral \cap used)

(* Only IncrementSetupKeyUsage counts, and with one Login at a time it does *)
(* so for the call that ends.                                               *)
LEMMA KeyUnusedKept ==
    ASSUME \A l, m \in Logins : l = m, TypeOK, KeyUnused, [Next]_vars
    PROVE  KeyUnused'
<1>1. login \in [Logins -> LoginStates]
  BY DEF TypeOK
<1>2. ASSUME UNCHANGED login, used' \subseteq used
      PROVE  KeyUnused'
  BY <1>2 DEF KeyUnused
<1>3. ASSUME NEW l \in Logins, LoginStep(l)
      PROVE  KeyUnused'
  <2>1. ASSUME NEW rec, login' = [login EXCEPT ![l] = rec], UNCHANGED used,
               rec.pc # "idle" => ~(rec.sk \in Ephemeral \cap used)
        PROVE  KeyUnused'
    BY <1>1, <2>1 DEF KeyUnused
  <2>2. ASSUME login' = [login EXCEPT ![l] = Idle]
        PROVE  KeyUnused'
    BY <1>1, <2>2 DEF KeyUnused, Idle
  <2>3. login[l].pc # "idle" => ~(login[l].sk \in Ephemeral \cap used)
    BY DEF KeyUnused
  <2>4. ASSUME NEW key \in WGKeys, NEW sk \in SetupKeys, LoginStart(l, key, sk)
        PROVE  KeyUnused'
    BY <2>1, <2>4 DEF LoginStart, SetupKeyAccepted
  <2>5. ASSUME LoginAllocate(l)
        PROVE  KeyUnused'
    BY <2>1, <2>2, <2>3, <2>5 DEF LoginAllocate, LoginGotAddress
  <2>6. ASSUME LoginLookup(l)
        PROVE  KeyUnused'
    BY <2>1, <2>3, <2>6 DEF LoginLookup, LoginBuilt
  <2>7. ASSUME LoginSave(l)
        PROVE  KeyUnused'
    BY <2>1, <2>2, <2>3, <2>7 DEF LoginSave
  <2>8. ASSUME LoginFinish(l)
        PROVE  KeyUnused'
    BY <2>2, <2>8 DEF LoginFinish
  <2> QED
    BY <1>3, <2>4, <2>5, <2>6, <2>7, <2>8 DEF LoginStep
<1>4. ASSUME NEW d \in Deleters, DeleteStep(d)
      PROVE  KeyUnused'
  BY <1>2, <1>4 DEF DeleteStep, DeleteStart, DeletePeer, DeleteRelease
<1>5. ASSUME NEW s \in Savers, SaverStep(s)
      PROVE  KeyUnused'
  BY <1>2, <1>5 DEF SaverStep, SaverRead, SaverSave
<1>6. ASSUME NEW sk \in SetupKeys, SetupKeyStep(sk)
      PROVE  KeyUnused'
  BY <1>2, <1>6 DEF SetupKeyStep, CreateSetupKey, DeleteSetupKey, ExpireSetupKey
<1>7. ASSUME Restart
      PROVE  KeyUnused'
  BY <1>7 DEF Restart, KeyUnused, Idle
<1>8. CASE UNCHANGED vars
  BY <1>2, <1>8 DEF vars
<1> QED
  BY <1>3, <1>4, <1>5, <1>6, <1>7, <1>8 DEF Next

(* Login does not save a record with an ephemeral key that was used, when   *)
(* calls do not overlap: between the check of UsedCount and the increment   *)
(* lie the allocation, the look-up and the save.                            *)
THEOREM EphemeralUsedOnce ==
    ASSUME \A l, m \in Logins : l = m
    PROVE  Spec => EphemeralOnce
<1>1. Init => KeyUnused
  BY DEF Init, KeyUnused, Idle
<1>2. TypeOK /\ KeyUnused /\ [Next]_vars => KeyUnused'
  BY KeyUnusedKept
<1> DEFINE Once == \A l \in Logins : login[l].pc = "save" /\ login'[l].pc = "finish"
                                        => ~(login[l].sk \in Ephemeral \cap used)
<1>3. KeyUnused => [Once]_vars
  BY DEF KeyUnused
<1> QED
  BY <1>1, <1>2, <1>3, TypeCorrect, PTL DEF Spec, EphemeralOnce
=============================================================================
