----------------------------- MODULE Enrollment -----------------------------
(***************************************************************************)
(* Enrollment in the management server: the Login RPC, the REST handlers   *)
(* that delete peers and manage setup keys, every handler that reads a     *)
(* peer record and writes it back, the IPAM that hands out mesh addresses, *)
(* and a restart of the server process.                                    *)
(*                                                                         *)
(* gRPC and gin run each call on its own goroutine.  A handler is not a    *)
(* critical section: only a single store or IPAM call is atomic.  A call   *)
(* is therefore one action per store or IPAM operation, and `login`,       *)
(* `deleter` and `saver` hold the local variables of the calls in flight.  *)
(*                                                                         *)
(* Only the account "default" is ever created, so accounts do not appear.  *)
(* A peer record keeps its ID and IP: the two fields enrollment decides.   *)
(***************************************************************************)
EXTENDS Integers, GoMaps

CONSTANTS
    WGKeys,         \* WireGuard public keys of devices
    SetupKeys,      \* secrets of setup keys
    EndingKeys,     \* bound: the setup keys that expire or are deleted
    DefaultKey,     \* the setup key the server seeds at every start
    Ephemeral,      \* the setup keys created with Ephemeral = true
    Base,           \* network address of the mesh CIDR
    Broadcast,      \* its broadcast address
    Logins,         \* goroutines that can serve Login at the same time
    Deleters,       \* goroutines that can serve DELETE /peers/:key
    Savers,         \* goroutines that can be between GetPeer and SavePeer
    Durable,        \* TRUE: the postgres store; FALSE: the in-memory store
    StoreMayFail,   \* TRUE: a database call of a handler may return an error
    PreloadMayFail, \* TRUE: GetAllPeers may return an error at start-up
    MaxId,          \* bound: Login calls accepted, each drawing a peer ID
    MaxRestarts     \* bound: restarts of the server

ASSUME PoolAssumption == Base \in Nat /\ Broadcast \in Nat /\ Base < Broadcast

ASSUME EndingAssumption == EndingKeys \subseteq SetupKeys

ASSUME KeyAssumption == DefaultKey \in SetupKeys /\ Ephemeral \subseteq SetupKeys \ {DefaultKey}

ASSUME BoundAssumption == MaxId \in Nat /\ MaxRestarts \in Nat

ASSUME SwitchAssumption ==
    /\ Durable \in BOOLEAN
    /\ StoreMayFail \in BOOLEAN
    /\ PreloadMayFail \in BOOLEAN

VARIABLES
    peers,      \* store: WireGuard key -> [id, ip] of the peer record
    keyState,   \* store: setup key -> "none", "valid", "expired" or "deleted"
    used,       \* store: the ephemeral setup keys with UsedCount > 0
    next,       \* IPAM.next
    leased,     \* IPAM.leased: WireGuard key -> address
    login,      \* locals of each Login goroutine
    deleter,    \* locals of each deletePeer goroutine
    saver,      \* the record each read-modify-write handler has read
    nextId,     \* the next peer ID uuid.NewString returns
    restarts    \* restarts so far

vars == <<peers, keyState, used, next, leased, login, deleter, saver, nextId, restarts>>

Addresses == (Base + 1) .. (Broadcast - 1)

PeerRecords == [id : Nat, ip : Addresses]

KeyStates == {"none", "valid", "expired", "deleted"}

Idle == [pc |-> "idle"]

LoginStates ==
    {Idle} \cup [pc : {"allocate"}, key : WGKeys, sk : SetupKeys, id : Nat]
           \cup [pc : {"lookup"}, key : WGKeys, sk : SetupKeys, rec : PeerRecords]
           \cup [pc : {"save"}, key : WGKeys, sk : SetupKeys, rec : PeerRecords]
           \cup [pc : {"finish"}, key : WGKeys, sk : SetupKeys, rec : PeerRecords]

DeleterStates == {Idle} \cup [pc : {"delete", "release"}, key : WGKeys]

SaverStates == {Idle} \cup [pc : {"save"}, key : WGKeys, rec : PeerRecords]

-----------------------------------------------------------------------------
(* Plausible faults of the operations below.  No behaviour of the           *)
(* specification uses them: each shows that a property would notice it.     *)

(* wg_pub_key without its unique index *)
SaveAlwaysAccepted(key, rec) == TRUE

(* Login without the one-time-use check *)
ValidKeyAccepted(sk) == keyState[sk] = "valid"

(* `next > broadcast` as the exhaustion test *)
AllocateUpToBroadcast(key) ==
    /\ next <= Broadcast
    /\ leased' = Put(leased, key, next)
    /\ next' = next + 1

(* reuse any address no lease mentions *)
AllocateUnleased(key) ==
    /\ \E a \in Addresses \ {leased[k] : k \in DOMAIN leased} : leased' = Put(leased, key, a)
    /\ UNCHANGED next

(* leases restored, `next` left at the first host *)
PreloadLeasesOnly(ps) ==
    /\ leased' = [k \in DOMAIN ps |-> ps[k].ip]
    /\ next' = Base + 1

(* `next` restored, leases forgotten *)
PreloadNextOnly(ps) ==
    /\ leased' = EmptyMap
    /\ next' \in (Base + 1) .. Broadcast
    /\ \A k \in DOMAIN ps : ps[k].ip < next'
    /\ next' = Base + 1 \/ \E k \in DOMAIN ps : next' = ps[k].ip + 1

-----------------------------------------------------------------------------
(* The store *)

(* SavePeer.  The in-memory store writes under the WireGuard key whatever   *)
(* is there.  gorm's Save updates or inserts the row with the record's ID,  *)
(* and wg_pub_key is a unique index: a row of the same key under another ID *)
(* makes the insert fail.                                                   *)
SaveAccepted(key, rec) ==
    Durable => (key \in DOMAIN peers => peers[key].id = rec.id)

(* GetSetupKey and the one-time-use check that follows it in Login. *)
SetupKeyAccepted(sk) ==
    keyState[sk] = "valid" /\ ~(sk \in Ephemeral /\ sk \in used)

(* IncrementSetupKeyUsage: a key deleted meanwhile has no row to count in,  *)
(* and Login only logs the error.  The count of a reusable key decides      *)
(* nothing and is left out.                                                 *)
IncrementSetupKeyUsage(sk) ==
    used' = IF keyState[sk] \in {"valid", "expired"} THEN used \cup ({sk} \cap Ephemeral) ELSE used

-----------------------------------------------------------------------------
(* IPAM *)

(* Allocate when the key has no lease yet. *)
AllocateNext(key) ==
    /\ next < Broadcast
    /\ leased' = Put(leased, key, next)
    /\ next' = next + 1

Release(key) ==
    leased' = Drop(leased, key)

(* NewIPAM followed by PreloadPeers(ps): the lease of each stored peer, and *)
(* `next` just above the highest stored address.                            *)
PreloadPeers(ps) ==
    /\ leased' = [k \in DOMAIN ps |-> ps[k].ip]
    /\ next' \in (Base + 1) .. Broadcast
    /\ \A k \in DOMAIN ps : ps[k].ip < next'
    /\ next' = Base + 1 \/ \E k \in DOMAIN ps : next' = ps[k].ip + 1

-----------------------------------------------------------------------------
(* Login.  A call whose arguments or setup key are refused changes nothing; *)
(* the rate limit in front of it only refuses more calls.                   *)

LoginStart(l, key, sk) ==
    /\ login[l] = Idle
    /\ SetupKeyAccepted(sk)
    /\ nextId <= MaxId
    /\ nextId' = nextId + 1
    /\ login' = [login EXCEPT ![l] = [pc |-> "allocate", key |-> key, sk |-> sk, id |-> nextId]]
    /\ UNCHANGED <<peers, keyState, used, next, leased, deleter, saver, restarts>>

LoginGotAddress(l, ip) ==
    login' = [login EXCEPT ![l] = [pc |-> "lookup", key |-> login[l].key, sk |-> login[l].sk,
                                   rec |-> [id |-> login[l].id, ip |-> ip]]]

LoginAllocate(l) ==
    /\ login[l].pc = "allocate"
    /\ \/ /\ login[l].key \in DOMAIN leased
          /\ LoginGotAddress(l, leased[login[l].key])
          /\ UNCHANGED <<next, leased>>
       \/ /\ login[l].key \notin DOMAIN leased
          /\ AllocateNext(login[l].key)
          /\ LoginGotAddress(l, leased'[login[l].key])
       \/ /\ login[l].key \notin DOMAIN leased
          /\ next >= Broadcast              \* "IPAM pool exhausted"
          /\ login' = [login EXCEPT ![l] = Idle]
          /\ UNCHANGED <<next, leased>>
    /\ UNCHANGED <<peers, keyState, used, deleter, saver, nextId, restarts>>

LoginBuilt(l, id) ==
    login' = [login EXCEPT ![l] = [pc |-> "save", key |-> login[l].key, sk |-> login[l].sk,
                                   rec |-> [id |-> id, ip |-> login[l].rec.ip]]]

(* The record always carries the address just allocated.  Its ID is the     *)
(* stored one if GetPeer finds a record; any error of GetPeer, not only     *)
(* "not found", counts as a first enrollment.                               *)
LoginLookup(l) ==
    /\ login[l].pc = "lookup"
    /\ \/ /\ login[l].key \in DOMAIN peers
          /\ LoginBuilt(l, peers[login[l].key].id)
       \/ /\ login[l].key \notin DOMAIN peers \/ StoreMayFail
          /\ LoginBuilt(l, login[l].rec.id)
    /\ UNCHANGED <<peers, keyState, used, next, leased, deleter, saver, nextId, restarts>>

LoginSave(l) ==
    /\ login[l].pc = "save"
    /\ \/ /\ SaveAccepted(login[l].key, login[l].rec)
          /\ peers' = Put(peers, login[l].key, login[l].rec)
          /\ login' = [login EXCEPT ![l] = [pc |-> "finish", key |-> login[l].key,
                                            sk |-> login[l].sk, rec |-> login[l].rec]]
       \/ /\ ~SaveAccepted(login[l].key, login[l].rec) \/ StoreMayFail
          /\ login' = [login EXCEPT ![l] = Idle]
          /\ UNCHANGED peers
    /\ UNCHANGED <<keyState, used, next, leased, deleter, saver, nextId, restarts>>

(* Count the use of the setup key (a failure is only logged), notify the    *)
(* open Sync streams, issue the token and answer.                           *)
LoginFinish(l) ==
    /\ login[l].pc = "finish"
    /\ \/ IncrementSetupKeyUsage(login[l].sk)
       \/ StoreMayFail /\ UNCHANGED used
    /\ login' = [login EXCEPT ![l] = Idle]
    /\ UNCHANGED <<peers, keyState, next, leased, deleter, saver, nextId, restarts>>

-----------------------------------------------------------------------------
(* DELETE /peers/:key *)

DeleteStart(d, key) ==
    /\ deleter[d] = Idle
    /\ key \in DOMAIN peers
    /\ deleter' = [deleter EXCEPT ![d] = [pc |-> "delete", key |-> key]]
    /\ UNCHANGED <<peers, keyState, used, next, leased, login, saver, nextId, restarts>>

DeletePeer(d) ==
    /\ deleter[d].pc = "delete"
    /\ \/ /\ peers' = Drop(peers, deleter[d].key)
          /\ deleter' = [deleter EXCEPT ![d] = [pc |-> "release", key |-> deleter[d].key]]
       \/ /\ StoreMayFail
          /\ deleter' = [deleter EXCEPT ![d] = Idle]
          /\ UNCHANGED peers
    /\ UNCHANGED <<keyState, used, next, leased, login, saver, nextId, restarts>>

(* Revoke the device's tokens and release its address. *)
DeleteRelease(d) ==
    /\ deleter[d].pc = "release"
    /\ Release(deleter[d].key)
    /\ deleter' = [deleter EXCEPT ![d] = Idle]
    /\ UNCHANGED <<peers, keyState, used, next, login, saver, nextId, restarts>>

-----------------------------------------------------------------------------
(* The handlers that read a peer record and write it back with other fields *)
(* changed: touchLastSeen, the PublicIP update of Sync, UpdatePeerMeta,     *)
(* resolveCountryAsync, updatePeer, setPeerRoutes and setPeerExitNode.      *)

SaverRead(s, key) ==
    /\ saver[s] = Idle
    /\ key \in DOMAIN peers
    /\ saver' = [saver EXCEPT ![s] = [pc |-> "save", key |-> key, rec |-> peers[key]]]
    /\ UNCHANGED <<peers, keyState, used, next, leased, login, deleter, nextId, restarts>>

(* A handler may also give up after the read (bad request, stale country). *)
SaverSave(s) ==
    /\ saver[s].pc = "save"
    /\ \/ /\ SaveAccepted(saver[s].key, saver[s].rec)
          /\ peers' = Put(peers, saver[s].key, saver[s].rec)
       \/ UNCHANGED peers
    /\ saver' = [saver EXCEPT ![s] = Idle]
    /\ UNCHANGED <<keyState, used, next, leased, login, deleter, nextId, restarts>>

-----------------------------------------------------------------------------
(* Setup keys *)

(* POST /setup-keys: the secret is a fresh UUID. *)
CreateSetupKey(sk) ==
    /\ keyState[sk] = "none"
    /\ keyState' = [keyState EXCEPT ![sk] = "valid"]
    /\ UNCHANGED <<peers, used, next, leased, login, deleter, saver, nextId, restarts>>

(* DELETE /setup-keys/:id removes the row, its UsedCount with it. *)
DeleteSetupKey(sk) ==
    /\ sk \in EndingKeys /\ keyState[sk] \in {"valid", "expired"}
    /\ keyState' = [keyState EXCEPT ![sk] = "deleted"]
    /\ used' = used \ {sk}
    /\ UNCHANGED <<peers, next, leased, login, deleter, saver, nextId, restarts>>

(* ExpiresAt passes. *)
ExpireSetupKey(sk) ==
    /\ sk \in EndingKeys /\ keyState[sk] = "valid"
    /\ keyState' = [keyState EXCEPT ![sk] = "expired"]
    /\ UNCHANGED <<peers, used, next, leased, login, deleter, saver, nextId, restarts>>

-----------------------------------------------------------------------------
(* The server process dies, at any point of any handler, and starts again. *)

(* postgres.Seed creates the default setup key if its row is missing; the   *)
(* in-memory store starts with that key and nothing else.                   *)
SeedSetupKeys ==
    /\ keyState' = [sk \in SetupKeys |->
                      IF sk = DefaultKey
                      THEN IF Durable /\ keyState[sk] = "expired" THEN "expired" ELSE "valid"
                      ELSE IF ~Durable /\ keyState[sk] # "none" THEN "deleted" ELSE keyState[sk]]
    /\ used' = IF Durable THEN used ELSE {}

(* What GetAllPeers gives the IPAM: after an error, which is only logged,   *)
(* nothing.                                                                 *)
Listed(ps) == IF PreloadMayFail THEN {ps, EmptyMap} ELSE {ps}

Restart ==
    /\ restarts < MaxRestarts
    /\ restarts' = restarts + 1
    /\ peers' = IF Durable THEN peers ELSE EmptyMap
    /\ SeedSetupKeys
    /\ \E listed \in Listed(peers') : PreloadPeers(listed)
    /\ login' = [l \in Logins |-> Idle]
    /\ deleter' = [d \in Deleters |-> Idle]
    /\ saver' = [s \in Savers |-> Idle]
    /\ UNCHANGED nextId

-----------------------------------------------------------------------------
Init ==
    /\ peers = EmptyMap
    /\ keyState = [sk \in SetupKeys |-> IF sk = DefaultKey THEN "valid" ELSE "none"]
    /\ used = {}
    /\ next = Base + 1
    /\ leased = EmptyMap
    /\ login = [l \in Logins |-> Idle]
    /\ deleter = [d \in Deleters |-> Idle]
    /\ saver = [s \in Savers |-> Idle]
    /\ nextId = 1
    /\ restarts = 0

LoginStep(l) ==
    \/ \E key \in WGKeys, sk \in SetupKeys : LoginStart(l, key, sk)
    \/ LoginAllocate(l)
    \/ LoginLookup(l)
    \/ LoginSave(l)
    \/ LoginFinish(l)

DeleteStep(d) ==
    \/ \E key \in WGKeys : DeleteStart(d, key)
    \/ DeletePeer(d)
    \/ DeleteRelease(d)

SaverStep(s) ==
    \/ \E key \in WGKeys : SaverRead(s, key)
    \/ SaverSave(s)

SetupKeyStep(sk) ==
    \/ CreateSetupKey(sk)
    \/ DeleteSetupKey(sk)
    \/ ExpireSetupKey(sk)

Next ==
    \/ \E l \in Logins : LoginStep(l)
    \/ \E d \in Deleters : DeleteStep(d)
    \/ \E s \in Savers : SaverStep(s)
    \/ \E sk \in SetupKeys : SetupKeyStep(sk)
    \/ Restart

Spec == Init /\ [][Next]_vars

-----------------------------------------------------------------------------
(* Properties *)

(* Every variable keeps its type.  In particular every address handed out   *)
(* by IPAM.Allocate is a host address: never the network or the broadcast   *)
(* address of the CIDR.                                                     *)
TypeOK ==
    /\ IsMap(peers, WGKeys, PeerRecords)
    /\ keyState \in [SetupKeys -> KeyStates]
    /\ used \subseteq Ephemeral
    /\ next \in (Base + 1) .. Broadcast
    /\ IsMap(leased, WGKeys, Addresses)
    /\ login \in [Logins -> LoginStates]
    /\ deleter \in [Deleters -> DeleterStates]
    /\ saver \in [Savers -> SaverStates]
    /\ nextId \in Nat
    /\ restarts \in Nat

(* Two stored devices never have the same mesh address, whatever Login,     *)
(* deletePeer, a stale write-back and a restart do to each other: IPAM.next *)
(* never goes back below an address that some record, lease or call in      *)
(* flight still carries.                                                    *)
UniqueIPs ==
    \A j, k \in DOMAIN peers : peers[j].ip = peers[k].ip => j = k

(* A Login or a write-back in flight is about to store a for device k. *)
Claims(call, k, a) ==
    call.pc \in {"lookup", "save", "finish"} /\ call.key = k /\ call.rec.ip = a

(* The address a belongs to device k: by its lease, by its record, or as a  *)
(* local variable of a Login or of a write-back in flight.                  *)
Holds(k, a) ==
    \/ k \in DOMAIN leased /\ leased[k] = a
    \/ k \in DOMAIN peers /\ peers[k].ip = a
    \/ \E l \in Logins : Claims(login[l], k, a)
    \/ \E s \in Savers : Claims(saver[s], k, a)

(* UniqueIPs made inductive: leases, records and calls in flight together   *)
(* give an address to one device only, and IPAM.next is above all of them.  *)
AddressOwned ==
    \A k \in WGKeys, a \in Addresses :
        Holds(k, a) => a < next /\ \A j \in WGKeys : Holds(j, a) => j = k

Book == INSTANCE AddressBook
        WITH Devices <- WGKeys, Pool <- Addresses,
             claims <- {c \in WGKeys \X Addresses : Holds(c[1], c[2])}

(* Login, deletePeer, the write-backs and the preload together implement    *)
(* AddressBook: one step never grants an address that another device may    *)
(* still claim, by a lease, a record or a call in flight, nor two at once.  *)
ImplementsAddressBook == Book!Spec

(* While a device's record exists its ID does not change: a Login that      *)
(* missed the record (a concurrent first Login, a failed GetPeer) cannot    *)
(* overwrite it under a new ID.                                             *)
StableId ==
    [][\A k \in (DOMAIN peers) \cap (DOMAIN peers') : peers'[k].id = peers[k].id]_vars

(* Re-enrollment keeps the address of the record it replaces.               *)
StableIP ==
    [][\A k \in (DOMAIN peers) \cap (DOMAIN peers') : peers'[k].ip = peers[k].ip]_vars

(* An ephemeral setup key is refused once it has been used: no record is    *)
(* saved by a Login whose ephemeral key already has UsedCount > 0.          *)
EphemeralOnce ==
    [][\A l \in Logins : login[l].pc = "save" /\ login'[l].pc = "finish"
                           => ~(login[l].sk \in Ephemeral \cap used)]_vars
=============================================================================
