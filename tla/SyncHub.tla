------------------------------ MODULE SyncHub -------------------------------
(***************************************************************************)
(* The push side of the management server: Sync streams, their             *)
(* subscriptions, and the handlers that change what a Sync answer contains *)
(* and notify the subscribers.                                             *)
(*                                                                         *)
(* What the store holds is abstracted to two version numbers, one for the  *)
(* peer records and one for the access rules: a Sync answer is the pair of *)
(* versions it was built from.  Each Sync call is a goroutine of its own;  *)
(* the steps of a call are its store reads, the critical sections on       *)
(* subsMu and the operations on its stream and its channel.                *)
(*                                                                         *)
(* A stream has two ends.  An agent opens its next stream once it has lost *)
(* the previous one (`alive`).  The server learns of the loss later, when  *)
(* the transport closes or its keepalive ping goes unanswered (`ctxDone`). *)
(***************************************************************************)
EXTENDS Integers, GoMaps

CONSTANTS
    Keys,       \* WireGuard public keys of the devices that sync
    Calls,      \* distinguishes the Sync calls of one device
    Mutators,   \* goroutines serving handlers that change records or rules
    Overlap,    \* TRUE: a device's next Sync may start before the handler of
                \* its previous one has returned
    MaxVersion  \* bound: changes of the store

ASSUME OverlapAssumption == Overlap \in BOOLEAN

ASSUME VersionAssumption == MaxVersion \in Nat

VARIABLES
    version,    \* store: "peers" and "rules" -> version
    notified,   \* the newest version of each whose notifyAll has run
    subs,       \* Server.subs: WireGuard key -> Sync call
    pc,         \* where each Sync call is; "free": no call
    got,        \* the versions each call has read
    token,      \* sub.ch, capacity 1: TRUE when it holds an element
    alive,      \* the agent still reads the stream
    ctxDone,    \* stream.Context().Done() on the server
    mutator     \* locals of the handlers that change the store

vars == <<version, notified, subs, pc, got, token, alive, ctxDone, mutator>>

Kinds == {"peers", "rules"}

Versions == [Kinds -> Nat]

Nothing == [k \in Kinds |-> 0]

Idle == [pc |-> "idle"]

MutatorStates == {Idle} \cup [pc : {"notify"}, kind : Kinds, version : Nat]

(* A Sync call: the device, which is req.WgPubKey, and the call. *)
Streams == Keys \X Calls

KeyOf(s) == s[1]

Open(s) == pc[s] # "free"

-----------------------------------------------------------------------------
(* Plausible faults of the operations below, to show that the properties    *)
(* notice them.                                                             *)

(* an unbuffered channel: a notification is lost unless the call waits *)
NotifyWaitingOnly(s) == token[s] \/ (pc[s] = "wait" /\ \E k \in DOMAIN subs : subs[k] = s)

(* subscribe after the first answer instead of before it *)
RegisterWithoutSub(s) ==
    /\ pc[s] = "register"
    /\ pc' = [pc EXCEPT ![s] = "readPeers"]
    /\ UNCHANGED <<version, notified, subs, got, token, alive, ctxDone, mutator>>

(* the deferred cleanup forgets the subscription *)
UnregisterNothing(s) ==
    /\ pc[s] = "unregister"
    /\ pc' = [pc EXCEPT ![s] = "notify"]
    /\ UNCHANGED <<version, notified, subs, got, token, alive, ctxDone, mutator>>

-----------------------------------------------------------------------------
(* notifyAll: under subsMu, put a token into the channel of every           *)
(* subscription unless there is one already.                                *)
Notified(s) == token[s] \/ \E k \in DOMAIN subs : subs[k] = s

-----------------------------------------------------------------------------
(* The agent's end *)

(* An agent opens a Sync stream; GetPeer finds its record. *)
OpenStream(s) ==
    /\ ~Open(s)
    /\ \A t \in Streams : Open(t) /\ KeyOf(t) = KeyOf(s) => ~alive[t] /\ Overlap
    /\ pc' = [pc EXCEPT ![s] = "register"]
    /\ alive' = [alive EXCEPT ![s] = TRUE]
    /\ UNCHANGED <<version, notified, subs, got, token, ctxDone, mutator>>

(* The agent stops, or its end of the connection fails. *)
LoseStream(s) ==
    /\ Open(s) /\ alive[s]
    /\ alive' = [alive EXCEPT ![s] = FALSE]
    /\ UNCHANGED <<version, notified, subs, pc, got, token, ctxDone, mutator>>

(* The server notices: the connection was reset, or the keepalive timed out. *)
CancelContext(s) ==
    /\ Open(s) /\ ~alive[s] /\ ~ctxDone[s]
    /\ ctxDone' = [ctxDone EXCEPT ![s] = TRUE]
    /\ UNCHANGED <<version, notified, subs, pc, got, token, alive, mutator>>

-----------------------------------------------------------------------------
(* The Sync handler *)

(* registerSub overwrites the key's entry.  The touchLastSeen and PublicIP  *)
(* writes that follow change no version: they are not pushed.               *)
Register(s) ==
    /\ pc[s] = "register"
    /\ subs' = Put(subs, KeyOf(s), s)
    /\ pc' = [pc EXCEPT ![s] = "readPeers"]
    /\ UNCHANGED <<version, notified, got, token, alive, ctxDone, mutator>>

(* A store read may fail, the Send once the stream's context is done; the   *)
(* handler returns.                                                         *)
GiveUp(s) ==
    /\ pc[s] \in {"readPeers", "readRules", "send"}
    /\ pc[s] = "send" => ctxDone[s]
    /\ pc' = [pc EXCEPT ![s] = "unregister"]
    /\ UNCHANGED <<version, notified, subs, got, token, alive, ctxDone, mutator>>

(* The two reads of send(): a change of the store can fall between them. *)
Read(s, from, kind, to) ==
    /\ pc[s] = from
    /\ got' = [got EXCEPT ![s] = [got[s] EXCEPT ![kind] = version[kind]]]
    /\ pc' = [pc EXCEPT ![s] = to]
    /\ UNCHANGED <<version, notified, subs, token, alive, ctxDone, mutator>>

ReadPeers(s) == Read(s, "readPeers", "peers", "readRules")

ReadRules(s) == Read(s, "readRules", "rules", "send")

(* The answer is on the stream: at "wait" the agent has `got`. *)
SendResponse(s) ==
    /\ pc[s] = "send"
    /\ pc' = [pc EXCEPT ![s] = "wait"]
    /\ UNCHANGED <<version, notified, subs, got, token, alive, ctxDone, mutator>>

(* select: a token starts the next answer, a done context ends the call. *)
Wait(s) ==
    /\ pc[s] = "wait"
    /\ \/ /\ token[s]
          /\ token' = [token EXCEPT ![s] = FALSE]
          /\ pc' = [pc EXCEPT ![s] = "readPeers"]
       \/ /\ ctxDone[s]
          /\ pc' = [pc EXCEPT ![s] = "unregister"]
          /\ UNCHANGED token
    /\ UNCHANGED <<version, notified, subs, got, alive, ctxDone, mutator>>

(* The deferred function: unregisterSub deletes whatever subscription the   *)
(* key has, then the other streams are notified and the call is over.       *)
Unregister(s) ==
    /\ pc[s] = "unregister"
    /\ subs' = Drop(subs, KeyOf(s))
    /\ pc' = [pc EXCEPT ![s] = "notify"]
    /\ UNCHANGED <<version, notified, got, token, alive, ctxDone, mutator>>

Return(s) ==
    /\ pc[s] = "notify"
    /\ token' = [t \in Streams |-> t # s /\ Notified(t)]
    /\ pc' = [pc EXCEPT ![s] = "free"]
    /\ got' = [got EXCEPT ![s] = Nothing]           \* the call's locals are gone
    /\ alive' = [alive EXCEPT ![s] = FALSE]
    /\ ctxDone' = [ctxDone EXCEPT ![s] = FALSE]
    /\ UNCHANGED <<version, notified, subs, mutator>>

-----------------------------------------------------------------------------
(* Handlers that change records or rules *)

(* Login, updatePeer, setPeerRoutes, setPeerExitNode, createRule,           *)
(* updateRule, deleteRule: a store write, then notifyAll.                   *)
Change(m, kind) ==
    /\ mutator[m] = Idle
    /\ version[kind] < MaxVersion
    /\ version' = [version EXCEPT ![kind] = @ + 1]
    /\ mutator' = [mutator EXCEPT ![m] = [pc |-> "notify", kind |-> kind,
                                          version |-> version[kind] + 1]]
    /\ UNCHANGED <<notified, subs, pc, got, token, alive, ctxDone>>

(* deletePeer, UpdatePeerMeta, the PublicIP and Country updates: a store    *)
(* write that nobody is notified of.                                        *)
ChangeSilently(m) ==
    /\ mutator[m] = Idle
    /\ version["peers"] < MaxVersion
    /\ version' = [version EXCEPT !["peers"] = @ + 1]
    /\ UNCHANGED <<notified, subs, pc, got, token, alive, ctxDone, mutator>>

Notify(m) ==
    /\ mutator[m].pc = "notify"
    /\ token' = [s \in Streams |-> Notified(s)]
    /\ notified' = [notified EXCEPT ![mutator[m].kind] =
                      IF @ < mutator[m].version THEN mutator[m].version ELSE @]
    /\ mutator' = [mutator EXCEPT ![m] = Idle]
    /\ UNCHANGED <<version, subs, pc, got, alive, ctxDone>>

-----------------------------------------------------------------------------
Init ==
    /\ version = Nothing
    /\ notified = Nothing
    /\ subs = EmptyMap
    /\ pc = [s \in Streams |-> "free"]
    /\ got = [s \in Streams |-> Nothing]
    /\ token = [s \in Streams |-> FALSE]
    /\ alive = [s \in Streams |-> FALSE]
    /\ ctxDone = [s \in Streams |-> FALSE]
    /\ mutator = [m \in Mutators |-> Idle]

(* What the goroutine of a Sync call does by itself. *)
SyncStep(s) ==
    \/ Register(s)
    \/ GiveUp(s)
    \/ ReadPeers(s)
    \/ ReadRules(s)
    \/ SendResponse(s)
    \/ Wait(s)
    \/ Unregister(s)
    \/ Return(s)

AgentStep(s) ==
    \/ OpenStream(s)
    \/ LoseStream(s)

MutatorStep(m) ==
    \/ \E kind \in Kinds : Change(m, kind)
    \/ ChangeSilently(m)
    \/ Notify(m)

Next ==
    \/ \E s \in Streams : SyncStep(s) \/ AgentStep(s) \/ CancelContext(s)
    \/ \E m \in Mutators : MutatorStep(m)

(* Goroutines that can run do run, and the keepalive of the gRPC server     *)
(* (30s ping, 10s timeout) notices a lost stream.  Agents and operators     *)
(* need not do anything.                                                    *)
Fairness ==
    /\ \A s \in Streams : WF_vars(SyncStep(s)) /\ WF_vars(CancelContext(s))
    /\ \A m \in Mutators : WF_vars(Notify(m))

Spec == Init /\ [][Next]_vars /\ Fairness

-----------------------------------------------------------------------------
(* Properties *)

(* Every variable keeps its type.  In particular Server.subs holds Sync     *)
(* calls under WireGuard keys, which is what notifyAll and ConnectedKeys    *)
(* take it for.                                                             *)
TypeOK ==
    /\ version \in Versions
    /\ notified \in Versions
    /\ IsMap(subs, Keys, Streams)
    /\ pc \in [Streams -> {"free", "register", "readPeers", "readRules", "send", "wait",
                           "unregister", "notify"}]
    /\ got \in [Streams -> Versions]
    /\ token \in [Streams -> BOOLEAN]
    /\ alive \in [Streams -> BOOLEAN]
    /\ ctxDone \in [Streams -> BOOLEAN]
    /\ mutator \in [Mutators -> MutatorStates]

(* The kinds a call has read for the answer it is building or has sent. *)
HasRead(s, kind) ==
    \/ pc[s] \in {"send", "wait"}
    \/ pc[s] = "readRules" /\ kind = "peers"

(* No wake-up is lost between the store, the capacity-1 channels and the    *)
(* two reads: a subscribed call that already read a kind of data either has *)
(* the newest notified version of it or finds a token when it next waits.   *)
NoLostWakeup ==
    \A k \in DOMAIN subs, kind \in Kinds :
        HasRead(subs[k], kind) => token[subs[k]] \/ got[subs[k]][kind] >= notified[kind]

(* ConnectedKeys is "the set of WireGuard public keys with an active Sync   *)
(* stream": a stream that both ends are serving is in it, as that stream.   *)
Connected(s) == pc[s] \in {"readPeers", "readRules", "send", "wait"} /\ alive[s]

ConnectedExact ==
    /\ \A s \in Streams : Connected(s) => KeyOf(s) \in DOMAIN subs /\ subs[KeyOf(s)] = s
    /\ \A k \in DOMAIN subs : Open(subs[k]) /\ KeyOf(subs[k]) = k

(* Every change that was notified reaches every stream that stays open: the *)
(* agent gets an answer built from that version or a newer one.             *)
ChangesArePushed ==
    \A s \in Streams, kind \in Kinds, v \in 1 .. MaxVersion :
        (Connected(s) /\ notified[kind] >= v)
            ~> (~alive[s] \/ (pc[s] = "wait" /\ got[s][kind] >= v))
=============================================================================
