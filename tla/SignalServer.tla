---------------------------- MODULE SignalServer ----------------------------
(***************************************************************************)
(* The signal server: one handler goroutine per bidirectional stream       *)
(* registers the agent, delivers what was held for it, and routes each     *)
(* message of the agent to the stream of the addressed peer, or holds it   *)
(* for a while when that peer is not registered.                           *)
(*                                                                         *)
(* The steps of a handler are its critical sections on Server.mu and its   *)
(* (serialised) sends on a stream.  Message bodies are reduced to what the *)
(* server looks at: signaling or relayed data.  The age of a held queue is *)
(* reduced to whether it is within pendingTTL of its newest message.       *)
(***************************************************************************)
EXTENDS Integers, Sequences, GoMaps

CONSTANTS
    Keys,           \* WireGuard public keys of the agents
    Calls,          \* distinguishes the streams of one agent
    PendingPerPeer, \* pendingPerPeer
    InOrder,        \* TRUE: an agent's next stream opens only after the server
                    \* has handled the registration on its previous one
    MaxMessages     \* bound: messages the agents send

ASSUME PendingAssumption == PendingPerPeer \in Nat \ {0}

ASSUME OrderAssumption == InOrder \in BOOLEAN

ASSUME MessagesAssumption == MaxMessages \in Nat

VARIABLES
    streams,    \* Server.streams: WireGuard key -> stream
    pending,    \* Server.pending: WireGuard key -> [msgs, fresh]
    pc,         \* where each handler is; "free": no handler
    local,      \* the messages a handler has in hand
    target,     \* the stream a handler is about to send to
    alive,      \* the agent still reads and writes the stream
    inbox,      \* what each agent has received, over all its streams
    sent        \* messages the agents have sent so far

vars == <<streams, pending, pc, local, target, alive, inbox, sent>>

(* A stream: the agent, whose key the server has verified, and the call. *)
Streams == Keys \X Calls

KeyOf(s) == s[1]

Messages == [id : 1 .. MaxMessages, to : Keys, type : {"signal", "relay"}]

Open(s) == pc[s] # "free"

(* peerKey is set and the deferred function has not run. *)
Registered(s) == pc[s] \notin {"free", "register"}

Goto(s, label) == pc' = [pc EXCEPT ![s] = label]

(* peerStream.send: a stream whose agent is gone takes the message and      *)
(* loses it, or returns an error that is only logged.                       *)
Deliver(s, m) ==
    inbox' = IF alive[s] THEN [inbox EXCEPT ![KeyOf(s)] = Append(@, m)] ELSE inbox

-----------------------------------------------------------------------------
(* Plausible faults of the operations below, to show that the properties    *)
(* notice them.                                                             *)

(* unregister without comparing the entry with self *)
DropAnyStream(s) == Drop(streams, KeyOf(s))

(* the held queue is handed over but stays *)
KeepPending(k) == pending

(* the cap compared with > *)
HoldOneMore(msgs, m) ==
    IF Len(msgs) > PendingPerPeer THEN Append(Tail(msgs), m) ELSE Append(msgs, m)

(* the delivery loop begins with the second message *)
DeliverAllButFirst(s) ==
    /\ pc[s] = "deliver"
    /\ \/ /\ Len(local[s]) > 1
          /\ Deliver(s, local[s][2])
          /\ local' = [local EXCEPT ![s] = Tail(local[s])]
          /\ UNCHANGED pc
       \/ /\ Len(local[s]) <= 1
          /\ local' = [local EXCEPT ![s] = <<>>]
          /\ Goto(s, "recv")
          /\ UNCHANGED inbox
    /\ UNCHANGED <<streams, pending, target, alive, sent>>

-----------------------------------------------------------------------------
(* pending *)

(* takePendingLocked: the queue leaves the map; an expired one is not       *)
(* delivered.                                                               *)
TakePending(k) == Drop(pending, k)

TakenMessages(k) ==
    IF k \in DOMAIN pending /\ pending[k].fresh THEN pending[k].msgs ELSE <<>>

(* expirePendingLocked *)
Unexpired == [k \in {j \in DOMAIN pending : pending[j].fresh} |-> pending[k]]

(* The newest messages are kept. *)
Hold(msgs, m) ==
    IF Len(msgs) >= PendingPerPeer THEN Append(Tail(msgs), m) ELSE Append(msgs, m)

(* handleAbsentTarget drops relayed data. *)
Holdable(m) == m.type # "relay"

(* The entries left when the handler of s returns: its own is removed, one  *)
(* that a newer stream of the agent has put there stays.                    *)
WithoutSelf(s) ==
    IF KeyOf(s) \in DOMAIN streams /\ streams[KeyOf(s)] = s THEN Drop(streams, KeyOf(s)) ELSE streams

-----------------------------------------------------------------------------
(* Agents *)

(* An agent opens a stream after losing its previous one, of which the      *)
(* server may not know yet.                                                 *)
OpenStream(s) ==
    /\ ~Open(s)
    /\ \A t \in Streams : Open(t) /\ KeyOf(t) = KeyOf(s) =>
           ~alive[t] /\ (InOrder => Registered(t))
    /\ Goto(s, "register")
    /\ alive' = [alive EXCEPT ![s] = TRUE]
    /\ UNCHANGED <<streams, pending, local, target, inbox, sent>>

LoseStream(s) ==
    /\ Open(s) /\ alive[s]
    /\ alive' = [alive EXCEPT ![s] = FALSE]
    /\ UNCHANGED <<streams, pending, pc, local, target, inbox, sent>>

(* More than pendingTTL since the newest message was queued for k. *)
Expire(k) ==
    /\ k \in DOMAIN pending /\ pending[k].fresh
    /\ pending' = [pending EXCEPT ![k] = [msgs |-> pending[k].msgs, fresh |-> FALSE]]
    /\ UNCHANGED <<streams, pc, local, target, alive, inbox, sent>>

-----------------------------------------------------------------------------
(* The handler *)

(* The first message names the agent (a message to a peer in the same       *)
(* envelope is as good as one that follows).  Registering replaces an older *)
(* stream and takes what was held, in one critical section.                 *)
Register(s) ==
    /\ pc[s] = "register"
    /\ streams' = Put(streams, KeyOf(s), s)
    /\ pending' = TakePending(KeyOf(s))
    /\ local' = [local EXCEPT ![s] = TakenMessages(KeyOf(s))]
    /\ Goto(s, "deliver")
    /\ UNCHANGED <<target, alive, inbox, sent>>

(* One held message after the other; the first error drops the rest. *)
DeliverHeld(s) ==
    /\ pc[s] = "deliver"
    /\ \/ /\ local[s] # <<>>
          /\ Deliver(s, Head(local[s]))
          /\ \/ local' = [local EXCEPT ![s] = Tail(local[s])]
             \/ ~alive[s] /\ local' = [local EXCEPT ![s] = <<>>]
          /\ UNCHANGED pc
       \/ /\ local[s] = <<>>
          /\ Goto(s, "recv")
          /\ UNCHANGED <<local, inbox>>
    /\ UNCHANGED <<streams, pending, target, alive, sent>>

(* Recv returns a message to a peer; the agent may have lost the stream     *)
(* since it sent it.                                                        *)
Receive(s, to, type) ==
    /\ pc[s] = "recv"
    /\ sent < MaxMessages
    /\ sent' = sent + 1
    /\ local' = [local EXCEPT ![s] = <<[id |-> sent + 1, to |-> to, type |-> type]>>]
    /\ Goto(s, "route")
    /\ UNCHANGED <<streams, pending, target, alive, inbox>>

(* The read lock covers the lookup only. *)
Route(s) ==
    /\ pc[s] = "route"
    /\ LET to == local[s][1].to
       IN  \/ /\ to \in DOMAIN streams
              /\ target' = [target EXCEPT ![s] = streams[to]]
              /\ Goto(s, "forward")
           \/ /\ to \notin DOMAIN streams
              /\ Goto(s, "absent")
              /\ UNCHANGED target
    /\ UNCHANGED <<streams, pending, local, alive, inbox, sent>>

Forward(s) ==
    /\ pc[s] = "forward"
    /\ Deliver(target[s], local[s][1])
    /\ local' = [local EXCEPT ![s] = <<>>]
    /\ Goto(s, "recv")
    /\ UNCHANGED <<streams, pending, target, alive, sent>>

HandleAbsentTarget(s) ==
    /\ pc[s] = "absent"
    /\ LET m == local[s][1]
           held == IF m.to \in DOMAIN Unexpired THEN Unexpired[m.to].msgs ELSE <<>>
       IN  \/ /\ ~Holdable(m)
              /\ UNCHANGED pending
           \/ /\ Holdable(m)
              /\ pending' = Put(Unexpired, m.to, [msgs |-> Hold(held, m), fresh |-> TRUE])
    /\ local' = [local EXCEPT ![s] = <<>>]
    /\ Goto(s, "recv")
    /\ UNCHANGED <<streams, target, alive, inbox, sent>>

(* Recv fails; the deferred function removes the handler's own entry. *)
Return(s) ==
    /\ pc[s] \in {"register", "recv"} /\ ~alive[s]
    /\ streams' = IF Registered(s) THEN WithoutSelf(s) ELSE streams
    /\ Goto(s, "free")
    /\ target' = [target EXCEPT ![s] = s]           \* the handler's locals are gone
    /\ UNCHANGED <<pending, local, alive, inbox, sent>>

-----------------------------------------------------------------------------
Init ==
    /\ streams = EmptyMap
    /\ pending = EmptyMap
    /\ pc = [s \in Streams |-> "free"]
    /\ local = [s \in Streams |-> <<>>]
    /\ target = [s \in Streams |-> s]
    /\ alive = [s \in Streams |-> FALSE]
    /\ inbox = [k \in Keys |-> <<>>]
    /\ sent = 0

HandlerStep(s) ==
    \/ Register(s)
    \/ DeliverHeld(s)
    \/ Route(s)
    \/ Forward(s)
    \/ HandleAbsentTarget(s)
    \/ Return(s)

AgentStep(s) ==
    \/ OpenStream(s)
    \/ LoseStream(s)
    \/ \E to \in Keys \ {KeyOf(s)}, type \in {"signal", "relay"} : Receive(s, to, type)

Next ==
    \/ \E s \in Streams : HandlerStep(s) \/ AgentStep(s)
    \/ \E k \in Keys : Expire(k)

Spec == Init /\ [][Next]_vars

-----------------------------------------------------------------------------
(* Properties *)

(* Every variable keeps its type.  In particular a handler of Send never    *)
(* goes on to forward a message without a stream to forward it to.          *)
TypeOK ==
    /\ IsMap(streams, Keys, Streams)
    /\ IsMap(pending, Keys, [msgs : Seq(Messages), fresh : BOOLEAN])
    /\ pc \in [Streams -> {"free", "register", "deliver", "recv", "route", "forward", "absent"}]
    /\ local \in [Streams -> Seq(Messages)]
    /\ target \in [Streams -> Streams]
    /\ alive \in [Streams -> BOOLEAN]
    /\ inbox \in [Keys -> Seq(Messages)]
    /\ sent \in 0 .. MaxMessages

(* The stream an agent is using stays the one its messages are routed to,   *)
(* however late the handler of its previous stream returns.                 *)
CurrentStreamRouted ==
    \A s \in Streams : Registered(s) /\ alive[s] =>
        KeyOf(s) \in DOMAIN streams /\ streams[KeyOf(s)] = s

(* A message is delivered at most once, also when it was held while its     *)
(* target reconnected, possibly more than once.                             *)
DeliveredOnce ==
    \A k \in Keys : \A i, j \in DOMAIN inbox[k] : inbox[k][i] = inbox[k][j] => i = j

(* Held signaling is bounded and never includes relayed data.               *)
HeldBounded ==
    \A k \in DOMAIN pending :
        /\ Len(pending[k].msgs) \in 1 .. PendingPerPeer
        /\ \A i \in DOMAIN pending[k].msgs : pending[k].msgs[i].type = "signal"

(* Signaling that a reconnecting agent found held for it reaches the agent, *)
(* all of it, unless the agent goes away again: the handler of Send lets go *)
(* of a message it took from the queue only when the agent has it.          *)
HeldIsDelivered ==
    [][\A s \in Streams : pc[s] = "deliver" /\ alive[s] =>
          \A i \in DOMAIN local[s] :
              \/ \E j \in DOMAIN local'[s] : local'[s][j] = local[s][i]
              \/ \E j \in DOMAIN inbox'[KeyOf(s)] : inbox'[KeyOf(s)][j] = local[s][i]]_vars
=============================================================================
