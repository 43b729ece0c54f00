------------------------- MODULE SignalServerProofs -------------------------
(* Proofs about SignalServer, for any number of agents, streams and         *)
(* messages.                                                                *)
EXTENDS SignalServer, TLAPS

LEMMA StreamKey == \A s \in Streams : KeyOf(s) \in Keys
BY DEF Streams, KeyOf

(* A handler that routes has a message in hand. *)
InHand ==
    \A s \in Streams : pc[s] \in {"route", "forward", "absent"} => Len(local[s]) = 1

TypeInv == TypeOK /\ InHand

LEMMA TypeInit == Init => TypeInv
BY MessagesAssumption DEF Init, TypeInv, TypeOK, InHand, IsMap, EmptyMap

(* The message a routing handler has in hand. *)
LEMMA HandMessage ==
    ASSUME TypeInv, NEW s \in Streams, pc[s] \in {"route", "forward", "absent"}
    PROVE  local[s][1] \in Messages
<1>1. local[s] \in Seq(Messages) /\ Len(local[s]) = 1
  BY DEF TypeInv, TypeOK, InHand
<1>. QED
  BY <1>1

LEMMA DeliverType ==
    ASSUME TypeInv, NEW s \in Streams, NEW m \in Messages, Deliver(s, m)
    PROVE  inbox' \in [Keys -> Seq(Messages)]
BY StreamKey DEF Deliver, TypeInv, TypeOK

LEMMA HoldType ==
    ASSUME NEW msgs \in Seq(Messages), NEW m \in Messages
    PROVE  Hold(msgs, m) \in Seq(Messages)
<1>1. CASE Len(msgs) >= PendingPerPeer
  <2>1. msgs # <<>>
    BY <1>1, PendingAssumption
  <2>2. Tail(msgs) \in Seq(Messages)
    BY <2>1
  <2>. QED
    BY <2>2, <1>1 DEF Hold
<1>2. CASE ~(Len(msgs) >= PendingPerPeer)
  BY <1>2 DEF Hold
<1>. QED
  BY <1>1, <1>2

LEMMA TypeHandler ==
    ASSUME TypeInv, NEW s \in Streams, HandlerStep(s)
    PROVE  TypeInv'
<1>. USE StreamKey DEF Goto
<1>. DEFINE Held == [msgs : Seq(Messages), fresh : BOOLEAN]
<1>1. CASE Register(s)
  <2>1. IsMap(pending', Keys, Held)
    BY <1>1 DEF Register, TakePending, Drop, TypeInv, TypeOK, IsMap
  <2>2. TakenMessages(KeyOf(s)) \in Seq(Messages)
    BY DEF TakenMessages, TypeInv, TypeOK, IsMap
  <2>3. IsMap(streams', Keys, Streams)
    BY <1>1 DEF Register, Put, TypeInv, TypeOK, IsMap
  <2>. QED
    BY <1>1, <2>1, <2>2, <2>3 DEF Register, TypeInv, TypeOK, InHand
<1>2. CASE DeliverHeld(s)
  <2>0. local[s] \in Seq(Messages)
    BY DEF TypeInv, TypeOK
  <2>1. CASE local[s] # <<>>
    <3>1. Head(local[s]) \in Messages /\ Tail(local[s]) \in Seq(Messages)
      BY <2>0, <2>1
    <3>2. inbox' \in [Keys -> Seq(Messages)]
      BY <1>2, <2>1, <3>1, DeliverType DEF DeliverHeld
    <3>3. /\ local' = [local EXCEPT ![s] = Tail(local[s])] \/ local' = [local EXCEPT ![s] = <<>>]
          /\ UNCHANGED <<streams, pending, pc, target, alive, sent>>
          /\ pc[s] = "deliver"
      BY <1>2, <2>1 DEF DeliverHeld
    <3>6. << >> \in Seq(Messages)
      OBVIOUS
    <3>7. PICK q \in Seq(Messages) : local' = [local EXCEPT ![s] = q]
      BY <3>1, <3>3, <3>6
    <3>4. /\ local' \in [Streams -> Seq(Messages)]
          /\ \A t \in Streams : t # s => local'[t] = local[t]
      BY <3>7 DEF TypeInv, TypeOK
    <3>5. InHand'
      BY <3>3, <3>4 DEF TypeInv, InHand
    <3>. QED
      BY <3>2, <3>3, <3>4, <3>5 DEF TypeInv, TypeOK, IsMap
  <2>2. CASE local[s] = <<>>
    BY <1>2, <2>2 DEF DeliverHeld, TypeInv, TypeOK, InHand, IsMap
  <2>. QED
    BY <2>1, <2>2
<1>3. CASE Route(s)
  <2>0. \A k \in DOMAIN streams : streams[k] \in Streams
    BY DEF TypeInv, TypeOK, IsMap
  <2>1. target' \in [Streams -> Streams]
    BY <1>3, <2>0 DEF Route, TypeInv, TypeOK
  <2>. QED
    BY <1>3, <2>1 DEF Route, TypeInv, TypeOK, InHand, IsMap
<1>4. CASE Forward(s)
  <2>1. local[s][1] \in Messages /\ target[s] \in Streams
    BY <1>4, HandMessage DEF Forward, TypeInv, TypeOK
  <2>2. inbox' \in [Keys -> Seq(Messages)]
    BY <1>4, <2>1, DeliverType DEF Forward
  <2>. QED
    BY <1>4, <2>2 DEF Forward, TypeInv, TypeOK, InHand, IsMap
<1>5. CASE HandleAbsentTarget(s)
  <2>. DEFINE m == local[s][1]
              held == IF m.to \in DOMAIN Unexpired THEN Unexpired[m.to].msgs ELSE <<>>
  <2>1. m \in Messages /\ m.to \in Keys
    BY <1>5, HandMessage DEF HandleAbsentTarget, Messages
  <2>2. IsMap(Unexpired, Keys, Held)
    BY DEF Unexpired, TypeInv, TypeOK, IsMap
  <2>3. held \in Seq(Messages)
    BY <2>2 DEF IsMap
  <2>4. [msgs |-> Hold(held, m), fresh |-> TRUE] \in Held
    BY <2>1, <2>3, HoldType
  <2>5. IsMap(Put(Unexpired, m.to, [msgs |-> Hold(held, m), fresh |-> TRUE]), Keys, Held)
    BY <2>1, <2>2, <2>4 DEF IsMap, Put
  <2>6. IsMap(pending', Keys, Held)
    BY <1>5, <2>5 DEF HandleAbsentTarget, TypeInv, TypeOK
  <2>. QED
    BY <1>5, <2>6 DEF HandleAbsentTarget, TypeInv, TypeOK, InHand, IsMap
<1>6. CASE Return(s)
  <2>1. IsMap(streams', Keys, Streams)
    BY <1>6 DEF Return, WithoutSelf, Drop, TypeInv, TypeOK, IsMap
  <2>. QED
    BY <1>6, <2>1 DEF Return, TypeInv, TypeOK, InHand, IsMap
<1>. QED
  BY <1>1, <1>2, <1>3, <1>4, <1>5, <1>6 DEF HandlerStep

LEMMA TypeAgent ==
    ASSUME TypeInv, NEW s \in Streams, AgentStep(s)
    PROVE  TypeInv'
<1>. USE DEF Goto
<1>1. CASE OpenStream(s)
  BY <1>1 DEF OpenStream, TypeInv, TypeOK, InHand, IsMap
<1>2. CASE LoseStream(s)
  BY <1>2 DEF LoseStream, TypeInv, TypeOK, InHand, IsMap
<1>3. ASSUME NEW to \in Keys, NEW type \in {"signal", "relay"}, Receive(s, to, type)
      PROVE  TypeInv'
  <2>. DEFINE m == [id |-> sent + 1, to |-> to, type |-> type]
  <2>1. m \in Messages /\ sent' \in 0 .. MaxMessages
    BY <1>3, MessagesAssumption DEF Receive, Messages, TypeInv, TypeOK
  <2>2. <<m>> \in Seq(Messages) /\ Len(<<m>>) = 1
    BY <2>1
  <2>. HIDE DEF m
  <2>3. local' = [local EXCEPT ![s] = <<m>>]
    BY <1>3 DEF Receive, m
  <2>. QED
    BY <1>3, <2>1, <2>2, <2>3 DEF Receive, TypeInv, TypeOK, InHand, IsMap
<1>. QED
  BY <1>1, <1>2, <1>3 DEF AgentStep

LEMMA TypeNext == TypeInv /\ [Next]_vars => TypeInv'
<1>. SUFFICES ASSUME TypeInv, [Next]_vars PROVE TypeInv'
  OBVIOUS
<1>1. ASSUME NEW k \in Keys, Expire(k)
      PROVE  TypeInv'
  <2>1. IsMap(pending', Keys, [msgs : Seq(Messages), fresh : BOOLEAN])
    BY <1>1 DEF Expire, TypeInv, TypeOK, IsMap
  <2>. QED
    BY <1>1, <2>1 DEF Expire, TypeInv, TypeOK, InHand, IsMap
<1>2. CASE UNCHANGED vars
  BY <1>2 DEF vars, TypeInv, TypeOK, InHand, IsMap
<1>. QED
  BY <1>1, <1>2, TypeHandler, TypeAgent DEF Next

(* Every variable of the signal server keeps its type. *)
THEOREM TypeCorrect == Spec => []TypeOK
<1>1. TypeInv => TypeOK
  BY DEF TypeInv
<1>. QED
  BY <1>1, TypeInit, TypeNext, PTL DEF Spec

-----------------------------------------------------------------------------
(* Next to the stream an agent is using, every other stream of that agent   *)
(* that the server still serves is dead and already registered: it can only *)
(* return, and returning it leaves the entry of the other stream alone.     *)
OthersAreLeftovers ==
    \A s, t \in Streams :
        Open(s) /\ alive[s] /\ Open(t) /\ KeyOf(t) = KeyOf(s) /\ t # s
            => ~alive[t] /\ Registered(t)

RouteInv == OthersAreLeftovers /\ CurrentStreamRouted

LEMMA RouteNext ==
    ASSUME InOrder = TRUE
    PROVE  TypeOK /\ RouteInv /\ [Next]_vars => RouteInv'
<1>. SUFFICES ASSUME TypeOK, RouteInv, [Next]_vars PROVE RouteInv'
  OBVIOUS
<1>. USE DEF RouteInv, OthersAreLeftovers, CurrentStreamRouted, Open, Registered, Goto
<1>1. ASSUME NEW s \in Streams, HandlerStep(s)
      PROVE  RouteInv'
  <2>1. CASE Register(s)
    BY <2>1, StreamKey DEF Register, Put, TypeOK, IsMap
  <2>2. CASE DeliverHeld(s)
    BY <2>2 DEF DeliverHeld, TypeOK
  <2>3. CASE Route(s)
    <3>1. /\ pc[s] = "route" /\ UNCHANGED <<streams, alive>>
          /\ pc' = [pc EXCEPT ![s] = "forward"] \/ pc' = [pc EXCEPT ![s] = "absent"]
      BY <2>3 DEF Route
    <3>2. DOMAIN pc = Streams
      BY DEF TypeOK
    <3>. QED
      BY <3>1, <3>2
  <2>4. CASE Forward(s)
    BY <2>4 DEF Forward, TypeOK
  <2>5. CASE HandleAbsentTarget(s)
    BY <2>5 DEF HandleAbsentTarget, TypeOK
  <2>6. CASE Return(s)
    BY <2>6, StreamKey DEF Return, WithoutSelf, Drop, TypeOK, IsMap
  <2>. QED
    BY <1>1, <2>1, <2>2, <2>3, <2>4, <2>5, <2>6 DEF HandlerStep
<1>2. ASSUME NEW s \in Streams, AgentStep(s)
      PROVE  RouteInv'
  <2>1. CASE OpenStream(s)
    BY <2>1 DEF OpenStream, TypeOK
  <2>2. CASE LoseStream(s)
    BY <2>2 DEF LoseStream, TypeOK
  <2>3. ASSUME NEW to, NEW type, Receive(s, to, type)
        PROVE  RouteInv'
    BY <2>3 DEF Receive, TypeOK
  <2>. QED
    BY <1>2, <2>1, <2>2, <2>3 DEF AgentStep
<1>3. ASSUME NEW k \in Keys, Expire(k)
      PROVE  RouteInv'
  BY <1>3 DEF Expire
<1>4. CASE UNCHANGED vars
  BY <1>4 DEF vars
<1>. QED
  BY <1>1, <1>2, <1>3, <1>4 DEF Next

(* The stream an agent is using stays registered, provided registrations    *)
(* of one agent are handled in the order its streams were opened.           *)
THEOREM CurrentStreamStaysRouted ==
    ASSUME InOrder = TRUE
    PROVE  Spec => []CurrentStreamRouted
<1>1. Init => RouteInv
  BY DEF Init, RouteInv, OthersAreLeftovers, CurrentStreamRouted, Open, Registered
<1>2. TypeOK /\ RouteInv /\ [Next]_vars => RouteInv'
  BY RouteNext
<1>3. RouteInv => CurrentStreamRouted
  BY DEF RouteInv
<1>. QED
  BY <1>1, <1>2, <1>3, TypeCorrect, PTL DEF Spec

-----------------------------------------------------------------------------
(* What is held *)

Signals(msgs) == \A i \in DOMAIN msgs : msgs[i].type = "signal"

(* Hold keeps a queue within its cap, and free of relayed data. *)
LEMMA HoldBounds ==
    ASSUME NEW msgs \in Seq(Messages), Len(msgs) <= PendingPerPeer, Signals(msgs),
           NEW m \in Messages, m.type = "signal"
    PROVE  Len(Hold(msgs, m)) \in 1 .. PendingPerPeer /\ Signals(Hold(msgs, m))
<1>1. ASSUME NEW q \in Seq(Messages), Signals(q)
      PROVE  Signals(Append(q, m)) /\ Len(Append(q, m)) = Len(q) + 1
  BY <1>1 DEF Signals
<1>2. CASE Len(msgs) >= PendingPerPeer
  <2>1. msgs # <<>>
    BY <1>2, PendingAssumption
  <2>2. Tail(msgs) \in Seq(Messages) /\ Len(Tail(msgs)) = Len(msgs) - 1
    BY <2>1
  <2>3. Signals(Tail(msgs))
    BY <2>1, <2>2 DEF Signals
  <2>4. Signals(Append(Tail(msgs), m)) /\ Len(Append(Tail(msgs), m)) = Len(msgs)
    <3>1. Signals(Append(Tail(msgs), m)) /\ Len(Append(Tail(msgs), m)) = Len(Tail(msgs)) + 1
      BY <1>1, <2>2, <2>3
    <3>. QED
      BY <2>2, <3>1
  <2>5. Hold(msgs, m) = Append(Tail(msgs), m)
    BY <1>2 DEF Hold
  <2>. QED
    BY <1>2, <2>4, <2>5, PendingAssumption
<1>3. CASE ~(Len(msgs) >= PendingPerPeer)
  BY <1>1, <1>3, PendingAssumption DEF Hold
<1>. QED
  BY <1>2, <1>3

(* Only HandleAbsentTarget adds to a queue. *)
LEMMA HeldNext ==
    ASSUME TypeInv, HeldBounded, [Next]_vars
    PROVE  HeldBounded'
<1>1. CASE UNCHANGED pending
  BY <1>1 DEF HeldBounded
<1>2. ASSUME NEW k, pending' = Drop(pending, k)
      PROVE  HeldBounded'
  BY <1>2 DEF HeldBounded, Drop
<1>3. ASSUME NEW k \in Keys, Expire(k)
      PROVE  HeldBounded'
  <2>1. /\ DOMAIN pending' = DOMAIN pending
        /\ \A j \in DOMAIN pending : pending'[j].msgs = pending[j].msgs
    BY <1>3 DEF Expire
  <2>. QED
    BY <2>1 DEF HeldBounded
<1>4. ASSUME NEW s \in Streams, HandleAbsentTarget(s)
      PROVE  HeldBounded'
  <2>. DEFINE m == local[s][1]
              held == IF m.to \in DOMAIN Unexpired THEN Unexpired[m.to].msgs ELSE <<>>
  <2>1. m \in Messages
    BY <1>4, HandMessage DEF HandleAbsentTarget
  <2>2. /\ DOMAIN Unexpired \subseteq DOMAIN pending
        /\ \A k \in DOMAIN Unexpired : Unexpired[k] = pending[k]
    BY DEF Unexpired
  <2>3. CASE ~Holdable(m)
    BY <1>4, <2>3, <1>1 DEF HandleAbsentTarget
  <2>4. CASE Holdable(m)
    <3>1. m.type = "signal"
      BY <2>1, <2>4 DEF Messages, Holdable
    <3>2. held \in Seq(Messages) /\ Len(held) <= PendingPerPeer /\ Signals(held)
      <4>1. CASE m.to \in DOMAIN Unexpired
        <5>1. held = pending[m.to].msgs /\ m.to \in DOMAIN pending
          BY <2>2, <4>1
        <5>2. pending[m.to].msgs \in Seq(Messages)
          BY <5>1 DEF TypeInv, TypeOK, IsMap
        <5>. HIDE DEF held
        <5>. QED
          BY <5>1, <5>2, PendingAssumption DEF HeldBounded, Signals
      <4>2. CASE m.to \notin DOMAIN Unexpired
        BY <4>2, PendingAssumption DEF Signals
      <4>. QED
        BY <4>1, <4>2
    <3>. DEFINE q == Hold(held, m)
    <3>3. Len(q) \in 1 .. PendingPerPeer /\ Signals(q)
      <4>. HIDE DEF held, m
      <4>. QED
        BY <2>1, <3>1, <3>2, HoldBounds
    <3>4. pending' = Put(Unexpired, m.to, [msgs |-> q, fresh |-> TRUE])
      BY <1>4, <2>4 DEF HandleAbsentTarget
    <3>. HIDE DEF q, m
    <3>5. /\ DOMAIN pending' = DOMAIN Unexpired \cup {m.to}
          /\ pending'[m.to].msgs = q
          /\ \A k \in DOMAIN Unexpired \ {m.to} : pending'[k] = pending[k]
      BY <3>4, <2>2 DEF Put
    <3>. QED
      BY <3>3, <3>5, <2>2 DEF HeldBounded, Signals
  <2>. QED
    BY <2>3, <2>4
<1>5. CASE \E s \in Streams : HandlerStep(s)
  <2>1. PICK s \in Streams : HandlerStep(s)
    BY <1>5
  <2>2. CASE HandleAbsentTarget(s)
    BY <2>2, <1>4
  <2>3. CASE Register(s)
    BY <2>3, <1>2 DEF Register, TakePending
  <2>4. CASE DeliverHeld(s) \/ Route(s) \/ Forward(s) \/ Return(s)
    BY <2>4, <1>1 DEF DeliverHeld, Route, Forward, Return
  <2>. QED
    BY <2>1, <2>2, <2>3, <2>4 DEF HandlerStep
<1>6. CASE \E s \in Streams : AgentStep(s)
  BY <1>6, <1>1 DEF AgentStep, OpenStream, LoseStream, Receive
<1>7. CASE UNCHANGED vars
  BY <1>7, <1>1 DEF vars
<1>. QED
  BY <1>3, <1>5, <1>6, <1>7 DEF Next

(* For any number of agents and messages, what the server holds for an      *)
(* absent peer stays within pendingPerPeer and is signaling only.           *)
THEOREM HeldStaysBounded == Spec => []HeldBounded
<1>1. Init => HeldBounded
  BY DEF Init, HeldBounded, EmptyMap
<1>2. TypeInv /\ HeldBounded /\ [Next]_vars => HeldBounded'
  BY HeldNext
<1>. QED
  BY <1>1, <1>2, TypeInit, TypeNext, PTL DEF Spec

-----------------------------------------------------------------------------
(* The delivery of what was held *)

(* A handler that delivers to its own, live stream moves the first message  *)
(* it has in hand to the agent's inbox, and no other step touches what it   *)
(* has in hand.                                                             *)
HandsOver ==
    \A s \in Streams : pc[s] = "deliver" /\ alive[s] =>
        \A i \in DOMAIN local[s] :
            \/ \E j \in DOMAIN local'[s] : local'[s][j] = local[s][i]
            \/ \E j \in DOMAIN inbox'[KeyOf(s)] : inbox'[KeyOf(s)][j] = local[s][i]

LEMMA HandsOverNext ==
    ASSUME TypeInv, [Next]_vars
    PROVE  HandsOver
<1>. SUFFICES ASSUME NEW s \in Streams, pc[s] = "deliver", alive[s],
                     NEW i \in DOMAIN local[s]
              PROVE  \/ \E j \in DOMAIN local'[s] : local'[s][j] = local[s][i]
                     \/ \E j \in DOMAIN inbox'[KeyOf(s)] : inbox'[KeyOf(s)][j] = local[s][i]
  BY DEF HandsOver
<1>1. local \in [Streams -> Seq(Messages)] /\ inbox \in [Keys -> Seq(Messages)] /\ KeyOf(s) \in Keys
  BY StreamKey DEF TypeInv, TypeOK
<1>2. CASE local'[s] = local[s]
  BY <1>2
<1>3. CASE DeliverHeld(s)
  <2>1. local[s] # <<>> /\ local[s] \in Seq(Messages)
    BY <1>1
  <2>2. local' = [local EXCEPT ![s] = Tail(local[s])] /\ Deliver(s, Head(local[s]))
    BY <1>3, <2>1 DEF DeliverHeld
  <2>3. local'[s] = Tail(local[s]) /\ inbox'[KeyOf(s)] = Append(inbox[KeyOf(s)], Head(local[s]))
    BY <1>1, <2>2 DEF Deliver
  <2>4. CASE i = 1
    <3>1. inbox[KeyOf(s)] \in Seq(Messages) /\ Head(local[s]) = local[s][i]
      BY <1>1, <2>1, <2>4
    <3>2. Len(inbox[KeyOf(s)]) + 1 \in DOMAIN inbox'[KeyOf(s)]
      BY <2>3, <3>1
    <3>3. inbox'[KeyOf(s)][Len(inbox[KeyOf(s)]) + 1] = local[s][i]
      BY <2>3, <3>1
    <3>. QED
      BY <3>2, <3>3
  <2>5. CASE i # 1
    <3>1. i - 1 \in DOMAIN Tail(local[s]) /\ Tail(local[s])[i - 1] = local[s][i]
      BY <2>1, <2>5
    <3>. QED
      BY <2>3, <3>1
  <2>. QED
    BY <2>4, <2>5
<1>4. ASSUME NEW t \in Streams, HandlerStep(t)
      PROVE  local'[s] = local[s] \/ DeliverHeld(s)
  <2>1. CASE t = s
    BY <1>4, <2>1 DEF HandlerStep, Register, Route, Forward, HandleAbsentTarget, Return
  <2>2. CASE t # s
    BY <1>1, <1>4, <2>2 DEF HandlerStep, Register, DeliverHeld, Route, Forward,
                            HandleAbsentTarget, Return
  <2>. QED
    BY <2>1, <2>2
<1>5. ASSUME NEW t \in Streams, AgentStep(t)
      PROVE  local'[s] = local[s]
  BY <1>1, <1>5 DEF AgentStep, OpenStream, LoseStream, Receive
<1>6. CASE (\E k \in Keys : Expire(k)) \/ UNCHANGED vars
  BY <1>2, <1>6 DEF Expire, vars
<1>. QED
  BY <1>2, <1>3, <1>4, <1>5, <1>6 DEF Next

(* For any number of agents and messages, the handler of Send loses nothing *)
(* that it took from the queue while the agent's stream lives.              *)
THEOREM HeldReachesAgent == Spec => HeldIsDelivered
<1>1. TypeInv /\ [Next]_vars => HandsOver
  BY HandsOverNext
<1>2. [][HandsOver]_vars => HeldIsDelivered
  BY PTL DEF HeldIsDelivered, HandsOver
<1>. QED
  BY <1>1, <1>2, TypeInit, TypeNext, PTL DEF Spec

-----------------------------------------------------------------------------
(***************************************************************************)
(* SignalServer delivers a message at most once: every message is in at    *)
(* most one place, in the hands of a handler, held for a peer, or in an    *)
(* inbox, and there once.  A step moves messages from one place to another *)
(* or drops them.                                                          *)
(***************************************************************************)

Places == ({"local"} \X Streams) \cup ({"held"} \X Keys) \cup ({"inbox"} \X Keys)

HeldFor(k) == IF k \in DOMAIN pending THEN pending[k].msgs ELSE <<>>

(* What is in each place. *)
boxes ==
    [p \in Places |-> IF p[1] = "local" THEN local[p[2]]
                      ELSE IF p[1] = "held" THEN HeldFor(p[2]) ELSE inbox[p[2]]]

Ran(q) == {q[i] : i \in DOMAIN q}

Dist(q) == \A i, j \in DOMAIN q : q[i] = q[j] => i = j

Apart(b) ==
    /\ \A p \in Places : Dist(b[p])
    /\ \A p, q \in Places : p # q => Ran(b[p]) \cap Ran(b[q]) = {}

(* Messages are numbered in the order they are sent. *)
Numbered(b, n) == \A p \in Places : \A m \in Ran(b[p]) : m.id <= n

OnePlace == Apart(boxes) /\ Numbered(boxes, sent)

-----------------------------------------------------------------------------
(* Sequences *)

LEMMA FirstIsHead ==
    ASSUME NEW q \in Seq(Messages), Len(q) >= 1
    PROVE  q # <<>> /\ Head(q) = q[1]
<1>1. q # <<>>
  OBVIOUS
<1>2. Head(q) = q[1]
  BY <1>1
<1> QED BY <1>1, <1>2

LEMMA EmptyBox == Ran(<<>>) = {} /\ Dist(<<>>)
BY DEF Ran, Dist

(* The tail of a sequence without duplicates lacks exactly its head. *)
LEMMA TailBox ==
    ASSUME NEW q \in Seq(Messages), q # <<>>, Dist(q)
    PROVE  /\ Dist(Tail(q)) /\ Head(q) \in Ran(q)
           /\ Ran(Tail(q)) \subseteq Ran(q) /\ Head(q) \notin Ran(Tail(q))
<1>1. /\ Tail(q) \in Seq(Messages) /\ Len(Tail(q)) = Len(q) - 1 /\ Head(q) = q[1] /\ Len(q) >= 1
      /\ \A i \in 1 .. Len(q) - 1 : Tail(q)[i] = q[i + 1]
  OBVIOUS
<1>2. DOMAIN Tail(q) = 1 .. Len(q) - 1 /\ DOMAIN q = 1 .. Len(q) /\ Len(q) \in Nat
  BY <1>1
<1>3. Dist(Tail(q))
  BY <1>1, <1>2 DEF Dist
<1>4. Head(q) \in Ran(q) /\ Ran(Tail(q)) \subseteq Ran(q)
  BY <1>1, <1>2 DEF Ran
<1>5. ASSUME NEW i \in 1 .. Len(q) - 1 PROVE Tail(q)[i] # q[1]
  BY <1>1, <1>2 DEF Dist
<1> QED BY <1>1, <1>2, <1>3, <1>4, <1>5 DEF Ran

(* Appending a new message adds exactly that one. *)
LEMMA AppendBox ==
    ASSUME NEW q \in Seq(Messages), NEW m \in Messages, Dist(q), m \notin Ran(q)
    PROVE  Dist(Append(q, m)) /\ Ran(Append(q, m)) = Ran(q) \cup {m}
<1>1. /\ DOMAIN Append(q, m) = 1 .. Len(q) + 1 /\ DOMAIN q = 1 .. Len(q) /\ Len(q) \in Nat
      /\ Append(q, m)[Len(q) + 1] = m
      /\ \A i \in 1 .. Len(q) : Append(q, m)[i] = q[i]
  OBVIOUS
<1>2. \A i \in 1 .. Len(q) : q[i] # m
  BY <1>1 DEF Ran
<1> DEFINE a == Append(q, m)
           n == Len(q)
<1>3. /\ DOMAIN a = 1 .. n + 1 /\ DOMAIN q = 1 .. n /\ n \in Nat /\ a[n + 1] = m
      /\ \A i \in 1 .. n : a[i] = q[i] /\ a[i] # m
  BY <1>1, <1>2
<1> HIDE DEF a, n
<1>4. Dist(a)
  BY <1>3 DEF Dist
<1>5. Ran(a) = Ran(q) \cup {m}
  BY <1>3 DEF Ran
<1> QED BY <1>4, <1>5 DEF a

(* Messages move from src to dst, and others may be dropped. *)
LEMMA Transfer ==
    ASSUME NEW b, NEW c, NEW src \in Places, NEW dst \in Places, src # dst,
           NEW n, Apart(b), Numbered(b, n),
           \A p \in Places \ {src, dst} : c[p] = b[p] \/ c[p] = <<>>,
           Dist(c[src]), Dist(c[dst]),
           Ran(c[src]) \cup Ran(c[dst]) \subseteq Ran(b[src]) \cup Ran(b[dst]),
           Ran(c[src]) \cap Ran(c[dst]) = {}
    PROVE  Apart(c) /\ Numbered(c, n)
<1>1. \A p \in Places \ {src, dst} : Ran(c[p]) \subseteq Ran(b[p]) /\ Dist(c[p])
  BY EmptyBox DEF Apart
<1>2. ASSUME NEW p \in Places \ {src, dst}, NEW q \in {src, dst}
      PROVE  Ran(c[p]) \cap Ran(c[q]) = {}
  <2>1. Ran(b[p]) \cap Ran(b[src]) = {} /\ Ran(b[p]) \cap Ran(b[dst]) = {}
    BY DEF Apart
  <2>2. Ran(c[q]) \subseteq Ran(b[src]) \cup Ran(b[dst])
    OBVIOUS
  <2> QED BY <1>1, <2>1, <2>2
<1>3. ASSUME NEW p \in Places, NEW q \in Places, p # q
      PROVE  Ran(c[p]) \cap Ran(c[q]) = {}
  <2>1. CASE p \in {src, dst} /\ q \in {src, dst}
    BY <1>3, <2>1
  <2>2. CASE p \notin {src, dst} /\ q \in {src, dst}
    BY <1>2, <2>2
  <2>3. CASE p \in {src, dst} /\ q \notin {src, dst}
    BY <1>2, <2>3
  <2>4. CASE p \notin {src, dst} /\ q \notin {src, dst}
    <3>1. Ran(b[p]) \cap Ran(b[q]) = {}
      BY <1>3 DEF Apart
    <3> QED BY <1>1, <2>4, <3>1
  <2> QED BY <2>1, <2>2, <2>3, <2>4
<1>4. \A p \in Places : Dist(c[p])
  BY <1>1
<1>5. ASSUME NEW p \in Places, NEW m \in Ran(c[p]) PROVE m.id <= n
  <2>1. \E q \in Places : m \in Ran(b[q])
    BY <1>1
  <2> QED BY <2>1 DEF Numbered
<1> QED BY <1>3, <1>4, <1>5 DEF Apart, Numbered

(* The head of src goes to the end of dst, or is dropped; src keeps its     *)
(* tail, or nothing.                                                        *)
LEMMA MoveHead ==
    ASSUME NEW b, NEW c, NEW src \in Places, NEW dst \in Places, src # dst,
           NEW n, Apart(b), Numbered(b, n),
           \A p \in Places \ {src, dst} : c[p] = b[p] \/ c[p] = <<>>,
           b[src] \in Seq(Messages), b[src] # <<>>, b[dst] \in Seq(Messages),
           c[src] = Tail(b[src]) \/ c[src] = <<>>,
           c[dst] = b[dst] \/ c[dst] = Append(b[dst], Head(b[src]))
    PROVE  Apart(c) /\ Numbered(c, n)
<1> DEFINE h == Head(b[src])
<1>1. Dist(b[src]) /\ Dist(b[dst]) /\ Ran(b[src]) \cap Ran(b[dst]) = {}
  BY DEF Apart
<1>2. h \in Ran(b[src]) /\ h \in Messages
  BY <1>1, TailBox
<1>3. Dist(c[src]) /\ Ran(c[src]) \subseteq Ran(b[src]) /\ h \notin Ran(c[src])
  BY <1>1, TailBox, EmptyBox
<1> HIDE DEF h
<1>4. Dist(c[dst]) /\ Ran(c[dst]) \subseteq Ran(b[dst]) \cup {h}
  <2>1. CASE c[dst] = b[dst]
    BY <1>1, <2>1
  <2>2. CASE c[dst] = Append(b[dst], h)
    <3>1. h \notin Ran(b[dst])
      BY <1>1, <1>2
    <3> QED BY <1>1, <1>2, <2>2, <3>1, AppendBox
  <2> QED BY <2>1, <2>2 DEF h
<1>5. Ran(c[src]) \cap Ran(c[dst]) = {}
  BY <1>1, <1>3, <1>4
<1>6. Ran(c[src]) \cup Ran(c[dst]) \subseteq Ran(b[src]) \cup Ran(b[dst])
  BY <1>2, <1>3, <1>4
<1> QED BY <1>3, <1>4, <1>5, <1>6, Transfer

-----------------------------------------------------------------------------
(* The steps *)

LEMMA BoxOf ==
    /\ \A s \in Streams : <<"local", s>> \in Places /\ boxes[<<"local", s>>] = local[s]
    /\ \A k \in Keys : <<"held", k>> \in Places /\ boxes[<<"held", k>>] = HeldFor(k)
    /\ \A k \in Keys : <<"inbox", k>> \in Places /\ boxes[<<"inbox", k>>] = inbox[k]
BY DEF boxes, Places

LEMMA BoxOfNext ==
    /\ \A s \in Streams : boxes'[<<"local", s>>] = local'[s]
    /\ \A k \in Keys : boxes'[<<"held", k>>] = HeldFor(k)'
    /\ \A k \in Keys : boxes'[<<"inbox", k>>] = inbox'[k]
BY DEF boxes, Places

LEMMA PlaceCases ==
    ASSUME NEW p \in Places
    PROVE  \/ \E s \in Streams : p = <<"local", s>>
           \/ \E k \in Keys : p = <<"held", k>>
           \/ \E k \in Keys : p = <<"inbox", k>>
BY DEF Places

LEMMA BoxType == ASSUME TypeInv, NEW p \in Places PROVE boxes[p] \in Seq(Messages)
<1>1. \A k \in Keys : HeldFor(k) \in Seq(Messages)
  BY DEF HeldFor, TypeInv, TypeOK, IsMap
<1>2. /\ \A s \in Streams : local[s] \in Seq(Messages)
      /\ \A k \in Keys : inbox[k] \in Seq(Messages)
  BY DEF TypeInv, TypeOK
<1>3. CASE \E s \in Streams : p = <<"local", s>>
  BY <1>2, <1>3, BoxOf
<1>4. CASE \E k \in Keys : p = <<"held", k>>
  BY <1>1, <1>4, BoxOf
<1>5. CASE \E k \in Keys : p = <<"inbox", k>>
  BY <1>2, <1>5, BoxOf
<1> QED BY <1>3, <1>4, <1>5, PlaceCases

(* What did not change is where it was. *)
LEMMA SameBoxes ==
    ASSUME UNCHANGED <<local, inbox, sent>>, \A k \in Keys : HeldFor(k)' = HeldFor(k), OnePlace
    PROVE  OnePlace'
<1>1. \A p \in Places : boxes'[p] = boxes[p]
  BY BoxOf, BoxOfNext, PlaceCases
<1> QED BY <1>1 DEF OnePlace, Apart, Numbered

(* Deliver puts a message into the inbox of the stream's agent, or nowhere. *)
LEMMA DeliverBoxes ==
    ASSUME TypeInv, NEW t \in Streams, NEW m, Deliver(t, m)
    PROVE  /\ \A k \in Keys \ {KeyOf(t)} : inbox'[k] = inbox[k]
           /\ inbox'[KeyOf(t)] = inbox[KeyOf(t)] \/ inbox'[KeyOf(t)] = Append(inbox[KeyOf(t)], m)
BY StreamKey DEF Deliver, TypeInv, TypeOK

(* A handler hands the first message it has to the stream t. *)
LEMMA HandOver ==
    ASSUME TypeInv, OnePlace, NEW s \in Streams, NEW t \in Streams, local[s] # <<>>,
           Deliver(t, Head(local[s])), UNCHANGED <<pending, sent>>,
           \/ local' = [local EXCEPT ![s] = Tail(local[s])]
           \/ local' = [local EXCEPT ![s] = <<>>]
    PROVE  OnePlace'
<1> DEFINE src == <<"local", s>>
           dst == <<"inbox", KeyOf(t)>>
<1>1. src \in Places /\ dst \in Places /\ src # dst
  BY BoxOf, StreamKey
<1>2. /\ \A u \in Streams : u # s => local'[u] = local[u]
      /\ local'[s] = Tail(local[s]) \/ local'[s] = <<>>
  BY DEF TypeInv, TypeOK
<1>3. ASSUME NEW p \in Places \ {src, dst} PROVE boxes'[p] = boxes[p]
  <2>1. \A k \in Keys : HeldFor(k)' = HeldFor(k)
    BY DEF HeldFor
  <2> QED BY <1>2, <2>1, BoxOf, BoxOfNext, PlaceCases, DeliverBoxes
<1>4. boxes[src] = local[s] /\ boxes'[src] = local'[s]
  BY BoxOf, BoxOfNext
<1>5. boxes[dst] = inbox[KeyOf(t)] /\ boxes'[dst] = inbox'[KeyOf(t)]
  BY BoxOf, BoxOfNext, StreamKey
<1>6. boxes'[dst] = boxes[dst] \/ boxes'[dst] = Append(boxes[dst], Head(boxes[src]))
  BY <1>4, <1>5, DeliverBoxes
<1>7. boxes[src] \in Seq(Messages) /\ boxes[dst] \in Seq(Messages)
  BY <1>1, BoxType
<1> HIDE DEF src, dst
<1>8. Apart(boxes') /\ Numbered(boxes', sent)
  BY <1>1, <1>2, <1>3, <1>4, <1>6, <1>7, MoveHead DEF OnePlace
<1> QED BY <1>8 DEF OnePlace, Apart, Numbered

(* takePendingLocked: the queue goes from the map to the handler. *)
LEMMA OnceRegister ==
    ASSUME TypeInv, OnePlace, NEW s \in Streams, Register(s)
    PROVE  OnePlace'
<1> DEFINE k == KeyOf(s)
           src == <<"held", k>>
           dst == <<"local", s>>
<1>0. k \in Keys
  BY StreamKey
<1>1. src \in Places /\ dst \in Places /\ src # dst
  BY <1>0, BoxOf
<1>2. /\ \A u \in Streams : u # s => local'[u] = local[u]
      /\ local'[s] = TakenMessages(k)
      /\ UNCHANGED <<inbox, sent>>
  BY DEF Register, TypeInv, TypeOK
<1>3. HeldFor(k)' = <<>> /\ \A j \in Keys \ {k} : HeldFor(j)' = HeldFor(j)
  BY DEF Register, TakePending, Drop, HeldFor
<1>4. ASSUME NEW p \in Places \ {src, dst} PROVE boxes'[p] = boxes[p]
  BY <1>2, <1>3, BoxOf, BoxOfNext, PlaceCases
<1>5. boxes'[src] = <<>>
  BY <1>0, <1>3, BoxOfNext
<1>6. boxes'[dst] = boxes[src] \/ boxes'[dst] = <<>>
  BY <1>0, <1>2, BoxOf, BoxOfNext DEF TakenMessages, HeldFor
<1> HIDE DEF src, dst
<1>7. Dist(boxes'[dst]) /\ Ran(boxes'[dst]) \subseteq Ran(boxes[src])
  BY <1>1, <1>6, EmptyBox DEF OnePlace, Apart
<1>8. Apart(boxes') /\ Numbered(boxes', sent)
  BY <1>1, <1>4, <1>5, <1>7, EmptyBox, Transfer DEF OnePlace
<1> QED BY <1>2, <1>8 DEF OnePlace, Apart, Numbered

(* handleAbsentTarget: the message goes from the handler to the queue. *)
LEMMA OnceAbsent ==
    ASSUME TypeInv, OnePlace, NEW s \in Streams, HandleAbsentTarget(s)
    PROVE  OnePlace'
<1> DEFINE m == local[s][1]
           held == IF m.to \in DOMAIN Unexpired THEN Unexpired[m.to].msgs ELSE <<>>
<1>0. m \in Messages /\ m.to \in Keys
  BY HandMessage DEF HandleAbsentTarget, Messages
<1> DEFINE src == <<"local", s>>
<1>a. PICK k \in Keys : k = m.to
  BY <1>0
<1> DEFINE dst == <<"held", k>>
<1>1. src \in Places /\ dst \in Places /\ src # dst
  BY BoxOf
<1>2. /\ \A u \in Streams : u # s => local'[u] = local[u]
      /\ local'[s] = <<>>
      /\ UNCHANGED <<inbox, sent>>
  BY DEF HandleAbsentTarget, TypeInv, TypeOK
<1>3. boxes[src] = local[s] /\ boxes'[src] = <<>>
  BY <1>2, BoxOf, BoxOfNext
<1>4. boxes[dst] = HeldFor(k) /\ boxes'[dst] = HeldFor(k)'
  BY BoxOf, BoxOfNext
<1>5. Dist(boxes[dst]) /\ boxes[dst] \in Seq(Messages) /\ Ran(boxes[src]) \cap Ran(boxes[dst]) = {}
  BY <1>1, BoxType DEF OnePlace, Apart
<1>6. m \in Ran(boxes[src])
  <2>1. local[s] \in Seq(Messages) /\ Len(local[s]) = 1
    BY DEF HandleAbsentTarget, TypeInv, TypeOK, InHand
  <2>2. 1 \in DOMAIN local[s]
    BY <2>1
  <2> QED BY <1>3, <2>2 DEF Ran
<1>7. held = HeldFor(k) \/ held = <<>>
  BY <1>a DEF Unexpired, HeldFor
<1>8. held \in Seq(Messages) /\ Dist(held) /\ Ran(held) \subseteq Ran(boxes[dst])
  <2> HIDE DEF held, src, dst
  <2>1. <<>> \in Seq(Messages)
    OBVIOUS
  <2> QED BY <2>1, <1>4, <1>5, <1>7, EmptyBox
<1>9. Dist(Hold(held, m)) /\ Ran(Hold(held, m)) \subseteq Ran(boxes[dst]) \cup {m}
  <2> HIDE DEF held, m, src, dst
  <2>1. m \notin Ran(held)
    BY <1>5, <1>6, <1>8
  <2>2. CASE Len(held) >= PendingPerPeer
    <3>1. held # <<>>
      BY <2>2, PendingAssumption
    <3>2. Tail(held) \in Seq(Messages)
      BY <1>8, <3>1
    <3>3. Dist(Tail(held)) /\ Ran(Tail(held)) \subseteq Ran(held)
      BY <1>8, <3>1, TailBox
    <3>4. Dist(Append(Tail(held), m)) /\ Ran(Append(Tail(held), m)) = Ran(Tail(held)) \cup {m}
      BY <1>0, <2>1, <3>2, <3>3, AppendBox
    <3>5. Hold(held, m) = Append(Tail(held), m)
      BY <2>2 DEF Hold
    <3> QED BY <1>8, <3>3, <3>4, <3>5
  <2>3. CASE ~(Len(held) >= PendingPerPeer)
    <3>1. Dist(Append(held, m)) /\ Ran(Append(held, m)) = Ran(held) \cup {m}
      BY <1>0, <1>8, <2>1, AppendBox
    <3> QED BY <1>8, <2>3, <3>1 DEF Hold
  <2> QED BY <2>2, <2>3
<1>10. /\ \A j \in Keys \ {k} : HeldFor(j)' = HeldFor(j) \/ HeldFor(j)' = <<>>
       /\ HeldFor(k)' = HeldFor(k) \/ HeldFor(k)' = Hold(held, m)
  <2>1. CASE UNCHANGED pending
    BY <2>1 DEF HeldFor
  <2> DEFINE q == Hold(held, m)
  <2>2. CASE pending' = Put(Unexpired, k, [msgs |-> q, fresh |-> TRUE])
    <3> HIDE DEF q, held, m
    <3>2. /\ DOMAIN Unexpired \subseteq DOMAIN pending
          /\ \A j \in DOMAIN Unexpired : Unexpired[j] = pending[j]
      BY DEF Unexpired
    <3>3. /\ DOMAIN pending' = DOMAIN Unexpired \cup {k}
          /\ pending'[k].msgs = q
          /\ \A j \in DOMAIN Unexpired \ {k} : pending'[j] = pending[j]
      BY <2>2, <3>2 DEF Put
    <3>4. HeldFor(k)' = q /\ \A j \in Keys \ {k} : HeldFor(j)' = HeldFor(j) \/ HeldFor(j)' = <<>>
      BY <3>2, <3>3 DEF HeldFor
    <3> QED BY <3>4 DEF q
  <2> QED BY <1>a, <2>1, <2>2 DEF HandleAbsentTarget
<1> HIDE DEF held, m
<1>11. ASSUME NEW p \in Places \ {src, dst} PROVE boxes'[p] = boxes[p] \/ boxes'[p] = <<>>
  <2>1. CASE \E u \in Streams : p = <<"local", u>>
    BY <1>2, <2>1, BoxOf, BoxOfNext
  <2>2. CASE \E j \in Keys : p = <<"held", j>>
    BY <1>10, <2>2, BoxOf, BoxOfNext
  <2>3. CASE \E j \in Keys : p = <<"inbox", j>>
    BY <1>2, <2>3, BoxOf, BoxOfNext
  <2> QED BY <2>1, <2>2, <2>3, PlaceCases
<1> HIDE DEF src, dst
<1>12. Dist(boxes'[dst]) /\ Ran(boxes'[dst]) \subseteq Ran(boxes[dst]) \cup {m}
  BY <1>4, <1>5, <1>9, <1>10
<1>13. /\ Dist(boxes'[src]) /\ Ran(boxes'[src]) \cap Ran(boxes'[dst]) = {}
       /\ Ran(boxes'[src]) \cup Ran(boxes'[dst]) \subseteq Ran(boxes[src]) \cup Ran(boxes[dst])
  BY <1>3, <1>6, <1>12, EmptyBox
<1>14. Apart(boxes') /\ Numbered(boxes', sent)
  BY <1>1, <1>11, <1>12, <1>13, Transfer DEF OnePlace
<1> QED BY <1>2, <1>14 DEF OnePlace, Apart, Numbered

(* A message that is received is new: its number is larger than any before. *)
LEMMA OnceReceive ==
    ASSUME TypeInv, OnePlace, NEW s \in Streams, NEW to \in Keys,
           NEW type \in {"signal", "relay"}, Receive(s, to, type)
    PROVE  OnePlace'
<1> DEFINE m == [id |-> sent + 1, to |-> to, type |-> type]
           new == <<"local", s>>
<1>1. new \in Places /\ boxes'[new] = <<m>>
  BY BoxOf, BoxOfNext DEF Receive, TypeInv, TypeOK
<1>2. m.id = sent + 1 /\ sent \in Nat /\ sent' = sent + 1
  BY MessagesAssumption DEF Receive, TypeInv, TypeOK
<1>3. \A u \in Streams : u # s => local'[u] = local[u]
  BY DEF Receive, TypeInv, TypeOK
<1>4. ASSUME NEW p \in Places \ {new} PROVE boxes'[p] = boxes[p]
  <2>1. inbox' = inbox /\ \A k \in Keys : HeldFor(k)' = HeldFor(k)
    BY DEF Receive, HeldFor
  <2>2. CASE \E u \in Streams : p = <<"local", u>>
    BY <1>3, <2>2, BoxOf, BoxOfNext
  <2>3. CASE \E k \in Keys : p = <<"held", k>>
    BY <2>1, <2>3, BoxOf, BoxOfNext
  <2>4. CASE \E k \in Keys : p = <<"inbox", k>>
    BY <2>1, <2>4, BoxOf, BoxOfNext
  <2> QED BY <2>2, <2>3, <2>4, PlaceCases
<1> HIDE DEF m, new
<1>5. Dist(boxes'[new]) /\ Ran(boxes'[new]) = {m}
  BY <1>1 DEF Dist, Ran
<1>6. ASSUME NEW p \in Places \ {new} PROVE m \notin Ran(boxes'[p])
  <2>1. \A x \in Ran(boxes[p]) : x.id <= sent
    BY DEF OnePlace, Numbered
  <2> QED BY <1>2, <1>4, <2>1
<1>7. Apart(boxes')
  <2>1. \A p \in Places : Dist(boxes'[p])
    BY <1>4, <1>5 DEF OnePlace, Apart
  <2>2. ASSUME NEW p \in Places, NEW q \in Places, p # q
        PROVE  Ran(boxes'[p]) \cap Ran(boxes'[q]) = {}
    <3>1. CASE p # new /\ q # new
      <4>1. Ran(boxes[p]) \cap Ran(boxes[q]) = {}
        BY <2>2 DEF OnePlace, Apart
      <4> QED BY <1>4, <3>1, <4>1
    <3>2. CASE p = new \/ q = new
      BY <1>5, <1>6, <2>2, <3>2
    <3> QED BY <3>1, <3>2
  <2> QED BY <2>1, <2>2 DEF Apart
<1>8. ASSUME NEW p \in Places, NEW x \in Ran(boxes'[p]) PROVE x.id <= sent'
  <2>1. CASE p = new
    BY <1>2, <1>5, <2>1
  <2>2. CASE p # new
    <3>1. x.id <= sent /\ x \in Ran(boxes[p])
      BY <1>4, <2>2 DEF OnePlace, Numbered
    <3>2. x.id \in Nat
      <4>1. boxes[p] \in Seq(Messages)
        BY BoxType
      <4>2. x \in Messages
        BY <3>1, <4>1 DEF Ran
      <4> QED BY <4>2 DEF Messages
    <3> QED BY <1>2, <3>1, <3>2
  <2> QED BY <2>1, <2>2
<1> QED BY <1>7, <1>8 DEF OnePlace, Apart, Numbered

LEMMA OnceNext ==
    ASSUME TypeInv, OnePlace, [Next]_vars
    PROVE  OnePlace'
<1>1. CASE UNCHANGED <<local, inbox, sent, pending>>
  BY <1>1, SameBoxes DEF HeldFor
<1>2. ASSUME NEW s \in Streams, HandlerStep(s)
      PROVE  OnePlace'
  <2>1. CASE Register(s)
    BY <2>1, OnceRegister
  <2>2. CASE DeliverHeld(s)
    <3>1. CASE local[s] # <<>>
      BY <2>2, <3>1, HandOver DEF DeliverHeld
    <3>2. CASE local[s] = <<>>
      BY <1>1, <2>2, <3>2 DEF DeliverHeld
    <3> QED BY <3>1, <3>2
  <2>3. CASE Forward(s)
    <3>1. local[s] \in Seq(Messages) /\ Len(local[s]) = 1 /\ target[s] \in Streams
      BY <2>3 DEF Forward, TypeInv, TypeOK, InHand
    <3>2. local[s] # <<>> /\ Head(local[s]) = local[s][1]
      BY <3>1, FirstIsHead
    <3> QED BY <2>3, <3>1, <3>2, HandOver DEF Forward
  <2>4. CASE HandleAbsentTarget(s)
    BY <2>4, OnceAbsent
  <2>5. CASE Route(s) \/ Return(s)
    BY <1>1, <2>5 DEF Route, Return
  <2> QED BY <1>2, <2>1, <2>2, <2>3, <2>4, <2>5 DEF HandlerStep
<1>3. ASSUME NEW s \in Streams, AgentStep(s)
      PROVE  OnePlace'
  <2>1. CASE OpenStream(s) \/ LoseStream(s)
    BY <1>1, <2>1 DEF OpenStream, LoseStream
  <2> QED BY <1>3, <2>1, OnceReceive DEF AgentStep
<1>4. ASSUME NEW k \in Keys, Expire(k)
      PROVE  OnePlace'
  <2>1. /\ DOMAIN pending' = DOMAIN pending
        /\ \A j \in DOMAIN pending : pending'[j].msgs = pending[j].msgs
    BY <1>4 DEF Expire
  <2>2. \A j \in Keys : HeldFor(j)' = HeldFor(j)
    BY <2>1 DEF HeldFor
  <2> QED BY <1>4, <2>2, SameBoxes DEF Expire
<1>5. CASE UNCHANGED vars
  BY <1>1, <1>5 DEF vars
<1> QED BY <1>2, <1>3, <1>4, <1>5 DEF Next

(* For any number of agents, streams and messages, an agent receives a      *)
(* message at most once, whether it was routed or held.                     *)
THEOREM NothingTwice == Spec => []DeliveredOnce
<1>1. Init => OnePlace
  <2> SUFFICES ASSUME Init PROVE OnePlace
    OBVIOUS
  <2>1. \A p \in Places : boxes[p] = <<>>
    BY BoxOf, PlaceCases DEF Init, HeldFor, EmptyMap
  <2> QED BY <2>1, EmptyBox DEF OnePlace, Apart, Numbered
<1>2. TypeInv /\ OnePlace /\ [Next]_vars => OnePlace'
  BY OnceNext
<1>3. OnePlace => DeliveredOnce
  <2>1. OnePlace => \A k \in Keys : Dist(inbox[k])
    BY BoxOf DEF OnePlace, Apart
  <2> QED BY <2>1 DEF Dist, DeliveredOnce
<1> QED BY <1>1, <1>2, <1>3, TypeInit, TypeNext, PTL DEF Spec
=============================================================================
