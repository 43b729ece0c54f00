------------------------------ MODULE PeerLink ------------------------------
(***************************************************************************)
(* The data path of an agent to one peer: a Link that always has the relay *)
(* and moves the traffic onto a direct ICE connection while probes show    *)
(* that it works.                                                          *)
(*                                                                         *)
(* Each ICE connection handed to the link gets two goroutines, a read loop *)
(* and a probe loop, which share useICE and lastPong with the loops of the *)
(* connections before and after it.  A step is one atomic operation, one   *)
(* critical section on Link.mu or one call on a connection.                *)
(*                                                                         *)
(* Time appears as what the code compares: whether the last pong is within *)
(* probeTimeout, whether a probe loop has seen it, and whether the backoff *)
(* of the last stall has passed.                                           *)
(***************************************************************************)
EXTENDS Integers

CONSTANTS
    Conns,          \* ICE connections handed to the link
    NoConn,         \* nil
    Threshold,      \* upgradeThreshold
    Paths,          \* how a connection may behave: a subset of
                    \*   "good": a probe is answered after the tick that sent it
                    \*           and before the next one
                    \*   "slow": it is answered some time, or within its own tick
                    \*   "dead": packets disappear
    WriteMayFail    \* TRUE: writing to a dead path may return an error

ASSUME ConnAssumption == NoConn \notin Conns

ASSUME ThresholdAssumption == Threshold \in Nat \ {0}

ASSUME PathAssumption == Paths \subseteq {"good", "slow", "dead"} /\ WriteMayFail \in BOOLEAN

VARIABLES
    iceConn,    \* Link.iceConn
    useICE,     \* Link.useICE
    lastPong,   \* Link.lastPong: "none" (0), "recent" or "old"
    closer,     \* Close: "open" (not called), "conn", "flag", "done"
    setter,     \* SetICEConn(c): "new" (not called), "set", "done"
    replaced,   \* the connection SetICEConn(c) has to close, or nil
    connClosed, \* the connection is closed
    path,       \* what the network does with the packets of the connection
    inflight,   \* a pong is on its way
    reader,     \* where iceReadLoop(c) is
    probe,      \* where probeLoop(c) is
    unseen,     \* lastPong # probeState.seenPong of c
    good,       \* probeState.consecutiveGood of c, counted up to Threshold
    direct,     \* probeState.direct of c
    eligible,   \* probeState.nextUpgrade of c has passed
    ownPong,    \* history: c itself answered since the last tick of c ...
    ownGood     \* ... and on how many consecutive ticks, up to Threshold

shared == <<iceConn, useICE, closer, setter, replaced, connClosed>>
network == <<path, inflight>>
pongs == <<lastPong, unseen, ownPong>>
state == <<good, direct, eligible, ownGood>>
vars == <<shared, network, pongs, state, reader, probe>>

(* The link is closed: <-l.closed does not block. *)
LinkClosed == closer # "open"

(* Write: the connection that takes the packet, NoConn for the relay.  An   *)
(* error of the direct connection, as from a closed one, falls through.     *)
WritePath ==
    IF useICE /\ iceConn \in Conns /\ ~connClosed[iceConn] THEN iceConn ELSE NoConn

(* A count that stops at Threshold, above which no code looks. *)
CountUp(n) == IF n < Threshold THEN n + 1 ELSE n

(* A new pong landed since the previous tick, and it is recent. *)
Answered(c) == unseen[c] /\ lastPong = "recent"

-----------------------------------------------------------------------------
(* Plausible faults of the operations below, to show that the properties    *)
(* notice them.                                                             *)

(* a tick without an answer does not start the count again *)
CountWithoutReset(c) == IF Answered(c) THEN CountUp(good[c]) ELSE good[c]

(* the replaced connection is left open *)
CloseNothing(c) == connClosed

(* a stall goes unnoticed *)
NeverStalls(c) == FALSE

(* the stall does not leave the direct state *)
DirectForever(c) == direct[c] \/ (good[c] + 1 >= Threshold /\ Answered(c) /\ eligible[c])

-----------------------------------------------------------------------------
(* SetICEConn *)

SetICEConn(c) ==
    /\ setter[c] = "new"
    /\ iceConn' = c
    /\ replaced' = [replaced EXCEPT ![c] = iceConn]
    /\ setter' = [setter EXCEPT ![c] = "set"]
    /\ UNCHANGED <<useICE, closer, connClosed, network, pongs, state, reader, probe>>

CloseReplaced(c) ==
    [d \in Conns |-> connClosed[d] \/ d = replaced[c]]

(* Close the replaced connection and start the two loops.  The new probe    *)
(* loop has seen no pong: any pong the link ever got is new to it.          *)
StartLoops(c) ==
    /\ setter[c] = "set"
    /\ connClosed' = CloseReplaced(c)
    /\ setter' = [setter EXCEPT ![c] = "done"]
    /\ replaced' = [replaced EXCEPT ![c] = NoConn]
    /\ reader' = [reader EXCEPT ![c] = "read"]
    /\ probe' = [probe EXCEPT ![c] = "tick"]
    /\ unseen' = [unseen EXCEPT ![c] = (lastPong # "none")]
    /\ UNCHANGED <<iceConn, useICE, closer, lastPong, ownPong, network, state>>

-----------------------------------------------------------------------------
(* The network and the ICE agent (external) *)

PathChange(c, p) ==
    /\ p # path[c]
    /\ path' = [path EXCEPT ![c] = p]
    /\ inflight' = [inflight EXCEPT ![c] = @ /\ p # "dead"]
    /\ UNCHANGED <<shared, pongs, state, reader, probe>>

(* runPeer returns and closes its agent, and the connection with it. *)
AgentClose(c) ==
    /\ setter[c] # "new" /\ ~connClosed[c]
    /\ connClosed' = [connClosed EXCEPT ![c] = TRUE]
    /\ UNCHANGED <<iceConn, useICE, closer, setter, replaced, network, pongs, state, reader, probe>>

(* probeTimeout passes.  It is three ticks long, so a loop sees the answer  *)
(* to its own probe first.                                                  *)
PongAges ==
    /\ lastPong = "recent"
    /\ \A c \in Conns : probe[c] \notin {"off", "done"} => ~ownPong[c]
    /\ lastPong' = "old"
    /\ UNCHANGED <<shared, network, unseen, ownPong, state, reader, probe>>

BackoffPasses(c) ==
    /\ ~eligible[c]
    /\ eligible' = [eligible EXCEPT ![c] = TRUE]
    /\ UNCHANGED <<shared, network, pongs, good, direct, ownGood, reader, probe>>

-----------------------------------------------------------------------------
(* iceReadLoop.  Answering a ping of the peer and injecting a packet into   *)
(* WireGuard change nothing here.                                           *)

ReadPong(c) ==
    /\ reader[c] = "read" /\ ~connClosed[c]
    /\ inflight[c]
    /\ path[c] = "good" => probe[c] # "observe"
    /\ inflight' = [inflight EXCEPT ![c] = FALSE]
    /\ lastPong' = "recent"
    /\ unseen' = [d \in Conns |-> TRUE]
    /\ ownPong' = [ownPong EXCEPT ![c] = TRUE]
    /\ UNCHANGED <<shared, path, state, reader, probe>>

(* Read fails: useICE.CompareAndSwap(true, false). *)
ReadError(c) ==
    /\ reader[c] = "read" /\ connClosed[c]
    /\ useICE' = FALSE
    /\ reader' = [reader EXCEPT ![c] = "clear"]
    /\ UNCHANGED <<iceConn, closer, setter, replaced, connClosed, network, pongs, state, probe>>

ClearConn(c) ==
    /\ reader[c] = "clear"
    /\ iceConn' = IF iceConn = c THEN NoConn ELSE iceConn
    /\ reader' = [reader EXCEPT ![c] = "done"]
    /\ UNCHANGED <<useICE, closer, setter, replaced, connClosed, network, pongs, state, probe>>

-----------------------------------------------------------------------------
(* probeState.observe *)

ConsecutiveGood(c) == IF Answered(c) THEN CountUp(good[c]) ELSE 0

Stalls(c) == direct[c] /\ ~Answered(c)

Qualifies(c) == ~direct[c] /\ ConsecutiveGood(c) >= Threshold /\ eligible[c]

DirectAfter(c) == Qualifies(c) \/ (direct[c] /\ Answered(c))

(* probeLoop *)

ProbeStop(c) ==
    /\ probe[c] = "tick" /\ LinkClosed
    /\ probe' = [probe EXCEPT ![c] = "done"]
    /\ UNCHANGED <<shared, network, pongs, state, reader>>

(* A tick: the loop of a superseded connection ends. *)
Tick(c) ==
    /\ probe[c] = "tick"
    /\ path[c] = "good" => ~inflight[c] \/ connClosed[c]
    /\ probe' = [probe EXCEPT ![c] = IF iceConn = c THEN "write" ELSE "done"]
    /\ UNCHANGED <<shared, network, pongs, state, reader>>

ProbeWrite(c) ==
    /\ probe[c] = "write" /\ ~connClosed[c]
    /\ inflight' = [inflight EXCEPT ![c] = path[c] # "dead"]
    /\ probe' = [probe EXCEPT ![c] = "observe"]
    /\ UNCHANGED <<shared, path, pongs, state, reader>>

(* The write fails: back to the relay, and the loop ends. *)
ProbeWriteError(c) ==
    /\ probe[c] = "write"
    /\ connClosed[c] \/ (WriteMayFail /\ path[c] = "dead")
    /\ useICE' = FALSE
    /\ probe' = [probe EXCEPT ![c] = "done"]
    /\ UNCHANGED <<iceConn, closer, setter, replaced, connClosed, network, pongs, state, reader>>

Observe(c) ==
    /\ probe[c] = "observe"
    /\ good' = [good EXCEPT ![c] = ConsecutiveGood(c)]
    /\ ownGood' = [ownGood EXCEPT ![c] = IF ownPong[c] THEN CountUp(@) ELSE 0]
    /\ unseen' = [unseen EXCEPT ![c] = FALSE]
    /\ ownPong' = [ownPong EXCEPT ![c] = FALSE]
    /\ direct' = [direct EXCEPT ![c] = DirectAfter(c)]
    /\ eligible' = [eligible EXCEPT ![c] = @ /\ ~Stalls(c)]
    /\ probe' = [probe EXCEPT ![c] = IF Stalls(c) THEN "demote"
                                     ELSE IF Qualifies(c) THEN "promote" ELSE "tick"]
    /\ UNCHANGED <<shared, network, lastPong, reader>>

(* The two CompareAndSwaps on useICE that follow observe. *)
Switch(c) ==
    /\ probe[c] \in {"promote", "demote"}
    /\ useICE' = (probe[c] = "promote")
    /\ probe' = [probe EXCEPT ![c] = "tick"]
    /\ UNCHANGED <<iceConn, closer, setter, replaced, connClosed, network, pongs, state, reader>>

-----------------------------------------------------------------------------
(* Close, called once, when the peer is removed *)

CloseStart ==
    /\ closer = "open"
    /\ closer' = "conn"
    /\ UNCHANGED <<iceConn, useICE, setter, replaced, connClosed, network, pongs, state, reader, probe>>

CloseConn ==
    /\ closer = "conn"
    /\ connClosed' = [d \in Conns |-> connClosed[d] \/ d = iceConn]
    /\ iceConn' = NoConn
    /\ closer' = "flag"
    /\ UNCHANGED <<useICE, setter, replaced, network, pongs, state, reader, probe>>

CloseFlag ==
    /\ closer = "flag"
    /\ useICE' = FALSE
    /\ closer' = "done"
    /\ UNCHANGED <<iceConn, setter, replaced, connClosed, network, pongs, state, reader, probe>>

-----------------------------------------------------------------------------
Init ==
    /\ iceConn = NoConn
    /\ useICE = FALSE
    /\ lastPong = "none"
    /\ closer = "open"
    /\ setter = [c \in Conns |-> "new"]
    /\ replaced = [c \in Conns |-> NoConn]
    /\ connClosed = [c \in Conns |-> FALSE]
    /\ path \in [Conns -> Paths]
    /\ inflight = [c \in Conns |-> FALSE]
    /\ reader = [c \in Conns |-> "off"]
    /\ probe = [c \in Conns |-> "off"]
    /\ unseen = [c \in Conns |-> FALSE]
    /\ good = [c \in Conns |-> 0]
    /\ direct = [c \in Conns |-> FALSE]
    /\ eligible = [c \in Conns |-> TRUE]
    /\ ownPong = [c \in Conns |-> FALSE]
    /\ ownGood = [c \in Conns |-> 0]

ReadStep(c) == ReadError(c) \/ ClearConn(c)

ProbeStep(c) ==
    \/ ProbeStop(c)
    \/ Tick(c)
    \/ ProbeWrite(c)
    \/ ProbeWriteError(c)
    \/ Observe(c)
    \/ Switch(c)

CloseStep == CloseConn \/ CloseFlag

ConnStep(c) ==
    \/ SetICEConn(c)
    \/ StartLoops(c)
    \/ ReadPong(c)
    \/ ReadStep(c)
    \/ ProbeStep(c)
    \/ BackoffPasses(c)
    \/ AgentClose(c)
    \/ \E p \in Paths : PathChange(c, p)

Next ==
    \/ \E c \in Conns : ConnStep(c)
    \/ PongAges
    \/ CloseStart
    \/ CloseStep

(* Goroutines that can run do run, tickers tick, timeouts pass, and a pong  *)
(* that is not lost arrives.  The engine closes the peer's ICE agent when   *)
(* it closes the link.                                                      *)
Fairness ==
    /\ \A c \in Conns :
          /\ WF_vars(StartLoops(c)) /\ WF_vars(ReadPong(c)) /\ WF_vars(ReadStep(c))
          /\ WF_vars(ProbeStep(c)) /\ WF_vars(BackoffPasses(c))
          /\ WF_vars(LinkClosed /\ AgentClose(c))
    /\ WF_vars(CloseStep)

Spec == Init /\ [][Next]_vars /\ Fairness

-----------------------------------------------------------------------------
(* Properties *)

(* Every variable keeps its type. *)
TypeOK ==
    /\ iceConn \in Conns \cup {NoConn}
    /\ useICE \in BOOLEAN
    /\ lastPong \in {"none", "recent", "old"}
    /\ closer \in {"open", "conn", "flag", "done"}
    /\ setter \in [Conns -> {"new", "set", "done"}]
    /\ replaced \in [Conns -> Conns \cup {NoConn}]
    /\ connClosed \in [Conns -> BOOLEAN]
    /\ path \in [Conns -> Paths]
    /\ inflight \in [Conns -> BOOLEAN]
    /\ reader \in [Conns -> {"off", "read", "clear", "done"}]
    /\ probe \in [Conns -> {"off", "tick", "write", "observe", "promote", "demote", "done"}]
    /\ unseen \in [Conns -> BOOLEAN]
    /\ good \in [Conns -> 0 .. Threshold]
    /\ direct \in [Conns -> BOOLEAN]
    /\ eligible \in [Conns -> BOOLEAN]
    /\ ownPong \in [Conns -> BOOLEAN]
    /\ ownGood \in [Conns -> 0 .. Threshold]

(* "A direct path must answer this many consecutive probes before any       *)
(* traffic is moved onto it": Write starts to use a connection only when    *)
(* that connection itself answered Threshold consecutive probes.            *)
DirectIsProbed ==
    [][\A c \in Conns : WritePath' = c /\ WritePath # c => ownGood[c] >= Threshold]_vars

(* A direct path "is abandoned the moment the probe stops responding":      *)
(* traffic does not stay on a dead path.                                    *)
DeadPathAbandoned ==
    \A c \in Conns : (WritePath = c /\ path[c] = "dead") ~> (WritePath # c \/ path[c] # "dead")

(* A direct path that works is used in the end, also after it stalled: the  *)
(* backoff delays a promotion and never rules it out.  A failed write of a  *)
(* probe does: it ends the probe loop of the connection.                    *)
HealthyPathUsed ==
    \A c \in Conns :
        <>[](/\ iceConn = c /\ path[c] = "good" /\ ~connClosed[c] /\ ~LinkClosed
             /\ probe[c] # "done")
            => []<>(WritePath = c)

(* The goroutines of a connection end once another connection has replaced  *)
(* it or the link is closed: nothing keeps reading from or probing it.      *)
LoopsEnd ==
    \A c \in Conns : (setter[c] = "done" /\ iceConn # c) ~> (reader[c] = "done" /\ probe[c] = "done")
=============================================================================
