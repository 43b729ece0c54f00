--------------------------- MODULE PeerLinkProofs ---------------------------
(* Proofs about PeerLink, for any number of connections and any threshold.  *)
EXTENDS PeerLink, TLAPS

LEMMA CountType ==
    ASSUME NEW n \in 0 .. Threshold
    PROVE  CountUp(n) \in 0 .. Threshold /\ CountUp(n) >= n
BY ThresholdAssumption DEF CountUp

LEMMA TypeNext == TypeOK /\ [Next]_vars => TypeOK'
<1>. SUFFICES ASSUME TypeOK, [Next]_vars PROVE TypeOK'
  OBVIOUS
<1>. USE DEF TypeOK, shared, network, pongs, state
<1>1. ASSUME NEW c \in Conns, ConnStep(c)
      PROVE  TypeOK'
  <2>1. CASE SetICEConn(c)
    BY <2>1 DEF SetICEConn
  <2>2. CASE StartLoops(c)
    BY <2>2 DEF StartLoops, CloseReplaced
  <2>3. CASE ReadPong(c)
    BY <2>3 DEF ReadPong
  <2>4. CASE ReadStep(c)
    BY <2>4 DEF ReadStep, ReadError, ClearConn
  <2>5. CASE ProbeStep(c)
    <3>1. CASE ProbeStop(c) \/ Tick(c)
      BY <3>1 DEF ProbeStop, Tick
    <3>2. CASE ProbeWrite(c) \/ ProbeWriteError(c)
      BY <3>2 DEF ProbeWrite, ProbeWriteError
    <3>3. CASE Observe(c)
      <4>1. /\ CountUp(good[c]) \in 0 .. Threshold
            /\ CountUp(ownGood[c]) \in 0 .. Threshold
            /\ 0 \in 0 .. Threshold
        BY CountType, ThresholdAssumption
      <4>2. ConsecutiveGood(c) \in 0 .. Threshold
        BY <4>1 DEF ConsecutiveGood
      <4>3. good' \in [Conns -> 0 .. Threshold] /\ ownGood' \in [Conns -> 0 .. Threshold]
        BY <3>3, <4>1, <4>2 DEF Observe
      <4>4. Stalls(c) \in BOOLEAN /\ DirectAfter(c) \in BOOLEAN
        BY DEF Stalls, DirectAfter, Qualifies, Answered
      <4>5. /\ direct' \in [Conns -> BOOLEAN] /\ eligible' \in [Conns -> BOOLEAN]
            /\ unseen' \in [Conns -> BOOLEAN] /\ ownPong' \in [Conns -> BOOLEAN]
        BY <3>3, <4>4 DEF Observe
      <4>6. probe' \in [Conns -> {"off", "tick", "write", "observe", "promote", "demote", "done"}]
        BY <3>3 DEF Observe
      <4>. QED
        BY <3>3, <4>3, <4>5, <4>6 DEF Observe
    <3>4. CASE Switch(c)
      BY <3>4 DEF Switch
    <3>. QED
      BY <2>5, <3>1, <3>2, <3>3, <3>4 DEF ProbeStep
  <2>6. CASE BackoffPasses(c)
    BY <2>6 DEF BackoffPasses
  <2>7. CASE AgentClose(c)
    BY <2>7 DEF AgentClose
  <2>8. ASSUME NEW p \in Paths, PathChange(c, p)
        PROVE  TypeOK'
    BY <2>8 DEF PathChange
  <2>. QED
    BY <1>1, <2>1, <2>2, <2>3, <2>4, <2>5, <2>6, <2>7, <2>8 DEF ConnStep
<1>2. CASE PongAges
  BY <1>2 DEF PongAges
<1>3. CASE CloseStart \/ CloseStep
  BY <1>3 DEF CloseStart, CloseStep, CloseConn, CloseFlag
<1>4. CASE UNCHANGED vars
  BY <1>4 DEF vars
<1>. QED
  BY <1>1, <1>2, <1>3, <1>4 DEF Next

(* Every variable of a link keeps its type. *)
THEOREM TypeCorrect == Spec => []TypeOK
<1>1. 0 \in 0 .. Threshold
  BY ThresholdAssumption
<1>2. Init => TypeOK
  <2>. SUFFICES ASSUME Init PROVE TypeOK
    OBVIOUS
  <2>1. /\ iceConn \in Conns \cup {NoConn} /\ replaced \in [Conns -> Conns \cup {NoConn}]
        /\ good \in [Conns -> 0 .. Threshold] /\ ownGood \in [Conns -> 0 .. Threshold]
        /\ path \in [Conns -> Paths]
    BY <1>1 DEF Init
  <2>. QED
    BY <2>1 DEF Init, TypeOK
<1>. QED
  BY <1>2, TypeNext, PTL DEF Spec

-----------------------------------------------------------------------------
(* What holds while the link only ever gets one connection: before its      *)
(* loops run nothing was probed or switched, every pong the probe loop      *)
(* counts is the connection's own, so the count never exceeds the number of *)
(* its own consecutive answers.                                             *)
ProbedAlone ==
    \A c \in Conns :
        /\ setter[c] # "done" =>
              ~useICE /\ lastPong = "none" /\ reader[c] = "off" /\ probe[c] = "off"
        /\ Answered(c) => ownPong[c]
        /\ good[c] <= ownGood[c]
        /\ probe[c] = "promote" => ownGood[c] >= Threshold

LEMMA ProbedAloneNext ==
    ASSUME \A c, d \in Conns : c = d
    PROVE  TypeOK /\ ProbedAlone /\ [Next]_vars => ProbedAlone'
<1>. SUFFICES ASSUME TypeOK, ProbedAlone, [Next]_vars PROVE ProbedAlone'
  OBVIOUS
<1>. USE DEF TypeOK, ProbedAlone, Answered, shared, network, pongs, state
<1>1. ASSUME NEW c \in Conns, ConnStep(c)
      PROVE  ProbedAlone'
  <2>1. CASE SetICEConn(c)
    BY <2>1 DEF SetICEConn
  <2>2. CASE StartLoops(c)
    BY <2>2 DEF StartLoops
  <2>3. CASE ReadPong(c)
    BY <2>3 DEF ReadPong
  <2>4. CASE ReadStep(c)
    BY <2>4 DEF ReadStep, ReadError, ClearConn
  <2>5. CASE ProbeStep(c)
    <3>1. CASE ProbeStop(c) \/ Tick(c)
      BY <3>1 DEF ProbeStop, Tick
    <3>2. CASE ProbeWrite(c) \/ ProbeWriteError(c)
      BY <3>2 DEF ProbeWrite, ProbeWriteError
    <3>3. CASE Observe(c)
      <4>1. good[c] \in Nat /\ ownGood[c] \in Nat /\ good[c] <= ownGood[c] /\ ownGood[c] <= Threshold
        BY ThresholdAssumption
      <4>2. good'[c] = ConsecutiveGood(c) /\ ownGood'[c] = IF ownPong[c] THEN CountUp(ownGood[c]) ELSE 0
        BY <3>3 DEF Observe
      <4>3. CountUp(good[c]) <= CountUp(ownGood[c]) /\ CountUp(ownGood[c]) >= 0
        BY <4>1, ThresholdAssumption DEF CountUp
      <4>4. good'[c] <= ownGood'[c]
        BY <4>2, <4>3 DEF ConsecutiveGood
      <4>5. probe'[c] = "promote" => ownGood'[c] >= Threshold
        <5>1. probe'[c] = "promote" => ConsecutiveGood(c) >= Threshold
          BY <3>3 DEF Observe, Qualifies
        <5>. QED
          BY <5>1, <4>2, <4>4, <4>1, CountType, ThresholdAssumption DEF ConsecutiveGood, CountUp
      <4>6. ~unseen'[c]
        BY <3>3 DEF Observe
      <4>7. setter[c] = "done"
        BY <3>3 DEF Observe
      <4>. QED
        BY <3>3, <4>4, <4>5, <4>6, <4>7 DEF Observe
    <3>4. CASE Switch(c)
      BY <3>4 DEF Switch
    <3>. QED
      BY <2>5, <3>1, <3>2, <3>3, <3>4 DEF ProbeStep
  <2>6. CASE BackoffPasses(c)
    BY <2>6 DEF BackoffPasses
  <2>7. CASE AgentClose(c)
    BY <2>7 DEF AgentClose
  <2>8. ASSUME NEW p \in Paths, PathChange(c, p)
        PROVE  ProbedAlone'
    BY <2>8 DEF PathChange
  <2>. QED
    BY <1>1, <2>1, <2>2, <2>3, <2>4, <2>5, <2>6, <2>7, <2>8 DEF ConnStep
<1>2. CASE PongAges
  BY <1>2 DEF PongAges
<1>3. CASE CloseStart \/ CloseStep
  BY <1>3 DEF CloseStart, CloseStep, CloseConn, CloseFlag
<1>4. CASE UNCHANGED vars
  BY <1>4 DEF vars
<1>. QED
  BY <1>1, <1>2, <1>3, <1>4 DEF Next

(* What the step property says, for the pair of states of one step. *)
LEMMA StepIsProbed ==
    ASSUME \A c, d \in Conns : c = d, TypeOK, ProbedAlone, [Next]_vars,
           NEW c \in Conns, WritePath' = c, WritePath # c
    PROVE  ownGood[c] >= Threshold
<1>. USE DEF TypeOK, WritePath, shared, network, pongs, state
<1>1. /\ useICE' /\ iceConn' = c /\ ~connClosed'[c]
  BY ConnAssumption
<1>2. ASSUME NEW d \in Conns, ConnStep(d)
      PROVE  ownGood[c] >= Threshold
  <2>. c = d
    OBVIOUS
  <2>1. CASE SetICEConn(d)
    BY <2>1, <1>1 DEF SetICEConn, ProbedAlone
  <2>2. CASE StartLoops(d)
    BY <2>2, <1>1 DEF StartLoops, ProbedAlone
  <2>3. CASE ReadPong(d) \/ BackoffPasses(d) \/ AgentClose(d) \/ ReadStep(d)
    BY <2>3, <1>1 DEF ReadPong, BackoffPasses, AgentClose, ReadStep, ReadError, ClearConn
  <2>4. CASE ProbeStop(d) \/ Tick(d) \/ ProbeWrite(d) \/ ProbeWriteError(d) \/ Observe(d)
    BY <2>4, <1>1 DEF ProbeStop, Tick, ProbeWrite, ProbeWriteError, Observe
  <2>5. CASE Switch(d)
    BY <2>5, <1>1 DEF Switch, ProbedAlone
  <2>6. ASSUME NEW p \in Paths, PathChange(d, p)
        PROVE  ownGood[c] >= Threshold
    BY <2>6 DEF PathChange
  <2>. QED
    BY <1>2, <2>1, <2>2, <2>3, <2>4, <2>5, <2>6 DEF ConnStep, ProbeStep
<1>3. CASE PongAges \/ CloseStart \/ CloseStep
  BY <1>3, <1>1, ConnAssumption DEF PongAges, CloseStart, CloseStep, CloseConn, CloseFlag
<1>4. CASE UNCHANGED vars
  BY <1>4 DEF vars
<1>. QED
  BY <1>2, <1>3, <1>4 DEF Next

(* On a link that gets a single ICE connection, traffic moves onto it only  *)
(* after Threshold consecutive probes were answered over it, whatever the   *)
(* network, the two loops and Close do to each other.                       *)
THEOREM DirectPathIsProbed ==
    ASSUME \A c, d \in Conns : c = d
    PROVE  Spec => DirectIsProbed
<1>1. Init => ProbedAlone
  <2>. SUFFICES ASSUME Init, NEW c \in Conns
                PROVE  /\ ~useICE /\ lastPong = "none" /\ reader[c] = "off" /\ probe[c] = "off"
                       /\ lastPong # "recent" /\ good[c] <= ownGood[c] /\ probe[c] # "promote"
    BY Zenon DEF ProbedAlone, Answered
  <2>. QED
    BY DEF Init
<1>2. TypeOK /\ ProbedAlone /\ [Next]_vars => ProbedAlone'
  BY ProbedAloneNext
<1>3. TypeOK /\ ProbedAlone /\ [Next]_vars =>
        [\A c \in Conns : WritePath' = c /\ WritePath # c => ownGood[c] >= Threshold]_vars
  BY StepIsProbed
<1>. QED
  BY <1>1, <1>2, <1>3, TypeCorrect, PTL DEF Spec, DirectIsProbed
=============================================================================
