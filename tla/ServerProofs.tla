----------------------------- MODULE ServerProofs -----------------------------
(***************************************************************************)
(* Proofs about the parts of the management server that keep their state   *)
(* in memory: the streams of SyncHub, the limits of LoginLimits and the    *)
(* revocations of Tokens.  They share no variable.                         *)
(***************************************************************************)
EXTENDS SyncHub, LoginLimits, Tokens, FiniteSetTheorems, TLAPS

-----------------------------------------------------------------------------
(* The open streams *)

LEMMA StreamKey == \A s \in Streams : KeyOf(s) \in Keys
BY DEF Streams, KeyOf

LEMMA TypeInit == Init => TypeOK
BY DEF Init, TypeOK, Versions, Nothing, IsMap, EmptyMap, MutatorStates

LEMMA TypeSync ==
    ASSUME TypeOK, NEW s \in Streams, SyncStep(s)
    PROVE  TypeOK'
<1>. USE StreamKey
<1>1. CASE Register(s)
  BY <1>1 DEF Register, TypeOK, IsMap, Put
<1>2. CASE GiveUp(s)
  BY <1>2 DEF GiveUp, TypeOK, IsMap
<1>3. ASSUME NEW from, NEW kind \in Kinds, NEW to \in {"readRules", "send"},
             Read(s, from, kind, to)
      PROVE  TypeOK'
  <2>1. version[kind] \in Nat /\ got[s] \in Versions
    BY DEF TypeOK, Versions
  <2>2. [got[s] EXCEPT ![kind] = version[kind]] \in Versions
    BY <2>1 DEF Versions
  <2>. QED
    BY <1>3, <2>2 DEF Read, TypeOK, IsMap
<1>4. CASE SendResponse(s)
  BY <1>4 DEF SendResponse, TypeOK, IsMap
<1>5. CASE Wait(s)
  BY <1>5 DEF Wait, TypeOK, IsMap
<1>6. CASE Unregister(s)
  BY <1>6 DEF Unregister, TypeOK, IsMap, Drop
<1>7. CASE Return(s)
  BY <1>7 DEF Return, Notified, TypeOK, IsMap, Versions, Nothing
<1>. QED
  BY <1>1, <1>2, <1>3, <1>4, <1>5, <1>6, <1>7 DEF SyncStep, ReadPeers, ReadRules, Kinds

LEMMA TypeAgent ==
    ASSUME TypeOK, NEW s \in Streams, AgentStep(s) \/ CancelContext(s)
    PROVE  TypeOK'
<1>1. CASE OpenStream(s)
  BY <1>1 DEF OpenStream, TypeOK, IsMap
<1>2. CASE LoseStream(s)
  BY <1>2 DEF LoseStream, TypeOK, IsMap
<1>3. CASE CancelContext(s)
  BY <1>3 DEF CancelContext, TypeOK, IsMap
<1>. QED
  BY <1>1, <1>2, <1>3 DEF AgentStep

LEMMA TypeMutator ==
    ASSUME TypeOK, NEW m \in Mutators, MutatorStep(m)
    PROVE  TypeOK'
<1>1. ASSUME NEW kind \in Kinds, Change(m, kind)
      PROVE  TypeOK'
  <2>1. version[kind] + 1 \in Nat
    BY DEF TypeOK, Versions
  <2>2. [pc |-> "notify", kind |-> kind, version |-> version[kind] + 1] \in MutatorStates
    BY <2>1 DEF MutatorStates
  <2>. QED
    BY <1>1, <2>1, <2>2 DEF Change, TypeOK, IsMap, Versions
<1>2. CASE ChangeSilently(m)
  BY <1>2 DEF ChangeSilently, TypeOK, IsMap, Versions, Kinds
<1>3. CASE Notify(m)
  <2>1. mutator[m].kind \in Kinds /\ mutator[m].version \in Nat
    BY <1>3 DEF Notify, TypeOK, MutatorStates, Idle
  <2>. QED
    BY <1>3, <2>1 DEF Notify, Notified, TypeOK, IsMap, Versions, MutatorStates
<1>. QED
  BY <1>1, <1>2, <1>3 DEF MutatorStep

LEMMA TypeNext == TypeOK /\ [Next]_vars => TypeOK'
<1>. SUFFICES ASSUME TypeOK, [Next]_vars PROVE TypeOK'
  OBVIOUS
<1>1. CASE UNCHANGED vars
  BY <1>1 DEF vars, TypeOK, IsMap
<1>. QED
  BY <1>1, TypeSync, TypeAgent, TypeMutator DEF Next

(* Every variable of the push side keeps its type. *)
THEOREM TypeCorrect == Spec => []TypeOK
BY TypeInit, TypeNext, PTL DEF Spec

-----------------------------------------------------------------------------
(* No lost wake-up *)

(* notifyAll runs after the write: nobody is notified of a version that is  *)
(* not in the store yet.                                                    *)
NotifyFollowsWrite ==
    /\ \A kind \in Kinds : notified[kind] <= version[kind]
    /\ \A m \in Mutators : mutator[m].pc = "notify" =>
                             mutator[m].version <= version[mutator[m].kind]

WakeupInv == NotifyFollowsWrite /\ NoLostWakeup

LEMMA WakeupInit == Init => WakeupInv
BY DEF Init, WakeupInv, NotifyFollowsWrite, NoLostWakeup, Nothing, Idle, EmptyMap, Kinds

LEMMA WrittenNext == TypeOK /\ NotifyFollowsWrite /\ [Next]_vars => NotifyFollowsWrite'
<1>. SUFFICES ASSUME TypeOK, NotifyFollowsWrite, [Next]_vars PROVE NotifyFollowsWrite'
  OBVIOUS
<1>1. ASSUME NEW m \in Mutators, NEW kind \in Kinds, Change(m, kind)
      PROVE  NotifyFollowsWrite'
  BY <1>1 DEF Change, NotifyFollowsWrite, TypeOK, Versions, MutatorStates, Idle
<1>2. ASSUME NEW m \in Mutators, ChangeSilently(m)
      PROVE  NotifyFollowsWrite'
  BY <1>2 DEF ChangeSilently, NotifyFollowsWrite, TypeOK, Versions, MutatorStates, Idle, Kinds
<1>3. ASSUME NEW m \in Mutators, Notify(m)
      PROVE  NotifyFollowsWrite'
  BY <1>3 DEF Notify, NotifyFollowsWrite, TypeOK, Versions, MutatorStates, Idle
<1>4. CASE UNCHANGED <<version, notified, mutator>>
  BY <1>4 DEF NotifyFollowsWrite
<1>5. ASSUME NEW s \in Streams, SyncStep(s) \/ AgentStep(s) \/ CancelContext(s)
      PROVE  UNCHANGED <<version, notified, mutator>>
  BY <1>5 DEF SyncStep, AgentStep, CancelContext, OpenStream, LoseStream, Register, GiveUp,
              ReadPeers, ReadRules, Read, SendResponse, Wait, Unregister, Return
<1>. QED
  BY <1>1, <1>2, <1>3, <1>4, <1>5 DEF Next, MutatorStep, vars

(* A step of one Sync call concerns only its own entry in NoLostWakeup.  A  *)
(* read takes the version in the store, which is at least the one notified; *)
(* taking the token starts a new round of reads.                            *)
LEMMA WakeupSync ==
    ASSUME TypeOK, TypeOK', WakeupInv, NEW s \in Streams, SyncStep(s)
    PROVE  NoLostWakeup'
<1>. SUFFICES ASSUME NEW k \in DOMAIN subs', NEW kind \in Kinds, HasRead(subs[k], kind)'
              PROVE  token'[subs'[k]] \/ got'[subs'[k]][kind] >= notified'[kind]
  BY DEF NoLostWakeup
<1>. DEFINE t == subs'[k]
<1>0. t \in Streams
  BY DEF TypeOK, IsMap
<1>1. CASE Register(s)
  BY <1>0, <1>1 DEF Register, HasRead, WakeupInv, NoLostWakeup, TypeOK, IsMap, Put
<1>2. CASE GiveUp(s)
  BY <1>0, <1>2 DEF GiveUp, HasRead, WakeupInv, NoLostWakeup, TypeOK, IsMap
<1>3. CASE ReadPeers(s)
  <2>1. version[kind] >= notified[kind]
    BY DEF WakeupInv, NotifyFollowsWrite, TypeOK, Versions
  <2>. QED
    BY <1>0, <1>3, <2>1
    DEF ReadPeers, Read, HasRead, WakeupInv, NoLostWakeup, TypeOK, IsMap, Versions, Kinds
<1>4. CASE ReadRules(s)
  <2>1. version[kind] >= notified[kind]
    BY DEF WakeupInv, NotifyFollowsWrite, TypeOK, Versions
  <2>. QED
    BY <1>0, <1>4, <2>1
    DEF ReadRules, Read, HasRead, WakeupInv, NoLostWakeup, TypeOK, IsMap, Versions, Kinds
<1>5. CASE SendResponse(s)
  BY <1>0, <1>5 DEF SendResponse, HasRead, WakeupInv, NoLostWakeup, TypeOK, IsMap
<1>6. CASE Wait(s)
  BY <1>0, <1>6 DEF Wait, HasRead, WakeupInv, NoLostWakeup, TypeOK, IsMap
<1>7. CASE Unregister(s)
  BY <1>0, <1>7 DEF Unregister, HasRead, WakeupInv, NoLostWakeup, TypeOK, IsMap, Drop
<1>8. CASE Return(s)
  BY <1>0, <1>8 DEF Return, Notified, HasRead, WakeupInv, NoLostWakeup, TypeOK, IsMap
<1>. QED
  BY <1>1, <1>2, <1>3, <1>4, <1>5, <1>6, <1>7, <1>8 DEF SyncStep

LEMMA WakeupNext == TypeOK /\ TypeOK' /\ WakeupInv /\ [Next]_vars => WakeupInv'
<1>. SUFFICES ASSUME TypeOK, TypeOK', WakeupInv, [Next]_vars PROVE NoLostWakeup'
  BY WrittenNext DEF WakeupInv
<1>1. ASSUME NEW s \in Streams, AgentStep(s) \/ CancelContext(s)
      PROVE  NoLostWakeup'
  BY <1>1 DEF AgentStep, OpenStream, LoseStream, CancelContext, HasRead, WakeupInv,
              NoLostWakeup, TypeOK, IsMap
<1>2. ASSUME NEW m \in Mutators, MutatorStep(m)
      PROVE  NoLostWakeup'
  <2>1. CASE Notify(m)
    <3>1. \A k \in DOMAIN subs' : token'[subs'[k]]
      BY <2>1 DEF Notify, Notified, TypeOK, IsMap
    <3>. QED
      BY <3>1 DEF NoLostWakeup
  <2>2. CASE UNCHANGED <<notified, subs, pc, got, token>>
    BY <2>2 DEF NoLostWakeup, HasRead, WakeupInv
  <2>. QED
    BY <1>2, <2>1, <2>2 DEF MutatorStep, Change, ChangeSilently
<1>3. CASE UNCHANGED vars
  BY <1>3 DEF vars, NoLostWakeup, HasRead, WakeupInv
<1>. QED
  BY <1>1, <1>2, <1>3, WakeupSync DEF Next

(* However many Sync calls and handlers run, and even when calls of one     *)
(* device overlap, a subscribed call that has read old data has a token.    *)
THEOREM WakeupsKept == Spec => []NoLostWakeup
<1>1. WakeupInv => NoLostWakeup
  BY DEF WakeupInv
<1>. QED
  BY <1>1, WakeupInit, WakeupNext, TypeCorrect, PTL DEF Spec

-----------------------------------------------------------------------------
(* ConnectedKeys *)

Subscribed(s) == pc[s] \in {"readPeers", "readRules", "send", "wait", "unregister"}

(* One call per device, and `subs` is exactly the calls between registerSub *)
(* and unregisterSub.                                                       *)
SubsInv ==
    /\ \A s, t \in Streams : Open(s) /\ Open(t) /\ KeyOf(s) = KeyOf(t) => s = t
    /\ \A k \in DOMAIN subs : Subscribed(subs[k]) /\ KeyOf(subs[k]) = k
    /\ \A s \in Streams : Subscribed(s) => KeyOf(s) \in DOMAIN subs /\ subs[KeyOf(s)] = s

LEMMA SubsNext ==
    ASSUME Overlap = FALSE
    PROVE  TypeOK /\ SubsInv /\ [Next]_vars => SubsInv'
<1>. SUFFICES ASSUME TypeOK, SubsInv, [Next]_vars PROVE SubsInv'
  OBVIOUS
<1>. USE DEF SubsInv, Subscribed, Open, TypeOK, IsMap
<1>1. ASSUME NEW s \in Streams, SyncStep(s)
      PROVE  SubsInv'
  <2>1. CASE Register(s)
    BY <2>1, StreamKey DEF Register, Put
  <2>2. CASE GiveUp(s)
    BY <2>2 DEF GiveUp
  <2>3. CASE ReadPeers(s)
    BY <2>3 DEF ReadPeers, Read
  <2>4. CASE ReadRules(s)
    BY <2>4 DEF ReadRules, Read
  <2>5. CASE SendResponse(s)
    BY <2>5 DEF SendResponse
  <2>6. CASE Wait(s)
    BY <2>6 DEF Wait
  <2>7. CASE Unregister(s)
    BY <2>7, StreamKey DEF Unregister, Drop
  <2>8. CASE Return(s)
    BY <2>8 DEF Return
  <2>. QED
    BY <1>1, <2>1, <2>2, <2>3, <2>4, <2>5, <2>6, <2>7, <2>8 DEF SyncStep
<1>2. ASSUME NEW s \in Streams, AgentStep(s) \/ CancelContext(s)
      PROVE  SubsInv'
  <2>1. CASE OpenStream(s)
    BY <2>1 DEF OpenStream
  <2>2. CASE LoseStream(s) \/ CancelContext(s)
    BY <2>2 DEF LoseStream, CancelContext
  <2>. QED
    BY <1>2, <2>1, <2>2 DEF AgentStep
<1>3. ASSUME NEW m \in Mutators, MutatorStep(m)
      PROVE  SubsInv'
  BY <1>3 DEF MutatorStep, Change, ChangeSilently, Notify
<1>4. CASE UNCHANGED vars
  BY <1>4 DEF vars
<1>. QED
  BY <1>1, <1>2, <1>3, <1>4 DEF Next

(* If a device's next Sync starts only after the handler of the previous    *)
(* one has returned, ConnectedKeys is exactly the devices with an active    *)
(* stream.                                                                  *)
THEOREM ConnectedKeysExact ==
    ASSUME Overlap = FALSE
    PROVE  Spec => []ConnectedExact
<1>1. Init => SubsInv
  BY DEF Init, SubsInv, Subscribed, Open, EmptyMap
<1>2. TypeOK /\ SubsInv /\ [Next]_vars => SubsInv'
  BY SubsNext
<1>3. TypeOK /\ SubsInv => ConnectedExact
  BY DEF SubsInv, Subscribed, ConnectedExact, Connected, Open, TypeOK, IsMap
<1>. QED
  BY <1>1, <1>2, <1>3, TypeCorrect, PTL DEF Spec

-----------------------------------------------------------------------------
(* The limits on logins *)

(* What a source has used is what its bucket lacks, and a source without a  *)
(* bucket owes nothing.                                                     *)
BucketsExact ==
    \A s \in Sources :
        debt[s] = IF s \in DOMAIN buckets THEN Full - Refilled(buckets[s]) ELSE 0

(* The calls of a source between the two critical sections. *)
Pending(s) == {c \in AdminCalls : admin[c] = s}

(* Failures counted and failures to come. *)
PendingBounded ==
    \A s \in Sources :
        loginAttempts[s] + Cardinality(Pending(s)) < MaxTries + Cardinality(AdminCalls)

Buckets == [tokens : 0 .. Full, idle : 0 .. EvictAfter + 1]

-----------------------------------------------------------------------------
(* The facts about Full that the proofs use in place of its definition. *)
LEMMA FullFacts ==
    /\ Full \in Nat /\ Refill \in Nat /\ EvictAfter \in Nat /\ CleanAfter \in Nat
    /\ 1 <= Refill /\ Refill <= Full /\ Full <= EvictAfter
<1> DEFINE C == Capacity
           R == Refill
<1>1. C \in Nat /\ R \in Nat /\ 1 <= C /\ 1 <= R
  BY LimitAssumption
<1>2. C * R \in Nat /\ R <= C * R
  <2> HIDE DEF C, R
  <2>1. C * R \in Nat
    BY <1>1
  <2>2. (C - 1) * R \in Nat /\ C * R = (C - 1) * R + R
    BY <1>1
  <2> QED BY <1>1, <2>1, <2>2
<1> QED BY <1>1, <1>2, LimitAssumption DEF Full

(* Refilled and Charged keep a bucket within its capacity. *)
LEMMA BucketTypes ==
    ASSUME NEW b \in Buckets
    PROVE  /\ Refilled(b) \in 0 .. Full
           /\ Charged(b) \in Buckets
           /\ Refilled(Charged(b)) =
                IF Refilled(b) >= Refill THEN Refilled(b) - Refill ELSE Refilled(b)
<1>1. b.tokens \in 0 .. Full /\ b.idle \in 0 .. EvictAfter + 1
  BY DEF Buckets
<1>2. Refilled(b) \in 0 .. Full
  BY <1>1, FullFacts DEF Refilled, AtMost
<1> DEFINE r == Refilled(b)
           t == IF r >= Refill THEN r - Refill ELSE r
<1>3. t \in 0 .. Full /\ Charged(b) = [tokens |-> t, idle |-> 0]
  BY <1>2, FullFacts DEF Charged
<1>4. Charged(b) \in Buckets
  BY <1>3, FullFacts DEF Buckets
<1>5. Refilled(Charged(b)) = t
  <2> HIDE DEF t
  <2> QED BY <1>3, FullFacts DEF Refilled, AtMost
<1> QED BY <1>2, <1>4, <1>5

(* The eviction only drops buckets that are full. *)
LEMMA KeptFacts ==
    ASSUME LimitTypeOK
    PROVE  /\ IsMap(Kept, Sources, Buckets)
           /\ DOMAIN Kept \subseteq DOMAIN buckets
           /\ \A s \in DOMAIN Kept : Kept[s] = buckets[s]
           /\ \A s \in DOMAIN buckets \ DOMAIN Kept : Refilled(buckets[s]) = Full
<1>1. IsMap(buckets, Sources, Buckets)
  BY DEF LimitTypeOK, Buckets
<1>2. \A s \in DOMAIN buckets : buckets[s].tokens \in 0 .. Full /\ buckets[s].idle \in 0 .. EvictAfter + 1
  BY <1>1 DEF IsMap, Buckets
<1>3. CASE cleaned <= CleanAfter
  BY <1>1, <1>3 DEF Kept
<1>4. CASE ~(cleaned <= CleanAfter)
  <2> DEFINE K == {t \in DOMAIN buckets : buckets[t].idle <= EvictAfter}
  <2>1. Kept = [s \in K |-> buckets[s]]
    BY <1>4 DEF Kept
  <2>2. IsMap(Kept, Sources, Buckets)
    BY <1>1, <2>1 DEF IsMap
  <2>3. \A s \in DOMAIN buckets \ K : Refilled(buckets[s]) = Full
    BY <1>2, FullFacts DEF Refilled, AtMost
  <2> QED BY <2>1, <2>2, <2>3
<1> QED BY <1>3, <1>4

(* What the buckets allow is what the debts allow. *)
LEMMA ExactAllows ==
    ASSUME LimitTypeOK, BucketsExact
    PROVE  LimiterExact
<1> SUFFICES ASSUME NEW s \in Sources
             PROVE  Allowed(s) <=> debt[s] + Refill <= Full
  BY DEF LimiterExact
<1>1. CASE s \in DOMAIN Kept
  <2>1. Kept[s] = buckets[s] /\ s \in DOMAIN buckets /\ Refilled(buckets[s]) \in 0 .. Full
    BY <1>1, KeptFacts, BucketTypes DEF IsMap
  <2>2. debt[s] = Full - Refilled(buckets[s])
    BY <2>1 DEF BucketsExact
  <2>3. Allowed(s) <=> Refilled(buckets[s]) >= Refill
    BY <1>1, <2>1 DEF Allowed
  <2> QED BY <2>1, <2>2, <2>3, FullFacts
<1>2. CASE s \notin DOMAIN Kept
  <2>1. debt[s] = 0
    BY <1>2, KeptFacts, FullFacts DEF BucketsExact
  <2> QED BY <1>2, <2>1, FullFacts DEF Allowed
<1> QED BY <1>1, <1>2

-----------------------------------------------------------------------------
(* The buckets *)

(* An attempt keeps the account, whether it is allowed or not. *)
LEMMA AllowKeeps ==
    ASSUME LimitTypeOK, BucketsExact, NEW s \in Sources, Allow(s)
    PROVE  LimitTypeOK' /\ BucketsExact'
<1> DEFINE nb == IF s \in DOMAIN Kept THEN Charged(Kept[s])
                 ELSE [tokens |-> Full - Refill, idle |-> 0]
<1>1. buckets' = Put(Kept, s, nb)
  BY DEF Allow
<1>2. nb \in Buckets
  <2>1. CASE s \in DOMAIN Kept
    BY <2>1, KeptFacts, BucketTypes DEF IsMap
  <2>2. CASE s \notin DOMAIN Kept
    BY <2>2, FullFacts DEF Buckets
  <2> QED BY <2>1, <2>2
<1>3. debt' = IF Allowed(s) THEN Owe(s) ELSE debt
  BY DEF Allow
<1>4. debt \in [Sources -> Nat]
  BY DEF LimitTypeOK
<1>5. debt' \in [Sources -> Nat]
  BY <1>3, <1>4, FullFacts DEF Owe
<1>6. debt'[s] = Full - Refilled(nb)
  <2>1. CASE s \in DOMAIN Kept
    <3>1. Kept[s] \in Buckets /\ Kept[s] = buckets[s] /\ s \in DOMAIN buckets
      BY <2>1, KeptFacts DEF IsMap
    <3>2. debt[s] = Full - Refilled(Kept[s]) /\ Refilled(Kept[s]) \in 0 .. Full
      BY <3>1, BucketTypes DEF BucketsExact
    <3>3. Allowed(s) <=> Refilled(Kept[s]) >= Refill
      BY <2>1 DEF Allowed
    <3>4. Refilled(nb) = IF Refilled(Kept[s]) >= Refill THEN Refilled(Kept[s]) - Refill
                         ELSE Refilled(Kept[s])
      BY <2>1, <3>1, BucketTypes
    <3>5. debt'[s] = IF Refilled(Kept[s]) >= Refill THEN debt[s] + Refill ELSE debt[s]
      BY <1>3, <1>4, <3>3 DEF Owe
    <3> HIDE DEF nb
    <3> QED BY <3>2, <3>4, <3>5, FullFacts
  <2>2. CASE s \notin DOMAIN Kept
    <3>1. debt[s] = 0 /\ Allowed(s)
      BY <2>2, KeptFacts, FullFacts DEF BucketsExact, Allowed
    <3>2. debt'[s] = Refill
      BY <1>3, <1>4, <3>1, FullFacts DEF Owe
    <3>3. Refilled(nb) = Full - Refill
      BY <2>2, FullFacts DEF Refilled, AtMost
    <3> QED BY <3>2, <3>3, FullFacts
  <2> QED BY <2>1, <2>2
<1>7. \A t \in Sources \ {s} : debt'[t] = debt[t]
  BY <1>3, <1>4 DEF Owe
<1> HIDE DEF nb
<1>8. /\ DOMAIN buckets' = DOMAIN Kept \cup {s}
      /\ buckets'[s] = nb
      /\ \A t \in DOMAIN Kept \ {s} : buckets'[t] = Kept[t]
  BY <1>1 DEF Put
<1>9. BucketsExact'
  <2> SUFFICES ASSUME NEW t \in Sources
               PROVE  debt'[t] = IF t \in DOMAIN buckets' THEN Full - Refilled(buckets'[t]) ELSE 0
    BY DEF BucketsExact, Refilled, AtMost, Full
  <2>1. CASE t = s
    BY <2>1, <1>6, <1>8
  <2>2. CASE t # s /\ t \in DOMAIN Kept
    BY <2>2, <1>7, <1>8, KeptFacts DEF BucketsExact
  <2>3. CASE t # s /\ t \notin DOMAIN Kept
    <3>1. debt[t] = 0
      BY <2>3, KeptFacts, FullFacts DEF BucketsExact
    <3> QED BY <2>3, <3>1, <1>7, <1>8
  <2> QED BY <2>1, <2>2, <2>3
<1>10. IsMap(buckets', Sources, Buckets)
  BY <1>1, <1>2, <1>8, KeptFacts DEF IsMap, Put
<1>11. cleaned' \in 0 .. CleanAfter + 1
  BY FullFacts DEF Allow, LimitTypeOK
<1>12. UNCHANGED <<loginAttempts, admin>>
  BY DEF Allow
<1> QED BY <1>5, <1>9, <1>10, <1>11, <1>12 DEF LimitTypeOK, Buckets, Full

(* A tick adds to a bucket what it takes from the debt. *)
LEMMA PassKeeps ==
    ASSUME LimitTypeOK, BucketsExact, Pass
    PROVE  LimitTypeOK' /\ BucketsExact'
<1>1. /\ DOMAIN buckets' = DOMAIN buckets /\ DOMAIN buckets \subseteq Sources
      /\ \A s \in DOMAIN buckets :
            buckets'[s] = [tokens |-> buckets[s].tokens,
                           idle |-> AtMost(buckets[s].idle + 1, EvictAfter + 1)]
  BY DEF Pass, LimitTypeOK, IsMap
<1>2. \A s \in DOMAIN buckets : buckets[s].tokens \in 0 .. Full /\ buckets[s].idle \in 0 .. EvictAfter + 1
  BY DEF LimitTypeOK, IsMap
<1>3. \A s \in DOMAIN buckets : buckets'[s] \in Buckets
  BY <1>1, <1>2, FullFacts DEF Buckets, AtMost
<1>4. IsMap(buckets', Sources, Buckets)
  BY <1>1, <1>3 DEF IsMap, Pass
<1>5. /\ debt \in [Sources -> Nat] /\ debt' \in [Sources -> Nat]
      /\ \A s \in Sources : debt'[s] = IF debt[s] > 0 THEN debt[s] - 1 ELSE 0
  BY DEF Pass, LimitTypeOK
<1>6. BucketsExact'
  <2> SUFFICES ASSUME NEW s \in Sources
               PROVE  debt'[s] = IF s \in DOMAIN buckets' THEN Full - Refilled(buckets'[s]) ELSE 0
    BY DEF BucketsExact, Refilled, AtMost, Full
  <2>1. CASE s \notin DOMAIN buckets
    BY <2>1, <1>1, <1>5 DEF BucketsExact
  <2>2. CASE s \in DOMAIN buckets
    <3>1. debt[s] = Full - Refilled(buckets[s])
      BY <2>2 DEF BucketsExact
    <3>2. Refilled(buckets'[s]) = AtMost(buckets[s].tokens + AtMost(buckets[s].idle + 1, EvictAfter + 1), Full)
      BY <2>2, <1>1 DEF Refilled
    <3>3. Refilled(buckets[s]) = AtMost(buckets[s].tokens + buckets[s].idle, Full)
      BY DEF Refilled
    <3> DEFINE tokens == buckets[s].tokens
               idle == buckets[s].idle
    <3>4. tokens \in Nat /\ idle \in 0 .. EvictAfter + 1 /\ Full \in Nat /\ EvictAfter \in Nat
          /\ Full <= EvictAfter
      BY <2>2, <1>2, FullFacts
    <3> HIDE DEF tokens, idle
    <3>5. LET owed == Full - AtMost(tokens + idle, Full)
          IN  (IF owed > 0 THEN owed - 1 ELSE 0)
                  = Full - AtMost(tokens + AtMost(idle + 1, EvictAfter + 1), Full)
      BY <3>4 DEF AtMost
    <3> QED BY <2>2, <1>1, <1>5, <3>1, <3>2, <3>3, <3>5 DEF tokens, idle
  <2> QED BY <2>1, <2>2
<1>7. cleaned' \in 0 .. CleanAfter + 1
  BY FullFacts DEF Pass, LimitTypeOK, AtMost
<1>8. UNCHANGED <<loginAttempts, admin>>
  BY DEF Pass
<1> QED BY <1>4, <1>5, <1>6, <1>7, <1>8 DEF LimitTypeOK, Buckets, Full

-----------------------------------------------------------------------------
(* The failures of administrators *)

(* The pending calls are at most all calls. *)
LEMMA PendingFacts ==
    ASSUME NEW s \in Sources
    PROVE  /\ IsFiniteSet(AdminCalls) /\ Cardinality(AdminCalls) \in Nat
           /\ IsFiniteSet(Pending(s)) /\ Cardinality(Pending(s)) \in Nat
           /\ Cardinality(Pending(s)) <= Cardinality(AdminCalls)
<1>1. IsFiniteSet(AdminCalls) /\ Pending(s) \subseteq AdminCalls
  BY LimitAssumption DEF Pending
<1> QED BY <1>1, FS_Subset, FS_CardinalityType

(* A call that passes the check finds room for all calls that overlap it. *)
LEMMA CheckKeeps ==
    ASSUME LimitTypeOK, PendingBounded,
           NEW c \in AdminCalls, NEW s \in Sources, CheckAttempts(c, s)
    PROVE  LimitTypeOK' /\ PendingBounded'
<1>1. admin' = [admin EXCEPT ![c] = s] /\ admin \in [AdminCalls -> Sources \cup {NoSource}]
  BY DEF CheckAttempts, LimitTypeOK
<1>2. UNCHANGED <<buckets, cleaned, debt, loginAttempts>> /\ loginAttempts[s] < MaxTries
  BY DEF CheckAttempts, MayTry
<1>3. LimitTypeOK'
  BY <1>1, <1>2 DEF LimitTypeOK, Full
<1>4. PendingBounded'
  <2> SUFFICES ASSUME NEW t \in Sources
               PROVE  loginAttempts[t] + Cardinality(Pending(t)') < MaxTries + Cardinality(AdminCalls)
    BY <1>2 DEF PendingBounded
  <2>1. loginAttempts[t] \in Nat /\ MaxTries \in Nat
    BY LimitAssumption DEF LimitTypeOK
  <2>2. IsFiniteSet(AdminCalls) /\ Pending(t)' \subseteq AdminCalls
    BY LimitAssumption DEF Pending
  <2>3. /\ Cardinality(AdminCalls) \in Nat /\ Cardinality(Pending(t)') \in Nat
        /\ Cardinality(Pending(t)') <= Cardinality(AdminCalls)
    BY <2>2, FS_Subset, FS_CardinalityType
  <2>4. CASE t = s
    BY <2>1, <2>3, <2>4, <1>2
  <2>5. CASE t # s
    <3>1. Pending(t)' \subseteq Pending(t)
      BY <1>1, <2>5 DEF Pending
    <3>2. Cardinality(Pending(t)') <= Cardinality(Pending(t))
      BY <3>1, PendingFacts, FS_Subset
    <3> QED BY <2>1, <2>3, <3>2, PendingFacts DEF PendingBounded
  <2> QED BY <2>4, <2>5
<1> QED BY <1>3, <1>4

(* A call that ends makes room for the failure it may count. *)
LEMMA EndKeeps ==
    ASSUME LimitTypeOK, PendingBounded,
           NEW c \in AdminCalls, CountFailure(c) \/ EndLogin(c)
    PROVE  LimitTypeOK' /\ PendingBounded'
<1> DEFINE s == admin[c]
<1>1. s \in Sources /\ admin \in [AdminCalls -> Sources \cup {NoSource}]
  BY DEF CountFailure, EndLogin, LimitTypeOK
<1>2. admin' = [admin EXCEPT ![c] = NoSource] /\ UNCHANGED <<buckets, cleaned, debt>>
  BY DEF CountFailure, EndLogin
<1>3. loginAttempts \in [Sources -> Nat]
  BY DEF LimitTypeOK
<1>4. loginAttempts' \in [Sources -> Nat]
  BY <1>1, <1>3 DEF CountFailure, EndLogin
<1>5. LimitTypeOK'
  BY <1>1, <1>2, <1>4 DEF LimitTypeOK, Full
<1>6. \A t \in Sources : Pending(t)' = Pending(t) \ {c}
  BY <1>1, <1>2, LimitAssumption DEF Pending
<1>7. PendingBounded'
  <2> SUFFICES ASSUME NEW t \in Sources
               PROVE  loginAttempts'[t] + Cardinality(Pending(t) \ {c}) < MaxTries + Cardinality(AdminCalls)
    BY <1>6 DEF PendingBounded
  <2>1. /\ IsFiniteSet(Pending(t)) /\ Cardinality(Pending(t)) \in Nat
        /\ Cardinality(AdminCalls) \in Nat /\ MaxTries \in Nat
        /\ loginAttempts[t] \in Nat
        /\ loginAttempts[t] + Cardinality(Pending(t)) < MaxTries + Cardinality(AdminCalls)
    BY <1>3, PendingFacts, LimitAssumption DEF PendingBounded
  <2>2. CASE t = s
    <3>1. c \in Pending(t)
      BY <2>2 DEF Pending
    <3>2. Cardinality(Pending(t) \ {c}) = Cardinality(Pending(t)) - 1
      BY <2>1, <3>1, FS_RemoveElement
    <3>3. loginAttempts'[t] \in {loginAttempts[t], loginAttempts[t] + 1}
      BY <1>1, <1>3, <2>2 DEF CountFailure, EndLogin
    <3> DEFINE p == Cardinality(Pending(t))
               n == Cardinality(AdminCalls)
    <3>4. ASSUME NEW k \in Nat, NEW j, j \in {k, k + 1}, p \in Nat, n \in Nat, MaxTries \in Nat,
                 k + p < MaxTries + n
          PROVE  j + (p - 1) < MaxTries + n
      BY <3>4
    <3> HIDE DEF p, n
    <3>5. p \in Nat /\ n \in Nat /\ loginAttempts[t] + p < MaxTries + n
      BY <2>1 DEF p, n
    <3>6. loginAttempts'[t] + (p - 1) < MaxTries + n
      BY <2>1, <3>3, <3>4, <3>5
    <3> QED BY <3>2, <3>6 DEF p, n
  <2>3. CASE t # s
    <3>1. c \notin Pending(t)
      BY <2>3 DEF Pending
    <3>2. Pending(t) \ {c} = Pending(t) /\ loginAttempts'[t] = loginAttempts[t]
      BY <3>1, <1>1, <1>3, <2>3 DEF CountFailure, EndLogin
    <3> QED BY <2>1, <3>2
  <2> QED BY <2>2, <2>3
<1> QED BY <1>5, <1>7

(* The reset leaves the calls that are pending. *)
LEMMA ResetKeeps ==
    ASSUME LimitTypeOK, ResetAttempts
    PROVE  LimitTypeOK' /\ PendingBounded'
<1>1. UNCHANGED <<buckets, cleaned, debt, admin>> /\ loginAttempts' = [s \in Sources |-> 0]
  BY DEF ResetAttempts
<1>2. LimitTypeOK'
  BY <1>1 DEF LimitTypeOK, Full
<1>3. \A s \in Sources : Pending(s)' = Pending(s) /\ loginAttempts'[s] = 0
  BY <1>1 DEF Pending
<1>4. PendingBounded'
  BY <1>3, PendingFacts, LimitAssumption DEF PendingBounded
<1> QED BY <1>2, <1>4

-----------------------------------------------------------------------------
LimitInv == LimitTypeOK /\ BucketsExact /\ PendingBounded

(* Nothing is used and nobody is pending at the start. *)
LEMMA LimitStart == LimitInit => LimitInv
<1> SUFFICES ASSUME LimitInit PROVE LimitInv
  OBVIOUS
<1>1. LimitTypeOK
  BY FullFacts DEF LimitInit, LimitTypeOK, IsMap, EmptyMap
<1>2. BucketsExact
  BY DEF LimitInit, BucketsExact, EmptyMap
<1>3. \A s \in Sources : Pending(s) = {} /\ loginAttempts[s] = 0
  BY LimitAssumption DEF LimitInit, Pending
<1>4. PendingBounded
  BY <1>3, PendingFacts, FS_EmptySet, LimitAssumption DEF PendingBounded
<1> QED BY <1>1, <1>2, <1>4 DEF LimitInv

(* One case per action: the buckets and the failures do not interfere. *)
LEMMA LimitSteps == LimitInv /\ [LimitNext]_limitVars => LimitInv'
<1> SUFFICES ASSUME LimitInv, [LimitNext]_limitVars PROVE LimitInv'
  OBVIOUS
<1>1. LimitTypeOK /\ BucketsExact /\ PendingBounded
  BY DEF LimitInv
<1>2. UNCHANGED <<loginAttempts, admin>> => PendingBounded'
  BY <1>1 DEF PendingBounded, Pending
<1>3. UNCHANGED <<buckets, debt>> => BucketsExact'
  BY <1>1 DEF BucketsExact, Refilled, AtMost, Full
<1>4. CASE \E s \in Sources : Allow(s)
  <2>1. PICK s \in Sources : Allow(s)
    BY <1>4
  <2>2. UNCHANGED <<loginAttempts, admin>>
    BY <2>1 DEF Allow
  <2> QED BY <1>1, <1>2, <2>1, <2>2, AllowKeeps DEF LimitInv
<1>5. CASE Pass
  <2>1. UNCHANGED <<loginAttempts, admin>>
    BY <1>5 DEF Pass
  <2> QED BY <1>1, <1>2, <1>5, <2>1, PassKeeps DEF LimitInv
<1>6. CASE \E c \in AdminCalls : AdminStep(c)
  <2>1. PICK c \in AdminCalls : AdminStep(c)
    BY <1>6
  <2>2. CASE \E s \in Sources : CheckAttempts(c, s)
    <3>1. PICK s \in Sources : CheckAttempts(c, s)
      BY <2>2
    <3>2. UNCHANGED <<buckets, debt>>
      BY <3>1 DEF CheckAttempts
    <3> QED BY <1>1, <1>3, <3>1, <3>2, CheckKeeps DEF LimitInv
  <2>3. CASE CountFailure(c) \/ EndLogin(c)
    <3>1. UNCHANGED <<buckets, debt>>
      BY <2>3 DEF CountFailure, EndLogin
    <3> QED BY <1>1, <1>3, <2>3, <3>1, EndKeeps DEF LimitInv
  <2> QED BY <2>1, <2>2, <2>3 DEF AdminStep
<1>7. CASE ResetAttempts
  <2>1. UNCHANGED <<buckets, debt>>
    BY <1>7 DEF ResetAttempts
  <2> QED BY <1>1, <1>3, <1>7, <2>1, ResetKeeps DEF LimitInv
<1>8. CASE UNCHANGED limitVars
  <2>1. UNCHANGED <<buckets, cleaned, debt, loginAttempts, admin>>
    BY <1>8 DEF limitVars
  <2>2. LimitTypeOK'
    BY <1>1, <2>1 DEF LimitTypeOK, Full
  <2> QED BY <1>2, <1>3, <2>1, <2>2 DEF LimitInv
<1> QED BY <1>4, <1>5, <1>6, <1>7, <1>8 DEF LimitNext

(* rateLimiter.Allow, with its lazy refill and its eviction, enforces       *)
(* exactly the stated rate, for every capacity and rate whose buckets fill  *)
(* up before they count as idle.                                            *)
THEOREM RateExact == LimitSpec => []LimiterExact
<1>1. LimitInv => LimiterExact
  BY ExactAllows DEF LimitInv
<1> QED BY <1>1, LimitStart, LimitSteps, PTL DEF LimitSpec

(* adminLogin, with its two critical sections, lets a source fail at most   *)
(* once more per overlapping call than the limit says.                      *)
THEOREM FailuresLimited == LimitSpec => []FailuresBounded
<1>1. LimitInv => FailuresBounded
  <2> SUFFICES ASSUME LimitInv, NEW s \in Sources
               PROVE  loginAttempts[s] < MaxTries + Cardinality(AdminCalls)
    BY DEF FailuresBounded
  <2>1. loginAttempts[s] \in Nat /\ MaxTries \in Nat
    BY LimitAssumption DEF LimitInv, LimitTypeOK
  <2> QED BY <2>1, PendingFacts DEF LimitInv, PendingBounded
<1> QED BY <1>1, LimitStart, LimitSteps, PTL DEF LimitSpec

-----------------------------------------------------------------------------
(* Tokens *)

(* A token that was issued before the revocation of its key is at least as  *)
(* old as the revocation, however their ages are rounded.                   *)
TokenInv ==
    /\ \A k \in DOMAIN issued : issued[k] \in 0 .. 2
    /\ \A k \in DOMAIN revoked : revoked[k] \in 0 .. 2
    /\ ended \subseteq (DOMAIN issued) \cap (DOMAIN revoked)
    /\ \A k \in ended : issued[k] >= revoked[k]

(* Every step keeps it; the end of a second ages both or neither. *)
LEMMA TokenSteps == TokenInv /\ [TokenNext]_tokenVars => TokenInv'
<1> SUFFICES ASSUME TokenInv, [TokenNext]_tokenVars
             PROVE  TokenInv'
  OBVIOUS
<1>1. ASSUME UNCHANGED <<issued, revoked, ended>>
      PROVE  TokenInv'
  BY <1>1 DEF TokenInv
<1>2. ASSUME NEW k, IssueToken(k)
      PROVE  TokenInv'
  BY <1>2 DEF IssueToken, TokenInv, Put
<1>3. ASSUME NEW k, RevokeByWGKey(k)
      PROVE  TokenInv'
  <2>1. /\ revoked' = Put(revoked, k, 0) /\ issued' = issued
        /\ ended' \subseteq ended \cup ({k} \cap DOMAIN issued)
    BY <1>3 DEF RevokeByWGKey
  <2>2. /\ DOMAIN revoked' = DOMAIN revoked \cup {k} /\ revoked'[k] = 0
        /\ \A j \in DOMAIN revoked : j # k => revoked'[j] = revoked[j]
    BY <2>1 DEF Put
  <2>3. \A j \in DOMAIN revoked' : revoked'[j] \in 0 .. 2
    BY <2>2 DEF TokenInv
  <2>4. ended' \subseteq (DOMAIN issued') \cap (DOMAIN revoked')
    BY <2>1, <2>2 DEF TokenInv
  <2>5. ASSUME NEW j \in ended'
        PROVE  issued'[j] >= revoked'[j]
    <3>1. CASE j = k
      <4>1. issued[k] \in 0 .. 2
        BY <2>1, <2>4, <3>1 DEF TokenInv
      <4> QED
        BY <2>1, <2>2, <3>1, <4>1
    <3>2. CASE j # k
      <4>1. j \in ended /\ revoked'[j] = revoked[j]
        BY <2>1, <2>2, <3>2 DEF TokenInv
      <4> QED
        BY <2>1, <4>1 DEF TokenInv
    <3> QED
      BY <3>1, <3>2
  <2> QED
    BY <2>1, <2>3, <2>4, <2>5 DEF TokenInv
<1>4. ASSUME SecondEnds
      PROVE  TokenInv'
  <2> DEFINE older(n) == IF n < 2 THEN n + 1 ELSE 2
  <2>1. /\ DOMAIN issued' = DOMAIN issued /\ DOMAIN revoked' = DOMAIN revoked
        /\ UNCHANGED ended
        /\ \A k \in DOMAIN revoked : revoked'[k] = older(revoked[k])
        /\ \A k \in DOMAIN issued :
              issued'[k] = IF k \in DOMAIN revoked /\ revoked[k] = 2 THEN issued[k]
                           ELSE older(issued[k])
    BY <1>4 DEF SecondEnds
  <2>2. \A k \in DOMAIN issued' : issued'[k] \in 0 .. 2
    BY <2>1 DEF TokenInv
  <2>3. \A k \in DOMAIN revoked' : revoked'[k] \in 0 .. 2
    BY <2>1 DEF TokenInv
  <2>4. \A k \in ended' : issued'[k] >= revoked'[k]
    BY <2>1 DEF TokenInv
  <2> QED
    BY <2>1, <2>2, <2>3, <2>4 DEF TokenInv
<1>5. ASSUME RestartServer
      PROVE  TokenInv'
  BY <1>5 DEF RestartServer, TokenInv, EmptyMap
<1>6. CASE UNCHANGED tokenVars
  BY <1>1, <1>6 DEF tokenVars
<1> QED
  BY <1>1, <1>2, <1>3, <1>4, <1>5, <1>6
     DEF TokenNext, AgentTurn, SaveRecord, OpenSync, LoseCall, DeleteRecord

(* No token is issued at the start. *)
LEMMA TokenStart == TokenInit => TokenInv
BY DEF TokenInit, TokenInv, EmptyMap

(* issuedAt.After(revokedAt) fails for such a token. *)
LEMMA TokenRefused == TokenInv => RevokedIsRefused
BY DEF TokenInv, RevokedIsRefused, ValidateToken

(* ValidateToken refuses every token that was issued before the deletion of *)
(* its peer revoked the key, also in the second of the revocation, until    *)
(* the server's process ends.                                               *)
THEOREM RevokedRefused == TokenSpec => []RevokedIsRefused
BY TokenStart, TokenSteps, TokenRefused, PTL DEF TokenSpec
=============================================================================
