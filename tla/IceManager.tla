----------------------------- MODULE IceManager -----------------------------
(***************************************************************************)
(* The ICE managers of two agents that try to reach each other directly.   *)
(*                                                                         *)
(* Each manager tracks the other agent with a peerConn, which has a slot   *)
(* for one OFFER or ANSWER and the cancel function of a context, and runs  *)
(* runPeerWithRetry in a goroutine.  The agent with the smaller key        *)
(* ("ctl") offers, the other one ("acc") answers; every attempt has new    *)
(* credentials.  A step ends at a lock, a channel or a library call.       *)
(*                                                                         *)
(* Signaling may be lost or arrive late, an agent may be restarted, and an *)
(* engine may remove and add the peer; a peer is added again when the      *)
(* goroutine of its removed attempt has ended.  Credentials are Live while *)
(* the attempt that made them lasts, and Stale afterwards.  Time appears   *)
(* as an order: a timeout passes when nothing is left to do that takes no  *)
(* time, and two attempts with each other's credentials connect.           *)
(***************************************************************************)
EXTENDS Integers

CONSTANTS
    Nil,            \* no message
    Live, Stale,    \* credentials of an attempt that goes on, or has ended
    MaxLost,        \* bound: lost messages
    MaxRestarts,    \* bound: restarts of an agent
    MaxRemovals     \* bound: removals of the peer by an engine

ASSUME CredentialAssumption == Nil # Live /\ Nil # Stale /\ Live # Stale

ASSUME BoundAssumption == MaxLost \in Nat /\ MaxRestarts \in Nat /\ MaxRemovals \in Nat

Sides == {"ctl", "acc"}

Credentials == {Live, Stale}

VARIABLES
    tracked,    \* Manager.peers has a peerConn for the other agent
    slot,       \* its channel: offerCh of acc, answerCh of ctl
    ctxDone,    \* the context of the goroutine is cancelled
    at,         \* where the goroutine is
    remote,     \* the credentials the attempt connects to
    link,       \* Engine.links: "none", "relay" or "direct" (has the connection)
    offers,     \* OFFERs on their way
    answers,    \* ANSWERs on their way
    lost,       \* number of lost messages
    restarts,   \* number of restarts
    removals,   \* number of removals
    disturbed   \* history: the peer was removed, or an agent restarted when
                \*   an attempt had connected

manager == <<tracked, slot, ctxDone>>
network == <<offers, answers, lost>>
faults == <<restarts, removals, disturbed>>
vars == <<manager, at, remote, link, network, faults>>

Other(s) == IF s = "ctl" THEN "acc" ELSE "ctl"

Aged(x) == IF x = Live THEN Stale ELSE x

(* The attempt of side s is over: agent.Close, and what it has sent is of   *)
(* no use any more.                                                         *)
EndAttempt(s) ==
    /\ offers' = IF s = "ctl" THEN {Aged(x) : x \in offers} ELSE offers
    /\ answers' = IF s = "acc" THEN {Aged(x) : x \in answers} ELSE answers
    /\ slot' = [slot EXCEPT ![Other(s)] = Aged(@)]
    /\ remote' = [remote EXCEPT ![s] = Nil, ![Other(s)] = Aged(@)]

(* The attempts of both sides have each other's credentials. *)
Matched == \A s \in Sides : remote[s] = Live /\ at[s] \in {"connect", "held"}

(* A goroutine has something to do that takes no time. *)
Busy ==
    \E s \in Sides :
        \/ at[s] \in {"top", "failed", "check", "replace"}
        \/ at[s] = "wait" /\ slot[s] # Nil
        \/ at[s] = "connect" /\ Matched

(* The acceptor will read the current OFFER after its backoff, at most 60 s, *)
(* and its gathering, at most 10 s: sooner than iceTimeout, 90 s.           *)
OfferWaits == slot["acc"] = Live /\ at["acc"] \in {"gather", "backoff"} /\ ~ctxDone["acc"]

-----------------------------------------------------------------------------
(* Plausible faults of the operations below, to show that the properties    *)
(* notice them.                                                             *)

(* an attempt may fail once *)
NoRetry(s) ==
    /\ at[s] = "failed"
    /\ at' = [at EXCEPT ![s] = "off"]
    /\ UNCHANGED <<manager, remote, link, network, faults>>

(* the entry is deleted, its context goes on *)
DeleteOnly(s) == ctxDone

-----------------------------------------------------------------------------
(* The engine and HandleSignal *)

(* A new peerConn, its channel holding msg, and its goroutine. *)
Track(s, msg) ==
    /\ at[s] = "off"
    /\ tracked' = [tracked EXCEPT ![s] = TRUE]
    /\ slot' = [slot EXCEPT ![s] = msg]
    /\ ctxDone' = [ctxDone EXCEPT ![s] = FALSE]
    /\ at' = [at EXCEPT ![s] = "top"]

(* applySync adds the peer: ensureRelayLink, then StartConnect, a no-op     *)
(* when the peer is tracked.                                                *)
AddPeer(s) ==
    /\ link[s] = "none"
    /\ link' = [link EXCEPT ![s] = "relay"]
    /\ IF tracked[s] THEN UNCHANGED <<manager, at>> ELSE Track(s, Nil)
    /\ UNCHANGED <<remote, network, faults>>

(* ClosePeer: the entry is deleted and its context cancelled. *)
Cancelled(s) == [ctxDone EXCEPT ![s] = @ \/ tracked[s]]

(* applySync removes the peer: ClosePeer, then the link is closed. *)
RemovePeer(s) ==
    /\ link[s] # "none" /\ removals < MaxRemovals
    /\ ctxDone' = Cancelled(s)
    /\ tracked' = [tracked EXCEPT ![s] = FALSE]
    /\ link' = [link EXCEPT ![s] = "none"]
    /\ removals' = removals + 1
    /\ disturbed' = TRUE
    /\ UNCHANGED <<slot, at, remote, network, restarts>>

(* Between the end of an attempt and its new peerConn a message goes to the *)
(* old channel.  The instant is short: MaxLost bounds such messages too.    *)
Arrives(s) ==
    IF at[s] \in {"failed", "check", "replace"}
    THEN lost < MaxLost /\ lost' = lost + 1
    ELSE UNCHANGED lost

(* An OFFER: a peer without an entry is tracked.  A full channel drops it. *)
HandleOffer(c) ==
    /\ c \in offers
    /\ Arrives("acc")
    /\ offers' = offers \ {c}
    /\ IF tracked["acc"]
       THEN /\ slot' = [slot EXCEPT !["acc"] = IF @ = Nil THEN c ELSE @]
            /\ UNCHANGED <<tracked, ctxDone, at>>
       ELSE Track("acc", c)
    /\ UNCHANGED <<remote, link, answers, faults>>

(* An ANSWER of a peer without an entry is ignored. *)
HandleAnswer(c) ==
    /\ c \in answers
    /\ Arrives("ctl")
    /\ answers' = answers \ {c}
    /\ slot' = [slot EXCEPT !["ctl"] = IF tracked["ctl"] /\ @ = Nil THEN c ELSE @]
    /\ UNCHANGED <<tracked, ctxDone, at, remote, link, offers, faults>>

Lose ==
    /\ lost < MaxLost /\ lost' = lost + 1
    /\ \/ \E c \in offers : offers' = offers \ {c} /\ UNCHANGED answers
       \/ \E c \in answers : answers' = answers \ {c} /\ UNCHANGED offers
    /\ UNCHANGED <<manager, at, remote, link, faults>>

(* The agent's process ends and starts again. *)
Restart(s) ==
    /\ restarts < MaxRestarts /\ restarts' = restarts + 1
    /\ disturbed' = (disturbed \/ \E t \in Sides : at[t] = "held")
    /\ tracked' = [tracked EXCEPT ![s] = FALSE]
    /\ ctxDone' = [ctxDone EXCEPT ![s] = FALSE]
    /\ at' = [at EXCEPT ![s] = "off"]
    /\ link' = [link EXCEPT ![s] = "none"]
    /\ EndAttempt(s)
    /\ UNCHANGED <<lost, removals>>

-----------------------------------------------------------------------------
(* runPeerWithRetry and runPeer *)

Goto(s, place) == at' = [at EXCEPT ![s] = place]

(* The top of the loop: the goroutine ends when there is no entry. *)
TakeEntry(s) ==
    /\ at[s] = "top"
    /\ Goto(s, IF tracked[s] THEN "gather" ELSE "off")
    /\ UNCHANGED <<manager, remote, link, network, faults>>

OffersAfter(s) == IF s = "ctl" THEN offers \cup {Live} ELSE offers

(* Gathering ends or times out; the controller sends its OFFER. *)
Gathered(s) ==
    /\ at[s] = "gather" /\ ~ctxDone[s]
    /\ offers' = OffersAfter(s)
    /\ Goto(s, "wait")
    /\ UNCHANGED <<manager, remote, link, answers, lost, faults>>

(* The awaited message is there.  The acceptor sends its ANSWER now. *)
TakeMessage(s) ==
    /\ at[s] = "wait" /\ slot[s] # Nil
    /\ remote' = [remote EXCEPT ![s] = slot[s]]
    /\ slot' = [slot EXCEPT ![s] = Nil]
    /\ answers' = IF s = "acc" THEN answers \cup {Live} ELSE answers
    /\ Goto(s, "connect")
    /\ UNCHANGED <<tracked, ctxDone, link, offers, lost, faults>>

(* Dial or Accept succeeds; OnConnected gives the connection to the link,   *)
(* if the engine has one, and the attempt lasts until its context ends.     *)
Connected(s) ==
    /\ at[s] = "connect" /\ Matched
    /\ link' = [link EXCEPT ![s] = IF @ = "none" THEN @ ELSE "direct"]
    /\ Goto(s, "held")
    /\ UNCHANGED <<manager, remote, network, faults>>

(* iceTimeout passes without a connection.  A current message that has not  *)
(* arrived by then is late: MaxLost bounds such messages too.               *)
TimesOut(s) ==
    /\ ~Busy
    /\ at[s] \in {"wait", "connect"}
    /\ s = "ctl" => ~OfferWaits
    /\ IF Live \in offers \cup answers
       THEN lost < MaxLost /\ lost' = lost + 1
       ELSE UNCHANGED lost

(* runPeer returns, and the agent is closed.  MaxLost bounds the attempts   *)
(* whose agent cannot be created or cannot gather, too.                     *)
AttemptEnds(s) ==
    /\ \/ TimesOut(s)
       \/ at[s] = "gather" /\ lost < MaxLost /\ lost' = lost + 1
       \/ /\ ctxDone[s] /\ at[s] \in {"gather", "wait", "connect", "held"}
          /\ UNCHANGED lost
    /\ Goto(s, "failed")
    /\ EndAttempt(s)
    /\ link' = [link EXCEPT ![s] = IF @ = "direct" THEN "relay" ELSE @]
    /\ UNCHANGED <<tracked, ctxDone, faults>>

(* ctx.Done, then the look into the map, then the new peerConn with empty   *)
(* channels: three separate steps.                                          *)
CheckContext(s) ==
    /\ at[s] = "failed"
    /\ Goto(s, IF ctxDone[s] THEN "off" ELSE "check")
    /\ UNCHANGED <<manager, remote, link, network, faults>>

CheckTracked(s) ==
    /\ at[s] = "check"
    /\ Goto(s, IF tracked[s] THEN "replace" ELSE "off")
    /\ UNCHANGED <<manager, remote, link, network, faults>>

ReplaceEntry(s) ==
    /\ at[s] = "replace"
    /\ tracked' = [tracked EXCEPT ![s] = TRUE]
    /\ slot' = [slot EXCEPT ![s] = Nil]
    /\ Goto(s, "backoff")
    /\ UNCHANGED <<ctxDone, remote, link, network, faults>>

BackoffEnds(s) ==
    /\ at[s] = "backoff"
    /\ Goto(s, IF ctxDone[s] THEN "off" ELSE "top")
    /\ UNCHANGED <<manager, remote, link, network, faults>>

-----------------------------------------------------------------------------
Init ==
    /\ tracked = [s \in Sides |-> FALSE]
    /\ slot = [s \in Sides |-> Nil]
    /\ ctxDone = [s \in Sides |-> FALSE]
    /\ at = [s \in Sides |-> "off"]
    /\ remote = [s \in Sides |-> Nil]
    /\ link = [s \in Sides |-> "none"]
    /\ offers = {} /\ answers = {}
    /\ lost = 0 /\ restarts = 0 /\ removals = 0 /\ disturbed = FALSE

RunStep(s) ==
    \/ TakeEntry(s)
    \/ Gathered(s)
    \/ TakeMessage(s)
    \/ Connected(s)
    \/ AttemptEnds(s)
    \/ CheckContext(s)
    \/ CheckTracked(s)
    \/ ReplaceEntry(s)
    \/ BackoffEnds(s)

Next ==
    \/ \E s \in Sides : AddPeer(s) \/ RemovePeer(s) \/ Restart(s) \/ RunStep(s)
    \/ \E c \in Credentials : HandleOffer(c) \/ HandleAnswer(c)
    \/ Lose

(* Goroutines that can run do run and timeouts pass, signaling that is not  *)
(* lost arrives, whatever the receiver does meanwhile, and a sync tells     *)
(* each engine of the other device.                                         *)
Fairness ==
    /\ \A s \in Sides : WF_vars(AddPeer(s)) /\ SF_vars(RunStep(s))
    /\ \A c \in Credentials : SF_vars(HandleOffer(c)) /\ SF_vars(HandleAnswer(c))

Spec == Init /\ [][Next]_vars /\ Fairness

-----------------------------------------------------------------------------
(* Properties *)

(* Every variable keeps its type. *)
TypeOK ==
    /\ tracked \in [Sides -> BOOLEAN] /\ ctxDone \in [Sides -> BOOLEAN]
    /\ slot \in [Sides -> Credentials \cup {Nil}] /\ remote \in [Sides -> Credentials \cup {Nil}]
    /\ at \in [Sides -> {"off", "top", "gather", "wait", "connect", "held", "failed", "check",
                         "replace", "backoff"}]
    /\ link \in [Sides -> {"none", "relay", "direct"}]
    /\ offers \subseteq Credentials /\ answers \subseteq Credentials
    /\ lost \in 0 .. MaxLost /\ restarts \in 0 .. MaxRestarts /\ removals \in 0 .. MaxRemovals
    /\ disturbed \in BOOLEAN

(* Two agents that know of each other connect in the end: lost signaling,   *)
(* stale offers and answers, and agents restarted while they try, delay it  *)
(* but do not lock the two retry loops into missing each other.             *)
AttemptsMeet == <>(disturbed \/ \A s \in Sides : at[s] = "held")

(* ClosePeer ends the attempt of the peer it removes, and with it a direct  *)
(* connection: the goroutine ends, or the peer is tracked again.            *)
RemovedPeerCloses == \A s \in Sides : ~tracked[s] ~> (tracked[s] \/ at[s] = "off")
=============================================================================
