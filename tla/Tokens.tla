------------------------------- MODULE Tokens -------------------------------
(***************************************************************************)
(* The life of an agent's token: Login issues it, Sync presents it, and    *)
(* the deletion of the peer revokes it.                                    *)
(*                                                                         *)
(* IssuedAt has whole seconds.  The model keeps the number of seconds that *)
(* have begun since a token was issued and since its key was revoked,      *)
(* until the revocation is two seconds old: what ValidateToken compares    *)
(* does not change any more.  An agent whose stream does not open or ends  *)
(* is restarted by its service manager and enrolls again.                  *)
(***************************************************************************)
EXTENDS Integers, GoMaps

CONSTANTS
    Agents,         \* WireGuard keys
    MaxDeletes,     \* bound: deletions by operators
    MaxFaults       \* bound: lost streams, failed Logins, restarts of the server

ASSUME TokenAssumption == MaxDeletes \in Nat /\ MaxFaults \in Nat

VARIABLES
    agentAt,    \* "out", at a step of Login, "token" (has one) or "in" (Sync is open)
    records,    \* keys with a peer record
    issued,     \* key -> seconds since its token was issued
    revoked,    \* Manager.revoked: key -> seconds since its revocation
    deleting,   \* keys between DeletePeer and RevokeByWGKey
    deletes,
    faults,
    ended       \* history: keys whose token was issued before their revocation

tokenVars == <<agentAt, records, issued, revoked, deleting, deletes, faults, ended>>

Fault == faults < MaxFaults /\ faults' = faults + 1

At(k, place) == agentAt' = [agentAt EXCEPT ![k] = place]

-----------------------------------------------------------------------------
(* Plausible faults of ValidateToken, to show that the properties notice    *)
(* them.                                                                    *)

(* a token of the second of the revocation is accepted *)
SameSecondAccepted(k) == k \in DOMAIN revoked => issued[k] <= revoked[k]

(* every token of a revoked key is refused *)
RevokedForGood(k) == k \notin DOMAIN revoked

-----------------------------------------------------------------------------
(* issuedAt.After(revokedAt) *)
ValidateToken(k) == k \in DOMAIN revoked => issued[k] < revoked[k]

(* A second ends. *)
SecondEnds ==
    LET older(n) == IF n < 2 THEN n + 1 ELSE 2
        settled == {k \in DOMAIN revoked : revoked[k] = 2}
    IN  /\ issued' = [k \in DOMAIN issued |-> IF k \in settled THEN issued[k] ELSE older(issued[k])]
        /\ revoked' = [k \in DOMAIN revoked |-> older(revoked[k])]
        /\ UNCHANGED <<agentAt, records, deleting, deletes, faults, ended>>

(* Login, up to SavePeer, with a reusable setup key. *)
SaveRecord(k) ==
    /\ agentAt[k] = "out"
    /\ records' = records \cup {k}
    /\ At(k, "issue")
    /\ UNCHANGED <<issued, revoked, deleting, deletes, faults, ended>>

IssueToken(k) ==
    /\ agentAt[k] = "issue"
    /\ issued' = Put(issued, k, 0)
    /\ ended' = ended \ {k}
    /\ At(k, "token")
    /\ UNCHANGED <<records, revoked, deleting, deletes, faults>>

(* Sync: the interceptor, then the look-up of the record. *)
OpenSync(k) ==
    /\ agentAt[k] = "token"
    /\ At(k, IF ValidateToken(k) /\ k \in records THEN "in" ELSE "out")
    /\ UNCHANGED <<records, issued, revoked, deleting, deletes, faults, ended>>

(* The answer of Login, or the stream, is lost. *)
LoseCall(k) ==
    /\ agentAt[k] # "out" /\ Fault
    /\ At(k, "out")
    /\ UNCHANGED <<records, issued, revoked, deleting, deletes, ended>>

(* deletePeer.  The stream of a deleted peer stays open. *)
DeleteRecord(k) ==
    /\ k \in records /\ k \notin deleting
    /\ deletes < MaxDeletes /\ deletes' = deletes + 1
    /\ records' = records \ {k}
    /\ deleting' = deleting \cup {k}
    /\ UNCHANGED <<agentAt, issued, revoked, faults, ended>>

RevokeByWGKey(k) ==
    /\ k \in deleting
    /\ revoked' = Put(revoked, k, 0)
    /\ ended' = ended \cup ({k} \cap DOMAIN issued)
    /\ deleting' = deleting \ {k}
    /\ UNCHANGED <<agentAt, records, issued, deletes, faults>>

(* Revocations are kept in memory only. *)
RestartServer ==
    /\ Fault
    /\ revoked' = EmptyMap
    /\ ended' = {}
    /\ deleting' = {}
    /\ agentAt' = [k \in Agents |-> "out"]
    /\ UNCHANGED <<records, issued, deletes>>

-----------------------------------------------------------------------------
TokenInit ==
    /\ agentAt = [k \in Agents |-> "out"]
    /\ records = {} /\ issued = EmptyMap /\ revoked = EmptyMap
    /\ deleting = {} /\ deletes = 0 /\ faults = 0 /\ ended = {}

AgentTurn(k) == SaveRecord(k) \/ IssueToken(k) \/ OpenSync(k)

TokenNext ==
    \/ \E k \in Agents : AgentTurn(k) \/ LoseCall(k) \/ DeleteRecord(k) \/ RevokeByWGKey(k)
    \/ SecondEnds
    \/ RestartServer

(* Agents retry, handlers go on, and time passes. *)
TokenFairness ==
    /\ \A k \in Agents : WF_tokenVars(AgentTurn(k)) /\ WF_tokenVars(RevokeByWGKey(k))
    /\ WF_tokenVars(SecondEnds)

TokenSpec == TokenInit /\ [][TokenNext]_tokenVars /\ TokenFairness

-----------------------------------------------------------------------------
(* Properties *)

(* "RevokeByWGKey immediately invalidates all tokens for the given key":    *)
(* while the server's process lasts, a token issued before the revocation   *)
(* is refused, also one of the same second.                                 *)
RevokedIsRefused == \A k \in ended : ~ValidateToken(k)

(* An agent gets its stream in the end, also after its peer was deleted:    *)
(* a Login that overlapped the deletion, or came in its second, yields a    *)
(* token that is refused, and the next one works.                           *)
AgentsGetIn == \A k \in Agents : agentAt[k] # "in" ~> agentAt[k] = "in"
=============================================================================
