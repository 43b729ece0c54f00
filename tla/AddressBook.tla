----------------------------- MODULE AddressBook ----------------------------
(***************************************************************************)
(* What enrollment promises about mesh addresses, without saying how: an   *)
(* address is granted to a device only when no device has a claim on it,   *)
(* and claims otherwise only go away.  Enrollment implements this with a   *)
(* counter, leases, records and the local variables of its handlers.       *)
(***************************************************************************)
CONSTANTS Devices, Pool

VARIABLE claims     \* set of pairs <<device, address>>

Init == claims = {}

Grant(k, a) ==
    /\ \A c \in claims : c[2] # a
    /\ claims' = claims \cup {<<k, a>>}

(* Any number of claims end at once: a restart forgets many. *)
Forget == claims' \subseteq claims

Next == Forget \/ \E k \in Devices, a \in Pool : Grant(k, a)

Spec == Init /\ [][Next]_claims
=============================================================================
