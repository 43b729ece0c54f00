----------------------------- MODULE LoginLimits -----------------------------
(***************************************************************************)
(* The two limits on logins at the management server: the token buckets of *)
(* the Login RPC, one per source address, and the count of failed logins   *)
(* of administrators.                                                      *)
(*                                                                         *)
(* Time passes in ticks, Refill of which earn one token; times are kept as *)
(* the number of ticks since, up to the largest one the code compares, and *)
(* a bucket's contents in parts of a token.  Allow is one critical         *)
(* section; adminLogin has one before and one after the comparison of the  *)
(* credentials.                                                            *)
(***************************************************************************)
EXTENDS Integers, FiniteSets, GoMaps

CONSTANTS
    Sources,        \* source addresses
    NoSource,       \* a handler of adminLogin that is idle
    Capacity,       \* rlCapacity
    Refill,         \* ticks per token: 1 / rlRate
    CleanAfter,     \* two minutes, between evictions of idle buckets
    EvictAfter,     \* five minutes, after which a bucket is idle
    AdminCalls,     \* goroutines that can serve adminLogin at the same time
    MaxTries        \* failed logins a source may have in a minute

(* A bucket is full again before it may be evicted. *)
ASSUME LimitAssumption ==
    /\ Capacity \in Nat \ {0} /\ Refill \in Nat \ {0}
    /\ CleanAfter \in Nat /\ EvictAfter \in Nat /\ Capacity * Refill <= EvictAfter
    /\ MaxTries \in Nat \ {0} /\ IsFiniteSet(AdminCalls)
    /\ NoSource \notin Sources

VARIABLES
    buckets,        \* rateLimiter.buckets: source -> [tokens, idle]
    cleaned,        \* ticks since rateLimiter.cleaned
    debt,           \* history: what a source has used of its limit, see Owe
    loginAttempts,  \* loginAttempts: source -> failures since the last reset
    admin           \* the source of each call between its two critical sections

limitVars == <<buckets, cleaned, debt, loginAttempts, admin>>

Full == Capacity * Refill

AtMost(n, max) == IF n <= max THEN n ELSE max

-----------------------------------------------------------------------------
(* Plausible faults of the operations below, to show that the properties    *)
(* notice them.                                                             *)

(* a refused attempt does not set lastTime *)
KeepLastTime(b) ==
    IF b.tokens + b.idle >= Refill
    THEN [tokens |-> AtMost(b.tokens + b.idle, Full) - Refill, idle |-> 0]
    ELSE [tokens |-> b.tokens + b.idle, idle |-> b.idle]

(* the count compared with > *)
OneMoreTry(s) == loginAttempts[s] <= MaxTries

-----------------------------------------------------------------------------
(* rateLimiter.Allow *)

(* The buckets after the eviction, which happens at most once in a while. *)
Kept ==
    IF cleaned <= CleanAfter THEN buckets
    ELSE [s \in {t \in DOMAIN buckets : buckets[t].idle <= EvictAfter} |-> buckets[s]]

Refilled(b) == AtMost(b.tokens + b.idle, Full)

(* The bucket after an attempt; lastTime is set in any case. *)
Charged(b) ==
    [tokens |-> IF Refilled(b) >= Refill THEN Refilled(b) - Refill ELSE Refilled(b),
     idle |-> 0]

Allowed(s) == s \in DOMAIN Kept => Refilled(Kept[s]) >= Refill

(* The reference: every allowed attempt costs Refill ticks, and every tick  *)
(* pays one back.                                                           *)
Owe(s) == [debt EXCEPT ![s] = @ + Refill]

Allow(s) ==
    /\ buckets' = Put(Kept, s, IF s \in DOMAIN Kept THEN Charged(Kept[s])
                               ELSE [tokens |-> Full - Refill, idle |-> 0])
    /\ cleaned' = IF cleaned <= CleanAfter THEN cleaned ELSE 0
    /\ debt' = IF Allowed(s) THEN Owe(s) ELSE debt
    /\ UNCHANGED <<loginAttempts, admin>>

(* A tick passes. *)
Pass ==
    /\ buckets' = [s \in DOMAIN buckets |->
                     [tokens |-> buckets[s].tokens,
                      idle |-> AtMost(buckets[s].idle + 1, EvictAfter + 1)]]
    /\ cleaned' = AtMost(cleaned + 1, CleanAfter + 1)
    /\ debt' = [s \in Sources |-> IF debt[s] > 0 THEN debt[s] - 1 ELSE 0]
    /\ UNCHANGED <<loginAttempts, admin>>

-----------------------------------------------------------------------------
(* adminLogin *)

MayTry(s) == loginAttempts[s] < MaxTries

CheckAttempts(c, s) ==
    /\ admin[c] = NoSource /\ MayTry(s)
    /\ admin' = [admin EXCEPT ![c] = s]
    /\ UNCHANGED <<buckets, cleaned, debt, loginAttempts>>

(* The credentials are wrong. *)
CountFailure(c) ==
    /\ admin[c] # NoSource
    /\ loginAttempts' = [loginAttempts EXCEPT ![admin[c]] = @ + 1]
    /\ admin' = [admin EXCEPT ![c] = NoSource]
    /\ UNCHANGED <<buckets, cleaned, debt>>

(* The request is malformed, or the credentials are right. *)
EndLogin(c) ==
    /\ admin[c] # NoSource
    /\ admin' = [admin EXCEPT ![c] = NoSource]
    /\ UNCHANGED <<buckets, cleaned, debt, loginAttempts>>

(* The ticker of init: once a minute the counts start again. *)
ResetAttempts ==
    /\ loginAttempts' = [s \in Sources |-> 0]
    /\ UNCHANGED <<buckets, cleaned, debt, admin>>

-----------------------------------------------------------------------------
LimitInit ==
    /\ buckets = EmptyMap
    /\ cleaned = 0
    /\ debt = [s \in Sources |-> 0]
    /\ loginAttempts = [s \in Sources |-> 0]
    /\ admin = [c \in AdminCalls |-> NoSource]

AdminStep(c) ==
    \/ \E s \in Sources : CheckAttempts(c, s)
    \/ CountFailure(c)
    \/ EndLogin(c)

LimitNext ==
    \/ \E s \in Sources : Allow(s)
    \/ Pass
    \/ \E c \in AdminCalls : AdminStep(c)
    \/ ResetAttempts

LimitSpec == LimitInit /\ [][LimitNext]_limitVars

-----------------------------------------------------------------------------
(* Properties *)

(* Every variable keeps its type, and a bucket its capacity. *)
LimitTypeOK ==
    /\ IsMap(buckets, Sources, [tokens : 0 .. Full, idle : 0 .. EvictAfter + 1])
    /\ cleaned \in 0 .. CleanAfter + 1
    /\ debt \in [Sources -> Nat]
    /\ loginAttempts \in [Sources -> Nat]
    /\ admin \in [AdminCalls -> Sources \cup {NoSource}]

(* "5 attempts per 60 seconds": buckets refilled only when they are looked  *)
(* at, and evicted when idle, allow an attempt exactly when a count that    *)
(* is kept up to date all the time has room for it.                         *)
LimiterExact == \A s \in Sources : Allowed(s) <=> debt[s] + Refill <= Full

(* The failures of a source between two resets exceed the limit at most by  *)
(* the calls that overlap.                                                  *)
FailuresBounded ==
    \A s \in Sources : loginAttempts[s] < MaxTries + Cardinality(AdminCalls)
=============================================================================
