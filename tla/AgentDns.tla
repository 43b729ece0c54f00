------------------------------ MODULE AgentDns ------------------------------
(***************************************************************************)
(* Name resolution of a Windows host that runs the agent.                  *)
(*                                                                         *)
(* ApplyGlobal points the DNS servers of every network adapter at a relay  *)
(* of the agent and RevertGlobal puts them back.  A file keeps the         *)
(* original settings, so that they survive the end of the process between  *)
(* any two of the PowerShell commands that do this.  The resolver behind   *)
(* the relay filters names with the malicious-domain list, which travels   *)
(* from a feed through the management server's Store to the poll of the    *)
(* agent; a list stands for its version, its hash.                         *)
(*                                                                         *)
(* The adapter settings are "real" (as the operator left them) or "agent"  *)
(* (127.0.0.1).  Adapters may be plugged in and out, commands, binds and   *)
(* file writes may fail, the process may end anywhere, and the service     *)
(* manager starts it again unless the operator stopped it.                 *)
(***************************************************************************)
EXTENDS Integers, FiniteSets, GoMaps

CONSTANTS
    Adapters,       \* network adapters of the host
    Lists,          \* versions of the malicious-domain list
    NoList,         \* no list: version "", or not modified
    Idle,           \* no GetBlocklist in progress
    NoFile, Torn,   \* the backup file is absent, or was not written to its end
    MaxFailures,    \* bound: failing commands, binds and writes
    MaxCrashes,     \* bound: ends of the agent's process, stops included
    MaxPlugs,       \* bound: adapters plugged in or out
    MaxFeeds        \* bound: changes of the feed and restarts of the server

Settings == {"real", "agent"}

ASSUME DnsAssumption ==
    /\ IsFiniteSet(Adapters)
    /\ NoFile # Torn /\ \A A \in SUBSET Adapters : {NoFile, Torn} \cap [A -> Settings] = {}
    /\ NoList \notin Lists /\ Idle \notin Lists \cup {NoList}
    /\ \A n \in {MaxFailures, MaxCrashes, MaxPlugs, MaxFeeds} : n \in Nat

Phases ==
    {"off", "failed", "recover", "enroll", "listen", "bind", "backup", "write", "apply",
     "up", "revert", "remove"}

VARIABLES
    phase,      \* where Engine.Run is; "off": stopped, "failed": to be restarted
    servers,    \* DNS setting of each adapter
    up,         \* adapters that are present and up
    backup,     \* dns-backup.json: NoFile, Torn or adapter -> setting
    todo,       \* adapters the loop in progress has not come to
    allOK,      \* restoreBackup: no adapter failed
    ending,     \* the phase RevertGlobal ends in
    listener,   \* the resolver's socket on 127.0.0.1:53535 is bound
    relay,      \* globalRelay is set: the socket on 127.0.0.1:53 is bound
    blocked,    \* Resolver.blocked, and pollBlocklist's knownVersion
    reply,      \* the list in the answer to the agent's GetBlocklist
    expired,    \* the token of the agent's Login is older than 24 hours
    store,      \* blocklist.Store of the management server
    feed,       \* what the feed's address serves
    moved,      \* history: adapters plugged in or out during an override
    failures, crashes, plugs, feeds

adapterVars == <<servers, up, moved, plugs>>
runVars == <<phase, todo, allOK, ending, listener, relay>>
listVars == <<blocked, reply, expired, store, feed, feeds>>
vars == <<adapterVars, runVars, backup, listVars, failures, crashes>>

Running == phase \notin {"off", "failed"}

(* readBackup succeeds *)
Readable == backup \notin {NoFile, Torn}

(* The host can look up the management server's name. *)
Resolvable == \E a \in up : servers[a] = "real"

Fail == failures < MaxFailures /\ failures' = failures + 1

(* A call that may fail: ok tells whether it did. *)
Try(ok) == ok \in BOOLEAN /\ IF ok THEN UNCHANGED failures ELSE Fail

-----------------------------------------------------------------------------
(* Plausible faults of the definitions below, to show that the properties   *)
(* notice them.                                                             *)

(* every start takes the present settings for the original ones *)
AlwaysBackup == TRUE

(* the engine enrolls without recovering first *)
SkipRecovery == {}

(* once the agent has a list, nothing is newer *)
AnswerOnce(known) == IF known = NoList THEN store ELSE NoList

(* a list that cannot be fetched is emptied *)
EmptiedList == NoList

-----------------------------------------------------------------------------
(* restoreBackup *)

Restoring == phase \in {"recover", "revert"}

(* An adapter that is gone is skipped; a command that fails is remembered. *)
RestoreAdapter(a) ==
    /\ Restoring /\ a \in todo
    /\ todo' = todo \ {a}
    /\ IF a \notin up
       THEN UNCHANGED <<servers, allOK, failures>>
       ELSE \E ok \in BOOLEAN :
                /\ Try(ok)
                /\ servers' = IF ok THEN [servers EXCEPT ![a] = backup[a]] ELSE servers
                /\ allOK' = (allOK /\ ok)
    /\ UNCHANGED <<phase, ending, listener, relay, up, moved, plugs, backup, listVars, crashes>>

(* The adapters RecoverStaleGlobalOverride looks at. *)
StaleAdapters == IF Readable THEN DOMAIN backup ELSE {}

(* Engine.Run begins: RecoverStaleGlobalOverride comes before enrollment. *)
Start ==
    /\ ~Running
    /\ phase' = "recover" /\ todo' = StaleAdapters /\ allOK' = TRUE
    /\ UNCHANGED <<ending, listener, relay, adapterVars, backup, listVars, failures, crashes>>

Recovered ==
    /\ phase = "recover" /\ todo = {}
    /\ phase' = "enroll"
    /\ UNCHANGED <<todo, allOK, ending, listener, relay, adapterVars, backup, listVars, failures,
                   crashes>>

(* enrollWithRetry tries until the server's name resolves. *)
Enroll ==
    /\ phase = "enroll" /\ Resolvable
    /\ phase' = "listen"
    /\ UNCHANGED <<todo, allOK, ending, listener, relay, adapterVars, backup, listVars, failures,
                   crashes>>

-----------------------------------------------------------------------------
(* ApplyGlobal *)

(* The resolver binds its loopback socket; without it the engine goes on. *)
Listen ==
    /\ phase = "listen"
    /\ \E ok \in BOOLEAN : Try(ok) /\ listener' = ok
    /\ phase' = "bind"
    /\ UNCHANGED <<todo, allOK, ending, relay, adapterVars, backup, listVars, crashes>>

(* startRelay: without the relay the settings stay as they are. *)
StartRelay ==
    /\ phase = "bind"
    /\ \E ok \in BOOLEAN :
        /\ Try(ok)
        /\ relay' = ok
        /\ phase' = IF ok THEN "backup" ELSE "up"
    /\ UNCHANGED <<todo, allOK, ending, listener, adapterVars, backup, listVars, crashes>>

(* The settings are recorded only if there is no file yet. *)
NeedsBackup == backup = NoFile

(* queryAdapterDNS, then the loop over the adapters that are up. *)
BeginApply ==
    /\ phase = "backup" /\ ~NeedsBackup
    /\ phase' = "apply" /\ todo' = up
    /\ UNCHANGED <<allOK, ending, listener, relay, adapterVars, backup, listVars, failures, crashes>>

(* os.WriteFile creates an empty file and then writes it. *)
BeginBackup ==
    /\ phase = "backup" /\ NeedsBackup
    /\ phase' = "write" /\ backup' = Torn
    /\ UNCHANGED <<todo, allOK, ending, listener, relay, adapterVars, listVars, failures, crashes>>

WriteBackup ==
    /\ phase = "write"
    /\ backup' = [a \in up |-> servers[a]]
    /\ phase' = "apply" /\ todo' = up
    /\ UNCHANGED <<allOK, ending, listener, relay, adapterVars, listVars, failures, crashes>>

(* The directory, a query or the file fails: no takeover. *)
SkipTakeover ==
    /\ phase \in {"backup", "write"} /\ Fail
    /\ phase' = "up"
    /\ UNCHANGED <<todo, allOK, ending, listener, relay, adapterVars, backup, listVars, crashes>>

(* setAdapterDNS of one adapter; a failure leaves it to the others. *)
ApplyAdapter(a) ==
    /\ phase = "apply" /\ a \in todo
    /\ todo' = todo \ {a}
    /\ IF a \in up
       THEN \E ok \in BOOLEAN :
                Try(ok) /\ servers' = IF ok THEN [servers EXCEPT ![a] = "agent"] ELSE servers
       ELSE UNCHANGED <<servers, failures>>
    /\ UNCHANGED <<phase, allOK, ending, listener, relay, up, moved, plugs, backup, listVars,
                   crashes>>

Applied ==
    /\ phase = "apply" /\ todo = {}
    /\ phase' = "up"
    /\ UNCHANGED <<todo, allOK, ending, listener, relay, adapterVars, backup, listVars, failures,
                   crashes>>

-----------------------------------------------------------------------------
(* The end of Run *)

(* What the process leaves behind: nothing but the adapters and the file. *)
ProcessEnds(end) ==
    /\ phase' = end
    /\ todo' = {} /\ allOK' = TRUE /\ ending' = "off"
    /\ listener' = FALSE /\ relay' = FALSE
    /\ blocked' = NoList /\ reply' = Idle /\ expired' = FALSE
    /\ UNCHANGED <<store, feed, feeds>>

(* A stop, or the end of the signal or sync stream: the relay is closed and *)
(* the loop begins; without a readable file there is nothing to revert.     *)
BeginRevert(end) ==
    /\ phase = "up" /\ crashes < MaxCrashes /\ crashes' = crashes + 1
    /\ IF Readable
       THEN /\ phase' = "revert" /\ todo' = DOMAIN backup /\ allOK' = TRUE /\ ending' = end
            /\ relay' = FALSE
            /\ UNCHANGED <<listener, listVars>>
       ELSE ProcessEnds(end)
    /\ UNCHANGED <<adapterVars, backup, failures>>

(* The file may go when every adapter has its setting back. *)
Restored == allOK

Reverted ==
    /\ phase = "revert" /\ todo = {}
    /\ IF Restored
       THEN phase' = "remove" /\ UNCHANGED <<todo, allOK, ending, listener, relay, listVars>>
       ELSE ProcessEnds(ending)
    /\ UNCHANGED <<adapterVars, backup, failures, crashes>>

RemoveBackup ==
    /\ phase = "remove"
    /\ backup' = NoFile
    /\ ProcessEnds(ending)
    /\ UNCHANGED <<adapterVars, failures, crashes>>

(* The operator stops an agent that is still enrolling. *)
StopEnrolling ==
    /\ phase = "enroll" /\ crashes < MaxCrashes /\ crashes' = crashes + 1
    /\ ProcessEnds("off")
    /\ UNCHANGED <<adapterVars, backup, failures>>

(* The process is killed, or the machine loses power. *)
Crash ==
    /\ Running /\ crashes < MaxCrashes /\ crashes' = crashes + 1
    /\ ProcessEnds("failed")
    /\ UNCHANGED <<adapterVars, backup, failures>>

(* An adapter is plugged in or out.  Windows keeps its DNS setting. *)
Plug(a) ==
    /\ plugs < MaxPlugs /\ plugs' = plugs + 1
    /\ up' = IF a \in up THEN up \ {a} ELSE up \cup {a}
    /\ moved' = IF backup = NoFile THEN moved ELSE moved \cup {a}
    /\ UNCHANGED <<servers, runVars, backup, listVars, failures, crashes>>

-----------------------------------------------------------------------------
(* The malicious-domain list *)

(* Store.refresh; a feed that cannot be fetched changes nothing. *)
Refresh ==
    /\ store # feed
    /\ store' = feed
    /\ UNCHANGED <<blocked, reply, expired, feed, feeds, adapterVars, runVars, backup, failures,
                   crashes>>

FeedChanges ==
    /\ feeds < MaxFeeds /\ feeds' = feeds + 1
    /\ feed' \in Lists \ {feed}
    /\ UNCHANGED <<blocked, reply, expired, store, adapterVars, runVars, backup, failures, crashes>>

(* The management server restarts: its Store is empty until it refreshes. *)
ServerRestarts ==
    /\ store # NoList
    /\ feeds < MaxFeeds /\ feeds' = feeds + 1
    /\ store' = NoList
    /\ UNCHANGED <<blocked, reply, expired, feed, adapterVars, runVars, backup, failures, crashes>>

(* The agent keeps the token of its Login as long as it runs.  When the     *)
(* token expires, after many polls, the agent has had a list.               *)
TokenExpires ==
    /\ phase = "up" /\ ~expired /\ blocked # NoList
    /\ expired' = TRUE
    /\ UNCHANGED <<blocked, reply, store, feed, feeds, adapterVars, runVars, backup, failures,
                   crashes>>

(* GetBlocklist has a list for an agent that does not know its version. *)
GetBlocklist(known) == IF store = known THEN NoList ELSE store

(* A poll of an agent that runs; with an expired token it changes nothing. *)
Poll ==
    /\ phase = "up" /\ reply = Idle /\ ~expired
    /\ reply' = GetBlocklist(blocked)
    /\ UNCHANGED <<blocked, expired, store, feed, feeds, adapterVars, runVars, backup, failures, crashes>>

(* fetch: an answer without a list changes nothing. *)
SetBlocklist ==
    /\ reply # Idle
    /\ blocked' = (IF reply = NoList THEN blocked ELSE reply) /\ reply' = Idle
    /\ UNCHANGED <<expired, store, feed, feeds, adapterVars, runVars, backup, failures, crashes>>

(* fetch: the list after an error *)
KeptList == blocked

(* The answer does not come. *)
PollFails ==
    /\ reply # Idle /\ Fail
    /\ blocked' = KeptList /\ reply' = Idle
    /\ UNCHANGED <<expired, store, feed, feeds, adapterVars, runVars, backup, crashes>>

-----------------------------------------------------------------------------
Init ==
    /\ phase = "off" /\ todo = {} /\ allOK = TRUE /\ ending = "off"
    /\ listener = FALSE /\ relay = FALSE
    /\ servers = [a \in Adapters |-> "real"]
    /\ up \in SUBSET Adapters \ {{}}
    /\ backup = NoFile /\ moved = {}
    /\ blocked = NoList /\ reply = Idle /\ expired = FALSE
    /\ store = NoList /\ feed \in Lists
    /\ failures = 0 /\ crashes = 0 /\ plugs = 0 /\ feeds = 0

RunStep ==
    \/ Recovered \/ Enroll \/ Listen \/ StartRelay \/ BeginApply \/ BeginBackup \/ WriteBackup
    \/ SkipTakeover \/ Applied \/ Reverted \/ RemoveBackup
    \/ \E a \in Adapters : RestoreAdapter(a) \/ ApplyAdapter(a)

ListStep == Refresh \/ Poll \/ SetBlocklist

Next ==
    \/ Start \/ RunStep \/ ListStep
    \/ \E end \in {"off", "failed"} : BeginRevert(end)
    \/ StopEnrolling \/ Crash
    \/ \E a \in Adapters : Plug(a)
    \/ FeedChanges \/ ServerRestarts \/ TokenExpires \/ PollFails

(* Run goes on, the service manager restarts an agent that failed, and the  *)
(* two tickers tick.                                                        *)
Fairness ==
    /\ WF_vars(RunStep) /\ WF_vars(phase = "failed" /\ Start)
    /\ WF_vars(Refresh) /\ WF_vars(Poll) /\ WF_vars(SetBlocklist)

Spec == Init /\ [][Next]_vars /\ Fairness

-----------------------------------------------------------------------------
(* Properties *)

(* Every variable keeps its type. *)
TypeOK ==
    /\ phase \in Phases /\ ending \in {"off", "failed"}
    /\ servers \in [Adapters -> Settings]
    /\ up \subseteq Adapters /\ todo \subseteq Adapters /\ moved \subseteq Adapters
    /\ backup \in {NoFile, Torn} \/ IsMap(backup, Adapters, Settings)
    /\ allOK \in BOOLEAN /\ listener \in BOOLEAN /\ relay \in BOOLEAN /\ expired \in BOOLEAN
    /\ blocked \in Lists \cup {NoList} /\ reply \in Lists \cup {NoList, Idle}
    /\ store \in Lists \cup {NoList} /\ feed \in Lists
    /\ failures \in 0 .. MaxFailures /\ crashes \in 0 .. MaxCrashes
    /\ plugs \in 0 .. MaxPlugs /\ feeds \in 0 .. MaxFeeds

(* An adapter that stayed in place is never left pointing at the agent      *)
(* without a file that knows its real servers, wherever a run of ApplyGlobal, *)
(* RecoverStaleGlobalOverride or RevertGlobal ended: the next start or stop *)
(* can put them back.  A file that was cut short is the exception.          *)
OriginalsKept ==
    \A a \in Adapters \ moved :
        servers[a] = "agent" /\ backup # Torn =>
            Readable /\ a \in DOMAIN backup /\ backup[a] = "real"

(* A failed agent finds its way back: recovery comes before enrollment, so  *)
(* it does not wait for a name that only its own resolver, which needs the  *)
(* enrollment, could look up.                                               *)
EnrollsAgain ==
    phase = "enroll" ~> (phase # "enroll" \/ up \subseteq moved \/ ~allOK \/ backup = Torn)

(* While it runs, the agent keeps filtering with the last list it had, when *)
(* the server has none or the feed cannot be fetched.                       *)
KeepsLastList == [][Running /\ Running' /\ blocked # NoList => blocked' # NoList]_vars

(* An agent that stays up filters with the feed's list in the end, while    *)
(* its token lasts.                                                         *)
FeedReachesAgent == <>[](phase = "up" /\ ~expired) => <>[](blocked = feed)

(* "The agent picks up a refreshed feed promptly without needing a server   *)
(* push": an agent that stays up filters with the feed's list in the end,   *)
(* however long it has been running.                                        *)
RefreshedFeedArrives == <>[](phase = "up") => <>[](blocked = feed)
=============================================================================
