--------------------------- MODULE AgentDnsProofs ---------------------------
(***************************************************************************)
(* Proofs about AgentDns, for any number of adapters, lists, failures and  *)
(* ends of the process.                                                    *)
(***************************************************************************)
EXTENDS AgentDns, TLAPS

(* The adapters whose history the file can tell. *)
InPlace == Adapters \ moved

AllReal == \A a \in InPlace : servers[a] = "real"

(* A readable file lists the adapters that are up, with their real servers: *)
(* an adapter that comes or goes while there is a file is not in place.     *)
FileTells ==
    Readable => \A a \in InPlace :
        (a \in up <=> a \in DOMAIN backup) /\ (a \in DOMAIN backup => backup[a] = "real")

(* What the commands of Run have done so far. *)
Progress ==
    /\ phase = "write" => backup = Torn /\ AllReal
    /\ phase = "apply" => backup # NoFile
    /\ Restoring => todo \subseteq StaleAdapters
    /\ phase = "revert" => Readable /\ (allOK => \A a \in InPlace \ todo : servers[a] = "real")
    /\ phase = "remove" => AllReal

DnsInv == TypeOK /\ OriginalsKept /\ FileTells /\ Progress

-----------------------------------------------------------------------------
(* Types *)

(* The groups of variables that a step changes together. *)
HostTypes ==
    /\ servers \in [Adapters -> Settings]
    /\ up \subseteq Adapters /\ moved \subseteq Adapters
    /\ backup \in {NoFile, Torn} \/ IsMap(backup, Adapters, Settings)

RunTypes ==
    /\ phase \in Phases /\ ending \in {"off", "failed"} /\ todo \subseteq Adapters
    /\ allOK \in BOOLEAN /\ listener \in BOOLEAN /\ relay \in BOOLEAN

ListTypes ==
    /\ expired \in BOOLEAN
    /\ blocked \in Lists \cup {NoList} /\ reply \in Lists \cup {NoList, Idle}
    /\ store \in Lists \cup {NoList} /\ feed \in Lists

BoundTypes ==
    /\ failures \in 0 .. MaxFailures /\ crashes \in 0 .. MaxCrashes
    /\ plugs \in 0 .. MaxPlugs /\ feeds \in 0 .. MaxFeeds

LEMMA TypeGroups == TypeOK <=> HostTypes /\ RunTypes /\ ListTypes /\ BoundTypes
BY DEF TypeOK, HostTypes, RunTypes, ListTypes, BoundTypes

LEMMA Bounds == MaxFailures \in Nat /\ MaxCrashes \in Nat /\ MaxPlugs \in Nat /\ MaxFeeds \in Nat
BY DnsAssumption

(* A bounded counter stays within its bound. *)
LEMMA Counts ==
    ASSUME NEW n, NEW max \in Nat, n \in 0 .. max, n < max
    PROVE  n + 1 \in 0 .. max
OBVIOUS

(* A call that may fail counts its failures. *)
LEMMA TryCounts ==
    ASSUME failures \in 0 .. MaxFailures, NEW ok, Try(ok) \/ Fail
    PROVE  failures' \in 0 .. MaxFailures
BY Bounds, Counts DEF Try, Fail

(* What ProcessEnds leaves behind is well typed. *)
LEMMA EndTypes ==
    ASSUME RunTypes, ListTypes, NEW end \in {"off", "failed"}, ProcessEnds(end)
    PROVE  RunTypes' /\ ListTypes'
BY DEF RunTypes, ListTypes, ProcessEnds, Phases

(* The adapters of a file are adapters of the host. *)
LEMMA FileTypes ==
    ASSUME HostTypes, Readable
    PROVE  DOMAIN backup \subseteq Adapters /\ \A a \in DOMAIN backup : backup[a] \in Settings
BY DEF HostTypes, Readable, IsMap

LEMMA TypeInit == Init => TypeOK
<1> SUFFICES ASSUME Init PROVE TypeOK
  OBVIOUS
<1>1. BoundTypes
  BY Bounds DEF Init, BoundTypes
<1>2. RunTypes
  BY DEF Init, RunTypes, Phases
<1>3. ListTypes
  BY DEF Init, ListTypes
<1>4. HostTypes
  BY DEF Init, HostTypes, Settings
<1> QED
  BY <1>1, <1>2, <1>3, <1>4, TypeGroups

(* The steps of restoreBackup and of ApplyGlobal. *)
LEMMA TypeAdapter ==
    ASSUME TypeOK, Restoring => todo \subseteq StaleAdapters, NEW a \in Adapters,
           RestoreAdapter(a) \/ ApplyAdapter(a)
    PROVE  TypeOK'
<1>1. HostTypes /\ RunTypes /\ ListTypes /\ BoundTypes
  BY TypeGroups
<1>2. UNCHANGED <<phase, ending, listener, relay, up, moved, plugs, backup, listVars, crashes>>
  BY DEF RestoreAdapter, ApplyAdapter
<1>3. ListTypes'
  BY <1>1, <1>2 DEF ListTypes, listVars
<1>4. failures' \in 0 .. MaxFailures
  BY <1>1, TryCounts DEF BoundTypes, RestoreAdapter, ApplyAdapter
<1>5. BoundTypes'
  BY <1>1, <1>2, <1>4 DEF BoundTypes, listVars
<1>6. allOK' \in BOOLEAN /\ todo' \subseteq todo
  BY <1>1 DEF RunTypes, RestoreAdapter, ApplyAdapter
<1>7. RunTypes'
  BY <1>1, <1>2, <1>6 DEF RunTypes
<1>8. servers' \in [Adapters -> Settings]
  <2>1. \E v \in Settings : servers' \in {servers, [servers EXCEPT ![a] = v]}
    <3>1. CASE RestoreAdapter(a)
      <4>1. backup[a] \in Settings
        BY <1>1, <3>1, FileTypes DEF RestoreAdapter, StaleAdapters
      <4> QED
        BY <3>1, <4>1 DEF RestoreAdapter
    <3>2. CASE ApplyAdapter(a)
      BY <3>2 DEF ApplyAdapter, Settings
    <3> QED
      BY <3>1, <3>2
  <2> QED
    BY <1>1, <2>1 DEF HostTypes
<1>9. HostTypes'
  BY <1>1, <1>2, <1>8 DEF HostTypes
<1> QED
  BY <1>3, <1>5, <1>7, <1>9, TypeGroups, PTL

(* The other steps of Run. *)
LEMMA TypeRun ==
    ASSUME TypeOK, Start \/ Recovered \/ Enroll \/ Listen \/ StartRelay \/ BeginApply
                   \/ BeginBackup \/ WriteBackup \/ SkipTakeover \/ Applied
    PROVE  TypeOK'
<1>1. HostTypes /\ RunTypes /\ ListTypes /\ BoundTypes
  BY TypeGroups
<1>2. UNCHANGED <<adapterVars, listVars, crashes, ending>>
  BY DEF Start, Recovered, Enroll, Listen, StartRelay, BeginApply, BeginBackup, WriteBackup,
         SkipTakeover, Applied
<1>3. ListTypes'
  BY <1>1, <1>2 DEF ListTypes, listVars
<1>4. failures' \in 0 .. MaxFailures
  BY <1>1, TryCounts
     DEF BoundTypes, Start, Recovered, Enroll, Listen, StartRelay, BeginApply, BeginBackup,
         WriteBackup, SkipTakeover, Applied
<1>5. BoundTypes'
  BY <1>1, <1>2, <1>4 DEF BoundTypes, listVars, adapterVars
<1>6. phase' \in Phases /\ allOK' \in BOOLEAN /\ listener' \in BOOLEAN /\ relay' \in BOOLEAN
  BY <1>1
     DEF RunTypes, Phases, Try, Start, Recovered, Enroll, Listen, StartRelay, BeginApply,
         BeginBackup, WriteBackup, SkipTakeover, Applied
<1>7. todo' \subseteq Adapters
  <2>1. up \subseteq Adapters /\ StaleAdapters \subseteq Adapters /\ todo \subseteq Adapters
    BY <1>1, FileTypes DEF HostTypes, RunTypes, StaleAdapters
  <2>2. todo' \in {up, StaleAdapters, todo}
    BY DEF Start, Recovered, Enroll, Listen, StartRelay, BeginApply, BeginBackup, WriteBackup,
           SkipTakeover, Applied
  <2> QED
    BY <2>1, <2>2
<1>8. RunTypes'
  BY <1>1, <1>2, <1>6, <1>7 DEF RunTypes
<1>9. backup' \in {NoFile, Torn} \/ IsMap(backup', Adapters, Settings)
  <2>1. CASE WriteBackup
    BY <1>1, <2>1 DEF WriteBackup, HostTypes, IsMap
  <2>2. CASE backup' \in {backup, Torn}
    BY <1>1, <2>2 DEF HostTypes
  <2> QED
    BY <2>1, <2>2
       DEF Start, Recovered, Enroll, Listen, StartRelay, BeginApply, BeginBackup, SkipTakeover,
           Applied
<1>10. HostTypes'
  BY <1>1, <1>2, <1>9 DEF HostTypes, adapterVars
<1> QED
  BY <1>3, <1>5, <1>8, <1>10, TypeGroups, PTL

(* The ways Run ends. *)
LEMMA TypeEnd ==
    ASSUME TypeOK, \/ \E end \in {"off", "failed"} : BeginRevert(end)
                   \/ Reverted \/ RemoveBackup \/ StopEnrolling \/ Crash
    PROVE  TypeOK'
<1>1. HostTypes /\ RunTypes /\ ListTypes /\ BoundTypes
  BY TypeGroups
<1>2. UNCHANGED <<adapterVars, failures>> /\ backup' \in {backup, NoFile}
  BY DEF BeginRevert, Reverted, RemoveBackup, StopEnrolling, Crash
<1>3. HostTypes'
  BY <1>1, <1>2 DEF HostTypes, adapterVars
<1>4. crashes' \in 0 .. MaxCrashes
  BY <1>1, Counts, Bounds
     DEF BoundTypes, BeginRevert, Reverted, RemoveBackup, StopEnrolling, Crash
<1>5. ASSUME NEW end \in {"off", "failed"}, ProcessEnds(end)
      PROVE  RunTypes' /\ ListTypes' /\ UNCHANGED feeds
  BY <1>1, <1>5, EndTypes DEF ProcessEnds
<1>6. ending \in {"off", "failed"}
  BY <1>1 DEF RunTypes
<1>7. RunTypes' /\ ListTypes' /\ UNCHANGED feeds
  <2>1. ASSUME NEW end \in {"off", "failed"}, BeginRevert(end)
        PROVE  RunTypes' /\ ListTypes' /\ UNCHANGED feeds
    <3>1. CASE ~Readable
      BY <1>5, <2>1, <3>1 DEF BeginRevert
    <3>2. CASE Readable
      <4>1. DOMAIN backup \subseteq Adapters
        BY <1>1, <3>2, FileTypes
      <4> QED
        BY <1>1, <2>1, <3>2, <4>1 DEF BeginRevert, RunTypes, ListTypes, listVars, Phases
    <3> QED
      BY <3>1, <3>2
  <2>2. CASE Reverted
    <3>1. CASE ~Restored
      BY <1>5, <1>6, <2>2, <3>1 DEF Reverted
    <3>2. CASE Restored
      BY <1>1, <2>2, <3>2 DEF Reverted, RunTypes, ListTypes, listVars, Phases
    <3> QED
      BY <3>1, <3>2
  <2>3. CASE RemoveBackup \/ StopEnrolling \/ Crash
    BY <1>5, <1>6, <2>3 DEF RemoveBackup, StopEnrolling, Crash
  <2> QED
    BY <2>1, <2>2, <2>3
<1>8. BoundTypes'
  BY <1>1, <1>2, <1>4, <1>7 DEF BoundTypes, adapterVars
<1> QED
  BY <1>3, <1>7, <1>8, TypeGroups, PTL

(* The steps of the list, of the server and of the adapters. *)
LEMMA TypeRest ==
    ASSUME TypeOK, ListStep \/ FeedChanges \/ ServerRestarts \/ TokenExpires \/ PollFails
                   \/ (\E a \in Adapters : Plug(a)) \/ UNCHANGED vars
    PROVE  TypeOK'
<1>1. HostTypes /\ RunTypes /\ ListTypes /\ BoundTypes
  BY TypeGroups
<1>2. RunTypes'
  <2>1. UNCHANGED runVars
    BY DEF ListStep, Refresh, Poll, SetBlocklist, FeedChanges, ServerRestarts, TokenExpires,
           PollFails, Plug, vars
  <2> QED
    BY <1>1, <2>1 DEF RunTypes, runVars
<1>3. CASE \E a \in Adapters : Plug(a)
  <2>1. HostTypes' /\ ListTypes'
    BY <1>1, <1>3 DEF Plug, HostTypes, ListTypes, listVars
  <2>2. plugs' \in 0 .. MaxPlugs
    BY <1>1, <1>3, Counts, Bounds DEF Plug, BoundTypes
  <2>3. BoundTypes'
    BY <1>1, <1>3, <2>2 DEF BoundTypes, Plug, listVars
  <2> QED
    BY <1>2, <2>1, <2>3, TypeGroups, PTL
<1>4. CASE UNCHANGED vars
  <2>1. HostTypes' /\ ListTypes' /\ BoundTypes'
    BY <1>1, <1>4 DEF vars, adapterVars, listVars, HostTypes, ListTypes, BoundTypes
  <2> QED
    BY <1>2, <2>1, TypeGroups, PTL
<1>5. CASE ListStep \/ FeedChanges \/ ServerRestarts \/ TokenExpires \/ PollFails
  <2>1. UNCHANGED <<adapterVars, backup, crashes>>
    BY <1>5 DEF ListStep, Refresh, Poll, SetBlocklist, FeedChanges, ServerRestarts,
                TokenExpires, PollFails
  <2>2. HostTypes'
    BY <1>1, <2>1 DEF HostTypes, adapterVars
  <2>3. failures' \in 0 .. MaxFailures
    BY <1>1, <1>5, TryCounts
       DEF BoundTypes, ListStep, Refresh, Poll, SetBlocklist, FeedChanges, ServerRestarts,
           TokenExpires, PollFails
  <2>4. feeds' \in 0 .. MaxFeeds
    <3>1. feeds' = feeds \/ (feeds < MaxFeeds /\ feeds' = feeds + 1)
      BY <1>5 DEF ListStep, Refresh, Poll, SetBlocklist, FeedChanges, ServerRestarts,
                  TokenExpires, PollFails
    <3> QED
      BY <1>1, <3>1, Counts, Bounds DEF BoundTypes
  <2>5. BoundTypes'
    BY <1>1, <2>1, <2>3, <2>4 DEF BoundTypes, adapterVars
  <2>6. ListTypes'
    BY <1>1, <1>5
       DEF ListTypes, ListStep, Refresh, Poll, SetBlocklist, FeedChanges, ServerRestarts,
           TokenExpires, PollFails, GetBlocklist, KeptList
  <2> QED
    BY <1>2, <2>2, <2>5, <2>6, TypeGroups, PTL
<1> QED
  BY <1>3, <1>4, <1>5

-----------------------------------------------------------------------------
(* The original settings *)

(* A step that touches neither the adapters nor the file. *)
LEMMA HostKept ==
    ASSUME OriginalsKept, FileTells, UNCHANGED <<servers, up, moved, backup>>
    PROVE  OriginalsKept' /\ FileTells'
BY DEF OriginalsKept, FileTells, InPlace, Readable

(* Between the loops nothing is in progress. *)
LEMMA Between ==
    ASSUME phase' \in {"off", "failed", "enroll", "listen", "bind", "backup", "up"}
    PROVE  Progress'
BY DEF Progress, Restoring

(* A file is never one of the marks for its absence. *)
LEMMA FilesAreFiles ==
    ASSUME NEW A \in SUBSET Adapters, NEW f \in [A -> Settings]
    PROVE  f # NoFile /\ f # Torn
BY DnsAssumption

(* Without a file no adapter in place points at the agent. *)
LEMMA NoFileReal ==
    ASSUME TypeOK, OriginalsKept, backup = NoFile
    PROVE  AllReal
<1>1. backup # Torn /\ ~Readable
  BY DnsAssumption DEF Readable
<1> QED
  BY <1>1 DEF TypeOK, OriginalsKept, AllReal, InPlace, Settings

(* restoreBackup puts back what the file says, which is the real setting of *)
(* every adapter in place.                                                  *)
LEMMA RestoreKeeps ==
    ASSUME DnsInv, NEW a \in Adapters, RestoreAdapter(a)
    PROVE  OriginalsKept' /\ FileTells' /\ Progress'
<1>1. UNCHANGED <<phase, up, moved, backup>> /\ Restoring /\ a \in todo /\ todo' = todo \ {a}
  BY DEF RestoreAdapter
<1>2. Readable /\ a \in DOMAIN backup /\ todo \subseteq DOMAIN backup
  BY <1>1 DEF DnsInv, Progress, StaleAdapters
<1>3. a \in InPlace => a \in up /\ backup[a] = "real"
  BY <1>2 DEF DnsInv, FileTells
<1>4. servers \in [Adapters -> Settings]
  BY DEF DnsInv, TypeOK
<1>5. \A b \in Adapters : b # a => servers'[b] = servers[b]
  BY <1>4 DEF RestoreAdapter
<1>6. a \in InPlace => servers'[a] \in {servers[a], "real"} /\ (allOK' => allOK /\ servers'[a] = "real")
  BY <1>3, <1>4 DEF RestoreAdapter
<1>7. a \notin up => allOK' = allOK
  BY DEF RestoreAdapter
<1>8. allOK' => allOK
  BY <1>7 DEF RestoreAdapter
<1>9. OriginalsKept'
  BY <1>1, <1>5, <1>6 DEF DnsInv, OriginalsKept, InPlace, Readable
<1>10. FileTells'
  BY <1>1 DEF DnsInv, FileTells, InPlace, Readable
<1>11. Progress'
  <2>1. todo' \subseteq StaleAdapters'
    BY <1>1, <1>2 DEF StaleAdapters, Readable
  <2>2. phase = "revert" => Readable' /\ (allOK' => \A b \in InPlace' \ todo' : servers'[b] = "real")
    BY <1>1, <1>2, <1>5, <1>6, <1>8 DEF DnsInv, Progress, InPlace, Readable
  <2> QED
    BY <1>1, <2>1, <2>2 DEF Progress, Restoring
<1> QED
  BY <1>9, <1>10, <1>11

(* ApplyGlobal takes over an adapter only when the file has its setting or  *)
(* was cut short.                                                           *)
LEMMA ApplyKeeps ==
    ASSUME DnsInv, NEW a \in Adapters, ApplyAdapter(a)
    PROVE  OriginalsKept' /\ FileTells' /\ Progress'
<1>1. UNCHANGED <<phase, up, moved, backup>> /\ phase = "apply"
  BY DEF ApplyAdapter
<1>2. backup # NoFile
  BY <1>1 DEF DnsInv, Progress
<1>3. servers \in [Adapters -> Settings]
  BY DEF DnsInv, TypeOK
<1>4. \A b \in Adapters : servers'[b] = servers[b] \/ (b = a /\ a \in up)
  BY <1>3 DEF ApplyAdapter
<1>5. OriginalsKept'
  <2> SUFFICES ASSUME NEW b \in Adapters \ moved, servers'[b] = "agent", backup # Torn
               PROVE  Readable /\ b \in DOMAIN backup /\ backup[b] = "real"
    BY <1>1 DEF OriginalsKept, Readable
  <2>1. CASE servers[b] = "agent"
    BY <2>1 DEF DnsInv, OriginalsKept
  <2>2. CASE b \in up
    BY <1>2, <2>2 DEF DnsInv, FileTells, InPlace, Readable
  <2> QED
    BY <1>4, <2>1, <2>2
<1>6. FileTells'
  BY <1>1 DEF DnsInv, FileTells, InPlace, Readable
<1>7. Progress'
  BY <1>1, <1>2 DEF Progress, Restoring
<1> QED
  BY <1>5, <1>6, <1>7

(* The file is created when the adapters in place have their real settings, *)
(* and it is complete before the first of them is taken over.               *)
LEMMA RunKeeps ==
    ASSUME DnsInv, Start \/ Recovered \/ Enroll \/ Listen \/ StartRelay \/ BeginApply
                   \/ BeginBackup \/ WriteBackup \/ SkipTakeover \/ Applied
    PROVE  OriginalsKept' /\ FileTells' /\ Progress'
<1>1. UNCHANGED <<servers, up, moved>>
  BY DEF Start, Recovered, Enroll, Listen, StartRelay, BeginApply, BeginBackup, WriteBackup,
         SkipTakeover, Applied, adapterVars
<1>2. TypeOK /\ OriginalsKept /\ FileTells
  BY DEF DnsInv
<1>3. CASE Recovered \/ Enroll \/ Listen \/ StartRelay \/ SkipTakeover \/ Applied
  <2>1. UNCHANGED backup /\ phase' \in {"enroll", "listen", "bind", "backup", "up"}
    BY <1>3 DEF Recovered, Enroll, Listen, StartRelay, SkipTakeover, Applied
  <2> QED
    BY <1>1, <1>2, <2>1, HostKept, Between
<1>4. CASE Start
  <2>1. UNCHANGED backup /\ phase' = "recover" /\ todo' = StaleAdapters
    BY <1>4 DEF Start
  <2>2. Progress'
    BY <2>1 DEF Progress, Restoring, StaleAdapters, Readable
  <2> QED
    BY <1>1, <1>2, <2>1, <2>2, HostKept
<1>5. CASE BeginApply
  <2>1. UNCHANGED backup /\ phase' = "apply" /\ backup # NoFile
    BY <1>5 DEF BeginApply, NeedsBackup
  <2>2. Progress'
    BY <2>1 DEF Progress, Restoring
  <2> QED
    BY <1>1, <1>2, <2>1, <2>2, HostKept
<1>6. CASE BeginBackup
  <2>1. backup' = Torn /\ phase' = "write" /\ backup = NoFile
    BY <1>6 DEF BeginBackup, NeedsBackup
  <2>2. AllReal
    BY <1>2, <2>1, NoFileReal
  <2> QED
    BY <1>1, <2>1, <2>2
       DEF OriginalsKept, FileTells, Readable, Progress, Restoring, AllReal, InPlace
<1>7. CASE WriteBackup
  <2>1. backup' = [a \in up |-> servers[a]] /\ phase' = "apply" /\ phase = "write"
    BY <1>7 DEF WriteBackup
  <2>2. AllReal
    BY <2>1 DEF DnsInv, Progress
  <2>3. backup' # NoFile /\ backup' # Torn
    <3>1. [a \in up |-> servers[a]] \in [up -> Settings] /\ up \in SUBSET Adapters
      BY <1>2 DEF TypeOK
    <3> QED
      BY <2>1, <3>1, FilesAreFiles
  <2>4. OriginalsKept'
    BY <1>1, <2>2 DEF OriginalsKept, AllReal, InPlace
  <2>5. FileTells'
    BY <1>1, <2>1, <2>2 DEF FileTells, AllReal, InPlace
  <2>6. Progress'
    BY <2>1, <2>3 DEF Progress, Restoring
  <2> QED
    BY <2>4, <2>5, <2>6
<1> QED
  BY <1>3, <1>4, <1>5, <1>6, <1>7

(* RevertGlobal removes the file only when the adapters in place have their *)
(* settings back.                                                           *)
LEMMA EndKeeps ==
    ASSUME DnsInv, \/ \E end \in {"off", "failed"} : BeginRevert(end)
                   \/ Reverted \/ RemoveBackup \/ StopEnrolling \/ Crash
    PROVE  OriginalsKept' /\ FileTells' /\ Progress'
<1>1. UNCHANGED <<servers, up, moved>>
  BY DEF BeginRevert, Reverted, RemoveBackup, StopEnrolling, Crash, adapterVars
<1>2. TypeOK /\ OriginalsKept /\ FileTells /\ ending \in {"off", "failed"}
  BY DEF DnsInv, TypeOK
<1>3. ASSUME NEW end \in {"off", "failed"}, ProcessEnds(end)
      PROVE  Progress'
  BY <1>3, Between DEF ProcessEnds
<1>4. ASSUME NEW end \in {"off", "failed"}, BeginRevert(end)
      PROVE  OriginalsKept' /\ FileTells' /\ Progress'
  <2>1. UNCHANGED backup
    BY <1>4 DEF BeginRevert
  <2>2. CASE ~Readable
    BY <1>1, <1>2, <1>3, <1>4, <2>1, <2>2, HostKept DEF BeginRevert
  <2>3. CASE Readable
    <3>1. phase' = "revert" /\ todo' = DOMAIN backup
      BY <1>4, <2>3 DEF BeginRevert
    <3>2. \A a \in InPlace \ DOMAIN backup : servers[a] = "real"
      BY <1>2, <2>3 DEF TypeOK, OriginalsKept, InPlace, Readable, Settings
    <3>3. Progress'
      BY <1>1, <2>1, <2>3, <3>1, <3>2 DEF Progress, Restoring, StaleAdapters, Readable, InPlace
    <3> QED
      BY <1>1, <1>2, <2>1, <3>3, HostKept
  <2> QED
    BY <2>2, <2>3
<1>5. CASE Reverted
  <2>1. UNCHANGED backup /\ phase = "revert" /\ todo = {}
    BY <1>5 DEF Reverted
  <2>2. CASE ~Restored
    BY <1>1, <1>2, <1>3, <1>5, <2>1, <2>2, HostKept DEF Reverted
  <2>3. CASE Restored
    <3>1. AllReal
      BY <2>1, <2>3 DEF DnsInv, Progress, Restored, AllReal
    <3>2. phase' = "remove"
      BY <1>5, <2>3 DEF Reverted
    <3>3. Progress'
      BY <1>1, <3>1, <3>2 DEF Progress, Restoring, AllReal, InPlace
    <3> QED
      BY <1>1, <1>2, <2>1, <3>3, HostKept
  <2> QED
    BY <2>2, <2>3
<1>6. CASE RemoveBackup
  <2>1. AllReal /\ backup' = NoFile /\ ProcessEnds(ending)
    BY <1>6 DEF RemoveBackup, DnsInv, Progress
  <2>2. Progress'
    BY <1>2, <1>3, <2>1
  <2> QED
    BY <1>1, <2>1, <2>2 DEF OriginalsKept, FileTells, Readable, AllReal, InPlace
<1>7. CASE StopEnrolling \/ Crash
  BY <1>1, <1>2, <1>3, <1>7, HostKept DEF StopEnrolling, Crash
<1> QED
  BY <1>4, <1>5, <1>6, <1>7

(* An adapter that comes or goes is no longer in place while there is a     *)
(* file; the list touches neither.                                          *)
LEMMA RestKeeps ==
    ASSUME DnsInv, ListStep \/ FeedChanges \/ ServerRestarts \/ TokenExpires \/ PollFails
                   \/ (\E a \in Adapters : Plug(a)) \/ UNCHANGED vars
    PROVE  OriginalsKept' /\ FileTells' /\ Progress'
<1>1. UNCHANGED <<phase, todo, allOK, servers, backup>>
  BY DEF ListStep, Refresh, Poll, SetBlocklist, FeedChanges, ServerRestarts, TokenExpires,
         PollFails, Plug, vars, adapterVars, runVars
<1>2. OriginalsKept /\ FileTells /\ Progress
  BY DEF DnsInv
<1>3. moved \subseteq moved'
  BY DEF ListStep, Refresh, Poll, SetBlocklist, FeedChanges, ServerRestarts, TokenExpires,
         PollFails, Plug, vars, adapterVars
<1>4. backup = NoFile \/ \A a \in InPlace' : a \in up' <=> a \in up
  BY DEF ListStep, Refresh, Poll, SetBlocklist, FeedChanges, ServerRestarts, TokenExpires,
         PollFails, Plug, vars, adapterVars, InPlace
<1>5. OriginalsKept'
  BY <1>1, <1>2, <1>3 DEF OriginalsKept, Readable
<1>6. FileTells'
  BY <1>1, <1>2, <1>3, <1>4 DEF FileTells, Readable, InPlace
<1>7. Progress'
  BY <1>1, <1>2, <1>3 DEF Progress, Restoring, StaleAdapters, Readable, AllReal, InPlace
<1> QED
  BY <1>5, <1>6, <1>7

(* The invariant holds in every reachable state. *)
LEMMA DnsInductive == Spec => []DnsInv
<1>1. Init => DnsInv
  <2> SUFFICES ASSUME Init PROVE DnsInv
    OBVIOUS
  <2>1. AllReal /\ ~Readable
    BY DEF Init, AllReal, InPlace, Readable
  <2>2. OriginalsKept /\ FileTells
    BY <2>1 DEF OriginalsKept, FileTells, AllReal, InPlace
  <2>3. Progress
    BY DEF Init, Progress, Restoring
  <2> QED
    BY <2>2, <2>3, TypeInit DEF DnsInv
<1>2. DnsInv /\ [Next]_vars => DnsInv'
  <2> SUFFICES ASSUME DnsInv, [Next]_vars PROVE DnsInv'
    OBVIOUS
  <2>1. TypeOK /\ (Restoring => todo \subseteq StaleAdapters)
    BY DEF DnsInv, Progress
  <2>2. CASE \E a \in Adapters : RestoreAdapter(a) \/ ApplyAdapter(a)
    BY <2>1, <2>2, TypeAdapter, RestoreKeeps, ApplyKeeps DEF DnsInv
  <2>3. CASE Start \/ Recovered \/ Enroll \/ Listen \/ StartRelay \/ BeginApply
             \/ BeginBackup \/ WriteBackup \/ SkipTakeover \/ Applied
    BY <2>1, <2>3, TypeRun, RunKeeps DEF DnsInv
  <2>4. CASE \/ \E end \in {"off", "failed"} : BeginRevert(end)
             \/ Reverted \/ RemoveBackup \/ StopEnrolling \/ Crash
    BY <2>1, <2>4, TypeEnd, EndKeeps DEF DnsInv
  <2>5. CASE ListStep \/ FeedChanges \/ ServerRestarts \/ TokenExpires \/ PollFails
             \/ (\E a \in Adapters : Plug(a)) \/ UNCHANGED vars
    BY <2>1, <2>5, TypeRest, RestKeeps DEF DnsInv
  <2> QED
    BY <2>2, <2>3, <2>4, <2>5 DEF Next, RunStep
<1> QED
  BY <1>1, <1>2, PTL DEF Spec

(* Every variable of AgentDns keeps its type. *)
THEOREM DnsTyped == Spec => []TypeOK
<1>1. DnsInv => TypeOK
  BY DEF DnsInv
<1> QED
  BY <1>1, DnsInductive, PTL

(* Wherever ApplyGlobal, RecoverStaleGlobalOverride or RevertGlobal ended,  *)
(* an adapter that stayed in place and points at the agent has its real     *)
(* servers in the file, unless the file was cut short.                      *)
THEOREM OriginalsRemain == Spec => []OriginalsKept
<1>1. DnsInv => OriginalsKept
  BY DEF DnsInv
<1> QED
  BY <1>1, DnsInductive, PTL

(* A fetch that fails, or an answer without a list, leaves the agent the    *)
(* list it filters with; only the end of its process takes it away.         *)
THEOREM LastListKept == Spec => KeepsLastList
<1> DEFINE Keeps == Running /\ Running' /\ blocked # NoList => blocked' # NoList
<1>1. DnsInv /\ [Next]_vars => [Keeps]_vars
  <2> SUFFICES ASSUME DnsInv, Next, Running', blocked # NoList
               PROVE  blocked' # NoList
    OBVIOUS
  <2>1. ending \in {"off", "failed"}
    BY DEF DnsInv, TypeOK
  <2>2. ASSUME NEW end \in {"off", "failed"}, ProcessEnds(end)
        PROVE  FALSE
    BY <2>2 DEF ProcessEnds, Running
  <2>3. UNCHANGED blocked \/ SetBlocklist
    BY <2>1, <2>2
       DEF Next, RunStep, ListStep, Start, Recovered, Enroll, Listen, StartRelay, BeginApply,
           BeginBackup, WriteBackup, SkipTakeover, Applied, Reverted, RemoveBackup,
           RestoreAdapter, ApplyAdapter, BeginRevert, StopEnrolling, Crash, Plug, Refresh, Poll,
           FeedChanges, ServerRestarts, TokenExpires, PollFails, KeptList, listVars
  <2> QED
    BY <2>3 DEF SetBlocklist
<1> QED
  BY <1>1, DnsInductive, PTL DEF Spec, KeepsLastList
=============================================================================
