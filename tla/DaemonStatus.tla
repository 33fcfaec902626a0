---------------------------- MODULE DaemonStatus ----------------------------
(***************************************************************************)
(* How the daemon (daemon/*.go) admits and ends its operations.            *)
(*                                                                         *)
(* Every RPC runs in a goroutine of its own, and Backup, Restore and Hello *)
(* leave a goroutine behind when they answer.  What keeps the operations   *)
(* apart is gStatus.state, which they read and write under gGlobalsLock;   *)
(* gCancelRequested asks whatever is running to stop.  An action is one    *)
(* section of code under the lock, or the work between two such sections.  *)
(* The backup engine is abstracted to what the daemon can tell: whether    *)
(* the journal has rows, in the database file and in the engine's          *)
(* in-memory copy, and which database handle the engine was given.         *)
(***************************************************************************)
EXTENDS Naturals, FiniteSets

CONSTANTS
    Jobs,         \* goroutines that can exist at a time
    Clients,      \* connections to the daemon, each with one call at a time
    Timers,       \* {} or one timerLoop, which makes the periodic calls
    Dirs,         \* how many directories the configuration lists
    None,         \* nobody; no handle
    Allowed,      \* the requests and failures the model includes
    StartDirty,   \* whether the journal has rows when the daemon starts
    MaxRequests,  \* bound: requests
    MaxHellos,    \* bound: Hello requests among them
    MaxCancels,   \* bound: CancelBackup and CancelRestore requests
    MaxFaults     \* bound: failures

RequestKinds == {"backup", "restore", "delete", "wipe", "checkConn", "hello",
                 "prune"}
FaultKinds   == {"cloud", "database", "forceFull"}

ASSUME AllowedAssumption == Allowed \subseteq RequestKinds \cup FaultKinds
ASSUME CallersAssumption == None \notin Clients \cup Timers \cup Nat \cup RequestKinds
ASSUME DirtyAssumption == StartDirty \in BOOLEAN
ASSUME LimitsAssumption ==
    /\ Dirs \in Nat /\ MaxRequests \in Nat /\ MaxHellos \in Nat
    /\ MaxCancels \in Nat /\ MaxFaults \in Nat

VARIABLES
    state, cancelRequested,  \* gStatus.state, gCancelRequested
    events,                  \* gStatus.reportedEvents, as a set of kinds
    gDb, closed,             \* the current database handle; the closed ones
    dirty,                   \* the journal in the database file has rows
    jobs,                    \* the goroutines
    dead,                    \* log.Fatal has ended the daemon
    requests, cancels, faults

globals == <<state, cancelRequested, events>>
db      == <<gDb, closed, dirty>>
counts  == <<requests, cancels, faults>>
vars    == <<globals, db, jobs, dead, counts>>

States     == {"Idle", "CheckingConn", "BackingUp", "Restoring", "CleaningUp"}

\* Kinds of reported events; "completed" is also "completed with errors".
EventKinds == {"completed", "canceled", "autoprune"}

Places == {"free",                    \* no goroutine
           "check", "set",            \* looking at, then writing, the status
           "forceFull",               \* Backup RPC, resetting the dirents
           "connect",                 \* reaching the bucket
           "dirs", "traverse",        \* Backup, between and in directories
           "play",                    \* PlayBackupJournal
           "cancelBackup",            \* unwinding a canceled backup
           "done",                    \* about to set the status back
           "items", "cancelRestore",  \* Restore's loop
           "work",                    \* the other operations
           "initDb",                  \* Hello
           "hasDirty", "isIdle",      \* Hello's replay loop
           "initial"}                 \* ReplayBackupJournal, before progress

(* A goroutine: what it does and where, who waits for it, the handle it    *)
(* holds a copy of, whether its in-memory journal has rows, and how many   *)
(* directories Backup has not yet begun.                                   *)
Job == [kind : RequestKinds \cup {None}, at : Places,
        by : Clients \cup Timers \cup {None}, db : Nat \cup {None},
        mem : BOOLEAN, left : 0..Dirs]

Free == [kind |-> None, at |-> "free", by |-> None, db |-> None,
         mem |-> FALSE, left |-> 0]

-----------------------------------------------------------------------------
At(j, kind, place) == jobs[j].kind = kind /\ jobs[j].at = place

(* j goes on at place; an engine it had started has returned.              *)
Goto(j, place) ==
    jobs' = [jobs EXCEPT ![j].at = place, ![j].db = None, ![j].mem = FALSE]

Ends(j) == jobs' = [jobs EXCEPT ![j] = Free]

(* j's RPC is answered and a goroutine goes on at place.                   *)
Spawn(j, place) == jobs' = [jobs EXCEPT ![j].at = place, ![j].by = None]

Fault(kind) == kind \in Allowed /\ faults < MaxFaults /\ faults' = faults + 1
NoFault     == UNCHANGED faults

Init ==
    /\ state = "Idle" /\ cancelRequested = FALSE /\ events = {}
    /\ gDb = 1 /\ closed = {} /\ dirty = StartDirty
    /\ jobs = [j \in Jobs |-> Free]
    /\ dead = FALSE
    /\ requests = 0 /\ cancels = 0 /\ faults = 0

(* A request of a client arrives, or the timer finds that a backup or an   *)
(* autoprune is due and that the status is Idle, and makes the call.       *)
Request(j, c, kind) ==
    /\ jobs[j] = Free /\ \A k \in Jobs : jobs[k].by # c
    /\ kind \in Allowed /\ requests < MaxRequests
    /\ kind # "prune"
    /\ kind = "hello" =>
         gDb + Cardinality({k \in Jobs : At(k, "hello", "initDb")}) <= MaxHellos
    /\ requests' = requests + 1
    /\ jobs' = [jobs EXCEPT ![j].kind = kind, ![j].by = c,
                            ![j].at = IF kind = "hello" THEN "initDb" ELSE "check"]
    /\ UNCHANGED <<globals, db, dead, cancels, faults>>

timerLoop(j, t, kind) ==
    /\ jobs[j] = Free /\ \A k \in Jobs : jobs[k].by # t
    /\ kind \in Allowed \cap {"backup", "prune"} /\ requests < MaxRequests
    /\ state = "Idle"
    /\ requests' = requests + 1
    /\ jobs' = [jobs EXCEPT ![j].kind = kind, ![j].by = t, ![j].at = "check"]
    /\ UNCHANGED <<globals, db, dead, cancels, faults>>

-----------------------------------------------------------------------------
(* The admission of an operation: look at the status in one section of the *)
(* lock, then write it in another.                                         *)
Judge(j, kind) ==
    /\ At(j, kind, "check")
    /\ IF state = "Idle" THEN Goto(j, "set") ELSE Ends(j)
    /\ UNCHANGED <<globals, db, dead, counts>>

Claim(j, kind, s, place) ==
    /\ At(j, kind, "set")
    /\ state' = s
    /\ Goto(j, place)
    /\ UNCHANGED <<cancelRequested, events, db, dead, counts>>

(* An operation ends: the status is set back to Idle.                      *)
SetIdle(j) ==
    /\ state' = "Idle"
    /\ Ends(j)
    /\ UNCHANGED <<cancelRequested, db, dead, requests, cancels>>

-----------------------------------------------------------------------------
(* The Backup RPC, and the periodic backup, which calls it.                *)
BackupRPC(j) ==
    \/ Judge(j, "backup")
    \/ /\ At(j, "backup", "set")
       /\ state' = "BackingUp"
       /\ \/ Spawn(j, "connect")
          \/ Goto(j, "forceFull")
       /\ UNCHANGED <<cancelRequested, events, db, dead, counts>>

(* A full backup was asked for: every dirent is forgotten, or the database *)
(* fails and the RPC returns.                                              *)
ForceFullBackup(j) ==
    /\ At(j, "backup", "forceFull")
    /\ \/ Spawn(j, "connect") /\ NoFault
       \/ Fault("forceFull") /\ Ends(j)
    /\ UNCHANGED <<globals, db, dead, requests, cancels>>

BackupConnects(j) ==
    /\ At(j, "backup", "connect")
    /\ jobs' = [jobs EXCEPT ![j].at = "dirs", ![j].left = Dirs]
    /\ UNCHANGED <<globals, db, dead, counts>>

(* The server is not reachable, or its metadata cannot be read.            *)
BackupUnreachable(j) ==
    /\ At(j, "backup", "connect") /\ Fault("cloud")
    /\ SetIdle(j) /\ UNCHANGED events

(* DoJournaledBackup or ReplayBackupJournal takes a copy of gDb and fills  *)
(* an in-memory database from it.                                          *)
initMemDb(j, place, left) ==
    /\ jobs' = [jobs EXCEPT ![j].at = place, ![j].db = gDb, ![j].mem = dirty,
                            ![j].left = left]
    /\ UNCHANGED <<globals, db, dead, counts>>

(* The in-memory database, with journal rows or without, is written back   *)
(* through the copied handle.  A closed handle is fatal.                   *)
Persist(j, rows) ==
    /\ dirty' = IF jobs[j].db \in closed THEN dirty ELSE rows
    /\ dead' = (jobs[j].db \in closed)
    /\ UNCHANGED <<gDb, closed>>

\* Mutant: the directories are not counted.
DoJournaledBackupUncounted(j) ==
    /\ At(j, "backup", "dirs")
    /\ initMemDb(j, "traverse", jobs[j].left - 1)

DoJournaledBackup(j) ==
    /\ At(j, "backup", "dirs") /\ jobs[j].left > 0
    /\ initMemDb(j, "traverse", jobs[j].left - 1)

(* The walk sees the cancel request, and forgets it at once.               *)
TraversalCanceled(j) ==
    /\ At(j, "backup", "traverse") /\ cancelRequested
    /\ cancelRequested' = FALSE
    /\ events' = events \cup {"canceled"}
    /\ Persist(j, jobs[j].mem)
    /\ Goto(j, "done")
    /\ UNCHANGED <<state, counts>>

(* The walk found nothing and the journal is empty: the next directory.    *)
NothingToBackUp(j) ==
    /\ At(j, "backup", "traverse") /\ ~jobs[j].mem
    /\ Persist(j, FALSE)
    /\ Goto(j, "dirs")
    /\ UNCHANGED <<globals, counts>>

(* The database fails: the backup ends, reporting nothing.                 *)
FatalError(j) ==
    /\ At(j, "backup", "traverse") /\ Fault("database")
    /\ Persist(j, jobs[j].mem)
    /\ Goto(j, "done")
    /\ UNCHANGED <<globals, requests, cancels>>

(* The journal is filled, and persisted before it is played.               *)
JournalFilled(j) ==
    /\ At(j, "backup", "traverse")
    /\ Persist(j, TRUE)
    /\ jobs' = [jobs EXCEPT ![j].at = "play", ![j].mem = TRUE]
    /\ UNCHANGED <<globals, counts>>

(* Where an engine's caller goes on: Backup to the next directory, replay  *)
(* to its end with the event ReplayBackupJournal returns.                  *)
EngineReturns(j, kind, event) ==
    \/ /\ kind = "backup"
       /\ Goto(j, IF event = "completed" THEN "dirs" ELSE "done")
       /\ events' = events \cup ({event} \ {"completed"})
    \/ /\ kind = "hello"
       /\ Goto(j, "done")
       /\ events' = events \cup {event}

(* The journal is played to its end, and is wiped.                         *)
PlayBackupJournal(j, kind) ==
    /\ At(j, kind, "play")
    /\ Persist(j, FALSE)
    /\ EngineReturns(j, kind, "completed")
    /\ UNCHANGED <<state, cancelRequested, counts>>

(* The snapshots cannot be listed: the journal is left, and the caller is  *)
(* told what it is told of a cancelation.                                  *)
PlayFails(j, kind) ==
    /\ At(j, kind, "play") /\ Fault("cloud")
    /\ Persist(j, jobs[j].mem)
    /\ EngineReturns(j, kind, "canceled")
    /\ UNCHANGED <<state, cancelRequested, requests, cancels>>

(* While it plays, the engine persists its copy from time to time.         *)
PersistWhilePlaying(j, kind) ==
    /\ At(j, kind, "play")
    /\ Persist(j, jobs[j].mem)
    /\ UNCHANGED <<globals, jobs, counts>>

(* The cancel request is seen, and cancelBackup announces itself.          *)
checkAndHandleCancelation(j, kind) ==
    /\ At(j, kind, "play") /\ cancelRequested
    /\ state' = "CleaningUp"
    /\ jobs' = [jobs EXCEPT ![j].at = "cancelBackup"]
    /\ UNCHANGED <<cancelRequested, events, db, dead, counts>>

(* It is done: the request is forgotten, and the engine returns, writing   *)
(* its in-memory database, journal and all, back to the file.              *)
cancelBackup(j, kind) ==
    /\ At(j, kind, "cancelBackup")
    /\ cancelRequested' = FALSE
    /\ Persist(j, jobs[j].mem)
    /\ EngineReturns(j, kind, "canceled")
    /\ UNCHANGED <<state, counts>>

(* Every directory is backed up.                                           *)
BackupReports(j) ==
    /\ At(j, "backup", "dirs") /\ jobs[j].left = 0
    /\ events' = events \cup {"completed"}
    /\ Goto(j, "done")
    /\ UNCHANGED <<state, cancelRequested, db, dead, counts>>

\* Mutant: the status is not set back.
BackupDoneForgetsStatus(j) ==
    /\ At(j, "backup", "done")
    /\ Ends(j)
    /\ UNCHANGED <<globals, db, dead, counts>>

BackupDone(j) == At(j, "backup", "done") /\ SetIdle(j) /\ UNCHANGED <<events, faults>>

Backup(j) ==
    \/ BackupRPC(j) \/ ForceFullBackup(j)
    \/ BackupConnects(j) \/ BackupUnreachable(j)
    \/ DoJournaledBackup(j) \/ TraversalCanceled(j) \/ NothingToBackUp(j)
    \/ FatalError(j) \/ JournalFilled(j)
    \/ BackupReports(j) \/ BackupDone(j)
    \/ PlayBackupJournal(j, "backup") \/ PlayFails(j, "backup")
    \/ checkAndHandleCancelation(j, "backup") \/ cancelBackup(j, "backup")

-----------------------------------------------------------------------------
(* Restore.                                                                *)
\* Mutant: Restore does not look at the status.
RestoreRPCUnchecked(j) ==
    \/ /\ At(j, "restore", "check")
       /\ Goto(j, "set")
       /\ UNCHANGED <<globals, db, dead, counts>>
    \/ /\ At(j, "restore", "set")
       /\ state' = "Restoring"
       /\ Spawn(j, "connect")
       /\ UNCHANGED <<cancelRequested, events, db, dead, counts>>

RestoreRPC(j) ==
    \/ Judge(j, "restore")
    \/ /\ At(j, "restore", "set")
       /\ state' = "Restoring"
       /\ Spawn(j, "connect")
       /\ UNCHANGED <<cancelRequested, events, db, dead, counts>>

(* The server, the snapshot's name or its index is no good.                *)
RestoreFails(j) ==
    /\ At(j, "restore", "connect") /\ Fault("cloud")
    /\ SetIdle(j) /\ UNCHANGED events

RestoreConnects(j) ==
    /\ At(j, "restore", "connect")
    /\ Goto(j, "items")
    /\ UNCHANGED <<globals, db, dead, counts>>

(* One item is restored; the status is written again.                      *)
RestoreItem(j) ==
    /\ At(j, "restore", "items")
    /\ state' = "Restoring"
    /\ UNCHANGED <<cancelRequested, events, db, jobs, dead, counts>>

RestoreSeesCancel(j) ==
    /\ At(j, "restore", "items") /\ cancelRequested
    /\ Goto(j, "cancelRestore")
    /\ UNCHANGED <<globals, db, dead, counts>>

RestoreForgetsCancel(j) ==
    /\ At(j, "restore", "cancelRestore")
    /\ cancelRequested' = FALSE
    /\ Goto(j, "done")
    /\ UNCHANGED <<state, events, db, dead, counts>>

RestoreDone(j) ==
    /\ At(j, "restore", "items") \/ At(j, "restore", "done")
    /\ SetIdle(j) /\ UNCHANGED <<events, faults>>

Restore(j) ==
    \/ RestoreRPC(j) \/ RestoreFails(j) \/ RestoreConnects(j)
    \/ RestoreSeesCancel(j) \/ RestoreForgetsCancel(j) \/ RestoreDone(j)

-----------------------------------------------------------------------------
(* The operations that run inside their RPC, or inside timerLoop.          *)
DeleteSnapshots(j) ==
    \/ Judge(j, "delete") \/ Claim(j, "delete", "CleaningUp", "work")
    \/ At(j, "delete", "work") /\ SetIdle(j) /\ UNCHANGED <<events, faults>>

WipeCloud(j) ==
    \/ Judge(j, "wipe") \/ Claim(j, "wipe", "CleaningUp", "work")
    \/ At(j, "wipe", "work") /\ SetIdle(j) /\ UNCHANGED <<events, faults>>

(* A failure to list the snapshots ends the prune without its event.       *)
PruneSnapshots(j) ==
    \/ Judge(j, "prune") \/ Claim(j, "prune", "CleaningUp", "work")
    \/ /\ At(j, "prune", "work")
       /\ SetIdle(j)
       /\ \/ events' = events \cup {"autoprune"} /\ NoFault
          \/ UNCHANGED events /\ Fault("cloud")

(* CheckConn looks and writes in one section of the lock.                  *)
CheckConn(j) ==
    \/ /\ At(j, "checkConn", "check")
       /\ IF state = "Idle" THEN state' = "CheckingConn" /\ Goto(j, "work")
                            ELSE UNCHANGED state /\ Ends(j)
       /\ UNCHANGED <<cancelRequested, events, db, dead, counts>>
    \/ At(j, "checkConn", "work") /\ SetIdle(j) /\ UNCHANGED <<events, faults>>

-----------------------------------------------------------------------------
(* Hello opens the database again, closing the old handle if the status is *)
(* Idle, reads the configuration, and starts the replay loop.              *)
initDbConn(j) ==
    /\ At(j, "hello", "initDb")
    /\ gDb' = gDb + 1
    /\ closed' = closed \cup (IF state = "Idle" THEN {gDb} ELSE {})
    /\ \/ Spawn(j, "hasDirty") /\ NoFault
       \/ Fault("cloud") /\ Ends(j)
    /\ UNCHANGED <<globals, dirty, dead, requests, cancels>>

Hello(j) ==
    \/ initDbConn(j)
    \/ /\ At(j, "hello", "hasDirty")
       /\ IF dirty THEN Goto(j, "isIdle") ELSE Ends(j)
       /\ UNCHANGED <<globals, db, dead, counts>>
    \/ /\ At(j, "hello", "isIdle")
       /\ Goto(j, IF state = "Idle" THEN "connect" ELSE "hasDirty")
       /\ UNCHANGED <<globals, db, dead, counts>>

ReplayUnreachable(j) ==
    /\ At(j, "hello", "connect") /\ Fault("cloud")
    /\ state' = "Idle"
    /\ Goto(j, "hasDirty")
    /\ UNCHANGED <<cancelRequested, events, db, dead, requests, cancels>>

ReplayBackupJournal(j) == At(j, "hello", "connect") /\ initMemDb(j, "initial", 0)

(* Only here does the status say that a backup is running.                 *)
setReplayInitialProgress(j) ==
    /\ At(j, "hello", "initial")
    /\ state' = "BackingUp"
    /\ jobs' = [jobs EXCEPT ![j].at = "play"]
    /\ UNCHANGED <<cancelRequested, events, db, dead, counts>>

ReplayDone(j) ==
    /\ At(j, "hello", "done")
    /\ state' = "Idle"
    /\ Goto(j, "hasDirty")
    /\ UNCHANGED <<cancelRequested, events, db, dead, counts>>

Replay(j) ==
    \/ Hello(j) \/ ReplayUnreachable(j) \/ ReplayBackupJournal(j)
    \/ setReplayInitialProgress(j) \/ ReplayDone(j)
    \/ PlayBackupJournal(j, "hello") \/ PlayFails(j, "hello")
    \/ checkAndHandleCancelation(j, "hello") \/ cancelBackup(j, "hello")

-----------------------------------------------------------------------------
(* CancelBackup and CancelRestore, at any time.                            *)
CancelBackup ==
    /\ cancels < MaxCancels
    /\ cancels' = cancels + 1
    /\ cancelRequested' = TRUE
    /\ UNCHANGED <<state, events, db, jobs, dead, requests, faults>>

\* Mutant: the events are never handed over.
StatusKeepsEvents ==
    /\ state = "Idle" /\ events # {}
    /\ UNCHANGED vars

(* The Status RPC hands over the reported events, when the state is Idle.  *)
Status ==
    /\ state = "Idle" /\ events # {}
    /\ events' = {}
    /\ UNCHANGED <<state, cancelRequested, db, jobs, dead, counts>>

(* What a goroutine does to go on, and what it may repeat meanwhile.       *)
Work(j) ==
    \/ Backup(j) \/ Restore(j) \/ DeleteSnapshots(j) \/ WipeCloud(j)
    \/ PruneSnapshots(j) \/ CheckConn(j) \/ Replay(j)

Meanwhile(j) ==
    \/ RestoreItem(j)
    \/ PersistWhilePlaying(j, "backup") \/ PersistWhilePlaying(j, "hello")

Next ==
    /\ ~dead
    /\ \/ \E j \in Jobs, c \in Clients, kind \in RequestKinds : Request(j, c, kind)
       \/ \E j \in Jobs, t \in Timers, kind \in RequestKinds : timerLoop(j, t, kind)
       \/ \E j \in Jobs : Work(j) \/ Meanwhile(j)
       \/ CancelBackup \/ Status

Spec == Init /\ [][Next]_vars

(* Goroutines are scheduled, and the client polls the status.  A loop over *)
(* items or directories is over a finite list, so Meanwhile is not all a   *)
(* goroutine ever does.                                                    *)
Fairness ==
    /\ \A j \in Jobs : WF_vars(~dead /\ Work(j))
    /\ WF_vars(~dead /\ Status)

FairSpec == Spec /\ Fairness

-----------------------------------------------------------------------------
(* Between its admission and its last write of the status.                 *)
InProgress(j) ==
    jobs[j].at \notin {"free", "check", "set", "initDb", "hasDirty", "isIdle"}

(* Type correctness; in particular Backup's count of directories stays     *)
(* within the list, and no goroutine is at a place that does not exist.    *)
TypeOK ==
    /\ state \in States /\ cancelRequested \in BOOLEAN
    /\ events \subseteq EventKinds
    /\ gDb \in Nat /\ closed \subseteq Nat /\ dirty \in BOOLEAN
    /\ jobs \in [Jobs -> Job]
    /\ dead \in BOOLEAN
    /\ requests \in 0..MaxRequests /\ cancels \in 0..MaxCancels
    /\ faults \in 0..MaxFaults

(* The status does not outlive the work: when no operation is in progress  *)
(* it is Idle again, however operations overlapped, failed or were         *)
(* canceled, so the daemon never refuses everything from then on           *)
(* (backup.go: "Judge from the current status").                           *)
QuiescentIdle == (\A j \in Jobs : ~InProgress(j)) => state = "Idle"

(* Two operations are never in progress together: "Can we start a backup   *)
(* right now?  Judge from the current status" (backup.go:25), "already     *)
(* doing a backup right now", "busy with other work".                      *)
OneAtATime == \A j, k \in Jobs : InProgress(j) /\ InProgress(k) => j = k

(* No engine meets a handle that Hello has closed, which would end the     *)
(* daemon with log.Fatal: "we only call gDb.Close() when we're in an Idle  *)
(* state, meaning no one is holding a long-lived copy" (main.go:123).      *)
NeverFatal == ~dead

(* An event an operation reports reaches the client.                       *)
EventsDelivered == events # {} ~> (events = {} \/ dead)

(* Every operation that was let in ends, and so does every replay loop.    *)
WorkEnds == \A j \in Jobs : jobs[j] # Free ~> (jobs[j] = Free \/ dead)
=============================================================================
