---------------------------- MODULE DaemonProofs ----------------------------
(***************************************************************************)
(* The status of the daemon for any number of goroutines, clients, timers  *)
(* and requests: DaemonStatus keeps its types, the status never outlives   *)
(* the work (QuiescentIdle), and operations overlap only if two goroutines *)
(* are between looking at the status and writing it (OverlapIsARace).      *)
(***************************************************************************)
EXTENDS DaemonHistory, TLAPS

(* What an action does to the goroutines keeps them goroutines.            *)
LEMMA GotoType ==
    ASSUME jobs \in [Jobs -> Job], NEW j \in Jobs, NEW place \in Places,
           Goto(j, place)
    PROVE  jobs' \in [Jobs -> Job]
<1> DEFINE r == [jobs[j] EXCEPT !.at = place, !.db = None, !.mem = FALSE]
<1>1. r \in Job
  BY DEF Job
<1>2. jobs' = [jobs EXCEPT ![j] = r]
  BY DEF Goto
<1> QED BY <1>1, <1>2

LEMMA EndsType ==
    ASSUME jobs \in [Jobs -> Job], NEW j \in Jobs, Ends(j)
    PROVE  jobs' \in [Jobs -> Job]
BY LimitsAssumption DEF Ends, Job, Free, Places

LEMMA SpawnType ==
    ASSUME jobs \in [Jobs -> Job], NEW j \in Jobs, NEW place \in Places,
           Spawn(j, place)
    PROVE  jobs' \in [Jobs -> Job]
<1> DEFINE r == [jobs[j] EXCEPT !.at = place, !.by = None]
<1>1. r \in Job
  BY DEF Job
<1>2. jobs' = [jobs EXCEPT ![j] = r]
  BY DEF Spawn
<1> QED BY <1>1, <1>2

(* The counter of the failures stays within its bound.                     *)
LEMMA FaultType ==
    ASSUME TypeOK, NEW kind, Fault(kind)
    PROVE  faults' \in 0..MaxFaults
BY LimitsAssumption DEF TypeOK, Fault

(* A request of any caller makes a free goroutine a busy one.              *)
LEMMA RequestsKeepType ==
    ASSUME TypeOK, NEW j \in Jobs, NEW kind \in RequestKinds
    PROVE  /\ \A c \in Clients : Request(j, c, kind) => TypeOK'
           /\ \A t \in Timers : timerLoop(j, t, kind) => TypeOK'
<1>1. ASSUME NEW c \in Clients, Request(j, c, kind) PROVE TypeOK'
  <2>1. jobs' \in [Jobs -> Job]
    BY <1>1 DEF TypeOK, Request, Job, Places
  <2>2. requests' \in 0..MaxRequests
    BY <1>1, LimitsAssumption DEF TypeOK, Request
  <2> QED BY <1>1, <2>1, <2>2 DEF TypeOK, Request, globals, db
<1>2. ASSUME NEW t \in Timers, timerLoop(j, t, kind) PROVE TypeOK'
  <2>1. jobs' \in [Jobs -> Job]
    BY <1>2 DEF TypeOK, timerLoop, Job, Places
  <2>2. requests' \in 0..MaxRequests
    BY <1>2, LimitsAssumption DEF TypeOK, timerLoop
  <2> QED BY <1>2, <2>1, <2>2 DEF TypeOK, timerLoop, globals, db
<1> QED BY <1>1, <1>2

LEMMA JudgeType ==
    ASSUME TypeOK, NEW j \in Jobs, NEW kind, Judge(j, kind)
    PROVE  TypeOK'
<1>1. jobs' \in [Jobs -> Job]
  BY GotoType, EndsType DEF TypeOK, Judge, Places
<1> QED BY <1>1 DEF TypeOK, Judge, globals, db, counts

LEMMA ClaimType ==
    ASSUME TypeOK, NEW j \in Jobs, NEW kind, NEW s \in States,
           NEW place \in Places, Claim(j, kind, s, place)
    PROVE  TypeOK'
<1>1. jobs' \in [Jobs -> Job]
  BY GotoType DEF TypeOK, Claim
<1> QED BY <1>1 DEF TypeOK, Claim, globals, db, counts

LEMMA SetIdleType ==
    ASSUME TypeOK, NEW j \in Jobs, SetIdle(j),
           events' \subseteq EventKinds, faults' \in 0..MaxFaults
    PROVE  TypeOK'
<1>1. jobs' \in [Jobs -> Job]
  BY EndsType DEF TypeOK, SetIdle
<1> QED BY <1>1 DEF TypeOK, SetIdle, db, States

(* Writing the in-memory database back, or filling it, keeps the types.    *)
LEMMA PersistType ==
    ASSUME TypeOK, NEW j \in Jobs, NEW rows \in BOOLEAN, Persist(j, rows)
    PROVE  /\ dirty' \in BOOLEAN /\ dead' \in BOOLEAN
           /\ gDb' \in Nat /\ closed' \subseteq Nat
BY DEF TypeOK, Persist

LEMMA InitMemDbType ==
    ASSUME TypeOK, NEW j \in Jobs, NEW place \in Places, NEW left \in 0..Dirs,
           initMemDb(j, place, left)
    PROVE  TypeOK'
<1>1. jobs' \in [Jobs -> Job]
  <2> DEFINE r == [jobs[j] EXCEPT !.at = place, !.db = gDb, !.mem = dirty,
                                  !.left = left]
  <2>1. jobs[j] \in Job
    BY DEF TypeOK
  <2>2. r \in Job
    BY <2>1 DEF TypeOK, Job
  <2>3. jobs' = [jobs EXCEPT ![j] = r]
    BY DEF initMemDb
  <2> QED BY <2>2, <2>3 DEF TypeOK
<1> QED BY <1>1 DEF TypeOK, initMemDb, globals, db, counts

LEMMA EngineReturnsType ==
    ASSUME TypeOK, NEW j \in Jobs, NEW kind,
           NEW event \in {"completed", "canceled"}, EngineReturns(j, kind, event)
    PROVE  jobs' \in [Jobs -> Job] /\ events' \subseteq EventKinds
<1>1. jobs' \in [Jobs -> Job]
  BY GotoType DEF TypeOK, EngineReturns, Places
<1>2. events' \subseteq EventKinds
  BY DEF TypeOK, EngineReturns, EventKinds
<1> QED BY <1>1, <1>2

(* The engine, whoever started it.                                         *)
LEMMA EngineKeepsType ==
    ASSUME TypeOK, NEW j \in Jobs, NEW kind,
           \/ PlayBackupJournal(j, kind) \/ PlayFails(j, kind)
           \/ PersistWhilePlaying(j, kind)
           \/ checkAndHandleCancelation(j, kind) \/ cancelBackup(j, kind)
    PROVE  TypeOK'
<1>0. jobs[j].mem \in BOOLEAN
  BY DEF TypeOK, Job
<1>1. CASE PlayBackupJournal(j, kind)
  BY <1>1, PersistType, EngineReturnsType DEF TypeOK, PlayBackupJournal, counts
<1>2. CASE PlayFails(j, kind)
  BY <1>0, <1>2, PersistType, EngineReturnsType, FaultType DEF TypeOK, PlayFails
<1>3. CASE PersistWhilePlaying(j, kind)
  BY <1>0, <1>3, PersistType DEF TypeOK, PersistWhilePlaying, globals, counts
<1>4. CASE checkAndHandleCancelation(j, kind)
  <2>1. jobs' \in [Jobs -> Job]
    BY <1>4 DEF TypeOK, checkAndHandleCancelation, Job, Places
  <2> QED BY <1>4, <2>1 DEF TypeOK, checkAndHandleCancelation, States, db, counts
<1>5. CASE cancelBackup(j, kind)
  BY <1>0, <1>5, PersistType, EngineReturnsType DEF TypeOK, cancelBackup, counts
<1> QED BY <1>1, <1>2, <1>3, <1>4, <1>5

LEMMA BackupKeepsType ==
    ASSUME TypeOK, NEW j \in Jobs, Backup(j)
    PROVE  TypeOK'
<1>0. jobs[j].mem \in BOOLEAN /\ jobs[j].left \in 0..Dirs
  BY DEF TypeOK, Job
<1>1. CASE BackupRPC(j)
  <2>1. CASE Judge(j, "backup")
    BY <2>1, JudgeType
  <2>2. CASE ~Judge(j, "backup")
    <3>1. jobs' \in [Jobs -> Job]
      BY <1>1, <2>2, GotoType, SpawnType DEF TypeOK, BackupRPC, Places
    <3> QED BY <1>1, <2>2, <3>1 DEF TypeOK, BackupRPC, States, db, counts
  <2> QED BY <2>1, <2>2
<1>2. CASE ForceFullBackup(j)
  <2>1. jobs' \in [Jobs -> Job]
    BY <1>2, EndsType, SpawnType DEF TypeOK, ForceFullBackup, Places
  <2>2. faults' \in 0..MaxFaults
    BY <1>2, FaultType DEF TypeOK, ForceFullBackup, NoFault
  <2> QED BY <1>2, <2>1, <2>2 DEF TypeOK, ForceFullBackup, globals, db
<1>3. CASE BackupConnects(j)
  <2>1. jobs' \in [Jobs -> Job]
    <3> DEFINE r == [jobs[j] EXCEPT !.at = "dirs", !.left = Dirs]
    <3>1. jobs[j] \in Job
      BY DEF TypeOK
    <3>0. Dirs \in 0..Dirs
      BY LimitsAssumption
    <3>2. r \in Job
      BY <3>0, <3>1 DEF Job, Places
    <3>3. jobs' = [jobs EXCEPT ![j] = r]
      BY <1>3 DEF BackupConnects
    <3> QED BY <3>2, <3>3 DEF TypeOK
  <2> QED BY <1>3, <2>1 DEF TypeOK, BackupConnects, globals, db, counts
<1>4. CASE BackupUnreachable(j)
  BY <1>4, SetIdleType, FaultType DEF TypeOK, BackupUnreachable
<1>5. CASE DoJournaledBackup(j)
  <2>1. jobs[j].left - 1 \in 0..Dirs
    BY <1>0, <1>5, LimitsAssumption DEF DoJournaledBackup
  <2>2. initMemDb(j, "traverse", jobs[j].left - 1)
    BY <1>5 DEF DoJournaledBackup
  <2>3. "traverse" \in Places
    BY DEF Places
  <2> QED BY <2>1, <2>2, <2>3, InitMemDbType
<1>6. CASE TraversalCanceled(j)
  <2>1. jobs' \in [Jobs -> Job]
    BY <1>6, GotoType DEF TypeOK, TraversalCanceled, Places
  <2> QED BY <1>0, <1>6, <2>1, PersistType
          DEF TypeOK, TraversalCanceled, EventKinds, counts
<1>7. CASE NothingToBackUp(j)
  <2>1. jobs' \in [Jobs -> Job]
    BY <1>7, GotoType DEF TypeOK, NothingToBackUp, Places
  <2> QED BY <1>7, <2>1, PersistType DEF TypeOK, NothingToBackUp, globals, counts
<1>8. CASE FatalError(j)
  <2>1. jobs' \in [Jobs -> Job]
    BY <1>8, GotoType DEF TypeOK, FatalError, Places
  <2> QED BY <1>0, <1>8, <2>1, PersistType, FaultType DEF TypeOK, FatalError, globals
<1>9. CASE JournalFilled(j)
  <2>1. jobs' \in [Jobs -> Job]
    <3> DEFINE r == [jobs[j] EXCEPT !.at = "play", !.mem = TRUE]
    <3>1. jobs[j] \in Job
      BY DEF TypeOK
    <3>2. r \in Job
      BY <3>1 DEF Job, Places
    <3>3. jobs' = [jobs EXCEPT ![j] = r]
      BY <1>9 DEF JournalFilled
    <3> QED BY <3>2, <3>3 DEF TypeOK
  <2> QED BY <1>9, <2>1, PersistType DEF TypeOK, JournalFilled, globals, counts
<1>10. CASE BackupReports(j)
  <2>1. jobs' \in [Jobs -> Job]
    BY <1>10, GotoType DEF TypeOK, BackupReports, Places
  <2> QED BY <1>10, <2>1 DEF TypeOK, BackupReports, EventKinds, db, counts
<1>11. CASE BackupDone(j)
  BY <1>11, SetIdleType DEF TypeOK, BackupDone
<1> QED BY <1>1, <1>2, <1>3, <1>4, <1>5, <1>6, <1>7, <1>8, <1>9, <1>10, <1>11,
           EngineKeepsType DEF Backup

LEMMA RestoreKeepsType ==
    ASSUME TypeOK, NEW j \in Jobs, Restore(j) \/ RestoreItem(j)
    PROVE  TypeOK'
<1>1. CASE RestoreRPC(j)
  <2>1. CASE Judge(j, "restore")
    BY <2>1, JudgeType
  <2>2. CASE ~Judge(j, "restore")
    <3>1. jobs' \in [Jobs -> Job]
      BY <1>1, <2>2, SpawnType DEF TypeOK, RestoreRPC, Places
    <3> QED BY <1>1, <2>2, <3>1 DEF TypeOK, RestoreRPC, States, db, counts
  <2> QED BY <2>1, <2>2
<1>2. CASE RestoreFails(j)
  BY <1>2, SetIdleType, FaultType DEF TypeOK, RestoreFails
<1>3. CASE RestoreConnects(j) \/ RestoreSeesCancel(j)
  <2>1. jobs' \in [Jobs -> Job]
    BY <1>3, GotoType DEF TypeOK, RestoreConnects, RestoreSeesCancel, Places
  <2> QED BY <1>3, <2>1
          DEF TypeOK, RestoreConnects, RestoreSeesCancel, globals, db, counts
<1>4. CASE RestoreItem(j)
  BY <1>4 DEF TypeOK, RestoreItem, States, db, counts
<1>5. CASE RestoreForgetsCancel(j)
  <2>1. jobs' \in [Jobs -> Job]
    BY <1>5, GotoType DEF TypeOK, RestoreForgetsCancel, Places
  <2> QED BY <1>5, <2>1 DEF TypeOK, RestoreForgetsCancel, db, counts
<1>6. CASE RestoreDone(j)
  BY <1>6, SetIdleType DEF TypeOK, RestoreDone
<1> QED BY <1>1, <1>2, <1>3, <1>4, <1>5, <1>6 DEF Restore

LEMMA CleanersKeepType ==
    ASSUME TypeOK, NEW j \in Jobs,
           DeleteSnapshots(j) \/ WipeCloud(j) \/ PruneSnapshots(j) \/ CheckConn(j)
    PROVE  TypeOK'
<1>0. "work" \in Places /\ "CleaningUp" \in States
  BY DEF Places, States
<1>1. CASE DeleteSnapshots(j)
  BY <1>0, <1>1, JudgeType, ClaimType, SetIdleType DEF TypeOK, DeleteSnapshots
<1>2. CASE WipeCloud(j)
  BY <1>0, <1>2, JudgeType, ClaimType, SetIdleType DEF TypeOK, WipeCloud
<1>3. CASE PruneSnapshots(j)
  BY <1>0, <1>3, JudgeType, ClaimType, SetIdleType, FaultType
     DEF TypeOK, PruneSnapshots, EventKinds, NoFault
<1>4. CASE CheckConn(j)
  <2>1. CASE At(j, "checkConn", "work")
    BY <1>4, <2>1, SetIdleType DEF TypeOK, CheckConn, At
  <2>2. CASE ~At(j, "checkConn", "work")
    <3>1. jobs' \in [Jobs -> Job] /\ state' \in States
      BY <1>0, <1>4, <2>2, GotoType, EndsType DEF TypeOK, CheckConn, States
    <3> QED BY <1>4, <2>2, <3>1 DEF TypeOK, CheckConn, db, counts
  <2> QED BY <2>1, <2>2
<1> QED BY <1>1, <1>2, <1>3, <1>4

LEMMA ReplayKeepsType ==
    ASSUME TypeOK, NEW j \in Jobs, Replay(j)
    PROVE  TypeOK'
<1>1. CASE initDbConn(j)
  <2>1. jobs' \in [Jobs -> Job]
    BY <1>1, EndsType, SpawnType DEF TypeOK, initDbConn, Places
  <2>2. faults' \in 0..MaxFaults
    BY <1>1, FaultType DEF TypeOK, initDbConn, NoFault
  <2>3. gDb' \in Nat /\ closed' \subseteq Nat
    BY <1>1 DEF TypeOK, initDbConn
  <2> QED BY <1>1, <2>1, <2>2, <2>3 DEF TypeOK, initDbConn, globals
<1>2. CASE Hello(j) /\ ~initDbConn(j)
  <2>1. jobs' \in [Jobs -> Job]
    BY <1>2, EndsType, GotoType DEF TypeOK, Hello, Places
  <2> QED BY <1>2, <2>1 DEF TypeOK, Hello, globals, db, counts
<1>3. CASE ReplayUnreachable(j)
  <2>1. jobs' \in [Jobs -> Job]
    BY <1>3, GotoType DEF TypeOK, ReplayUnreachable, Places
  <2> QED BY <1>3, <2>1, FaultType DEF TypeOK, ReplayUnreachable, States, db
<1>4. CASE ReplayBackupJournal(j)
  <2>1. "initial" \in Places /\ 0 \in 0..Dirs
    BY LimitsAssumption DEF Places
  <2> QED BY <1>4, <2>1, InitMemDbType DEF ReplayBackupJournal
<1>5. CASE setReplayInitialProgress(j)
  <2>1. jobs' \in [Jobs -> Job]
    BY <1>5 DEF TypeOK, setReplayInitialProgress, Job, Places
  <2> QED BY <1>5, <2>1 DEF TypeOK, setReplayInitialProgress, States, db, counts
<1>6. CASE ReplayDone(j)
  <2>1. jobs' \in [Jobs -> Job]
    BY <1>6, GotoType DEF TypeOK, ReplayDone, Places
  <2> QED BY <1>6, <2>1 DEF TypeOK, ReplayDone, States, db, counts
<1> QED BY <1>1, <1>2, <1>3, <1>4, <1>5, <1>6, EngineKeepsType DEF Replay

(* TypeOK: the daemon's globals and its goroutines keep their types.       *)
THEOREM DaemonTypeCorrect == Spec => []TypeOK
<1>1. Init => TypeOK
  <2> SUFFICES ASSUME Init PROVE TypeOK
    OBVIOUS
  <2>1. Free \in Job
    BY LimitsAssumption DEF Free, Job, Places
  <2>2. jobs \in [Jobs -> Job]
    BY <2>1 DEF Init
  <2>3. dirty \in BOOLEAN
    BY DirtyAssumption DEF Init
  <2>4. cancelRequested \in BOOLEAN /\ dead \in BOOLEAN
    BY DEF Init
  <2>5. /\ state \in States /\ events \subseteq EventKinds
        /\ gDb \in Nat /\ closed \subseteq Nat
        /\ requests \in 0..MaxRequests /\ cancels \in 0..MaxCancels
        /\ faults \in 0..MaxFaults
    BY LimitsAssumption DEF Init, States
  <2> QED BY <2>2, <2>3, <2>4, <2>5 DEF TypeOK
<1>2. TypeOK /\ [Next]_vars => TypeOK'
  <2> SUFFICES ASSUME TypeOK, [Next]_vars PROVE TypeOK'
    OBVIOUS
  <2>1. ASSUME NEW j \in Jobs, NEW c \in Clients, NEW kind \in RequestKinds,
               Request(j, c, kind)
        PROVE  TypeOK'
    BY <2>1, RequestsKeepType
  <2>2. ASSUME NEW j \in Jobs, NEW t \in Timers, NEW kind \in RequestKinds,
               timerLoop(j, t, kind)
        PROVE  TypeOK'
    BY <2>2, RequestsKeepType
  <2>3. ASSUME NEW j \in Jobs, Work(j) PROVE TypeOK'
    BY <2>3, BackupKeepsType, RestoreKeepsType, CleanersKeepType, ReplayKeepsType
       DEF Work
  <2>4. ASSUME NEW j \in Jobs, Meanwhile(j) PROVE TypeOK'
    BY <2>4, RestoreKeepsType, EngineKeepsType DEF Meanwhile
  <2>5. CASE CancelBackup
    BY <2>5, LimitsAssumption DEF TypeOK, CancelBackup, db
  <2>6. CASE Status
    BY <2>6 DEF TypeOK, Status, db, counts
  <2>7. CASE UNCHANGED vars
    BY <2>7 DEF TypeOK, vars, globals, db, counts
  <2> QED BY <2>1, <2>2, <2>3, <2>4, <2>5, <2>6, <2>7 DEF Next
<1> QED BY <1>1, <1>2, PTL DEF Spec

-----------------------------------------------------------------------------
(* QuiescentIdle is inductive.  A step either sets the status to Idle, or  *)
(* leaves it alone and takes no goroutine out of an operation, or writes   *)
(* it from a goroutine that is in an operation afterwards.                 *)
Announces(j) == state' = "Idle" \/ InProgress(j)'
KeepsWork(j) == UNCHANGED state /\ (InProgress(j) => InProgress(j)')

LEMMA QuietStep ==
    ASSUME QuiescentIdle, NEW j \in Jobs, Announces(j) \/ KeepsWork(j),
           \A k \in Jobs \ {j} : jobs'[k] = jobs[k]
    PROVE  QuiescentIdle'
<1>1. CASE Announces(j)
  BY <1>1 DEF Announces, QuiescentIdle
<1>2. CASE KeepsWork(j)
  <2>1. \A k \in Jobs : InProgress(k) => InProgress(k)'
    BY <1>2 DEF KeepsWork, InProgress
  <2> QED BY <1>2, <2>1 DEF KeepsWork, QuiescentIdle
<1> QED BY <1>1, <1>2

(* A step of goroutine j touches no other goroutine.                       *)
LEMMA OthersStay ==
    ASSUME TypeOK, NEW j \in Jobs, Work(j) \/ Meanwhile(j)
    PROVE  \A k \in Jobs \ {j} : jobs'[k] = jobs[k]
<1> USE DEF TypeOK, Goto, Ends, Spawn
<1>1. ASSUME NEW kind,
             \/ PlayBackupJournal(j, kind) \/ PlayFails(j, kind)
             \/ PersistWhilePlaying(j, kind)
             \/ checkAndHandleCancelation(j, kind) \/ cancelBackup(j, kind)
      PROVE  \A k \in Jobs \ {j} : jobs'[k] = jobs[k]
  BY <1>1 DEF PlayBackupJournal, PlayFails, PersistWhilePlaying,
       checkAndHandleCancelation, cancelBackup, EngineReturns
<1>2. CASE Backup(j)
  BY <1>1, <1>2 DEF Backup, BackupRPC, Judge, ForceFullBackup, BackupConnects,
       BackupUnreachable, DoJournaledBackup, initMemDb, TraversalCanceled,
       NothingToBackUp, FatalError, JournalFilled, BackupReports, BackupDone, SetIdle
<1>3. CASE Restore(j) \/ RestoreItem(j)
  BY <1>3 DEF Restore, RestoreItem, RestoreRPC, Judge, RestoreFails, RestoreConnects,
       RestoreSeesCancel, RestoreForgetsCancel, RestoreDone, SetIdle
<1>4. CASE DeleteSnapshots(j) \/ WipeCloud(j) \/ PruneSnapshots(j) \/ CheckConn(j)
  BY <1>4 DEF DeleteSnapshots, WipeCloud, PruneSnapshots, CheckConn, Judge, Claim,
       SetIdle
<1>5. CASE Replay(j)
  BY <1>1, <1>5 DEF Replay, Hello, initDbConn, ReplayUnreachable,
       ReplayBackupJournal, initMemDb, setReplayInitialProgress, ReplayDone
<1> QED BY <1>1, <1>2, <1>3, <1>4, <1>5 DEF Work, Meanwhile

(* Where a goroutine is after a step.                                      *)
LEMMA PlaceAfter ==
    ASSUME TypeOK, NEW j \in Jobs, NEW place
    PROVE  /\ Goto(j, place) \/ Spawn(j, place) => jobs'[j].at = place
           /\ \A left : initMemDb(j, place, left) => jobs'[j].at = place
BY DEF TypeOK, Job, Goto, Spawn, initMemDb

(* What a step of a goroutine in each operation does to the status.        *)
LEMMA WorkIsAnnounced ==
    ASSUME TypeOK, NEW j \in Jobs, Work(j) \/ Meanwhile(j),
           "forceFull" \notin Allowed
    PROVE  Announces(j) \/ KeepsWork(j)
<1> USE DEF At, Announces, KeepsWork, InProgress
<1>1. ASSUME NEW kind,
             \/ PlayBackupJournal(j, kind) \/ PlayFails(j, kind)
             \/ PersistWhilePlaying(j, kind)
             \/ checkAndHandleCancelation(j, kind) \/ cancelBackup(j, kind)
      PROVE  Announces(j) \/ KeepsWork(j)
  <2>1. CASE PersistWhilePlaying(j, kind)
    BY <2>1 DEF PersistWhilePlaying, globals
  <2>2. CASE checkAndHandleCancelation(j, kind)
    BY <2>2 DEF checkAndHandleCancelation, TypeOK, Job
  <2>3. CASE PlayBackupJournal(j, kind) \/ PlayFails(j, kind) \/ cancelBackup(j, kind)
    BY <2>3, PlaceAfter DEF PlayBackupJournal, PlayFails, cancelBackup, EngineReturns
  <2> QED BY <1>1, <2>1, <2>2, <2>3
<1>2. ASSUME NEW kind, Judge(j, kind) PROVE KeepsWork(j)
  BY <1>2 DEF Judge, globals
<1>3. CASE Backup(j)
  <2>1. CASE BackupRPC(j)
    BY <1>2, <2>1, PlaceAfter DEF BackupRPC
  <2>2. CASE ForceFullBackup(j)
    BY <2>2, PlaceAfter DEF ForceFullBackup, Fault, globals
  <2>3. CASE BackupUnreachable(j) \/ BackupDone(j)
    BY <2>3 DEF BackupUnreachable, BackupDone, SetIdle
  <2>4. CASE BackupConnects(j) \/ JournalFilled(j)
    <3>1. jobs'[j].at \in {"dirs", "play"}
      BY <2>4 DEF BackupConnects, JournalFilled, TypeOK, Job
    <3> QED BY <3>1
  <2>5. CASE DoJournaledBackup(j)
    <3>1. initMemDb(j, "traverse", jobs[j].left - 1) /\ UNCHANGED state
      BY <2>5 DEF DoJournaledBackup, initMemDb, globals
    <3>2. jobs'[j].at = "traverse"
      BY <3>1, PlaceAfter
    <3> QED BY <3>2
  <2>6. CASE \/ TraversalCanceled(j) \/ NothingToBackUp(j) \/ FatalError(j)
             \/ BackupReports(j)
    BY <2>6, PlaceAfter
       DEF TraversalCanceled, NothingToBackUp, FatalError, BackupReports
  <2> QED BY <1>1, <1>3, <2>1, <2>2, <2>3, <2>4, <2>5, <2>6 DEF Backup
<1>4. CASE Restore(j) \/ RestoreItem(j)
  <2>1. CASE RestoreRPC(j)
    BY <1>2, <2>1, PlaceAfter DEF RestoreRPC
  <2>2. CASE RestoreFails(j) \/ RestoreDone(j)
    BY <2>2 DEF RestoreFails, RestoreDone, SetIdle
  <2>3. CASE RestoreConnects(j) \/ RestoreSeesCancel(j) \/ RestoreForgetsCancel(j)
    BY <2>3, PlaceAfter DEF RestoreConnects, RestoreSeesCancel, RestoreForgetsCancel
  <2>4. CASE RestoreItem(j)
    BY <2>4 DEF RestoreItem
  <2> QED BY <1>4, <2>1, <2>2, <2>3, <2>4 DEF Restore
<1>5. CASE DeleteSnapshots(j) \/ WipeCloud(j) \/ PruneSnapshots(j) \/ CheckConn(j)
  <2>1. CASE \E kind, s : Judge(j, kind) \/ Claim(j, kind, s, "work") \/ SetIdle(j)
    BY <1>2, <2>1, PlaceAfter DEF Claim, SetIdle
  <2>2. CASE CheckConn(j) /\ ~SetIdle(j)
    BY <2>2, PlaceAfter DEF CheckConn
  <2> QED BY <1>5, <2>1, <2>2 DEF DeleteSnapshots, WipeCloud, PruneSnapshots
<1>6. CASE Replay(j)
  <2>1. CASE Hello(j)
    BY <2>1 DEF Hello, initDbConn, globals
  <2>2. CASE ReplayUnreachable(j) \/ ReplayDone(j)
    BY <2>2 DEF ReplayUnreachable, ReplayDone
  <2>3. CASE ReplayBackupJournal(j)
    <3>1. initMemDb(j, "initial", 0)
      BY <2>3 DEF ReplayBackupJournal
    <3> QED BY <3>1, PlaceAfter
  <2>4. CASE setReplayInitialProgress(j)
    BY <2>4 DEF setReplayInitialProgress, TypeOK, Job
  <2> QED BY <1>1, <1>6, <2>1, <2>2, <2>3, <2>4 DEF Replay
<1> QED BY <1>1, <1>3, <1>4, <1>5, <1>6 DEF Work, Meanwhile

(* QuiescentIdle, for every number of goroutines, clients and requests: if *)
(* resetting the dirents for a full backup does not fail, the status is    *)
(* Idle whenever no operation is in progress, although the operations of   *)
(* the daemon are not kept apart.                                          *)
THEOREM StatusReturnsToIdle ==
    ASSUME "forceFull" \notin Allowed
    PROVE  Spec => []QuiescentIdle
<1>1. Init => QuiescentIdle
  BY DEF Init, QuiescentIdle
<1>2. TypeOK /\ QuiescentIdle /\ [Next]_vars => QuiescentIdle'
  <2> SUFFICES ASSUME TypeOK, QuiescentIdle, [Next]_vars PROVE QuiescentIdle'
    OBVIOUS
  <2>1. ASSUME NEW j \in Jobs, NEW c, NEW kind,
               Request(j, c, kind) \/ timerLoop(j, c, kind)
        PROVE  QuiescentIdle'
    <3>1. \A k \in Jobs \ {j} : jobs'[k] = jobs[k]
      BY <2>1 DEF TypeOK, Request, timerLoop
    <3>2. KeepsWork(j)
      BY <2>1 DEF KeepsWork, InProgress, Request, timerLoop, Free, globals
    <3> QED BY <3>1, <3>2, QuietStep
  <2>2. ASSUME NEW j \in Jobs, Work(j) \/ Meanwhile(j) PROVE QuiescentIdle'
    BY <2>2, OthersStay, WorkIsAnnounced, QuietStep
  <2>3. CASE CancelBackup \/ Status \/ UNCHANGED vars
    BY <2>3 DEF CancelBackup, Status, vars, globals, QuiescentIdle, InProgress
  <2> QED BY <2>1, <2>2, <2>3 DEF Next
<1> QED BY <1>1, <1>2, DaemonTypeCorrect, PTL DEF Spec

-----------------------------------------------------------------------------
(* What a step does to the goroutine that makes it: it stays outside, is   *)
(* let in, goes on with its operation or ends it.                          *)
Outside(j) == ~LetIn(j) /\ ~LetIn(j)' /\ UNCHANGED state
Admits(j)  == /\ ~LetIn(j) /\ state = "Idle" /\ LetIn(j)'
              /\ Unannounced(j)' \/ state' # "Idle"
GoesOn(j)  == /\ LetIn(j) /\ LetIn(j)'
              /\ Unannounced(j)' \/ state' # "Idle" \/ (UNCHANGED state /\ ~Unannounced(j))
Exits(j)   == LetIn(j) /\ ~LetIn(j)'

Moves(j) == /\ jobs'[j].db # None => InProgress(j)'
            /\ Outside(j) \/ Admits(j) \/ GoesOn(j) \/ Exits(j)

LEMMA SerialStep ==
    ASSUME TypeOK, SerialInv, NEW j \in Jobs, Moves(j),
           \A k \in Jobs \ {j} : jobs'[k] = jobs[k],
           raced' = (raced \/ \E i, k \in Jobs : i # k /\ ~LetIn(i) /\ LetIn(i)' /\ Unannounced(k))
    PROVE  SerialInv'
<1>1. \A k \in Jobs \ {j} : /\ jobs'[k] = jobs[k] /\ (InProgress(k)' <=> InProgress(k))
                            /\ (LetIn(k)' <=> LetIn(k)) /\ (Unannounced(k)' <=> Unannounced(k))
  BY DEF InProgress, LetIn, Unannounced
<1>2. \A k \in Jobs : jobs'[k].db # None => InProgress(k)'
  BY <1>1 DEF Moves, SerialInv
<1>3. ASSUME ~raced'
      PROVE  /\ \A k, m \in Jobs : LetIn(k)' /\ LetIn(m)' => k = m
             /\ \A k \in Jobs : LetIn(k)' /\ ~Unannounced(k)' => state' # "Idle"
  <2>1. ~raced /\ \A k \in Jobs : j # k /\ ~LetIn(j) /\ LetIn(j)' => ~Unannounced(k)
    BY <1>3
  <2>2. /\ \A k, m \in Jobs : LetIn(k) /\ LetIn(m) => k = m
        /\ \A k \in Jobs : LetIn(k) /\ ~Unannounced(k) => state # "Idle"
    BY <2>1 DEF SerialInv
  <2>3. CASE Outside(j)
    BY <1>1, <2>2, <2>3 DEF Outside
  <2>4. CASE Admits(j)
    <3>1. \A k \in Jobs : ~LetIn(k)
      BY <2>1, <2>2, <2>4 DEF Admits
    <3>2. \A k \in Jobs : LetIn(k)' => k = j
      BY <1>1, <3>1
    <3> QED BY <2>4, <3>2 DEF Admits
  <2>5. CASE GoesOn(j)
    <3>1. \A k \in Jobs : LetIn(k)' => k = j
      BY <1>1, <2>2, <2>5 DEF GoesOn
    <3> QED BY <2>2, <2>5, <3>1 DEF GoesOn
  <2>6. CASE Exits(j)
    BY <1>1, <2>2, <2>6 DEF Exits
  <2> QED BY <2>3, <2>4, <2>5, <2>6 DEF Moves
<1> QED BY <1>2, <1>3 DEF SerialInv

(* What is left of a goroutine that goes on.                               *)
LEMMA JobAfter ==
    ASSUME TypeOK, NEW j \in Jobs, NEW place
    PROVE  /\ Goto(j, place) => /\ jobs'[j].kind = jobs[j].kind
                                /\ jobs'[j].db = None /\ jobs'[j].at = place
           /\ Spawn(j, place) => /\ jobs'[j].kind = jobs[j].kind /\ jobs'[j].db = jobs[j].db
                                 /\ jobs'[j].at = place
           /\ \A left : initMemDb(j, place, left) =>
                 jobs'[j].kind = jobs[j].kind /\ jobs'[j].at = place
           /\ Ends(j) => jobs'[j] = Free
BY DEF TypeOK, Job, Goto, Spawn, initMemDb, Ends

Outer == {"free", "check", "initDb", "hasDirty", "isIdle"}

LEMMA OuterPlaces ==
    ASSUME NEW j \in Jobs
    PROVE  /\ LetIn(j) <=> jobs[j].at \notin Outer
           /\ LetIn(j)' <=> jobs'[j].at \notin Outer
           /\ InProgress(j)' <=> jobs'[j].at \notin Outer \cup {"set"}
BY DEF LetIn, InProgress, Outer

LEMMA EndsMoves ==
    ASSUME TypeOK, NEW j \in Jobs, Ends(j), LetIn(j) \/ UNCHANGED state
    PROVE  Moves(j)
<1>1. jobs'[j] = Free
  BY JobAfter
<1>2. jobs'[j].db = None /\ ~LetIn(j)'
  BY <1>1, OuterPlaces DEF Free, Outer
<1> QED BY <1>2 DEF Moves, Exits, Outside

(* A goroutine outside goes to another place outside.                      *)
LEMMA OutsideMoves ==
    ASSUME TypeOK, SerialInv, NEW j \in Jobs, jobs[j].at \in Outer, NEW place \in Outer,
           Goto(j, place) \/ Spawn(j, place), UNCHANGED state
    PROVE  Moves(j)
<1>1. jobs'[j].at = place /\ (jobs'[j].db = None \/ jobs'[j].db = jobs[j].db)
  BY JobAfter
<1>2. ~InProgress(j) /\ ~LetIn(j) /\ ~LetIn(j)'
  BY <1>1, OuterPlaces DEF LetIn
<1>3. jobs'[j].db = None
  BY <1>1, <1>2 DEF SerialInv
<1> QED BY <1>2, <1>3 DEF Moves, Outside

(* A goroutine that is in goes to another place of its operation.          *)
LEMMA WalkMoves ==
    ASSUME TypeOK, NEW j \in Jobs, jobs[j].at \notin Outer, NEW place, place \notin Outer \cup {"set"},
           \/ Goto(j, place) \/ Spawn(j, place) \/ \E left : initMemDb(j, place, left),
           \/ state' # "Idle"
           \/ UNCHANGED state /\ ~Unannounced(j)
           \/ jobs[j].kind = "hello" /\ place \in {"connect", "initial"}
    PROVE  Moves(j)
<1>1. jobs'[j].at = place /\ jobs'[j].kind = jobs[j].kind
  BY JobAfter
<1>2. LetIn(j) /\ LetIn(j)' /\ InProgress(j)'
  BY <1>1, OuterPlaces
<1>3. Unannounced(j)' \/ state' # "Idle" \/ (UNCHANGED state /\ ~Unannounced(j))
  BY <1>1 DEF Unannounced
<1> QED BY <1>2, <1>3 DEF Moves, GoesOn

LEMMA JudgeMoves ==
    ASSUME TypeOK, NEW j \in Jobs, NEW kind, Judge(j, kind)
    PROVE  Moves(j)
<1>1. jobs[j].at = "check" /\ UNCHANGED state
  BY DEF Judge, At, globals
<1>2. ~LetIn(j)
  BY <1>1, OuterPlaces DEF Outer
<1>3. CASE state = "Idle"
  <2>1. jobs'[j].at = "set" /\ jobs'[j].db = None
    BY <1>3, JobAfter DEF Judge
  <2>2. LetIn(j)' /\ Unannounced(j)'
    BY <2>1 DEF LetIn, Unannounced
  <2> QED BY <1>2, <1>3, <2>1, <2>2 DEF Moves, Admits
<1>4. CASE state # "Idle"
  BY <1>1, <1>4, EndsMoves DEF Judge
<1> QED BY <1>3, <1>4

LEMMA SetIdleMoves ==
    ASSUME TypeOK, NEW j \in Jobs, jobs[j].at \notin Outer, SetIdle(j)
    PROVE  Moves(j)
BY OuterPlaces, EndsMoves DEF SetIdle

LEMMA EngineMoves ==
    ASSUME TypeOK, NEW j \in Jobs, NEW kind,
           \/ PlayBackupJournal(j, kind) \/ PlayFails(j, kind)
           \/ PersistWhilePlaying(j, kind)
           \/ checkAndHandleCancelation(j, kind) \/ cancelBackup(j, kind)
    PROVE  Moves(j)
<1>1. jobs[j].at \in {"play", "cancelBackup"}
  BY DEF PlayBackupJournal, PlayFails, PersistWhilePlaying, checkAndHandleCancelation,
     cancelBackup, At
<1>2. jobs[j].at \notin Outer /\ ~Unannounced(j)
  BY <1>1 DEF Outer, Unannounced
<1>3. CASE PlayBackupJournal(j, kind) \/ PlayFails(j, kind) \/ cancelBackup(j, kind)
  <2>1. UNCHANGED state /\ (Goto(j, "dirs") \/ Goto(j, "done"))
    BY <1>3 DEF PlayBackupJournal, PlayFails, cancelBackup, EngineReturns
  <2>2. "dirs" \notin Outer \cup {"set"} /\ "done" \notin Outer \cup {"set"}
    BY DEF Outer
  <2> QED BY <1>2, <2>1, <2>2, WalkMoves
<1>4. CASE PersistWhilePlaying(j, kind)
  <2>1. UNCHANGED <<state, jobs>>
    BY <1>4 DEF PersistWhilePlaying, globals
  <2>2. LetIn(j) /\ LetIn(j)' /\ InProgress(j)'
    BY <1>1, <2>1, OuterPlaces DEF Outer
  <2> QED BY <1>2, <2>1, <2>2 DEF Moves, GoesOn
<1>5. CASE checkAndHandleCancelation(j, kind)
  <2>1. jobs'[j].at = "cancelBackup" /\ state' # "Idle"
    BY <1>5 DEF checkAndHandleCancelation, TypeOK, Job
  <2>2. LetIn(j) /\ LetIn(j)' /\ InProgress(j)'
    BY <1>1, <2>1, OuterPlaces DEF Outer
  <2> QED BY <2>1, <2>2 DEF Moves, GoesOn
<1> QED BY <1>3, <1>4, <1>5

LEMMA BackupMoves == ASSUME TypeOK, NEW j \in Jobs, Backup(j) PROVE Moves(j)
<1>0. {"connect", "forceFull", "dirs", "traverse", "play", "done"} \cap (Outer \cup {"set"}) = {}
  BY DEF Outer
<1>1. CASE BackupRPC(j)
  <2>1. CASE At(j, "backup", "set") /\ state' = "BackingUp" /\ (Spawn(j, "connect") \/ Goto(j, "forceFull"))
    <3>1. jobs[j].at \notin Outer
      BY <2>1 DEF At, Outer
    <3> QED BY <1>0, <2>1, <3>1, WalkMoves
  <2> QED BY <1>1, <2>1, JudgeMoves DEF BackupRPC
<1>2. CASE ForceFullBackup(j)
  <2>1. jobs[j].kind = "backup" /\ jobs[j].at = "forceFull" /\ UNCHANGED state /\ (Spawn(j, "connect") \/ Ends(j))
    BY <1>2 DEF ForceFullBackup, globals, At
  <2>2. jobs[j].at \notin Outer /\ ~Unannounced(j)
    BY <2>1 DEF Outer, Unannounced
  <2> QED BY <1>0, <2>1, <2>2, WalkMoves, EndsMoves
<1>3. CASE BackupUnreachable(j) \/ BackupDone(j)
  <2>1. jobs[j].at \notin Outer
    BY <1>3 DEF BackupUnreachable, BackupDone, At, Outer
  <2> QED BY <1>3, <2>1, SetIdleMoves DEF BackupUnreachable, BackupDone
<1>4. CASE BackupConnects(j) \/ JournalFilled(j)
  <2>1. jobs[j].kind = "backup" /\ jobs[j].at \in {"connect", "traverse"} /\ UNCHANGED state
    BY <1>4 DEF BackupConnects, JournalFilled, At, globals
  <2>2. jobs'[j].at \in {"dirs", "play"}
    BY <1>4 DEF BackupConnects, JournalFilled, TypeOK, Job
  <2>3. LetIn(j) /\ LetIn(j)' /\ InProgress(j)' /\ ~Unannounced(j)
    BY <1>0, <2>1, <2>2, OuterPlaces DEF Unannounced
  <2> QED BY <2>1, <2>3 DEF Moves, GoesOn
<1>5. CASE DoJournaledBackup(j)
  <2>1. /\ jobs[j].at = "dirs" /\ jobs[j].kind = "backup" /\ UNCHANGED state
        /\ initMemDb(j, "traverse", jobs[j].left - 1)
    BY <1>5 DEF DoJournaledBackup, At, initMemDb, globals
  <2>2. jobs[j].at \notin Outer /\ ~Unannounced(j)
    BY <1>0, <2>1 DEF Unannounced
  <2> QED BY <1>0, <2>1, <2>2, WalkMoves
<1>6. CASE TraversalCanceled(j) \/ NothingToBackUp(j) \/ FatalError(j) \/ BackupReports(j)
  <2>1. /\ jobs[j].at \in {"dirs", "traverse"} /\ jobs[j].kind = "backup"
        /\ UNCHANGED state /\ (Goto(j, "done") \/ Goto(j, "dirs"))
    BY <1>6 DEF TraversalCanceled, NothingToBackUp, FatalError, BackupReports, At, globals
  <2>2. jobs[j].at \notin Outer /\ ~Unannounced(j)
    BY <1>0, <2>1 DEF Unannounced
  <2> QED BY <1>0, <2>1, <2>2, WalkMoves
<1> QED BY <1>1, <1>2, <1>3, <1>4, <1>5, <1>6, EngineMoves DEF Backup

LEMMA RestoreMoves ==
    ASSUME TypeOK, SerialInv, NEW j \in Jobs, Restore(j) \/ RestoreItem(j)
    PROVE  Moves(j)
<1>0. {"connect", "items", "cancelRestore", "done"} \cap (Outer \cup {"set"}) = {}
  BY DEF Outer
<1>1. CASE RestoreRPC(j)
  <2>1. CASE At(j, "restore", "set") /\ state' = "Restoring" /\ Spawn(j, "connect")
    <3>1. jobs[j].at \notin Outer
      BY <2>1 DEF At, Outer
    <3> QED BY <1>0, <2>1, <3>1, WalkMoves
  <2> QED BY <1>1, <2>1, JudgeMoves DEF RestoreRPC
<1>2. CASE RestoreFails(j) \/ RestoreDone(j)
  <2>1. jobs[j].at \notin Outer
    BY <1>2 DEF RestoreFails, RestoreDone, At, Outer
  <2> QED BY <1>2, <2>1, SetIdleMoves DEF RestoreFails, RestoreDone
<1>3. CASE RestoreConnects(j) \/ RestoreSeesCancel(j) \/ RestoreForgetsCancel(j)
  <2>1. /\ jobs[j].at \in {"connect", "items", "cancelRestore"} /\ jobs[j].kind = "restore"
        /\ UNCHANGED state
        /\ (Goto(j, "items") \/ Goto(j, "cancelRestore") \/ Goto(j, "done"))
    BY <1>3 DEF RestoreConnects, RestoreSeesCancel, RestoreForgetsCancel, At, globals
  <2>2. jobs[j].at \notin Outer /\ ~Unannounced(j)
    BY <1>0, <2>1 DEF Unannounced
  <2> QED BY <1>0, <2>1, <2>2, WalkMoves
<1>4. CASE RestoreItem(j)
  <2>1. jobs[j].at = "items" /\ state' # "Idle" /\ UNCHANGED jobs
    BY <1>4 DEF RestoreItem, At
  <2>2. LetIn(j) /\ LetIn(j)' /\ InProgress(j)'
    BY <1>0, <2>1, OuterPlaces
  <2> QED BY <2>1, <2>2 DEF Moves, GoesOn
<1> QED BY <1>1, <1>2, <1>3, <1>4 DEF Restore

LEMMA CleanersMove ==
    ASSUME TypeOK, NEW j \in Jobs,
           DeleteSnapshots(j) \/ WipeCloud(j) \/ PruneSnapshots(j) \/ CheckConn(j)
    PROVE  Moves(j)
<1>0. "work" \notin Outer \cup {"set"} /\ "set" \notin Outer /\ "check" \in Outer
  BY DEF Outer
<1>1. CASE \E kind : Judge(j, kind)
  BY <1>1, JudgeMoves
<1>2. CASE \E kind : Claim(j, kind, "CleaningUp", "work")
  <2>1. jobs[j].at = "set" /\ state' = "CleaningUp" /\ Goto(j, "work")
    BY <1>2 DEF Claim, At
  <2> QED BY <1>0, <2>1, WalkMoves
<1>3. CASE jobs[j].at = "work" /\ SetIdle(j)
  BY <1>0, <1>3, SetIdleMoves
<1>4. CASE CheckConn(j) /\ At(j, "checkConn", "check")
  <2>1. jobs[j].at = "check" /\ ~LetIn(j)
    BY <1>0, <1>4, OuterPlaces DEF At
  <2>2. CASE state = "Idle"
    <3>1. state' = "CheckingConn" /\ Goto(j, "work")
      BY <1>4, <2>1, <2>2 DEF CheckConn, At
    <3>2. LetIn(j)' /\ InProgress(j)'
      BY <1>0, <3>1, JobAfter, OuterPlaces
    <3> QED BY <2>1, <2>2, <3>1, <3>2 DEF Moves, Admits
  <2>3. CASE state # "Idle"
    <3>1. UNCHANGED state /\ Ends(j)
      BY <1>4, <2>1, <2>3 DEF CheckConn, At
    <3> QED BY <3>1, EndsMoves
  <2> QED BY <2>2, <2>3
<1> QED BY <1>1, <1>2, <1>3, <1>4 DEF DeleteSnapshots, WipeCloud, PruneSnapshots, CheckConn, At

(* A replay is let in when it has found the status Idle, and announced     *)
(* only when it sets its initial progress.                                 *)
LEMMA ReplayMoves == ASSUME TypeOK, SerialInv, NEW j \in Jobs, Replay(j) PROVE Moves(j)
<1>0. /\ {"initDb", "hasDirty", "isIdle"} \subseteq Outer
      /\ {"connect", "initial", "play", "done"} \cap (Outer \cup {"set"}) = {}
  BY DEF Outer
<1>1. CASE initDbConn(j)
  <2>1. jobs[j].at = "initDb" /\ UNCHANGED state /\ (Spawn(j, "hasDirty") \/ Ends(j))
    BY <1>1 DEF initDbConn, At, globals
  <2> QED BY <1>0, <2>1, OutsideMoves, EndsMoves
<1>2. CASE At(j, "hello", "hasDirty") /\ Hello(j)
  <2>1. jobs[j].at = "hasDirty" /\ UNCHANGED state /\ (Goto(j, "isIdle") \/ Ends(j))
    BY <1>2 DEF Hello, initDbConn, At, globals
  <2> QED BY <1>0, <2>1, OutsideMoves, EndsMoves
<1>3. CASE At(j, "hello", "isIdle") /\ Hello(j)
  <2>1. /\ jobs[j].at = "isIdle" /\ jobs[j].kind = "hello" /\ UNCHANGED state
        /\ Goto(j, IF state = "Idle" THEN "connect" ELSE "hasDirty")
    BY <1>3 DEF Hello, initDbConn, At, globals
  <2>2. CASE state = "Idle"
    <3>1. jobs'[j].at = "connect" /\ jobs'[j].kind = "hello" /\ jobs'[j].db = None
      BY <2>1, <2>2, JobAfter
    <3>2. ~LetIn(j) /\ LetIn(j)' /\ Unannounced(j)'
      BY <1>0, <2>1, <3>1, OuterPlaces DEF Unannounced
    <3> QED BY <2>2, <3>1, <3>2 DEF Moves, Admits
  <2>3. CASE state # "Idle"
    BY <1>0, <2>1, <2>3, OutsideMoves
  <2> QED BY <2>2, <2>3
<1>4. CASE ReplayUnreachable(j) \/ ReplayDone(j)
  <2>1. jobs[j].at \in {"connect", "done"} /\ Goto(j, "hasDirty")
    BY <1>4 DEF ReplayUnreachable, ReplayDone, At
  <2>2. jobs'[j].at = "hasDirty" /\ jobs'[j].db = None
    BY <2>1, JobAfter
  <2>3. LetIn(j) /\ ~LetIn(j)'
    BY <1>0, <2>1, <2>2, OuterPlaces
  <2> QED BY <2>2, <2>3 DEF Moves, Exits
<1>5. CASE ReplayBackupJournal(j)
  <2>1. jobs[j].kind = "hello" /\ jobs[j].at = "connect" /\ initMemDb(j, "initial", 0)
    BY <1>5 DEF ReplayBackupJournal, At
  <2> QED BY <1>0, <2>1, WalkMoves
<1>6. CASE setReplayInitialProgress(j)
  <2>1. jobs[j].at = "initial" /\ jobs'[j].at = "play" /\ state' # "Idle"
    BY <1>6 DEF setReplayInitialProgress, At, TypeOK, Job
  <2>2. LetIn(j) /\ LetIn(j)' /\ InProgress(j)'
    BY <1>0, <2>1, OuterPlaces
  <2> QED BY <2>1, <2>2 DEF Moves, GoesOn
<1> QED BY <1>1, <1>2, <1>3, <1>4, <1>5, <1>6, EngineMoves DEF Replay, Hello

LEMMA RequestMoves ==
    ASSUME TypeOK, NEW j \in Jobs, NEW c, NEW kind, Request(j, c, kind) \/ timerLoop(j, c, kind)
    PROVE  Moves(j) /\ \A k \in Jobs \ {j} : jobs'[k] = jobs[k]
<1>1. jobs[j] = Free /\ UNCHANGED state
  BY DEF Request, timerLoop, globals
<1>2. /\ jobs'[j].at \in {"check", "initDb"} /\ jobs'[j].db = None
      /\ \A k \in Jobs \ {j} : jobs'[k] = jobs[k]
  BY <1>1 DEF Request, timerLoop, TypeOK, Job, Free
<1>3. ~LetIn(j) /\ ~LetIn(j)'
  BY <1>1, <1>2, OuterPlaces DEF Free, Outer
<1> QED BY <1>1, <1>2, <1>3 DEF Moves, Outside

LEMMA NextSerial ==
    ASSUME TypeOK, SerialInv, [HNext]_hvars
    PROVE  SerialInv'
<1>1. CASE UNCHANGED <<state, jobs, raced>>
  BY <1>1 DEF SerialInv, InProgress, LetIn, Unannounced
<1>2. CASE HNext
  <2>1. Next /\ raced' = (raced \/ \E j, k \in Jobs :
                                     j # k /\ ~LetIn(j) /\ LetIn(j)' /\ Unannounced(k))
    BY <1>2 DEF HNext
  <2>2. ASSUME NEW j \in Jobs, Moves(j), \A k \in Jobs \ {j} : jobs'[k] = jobs[k]
        PROVE  SerialInv'
    BY <2>1, <2>2, SerialStep
  <2>3. ASSUME NEW j \in Jobs, NEW c, NEW kind, Request(j, c, kind) \/ timerLoop(j, c, kind)
        PROVE  SerialInv'
    BY <2>2, <2>3, RequestMoves
  <2>4. ASSUME NEW j \in Jobs, Work(j) \/ Meanwhile(j) PROVE SerialInv'
    <3>1. Moves(j)
      BY <2>4, BackupMoves, RestoreMoves, CleanersMove, EngineMoves, ReplayMoves DEF Work, Meanwhile
    <3> QED BY <2>2, <2>4, <3>1, OthersStay
  <2>5. CASE CancelBackup \/ Status
    <3>1. UNCHANGED <<state, jobs>>
      BY <2>5 DEF CancelBackup, Status
    <3>2. ~raced' => ~raced
      BY <2>1
    <3> QED BY <3>1, <3>2 DEF SerialInv, InProgress, LetIn, Unannounced
  <2> QED BY <2>1, <2>3, <2>4, <2>5 DEF Next
<1> QED BY <1>1, <1>2 DEF hvars, vars, globals

LEMMA HistoryIsSpec == HSpec => Spec
<1>1. HInit => Init
  BY DEF HInit
<1>2. [HNext]_hvars => [Next]_vars
  BY DEF HNext, hvars
<1> QED BY <1>1, <1>2, PTL DEF HSpec, Spec

(* Whoever calls, cancels, fails or replays: until a goroutine is let in   *)
(* beside one that has not announced itself, one at most is let in, and    *)
(* what is announced shows in the status, so that no other one is let in.  *)
THEOREM SerialInvariant == HSpec => []SerialInv
<1>1. HInit => SerialInv
  BY DEF HInit, Init, SerialInv, InProgress, LetIn, Free
<1>2. TypeOK /\ SerialInv /\ [HNext]_hvars => SerialInv'
  BY NextSerial
<1>3. HSpec => []TypeOK
  BY HistoryIsSpec, DaemonTypeCorrect, PTL
<1> QED BY <1>1, <1>2, <1>3, PTL DEF HSpec

(* OverlapIsARace, for every number of goroutines, clients and timers: two *)
(* operations are in progress together only after one was let in between   *)
(* another's look at the status and its write of it.                       *)
THEOREM OverlapsAreRaces == HSpec => []OverlapIsARace
<1>1. SerialInv => OverlapIsARace
  BY DEF SerialInv, OverlapIsARace, OneAtATime, LetIn
<1> QED BY <1>1, SerialInvariant, PTL
=============================================================================
