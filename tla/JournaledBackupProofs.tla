----------------------- MODULE JournaledBackupProofs -----------------------
(***************************************************************************)
(* The backup engine is type correct, for any number of paths, any chunk   *)
(* sizes and any bounds, and no snapshot refers to a missing chunk.  In a  *)
(* directory that is quiet, what a backup takes for unchanged is in the    *)
(* most recent snapshot, a snapshot is the directory it was taken of, and  *)
(* the engine implements BackupService.                                    *)
(* The first lemmas say what the statements on the database return; those  *)
(* of the second half that each keeps a database sound (DbSound) for the   *)
(* files and the snapshots there are.                                      *)
(***************************************************************************)
EXTENDS JournaledBackup, TLAPS

-----------------------------------------------------------------------------
(* Every operation of the database keeps the database well formed.         *)

LEMMA EmptyDBType == EmptyDB \in DB
  BY DEF EmptyDB, DB, NotKnown

LEMMA DBParts ==
  ASSUME NEW db \in DB
  PROVE  /\ db.dirents \in [Paths -> Nat \cup {NotKnown}]
         /\ db.infos \subseteq BackupInfo
         /\ db.seq \in Nat
         /\ db.journal \subseteq JournalRow
  BY DEF DB

LEMMA InsertDirEntsType ==
  ASSUME NEW db \in DB, NEW S
  PROVE  InsertDirEnts(db, S) \in DB
  BY DEF DB, InsertDirEnts

LEMMA UpdateLastBackupTimeType ==
  ASSUME NEW db \in DB, NEW p, NEW t \in Nat
  PROVE  UpdateLastBackupTime(db, p, t) \in DB
  BY DEF DB, UpdateLastBackupTime

LEMMA DeleteDirEntByPathType ==
  ASSUME NEW db \in DB, NEW p
  PROVE  DeleteDirEntByPath(db, p) \in DB
  BY DEF DB, DeleteDirEntByPath

LEMMA ResetLastBackedUpTimeType ==
  ASSUME NEW db \in DB
  PROVE  ResetLastBackedUpTime(db) \in DB
  BY DEF DB, ResetLastBackedUpTime

LEMMA InsertBackupJournalType ==
  ASSUME NEW db \in DB, NEW t \in Nat,
         NEW queue \in SUBSET [path : Paths, change : ChangeTypes]
  PROVE  InsertBackupJournal(db, t, queue) \in DB
  <1> DEFINE seq == db.seq + 1
             infos == db.infos \cup {[id |-> seq, time |-> t]}
             rows == {[info |-> seq, path |-> q.path, change |-> q.change,
                       status |-> "Unstarted", entry |-> NoEntry] : q \in queue}
             journal == db.journal \cup rows
  <1>1. seq \in Nat
    BY DBParts
  <1>2. infos \in SUBSET BackupInfo
    BY <1>1, DBParts DEF BackupInfo
  <1>3. rows \subseteq JournalRow
    BY <1>1 DEF JournalRow, Statuses, Entries
  <1>4. journal \in SUBSET JournalRow
    BY <1>3, DBParts
  <1>5. InsertBackupJournal(db, t, queue)
          = [db EXCEPT !.seq = seq, !.infos = infos, !.journal = journal]
    BY DEF InsertBackupJournal
  <1> HIDE DEF seq, infos, rows, journal
  <1> QED
    BY <1>1, <1>2, <1>4, <1>5 DEF DB

LEMMA SetRowType ==
  ASSUME NEW db \in DB, NEW t, NEW status \in Statuses, NEW entry \in Entries
  PROVE  SetRow(db, t, status, entry) \in DB
  <1>1. \A r \in db.journal :
            [r EXCEPT !.status = status, !.entry = entry] \in JournalRow
    BY DBParts DEF JournalRow
  <1> QED
    BY <1>1 DEF DB, SetRow

LEMMA ClaimBackupJournalTaskType ==
  ASSUME NEW db \in DB, NEW t \in JournalRow
  PROVE  ClaimBackupJournalTask(db, t) \in DB
  BY SetRowType DEF ClaimBackupJournalTask, JournalRow, Statuses

LEMMA CompleteBackupJournalTaskType ==
  ASSUME NEW db \in DB, NEW t, NEW entry \in Entries
  PROVE  CompleteBackupJournalTask(db, t, entry) \in DB
  BY SetRowType DEF CompleteBackupJournalTask, Statuses

LEMMA WipeBackupJournalType ==
  ASSUME NEW db \in DB
  PROVE  WipeBackupJournal(db) \in DB
  BY DEF DB, WipeBackupJournal

LEMMA ResetAllInProgressType ==
  ASSUME NEW db \in DB
  PROVE  ResetAllInProgressBackupJournalTasks(db) \in DB
  <1>1. \A r \in db.journal : [r EXCEPT !.status = "Unstarted"] \in JournalRow
    BY DBParts DEF JournalRow, Statuses
  <1> QED
    BY <1>1 DEF DB, ResetAllInProgressBackupJournalTasks

LEMMA CancelationResetLastBackupTimeType ==
  ASSUME NEW db \in DB
  PROVE  CancelationResetLastBackupTime(db) \in DB
  BY DEF DB, CancelationResetLastBackupTime

LEMMA CancelationDeleteInfosType ==
  ASSUME NEW db \in DB
  PROVE  CancelationDeleteInfos(db) \in DB
  BY DEF DB, CancelationDeleteInfos

LEMMA GetJournaledBackupInfoType ==
  ASSUME NEW db \in DB
  PROVE  GetJournaledBackupInfo(db) \subseteq BackupInfo
  BY DEF DB, GetJournaledBackupInfo, JournaledInfos

\* An index entry is the entry of some journal row of the path.
LEMMA IndexEntryFromRow ==
  ASSUME NEW db, NEW p, IndexEntry(db, p) # NoEntry
  PROVE  \E r \in db.journal : r.entry # NoEntry /\ IndexEntry(db, p) = r.entry
  <1> DEFINE rows == {r \in db.journal : r.path = p /\ r.entry # NoEntry}
             last == {r \in rows : \A q \in rows : q.info =< r.info}
  <1>1. last # {} /\ IndexEntry(db, p) = (CHOOSE r \in last : TRUE).entry
    BY DEF IndexEntry
  <1>2. (CHOOSE r \in last : TRUE) \in last
    BY <1>1
  <1> QED
    BY <1>1, <1>2

LEMMA IndexFileOfType ==
  ASSUME NEW db \in DB
  PROVE  IndexFileOf(db) \in [Paths -> Entries]
  <1>1. ASSUME NEW p \in Paths PROVE IndexEntry(db, p) \in Entries
    <2>1. CASE IndexEntry(db, p) = NoEntry
      BY <2>1 DEF Entries
    <2>2. CASE IndexEntry(db, p) # NoEntry
      BY <2>2, IndexEntryFromRow, DBParts DEF JournalRow
    <2> QED BY <2>1, <2>2
  <1> QED BY <1>1 DEF IndexFileOf

-----------------------------------------------------------------------------
(* The engine.                                                             *)

LEMMA FinalizeItemsType ==
  ASSUME NEW db \in DB, NEW items \in SUBSET Item, NEW chunk \in Nat, NEW t \in Nat
  PROVE  FinalizeItems(db, items, chunk, t) \in DB
  <1> DEFINE own(r) == {i \in items : IsRow(r, i)}
             entry(r) == {[chunk |-> chunk, part |-> 1, ver |-> i.ver] : i \in own(r)}
             dirents == [p \in Paths |->
                 IF HasDirEnt(db, p) /\ \E i \in items : i.path = p
                 THEN t ELSE db.dirents[p]]
             row(r) == IF own(r) = {} THEN r
                       ELSE [r EXCEPT !.status = "Finished", !.entry = entry(r)]
             journal == {row(r) : r \in db.journal}
  <1>1. dirents \in [Paths -> Nat \cup {NotKnown}]
    BY DBParts
  <1>2. ASSUME NEW r \in db.journal PROVE row(r) \in JournalRow
    <2>1. entry(r) \in Entries
      BY DEF Item, Entries, Extent
    <2>2. r \in JournalRow
      BY DBParts
    <2> HIDE DEF own, entry
    <2> QED BY <2>1, <2>2 DEF JournalRow, Statuses
  <1>3. journal \in SUBSET JournalRow
    BY <1>2
  <1>4. FinalizeItems(db, items, chunk, t)
          = [db EXCEPT !.dirents = dirents, !.journal = journal]
    BY DEF FinalizeItems
  <1> HIDE DEF dirents, journal
  <1> QED
    BY <1>1, <1>3, <1>4 DEF DB

LEMMA FillJournalType ==
  ASSUME NEW db \in DB, NEW seen \in SUBSET Paths, NEW t \in Nat
  PROVE  FillJournal(db, seen, t) \in DB
  <1>1. UpdatedOrUnchanged(db, seen) \in SUBSET [path : Paths, change : ChangeTypes]
    BY DEF UpdatedOrUnchanged, ChangeTypes
  <1>2. Gone(db, seen) \in SUBSET [path : Paths, change : ChangeTypes]
    BY DEF Gone, GetAllKnownPaths, ChangeTypes
  <1> DEFINE inserted == InsertDirEnts(db, {p \in seen : ~HasDirEnt(db, p)})
             updated  == InsertBackupJournal(inserted, t, UpdatedOrUnchanged(db, seen))
  <1>3. inserted \in DB
    BY InsertDirEntsType
  <1>4. updated \in DB
    BY <1>1, <1>3, InsertBackupJournalType
  <1>5. InsertBackupJournal(updated, t, Gone(db, seen)) \in DB
    <2> HIDE DEF updated
    <2> QED BY <1>2, <1>4, InsertBackupJournalType
  <1> QED
    BY <1>5 DEF FillJournal

LEMMA InitType == Init => TypeOK
  <1> SUFFICES ASSUME Init PROVE TypeOK OBVIOUS
  <1>1. now \in Times \ {0}
    BY BoundsAssumption DEF Init, Times
  <1>2. fs \in [Paths -> FileState]
    BY DEF Init, FileState
  <1>3. file \in DB /\ mem \in DB
    BY EmptyDBType DEF Init
  <1>4. index \in [Times -> IndexFile \cup {None}]
    BY DEF Init
  <1> QED
    BY <1>1, <1>2, <1>3, <1>4 DEF Init, TypeOK, Places, Ops

\* Returning to Idle keeps the types of everything it resets.
LEMMA LeaveType ==
  ASSUME Leave
  PROVE  /\ pc' = "Idle" /\ pc' \in Places
         /\ mem' \in DB
         /\ snapshot' \in Nat
         /\ prev' \in IndexFile \cup {None}
         /\ task' \in JournalRow \cup {None}
         /\ parts' \in SUBSET Extent
         /\ packer' \in SUBSET Item
         /\ held' = {} /\ held' \in SUBSET Item
         /\ op' \in Ops
         /\ doomed' \in SUBSET Nat
         /\ victims' \in SUBSET Nat
         /\ retry' \in BOOLEAN
  BY EmptyDBType DEF Leave, Places, Ops

\* The steps of the machine around the engine.
LEMMA MachineType == TypeOK /\ Machine => TypeOK'
  <1> SUFFICES ASSUME TypeOK, Machine PROVE TypeOK' OBVIOUS
  <1> USE DEF env, bucket, local, cleanup, counts
  <1>1. CASE Tick
    <2>1. now' \in Times \ {0}
      BY <1>1, BoundsAssumption DEF Tick, TypeOK, Times
    <2> QED BY <1>1, <2>1 DEF Tick, TypeOK
  <1>2. CASE Crash
    BY <1>2, LeaveType DEF Crash, Fault, TypeOK
  <1>3. ASSUME NEW p \in Paths, WriteFile(p) PROVE TypeOK'
    <2>1. [exists |-> TRUE, ver |-> fs[p].ver + 1, mtime |-> now] \in FileState
      BY DEF TypeOK, FileState, Times
    <2>2. fs' \in [Paths -> FileState]
      BY <1>3, <2>1 DEF WriteFile, TypeOK
    <2> QED BY <1>3, <2>2 DEF WriteFile, TypeOK
  <1>4. ASSUME NEW p \in Paths, RemoveFile(p) PROVE TypeOK'
    <2>1. fs' \in [Paths -> FileState]
      BY <1>4 DEF RemoveFile, TypeOK, FileState
    <2> QED BY <1>4, <2>1 DEF RemoveFile, TypeOK
  <1> QED BY <1>1, <1>2, <1>3, <1>4 DEF Machine

LEMMA StartDeletionType ==
  ASSUME NEW who \in Ops, NEW S \in SUBSET Nat, TypeOK, StartDeletion(who, S)
  PROVE  /\ pc' = "DeleteIndex" /\ pc' \in Places
         /\ op' \in Ops /\ doomed' \in SUBSET Nat /\ retry' \in BOOLEAN
         /\ victims' \in SUBSET Nat
  BY DEF StartDeletion, Goto, TypeOK, Places, GCPlaces

\* The steps that start a backup, a replay or a deletion.
LEMMA StartType ==
  TypeOK /\ (Start \/ ReplayBackupJournal \/ CancelBackup) => TypeOK'
  <1> SUFFICES ASSUME TypeOK, Start \/ ReplayBackupJournal \/ CancelBackup
               PROVE  TypeOK'
    OBVIOUS
  <1> USE DEF env, bucket, local, cleanup, counts
  <1>1. CASE DoJournaledBackup
    <2>1. PICK seen \in SUBSET Paths :
            LET db == FillJournal(file, seen, now)
            IN  /\ Walk(seen)
                /\ \/ /\ \E info \in GetJournaledBackupInfo(db) : snapshot' = info.time
                      /\ mem' = db
                      /\ Goto("Group")
                      /\ UNCHANGED <<file, prev, task, parts, packer, held, cleanup>>
                   \/ /\ GetJournaledBackupInfo(db) = {}
                      /\ file' = db
                      /\ UNCHANGED <<mem, pc, local, cleanup>>
      BY <1>1 DEF DoJournaledBackup
    <2>2. UNCHANGED <<env, bucket>>
      BY <1>1 DEF DoJournaledBackup
    <2>3. FillJournal(file, seen, now) \in DB
      BY FillJournalType DEF TypeOK, Times
    <2>4. backups' \in Nat /\ faults' \in Nat
      BY <2>1 DEF Walk, TypeOK
    <2>5. \A info \in GetJournaledBackupInfo(FillJournal(file, seen, now)) : info.time \in Nat
      BY <2>3, GetJournaledBackupInfoType DEF BackupInfo
    <2>6. held = {}
      BY <1>1 DEF DoJournaledBackup, TypeOK
    <2> QED
      BY <2>1, <2>2, <2>3, <2>4, <2>5, <2>6 DEF Goto, TypeOK, Places, PlayPlaces
  <1>2. CASE ReplayBackupJournal
    <2>1. ResetAllInProgressBackupJournalTasks(file) \in DB
      BY ResetAllInProgressType DEF TypeOK
    <2>2. \A info \in GetJournaledBackupInfo(file) : info.time \in Nat
      BY GetJournaledBackupInfoType DEF TypeOK, BackupInfo
    <2> QED
      BY <1>2, <2>1, <2>2 DEF ReplayBackupJournal, Lost, Goto, TypeOK, Places, PlayPlaces
  <1>3. CASE ForceFullBackup
    BY <1>3, ResetLastBackedUpTimeType DEF ForceFullBackup, TypeOK
  <1>4. CASE DeleteSnapshots
    <2>1. PICK S \in SUBSET Snapshots \ {{}} :
            /\ file' = IF \E t \in S : IsMostRecentSnapshot(t)
                       THEN ResetLastBackedUpTime(file) ELSE file
            /\ StartDeletion("delete", S)
      BY <1>4 DEF DeleteSnapshots
    <2>2. file' \in DB
      BY <2>1, ResetLastBackedUpTimeType DEF TypeOK
    <2>3. S \in SUBSET Nat
      BY <2>1 DEF Snapshots, Times
    <2> QED
      BY <1>4, <2>1, <2>2, <2>3, StartDeletionType DEF DeleteSnapshots, TypeOK, Ops
  <1>5. CASE CloudRm
    <2>1. PICK S \in SUBSET Snapshots \ {{}} : StartDeletion("delete", S)
      BY <1>5 DEF CloudRm
    <2>2. S \in SUBSET Nat
      BY <2>1 DEF Snapshots, Times
    <2> QED
      BY <1>5, <2>1, <2>2, StartDeletionType DEF CloudRm, TypeOK, Ops
  <1>6. CASE RollBack
    <2>1. PICK info \in GetJournaledBackupInfo(file) : StartDeletion("rollback", {info.time})
      BY <1>6 DEF RollBack
    <2>2. {info.time} \in SUBSET Nat
      BY <2>1, GetJournaledBackupInfoType DEF TypeOK, BackupInfo
    <2> QED
      BY <1>6, <2>1, <2>2, StartDeletionType DEF RollBack, TypeOK, Ops
  <1>7. CASE CancelBackup
    <2>1. {snapshot} \in SUBSET Nat
      BY DEF TypeOK
    <2> QED
      BY <1>7, <2>1, StartDeletionType DEF CancelBackup, TypeOK, Ops
  <1> QED
    BY <1>1, <1>2, <1>3, <1>4, <1>5, <1>6, <1>7 DEF Start

LEMMA EndTaskType ==
  ASSUME NEW db \in DB, EndTask(db)
  PROVE  /\ mem' \in DB
         /\ task' \in JournalRow \cup {None}
         /\ parts' \in SUBSET Extent
         /\ held' = {} /\ held' \in SUBSET Item
         /\ pc' \in Places /\ pc' \notin {"Task", "Finalize"}
  BY DEF EndTask, Goto, Places, PlayPlaces

LEMMA FinishTaskType ==
  ASSUME TypeOK, task \in JournalRow, NEW db \in DB, NEW entry \in Entries,
         FinishTask(db, entry)
  PROVE  /\ mem' \in DB
         /\ task' \in JournalRow \cup {None}
         /\ parts' \in SUBSET Extent
         /\ held' = {} /\ held' \in SUBSET Item
         /\ pc' \in Places /\ pc' \notin {"Task", "Finalize"}
  <1> DEFINE marked == UpdateLastBackupTime(db, task.path, now)
             done   == CompleteBackupJournalTask(marked, task, entry)
  <1>1. marked \in DB
    BY UpdateLastBackupTimeType DEF TypeOK, Times
  <1>2. done \in DB
    BY <1>1, CompleteBackupJournalTaskType
  <1>3. EndTask(done)
    BY DEF FinishTask
  <1> HIDE DEF done
  <1> QED BY <1>2, <1>3, EndTaskType

LEMMA FailTaskType ==
  ASSUME TypeOK, FailTask
  PROVE  /\ mem' \in DB
         /\ task' \in JournalRow \cup {None}
         /\ parts' \in SUBSET Extent
         /\ held' = {} /\ held' \in SUBSET Item
         /\ pc' \in Places /\ pc' \notin {"Task", "Finalize"}
  <1>1. CompleteBackupJournalTask(mem, task, NoEntry) \in DB
    BY CompleteBackupJournalTaskType DEF TypeOK, Entries
  <1> QED
    BY <1>1 DEF FailTask, Goto, Places, PlayPlaces

\* The steps of PlayBackupJournal, up to the end of a task.
LEMMA TaskStepsType ==
  TypeOK /\ (GetPrevSnapshot \/ ClaimNext \/ NoWork \/ TaskDeleted
             \/ TaskWithoutDirEnt \/ TaskUnchanged \/ ReadFails \/ BackupSmall
             \/ UploadPart \/ UploadPartFails \/ LargeDone) => TypeOK'
  <1> SUFFICES ASSUME TypeOK,
                      GetPrevSnapshot \/ ClaimNext \/ NoWork \/ TaskDeleted
                      \/ TaskWithoutDirEnt \/ TaskUnchanged \/ ReadFails \/ BackupSmall
                      \/ UploadPart \/ UploadPartFails \/ LargeDone
               PROVE  TypeOK'
    OBVIOUS
  <1> USE DEF env, bucket, local, cleanup, counts
  <1>1. CASE GetPrevSnapshot
    <2>1. prev' \in IndexFile \cup {None}
      BY <1>1, BoundsAssumption DEF GetPrevSnapshot, TypeOK, Snapshots, Times, Lost
    <2> QED
      BY <1>1, <2>1 DEF GetPrevSnapshot, Goto, TypeOK, Places, PlayPlaces
  <1>2. CASE ClaimNext
    <2>1. PICK r \in UnstartedRows(mem) :
            mem' = ClaimBackupJournalTask(mem, r) /\ task' = r
      BY <1>2 DEF ClaimNext
    <2>2. r \in JournalRow
      BY <2>1, DBParts DEF UnstartedRows, TypeOK
    <2>3. mem' \in DB
      BY <2>1, <2>2, ClaimBackupJournalTaskType DEF TypeOK
    <2> QED
      BY <1>2, <2>1, <2>2, <2>3
      DEF ClaimNext, MayPersist, Goto, TypeOK, Places, PlayPlaces
  <1>3. CASE NoWork
    BY <1>3 DEF NoWork, MayPersist, Goto, TypeOK, Places, PlayPlaces
  <1>4. CASE TaskDeleted
    <2>1. (IF snapshot = Lost THEN mem ELSE DeleteDirEntByPath(mem, task.path)) \in DB
      BY DeleteDirEntByPathType DEF TypeOK
    <2>2. task \in JournalRow /\ NoEntry \in Entries
      BY <1>4 DEF TaskDeleted, TypeOK, Entries
    <2> QED
      BY <1>4, <2>1, <2>2, FinishTaskType DEF TaskDeleted, TypeOK
  <1>5. CASE TaskWithoutDirEnt
    <2>1. task \in JournalRow /\ NoEntry \in Entries /\ mem \in DB
      BY <1>5 DEF TaskWithoutDirEnt, TypeOK, Entries
    <2> QED
      BY <1>5, <2>1, FinishTaskType DEF TaskWithoutDirEnt, TypeOK
  <1>6. CASE TaskUnchanged
    <2>1. task \in JournalRow /\ mem \in DB /\ prev \in IndexFile
      BY <1>6 DEF TaskUnchanged, TypeOK
    <2>2. (IF prev[task.path] = NoEntry THEN {} ELSE prev[task.path]) \in Entries
      BY <2>1 DEF JournalRow, IndexFile, Entries
    <2> QED
      BY <1>6, <2>1, <2>2, FinishTaskType DEF TaskUnchanged, TypeOK
  <1>7. CASE ReadFails
    BY <1>7, FailTaskType DEF ReadFails, Fault, TypeOK
  <1>8. CASE BackupSmall
    <2>1. task \in JournalRow
      BY <1>8 DEF BackupSmall, CallsBackup, TypeOK
    <2>2. ItemRead \in Item
      BY <2>1 DEF TypeOK, JournalRow, FileState, ItemRead, Item
    <2>3. held = {}
      BY <1>8 DEF BackupSmall, CallsBackup, TypeOK
    <2>4. \/ packer' = packer \cup {ItemRead} /\ task' = None /\ pc' = "Loop" /\ held' = held
          \/ held' = {ItemRead} /\ pc' = "Flush" /\ packer' = packer /\ task' = task
      BY <1>8 DEF BackupSmall, Goto
    <2>5. UNCHANGED <<env, file, mem, bucket, snapshot, prev, parts, cleanup, counts>>
      BY <1>8 DEF BackupSmall
    <2> QED
      BY <2>1, <2>2, <2>3, <2>4, <2>5 DEF TypeOK, Places, PlayPlaces
  <1>9. CASE UploadPart
    <2>1. task \in JournalRow
      BY <1>9 DEF UploadPart, CallsBackup, TypeOK
    <2>2. PICK n \in 1..LargeParts :
            parts' = parts \cup {[chunk |-> nextChunk, part |-> n,
                                  ver |-> fs[task.path].ver]}
      BY <1>9 DEF UploadPart
    <2>3. [chunk |-> nextChunk, part |-> n, ver |-> fs[task.path].ver] \in Extent
      BY <2>1, SizesAssumption DEF TypeOK, JournalRow, FileState, Extent
    <2>4. parts' \in SUBSET Extent
      BY <2>2, <2>3 DEF TypeOK
    <2>5. chunks' \in SUBSET Nat /\ nextChunk' \in Nat
      BY <1>9 DEF UploadPart, NewChunk, TypeOK
    <2>6. pc # "Finalize"
      BY <1>9 DEF UploadPart, CallsBackup
    <2> QED
      BY <1>9, <2>1, <2>4, <2>5, <2>6 DEF UploadPart, NewChunk, TypeOK
  <1>10. CASE UploadPartFails
    BY <1>10, FailTaskType DEF UploadPartFails, Fault, TypeOK
  <1>11. CASE LargeDone
    <2>1. task \in JournalRow /\ mem \in DB /\ parts \in Entries
      BY <1>11 DEF LargeDone, CallsBackup, TypeOK, Entries
    <2> QED
      BY <1>11, <2>1, FinishTaskType DEF LargeDone, TypeOK
  <1> QED
    BY <1>1, <1>2, <1>3, <1>4, <1>5, <1>6, <1>7, <1>8, <1>9, <1>10, <1>11

\* The steps of chunkPacker.Complete and of writeIndexFileAndWipeJournal, and
\* the failures of the object store.
LEMMA CompleteStepsType ==
  TypeOK /\ (GetPrevSnapshotFails \/ PersistWhileUploading \/ UploadPacker
             \/ UploadPackerFails \/ Finalize \/ WriteIndexFile
             \/ WriteIndexFileFails \/ WipeJournal) => TypeOK'
  <1> SUFFICES ASSUME TypeOK,
                      GetPrevSnapshotFails \/ PersistWhileUploading \/ UploadPacker
                      \/ UploadPackerFails \/ Finalize \/ WriteIndexFile
                      \/ WriteIndexFileFails \/ WipeJournal
               PROVE  TypeOK'
    OBVIOUS
  <1> USE DEF env, bucket, local, cleanup, counts
  <1>1. CASE GetPrevSnapshotFails
    BY <1>1, LeaveType DEF GetPrevSnapshotFails, Fault, TypeOK
  <1>2. CASE PersistWhileUploading
    BY <1>2 DEF PersistWhileUploading, TypeOK
  <1>3. CASE UploadPacker
    <2>1. chunks' \in SUBSET Nat /\ nextChunk' \in Nat /\ nextChunk' > 0
      BY <1>3 DEF UploadPacker, NewChunk, TypeOK
    <2> QED
      BY <1>3, <2>1 DEF UploadPacker, NewChunk, Goto, TypeOK, Places, PlayPlaces
  <1>4. CASE UploadPackerFails
    <2>1. CASE held = {}
      BY <1>4, <2>1 DEF UploadPackerFails, Fault, Goto, TypeOK, Places, PlayPlaces
    <2>2. CASE held # {}
      <3>1. task \in JournalRow /\ mem \in DB /\ {} \in Entries
        BY <2>2 DEF TypeOK, Entries
      <3> QED
        BY <1>4, <2>2, <3>1, FinishTaskType DEF UploadPackerFails, Fault, TypeOK
    <2> QED BY <2>1, <2>2
  <1>5. CASE Finalize
    <2>1. nextChunk - 1 \in Nat
      BY <1>5 DEF Finalize, TypeOK
    <2>2. mem' \in DB
      BY <1>5, <2>1, FinalizeItemsType DEF Finalize, TypeOK, Times
    <2> QED
      BY <1>5, <2>2 DEF Finalize, Goto, TypeOK, Places, PlayPlaces
  <1>6. CASE WriteIndexFile
    <2>1. index' \in [Times -> IndexFile \cup {None}]
      BY <1>6, IndexFileOfType DEF WriteIndexFile, TypeOK, IndexFile
    <2> QED
      BY <1>6, <2>1 DEF WriteIndexFile, Goto, TypeOK, Places, PlayPlaces
  <1>7. CASE WriteIndexFileFails
    BY <1>7 DEF WriteIndexFileFails, Fault, Goto, TypeOK, Places, PlayPlaces
  <1>8. CASE WipeJournal
    <2>1. file' \in DB
      BY <1>8, WipeBackupJournalType DEF WipeJournal, TypeOK
    <2> QED
      BY <1>8, <2>1, LeaveType DEF WipeJournal, TypeOK
  <1> QED
    BY <1>1, <1>2, <1>3, <1>4, <1>5, <1>6, <1>7, <1>8

LEMMA AfterDeletionType ==
  ASSUME TypeOK, pc \in GCPlaces, AfterDeletion,
         UNCHANGED <<env, file, bucket>>, backups' \in Nat, faults' \in Nat
  PROVE  TypeOK'
  <1>1. CASE Leave
    BY <1>1, LeaveType DEF TypeOK, env, bucket
  <1>2. CASE ~Leave
    <2>1. held = {}
      BY DEF TypeOK, GCPlaces
    <2> QED
      BY <1>2, <2>1 DEF AfterDeletion, Goto, TypeOK, Places, CancelPlaces, env, bucket, local
  <1> QED BY <1>1, <1>2

\* The steps of a deletion, a cancelation or a rollback.
LEMMA DeletionType == TypeOK /\ (Deletion \/ DeletionFails) => TypeOK'
  <1> SUFFICES ASSUME TypeOK, Deletion \/ DeletionFails PROVE TypeOK' OBVIOUS
  <1>1. CASE DeleteIndexObj
    <2>1. PICK t \in doomed : /\ index' = [index EXCEPT ![t] = None]
                              /\ doomed' = doomed \ {t}
                              /\ pc' \in {"GCList", "DeleteIndex"}
      BY <1>1 DEF DeleteIndexObj, Goto
    <2>2. index' \in [Times -> IndexFile \cup {None}]
      BY <2>1 DEF TypeOK
    <2> QED
      BY <1>1, <2>1, <2>2
      DEF DeleteIndexObj, TypeOK, Places, GCPlaces, env, local, counts
  <1>2. CASE ListOrphans
    BY <1>2
    DEF ListOrphans, Goto, TypeOK, Places, GCPlaces, env, bucket, local, counts
  <1>3. CASE DeleteOrphan
    BY <1>3 DEF DeleteOrphan, TypeOK, env, local, counts
  <1>4. CASE OrphansDeleted
    BY <1>4, AfterDeletionType DEF OrphansDeleted, TypeOK, GCPlaces, counts
  <1>5. CASE ResetTimes
    BY <1>5, CancelationResetLastBackupTimeType
    DEF ResetTimes, Goto, TypeOK, Places, CancelPlaces, env, bucket, local, cleanup, counts
  <1>9. CASE CleanupInfos
    BY <1>9, CancelationDeleteInfosType
    DEF CleanupInfos, Goto, TypeOK, Places, CancelPlaces, env, bucket, local, cleanup, counts
  <1>6. CASE CleanupJournal
    <2>1. file' \in DB
      BY <1>6, WipeBackupJournalType DEF CleanupJournal, TypeOK
    <2>2. CASE Leave
      BY <1>6, <2>1, <2>2, LeaveType DEF CleanupJournal, TypeOK, env, bucket, counts
    <2>3. CASE ~Leave
      BY <1>6, <2>1, <2>3
      DEF CleanupJournal, Goto, TypeOK, Places, CancelPlaces, env, bucket, local, cleanup, counts
    <2> QED BY <2>2, <2>3
  <1>7. CASE CancelReturn
    BY <1>7, LeaveType DEF CancelReturn, TypeOK, env, bucket, counts
  <1>8. CASE DeletionFails
    <2>1. backups' \in Nat /\ faults' \in Nat /\ UNCHANGED <<env, file, bucket>>
      BY <1>8 DEF DeletionFails, Fault, TypeOK
    <2>2. CASE AfterDeletion
      BY <1>8, <2>1, <2>2, AfterDeletionType DEF DeletionFails
    <2>3. CASE ~AfterDeletion
      BY <1>8, <2>1, <2>3
      DEF DeletionFails, Goto, TypeOK, Places, GCPlaces, env, bucket, local
    <2> QED BY <2>2, <2>3
  <1> QED
    BY <1>1, <1>2, <1>3, <1>4, <1>5, <1>6, <1>7, <1>8, <1>9 DEF Deletion

\* Every reachable state of the engine is well typed: a task is at hand where
\* the code dereferences one (PlayBackupJournal, chunkPacker.Complete), and the
\* operations of the database keep its tables well formed.
THEOREM TypeCorrect == Spec => []TypeOK
  <1>1. TypeOK /\ [Next]_vars => TypeOK'
    <2> SUFFICES ASSUME TypeOK, [Next]_vars PROVE TypeOK' OBVIOUS
    <2>1. CASE Next
      BY <2>1, MachineType, StartType, TaskStepsType, CompleteStepsType, DeletionType
      DEF Next, Play, PlayFails
    <2>2. CASE UNCHANGED vars
      BY <2>2 DEF vars, env, bucket, local, cleanup, counts, TypeOK
    <2> QED BY <2>1, <2>2
  <1> QED
    BY <1>1, InitType, PTL DEF Spec

-----------------------------------------------------------------------------
(* Storage.  Extents move from an upload to a journal, from one database   *)
(* to the other and from a journal or the previous snapshot to an index;   *)
(* StorageInv follows them.                                                *)

\* Does an entry refer to chunks of C only?
EntryIn(entry, C) == entry # NoEntry => \A e \in entry : e.chunk \in C

LEMMA IndexInMonotone ==
  ASSUME NEW ix, NEW C, NEW D, C \subseteq D, IndexIn(ix, C)
  PROVE  IndexIn(ix, D)
  BY DEF IndexIn

LEMMA JournalInMonotone ==
  ASSUME NEW db, NEW C, NEW D, C \subseteq D, JournalIn(db, C)
  PROVE  JournalIn(db, D)
  BY DEF JournalIn

LEMMA EmptyJournalIn ==
  ASSUME NEW db, NEW C, db.journal = {}
  PROVE  JournalIn(db, C)
  BY DEF JournalIn

\* Operations on dirents leave the journal alone.
LEMMA DirentsKeepJournal ==
  ASSUME NEW db \in DB, NEW S, NEW p, NEW t
  PROVE  /\ InsertDirEnts(db, S).journal = db.journal
         /\ UpdateLastBackupTime(db, p, t).journal = db.journal
         /\ DeleteDirEntByPath(db, p).journal = db.journal
         /\ ResetLastBackedUpTime(db).journal = db.journal
  BY DEF DB, InsertDirEnts, UpdateLastBackupTime, DeleteDirEntByPath, ResetLastBackedUpTime

LEMMA InsertBackupJournalIn ==
  ASSUME NEW db \in DB, NEW t, NEW queue, NEW C, JournalIn(db, C)
  PROVE  JournalIn(InsertBackupJournal(db, t, queue), C)
  <1> DEFINE rows == {[info |-> db.seq + 1, path |-> q.path, change |-> q.change,
                       status |-> "Unstarted", entry |-> NoEntry] : q \in queue}
  <1>1. InsertBackupJournal(db, t, queue).journal = db.journal \cup rows
    BY DEF DB, InsertBackupJournal
  <1>2. \A r \in rows : r.entry = NoEntry
    OBVIOUS
  <1> QED
    BY <1>1, <1>2 DEF JournalIn

LEMMA FillJournalIn ==
  ASSUME NEW db \in DB, NEW seen \in SUBSET Paths, NEW t \in Nat, NEW C, JournalIn(db, C)
  PROVE  JournalIn(FillJournal(db, seen, t), C)
  <1> DEFINE inserted == InsertDirEnts(db, {p \in seen : ~HasDirEnt(db, p)})
             queue    == UpdatedOrUnchanged(db, seen)
             updated  == InsertBackupJournal(inserted, t, queue)
  <1>1. inserted \in DB /\ JournalIn(inserted, C)
    BY InsertDirEntsType, DirentsKeepJournal DEF JournalIn
  <1>2. queue \in SUBSET [path : Paths, change : ChangeTypes]
    BY DEF UpdatedOrUnchanged, ChangeTypes
  <1>3. updated \in DB /\ JournalIn(updated, C)
    <2> HIDE DEF inserted, queue
    <2> QED BY <1>1, <1>2, InsertBackupJournalType, InsertBackupJournalIn
  <1>4. JournalIn(InsertBackupJournal(updated, t, Gone(db, seen)), C)
    <2> HIDE DEF updated
    <2> QED BY <1>3, InsertBackupJournalIn
  <1> QED
    BY <1>4 DEF FillJournal

LEMMA SetRowIn ==
  ASSUME NEW db \in DB, NEW t, NEW status, NEW entry, NEW C,
         JournalIn(db, C), EntryIn(entry, C)
  PROVE  JournalIn(SetRow(db, t, status, entry), C)
  <1> DEFINE row(r) == IF IsRow(r, t) THEN [r EXCEPT !.status = status, !.entry = entry]
                       ELSE r
  <1>1. SetRow(db, t, status, entry).journal = {row(r) : r \in db.journal}
    BY DEF DB, SetRow
  <1>2. \A r \in db.journal : row(r).entry \in {entry, r.entry}
    BY DBParts DEF JournalRow
  <1> HIDE DEF row
  <1> QED
    BY <1>1, <1>2 DEF JournalIn, EntryIn

LEMMA ResetAllInProgressIn ==
  ASSUME NEW db \in DB, NEW C, JournalIn(db, C)
  PROVE  JournalIn(ResetAllInProgressBackupJournalTasks(db), C)
  <1> DEFINE row(r) == IF r.status = "InProgress" THEN [r EXCEPT !.status = "Unstarted"]
                       ELSE r
  <1>1. ResetAllInProgressBackupJournalTasks(db).journal = {row(r) : r \in db.journal}
    BY DEF DB, ResetAllInProgressBackupJournalTasks
  <1>2. \A r \in db.journal : row(r).entry = r.entry
    BY DBParts DEF JournalRow
  <1> HIDE DEF row
  <1> QED
    BY <1>1, <1>2 DEF JournalIn

LEMMA FinalizeItemsIn ==
  ASSUME NEW db \in DB, NEW items, NEW chunk, NEW t, NEW C,
         JournalIn(db, C), chunk \in C
  PROVE  JournalIn(FinalizeItems(db, items, chunk, t), C)
  <1> DEFINE own(r) == {i \in items : IsRow(r, i)}
             entry(r) == {[chunk |-> chunk, part |-> 1, ver |-> i.ver] : i \in own(r)}
             row(r) == IF own(r) = {} THEN r
                       ELSE [r EXCEPT !.status = "Finished", !.entry = entry(r)]
  <1>1. FinalizeItems(db, items, chunk, t).journal = {row(r) : r \in db.journal}
    BY DEF DB, FinalizeItems
  <1>2. \A r : \A e \in entry(r) : e.chunk \in C
    OBVIOUS
  <1>3. \A r \in db.journal : row(r).entry \in {entry(r), r.entry}
    <2> HIDE DEF own, entry
    <2> QED BY DBParts DEF JournalRow
  <1> HIDE DEF row, entry
  <1> QED
    BY <1>1, <1>2, <1>3 DEF JournalIn

LEMMA IndexFileOfIn ==
  ASSUME NEW db, NEW C, JournalIn(db, C)
  PROVE  IndexIn(IndexFileOf(db), C)
  BY IndexEntryFromRow DEF IndexFileOf, IndexIn, JournalIn

LEMMA ReferencedFromIndex ==
  ASSUME NEW C
  PROVE  ReferencedChunks \subseteq C
           <=> \A t \in Times : index[t] # None => IndexIn(index[t], C)
  BY DEF ReferencedChunks, ChunksOf, IndexIn

-----------------------------------------------------------------------------
(* Steps, by what they do to the bucket *)

\* A step back to Idle, with the database file as it is left.
LEMMA LeaveStorage ==
  ASSUME StorageInv, Leave, UNCHANGED bucket, JournalIn(file', chunks)
  PROVE  StorageInv'
  <1>1. /\ pc' = "Idle" /\ mem'.journal = {} /\ prev' = None /\ parts' = {}
    BY DEF Leave, EmptyDB
  <1>2. JournalIn(mem', chunks)
    BY <1>1, EmptyJournalIn
  <1> QED
    BY <1>1, <1>2 DEF StorageInv, NoBackup, bucket, GCPlaces, CancelPlaces

\* A step within PlayBackupJournal that leaves the bucket alone.
LEMMA PlayStorage ==
  ASSUME StorageInv, UNCHANGED bucket,
         pc' \in PlayPlaces \ {"Finalize"},
         JournalIn(file', chunks), JournalIn(mem', chunks),
         prev' # None => IndexIn(prev', chunks),
         \A e \in parts' : e.chunk \in chunks
  PROVE  StorageInv'
  BY DEF StorageInv, Undoing, bucket, PlayPlaces, GCPlaces, CancelPlaces

\* A pending journal refers to what is there, unless an undo is about to clear it.
LEMMA NotUndoing ==
  ASSUME StorageInv, pc \notin GCPlaces \cup CancelPlaces
  PROVE  JournalIn(file, chunks)
  BY DEF StorageInv, Undoing, GCPlaces, CancelPlaces

\* An upload: a chunk more cannot hurt.
LEMMA UploadStorage ==
  ASSUME TypeOK, StorageInv, NewChunk, UNCHANGED <<file, mem, prev>>,
         pc \in PlayPlaces, pc' \in {"Task", "Finalize"},
         \A e \in parts' : e.chunk \in chunks \cup {nextChunk}
  PROVE  StorageInv'
  <1>1. chunks \subseteq chunks' /\ nextChunk' - 1 \in chunks' /\ index' = index
    BY DEF NewChunk, TypeOK
  <1>2. \A t \in Times : index'[t] # None => IndexIn(index'[t], chunks')
    BY <1>1, IndexInMonotone DEF StorageInv
  <1>3. JournalIn(file', chunks') /\ JournalIn(mem', chunks')
    BY <1>1, NotUndoing, JournalInMonotone DEF StorageInv, PlayPlaces, GCPlaces, CancelPlaces
  <1>4. prev' # None => IndexIn(prev', chunks')
    BY <1>1, IndexInMonotone DEF StorageInv
  <1>5. \A e \in parts' : e.chunk \in chunks'
    BY DEF NewChunk
  <1> QED
    BY <1>1, <1>2, <1>3, <1>4, <1>5 DEF StorageInv, GCPlaces, CancelPlaces

\* The start of a deletion, or of a rollback.
LEMMA DeleteStorage ==
  ASSUME NEW S, NEW who \in {"delete", "rollback"}, StorageInv, pc = "Idle",
         StartDeletion(who, S), UNCHANGED <<bucket, mem, local>>,
         JournalIn(file', chunks), who = "delete" => file'.journal = {}
  PROVE  StorageInv'
  <1>1. pc' = "DeleteIndex" /\ op' = who /\ (retry' <=> who # "delete")
    BY DEF StartDeletion, Goto
  <1>2. NoBackup /\ NoBackup'
    BY DEF StorageInv, NoBackup, local
  <1> QED
    BY <1>1, <1>2 DEF StorageInv, bucket, local, GCPlaces, CancelPlaces

LEMMA MachineStorage ==
  ASSUME CollectedIsForgotten, TypeOK, StorageInv, Machine
  PROVE  StorageInv'
  <1>1. CASE Crash
    <2>1. ~Undoing
      BY <1>1 DEF Crash, Fault, CollectedIsForgotten
    <2> QED
      BY <1>1, <2>1, LeaveStorage DEF Crash, StorageInv
  <1>2. CASE ~Crash
    <2>1. UNCHANGED <<file, mem, bucket, pc, local, cleanup>>
      BY <1>2 DEF Machine, Tick, WriteFile, RemoveFile
    <2> QED
      BY <2>1
      DEF StorageInv, Undoing, NoBackup, ReferencedChunks, bucket, local, cleanup
  <1> QED BY <1>1, <1>2

LEMMA StartStorage ==
  ASSUME CollectedIsForgotten, TypeOK, StorageInv,
         Start \/ ReplayBackupJournal \/ CancelBackup
  PROVE  StorageInv'
  <1>0. pc = "Idle" => JournalIn(file, chunks)
    BY NotUndoing DEF GCPlaces, CancelPlaces
  <1>1. CASE DoJournaledBackup
    <2>1. PICK seen \in SUBSET Paths :
            LET db == FillJournal(file, seen, now)
            IN  \/ /\ mem' = db
                   /\ pc' = "Group"
                   /\ UNCHANGED <<file, prev, parts>>
                \/ /\ file' = db
                   /\ UNCHANGED <<mem, pc, prev, parts>>
      BY <1>1 DEF DoJournaledBackup, Goto, local
    <2>2. UNCHANGED bucket /\ pc = "Idle"
      BY <1>1 DEF DoJournaledBackup
    <2>3. JournalIn(FillJournal(file, seen, now), chunks)
      BY <1>0, <2>2, FillJournalIn DEF TypeOK, Times
    <2>4. CASE pc' = "Group"
      BY <1>0, <2>1, <2>2, <2>3, <2>4, PlayStorage DEF StorageInv, PlayPlaces
    <2>5. CASE pc' # "Group"
      BY <2>1, <2>2, <2>3, <2>5
      DEF StorageInv, NoBackup, bucket, GCPlaces, CancelPlaces
    <2> QED BY <2>4, <2>5
  <1>2. CASE ReplayBackupJournal
    <2>1. JournalIn(ResetAllInProgressBackupJournalTasks(file), chunks)
      BY <1>0, <1>2, ResetAllInProgressIn DEF ReplayBackupJournal, TypeOK
    <2> QED
      BY <1>0, <1>2, <2>1, PlayStorage DEF ReplayBackupJournal, Goto, StorageInv, PlayPlaces
  <1>3. CASE ForceFullBackup
    <2>1. file'.journal = file.journal
      BY <1>3, DirentsKeepJournal DEF ForceFullBackup, TypeOK
    <2> QED
      BY <1>3, <2>1
      DEF ForceFullBackup, StorageInv, Undoing, NoBackup, JournalIn, bucket, local, cleanup,
          GCPlaces, CancelPlaces
  <1>4. CASE DeleteSnapshots
    <2>1. file'.journal = file.journal
      BY <1>4, DirentsKeepJournal DEF DeleteSnapshots, TypeOK
    <2>2. file.journal = {}
      BY <1>4 DEF DeleteSnapshots, CollectedIsForgotten, HasDirtyBackupJournal
    <2>3. JournalIn(file', chunks)
      BY <2>1, <2>2, EmptyJournalIn
    <2>4. PICK S : StartDeletion("delete", S)
      BY <1>4 DEF DeleteSnapshots
    <2> QED
      BY <1>4, <2>1, <2>2, <2>3, <2>4, DeleteStorage DEF DeleteSnapshots
  <1>5. CASE CloudRm
    <2>1. file.journal = {}
      BY <1>5 DEF CloudRm, CollectedIsForgotten, HasDirtyBackupJournal
    <2>2. JournalIn(file, chunks)
      BY <2>1, EmptyJournalIn
    <2>3. PICK S : StartDeletion("delete", S)
      BY <1>5 DEF CloudRm
    <2> QED
      BY <1>5, <2>1, <2>2, <2>3, DeleteStorage DEF CloudRm
  <1>6. CASE RollBack
    <2>1. PICK S : StartDeletion("rollback", S)
      BY <1>6 DEF RollBack
    <2> QED
      BY <1>0, <1>6, <2>1, DeleteStorage DEF RollBack
  <1>7. CASE CancelBackup
    BY <1>7 DEF CancelBackup, CollectedIsForgotten
  <1> QED
    BY <1>1, <1>2, <1>3, <1>4, <1>5, <1>6, <1>7 DEF Start

\* A task finished with an entry whose chunks are there.
LEMMA FinishTaskStorage ==
  ASSUME TypeOK, StorageInv, NEW db \in DB, NEW entry,
         JournalIn(file, chunks), JournalIn(db, chunks), EntryIn(entry, chunks),
         FinishTask(db, entry), UNCHANGED <<file, bucket, prev>>
  PROVE  StorageInv'
  <1> DEFINE marked == UpdateLastBackupTime(db, task.path, now)
             done   == CompleteBackupJournalTask(marked, task, entry)
  <1>1. marked \in DB /\ JournalIn(marked, chunks)
    BY UpdateLastBackupTimeType, DirentsKeepJournal DEF TypeOK, Times, JournalIn
  <1>2. JournalIn(done, chunks)
    <2> HIDE DEF marked
    <2> QED BY <1>1, SetRowIn DEF CompleteBackupJournalTask
  <1>3. mem' = done /\ parts' = {} /\ pc' \in {"Index", "Loop"}
    BY DEF FinishTask, EndTask, Goto
  <1> HIDE DEF done
  <1> QED
    BY <1>2, <1>3, PlayStorage DEF StorageInv, PlayPlaces

LEMMA FailTaskStorage ==
  ASSUME TypeOK, StorageInv, JournalIn(file, chunks), FailTask, UNCHANGED <<file, bucket, prev>>
  PROVE  StorageInv'
  <1>1. JournalIn(CompleteBackupJournalTask(mem, task, NoEntry), chunks)
    BY SetRowIn DEF CompleteBackupJournalTask, TypeOK, StorageInv, EntryIn
  <1> QED
    BY <1>1, PlayStorage DEF FailTask, Goto, StorageInv, PlayPlaces

LEMMA PlayStepsStorage ==
  TypeOK /\ StorageInv /\ (Play \/ PlayFails \/ PersistWhileUploading) => StorageInv'
  <1> SUFFICES ASSUME TypeOK, StorageInv, Play \/ PlayFails \/ PersistWhileUploading
               PROVE  StorageInv'
    OBVIOUS
  <1> USE DEF local
  <1>0. pc \in PlayPlaces
    BY DEF Play, PlayFails, PersistWhileUploading, GetPrevSnapshot, ClaimNext, NoWork,
           TaskDeleted, TaskWithoutDirEnt, TaskUnchanged, ReadFails, BackupSmall, UploadPart,
           UploadPartFails, LargeDone, CallsBackup, UploadPacker, UploadPackerFails, Finalize,
           WriteIndexFile, WriteIndexFileFails, WipeJournal, GetPrevSnapshotFails, PlayPlaces
  <1>00. JournalIn(file, chunks)
    BY <1>0, NotUndoing DEF PlayPlaces, GCPlaces, CancelPlaces
  <1> USE <1>0, <1>00
  <1>1. CASE GetPrevSnapshot
    <2>1. prev' # None => IndexIn(prev', chunks)
      BY <1>1, BoundsAssumption DEF GetPrevSnapshot, StorageInv, Snapshots, Times, Lost
    <2> QED
      BY <1>1, <2>1, PlayStorage DEF GetPrevSnapshot, Goto, StorageInv, PlayPlaces
  <1>2. CASE ClaimNext
    <2>1. PICK r \in mem.journal : mem' = ClaimBackupJournalTask(mem, r)
      BY <1>2 DEF ClaimNext, UnstartedRows
    <2>2. EntryIn(r.entry, chunks)
      BY <2>1 DEF StorageInv, JournalIn, EntryIn
    <2>3. JournalIn(mem', chunks)
      BY <2>1, <2>2, SetRowIn DEF ClaimBackupJournalTask, TypeOK, StorageInv
    <2> QED
      BY <1>2, <2>3, PlayStorage DEF ClaimNext, MayPersist, Goto, StorageInv, PlayPlaces
  <1>3. CASE NoWork
    BY <1>3, PlayStorage DEF NoWork, MayPersist, Goto, StorageInv, PlayPlaces
  <1>4. CASE TaskDeleted
    <2> DEFINE db == IF snapshot = Lost THEN mem ELSE DeleteDirEntByPath(mem, task.path)
    <2>1. db \in DB /\ JournalIn(db, chunks)
      BY DeleteDirEntByPathType, DirentsKeepJournal DEF TypeOK, StorageInv, JournalIn
    <2>2. EntryIn(NoEntry, chunks)
      BY DEF EntryIn
    <2>3. FinishTask(db, NoEntry)
      BY <1>4 DEF TaskDeleted
    <2> HIDE DEF db
    <2> QED
      BY <1>4, <2>1, <2>2, <2>3, FinishTaskStorage DEF TaskDeleted
  <1>5. CASE TaskWithoutDirEnt
    <2>1. EntryIn(NoEntry, chunks)
      BY DEF EntryIn
    <2> QED
      BY <1>5, <2>1, FinishTaskStorage DEF TaskWithoutDirEnt, TypeOK, StorageInv
  <1>6. CASE TaskUnchanged
    <2> DEFINE entry == IF prev[task.path] = NoEntry THEN {} ELSE prev[task.path]
    <2>1. task.path \in Paths
      BY <1>6 DEF TaskUnchanged, TypeOK, JournalRow
    <2>2. EntryIn(entry, chunks)
      BY <1>6, <2>1 DEF TaskUnchanged, StorageInv, IndexIn, EntryIn
    <2>3. FinishTask(mem, entry)
      BY <1>6 DEF TaskUnchanged
    <2> HIDE DEF entry
    <2> QED
      BY <1>6, <2>2, <2>3, FinishTaskStorage DEF TaskUnchanged, TypeOK, StorageInv
  <1>7. CASE ReadFails
    BY <1>7, FailTaskStorage DEF ReadFails
  <1>8. CASE BackupSmall
    BY <1>8, PlayStorage DEF BackupSmall, Goto, StorageInv, PlayPlaces
  <1>9. CASE UploadPart
    <2>1. \A e \in parts' : e.chunk \in chunks \cup {nextChunk}
      BY <1>9 DEF UploadPart, StorageInv
    <2>2. pc' = "Task"
      BY <1>9 DEF UploadPart, CallsBackup
    <2> QED
      BY <1>9, <2>1, <2>2, UploadStorage DEF UploadPart
  <1>10. CASE UploadPartFails
    BY <1>10, FailTaskStorage DEF UploadPartFails
  <1>11. CASE LargeDone
    <2>1. EntryIn(parts, chunks)
      BY DEF StorageInv, EntryIn
    <2> QED
      BY <1>11, <2>1, FinishTaskStorage DEF LargeDone, TypeOK, StorageInv
  <1>12. CASE UploadPacker
    BY <1>12, UploadStorage DEF UploadPacker, Goto, StorageInv
  <1>13. CASE UploadPackerFails
    <2>1. CASE held = {}
      BY <1>13, <2>1, PlayStorage DEF UploadPackerFails, Goto, StorageInv, PlayPlaces
    <2>2. CASE held # {}
      <3>1. EntryIn({}, chunks)
        BY DEF EntryIn
      <3> QED
        BY <1>13, <2>2, <3>1, FinishTaskStorage DEF UploadPackerFails, TypeOK, StorageInv
    <2> QED BY <2>1, <2>2
  <1>14. CASE Finalize
    <2>1. JournalIn(mem', chunks)
      BY <1>14, FinalizeItemsIn DEF Finalize, TypeOK, StorageInv
    <2> QED
      BY <1>14, <2>1, PlayStorage DEF Finalize, Goto, StorageInv, PlayPlaces
  <1>15. CASE WriteIndexFile
    <2>1. IndexIn(IndexFileOf(mem), chunks)
      BY IndexFileOfIn DEF StorageInv
    <2>2. \A t \in Times : index'[t] # None => IndexIn(index'[t], chunks')
      BY <1>15, <2>1 DEF WriteIndexFile, TypeOK, StorageInv
    <2> QED
      BY <1>15, <2>2 DEF WriteIndexFile, Goto, StorageInv, GCPlaces, CancelPlaces
  <1>16. CASE WriteIndexFileFails
    BY <1>16, PlayStorage DEF WriteIndexFileFails, Goto, StorageInv, PlayPlaces
  <1>17. CASE WipeJournal
    <2>1. JournalIn(WipeBackupJournal(mem), chunks)
      BY DEF TypeOK, DB, WipeBackupJournal, JournalIn
    <2> QED
      BY <1>17, <2>1, LeaveStorage DEF WipeJournal
  <1>18. CASE GetPrevSnapshotFails
    BY <1>18, LeaveStorage DEF GetPrevSnapshotFails, StorageInv
  <1>19. CASE PersistWhileUploading
    BY <1>19, PlayStorage DEF PersistWhileUploading, StorageInv, PlayPlaces
  <1> QED
    BY <1>1, <1>2, <1>3, <1>4, <1>5, <1>6, <1>7, <1>8, <1>9, <1>10, <1>11, <1>12,
       <1>13, <1>14, <1>15, <1>16, <1>17, <1>18, <1>19
    DEF Play, PlayFails

\* Back to the daemon's RPC, or on to the undoing of the journal.
LEMMA AfterDeletionStorage ==
  ASSUME StorageInv, pc \in GCPlaces, AfterDeletion, UNCHANGED <<file, bucket>>
  PROVE  StorageInv'
  <1>1. CASE op = "delete"
    <2>1. JournalIn(file', chunks)
      BY <1>1, EmptyJournalIn DEF StorageInv
    <2> QED
      BY <1>1, <2>1, LeaveStorage DEF AfterDeletion
  <1>2. CASE op # "delete"
    <2>1. pc' = "Reset" /\ UNCHANGED <<chunks, index, file, mem, prev, parts, op>>
      BY <1>2 DEF AfterDeletion, Goto, bucket, local
    <2>2. op = "rollback" /\ NoBackup /\ Undoing'
      BY <1>2, <2>1 DEF StorageInv, Undoing, CancelPlaces
    <2> QED
      BY <2>1, <2>2 DEF StorageInv, NoBackup, GCPlaces, CancelPlaces
  <1> QED BY <1>1, <1>2

LEMMA DeletionStorage ==
  TypeOK /\ StorageInv /\ (Deletion \/ DeletionFails) => StorageInv'
  <1> SUFFICES ASSUME TypeOK, StorageInv, Deletion \/ DeletionFails
               PROVE  StorageInv'
    OBVIOUS
  <1>1. CASE DeleteIndexObj
    <2>1. /\ pc = "DeleteIndex" /\ pc' \in {"GCList", "DeleteIndex"}
          /\ UNCHANGED <<chunks, file, mem, prev, parts, op, retry>>
      BY <1>1 DEF DeleteIndexObj, Goto, local
    <2>2. \A t \in Times : index'[t] # None => index'[t] = index[t]
      BY <1>1 DEF DeleteIndexObj, TypeOK
    <2>3. CASE op = "delete"
      BY <2>1, <2>2, <2>3 DEF StorageInv, Undoing, NoBackup, GCPlaces, CancelPlaces
    <2>4. CASE op # "delete"
      <3>1. JournalIn(file, chunks)
        BY <2>1 DEF StorageInv, Undoing, CancelPlaces
      <3> QED
        BY <2>1, <2>2, <2>4, <3>1 DEF StorageInv, NoBackup, GCPlaces, CancelPlaces
    <2> QED BY <2>3, <2>4
  <1>2. CASE ListOrphans
    <2>1. victims' \cap ReferencedChunks' = {}
      BY <1>2 DEF ListOrphans, ReferencedChunks, bucket
    <2>2. /\ pc = "GCList" /\ pc' = "GCDelete"
          /\ UNCHANGED <<chunks, index, file, mem, prev, parts, op, retry>>
      BY <1>2 DEF ListOrphans, Goto, bucket, local
    <2>3. JournalIn(file, chunks) \/ Undoing'
      BY <2>2 DEF StorageInv, Undoing
    <2> QED
      BY <2>1, <2>2, <2>3 DEF StorageInv, NoBackup, GCPlaces, CancelPlaces
  <1>3. CASE DeleteOrphan
    <2>1. PICK c \in victims : chunks' = chunks \ {c} /\ victims' = victims \ {c}
      BY <1>3 DEF DeleteOrphan
    <2>2. c \notin ReferencedChunks
      BY <1>3, <2>1 DEF DeleteOrphan, StorageInv
    <2>3. ReferencedChunks \subseteq chunks'
      BY <2>1, <2>2, ReferencedFromIndex DEF StorageInv
    <2>4. \A t \in Times : index[t] # None => IndexIn(index[t], chunks')
      BY <2>3, ReferencedFromIndex
    <2>5. /\ pc = "GCDelete" /\ pc' = pc
          /\ UNCHANGED <<index, file, mem, prev, parts, op, retry>>
      BY <1>3 DEF DeleteOrphan, local
    <2>6. ReferencedChunks' = ReferencedChunks
      BY <2>5 DEF ReferencedChunks
    <2>7. NoBackup /\ NoBackup' /\ op \in {"delete", "rollback"}
      BY <2>5 DEF StorageInv, NoBackup, GCPlaces
    <2>8. JournalIn(mem', chunks') /\ (op = "delete" => JournalIn(file', chunks'))
      BY <2>5, <2>7, EmptyJournalIn DEF StorageInv, NoBackup, GCPlaces
    <2>9. op # "delete" => Undoing'
      BY <2>5, <2>7 DEF Undoing
    <2> QED
      BY <2>1, <2>4, <2>5, <2>6, <2>7, <2>8, <2>9
      DEF StorageInv, NoBackup, GCPlaces, CancelPlaces
  <1>4. CASE OrphansDeleted
    BY <1>4, AfterDeletionStorage DEF OrphansDeleted, GCPlaces
  <1>5. CASE DeletionFails /\ AfterDeletion
    BY <1>5, AfterDeletionStorage DEF DeletionFails, GCPlaces
  <1>6. CASE DeletionFails /\ ~AfterDeletion
    <2>1. /\ pc \in GCPlaces /\ retry /\ ~retry' /\ pc' = "GCList"
          /\ UNCHANGED <<chunks, index, file, mem, prev, parts, op>>
      BY <1>6 DEF DeletionFails, Goto, bucket, local
    <2>2. op = "rollback" /\ NoBackup /\ Undoing'
      BY <2>1 DEF StorageInv, Undoing
    <2> QED
      BY <2>1, <2>2 DEF StorageInv, NoBackup, GCPlaces, CancelPlaces
  <1>7. CASE ResetTimes \/ CleanupInfos
    <2>1. /\ pc \in CancelPlaces /\ pc' \in {"Cleanup", "CleanupRows"}
          /\ UNCHANGED <<chunks, index, mem, prev, parts, op>>
      BY <1>7 DEF ResetTimes, CleanupInfos, Goto, bucket, local, cleanup, CancelPlaces
    <2>2. op = "rollback" /\ NoBackup /\ Undoing'
      BY <2>1 DEF StorageInv, Undoing, GCPlaces, CancelPlaces
    <2> QED
      BY <2>1, <2>2 DEF StorageInv, NoBackup, GCPlaces, CancelPlaces
  <1>8. CASE CleanupJournal
    <2>1. op = "rollback"
      BY <1>8 DEF CleanupJournal, StorageInv, GCPlaces, CancelPlaces
    <2>2. JournalIn(file', chunks)
      BY <1>8 DEF CleanupJournal, TypeOK, DB, WipeBackupJournal, JournalIn
    <2> QED
      BY <1>8, <2>1, <2>2, LeaveStorage DEF CleanupJournal
  <1>9. CASE CancelReturn
    BY <1>9, LeaveStorage DEF CancelReturn, StorageInv
  <1> QED
    BY <1>1, <1>2, <1>3, <1>4, <1>5, <1>6, <1>7, <1>8, <1>9 DEF Deletion

-----------------------------------------------------------------------------

\* StorageInv is an inductive invariant of every environment in which a journal
\* whose chunks were collected is never played.
THEOREM StorageInvariant ==
  ASSUME CollectedIsForgotten
  PROVE  Spec => []StorageInv
  <1>1. Init => StorageInv
    BY DEF Init, StorageInv, NoBackup, EmptyDB, JournalIn, GCPlaces, CancelPlaces
  <1>2. TypeOK /\ StorageInv /\ [Next]_vars => StorageInv'
    <2> SUFFICES ASSUME TypeOK, StorageInv, [Next]_vars PROVE StorageInv' OBVIOUS
    <2>1. CASE Next
      BY <2>1, MachineStorage, StartStorage, PlayStepsStorage, DeletionStorage DEF Next
    <2>2. CASE UNCHANGED vars
      BY <2>2
      DEF vars, bucket, local, cleanup, StorageInv, Undoing, NoBackup, ReferencedChunks
    <2> QED BY <2>1, <2>2
  <1> QED
    BY <1>1, <1>2, TypeCorrect, PTL DEF Spec

\* Whatever crashes, replays, failing uploads and listings, unreadable files,
\* edits, forced full backups, rollbacks and snapshot deletions come in whatever
\* order, no index object refers to a chunk that GCChunks deleted or that was
\* never uploaded, as long as no backup is canceled, no rollback is cut off by a
\* crash and no snapshot is deleted while a journal is pending.
THEOREM NoSnapshotDangles ==
  ASSUME CollectedIsForgotten
  PROVE  Spec => []NoDangling
  <1>1. StorageInv => NoDangling
    BY ReferencedFromIndex DEF StorageInv, NoDangling
  <1> QED
    BY <1>1, StorageInvariant, PTL


-----------------------------------------------------------------------------
(* Databases, files and snapshots *)

Files == [Paths -> FileState]
IndexObjects == [Times -> IndexFile \cup {None}]

\* The rows of new are those of old, but for status and entry.
SameRows(new, old) ==
    /\ new.infos = old.infos
    /\ new.seq = old.seq
    /\ \A r \in old.journal : \E q \in new.journal :
         q.info = r.info /\ q.path = r.path /\ q.change = r.change
    /\ \A q \in new.journal : \E r \in old.journal :
         q.info = r.info /\ q.path = r.path /\ q.change = r.change
    /\ OneRowPerPath(new)

-----------------------------------------------------------------------------
(* Rewriting rows, with whatever becomes of last_backup.                   *)

LEMMA SameTimes ==
  ASSUME NEW new, NEW old, SameRows(new, old)
  PROVE  JournaledInfos(new) = JournaledInfos(old) /\ JournalTimes(new) = JournalTimes(old)
  <1>1. JournaledInfos(new) = JournaledInfos(old)
    BY DEF SameRows, JournaledInfos
  <1> QED
    BY <1>1 DEF JournalTimes

LEMMA BaseFromTimes ==
  ASSUME NEW new, NEW old, NEW p, NEW f, NEW ix,
         JournalTimes(new) = JournalTimes(old)
  PROVE  BaseLists(new, p, f, ix) = BaseLists(old, p, f, ix)
  <1>1. Earlier(new, ix) = Earlier(old, ix)
    BY DEF Earlier
  <1> QED
    BY <1>1 DEF BaseLists

LEMMA RewriteSound ==
  ASSUME NEW new \in DB, NEW old \in DB, NEW f, NEW ix, NEW n,
         DbSound(old, f, ix, n),
         SameRows(new, old),
         \A p \in Paths : HasDirEnt(new, p) => HasDirEnt(old, p),
         \A q \in new.journal : RowSound(new, q, f),
         \A p \in Paths : TakenForUnchanged(new, p, f) =>
             \/ BaseLists(old, p, f, ix)
             \/ \E r \in new.journal : r.path = p /\ r.status = "Finished"
  PROVE  DbSound(new, f, ix, n)
  <1>1. JournalTimes(new) = JournalTimes(old)
    BY SameTimes
  <1>2. JournalShape(new, ix, n)
    BY <1>1 DEF DbSound, JournalShape, SameRows
  <1>3. ASSUME NEW q \in new.journal PROVE RowRests(new, q, f, ix)
    <2>1. PICK r \in old.journal : q.info = r.info /\ q.path = r.path /\ q.change = r.change
      BY DEF SameRows
    <2>2. RowRests(old, r, f, ix)
      BY DEF DbSound
    <2>3. BaseLists(new, q.path, f, ix) = BaseLists(old, r.path, f, ix)
      BY <1>1, <2>1, BaseFromTimes
    <2> QED
      BY <1>1, <2>1, <2>2, <2>3 DEF RowRests
  <1>4. ASSUME NEW p \in Paths PROVE PathSound(new, p, f, ix)
    <2>1. PathSound(old, p, f, ix)
      BY DEF DbSound
    <2>2. BaseLists(new, p, f, ix) = BaseLists(old, p, f, ix)
      BY <1>1, BaseFromTimes
    <2>3. ASSUME new.journal # {},
                 HasDirEnt(new, p) \/ ("readError" \notin Allowed /\ f[p].exists)
          PROVE  \E r \in new.journal : r.path = p
      <3>1. old.journal # {}
        BY <2>3 DEF SameRows
      <3>2. PICK r \in old.journal : r.path = p
        BY <2>1, <2>3, <3>1 DEF PathSound
      <3> QED
        BY <3>2 DEF SameRows
    <2> QED
      BY <2>2, <2>3 DEF PathSound
  <1> QED
    BY <1>2, <1>3, <1>4 DEF DbSound

\* What SetRow does, when the row is there and its path has one row only.
LEMMA SetRowRows ==
  ASSUME NEW db \in DB, NEW t, NEW status, NEW entry, OneRowPerPath(db)
  PROVE  LET new == SetRow(db, t, status, entry)
         IN  /\ SameRows(new, db)
             /\ new.dirents = db.dirents
             /\ \A q \in new.journal :
                  \/ q \in db.journal /\ ~IsRow(q, t)
                  \/ /\ IsRow(q, t) /\ q.status = status /\ q.entry = entry
                     /\ \E r \in db.journal : /\ IsRow(r, t)
                                              /\ q.change = r.change
             /\ \A r \in db.journal : ~IsRow(r, t) => r \in new.journal
             /\ \A r \in db.journal : IsRow(r, t) =>
                  \E q \in new.journal : /\ IsRow(q, t) /\ q.change = r.change
                                         /\ q.status = status /\ q.entry = entry
  <1> DEFINE G(r) == IF IsRow(r, t) THEN [r EXCEPT !.status = status, !.entry = entry] ELSE r
             new == SetRow(db, t, status, entry)
  <1>1. /\ new.journal = {G(r) : r \in db.journal}
        /\ new.infos = db.infos /\ new.seq = db.seq /\ new.dirents = db.dirents
    BY DEF SetRow, DB
  <1>2. ASSUME NEW r \in db.journal
        PROVE  /\ G(r).info = r.info /\ G(r).path = r.path /\ G(r).change = r.change
               /\ IsRow(r, t) => G(r).status = status /\ G(r).entry = entry
               /\ IsRow(G(r), t) <=> IsRow(r, t)
               /\ ~IsRow(r, t) => G(r) = r
    <2>1. r \in JournalRow
      BY DBParts
    <2> QED
      BY <2>1 DEF JournalRow, IsRow
  <1> HIDE DEF G, new
  <1>3. OneRowPerPath(new)
    BY <1>1, <1>2 DEF OneRowPerPath
  <1>4. SameRows(new, db)
    BY <1>1, <1>2, <1>3 DEF SameRows
  <1>5. \A q \in new.journal :
          \/ q \in db.journal /\ ~IsRow(q, t)
          \/ /\ IsRow(q, t) /\ q.status = status /\ q.entry = entry
             /\ \E r \in db.journal : IsRow(r, t) /\ q.change = r.change
    BY <1>1, <1>2
  <1>6. \A r \in db.journal : ~IsRow(r, t) => r \in new.journal
    BY <1>1, <1>2
  <1>7. \A r \in db.journal : IsRow(r, t) =>
          \E q \in new.journal : /\ IsRow(q, t) /\ q.change = r.change
                                 /\ q.status = status /\ q.entry = entry
    BY <1>1, <1>2
  <1> QED
    BY <1>1, <1>4, <1>5, <1>6, <1>7 DEF new

\* Without a change of last_backup a row says of its path what it said.
LEMMA SameDirents ==
  ASSUME NEW new, NEW old, new.dirents = old.dirents, NEW f
  PROVE  /\ \A p : HasDirEnt(new, p) = HasDirEnt(old, p)
         /\ \A p : TakenForUnchanged(new, p, f) = TakenForUnchanged(old, p, f)
         /\ \A r : RowSound(new, r, f) = RowSound(old, r, f)
  BY DEF HasDirEnt, TakenForUnchanged, RowSound

LEMMA ClaimSound ==
  ASSUME NEW db \in DB, NEW f, NEW ix, NEW n, DbSound(db, f, ix, n),
         NEW t \in db.journal, t.status = "Unstarted"
  PROVE  DbSound(ClaimBackupJournalTask(db, t), f, ix, n)
  <1> DEFINE new == SetRow(db, t, "InProgress", t.entry)
  <1>1. t \in JournalRow /\ new \in DB
    BY DBParts, ClaimBackupJournalTaskType DEF ClaimBackupJournalTask
  <1>2. OneRowPerPath(db)
    BY DEF DbSound, JournalShape
  <1>3. /\ SameRows(new, db)
        /\ new.dirents = db.dirents
        /\ \A q \in new.journal :
             \/ q \in db.journal /\ ~IsRow(q, t)
             \/ /\ IsRow(q, t) /\ q.status = "InProgress" /\ q.entry = t.entry
                /\ \E r \in db.journal : IsRow(r, t) /\ q.change = r.change
        /\ \A r \in db.journal : ~IsRow(r, t) => r \in new.journal
    BY <1>2, SetRowRows
  <1> HIDE DEF new
  <1>4. ASSUME NEW q \in new.journal PROVE RowSound(new, q, f)
    <2>1. CASE q \in db.journal
      BY <1>3, <2>1, SameDirents DEF DbSound
    <2>2. CASE q \notin db.journal
      <3>1. IsRow(q, t) /\ q.status = "InProgress" /\ q.entry = t.entry /\ q.change = t.change
        BY <1>2, <1>3, <2>2 DEF IsRow, OneRowPerPath
      <3>2. RowSound(new, t, f)
        BY <1>3, SameDirents DEF DbSound
      <3> QED
        BY <3>1, <3>2 DEF RowSound, IsRow
    <2> QED BY <2>1, <2>2
  <1>5. ASSUME NEW p \in Paths, TakenForUnchanged(new, p, f)
        PROVE  \/ BaseLists(db, p, f, ix)
               \/ \E r \in new.journal : r.path = p /\ r.status = "Finished"
    <2>1. PathSound(db, p, f, ix) /\ TakenForUnchanged(db, p, f)
      BY <1>3, <1>5, SameDirents DEF DbSound
    <2>2. ASSUME NEW r \in db.journal, r.path = p, r.status = "Finished"
          PROVE  r \in new.journal
      BY <1>2, <1>3, <2>2 DEF IsRow, OneRowPerPath
    <2> QED BY <2>1, <2>2 DEF PathSound
  <1>6. DbSound(new, f, ix, n)
    BY <1>1, <1>3, <1>4, <1>5, SameDirents, RewriteSound
  <1> QED
    BY <1>6 DEF new, ClaimBackupJournalTask

\* A task is completed after last_backup of its path, and of no other, was set.
LEMMA CompleteSound ==
  ASSUME NEW db \in DB, NEW f, NEW ix, NEW n, DbSound(db, f, ix, n),
         NEW t, NEW row \in db.journal, IsRow(row, t), NEW entry \in Entries,
         NEW mid \in DB,
         mid.journal = db.journal, mid.infos = db.infos, mid.seq = db.seq,
         \A p \in Paths : p # t.path => mid.dirents[p] = db.dirents[p],
         HasDirEnt(mid, t.path) => HasDirEnt(db, t.path),
         row.change = "Deleted" => entry = NoEntry,
         row.change # "Deleted" => HasDirEnt(mid, t.path),
         row.change = "Unchanged" => ListsPresent(entry, t.path, f),
         TakenForUnchanged(mid, t.path, f) => ListsPresent(entry, t.path, f),
         "readError" \notin Allowed /\ row.change = "Updated" =>
             ListsPresent(entry, t.path, f)
  PROVE  DbSound(CompleteBackupJournalTask(mid, t, entry), f, ix, n)
  <1> DEFINE new == SetRow(mid, t, "Finished", entry)
  <1>1. new \in DB
    BY CompleteBackupJournalTaskType DEF CompleteBackupJournalTask
  <1>2. OneRowPerPath(db) /\ OneRowPerPath(mid)
    BY DEF DbSound, JournalShape, OneRowPerPath
  <1>3. /\ SameRows(new, mid)
        /\ new.dirents = mid.dirents
        /\ \A q \in new.journal :
             \/ q \in mid.journal /\ ~IsRow(q, t)
             \/ /\ IsRow(q, t) /\ q.status = "Finished" /\ q.entry = entry
                /\ \E r \in mid.journal : IsRow(r, t) /\ q.change = r.change
        /\ \A r \in mid.journal : ~IsRow(r, t) => r \in new.journal
        /\ \A r \in mid.journal : IsRow(r, t) =>
             \E q \in new.journal : /\ IsRow(q, t) /\ q.change = r.change
                                    /\ q.status = "Finished" /\ q.entry = entry
    BY <1>2, SetRowRows
  <1> HIDE DEF new
  <1>4. SameRows(new, db)
    BY <1>3 DEF SameRows
  <1>5. \A p \in Paths : HasDirEnt(new, p) => HasDirEnt(db, p)
    BY <1>3 DEF HasDirEnt
  <1>6. ASSUME NEW q \in new.journal PROVE RowSound(new, q, f)
    <2>1. CASE q \in db.journal /\ ~IsRow(q, t)
      <3>1. q.path # t.path /\ q.path \in Paths
        BY <1>2, <2>1, DBParts DEF IsRow, OneRowPerPath, JournalRow
      <3>2. new.dirents[q.path] = db.dirents[q.path]
        BY <1>3, <3>1
      <3>3. RowSound(db, q, f)
        BY <2>1 DEF DbSound
      <3> QED
        BY <3>2, <3>3 DEF RowSound, HasDirEnt, TakenForUnchanged
    <2>2. CASE ~(q \in db.journal /\ ~IsRow(q, t))
      <3>1. IsRow(q, t) /\ q.status = "Finished" /\ q.entry = entry /\ q.change = row.change
        BY <1>2, <1>3, <2>2 DEF IsRow, OneRowPerPath
      <3>2. RowSound(db, row, f)
        BY DEF DbSound
      <3>3. new.dirents = mid.dirents
        BY <1>3
      <3> QED
        BY <3>1, <3>2, <3>3, SameDirents DEF RowSound, IsRow
    <2> QED BY <2>1, <2>2
  <1>7. ASSUME NEW p \in Paths, TakenForUnchanged(new, p, f)
        PROVE  \/ BaseLists(db, p, f, ix)
               \/ \E r \in new.journal : r.path = p /\ r.status = "Finished"
    <2>1. CASE p = t.path
      BY <1>3, <2>1 DEF IsRow
    <2>2. CASE p # t.path
      <3>1. TakenForUnchanged(db, p, f)
        BY <1>3, <1>7, <2>2 DEF TakenForUnchanged, HasDirEnt
      <3>2. PathSound(db, p, f, ix)
        BY DEF DbSound
      <3> QED
        BY <1>3, <2>2, <3>1, <3>2 DEF PathSound, IsRow
    <2> QED BY <2>1, <2>2
  <1>8. DbSound(new, f, ix, n)
    BY <1>1, <1>4, <1>5, <1>6, <1>7, RewriteSound
  <1> QED
    BY <1>8 DEF new, CompleteBackupJournalTask

LEMMA UpdateLastBackupTimeParts ==
  ASSUME NEW db \in DB, NEW p \in Paths, NEW t \in Nat
  PROVE  LET mid == UpdateLastBackupTime(db, p, t)
         IN  /\ mid.journal = db.journal /\ mid.infos = db.infos /\ mid.seq = db.seq
             /\ \A q \in Paths : q # p => mid.dirents[q] = db.dirents[q]
             /\ HasDirEnt(mid, p) <=> HasDirEnt(db, p)
  BY DEF UpdateLastBackupTime, HasDirEnt, DB, NotKnown

\* A file that has been read, or is unchanged, and its entry.
LEMMA FinishSound ==
  ASSUME NEW db \in DB, NEW f, NEW ix, NEW n \in Nat, DbSound(db, f, ix, n),
         NEW t, t.path \in Paths,
         NEW row \in db.journal, IsRow(row, t), row.change # "Deleted",
         NEW entry \in Entries, ListsPresent(entry, t.path, f)
  PROVE  DbSound(CompleteBackupJournalTask(UpdateLastBackupTime(db, t.path, n), t, entry),
                 f, ix, n)
  <1> DEFINE mid == UpdateLastBackupTime(db, t.path, n)
  <1>1. mid \in DB
    BY UpdateLastBackupTimeType
  <1>2. /\ mid.journal = db.journal /\ mid.infos = db.infos /\ mid.seq = db.seq
        /\ \A q \in Paths : q # t.path => mid.dirents[q] = db.dirents[q]
        /\ HasDirEnt(mid, t.path) <=> HasDirEnt(db, t.path)
    BY UpdateLastBackupTimeParts
  <1>3. HasDirEnt(db, t.path)
    BY DEF DbSound, RowSound, IsRow
  <1> HIDE DEF mid
  <1>4. DbSound(CompleteBackupJournalTask(mid, t, entry), f, ix, n)
    BY <1>1, <1>2, <1>3, CompleteSound
  <1> QED
    BY <1>4 DEF mid

\* A path that is gone loses its row in dirents.
LEMMA FinishDeletedSound ==
  ASSUME NEW db \in DB, NEW f, NEW ix, NEW n \in Nat, DbSound(db, f, ix, n),
         NEW t, t.path \in Paths,
         NEW row \in db.journal, IsRow(row, t), row.change = "Deleted"
  PROVE  DbSound(CompleteBackupJournalTask(
                     UpdateLastBackupTime(DeleteDirEntByPath(db, t.path), t.path, n),
                     t, NoEntry), f, ix, n)
  <1> DEFINE mid == UpdateLastBackupTime(DeleteDirEntByPath(db, t.path), t.path, n)
  <1>1. mid \in DB
    BY UpdateLastBackupTimeType, DeleteDirEntByPathType
  <1>2. /\ mid.journal = db.journal /\ mid.infos = db.infos /\ mid.seq = db.seq
        /\ \A q \in Paths : q # t.path => mid.dirents[q] = db.dirents[q]
        /\ ~HasDirEnt(mid, t.path)
    BY DEF UpdateLastBackupTime, DeleteDirEntByPath, HasDirEnt, DB, NotKnown
  <1>3. NoEntry \in Entries
    BY DEF Entries
  <1> HIDE DEF mid
  <1>4. ~TakenForUnchanged(mid, t.path, f)
    BY <1>2 DEF TakenForUnchanged
  <1>5. DbSound(CompleteBackupJournalTask(mid, t, NoEntry), f, ix, n)
    BY <1>1, <1>2, <1>3, <1>4, CompleteSound
  <1> QED
    BY <1>5 DEF mid

\* A file that could not be read is completed without an entry and stays due.
LEMMA FailSound ==
  ASSUME NEW db \in DB, NEW f, NEW ix, NEW n, DbSound(db, f, ix, n),
         NEW t, t.path \in Paths,
         NEW row \in db.journal, IsRow(row, t),
         row.change = "Updated", row.status = "InProgress",
         "readError" \in Allowed
  PROVE  DbSound(CompleteBackupJournalTask(db, t, NoEntry), f, ix, n)
  <1>1. RowSound(db, row, f)
    BY DEF DbSound
  <1>2. ~TakenForUnchanged(db, t.path, f) /\ HasDirEnt(db, t.path)
    BY <1>1 DEF RowSound, IsRow
  <1>3. NoEntry \in Entries
    BY DEF Entries
  <1> QED
    BY <1>2, <1>3, CompleteSound

\* chunkPacker.Complete: every item that was packed, for the row it settles.
LEMMA FinalizeRows ==
  ASSUME NEW db \in DB, NEW items \in SUBSET Item, NEW chunk \in Nat, NEW t \in Nat,
         OneRowPerPath(db)
  PROVE  LET new == FinalizeItems(db, items, chunk, t)
         IN  /\ SameRows(new, db)
             /\ \A p \in Paths : ~(\E i \in items : i.path = p) => new.dirents[p] = db.dirents[p]
             /\ \A p \in Paths : HasDirEnt(new, p) <=> HasDirEnt(db, p)
             /\ \A q \in new.journal :
                  \/ q \in db.journal /\ ~\E i \in items : IsRow(q, i)
                  \/ /\ q.status = "Finished"
                     /\ \E i \in items : IsRow(q, i)
                     /\ q.entry = {[chunk |-> chunk, part |-> 1, ver |-> i.ver] :
                                     i \in {j \in items : IsRow(q, j)}}
             /\ \A r \in db.journal : (\E i \in items : IsRow(r, i)) \/ r \in new.journal
  <1> DEFINE own(r) == {i \in items : IsRow(r, i)}
             entry(r) == {[chunk |-> chunk, part |-> 1, ver |-> i.ver] : i \in own(r)}
             G(r) == IF own(r) = {} THEN r
                     ELSE [r EXCEPT !.status = "Finished", !.entry = entry(r)]
             D == [p \in Paths |-> IF HasDirEnt(db, p) /\ \E i \in items : i.path = p
                                   THEN t ELSE db.dirents[p]]
             new == FinalizeItems(db, items, chunk, t)
  <1>1. /\ new.journal = {G(r) : r \in db.journal}
        /\ new.infos = db.infos /\ new.seq = db.seq /\ new.dirents = D
    BY DEF FinalizeItems, DB
  <1>2. ASSUME NEW r \in db.journal
        PROVE  /\ G(r).info = r.info /\ G(r).path = r.path /\ G(r).change = r.change
               /\ own(G(r)) = own(r)
               /\ own(r) = {} => G(r) = r
               /\ own(r) # {} => G(r).status = "Finished" /\ G(r).entry = entry(r)
    <2>1. r \in JournalRow
      BY DBParts
    <2>2. G(r).info = r.info /\ G(r).path = r.path /\ G(r).change = r.change
      <3> HIDE DEF own, entry
      <3> QED BY <2>1 DEF JournalRow
    <2>3. own(G(r)) = own(r)
      BY <2>2 DEF IsRow
    <2>4. own(r) # {} => G(r).status = "Finished" /\ G(r).entry = entry(r)
      <3> HIDE DEF own, entry
      <3> QED BY <2>1 DEF JournalRow
    <2> QED BY <2>2, <2>3, <2>4
  <1>3. \A p \in Paths : /\ ~(\E i \in items : i.path = p) => D[p] = db.dirents[p]
                         /\ D[p] # NotKnown <=> db.dirents[p] # NotKnown
    BY DEF HasDirEnt, NotKnown
  <1> HIDE DEF G, new, D
  <1>4. OneRowPerPath(new)
    BY <1>1, <1>2 DEF OneRowPerPath
  <1>5. SameRows(new, db)
    BY <1>1, <1>2, <1>4 DEF SameRows
  <1>6. ASSUME NEW q \in new.journal
        PROVE  \/ q \in db.journal /\ own(q) = {}
               \/ q.status = "Finished" /\ own(q) # {} /\ q.entry = entry(q)
    <2>1. PICK r \in db.journal : q = G(r)
      BY <1>1
    <2> QED BY <1>2, <2>1
  <1>7. \A r \in db.journal : own(r) # {} \/ r \in new.journal
    BY <1>1, <1>2
  <1> QED
    BY <1>1, <1>3, <1>5, <1>6, <1>7 DEF new, HasDirEnt

LEMMA FinalizeSettles ==
  ASSUME NEW db \in DB, NEW items \in SUBSET Item, NEW chunk \in Nat, NEW t \in Nat,
         OneRowPerPath(db)
  PROVE  /\ SameRows(FinalizeItems(db, items, chunk, t), db)
         /\ \A q \in FinalizeItems(db, items, chunk, t).journal :
              \/ q \in db.journal /\ ~\E i \in items : IsRow(q, i)
              \/ q.status = "Finished"
  <1> DEFINE new == FinalizeItems(db, items, chunk, t)
  <1>1. /\ SameRows(new, db)
        /\ \A p \in Paths : ~(\E i \in items : i.path = p) => new.dirents[p] = db.dirents[p]
        /\ \A p \in Paths : HasDirEnt(new, p) <=> HasDirEnt(db, p)
        /\ \A q \in new.journal :
             \/ q \in db.journal /\ ~\E i \in items : IsRow(q, i)
             \/ /\ q.status = "Finished"
                /\ \E i \in items : IsRow(q, i)
                /\ q.entry = {[chunk |-> chunk, part |-> 1, ver |-> i.ver] :
                                i \in {j \in items : IsRow(q, j)}}
        /\ \A r \in db.journal : (\E i \in items : IsRow(r, i)) \/ r \in new.journal
    BY FinalizeRows
  <1> HIDE DEF new
  <1>2. /\ SameRows(new, db)
        /\ \A q \in new.journal :
             \/ q \in db.journal /\ ~\E i \in items : IsRow(q, i)
             \/ q.status = "Finished"
    BY <1>1
  <1> QED BY <1>2 DEF new

LEMMA FinalizeSound ==
  ASSUME NullsDistinct,
         NEW db \in DB, NEW f \in Files, NEW ix, NEW n \in Nat, DbSound(db, f, ix, n),
         NEW items \in SUBSET Item, NEW chunk \in Nat,
         \A i \in items : /\ i.path \notin LargePaths /\ i.ver = f[i.path].ver
                          /\ \E r \in db.journal : IsRow(r, i) /\ r.change = "Updated"
  PROVE  DbSound(FinalizeItems(db, items, chunk, n), f, ix, n)
  <1> DEFINE new == FinalizeItems(db, items, chunk, n)
  <1>1. new \in DB
    BY FinalizeItemsType
  <1>2. OneRowPerPath(db)
    BY DEF DbSound, JournalShape
  <1>3. /\ SameRows(new, db)
        /\ \A p \in Paths : ~(\E i \in items : i.path = p) => new.dirents[p] = db.dirents[p]
        /\ \A p \in Paths : HasDirEnt(new, p) <=> HasDirEnt(db, p)
        /\ \A q \in new.journal :
             \/ q \in db.journal /\ ~\E i \in items : IsRow(q, i)
             \/ /\ q.status = "Finished"
                /\ \E i \in items : IsRow(q, i)
                /\ q.entry = {[chunk |-> chunk, part |-> 1, ver |-> i.ver] :
                                i \in {j \in items : IsRow(q, j)}}
        /\ \A r \in db.journal : (\E i \in items : IsRow(r, i)) \/ r \in new.journal
    BY <1>2, FinalizeRows
  <1> HIDE DEF new
  <1>4. ASSUME NEW q \in new.journal, NEW i \in items, IsRow(q, i)
        PROVE  /\ q.change = "Updated" /\ q.status = "Finished"
               /\ ListsPresent(q.entry, q.path, f)
    <2>1. PICK r \in db.journal : IsRow(r, i) /\ r.change = "Updated"
      OBVIOUS
    <2>2. q.status = "Finished" /\ q.change = "Updated"
      <3>1. PICK s \in db.journal : q.path = s.path /\ q.change = s.change
        BY <1>3 DEF SameRows
      <3>2. s = r
        BY <1>2, <1>4, <2>1, <3>1 DEF OneRowPerPath, IsRow
      <3> QED BY <1>3, <1>4, <2>1, <3>1, <3>2
    <2> DEFINE own == {j \in items : IsRow(q, j)}
               ext(j) == [chunk |-> chunk, part |-> 1, ver |-> j.ver]
    <2>3. q.entry = {ext(j) : j \in own}
      BY <1>3, <1>4
    <2>4. ASSUME NEW j \in own
          PROVE  j.path = q.path /\ j.ver = f[q.path].ver /\ ext(j) \in Extent
      BY DEF IsRow, Item, Extent
    <2>5. i \in own
      BY <1>4
    <2>6. q.entry # NoEntry
      BY <2>3, <2>4 DEF NullsDistinct
    <2>7. PartsOf(q.path) = 1 /\ 1..1 = {1}
      BY <1>4 DEF PartsOf, IsRow
    <2>8. {e.part : e \in q.entry} = {1}
      <3>1. \A e \in q.entry : e.part = 1
        BY <2>3
      <3>2. ext(i) \in q.entry
        BY <2>3, <2>5
      <3>3. \A x : x \in {e.part : e \in q.entry} <=> x = 1
        BY <3>1, <3>2
      <3> QED BY <3>3
    <2>9. \A e \in q.entry : e.ver = f[q.path].ver
      BY <2>3, <2>4
    <2> QED
      BY <2>2, <2>6, <2>7, <2>8, <2>9 DEF ListsPresent, Lists
  <1>5. ASSUME NEW q \in new.journal PROVE RowSound(new, q, f)
    <2>0. q \in JournalRow
      BY <1>1, DBParts
    <2>1. CASE \E i \in items : IsRow(q, i)
      <3>1. /\ q.change = "Updated" /\ q.status = "Finished"
            /\ ListsPresent(q.entry, q.path, f)
        BY <1>4, <2>1
      <3>2. PICK r \in db.journal : q.path = r.path /\ q.change = r.change
        BY <1>3 DEF SameRows
      <3>3. RowSound(db, r, f)
        BY DEF DbSound
      <3> QED
        BY <1>3, <2>0, <3>1, <3>2, <3>3 DEF RowSound, JournalRow
    <2>2. CASE ~\E i \in items : IsRow(q, i)
      <3>1. q \in db.journal
        BY <1>3, <2>2
      <3>2. ~\E i \in items : i.path = q.path
        BY <1>2, <2>2, <3>1 DEF OneRowPerPath, IsRow
      <3>3. new.dirents[q.path] = db.dirents[q.path]
        BY <1>3, <2>0, <3>2 DEF JournalRow
      <3>4. RowSound(db, q, f)
        BY <3>1 DEF DbSound
      <3> QED
        BY <3>3, <3>4 DEF RowSound, HasDirEnt, TakenForUnchanged
    <2> QED BY <2>1, <2>2
  <1>6. ASSUME NEW p \in Paths, TakenForUnchanged(new, p, f)
        PROVE  \/ BaseLists(db, p, f, ix)
               \/ \E r \in new.journal : r.path = p /\ r.status = "Finished"
    <2>1. CASE \E i \in items : i.path = p
      <3>1. PICK i \in items : i.path = p
        BY <2>1
      <3>2. PICK r \in db.journal : IsRow(r, i)
        OBVIOUS
      <3>3. PICK q \in new.journal : q.info = r.info /\ q.path = r.path
        BY <1>3 DEF SameRows
      <3> QED
        BY <1>4, <3>1, <3>2, <3>3 DEF IsRow
    <2>2. CASE ~\E i \in items : i.path = p
      <3>1. TakenForUnchanged(db, p, f)
        BY <1>3, <1>6, <2>2 DEF TakenForUnchanged, HasDirEnt
      <3>2. PathSound(db, p, f, ix)
        BY DEF DbSound
      <3>3. ASSUME NEW r \in db.journal, r.path = p PROVE r \in new.journal
        BY <1>3, <2>2, <3>3 DEF IsRow
      <3> QED
        BY <3>1, <3>2, <3>3 DEF PathSound
    <2> QED BY <2>1, <2>2
  <1>7. DbSound(new, f, ix, n)
    BY <1>1, <1>3, <1>5, <1>6, RewriteSound
  <1> QED
    BY <1>7 DEF new

\* A replay takes up the rows in progress again.
LEMMA ReplayRows ==
  ASSUME NEW db \in DB, OneRowPerPath(db)
  PROVE  LET new == ResetAllInProgressBackupJournalTasks(db)
         IN  /\ SameRows(new, db) /\ new.dirents = db.dirents
             /\ \A q \in new.journal :
                  /\ q.status # "InProgress"
                  /\ \E r \in db.journal :
                       /\ q.path = r.path /\ q.change = r.change /\ q.entry = r.entry
                       /\ q.status = "Finished" => r.status = "Finished"
                       /\ r.status = "Finished" => q.status = "Finished"
             /\ \A r \in db.journal : r.status = "Finished" => r \in new.journal
  <1> DEFINE G(r) == IF r.status = "InProgress" THEN [r EXCEPT !.status = "Unstarted"] ELSE r
             new == ResetAllInProgressBackupJournalTasks(db)
  <1>1. /\ new.journal = {G(r) : r \in db.journal}
        /\ new.infos = db.infos /\ new.seq = db.seq /\ new.dirents = db.dirents
    BY DEF ResetAllInProgressBackupJournalTasks, DB
  <1>2. ASSUME NEW r \in db.journal
        PROVE  /\ G(r).info = r.info /\ G(r).path = r.path /\ G(r).change = r.change
               /\ G(r).entry = r.entry /\ G(r).status # "InProgress"
               /\ r.status # "InProgress" => G(r) = r
               /\ G(r).status = "Finished" <=> r.status = "Finished"
    <2>1. r \in JournalRow
      BY DBParts
    <2> QED BY <2>1 DEF JournalRow
  <1> HIDE DEF G, new
  <1>3. OneRowPerPath(new)
    BY <1>1, <1>2 DEF OneRowPerPath
  <1>4. SameRows(new, db)
    BY <1>1, <1>2, <1>3 DEF SameRows
  <1>5. \A r \in db.journal : r.status = "Finished" => r \in new.journal
    BY <1>1, <1>2
  <1>6. \A q \in new.journal :
                  /\ q.status # "InProgress"
                  /\ \E r \in db.journal :
                       /\ q.path = r.path /\ q.change = r.change /\ q.entry = r.entry
                       /\ q.status = "Finished" => r.status = "Finished"
                       /\ r.status = "Finished" => q.status = "Finished"
    BY <1>1, <1>2
  <1> QED
    BY <1>1, <1>4, <1>5, <1>6 DEF new

LEMMA ReplaySound ==
  ASSUME NEW db \in DB, NEW f, NEW ix, NEW n, DbSound(db, f, ix, n)
  PROVE  DbSound(ResetAllInProgressBackupJournalTasks(db), f, ix, n)
  <1> DEFINE new == ResetAllInProgressBackupJournalTasks(db)
  <1>1. new \in DB
    BY ResetAllInProgressType
  <1>2. OneRowPerPath(db)
    BY DEF DbSound, JournalShape
  <1>3. /\ SameRows(new, db) /\ new.dirents = db.dirents
        /\ \A q \in new.journal :
             /\ q.status # "InProgress"
             /\ \E r \in db.journal :
                  /\ q.path = r.path /\ q.change = r.change /\ q.entry = r.entry
                  /\ q.status = "Finished" => r.status = "Finished"
                  /\ r.status = "Finished" => q.status = "Finished"
        /\ \A r \in db.journal : r.status = "Finished" => r \in new.journal
    BY <1>2, ReplayRows
  <1> HIDE DEF new
  <1>4. ASSUME NEW q \in new.journal PROVE RowSound(new, q, f)
    <2>1. PICK r \in db.journal :
                  /\ q.path = r.path /\ q.change = r.change /\ q.entry = r.entry
                  /\ q.status = "Finished" => r.status = "Finished"
                  /\ r.status = "Finished" => q.status = "Finished"
      BY <1>3
    <2>2. RowSound(new, r, f)
      BY <1>3, SameDirents DEF DbSound
    <2> QED BY <2>1, <2>2 DEF RowSound
  <1>5. ASSUME NEW p \in Paths, TakenForUnchanged(new, p, f)
        PROVE  \/ BaseLists(db, p, f, ix)
               \/ \E r \in new.journal : r.path = p /\ r.status = "Finished"
    <2>1. PathSound(db, p, f, ix) /\ TakenForUnchanged(db, p, f)
      BY <1>3, <1>5, SameDirents DEF DbSound
    <2> QED BY <1>3, <2>1 DEF PathSound
  <1>6. DbSound(new, f, ix, n)
    BY <1>1, <1>3, <1>4, <1>5, SameDirents, RewriteSound
  <1> QED
    BY <1>6 DEF new

\* When nothing is taken for unchanged any more but by rows that say so.
LEMMA DirentsSound ==
  ASSUME NEW db \in DB, NEW new \in DB, NEW f, NEW ix, NEW n, DbSound(db, f, ix, n),
         new.journal = db.journal, new.infos = db.infos, new.seq = db.seq,
         \A p \in Paths : HasDirEnt(new, p) <=> HasDirEnt(db, p),
         \A p \in Paths : TakenForUnchanged(new, p, f) => TakenForUnchanged(db, p, f)
  PROVE  DbSound(new, f, ix, n)
  <1>1. SameRows(new, db)
    BY DEF SameRows, DbSound, JournalShape, OneRowPerPath
  <1>2. ASSUME NEW q \in new.journal PROVE RowSound(new, q, f)
    <2>1. q.path \in Paths
      BY DBParts DEF JournalRow
    <2>2. RowSound(db, q, f)
      BY DEF DbSound
    <2> QED
      BY <2>1, <2>2 DEF RowSound
  <1>3. ASSUME NEW p \in Paths, TakenForUnchanged(new, p, f)
        PROVE  \/ BaseLists(db, p, f, ix)
               \/ \E r \in new.journal : r.path = p /\ r.status = "Finished"
    <2>1. PathSound(db, p, f, ix)
      BY DEF DbSound
    <2> QED
      BY <1>3, <2>1 DEF PathSound
  <1> QED
    BY <1>1, <1>2, <1>3, RewriteSound

\* A full backup is forced: nothing is taken for unchanged.
LEMMA ForceFullSound ==
  ASSUME NEW db \in DB, NEW f \in Files, NEW ix, NEW n, DbSound(db, f, ix, n),
         \A p \in Paths : f[p].mtime > 0
  PROVE  /\ DbSound(ResetLastBackedUpTime(db), f, ix, n)
         /\ \A p \in Paths : ~TakenForUnchanged(ResetLastBackedUpTime(db), p, f)
         /\ ResetLastBackedUpTime(db).journal = db.journal
  <1> DEFINE new == ResetLastBackedUpTime(db)
  <1>1. new \in DB
    BY ResetLastBackedUpTimeType
  <1>2. /\ new.journal = db.journal /\ new.infos = db.infos /\ new.seq = db.seq
        /\ \A p \in Paths : HasDirEnt(new, p) <=> HasDirEnt(db, p)
        /\ \A p \in Paths : HasDirEnt(new, p) => new.dirents[p] = 0
    BY DEF ResetLastBackedUpTime, HasDirEnt, DB, NotKnown
  <1> HIDE DEF new
  <1>3. ASSUME NEW p \in Paths PROVE ~TakenForUnchanged(new, p, f)
    <2>1. f[p].mtime \in Nat
      BY DEF Files, FileState
    <2> QED
      BY <1>2, <2>1 DEF TakenForUnchanged
  <1>4. DbSound(new, f, ix, n)
    BY <1>1, <1>2, <1>3, DirentsSound
  <1> QED
    BY <1>2, <1>3, <1>4 DEF new

\* An undo makes what the backup has touched due again.
LEMMA UndoTimesSound ==
  ASSUME NEW db \in DB, NEW f \in Files, NEW ix, NEW n, DbSound(db, f, ix, n),
         \A p \in Paths : f[p].mtime > 0
  PROVE  LET new == CancelationResetLastBackupTime(db)
         IN  /\ DbSound(new, f, ix, n)
             /\ new.journal = db.journal /\ JournalTimes(new) = JournalTimes(db)
             /\ \A r \in new.journal : r.status # "Unstarted" => ~TakenForUnchanged(new, r.path, f)
  <1> DEFINE new == CancelationResetLastBackupTime(db)
  <1>1. new \in DB
    BY CancelationResetLastBackupTimeType
  <1>2. /\ new.journal = db.journal /\ new.infos = db.infos /\ new.seq = db.seq
        /\ \A p \in Paths : HasDirEnt(new, p) <=> HasDirEnt(db, p)
        /\ \A p \in Paths : \/ new.dirents[p] = db.dirents[p]
                            \/ new.dirents[p] = 0
        /\ \A r \in db.journal, p \in Paths :
             r.path = p /\ r.status # "Unstarted" /\ HasDirEnt(db, p) => new.dirents[p] = 0
    BY DEF CancelationResetLastBackupTime, HasDirEnt, DB, NotKnown
  <1> HIDE DEF new
  <1>3. ASSUME NEW p \in Paths, new.dirents[p] = 0 PROVE ~TakenForUnchanged(new, p, f)
    <2>1. f[p].mtime \in Nat
      BY DEF Files, FileState
    <2> QED
      BY <1>3, <2>1 DEF TakenForUnchanged
  <1>4. \A p \in Paths : TakenForUnchanged(new, p, f) => TakenForUnchanged(db, p, f)
    BY <1>2, <1>3 DEF TakenForUnchanged
  <1>5. DbSound(new, f, ix, n)
    BY <1>1, <1>2, <1>4, DirentsSound
  <1>6. JournalTimes(new) = JournalTimes(db)
    BY <1>2 DEF JournalTimes, JournaledInfos
  <1>7. ASSUME NEW r \in new.journal, r.status # "Unstarted"
        PROVE  ~TakenForUnchanged(new, r.path, f)
    <2>1. r.path \in Paths
      BY <1>1, DBParts DEF JournalRow
    <2>2. CASE HasDirEnt(db, r.path)
      BY <1>2, <1>3, <1>7, <2>1, <2>2
    <2>3. CASE ~HasDirEnt(db, r.path)
      BY <1>2, <2>1, <2>3 DEF TakenForUnchanged
    <2> QED BY <2>2, <2>3
  <1> QED
    BY <1>2, <1>5, <1>6, <1>7 DEF new

-----------------------------------------------------------------------------
(* The journal is cleared, and filled.                                     *)

LEMMA CleanTimes ==
  ASSUME NEW db, db.journal = {}
  PROVE  JournalTimes(db) = {} /\ \A ix : Earlier(db, ix) = SnapshotsIn(ix)
  BY DEF JournalTimes, JournaledInfos, Earlier

\* With their backup_info rows gone the journal rows are of no time.
LEMMA DeletedTimes ==
  ASSUME NEW db \in DB
  PROVE  JournalTimes(CancelationDeleteInfos(db)) = {}
  BY DEF CancelationDeleteInfos, JournalTimes, JournaledInfos, DB

\* A clean database is sound when the last snapshot has what is taken for
\* unchanged.
LEMMA CleanSound ==
  ASSUME NEW db \in DB, NEW f, NEW ix, NEW n, db.journal = {},
         \A i \in db.infos : i.id =< db.seq /\ i.time \in 1..n,
         \A t \in SnapshotsIn(ix) : \E i \in db.infos : i.time = t,
         \A p \in Paths : TakenForUnchanged(db, p, f) =>
             \E t \in SnapshotsIn(ix) :
                 (\A u \in SnapshotsIn(ix) : u =< t) /\ ListsPresent(ix[t][p], p, f)
  PROVE  DbSound(db, f, ix, n)
  <1>1. JournalTimes(db) = {} /\ Earlier(db, ix) = SnapshotsIn(ix)
    BY CleanTimes
  <1>2. JournalShape(db, ix, n)
    BY <1>1 DEF JournalShape, OneRowPerPath
  <1>3. ASSUME NEW p \in Paths PROVE PathSound(db, p, f, ix)
    BY <1>1 DEF PathSound, BaseLists
  <1> QED
    BY <1>2, <1>3 DEF DbSound

\* And the other way round.
LEMMA CleanBase ==
  ASSUME NEW db \in DB, NEW f, NEW ix, NEW n, DbSound(db, f, ix, n), db.journal = {},
         NEW p \in Paths, TakenForUnchanged(db, p, f)
  PROVE  \E t \in SnapshotsIn(ix) :
             (\A u \in SnapshotsIn(ix) : u =< t) /\ ListsPresent(ix[t][p], p, f)
  <1>1. Earlier(db, ix) = SnapshotsIn(ix)
    BY CleanTimes
  <1>2. PathSound(db, p, f, ix)
    BY DEF DbSound
  <1>3. BaseLists(db, p, f, ix)
    BY <1>2 DEF PathSound
  <1> QED
    BY <1>1, <1>3 DEF BaseLists

\* The snapshot is written: it is the last one, and has everything.
LEMMA WipeSound ==
  ASSUME NEW db \in DB, NEW f, NEW ix, NEW n, DbSound(db, f, ix, n),
         NEW s \in SnapshotsIn(ix), JournalTimes(db) = {s},
         \A p \in Paths : TakenForUnchanged(db, p, f) => ListsPresent(ix[s][p], p, f)
  PROVE  DbSound(WipeBackupJournal(db), f, ix, n)
  <1> DEFINE new == WipeBackupJournal(db)
  <1>1. new \in DB
    BY WipeBackupJournalType
  <1>2. /\ new.journal = {} /\ new.infos = db.infos /\ new.seq = db.seq
        /\ new.dirents = db.dirents
    BY DEF WipeBackupJournal, DB
  <1> HIDE DEF new
  <1>3. \A u \in SnapshotsIn(ix) : u =< s
    BY DEF DbSound, JournalShape
  <1>4. \A p : TakenForUnchanged(new, p, f) = TakenForUnchanged(db, p, f)
    BY <1>2, SameDirents
  <1>5. DbSound(new, f, ix, n)
    <2>1. /\ \A i \in new.infos : i.id =< new.seq /\ i.time \in 1..n
          /\ \A t \in SnapshotsIn(ix) : \E i \in new.infos : i.time = t
      BY <1>2 DEF DbSound, JournalShape
    <2> QED BY <1>1, <1>2, <1>3, <1>4, <2>1, CleanSound
  <1> QED
    BY <1>5 DEF new

\* The backup is undone: its snapshot is deleted, its rows are due again.
LEMMA CleanupSound ==
  ASSUME NEW db \in DB, NEW f, NEW ix, NEW n, DbSound(db, f, ix, n),
         JournalTimes(db) \cap SnapshotsIn(ix) = {},
         \A r \in db.journal : r.status # "Unstarted" => ~TakenForUnchanged(db, r.path, f)
  PROVE  DbSound(WipeBackupJournal(CancelationDeleteInfos(db)), f, ix, n)
  <1> DEFINE new == WipeBackupJournal(CancelationDeleteInfos(db))
  <1>1. new \in DB
    BY CancelationDeleteInfosType, WipeBackupJournalType
  <1>2. /\ new.journal = {} /\ new.infos = db.infos \ JournaledInfos(db) /\ new.seq = db.seq
        /\ new.dirents = db.dirents
    BY DEF CancelationDeleteInfos, WipeBackupJournal, DB
  <1> HIDE DEF new
  <1>3. Earlier(db, ix) = SnapshotsIn(ix)
    BY DEF Earlier
  <1>4. \A i \in new.infos : i.id =< new.seq /\ i.time \in 1..n
    BY <1>2 DEF DbSound, JournalShape
  <1>5. ASSUME NEW t \in SnapshotsIn(ix) PROVE \E i \in new.infos : i.time = t
    <2>1. PICK i \in db.infos : i.time = t
      BY DEF DbSound, JournalShape
    <2>2. i \notin JournaledInfos(db)
      BY <2>1 DEF JournalTimes
    <2> QED BY <1>2, <2>1, <2>2
  <1>6. ASSUME NEW p \in Paths, TakenForUnchanged(new, p, f)
        PROVE  \E t \in SnapshotsIn(ix) :
                 (\A u \in SnapshotsIn(ix) : u =< t) /\ ListsPresent(ix[t][p], p, f)
    <2>1. TakenForUnchanged(db, p, f) /\ PathSound(db, p, f, ix)
      BY <1>2, <1>6, SameDirents DEF DbSound
    <2>2. BaseLists(db, p, f, ix)
      BY <2>1 DEF PathSound
    <2> QED BY <1>3, <2>2 DEF BaseLists
  <1>7. DbSound(new, f, ix, n)
    BY <1>1, <1>2, <1>4, <1>5, <1>6, CleanSound
  <1> QED
    BY <1>7 DEF new

\* The two bulk inserts, on a clean journal.
LEMMA InsertRows ==
  ASSUME NEW db \in DB, NEW t \in Nat, NEW queue
  PROVE  LET new == InsertBackupJournal(db, t, queue)
         IN  /\ new.dirents = db.dirents
             /\ new.seq = db.seq + 1
             /\ new.infos = db.infos \cup {[id |-> db.seq + 1, time |-> t]}
             /\ new.journal = db.journal \cup
                  {[info |-> db.seq + 1, path |-> q.path, change |-> q.change,
                    status |-> "Unstarted", entry |-> NoEntry] : q \in queue}
  BY DEF InsertBackupJournal, DB

Unstarted(info, path, change) ==
    [info |-> info, path |-> path, change |-> change, status |-> "Unstarted", entry |-> NoEntry]

SeenAs(db, p) == IF HasDirEnt(db, p) /\ fs[p].mtime =< db.dirents[p]
                 THEN "Unchanged" ELSE "Updated"

LEMMA FillRows ==
  ASSUME NEW db \in DB, db.journal = {}, NEW seen \in SUBSET Paths, NEW t \in Nat
  PROVE  LET new == FillJournal(db, seen, t)
         IN  /\ new.seq = db.seq + 2
             /\ new.infos = db.infos \cup {[id |-> db.seq + 1, time |-> t],
                                           [id |-> db.seq + 2, time |-> t]}
             /\ new.dirents = [p \in Paths |-> IF p \in seen /\ ~HasDirEnt(db, p)
                                               THEN 0 ELSE db.dirents[p]]
             /\ new.journal = {Unstarted(db.seq + 1, p, SeenAs(db, p)) : p \in seen} \cup
                              {Unstarted(db.seq + 2, p, "Deleted") :
                                 p \in {q \in Paths : HasDirEnt(db, q)} \ seen}
  <1> DEFINE S == {p \in seen : ~HasDirEnt(db, p)}
             inserted == InsertDirEnts(db, S)
             updated  == InsertBackupJournal(inserted, t, UpdatedOrUnchanged(db, seen))
             new == InsertBackupJournal(updated, t, Gone(db, seen))
  <1>1. /\ inserted \in DB /\ inserted.journal = {} /\ inserted.infos = db.infos
        /\ inserted.seq = db.seq
        /\ inserted.dirents = [p \in Paths |-> IF p \in S THEN 0 ELSE db.dirents[p]]
    BY InsertDirEntsType DEF InsertDirEnts, DB
  <1>2. updated \in DB
    <2>1. UpdatedOrUnchanged(db, seen) \in SUBSET [path : Paths, change : ChangeTypes]
      BY DEF UpdatedOrUnchanged, ChangeTypes
    <2> HIDE DEF inserted
    <2> QED BY <1>1, <2>1, InsertBackupJournalType
  <1>3. /\ updated.dirents = inserted.dirents
        /\ updated.seq = inserted.seq + 1
        /\ updated.infos = inserted.infos \cup {[id |-> inserted.seq + 1, time |-> t]}
        /\ updated.journal = inserted.journal \cup
             {[info |-> inserted.seq + 1, path |-> q.path, change |-> q.change,
               status |-> "Unstarted", entry |-> NoEntry] : q \in UpdatedOrUnchanged(db, seen)}
    <2> HIDE DEF inserted
    <2> QED BY <1>1, InsertRows
  <1>4. /\ new.dirents = updated.dirents
        /\ new.seq = updated.seq + 1
        /\ new.infos = updated.infos \cup {[id |-> updated.seq + 1, time |-> t]}
        /\ new.journal = updated.journal \cup
             {[info |-> updated.seq + 1, path |-> q.path, change |-> q.change,
               status |-> "Unstarted", entry |-> NoEntry] : q \in Gone(db, seen)}
    <2> HIDE DEF updated
    <2> QED BY <1>2, InsertRows
  <1>5. new = FillJournal(db, seen, t)
    BY DEF FillJournal
  <1>6. db.seq \in Nat
    BY DBParts
  <1> HIDE DEF inserted, updated, new
  <1>7. updated.journal = {Unstarted(db.seq + 1, p, SeenAs(db, p)) : p \in seen}
    <2> DEFINE Q(p) == [path |-> p, change |-> SeenAs(db, p)]
               R(q) == Unstarted(db.seq + 1, q.path, q.change)
               U == UpdatedOrUnchanged(db, seen)
    <2>1. U = {Q(p) : p \in seen}
      BY DEF UpdatedOrUnchanged, SeenAs
    <2>2. updated.journal = {R(q) : q \in U}
      BY <1>1, <1>3 DEF Unstarted
    <2>3. \A p : R(Q(p)) = Unstarted(db.seq + 1, p, SeenAs(db, p))
      OBVIOUS
    <2> HIDE DEF Q, R, U
    <2> QED BY <2>1, <2>2, <2>3
  <1>8. {[info |-> updated.seq + 1, path |-> q.path, change |-> q.change,
          status |-> "Unstarted", entry |-> NoEntry] : q \in Gone(db, seen)}
          = {Unstarted(db.seq + 2, p, "Deleted") : p \in {q \in Paths : HasDirEnt(db, q)} \ seen}
    <2>1. updated.seq + 1 = db.seq + 2
      BY <1>1, <1>3, <1>6
    <2> DEFINE Q(p) == [path |-> p, change |-> "Deleted"]
               R(q) == Unstarted(db.seq + 2, q.path, q.change)
               U == Gone(db, seen)
               K == {q \in Paths : HasDirEnt(db, q)} \ seen
    <2>2. U = {Q(p) : p \in K}
      BY DEF Gone, GetAllKnownPaths
    <2>3. {[info |-> updated.seq + 1, path |-> q.path, change |-> q.change,
            status |-> "Unstarted", entry |-> NoEntry] : q \in U} = {R(q) : q \in U}
      BY <2>1 DEF Unstarted
    <2>4. \A p : R(Q(p)) = Unstarted(db.seq + 2, p, "Deleted")
      OBVIOUS
    <2>5. {R(q) : q \in U} = {Unstarted(db.seq + 2, p, "Deleted") : p \in K}
      <3> HIDE DEF Q, R, U, K
      <3> QED BY <2>2, <2>4
    <2> QED BY <2>3, <2>5
  <1>9. new.seq = db.seq + 2
    BY <1>1, <1>3, <1>4, <1>6
  <1>10. new.infos = db.infos \cup {[id |-> db.seq + 1, time |-> t],
                                    [id |-> db.seq + 2, time |-> t]}
    <2>1. updated.seq + 1 = db.seq + 2
      BY <1>1, <1>3, <1>6
    <2> QED BY <1>1, <1>3, <1>4, <2>1
  <1> QED
    BY <1>1, <1>3, <1>4, <1>5, <1>7, <1>8, <1>9, <1>10

\* Traverse on a clean database: the journal rests on the last snapshot.
LEMMA FillSound ==
  ASSUME NEW db \in DB, NEW ix \in IndexObjects, NEW n \in Nat \ {0}, fs \in Files,
         DbSound(db, fs, ix, n),
         db.journal = {}, \A i \in db.infos : i.time # n,
         \A p \in Paths : fs[p].mtime > 0,
         NEW seen \in SUBSET {p \in Paths : fs[p].exists},
         "readError" \notin Allowed => seen = {p \in Paths : fs[p].exists}
  PROVE  LET new == FillJournal(db, seen, n)
         IN  /\ DbSound(new, fs, ix, n)
             /\ JournalTimes(new) \subseteq {n}
             /\ \A r \in new.journal : r.status = "Unstarted"
  <1> DEFINE new == FillJournal(db, seen, n)
             known == {q \in Paths : HasDirEnt(db, q)}
  <1>0. db.seq \in Nat /\ seen \in SUBSET Paths
    BY DBParts
  <1>1. new \in DB
    BY <1>0, FillJournalType
  <1>2. /\ new.seq = db.seq + 2
        /\ new.infos = db.infos \cup {[id |-> db.seq + 1, time |-> n],
                                      [id |-> db.seq + 2, time |-> n]}
        /\ new.dirents = [p \in Paths |-> IF p \in seen /\ ~HasDirEnt(db, p)
                                          THEN 0 ELSE db.dirents[p]]
        /\ new.journal = {Unstarted(db.seq + 1, p, SeenAs(db, p)) : p \in seen} \cup
                         {Unstarted(db.seq + 2, p, "Deleted") : p \in known \ seen}
    BY <1>0, FillRows
  <1> HIDE DEF new
  <1>3. ASSUME NEW p \in Paths
        PROVE  /\ HasDirEnt(new, p) <=> p \in seen \cup known
               /\ TakenForUnchanged(new, p, fs) <=> TakenForUnchanged(db, p, fs)
    <2>1. fs[p].mtime \in Nat /\ db.dirents[p] \in Nat \cup {NotKnown}
      BY DBParts DEF Files, FileState
    <2>2. HasDirEnt(new, p) <=> p \in seen \cup known
      BY <1>2, <2>1 DEF HasDirEnt, NotKnown
    <2>3. CASE p \in seen /\ ~HasDirEnt(db, p)
      <3>1. new.dirents[p] = 0
        BY <1>2, <2>3
      <3>2. ~(fs[p].mtime =< 0)
        BY <2>1
      <3> QED BY <2>2, <2>3, <3>1, <3>2 DEF TakenForUnchanged
    <2>4. CASE ~(p \in seen /\ ~HasDirEnt(db, p))
      BY <1>2, <2>1, <2>4 DEF TakenForUnchanged, HasDirEnt
    <2> QED BY <2>2, <2>3, <2>4
  <1>4. ASSUME NEW r \in new.journal
        PROVE  /\ r.path \in Paths /\ r.status = "Unstarted" /\ r.entry = NoEntry
               /\ \/ /\ r.path \in seen /\ r.change = SeenAs(db, r.path)
                     /\ r = Unstarted(db.seq + 1, r.path, SeenAs(db, r.path))
                  \/ /\ r.path \in known \ seen /\ r.change = "Deleted"
                     /\ r = Unstarted(db.seq + 2, r.path, "Deleted")
    BY <1>0, <1>2 DEF Unstarted
  <1>5. OneRowPerPath(new)
    BY <1>4 DEF OneRowPerPath
  <1>6. \A r \in new.journal : r.info \in {db.seq + 1, db.seq + 2}
    BY <1>2 DEF Unstarted
  <1>7. ASSUME NEW i \in JournaledInfos(new) PROVE i.time = n
    <2>1. PICK r \in new.journal : r.info = i.id /\ i \in new.infos
      BY DEF JournaledInfos
    <2>2. CASE i \in db.infos
      <3>1. i.id =< db.seq /\ i.id \in Nat
        BY <2>2, DBParts DEF DbSound, JournalShape, BackupInfo
      <3> QED BY <1>0, <1>6, <2>1, <3>1
    <2>3. CASE i \notin db.infos
      BY <1>2, <2>1, <2>3
    <2> QED BY <2>2, <2>3
  <1>8. JournalTimes(new) \subseteq {n}
    BY <1>7 DEF JournalTimes
  <1>9. n \notin SnapshotsIn(ix) /\ \A t \in SnapshotsIn(ix) : t =< n
    BY DEF DbSound, JournalShape
  <1>10. Earlier(new, ix) = Earlier(db, ix)
    BY <1>8, <1>9, CleanTimes DEF Earlier
  <1>11. JournalShape(new, ix, n)
    <2>1. ASSUME NEW i \in new.infos PROVE i.id =< new.seq /\ i.time \in 1..n
      <3>1. CASE i \in db.infos
        <4>1. i.id =< db.seq /\ i.id \in Nat /\ i.time \in 1..n
          BY <3>1, DBParts DEF DbSound, JournalShape, BackupInfo
        <4> QED BY <1>0, <1>2, <4>1
      <3>2. CASE i \notin db.infos
        BY <1>0, <1>2, <3>2
      <3> QED BY <3>1, <3>2
    <2>2. \A t \in SnapshotsIn(ix) : \E i \in new.infos : i.time = t
      BY <1>2 DEF DbSound, JournalShape
    <2>3. ASSUME NEW r \in new.journal PROVE \E i \in new.infos : i.id = r.info
      <3>1. /\ [id |-> db.seq + 1, time |-> n] \in new.infos
            /\ [id |-> db.seq + 2, time |-> n] \in new.infos
        BY <1>2
      <3> QED BY <1>6, <3>1
    <2> QED
      BY <1>5, <1>8, <1>9, <2>1, <2>2, <2>3 DEF JournalShape
  <1>12. ASSUME NEW p \in Paths, TakenForUnchanged(db, p, fs)
         PROVE  BaseLists(new, p, fs, ix)
    <2>1. BaseLists(db, p, fs, ix)
      BY <1>12 DEF DbSound, PathSound
    <2> QED BY <1>10, <2>1 DEF BaseLists
  <1>13. ASSUME NEW r \in new.journal PROVE RowSound(new, r, fs) /\ RowRests(new, r, fs, ix)
    <2>1. CASE r.path \in seen /\ r.change = SeenAs(db, r.path)
      <3>1. /\ r.status = "Unstarted" /\ r.path \in Paths
            /\ r.change \in {"Updated", "Unchanged"}
            /\ r.change = "Unchanged" <=> TakenForUnchanged(db, r.path, fs)
            /\ HasDirEnt(new, r.path) /\ fs[r.path].exists
        BY <1>3, <1>4, <2>1 DEF SeenAs, TakenForUnchanged
      <3>2. RowSound(new, r, fs)
        BY <1>3, <3>1 DEF RowSound
      <3>3. RowRests(new, r, fs, ix)
        BY <1>8, <1>9, <1>12, <3>1 DEF RowRests
      <3> QED BY <3>2, <3>3
    <2>2. CASE r.path \in known \ seen /\ r.change = "Deleted"
      BY <1>3, <1>4, <2>2 DEF RowSound, RowRests
    <2> QED BY <1>4, <2>1, <2>2
  <1>14. ASSUME NEW p \in Paths PROVE PathSound(new, p, fs, ix)
    <2>1. ASSUME p \in seen \cup known PROVE \E r \in new.journal : r.path = p
      <3>1. CASE p \in seen
        <4>1. Unstarted(db.seq + 1, p, SeenAs(db, p)) \in new.journal
          BY <1>2, <3>1
        <4> QED BY <4>1 DEF Unstarted
      <3>2. CASE p \notin seen
        <4>1. Unstarted(db.seq + 2, p, "Deleted") \in new.journal
          BY <1>2, <2>1, <3>2
        <4> QED BY <4>1 DEF Unstarted
      <3> QED BY <3>1, <3>2
    <2> QED
      BY <1>3, <1>12, <2>1 DEF PathSound
  <1>15. DbSound(new, fs, ix, n)
    BY <1>11, <1>13, <1>14 DEF DbSound
  <1> QED
    BY <1>4, <1>8, <1>15 DEF new

-----------------------------------------------------------------------------
(* The clock, the files and the index objects change.                      *)

LEMMA ClockSound ==
  ASSUME NEW db \in DB, NEW f, NEW ix, NEW n \in Nat, DbSound(db, f, ix, n), NEW m \in Nat, n =< m
  PROVE  DbSound(db, f, ix, m)
  <1>1. \A i \in db.infos : i.time \in Nat
    BY DBParts DEF BackupInfo
  <1> QED
    BY <1>1 DEF DbSound, JournalShape

\* A file changes between backups, and is not taken for unchanged then.
LEMMA ChangeSound ==
  ASSUME NEW db \in DB, NEW f, NEW g, NEW ix, NEW n, DbSound(db, f, ix, n), db.journal = {},
         NEW p \in Paths, ~TakenForUnchanged(db, p, g),
         \A q \in Paths : q # p => g[q] = f[q]
  PROVE  DbSound(db, g, ix, n)
  <1>1. ASSUME NEW q \in Paths, TakenForUnchanged(db, q, g)
        PROVE  \E t \in SnapshotsIn(ix) :
                 (\A u \in SnapshotsIn(ix) : u =< t) /\ ListsPresent(ix[t][q], q, g)
    <2>1. g[q] = f[q]
      BY <1>1
    <2>2. TakenForUnchanged(db, q, f)
      BY <1>1, <2>1 DEF TakenForUnchanged
    <2>3. PICK t \in SnapshotsIn(ix) :
             (\A u \in SnapshotsIn(ix) : u =< t) /\ ListsPresent(ix[t][q], q, f)
      BY <2>2, CleanBase
    <2> QED
      BY <2>1, <2>3 DEF ListsPresent
  <1>2. /\ \A i \in db.infos : i.id =< db.seq /\ i.time \in 1..n
        /\ \A t \in SnapshotsIn(ix) : \E i \in db.infos : i.time = t
    BY DEF DbSound, JournalShape
  <1> QED
    BY <1>1, <1>2, CleanSound

\* The index object of the journal's own snapshot is written, or deleted.
LEMMA OwnIndexSound ==
  ASSUME NEW db \in DB, NEW f, NEW ix \in IndexObjects, NEW n, DbSound(db, f, ix, n),
         NEW s \in Times \ {Lost}, JournalTimes(db) \subseteq {s}, JournalTimes(db) # {},
         NEW x,
         x # None => \A r \in db.journal : r.change = "Unchanged" => ListsPresent(x[r.path], r.path, f)
  PROVE  DbSound(db, f, [ix EXCEPT ![s] = x], n)
  <1> DEFINE jx == [ix EXCEPT ![s] = x]
  <1>1. /\ SnapshotsIn(jx) \ {s} = SnapshotsIn(ix) \ {s}
        /\ \A t \in Times : t # s => jx[t] = ix[t]
        /\ jx[s] = x
        /\ s \in SnapshotsIn(jx) <=> x # None
    BY DEF SnapshotsIn, IndexObjects
  <1>2. JournalTimes(db) = {s}
    OBVIOUS
  <1>3. s \in Nat
    BY BoundsAssumption DEF Times
  <1> HIDE DEF jx
  <1>4. Earlier(db, jx) = Earlier(db, ix) /\ \A t \in Earlier(db, ix) : jx[t] = ix[t]
    BY <1>1, <1>2 DEF Earlier, SnapshotsIn
  <1>5. \A p : BaseLists(db, p, f, jx) = BaseLists(db, p, f, ix)
    BY <1>4 DEF BaseLists
  <1>6. JournalShape(db, jx, n)
    <2>1. \E i \in db.infos : i.time = s
      BY <1>2 DEF JournalTimes, JournaledInfos
    <2>2. \A t \in SnapshotsIn(jx) : t = s \/ t \in SnapshotsIn(ix)
      BY <1>1
    <2> QED
      BY <1>2, <1>3, <2>1, <2>2 DEF DbSound, JournalShape
  <1>7. ASSUME NEW r \in db.journal PROVE RowRests(db, r, f, jx)
    <2>1. RowRests(db, r, f, ix)
      BY DEF DbSound
    <2>2. \A t \in JournalTimes(db) \cap SnapshotsIn(jx) : t = s /\ x # None /\ jx[t] = x
      BY <1>1, <1>2
    <2> QED
      BY <1>5, <2>1, <2>2 DEF RowRests
  <1>8. \A p \in Paths : PathSound(db, p, f, jx)
    BY <1>5 DEF DbSound, PathSound
  <1>9. DbSound(db, f, jx, n)
    BY <1>6, <1>7, <1>8 DEF DbSound
  <1> QED
    BY <1>9 DEF jx

\* With a clean journal, that of a snapshot nothing rests on is deleted.
LEMMA OtherIndexSound ==
  ASSUME NEW db \in DB, NEW f, NEW ix \in IndexObjects, NEW n, DbSound(db, f, ix, n),
         db.journal = {}, NEW t \in Times,
         \/ \A p \in Paths : ~TakenForUnchanged(db, p, f)
         \/ ~(t \in SnapshotsIn(ix) /\ \A u \in SnapshotsIn(ix) : u =< t)
  PROVE  DbSound(db, f, [ix EXCEPT ![t] = None], n)
  <1> DEFINE jx == [ix EXCEPT ![t] = None]
  <1>1. /\ SnapshotsIn(jx) = SnapshotsIn(ix) \ {t}
        /\ \A u \in Times : u # t => jx[u] = ix[u]
    BY DEF SnapshotsIn, IndexObjects
  <1> HIDE DEF jx
  <1>2. ASSUME NEW p \in Paths, TakenForUnchanged(db, p, f)
        PROVE  \E s \in SnapshotsIn(jx) :
                 (\A u \in SnapshotsIn(jx) : u =< s) /\ ListsPresent(jx[s][p], p, f)
    <2>1. PICK s \in SnapshotsIn(ix) :
             (\A u \in SnapshotsIn(ix) : u =< s) /\ ListsPresent(ix[s][p], p, f)
      BY <1>2, CleanBase
    <2>2. s # t
      BY <1>2, <2>1
    <2>3. s \in Times
      BY DEF SnapshotsIn
    <2> QED
      BY <1>1, <2>1, <2>2, <2>3
  <1>3. /\ \A i \in db.infos : i.id =< db.seq /\ i.time \in 1..n
        /\ \A u \in SnapshotsIn(jx) : \E i \in db.infos : i.time = u
    BY <1>1 DEF DbSound, JournalShape
  <1>4. DbSound(db, f, jx, n)
    BY <1>2, <1>3, CleanSound
  <1> QED
    BY <1>4 DEF jx

\* What WriteIndexFile records for a path is what its one row has.
LEMMA IndexEntryOfRow ==
  ASSUME NEW db \in DB, OneRowPerPath(db), NEW p
  PROVE  /\ \A r \in db.journal : r.path = p => IndexEntry(db, p) = r.entry
         /\ (~\E r \in db.journal : r.path = p) => IndexEntry(db, p) = NoEntry
  <1> DEFINE rows == {r \in db.journal : r.path = p /\ r.entry # NoEntry}
             last == {r \in rows : \A q \in rows : q.info =< r.info}
  <1>1. IndexEntry(db, p) = IF last = {} THEN NoEntry ELSE (CHOOSE r \in last : TRUE).entry
    BY DEF IndexEntry
  <1>2. ASSUME NEW r \in db.journal, r.path = p PROVE IndexEntry(db, p) = r.entry
    <2>1. CASE r.entry = NoEntry
      <3>1. last = {}
        BY <1>2, <2>1 DEF OneRowPerPath
      <3> HIDE DEF last
      <3> QED BY <1>1, <2>1, <3>1
    <2>2. CASE r.entry # NoEntry
      <3>1. r.info \in Nat
        BY DBParts DEF JournalRow
      <3>2. rows = {r}
        BY <1>2, <2>2 DEF OneRowPerPath
      <3>3. last = {r}
        BY <3>1, <3>2
      <3> HIDE DEF last
      <3>4. (CHOOSE s \in last : TRUE) = r
        BY <3>3
      <3> QED BY <1>1, <3>3, <3>4
    <2> QED BY <2>1, <2>2
  <1>3. ASSUME ~\E r \in db.journal : r.path = p PROVE IndexEntry(db, p) = NoEntry
    <2>1. last = {}
      BY <1>3
    <2> HIDE DEF last
    <2> QED BY <1>1, <2>1
  <1> QED BY <1>2, <1>3

-----------------------------------------------------------------------------
(* The steps of the engine keep the invariant.                             *)

\* A journal is of a time of the clock.
LEMMA OwnTime ==
  ASSUME NEW db \in DB, NEW f, NEW ix, NEW n \in Times, DbSound(db, f, ix, n),
         NEW s \in JournalTimes(db)
  PROVE  s \in Times \ {Lost}
  <1>1. PICK i \in db.infos : i.time = s
    BY DEF JournalTimes, JournaledInfos
  <1>2. i.time \in Nat /\ i.time \in 1..n
    BY DBParts DEF BackupInfo, DbSound, JournalShape
  <1> QED
    BY <1>1, <1>2, BoundsAssumption DEF Times, Lost

LEMMA TypeParts ==
  ASSUME TypeOK
  PROVE  /\ file \in DB /\ mem \in DB /\ fs \in Files /\ index \in IndexObjects
         /\ now \in Nat \ {0} /\ now \in Times
         /\ Snapshots = SnapshotsIn(index)
  BY BoundsAssumption DEF TypeOK, Files, IndexObjects, Times, Snapshots, SnapshotsIn

LEMMA InitIncremental == Init => PathsAccounted
  <1> SUFFICES ASSUME Init PROVE PathsAccounted OBVIOUS
  <1>1. TypeOK
    BY InitType
  <1>2. /\ pc = "Idle" /\ op = "none" /\ task = None /\ parts = {} /\ packer = {} /\ held = {}
        /\ file = EmptyDB /\ now = 1
        /\ \A p \in Paths : fs[p].mtime = 1
        /\ \A t \in Times : index[t] = None
    BY DEF Init
  <1>3. file.journal = {} /\ file.infos = {} /\ \A p \in Paths : file.dirents[p] = NotKnown
    BY <1>2 DEF EmptyDB
  <1>4. DbSound(file, fs, index, now)
    <2>1. SnapshotsIn(index) = {}
      BY <1>2 DEF SnapshotsIn
    <2>2. \A p \in Paths : ~TakenForUnchanged(file, p, fs)
      BY <1>3 DEF TakenForUnchanged, HasDirEnt
    <2> QED
      BY <1>1, <1>3, <2>1, <2>2, CleanSound, TypeParts
  <1>5. FilesTimed
    <2>1. ASSUME NEW p \in Paths PROVE fs[p].mtime > 0 /\ fs[p].mtime =< now
      <3>1. fs[p].mtime = 1 /\ now = 1
        BY <1>2
      <3> QED BY <3>1
    <2> QED BY <2>1 DEF FilesTimed
  <1>6. ~Running /\ PlacesSound
    BY <1>2 DEF Running, PlacesSound, PlayPlaces, GCPlaces
  <1>7. ItemsSound /\ DeletionSound
    BY <1>2 DEF ItemsSound, DeletionSound
  <1> QED
    BY <1>2, <1>4, <1>5, <1>6, <1>7 DEF PathsAccounted, PlayPlaces

\* After a backup returns only the database file has anything to account for.
LEMMA LeaveIncremental ==
  ASSUME Leave, FilesTimed', DbSound(file, fs, index, now)'
  PROVE  PathsAccounted'
  BY DEF Leave, PathsAccounted, Running, PlacesSound, ItemsSound, DeletionSound, PlayPlaces, GCPlaces

LEMMA AtIdle ==
  ASSUME TypeOK, PathsAccounted, pc = "Idle"
  PROVE  /\ op = "none" /\ task = None /\ parts = {} /\ packer = {} /\ held = {}
         /\ FilesTimed /\ DbSound(file, fs, index, now)
         /\ \A p \in Paths : fs[p].mtime > 0
  BY DEF PathsAccounted, PlacesSound, Running, PlayPlaces, FilesTimed

LEMMA AtPlay ==
  ASSUME TypeOK, PathsAccounted, pc \in PlayPlaces
  PROVE  /\ op = "none" /\ FilesTimed /\ ItemsSound /\ RowsSound
         /\ pc # "Group" => PrevSound
         /\ DbSound(file, fs, index, now) /\ DbSound(mem, fs, index, now)
         /\ JournalTimes(mem) = {snapshot} /\ snapshot \in Times \ {Lost}
         /\ OneRowPerPath(mem)
  <1>1. /\ op = "none" /\ FilesTimed /\ ItemsSound /\ RowsSound
        /\ pc # "Group" => PrevSound
        /\ DbSound(file, fs, index, now) /\ DbSound(mem, fs, index, now)
        /\ JournalTimes(mem) = {snapshot}
        /\ OneRowPerPath(mem)
    BY DEF PathsAccounted, PlacesSound, Running, DbSound, JournalShape, PlayPlaces
  <1> QED BY <1>1, OwnTime, TypeParts

LEMMA MachineIncremental ==
  ASSUME TypeOK, TypeOK', PathsAccounted, Quiet, Machine
  PROVE  PathsAccounted'
  <1> USE DEF env, bucket, local, cleanup, counts
  <1>1. CASE Tick
    <2>1. /\ UNCHANGED <<fs, file, mem, index, pc, snapshot, prev, task, parts, packer, held,
                         op, doomed>>
          /\ now' = now + 1
      BY <1>1 DEF Tick
    <2>2. PICK N \in Nat : N = now'
      BY TypeParts DEF TypeOK, Times
    <2>3. now \in Nat /\ now =< N /\ N = now + 1
      BY <2>1, <2>2, TypeParts
    <2>4. FilesTimed'
      <3>1. \A p \in Paths : fs[p].mtime \in Nat /\ fs[p].mtime > 0 /\ fs[p].mtime =< now
        BY TypeParts DEF PathsAccounted, FilesTimed, Files, FileState
      <3>2. \A p \in Paths : fs[p].mtime =< N
        BY <2>3, <3>1
      <3> QED BY <2>1, <2>2, <3>1, <3>2 DEF FilesTimed
    <2>5. IF pc = "CleanupRows" THEN DbSound(WipeBackupJournal(file), fs, index, N)
                                ELSE DbSound(file, fs, index, N)
      BY <2>3, ClockSound, WipeBackupJournalType, TypeParts DEF PathsAccounted
    <2>6. Running => DbSound(mem, fs, index, N) /\ JournalTimes(mem) = {snapshot}
      BY <2>3, ClockSound, TypeParts DEF PathsAccounted
    <2>7. /\ PlacesSound' = PlacesSound /\ ItemsSound' = ItemsSound /\ RowsSound' = RowsSound
          /\ PrevSound' = PrevSound /\ WrittenSound' = WrittenSound
          /\ DeletionSound' = DeletionSound /\ Running' = Running
      BY <2>1 DEF PlacesSound, ItemsSound, RowsSound, PrevSound, WrittenSound, DeletionSound,
                  Running, Snapshots, IsMostRecentSnapshot
    <2> QED
      BY <2>1, <2>2, <2>4, <2>5, <2>6, <2>7 DEF PathsAccounted
  <1>2. CASE Crash
    <2>1. Leave /\ UNCHANGED <<now, fs, file, index>>
      BY <1>2 DEF Crash
    <2>3. pc # "CleanupRows"
      BY <1>2 DEF Crash, Fault, Quiet, Undoing, CancelPlaces, PathsAccounted, PlacesSound,
                  PlayPlaces, GCPlaces, TypeOK, Ops
    <2>2. FilesTimed' /\ DbSound(file, fs, index, now)'
      BY <2>1, <2>3 DEF PathsAccounted, FilesTimed
    <2> QED BY <2>1, <2>2, LeaveIncremental
  <1>3. ASSUME NEW p \in Paths, WriteFile(p) \/ RemoveFile(p) PROVE PathsAccounted'
    <2>1. /\ pc = "Idle" /\ file.journal = {} /\ file.dirents[p] < now
      BY <1>3 DEF WriteFile, RemoveFile, MayChangeFiles, Quiet, HasDirtyBackupJournal
    <2>2. /\ op = "none" /\ task = None /\ parts = {} /\ packer = {} /\ held = {}
          /\ FilesTimed /\ DbSound(file, fs, index, now)
      BY <2>1, AtIdle
    <2>3. UNCHANGED <<now, file, index, pc, op, task, parts, packer, held>>
      BY <1>3 DEF WriteFile, RemoveFile
    <2>4. PICK g : g = fs'
      OBVIOUS
    <2>5. /\ \A q \in Paths : q # p => g[q] = fs[q]
          /\ \/ g[p].exists /\ g[p].mtime = now
             \/ ~g[p].exists /\ g[p].mtime = fs[p].mtime
      <3>1. CASE WriteFile(p)
        BY <2>4, <3>1, TypeParts DEF WriteFile, Files
      <3>2. CASE RemoveFile(p)
        BY <2>4, <3>2, TypeParts DEF RemoveFile, Files, FileState
      <3> QED BY <1>3, <3>1, <3>2
    <2>6. now \in Nat /\ file.dirents[p] \in Nat \cup {NotKnown} /\ NotKnown \in Int
      BY TypeParts, DBParts DEF NotKnown
    <2>7. ~TakenForUnchanged(file, p, g)
      BY <2>1, <2>5, <2>6 DEF TakenForUnchanged
    <2>8. DbSound(file, g, index, now)
      BY <2>1, <2>2, <2>5, <2>7, ChangeSound, TypeParts
    <2>9. \A q \in Paths : g[q].mtime > 0 /\ g[q].mtime =< now
      <3>1. \A q \in Paths : fs[q].mtime \in Nat /\ fs[q].mtime > 0 /\ fs[q].mtime =< now
        BY <2>2, TypeParts DEF FilesTimed, Files, FileState
      <3> QED BY <2>5, <2>6, <3>1
    <2>10. FilesTimed' /\ DbSound(file, fs, index, now)'
      BY <2>3, <2>4, <2>8, <2>9 DEF FilesTimed
    <2> QED
      BY <2>1, <2>2, <2>3, <2>10 DEF PathsAccounted, Running, PlacesSound, ItemsSound,
                                      DeletionSound, PlayPlaces, GCPlaces
  <1> QED
    BY <1>1, <1>2, <1>3 DEF Machine

\* A task ends with its row rewritten, and it alone.
LEMMA EndTaskIncremental ==
  ASSUME TypeOK, PathsAccounted, pc = "Task", NEW db \in DB,
         DbSound(db, fs, index, now), SameRows(db, mem),
         \A q \in db.journal : q \in mem.journal \/ q.status # "InProgress",
         \A q \in db.journal : IsRow(q, task) => q.status # "InProgress",
         mem' = db, task' = None, parts' = {}, held' = {},
         \/ pc' = "Loop"
         \/ pc' = "Index" /\ AllTasksFinished(db),
         UNCHANGED <<now, fs, file, index, snapshot, prev, packer, op, doomed>>
  PROVE  PathsAccounted'
  <1>1. /\ op = "none" /\ FilesTimed /\ ItemsSound /\ RowsSound /\ PrevSound
        /\ DbSound(file, fs, index, now) /\ JournalTimes(mem) = {snapshot}
    BY AtPlay DEF PlayPlaces
  <1>2. held = {}
    BY DEF TypeOK
  <1>3. JournalTimes(db) = {snapshot}
    BY <1>1, SameTimes
  <1>4. FilesTimed' /\ DbSound(file, fs, index, now)' /\ DbSound(mem, fs, index, now)'
    BY <1>1 DEF FilesTimed
  <1>5. PlacesSound' /\ pc' \in {"Loop", "Index"}
    BY <1>1 DEF PlacesSound, Running, PlayPlaces
  <1>6. ItemsSound'
    <2>1. ASSUME NEW i \in packer
          PROVE  /\ i.path \notin LargePaths /\ i.ver = fs[i.path].ver
                 /\ \E r \in db.journal : IsRow(r, i) /\ r.change = "Updated"
      <3>1. PICK r \in mem.journal : IsRow(r, i) /\ r.change = "Updated"
        BY <1>1 DEF ItemsSound
      <3>2. \E q \in db.journal : IsRow(q, i) /\ q.change = "Updated"
        BY <3>1 DEF SameRows, IsRow
      <3> QED BY <1>1, <3>2 DEF ItemsSound
    <2> QED BY <2>1 DEF ItemsSound
  <1>7. RowsSound'
    <2>1. ASSUME NEW r \in db.journal, r.status = "InProgress"
          PROVE  \E i \in packer : IsRow(r, i)
      BY <1>1, <1>2, <2>1 DEF RowsSound
    <2> QED BY <1>5, <2>1 DEF RowsSound
  <1>8. PrevSound'
    <2>1. \A r \in file.journal : r.change = "Unchanged" =>
            \E q \in db.journal : q.path = r.path /\ q.change = "Unchanged"
      BY <1>1 DEF PrevSound, SameRows
    <2>2. \A r \in db.journal : r.change = "Unchanged" =>
            prev # None /\ ListsPresent(prev[r.path], r.path, fs)
      BY <1>1 DEF PrevSound, SameRows
    <2> QED BY <1>1, <2>1, <2>2 DEF PrevSound
  <1>9. DeletionSound'
    BY <1>1, <1>5 DEF DeletionSound
  <1> QED
    BY <1>3, <1>4, <1>5, <1>6, <1>7, <1>8, <1>9 DEF PathsAccounted

\* The claimed row is in the journal, and says what the task says.
LEMMA AtTask ==
  ASSUME TypeOK, PathsAccounted, pc = "Task"
  PROVE  /\ task \in JournalRow /\ task.path \in Paths
         /\ \E r \in mem.journal : IsRow(r, task) /\ r.change = task.change /\ r.status = "InProgress"
         /\ task.change # "Deleted" => HasDirEnt(mem, task.path)
         /\ task.change = "Unchanged" =>
              prev # None /\ ListsPresent(prev[task.path], task.path, fs)
  <1>1. task \in JournalRow /\ task.path \in Paths
    BY DEF TypeOK, JournalRow
  <1>2. RowsSound /\ PrevSound /\ DbSound(mem, fs, index, now)
    BY AtPlay DEF PlayPlaces
  <1>3. PICK r \in mem.journal : IsRow(r, task) /\ r.change = task.change /\ r.status = "InProgress"
    BY <1>2 DEF RowsSound
  <1>4. RowSound(mem, r, fs)
    BY <1>2 DEF DbSound
  <1> QED
    BY <1>1, <1>2, <1>3, <1>4 DEF RowSound, PrevSound, IsRow

\* CompleteBackupJournalTask, as EndTaskIncremental needs it.
LEMMA CompletedRows ==
  ASSUME NEW old \in DB, NEW mid \in DB, NEW t, NEW entry, OneRowPerPath(old),
         mid.journal = old.journal, mid.infos = old.infos, mid.seq = old.seq
  PROVE  LET db == CompleteBackupJournalTask(mid, t, entry)
         IN  /\ SameRows(db, old)
             /\ \A q \in db.journal : q \in old.journal \/ q.status # "InProgress"
             /\ \A q \in db.journal : IsRow(q, t) => q.status # "InProgress"
  <1> DEFINE db == CompleteBackupJournalTask(mid, t, entry)
  <1>1. OneRowPerPath(mid)
    BY DEF OneRowPerPath
  <1>2. /\ SameRows(db, mid)
        /\ \A q \in db.journal :
             \/ q \in mid.journal /\ ~IsRow(q, t)
             \/ IsRow(q, t) /\ q.status = "Finished"
    BY <1>1, SetRowRows DEF CompleteBackupJournalTask
  <1> HIDE DEF db
  <1>3. SameRows(db, old)
    BY <1>2 DEF SameRows
  <1> QED
    BY <1>2, <1>3 DEF db

LEMMA TaskStepsIncremental ==
  ASSUME TypeOK, TypeOK', PathsAccounted, NullsDistinct,
         TaskDeleted \/ TaskWithoutDirEnt \/ TaskUnchanged \/ ReadFails \/ LargeDone
  PROVE  PathsAccounted'
  <1> USE DEF env, bucket, cleanup, counts
  <1>1. pc = "Task"
    BY DEF TaskDeleted, TaskWithoutDirEnt, TaskUnchanged, ReadFails, LargeDone, CallsBackup
  <1>2. /\ mem \in DB /\ fs \in Files /\ index \in IndexObjects /\ now \in Nat /\ mem' \in DB
        /\ DbSound(mem, fs, index, now) /\ OneRowPerPath(mem) /\ ItemsSound
        /\ snapshot # Lost
    BY <1>1, AtPlay, TypeParts DEF PlayPlaces, TypeOK
  <1>3. /\ task \in JournalRow /\ task.path \in Paths
        /\ task.change # "Deleted" => HasDirEnt(mem, task.path)
        /\ task.change = "Unchanged" =>
             prev # None /\ ListsPresent(prev[task.path], task.path, fs)
    BY <1>1, AtTask
  <1>4. PICK row \in mem.journal :
          IsRow(row, task) /\ row.change = task.change /\ row.status = "InProgress"
    BY <1>1, AtTask
  <1>5. UNCHANGED <<now, fs, file, index, snapshot, prev, packer, op, doomed>>
    BY DEF TaskDeleted, TaskWithoutDirEnt, TaskUnchanged, ReadFails, LargeDone
  \* The tasks that end with FinishTask.
  <1>6. ASSUME NEW old \in DB, NEW entry, FinishTask(old, entry),
               old.journal = mem.journal, old.infos = mem.infos, old.seq = mem.seq,
               DbSound(CompleteBackupJournalTask(
                   UpdateLastBackupTime(old, task.path, now), task, entry), fs, index, now)
        PROVE  PathsAccounted'
    <2> DEFINE mid == UpdateLastBackupTime(old, task.path, now)
               db == CompleteBackupJournalTask(mid, task, entry)
    <2>1. mid \in DB
      BY <1>2, <1>6, UpdateLastBackupTimeType
    <2>2. mid.journal = mem.journal /\ mid.infos = mem.infos /\ mid.seq = mem.seq
      BY <1>2, <1>3, <1>6, UpdateLastBackupTimeParts
    <2> HIDE DEF mid
    <2>3. /\ SameRows(db, mem)
          /\ \A q \in db.journal : q \in mem.journal \/ q.status # "InProgress"
          /\ \A q \in db.journal : IsRow(q, task) => q.status # "InProgress"
      BY <1>2, <2>1, <2>2, CompletedRows
    <2>4. EndTask(db) /\ DbSound(db, fs, index, now)
      BY <1>6 DEF FinishTask, mid
    <2> HIDE DEF db
    <2>5. /\ mem' = db /\ db \in DB /\ task' = None /\ parts' = {} /\ held' = {}
          /\ \/ pc' = "Loop"
             \/ pc' = "Index" /\ AllTasksFinished(db)
      BY <1>2, <2>4 DEF EndTask, Goto
    <2> QED
      BY <1>1, <1>5, <2>3, <2>4, <2>5, EndTaskIncremental
  <1>7. CASE TaskDeleted
    <2> DEFINE old == DeleteDirEntByPath(mem, task.path)
    <2>1. /\ old \in DB
          /\ old.journal = mem.journal /\ old.infos = mem.infos /\ old.seq = mem.seq
      BY <1>2, DeleteDirEntByPathType DEF DeleteDirEntByPath, DB
    <2>2. FinishTask(old, NoEntry) /\ task.change = "Deleted"
      BY <1>2, <1>7 DEF TaskDeleted
    <2>3. DbSound(CompleteBackupJournalTask(
              UpdateLastBackupTime(old, task.path, now), task, NoEntry), fs, index, now)
      BY <1>2, <1>3, <1>4, <2>2, FinishDeletedSound
    <2> QED
      BY <1>6, <2>1, <2>2, <2>3
  <1>8. CASE TaskWithoutDirEnt
    BY <1>3, <1>8 DEF TaskWithoutDirEnt
  <1>9. CASE TaskUnchanged
    <2>1. task.change = "Unchanged" /\ prev # None /\ ListsPresent(prev[task.path], task.path, fs)
      BY <1>3, <1>9 DEF TaskUnchanged
    <2>2. prev[task.path] # NoEntry /\ prev[task.path] \in Entries
      BY <1>3, <2>1 DEF ListsPresent, Lists, TypeOK, IndexFile
    <2>3. FinishTask(mem, prev[task.path])
      BY <1>9, <2>2 DEF TaskUnchanged
    <2>4. DbSound(CompleteBackupJournalTask(
              UpdateLastBackupTime(mem, task.path, now), task, prev[task.path]), fs, index, now)
      BY <1>2, <1>3, <1>4, <2>1, <2>2, FinishSound
    <2> QED
      BY <1>2, <1>6, <2>3, <2>4
  <1>10. ASSUME CallsBackup PROVE task.change = "Updated"
    BY <1>3, <1>10 DEF CallsBackup
  <1>11. CASE ReadFails
    <2>1. CallsBackup /\ FailTask /\ task.change = "Updated"
      BY <1>10, <1>11 DEF ReadFails
    <2>2. "readError" \in Allowed
      <3>1. CASE ~Found
        <4>1. RowSound(mem, row, fs)
          BY <1>2 DEF DbSound
        <4>2. ~fs[row.path].exists
          BY <1>2, <1>4, <3>1 DEF Found, IsRow
        <4> QED BY <1>4, <2>1, <4>1, <4>2 DEF RowSound
      <3>2. CASE Found
        BY <1>11, <3>2 DEF ReadFails, Fault
      <3> QED BY <3>1, <3>2
    <2> DEFINE db == CompleteBackupJournalTask(mem, task, NoEntry)
    <2>3. DbSound(db, fs, index, now)
      BY <1>2, <1>3, <1>4, <2>1, <2>2, FailSound
    <2>4. /\ SameRows(db, mem)
          /\ \A q \in db.journal : q \in mem.journal \/ q.status # "InProgress"
          /\ \A q \in db.journal : IsRow(q, task) => q.status # "InProgress"
      BY <1>2, CompletedRows
    <2>5. mem' = db /\ task' = None /\ parts' = {} /\ held' = {} /\ pc' = "Loop"
      BY <2>1 DEF FailTask, Goto
    <2> HIDE DEF db
    <2>6. db \in DB
      BY <1>2, <2>5
    <2> QED
      BY <1>1, <1>5, <2>3, <2>4, <2>5, <2>6, EndTaskIncremental
  <1>12. CASE LargeDone
    <2>1. /\ task.change = "Updated" /\ FinishTask(mem, parts)
          /\ task.path \in LargePaths /\ PartsUploaded = 1..LargeParts
      BY <1>10, <1>12 DEF LargeDone
    <2>2. parts \in Entries /\ parts # NoEntry
      BY DEF TypeOK, Entries, NullsDistinct
    <2>3. ListsPresent(parts, task.path, fs)
      BY <1>2, <2>1, <2>2 DEF ListsPresent, Lists, PartsUploaded, PartsOf, ItemsSound
    <2>4. DbSound(CompleteBackupJournalTask(
              UpdateLastBackupTime(mem, task.path, now), task, parts), fs, index, now)
      BY <1>2, <1>3, <1>4, <2>1, <2>2, <2>3, FinishSound
    <2> QED
      BY <1>2, <1>6, <2>1, <2>4
  <1> QED
    BY <1>7, <1>8, <1>9, <1>11, <1>12

LEMMA LoopStepsIncremental ==
  ASSUME TypeOK, TypeOK', PathsAccounted, NullsDistinct,
         GetPrevSnapshot \/ ClaimNext \/ NoWork
  PROVE  PathsAccounted'
  <1> USE DEF env, bucket, local, cleanup, counts
  <1>1. pc \in {"Group", "Loop"} /\ pc \in PlayPlaces
    BY DEF GetPrevSnapshot, ClaimNext, NoWork, PlayPlaces
  <1>2. /\ mem \in DB /\ fs \in Files /\ index \in IndexObjects /\ now \in Nat /\ mem' \in DB
        /\ Snapshots = SnapshotsIn(index)
    BY TypeParts DEF TypeOK
  <1>3. /\ op = "none" /\ FilesTimed /\ ItemsSound /\ RowsSound
        /\ pc # "Group" => PrevSound
        /\ DbSound(file, fs, index, now) /\ DbSound(mem, fs, index, now)
        /\ JournalTimes(mem) = {snapshot}
        /\ OneRowPerPath(mem)
    BY <1>1, AtPlay
  <1>4. held = {} /\ task = None /\ parts = {}
    BY <1>1, <1>3 DEF TypeOK, ItemsSound, RowsSound
  <1>5. /\ UNCHANGED <<now, fs, index, snapshot, parts, packer, held, op, doomed>>
        /\ file' \in {file, mem}
    BY DEF GetPrevSnapshot, ClaimNext, NoWork, MayPersist
  <1>6. FilesTimed' /\ DbSound(file, fs, index, now)'
    BY <1>3, <1>5 DEF FilesTimed
  <1>7. CASE GetPrevSnapshot
    <2>1. /\ pc = "Group" /\ pc' = "Loop" /\ file' = mem /\ UNCHANGED <<mem, task>>
          /\ \/ Snapshots = {} /\ prev' = None
             \/ \E t \in Snapshots : IsMostRecentSnapshot(t) /\ prev' = index[t]
      BY <1>7, AtPlay DEF GetPrevSnapshot, Goto, PlayPlaces
    <2>2. ASSUME NEW r \in mem.journal, r.change = "Unchanged"
          PROVE  prev' # None /\ ListsPresent(prev'[r.path], r.path, fs)
      <3>1. RowRests(mem, r, fs, index)
        BY <1>3 DEF DbSound
      <3>2. PICK b \in Earlier(mem, index) :
              /\ \A u \in Earlier(mem, index) : u =< b
              /\ ListsPresent(index[b][r.path], r.path, fs)
        BY <2>2, <3>1 DEF RowRests, BaseLists
      <3>3. PICK t \in Snapshots : IsMostRecentSnapshot(t) /\ prev' = index[t]
        BY <1>2, <2>1, <3>2 DEF Earlier
      <3>4. index[t] # None
        BY <3>3 DEF Snapshots
      <3>5. CASE t \in JournalTimes(mem)
        BY <1>2, <2>2, <3>1, <3>3, <3>4, <3>5 DEF RowRests
      <3>6. CASE t \notin JournalTimes(mem)
        <4>1. t \in Earlier(mem, index) /\ b \in Snapshots /\ t \in Nat /\ b \in Nat
          BY <1>2, <3>2, <3>6, BoundsAssumption DEF Earlier, Snapshots, Times
        <4>2. t =< b /\ b =< t
          BY <3>2, <3>3, <4>1 DEF IsMostRecentSnapshot
        <4>3. t = b
          BY <4>1, <4>2
        <4> QED BY <3>2, <3>3, <3>4, <4>3
      <3> QED BY <3>5, <3>6
    <2>3. PlacesSound' /\ DeletionSound'
      BY <1>3, <1>5, <2>1 DEF PlacesSound, Running, PlayPlaces, DeletionSound
    <2>4. ItemsSound'
      BY <1>3, <1>4, <1>5, <2>1 DEF ItemsSound
    <2>5. RowsSound'
      BY <1>3, <1>4, <1>5, <2>1 DEF RowsSound
    <2>6. PrevSound'
      BY <1>3, <1>5, <2>1, <2>2 DEF PrevSound
    <2> QED
      BY <1>3, <1>5, <1>6, <2>1, <2>3, <2>4, <2>5, <2>6 DEF PathsAccounted
  <1>8. CASE ClaimNext
    <2>1. PICK t \in UnstartedRows(mem) :
            mem' = ClaimBackupJournalTask(mem, t) /\ task' = t
      BY <1>8 DEF ClaimNext
    <2>2. /\ pc = "Loop" /\ pc' = "Task" /\ UNCHANGED prev
      BY <1>8 DEF ClaimNext, Goto
    <2>3. t \in mem.journal /\ t.status = "Unstarted" /\ t \in JournalRow
      BY <1>2, DBParts DEF UnstartedRows
    <2>4. DbSound(mem', fs, index, now)
      BY <1>2, <1>3, <2>1, <2>3, ClaimSound
    <2>5. /\ SameRows(mem', mem)
          /\ \A q \in mem'.journal :
               \/ q \in mem.journal /\ ~IsRow(q, t)
               \/ IsRow(q, t) /\ q.status = "InProgress"
          /\ \E q \in mem'.journal : /\ IsRow(q, t) /\ q.change = t.change
                                     /\ q.status = "InProgress"
      <3> DEFINE db == SetRow(mem, t, "InProgress", t.entry)
      <3>1. /\ SameRows(db, mem)
            /\ \A q \in db.journal :
                 \/ q \in mem.journal /\ ~IsRow(q, t)
                 \/ IsRow(q, t) /\ q.status = "InProgress"
            /\ \A r \in mem.journal : IsRow(r, t) =>
                 \E q \in db.journal : /\ IsRow(q, t) /\ q.change = r.change
                                       /\ q.status = "InProgress"
        BY <1>2, <1>3, SetRowRows
      <3>2. IsRow(t, t) /\ mem' = db
        BY <2>1 DEF IsRow, ClaimBackupJournalTask
      <3> HIDE DEF db
      <3> QED BY <2>3, <3>1, <3>2
    <2>6. JournalTimes(mem') = {snapshot}
      BY <1>3, <2>5, SameTimes
    <2>7. PlacesSound' /\ DeletionSound'
      BY <1>3, <1>5, <2>2 DEF PlacesSound, Running, PlayPlaces, DeletionSound
    <2>8. ItemsSound'
      <3>1. \A i \in packer : \E r \in mem'.journal : IsRow(r, i) /\ r.change = "Updated"
        <4>1. ASSUME NEW i \in packer
              PROVE  \E r \in mem'.journal : IsRow(r, i) /\ r.change = "Updated"
          <5>1. PICK r \in mem.journal : IsRow(r, i) /\ r.change = "Updated"
            BY <1>3 DEF ItemsSound
          <5> QED BY <2>5, <5>1 DEF SameRows, IsRow
        <4> QED BY <4>1
      <3> QED BY <1>3, <1>4, <1>5, <3>1 DEF ItemsSound
    <2>9. RowsSound'
      <3>1. ASSUME NEW r \in mem'.journal, r.status = "InProgress"
            PROVE  (task' # None /\ IsRow(r, task')) \/ \E i \in packer : IsRow(r, i)
        <4>1. CASE IsRow(r, t)
          BY <2>1, <2>3, <4>1 DEF NullsDistinct
        <4>2. CASE ~IsRow(r, t)
          BY <1>3, <1>4, <2>5, <3>1, <4>2 DEF RowsSound
        <4> QED BY <4>1, <4>2
      <3> QED BY <1>4, <1>5, <2>1, <2>2, <2>5, <3>1 DEF RowsSound
    <2>10. PrevSound'
      <3>1. /\ PrevSound /\ file' \in {file, mem}
        BY <1>3, <1>5, <2>2
      <3>2. JournalTimes(file') = {snapshot}
        BY <1>3, <3>1 DEF PrevSound
      <3>3. \A r \in file'.journal : r.change = "Unchanged" =>
              \E q \in mem.journal : q.path = r.path /\ q.change = "Unchanged"
        BY <3>1 DEF PrevSound
      <3>4. \A r \in file'.journal : r.change = "Unchanged" =>
              \E q \in mem'.journal : q.path = r.path /\ q.change = "Unchanged"
        BY <2>5, <3>3 DEF SameRows
      <3>5. \A r \in mem'.journal : r.change = "Unchanged" =>
              prev # None /\ ListsPresent(prev[r.path], r.path, fs)
        BY <2>5, <3>1 DEF PrevSound, SameRows
      <3> QED BY <1>5, <2>2, <3>2, <3>4, <3>5 DEF PrevSound
    <2> QED
      BY <1>3, <1>5, <1>6, <2>2, <2>4, <2>6, <2>7, <2>8, <2>9, <2>10 DEF PathsAccounted
  <1>9. CASE NoWork
    <2>1. /\ pc = "Loop" /\ pc' = (IF packer = {} THEN "Index" ELSE "Flush")
          /\ UnstartedRows(mem) = {}
          /\ UNCHANGED <<mem, prev, task>>
      BY <1>9 DEF NoWork, Goto
    <2>2. ASSUME packer = {} PROVE AllTasksFinished(mem)
      BY <1>2, <1>3, <1>4, <2>1, <2>2, DBParts
         DEF RowsSound, UnstartedRows, AllTasksFinished, JournalRow, Statuses
    <2>3. PlacesSound' /\ DeletionSound'
      BY <1>3, <1>5, <2>1 DEF PlacesSound, Running, PlayPlaces, DeletionSound
    <2>4. ItemsSound'
      BY <1>3, <1>4, <1>5, <2>1 DEF ItemsSound
    <2>5. RowsSound'
      BY <1>3, <1>4, <1>5, <2>1, <2>2 DEF RowsSound
    <2>6. PrevSound'
      BY <1>3, <1>5, <2>1 DEF PrevSound
    <2> QED
      BY <1>3, <1>5, <1>6, <2>1, <2>3, <2>4, <2>5, <2>6 DEF PathsAccounted
  <1> QED
    BY <1>7, <1>8, <1>9

LEMMA PackStepsIncremental ==
  ASSUME TypeOK, TypeOK', PathsAccounted, NullsDistinct,
         BackupSmall \/ UploadPart \/ PersistWhileUploading \/ UploadPacker \/ Finalize
  PROVE  PathsAccounted'
  <1> USE DEF env, bucket, local, cleanup, counts
  <1>1. pc \in {"Task", "Flush", "Finalize"} /\ pc \in PlayPlaces
    BY DEF BackupSmall, UploadPart, CallsBackup, PersistWhileUploading, UploadPacker, Finalize,
           PlayPlaces
  <1>2. /\ mem \in DB /\ fs \in Files /\ index \in IndexObjects /\ now \in Nat /\ mem' \in DB
    BY TypeParts DEF TypeOK
  <1>3. /\ op = "none" /\ FilesTimed /\ ItemsSound /\ RowsSound /\ PrevSound
        /\ DbSound(file, fs, index, now) /\ DbSound(mem, fs, index, now)
        /\ JournalTimes(mem) = {snapshot}
        /\ OneRowPerPath(mem)
    BY <1>1, AtPlay
  <1>4. /\ UNCHANGED <<now, fs, index, snapshot, prev, op, doomed>>
        /\ file' \in {file, mem}
    BY DEF BackupSmall, UploadPart, PersistWhileUploading, UploadPacker, Finalize, NewChunk
  <1>5. FilesTimed' /\ DbSound(file, fs, index, now)'
    BY <1>3, <1>4 DEF FilesTimed
  <1>6. ASSUME UNCHANGED mem PROVE PrevSound'
    BY <1>3, <1>4, <1>6 DEF PrevSound
  \* What remains to be shown of a step that stays in the loop.
  <1>7. ASSUME pc' \in {"Task", "Loop", "Flush", "Finalize", "Index"},
               DbSound(mem, fs, index, now)', JournalTimes(mem') = {snapshot},
               ItemsSound', RowsSound', PrevSound'
        PROVE  PathsAccounted'
    <2>1. PlacesSound' /\ DeletionSound'
      BY <1>3, <1>4, <1>7 DEF PlacesSound, Running, PlayPlaces, DeletionSound
    <2> QED
      BY <1>4, <1>5, <1>7, <2>1 DEF PathsAccounted
  <1>8. CASE BackupSmall
    <2>1. /\ pc = "Task" /\ task.path \notin LargePaths /\ UNCHANGED <<mem, parts>>
          /\ task.change = "Updated" \/ (task.change = "Unchanged" /\ prev = None)
          /\ Found
          /\ \/ /\ packer' = packer \cup {ItemRead} /\ task' = None /\ pc' = "Loop"
                /\ held' = held
             \/ /\ held' = {ItemRead} /\ pc' = "Flush" /\ UNCHANGED <<packer, task>>
      BY <1>8 DEF BackupSmall, CallsBackup, Goto
    <2>2. PICK row \in mem.journal :
            IsRow(row, task) /\ row.change = task.change /\ row.status = "InProgress"
      BY <2>1, AtTask
    <2>3. task.change = "Updated"
      BY <2>1, AtTask
    <2>4. /\ ItemRead.path = task.path /\ ItemRead.info = task.info
          /\ ItemRead.ver = fs[task.path].ver
          /\ \A r : IsRow(r, ItemRead) <=> IsRow(r, task)
      BY DEF ItemRead, IsRow
    <2>5. held = {}
      BY <2>1 DEF TypeOK
    <2>6. parts = {}
      \* A small file is never read in parts.
      BY <1>3, <2>1 DEF ItemsSound
    <2> HIDE DEF ItemRead
    <2>7. ItemsSound'
      <3>1. \A i \in packer' \cup held' : i \in packer \/ i = ItemRead
        BY <2>1, <2>5
      <3>2. ASSUME NEW i \in packer' \cup held'
            PROVE  /\ i.path \notin LargePaths /\ i.ver = fs[i.path].ver
                   /\ \E r \in mem.journal : IsRow(r, i) /\ r.change = "Updated"
        BY <1>3, <2>1, <2>2, <2>3, <2>4, <3>1 DEF ItemsSound
      <3>3. \A i \in held' : i.info = task'.info /\ i.path = task'.path
        BY <2>1, <2>4, <2>5
      <3> QED BY <1>4, <2>1, <2>6, <3>2, <3>3 DEF ItemsSound
    <2>8. RowsSound'
      <3>1. ASSUME NEW r \in mem.journal, r.status = "InProgress"
            PROVE  \E i \in packer' \cup held' : IsRow(r, i)
        BY <1>3, <2>1, <2>4, <2>5, <3>1 DEF RowsSound
      <3>2. held' # {} \/ pc' = "Loop"
        BY <2>1
      <3> QED BY <2>1, <3>1, <3>2 DEF RowsSound
    <2> QED
      BY <1>3, <1>4, <1>6, <1>7, <2>1, <2>7, <2>8
  <1>9. CASE UploadPart
    <2>1. /\ pc = "Task" /\ task.path \in LargePaths
          /\ UNCHANGED <<mem, pc, task, packer, held>>
          /\ \A e \in parts' : e \in parts \/ e.ver = fs[task.path].ver
      BY <1>9 DEF UploadPart, CallsBackup
    <2>2. ItemsSound'
      BY <1>3, <1>4, <2>1 DEF ItemsSound
    <2>3. RowsSound'
      BY <1>3, <2>1 DEF RowsSound
    <2> QED
      BY <1>3, <1>4, <1>6, <1>7, <2>1, <2>2, <2>3
  <1>10. CASE PersistWhileUploading
    <2>1. pc = "Flush" /\ UNCHANGED <<mem, pc, task, parts, packer, held>>
      BY <1>10 DEF PersistWhileUploading
    <2>2. ItemsSound' /\ RowsSound'
      BY <1>3, <1>4, <2>1 DEF ItemsSound, RowsSound
    <2> QED
      BY <1>3, <1>4, <1>6, <1>7, <2>1, <2>2
  <1>11. CASE UploadPacker
    <2>1. pc = "Flush" /\ pc' = "Finalize" /\ UNCHANGED <<mem, task, parts, packer, held>>
      BY <1>11 DEF UploadPacker, Goto
    <2>2. ItemsSound' /\ RowsSound'
      BY <1>3, <1>4, <2>1 DEF ItemsSound, RowsSound
    <2> QED
      BY <1>3, <1>4, <1>6, <1>7, <2>1, <2>2
  <1>12. CASE Finalize
    <2>1. /\ pc = "Finalize" /\ mem' = FinalizeItems(mem, packer, nextChunk - 1, now)
          /\ packer' = held /\ held' = {} /\ task' = None /\ UNCHANGED parts
          /\ pc' = (IF held = {} THEN "Index" ELSE "Loop")
      BY <1>12 DEF Finalize, Goto
    <2>2. packer \in SUBSET Item /\ nextChunk - 1 \in Nat /\ parts = {}
      BY <1>3, <2>1 DEF TypeOK, ItemsSound
    <2>3. DbSound(mem', fs, index, now)
      BY <1>2, <1>3, <2>1, <2>2, FinalizeSound DEF ItemsSound
    <2>4. /\ SameRows(mem', mem)
          /\ \A q \in mem'.journal :
               \/ q \in mem.journal /\ ~\E i \in packer : IsRow(q, i)
               \/ q.status = "Finished"
      <3>1. mem \in DB /\ OneRowPerPath(mem) /\ now \in Nat
        BY <1>2, <1>3
      <3>2. SameRows(FinalizeItems(mem, packer, nextChunk - 1, now), mem)
        BY <2>2, <3>1, FinalizeSettles
      <3>3. \A q \in FinalizeItems(mem, packer, nextChunk - 1, now).journal :
              \/ q \in mem.journal /\ ~\E i \in packer : IsRow(q, i)
              \/ q.status = "Finished"
        BY <2>2, <3>1, FinalizeSettles
      <3> QED BY <2>1, <3>2, <3>3
    <2>5. JournalTimes(mem') = {snapshot}
      BY <1>3, <2>4, SameTimes
    <2>6. ItemsSound'
      <3>1. ASSUME NEW i \in held
            PROVE  /\ i.path \notin LargePaths /\ i.ver = fs[i.path].ver
                   /\ \E r \in mem'.journal : IsRow(r, i) /\ r.change = "Updated"
        <4>1. PICK r \in mem.journal : IsRow(r, i) /\ r.change = "Updated"
          BY <1>3 DEF ItemsSound
        <4>2. \E q \in mem'.journal : IsRow(q, i) /\ q.change = "Updated"
          BY <2>4, <4>1 DEF SameRows, IsRow
        <4> QED BY <1>3, <4>2 DEF ItemsSound
      <3> QED BY <1>4, <2>1, <2>2, <3>1 DEF ItemsSound
    <2>7. RowsSound'
      <3>1. ASSUME NEW r \in mem'.journal, r.status = "InProgress"
            PROVE  \E i \in held : IsRow(r, i)
        <4>1. r \in mem.journal /\ ~\E i \in packer : IsRow(r, i)
          BY <2>4, <3>1
        <4>2. CASE \E i \in held : IsRow(r, i)
          BY <4>2
        <4>3. CASE task # None /\ IsRow(r, task)
          <5>1. held # {}
            BY <1>3, <2>1, <4>3 DEF RowsSound
          <5> QED BY <1>3, <4>3, <5>1 DEF ItemsSound, IsRow
        <4> QED BY <1>3, <3>1, <4>1, <4>2, <4>3 DEF RowsSound
      <3>2. ASSUME held = {} PROVE AllTasksFinished(mem')
        <4>1. UnstartedRows(mem) = {}
          BY <1>3, <2>1, <3>2 DEF RowsSound
        <4>2. ASSUME NEW r \in mem'.journal PROVE r.status = "Finished"
          <5>1. r \in JournalRow
            BY <1>2, DBParts
          <5>2. r.status # "InProgress"
            BY <3>1, <3>2
          <5>3. r.status # "Unstarted"
            BY <2>4, <4>1 DEF UnstartedRows
          <5> QED BY <5>1, <5>2, <5>3 DEF JournalRow, Statuses
        <4> QED BY <4>2 DEF AllTasksFinished
      <3> QED BY <2>1, <3>1, <3>2 DEF RowsSound
    <2>8. PrevSound'
      <3>1. file' = file
        BY <1>12 DEF Finalize
      <3>2. \A r \in file.journal : r.change = "Unchanged" =>
              \E q \in mem'.journal : q.path = r.path /\ q.change = "Unchanged"
        BY <1>3, <2>4 DEF PrevSound, SameRows
      <3>3. \A r \in mem'.journal : r.change = "Unchanged" =>
              prev # None /\ ListsPresent(prev[r.path], r.path, fs)
        BY <1>3, <2>4 DEF PrevSound, SameRows
      <3> QED BY <1>3, <1>4, <3>1, <3>2, <3>3 DEF PrevSound
    <2> QED
      BY <1>4, <1>7, <2>1, <2>3, <2>5, <2>6, <2>7, <2>8
  <1> QED
    BY <1>8, <1>9, <1>10, <1>11, <1>12

\* When every task is finished, what the index will say of a path.
LEMMA FinishedIndex ==
  ASSUME NEW db \in DB, NEW f, NEW ix, NEW n, DbSound(db, f, ix, n), AllTasksFinished(db)
  PROVE  /\ \A r \in db.journal : r.change = "Unchanged" =>
              ListsPresent(IndexFileOf(db)[r.path], r.path, f)
         /\ db.journal # {} => \A p \in Paths : TakenForUnchanged(db, p, f) =>
              ListsPresent(IndexFileOf(db)[p], p, f)
         /\ "readError" \notin Allowed /\ db.journal # {} => \A p \in Paths :
              IF f[p].exists THEN ListsPresent(IndexFileOf(db)[p], p, f)
                             ELSE IndexFileOf(db)[p] = NoEntry
  <1>1. OneRowPerPath(db)
    BY DEF DbSound, JournalShape
  <1>2. \A p \in Paths : IndexFileOf(db)[p] = IndexEntry(db, p)
    BY DEF IndexFileOf
  <1>3. ASSUME NEW r \in db.journal
        PROVE  /\ r.path \in Paths /\ IndexFileOf(db)[r.path] = r.entry
               /\ RowSound(db, r, f) /\ r.status = "Finished" /\ r.change \in ChangeTypes
    <2>1. r.path \in Paths /\ r.change \in ChangeTypes
      BY DBParts DEF JournalRow
    <2>2. IndexEntry(db, r.path) = r.entry
      BY <1>1, IndexEntryOfRow
    <2> QED
      BY <1>2, <2>1, <2>2 DEF DbSound, AllTasksFinished
  <1>4. ASSUME NEW p \in Paths, TakenForUnchanged(db, p, f), db.journal # {}
        PROVE  ListsPresent(IndexFileOf(db)[p], p, f)
    <2>1. PICK r \in db.journal : r.path = p
      BY <1>4 DEF DbSound, PathSound, TakenForUnchanged
    <2> QED
      BY <1>3, <1>4, <2>1 DEF RowSound
  <1>5. ASSUME NEW p \in Paths, "readError" \notin Allowed, db.journal # {}
        PROVE  IF f[p].exists THEN ListsPresent(IndexFileOf(db)[p], p, f)
                              ELSE IndexFileOf(db)[p] = NoEntry
    <2>1. CASE f[p].exists
      <3>1. PICK r \in db.journal : r.path = p
        BY <1>5, <2>1 DEF DbSound, PathSound
      <3> QED
        BY <1>3, <1>5, <2>1, <3>1 DEF RowSound, ChangeTypes
    <2>2. CASE ~f[p].exists
      <3>1. CASE \E r \in db.journal : r.path = p
        BY <1>3, <1>5, <2>2, <3>1 DEF RowSound
      <3>2. CASE ~\E r \in db.journal : r.path = p
        BY <1>1, <1>2, <2>2, <3>2, IndexEntryOfRow
      <3> QED BY <3>1, <3>2
    <2> QED BY <2>1, <2>2
  <1> QED
    BY <1>3, <1>4, <1>5 DEF RowSound

LEMMA JournalNonempty ==
  ASSUME NEW db, NEW s, JournalTimes(db) = {s}
  PROVE  db.journal # {} /\ \E i \in db.infos : i.time = s
  BY DEF JournalTimes, JournaledInfos

LEMMA JournalHasInfo ==
  ASSUME NEW db, NEW f, NEW ix, NEW n, DbSound(db, f, ix, n), db.journal # {}
  PROVE  JournaledInfos(db) # {}
  BY DEF DbSound, JournalShape, JournaledInfos

\* The index object is written, and the journal wiped.
LEMMA IndexStepsIncremental ==
  ASSUME TypeOK, TypeOK', PathsAccounted, NullsDistinct, WriteIndexFile \/ WipeJournal
  PROVE  PathsAccounted'
  <1> USE DEF env, bucket, local, cleanup, counts
  <1>1. pc \in {"Index", "Wipe"} /\ pc \in PlayPlaces
    BY DEF WriteIndexFile, WipeJournal, PlayPlaces
  <1>2. /\ mem \in DB /\ file \in DB /\ fs \in Files /\ index \in IndexObjects
        /\ now \in Nat /\ now \in Times /\ Snapshots = SnapshotsIn(index)
    BY TypeParts
  <1>3. /\ op = "none" /\ FilesTimed /\ ItemsSound /\ RowsSound /\ PrevSound
        /\ DbSound(file, fs, index, now) /\ DbSound(mem, fs, index, now)
        /\ JournalTimes(mem) = {snapshot} /\ JournalTimes(file) = {snapshot}
    BY <1>1, AtPlay DEF PrevSound
  <1>4. CASE WriteIndexFile
    <2> DEFINE x == IndexFileOf(mem)
               jx == [index EXCEPT ![snapshot] = x]
    <2>1. /\ pc = "Index" /\ pc' = "Wipe" /\ index' = jx
          /\ UNCHANGED <<now, fs, file, mem, snapshot, prev, task, parts, packer, held, op, doomed>>
      BY <1>4 DEF WriteIndexFile, Goto
    <2>2. AllTasksFinished(mem)
      BY <1>3, <2>1 DEF RowsSound
    <2>3. x # None
      BY <1>2, IndexFileOfType DEF NullsDistinct, IndexFile
    <2>4. snapshot \in Times \ {Lost}
      BY <1>2, <1>3, OwnTime
    <2>5. mem.journal # {}
      BY <1>3, JournalNonempty
    <2>6. /\ \A r \in mem.journal : r.change = "Unchanged" => ListsPresent(x[r.path], r.path, fs)
          /\ \A p \in Paths : TakenForUnchanged(mem, p, fs) => ListsPresent(x[p], p, fs)
      BY <1>2, <1>3, <2>2, <2>5, FinishedIndex
    <2>7. jx[snapshot] = x
      BY <1>2, <2>4 DEF IndexObjects
    <2> HIDE DEF x
    <2>8. DbSound(mem, fs, jx, now)
      BY <1>2, <1>3, <2>4, <2>6, OwnIndexSound
    <2>9. DbSound(file, fs, jx, now)
      <3>1. \A r \in file.journal : r.change = "Unchanged" => ListsPresent(x[r.path], r.path, fs)
        BY <1>3, <2>6 DEF PrevSound
      <3> QED BY <1>2, <1>3, <2>4, <3>1, OwnIndexSound
    <2> HIDE DEF jx
    <2>10. WrittenSound'
      BY <2>1, <2>3, <2>4, <2>6, <2>7 DEF WrittenSound, Snapshots
    <2>11. FilesTimed' /\ PlacesSound' /\ DeletionSound'
      BY <1>3, <2>1 DEF FilesTimed, PlacesSound, Running, PlayPlaces, DeletionSound
    <2>12. ItemsSound'
      BY <1>3, <2>1 DEF ItemsSound
    <2>13. RowsSound' /\ PrevSound'
      BY <1>3, <2>1, <2>2 DEF RowsSound, PrevSound
    <2> QED
      BY <1>3, <2>1, <2>8, <2>9, <2>10, <2>11, <2>12, <2>13 DEF PathsAccounted
  <1>5. CASE WipeJournal
    <2>1. /\ pc = "Wipe" /\ file' = WipeBackupJournal(mem) /\ Leave
          /\ UNCHANGED <<now, fs, index>>
      BY <1>5 DEF WipeJournal
    <2>2. WrittenSound
      BY <2>1 DEF PathsAccounted
    <2>3. DbSound(WipeBackupJournal(mem), fs, index, now)
      BY <1>2, <1>3, <2>2, WipeSound DEF WrittenSound
    <2>4. FilesTimed' /\ DbSound(file, fs, index, now)'
      BY <1>3, <2>1, <2>3 DEF FilesTimed
    <2> QED BY <2>1, <2>4, LeaveIncremental
  <1> QED
    BY <1>4, <1>5

\* The steps with which a backup, a replay or a deletion begins.
LEMMA StartIncremental ==
  ASSUME TypeOK, TypeOK', PathsAccounted, Quiet,
         Start \/ ReplayBackupJournal \/ CancelBackup
  PROVE  PathsAccounted'
  <1> USE DEF env, bucket, local, cleanup, counts
  <1>1. /\ mem \in DB /\ file \in DB /\ fs \in Files /\ index \in IndexObjects
        /\ now \in Nat \ {0} /\ Snapshots = SnapshotsIn(index) /\ mem' \in DB
    BY TypeParts DEF TypeOK
  \* A journal has just been filled or taken up in the copy.
  <1>2. ASSUME pc = "Idle", pc' = "Group", DbSound(mem', fs, index, now),
               JournalTimes(mem') = {snapshot'},
               \A r \in mem'.journal : r.status # "InProgress",
               UNCHANGED <<now, fs, file, index, prev, task, parts, packer, held, op, doomed>>
        PROVE  PathsAccounted'
    <2>1. /\ op = "none" /\ task = None /\ parts = {} /\ packer = {} /\ held = {}
          /\ FilesTimed /\ DbSound(file, fs, index, now)
      BY <1>2, AtIdle
    <2>2. FilesTimed' /\ DbSound(file, fs, index, now)' /\ DbSound(mem, fs, index, now)'
      BY <1>2, <2>1 DEF FilesTimed
    <2>3. PlacesSound' /\ ItemsSound' /\ RowsSound' /\ DeletionSound'
      BY <1>2, <2>1 DEF PlacesSound, Running, PlayPlaces, ItemsSound, RowsSound, DeletionSound
    <2> QED
      BY <1>2, <2>2, <2>3 DEF PathsAccounted
  <1>3. ASSUME NEW db \in DB, NEW info \in GetJournaledBackupInfo(db),
               \A s \in JournalTimes(db) : \A u \in JournalTimes(db) : s = u
        PROVE  JournalTimes(db) = {info.time}
    BY <1>3 DEF GetJournaledBackupInfo, JournalTimes
  <1>4. CASE DoJournaledBackup
    <2>1. /\ pc = "Idle" /\ file.journal = {} /\ \A i \in file.infos : i.time # now
          /\ UNCHANGED <<now, fs, index>>
      BY <1>4 DEF DoJournaledBackup, Quiet, HasDirtyBackupJournal
    <2>2. /\ op = "none" /\ task = None /\ parts = {} /\ packer = {} /\ held = {}
          /\ FilesTimed /\ DbSound(file, fs, index, now)
          /\ \A p \in Paths : fs[p].mtime > 0
      BY <2>1, AtIdle
    <2>3. PICK seen \in SUBSET Paths :
            LET db == FillJournal(file, seen, now)
            IN  /\ Walk(seen)
                /\ \/ /\ \E info \in GetJournaledBackupInfo(db) : snapshot' = info.time
                      /\ mem' = db
                      /\ Goto("Group")
                      /\ UNCHANGED <<file, prev, task, parts, packer, held, cleanup>>
                   \/ /\ GetJournaledBackupInfo(db) = {}
                      /\ file' = db
                      /\ UNCHANGED <<mem, pc, local, cleanup>>
      BY <1>4 DEF DoJournaledBackup
    <2> DEFINE db == FillJournal(file, seen, now)
    <2>4. /\ seen \in SUBSET {p \in Paths : fs[p].exists}
          /\ "readError" \notin Allowed => seen = {p \in Paths : fs[p].exists}
      BY <2>3 DEF Walk
    <2>5. /\ DbSound(db, fs, index, now)
          /\ JournalTimes(db) \subseteq {now}
          /\ \A r \in db.journal : r.status = "Unstarted"
      BY <1>1, <2>1, <2>2, <2>4, FillSound
    <2>6. db \in DB
      BY <1>1, <2>3, FillJournalType
    <2>7. CASE /\ \E info \in GetJournaledBackupInfo(db) : snapshot' = info.time
               /\ mem' = db
               /\ Goto("Group")
               /\ UNCHANGED <<file, prev, task, parts, packer, held, cleanup>>
      <3> HIDE DEF db
      <3>1. JournalTimes(mem') = {snapshot'}
        BY <1>3, <2>5, <2>6, <2>7
      <3> QED
        BY <1>2, <2>1, <2>5, <2>7, <3>1 DEF Goto
    <2>8. CASE file' = db /\ UNCHANGED <<mem, pc, local, cleanup>>
      <3> HIDE DEF db
      <3>1. FilesTimed' /\ DbSound(file, fs, index, now)'
        BY <2>1, <2>2, <2>5, <2>8 DEF FilesTimed
      <3>2. UNCHANGED <<pc, op, task, parts, packer, held>>
        BY <2>8
      <3> QED
        BY <2>1, <2>2, <3>1, <3>2 DEF PathsAccounted, Running, PlacesSound, ItemsSound,
                                       DeletionSound, PlayPlaces, GCPlaces
    <2> QED BY <2>3, <2>7, <2>8
  <1>5. CASE ReplayBackupJournal
    <2>1. /\ pc = "Idle" /\ pc' = "Group"
          /\ mem' = ResetAllInProgressBackupJournalTasks(file)
          /\ UNCHANGED <<now, fs, file, index, prev, task, parts, packer, held, op, doomed>>
      BY <1>5 DEF ReplayBackupJournal, Goto
    <2>3. DbSound(file, fs, index, now)
      BY <2>1, AtIdle
    <2>2. PICK info \in GetJournaledBackupInfo(file) : snapshot' = info.time
      BY <1>5, <2>3, JournalHasInfo DEF ReplayBackupJournal, HasDirtyBackupJournal
    <2>4. OneRowPerPath(file) /\ \A s \in JournalTimes(file) : \A u \in JournalTimes(file) : s = u
      BY <2>3 DEF DbSound, JournalShape
    <2>5. JournalTimes(file) = {snapshot'}
      BY <1>1, <1>3, <2>2, <2>4
    <2>6. /\ SameRows(mem', file)
          /\ \A r \in mem'.journal : r.status # "InProgress"
      BY <1>1, <2>1, <2>4, ReplayRows
    <2>7. DbSound(mem', fs, index, now)
      BY <1>1, <2>1, <2>3, ReplaySound
    <2>8. JournalTimes(mem') = {snapshot'}
      BY <2>5, <2>6, SameTimes
    <2> QED
      BY <1>2, <2>1, <2>6, <2>7, <2>8
  <1>6. CASE ForceFullBackup
    <2>1. /\ pc = "Idle" /\ file' = ResetLastBackedUpTime(file)
          /\ UNCHANGED <<now, fs, index, pc, op, task, parts, packer, held>>
      BY <1>6 DEF ForceFullBackup
    <2>2. /\ op = "none" /\ task = None /\ parts = {} /\ packer = {} /\ held = {}
          /\ FilesTimed /\ DbSound(file, fs, index, now)
          /\ \A p \in Paths : fs[p].mtime > 0
      BY <2>1, AtIdle
    <2>3. DbSound(ResetLastBackedUpTime(file), fs, index, now)
      BY <1>1, <2>2, ForceFullSound
    <2>4. FilesTimed' /\ DbSound(file, fs, index, now)'
      BY <2>1, <2>2, <2>3 DEF FilesTimed
    <2> QED
      BY <2>1, <2>2, <2>4 DEF PathsAccounted, Running, PlacesSound, ItemsSound,
                               DeletionSound, PlayPlaces, GCPlaces
  <1>7. CASE DeleteSnapshots
    <2>1. /\ pc = "Idle" /\ file.journal = {}
          /\ UNCHANGED <<now, fs, index, mem, snapshot, prev, task, parts, packer, held>>
      BY <1>7 DEF DeleteSnapshots, Quiet, HasDirtyBackupJournal
    <2>2. PICK S \in SUBSET Snapshots \ {{}} :
            /\ file' = IF \E t \in S : IsMostRecentSnapshot(t)
                       THEN ResetLastBackedUpTime(file) ELSE file
            /\ StartDeletion("delete", S)
      BY <1>7 DEF DeleteSnapshots
    <2>3. op' = "delete" /\ doomed' = S /\ pc' = "DeleteIndex"
      BY <2>2 DEF StartDeletion, Goto
    <2>4. /\ op = "none" /\ task = None /\ parts = {} /\ packer = {} /\ held = {}
          /\ FilesTimed /\ DbSound(file, fs, index, now)
          /\ \A p \in Paths : fs[p].mtime > 0
      BY <2>1, AtIdle
    <2>5. /\ DbSound(file', fs, index, now) /\ file'.journal = {}
          /\ \/ \A p \in Paths : ~TakenForUnchanged(file', p, fs)
             \/ \A t \in S : ~IsMostRecentSnapshot(t)
      <3>1. /\ DbSound(ResetLastBackedUpTime(file), fs, index, now)
            /\ \A p \in Paths : ~TakenForUnchanged(ResetLastBackedUpTime(file), p, fs)
            /\ ResetLastBackedUpTime(file).journal = {}
        BY <1>1, <2>1, <2>4, ForceFullSound
      <3>2. CASE \E t \in S : IsMostRecentSnapshot(t)
        BY <2>2, <3>1, <3>2
      <3>3. CASE ~\E t \in S : IsMostRecentSnapshot(t)
        BY <2>1, <2>2, <2>4, <3>3
      <3> QED BY <3>2, <3>3
    <2>6. FilesTimed' /\ DbSound(file, fs, index, now)'
      BY <2>1, <2>4, <2>5 DEF FilesTimed
    <2>7. ~Running' /\ PlacesSound' /\ ItemsSound'
      BY <2>1, <2>3, <2>4 DEF Running, PlacesSound, ItemsSound, PlayPlaces, GCPlaces
    <2>8. DeletionSound'
      BY <2>1, <2>3, <2>5 DEF DeletionSound, IsMostRecentSnapshot, Snapshots
    <2> QED
      BY <2>3, <2>6, <2>7, <2>8 DEF PathsAccounted, PlayPlaces
  <1>8. CASE CloudRm
    BY <1>8 DEF CloudRm, Quiet
  <1>9. CASE RollBack
    <2>1. PICK info \in GetJournaledBackupInfo(file) : StartDeletion("rollback", {info.time})
      BY <1>9 DEF RollBack
    <2>2. /\ pc = "Idle" /\ op' = "rollback" /\ doomed' = {info.time} /\ pc' = "DeleteIndex"
          /\ UNCHANGED <<now, fs, file, index, mem, snapshot, prev, task, parts, packer, held>>
      BY <1>9, <2>1 DEF RollBack, StartDeletion, Goto
    <2>3. /\ op = "none" /\ task = None /\ parts = {} /\ packer = {} /\ held = {}
          /\ FilesTimed /\ DbSound(file, fs, index, now)
      BY <2>2, AtIdle
    <2>4. JournalTimes(file) = {info.time}
      BY <1>1, <1>3, <2>3 DEF DbSound, JournalShape
    <2>5. FilesTimed' /\ DbSound(file, fs, index, now)'
      BY <2>2, <2>3 DEF FilesTimed
    <2>6. ~Running' /\ PlacesSound' /\ ItemsSound' /\ DeletionSound'
      BY <2>2, <2>3, <2>4 DEF Running, PlacesSound, ItemsSound, DeletionSound, PlayPlaces, GCPlaces
    <2> QED
      BY <2>2, <2>5, <2>6 DEF PathsAccounted, PlayPlaces
  <1>10. CASE CancelBackup
    <2>1. /\ pc = "Loop" /\ op' = "cancel" /\ doomed' = {snapshot} /\ pc' = "DeleteIndex"
          /\ UNCHANGED <<now, fs, file, index, mem, snapshot, prev, task, parts, packer, held>>
      BY <1>10 DEF CancelBackup, StartDeletion, Goto
    <2>2. /\ FilesTimed /\ ItemsSound /\ PrevSound
          /\ DbSound(file, fs, index, now) /\ DbSound(mem, fs, index, now)
          /\ JournalTimes(mem) = {snapshot} /\ JournalTimes(file) = {snapshot}
      BY <2>1, AtPlay DEF PlayPlaces, PrevSound
    <2>3. FilesTimed' /\ DbSound(file, fs, index, now)' /\ DbSound(mem, fs, index, now)'
      BY <2>1, <2>2 DEF FilesTimed
    <2>4. ItemsSound'
      BY <2>1, <2>2 DEF ItemsSound
    <2>5. PlacesSound' /\ DeletionSound'
      BY <2>1, <2>2 DEF Running, PlacesSound, DeletionSound, PlayPlaces, GCPlaces
    <2> QED
      BY <2>1, <2>2, <2>3, <2>4, <2>5 DEF PathsAccounted, PlayPlaces
  <1> QED
    BY <1>4, <1>5, <1>6, <1>7, <1>8, <1>9, <1>10 DEF Start

\* An index object is deleted, by whoever asked for it.
LEMMA DeleteIndexIncremental ==
  ASSUME TypeOK, TypeOK', PathsAccounted, DeleteIndexObj
  PROVE  PathsAccounted'
  <1> USE DEF env, local
  <1>1. /\ mem \in DB /\ file \in DB /\ fs \in Files /\ index \in IndexObjects
        /\ now \in Nat /\ now \in Times /\ Snapshots = SnapshotsIn(index)
    BY TypeParts
  <1>2. /\ FilesTimed /\ DbSound(file, fs, index, now) /\ PlacesSound /\ ItemsSound /\ DeletionSound
        /\ Running => DbSound(mem, fs, index, now) /\ JournalTimes(mem) = {snapshot}
    BY DEF PathsAccounted, DeleteIndexObj
  <1>3. PICK t \in doomed :
          /\ index' = [index EXCEPT ![t] = None]
          /\ doomed' = doomed \ {t}
          /\ pc' = (IF doomed = {t} THEN "GCList" ELSE "DeleteIndex")
    BY DEF DeleteIndexObj, Goto
  <1>4. /\ pc = "DeleteIndex"
        /\ UNCHANGED <<now, fs, file, mem, snapshot, prev, task, parts, packer, held, op>>
    BY DEF DeleteIndexObj
  <1>5. op \in {"delete", "cancel", "rollback"} /\ pc \notin PlayPlaces
    BY <1>2, <1>4 DEF PlacesSound, PlayPlaces, TypeOK, Ops
  <1>6. FilesTimed' /\ PlacesSound' /\ ItemsSound' /\ Running' = Running
        /\ pc' \in {"GCList", "DeleteIndex"}
    BY <1>2, <1>3, <1>4, <1>5 DEF FilesTimed, PlacesSound, ItemsSound, Running, PlayPlaces, GCPlaces
  <1>7. Snapshots' = Snapshots \ {t}
    BY <1>1, <1>3 DEF Snapshots, IndexObjects
  <1>8. CASE op = "delete"
    <2>1. /\ file.journal = {}
          /\ \/ \A p \in Paths : ~TakenForUnchanged(file, p, fs)
             \/ \A u \in doomed : ~IsMostRecentSnapshot(u)
      BY <1>2, <1>8 DEF DeletionSound
    <2>2. DbSound(file, fs, index', now)
      <3>1. CASE t \in Times
        BY <1>1, <1>2, <1>3, <2>1, <3>1, OtherIndexSound DEF IsMostRecentSnapshot
      <3>2. CASE t \notin Times
        BY <1>1, <1>2, <1>3, <3>2 DEF IndexObjects
      <3> QED BY <3>1, <3>2
    <2>3. ASSUME NEW u \in doomed', \A v \in doomed : ~IsMostRecentSnapshot(v),
                 u \in Snapshots', \A v \in Snapshots' : v =< u
          PROVE  FALSE
      <3>1. u \in Snapshots /\ u # t /\ ~IsMostRecentSnapshot(u) /\ ~IsMostRecentSnapshot(t)
        BY <1>3, <1>7, <2>3
      <3>2. \A v \in Snapshots : v \in Nat
        BY BoundsAssumption DEF Snapshots, Times
      <3>3. t \in Snapshots /\ ~(t =< u)
        BY <1>7, <2>3, <3>1 DEF IsMostRecentSnapshot
      <3>4. \A v \in Snapshots : v =< t
        BY <1>7, <2>3, <3>1, <3>2, <3>3
      <3> QED BY <3>1, <3>3, <3>4 DEF IsMostRecentSnapshot
    <2>4. DeletionSound'
      BY <1>4, <1>6, <1>8, <2>1, <2>3 DEF DeletionSound, IsMostRecentSnapshot
    <2>5. ~Running
      BY <1>5, <1>8 DEF Running
    <2> QED
      BY <1>4, <1>6, <2>2, <2>4, <2>5 DEF PathsAccounted, PlayPlaces
  <1>9. CASE op \in {"cancel", "rollback"}
    <2>1. JournalTimes(file) = doomed /\ (op = "cancel" => doomed = {snapshot})
      BY <1>2, <1>4, <1>9 DEF DeletionSound
    <2>2. JournalTimes(file) = {t} /\ t \in Times \ {Lost}
      <3>1. \A s \in JournalTimes(file) : s = t
        BY <1>2, <2>1 DEF DbSound, JournalShape
      <3> QED BY <1>1, <1>2, <1>3, <2>1, <3>1, OwnTime
    <2>3. DbSound(file, fs, index', now)
      BY <1>1, <1>2, <1>3, <2>2, OwnIndexSound
    <2>4. Running => DbSound(mem, fs, index', now) /\ JournalTimes(mem) = {snapshot}
      <3>1. ASSUME Running PROVE JournalTimes(mem) = {t} /\ DbSound(mem, fs, index, now)
        BY <1>2, <1>5, <2>1, <2>2, <3>1 DEF Running
      <3> QED BY <1>1, <1>2, <1>3, <2>2, <3>1, OwnIndexSound
    <2>5. pc' = "GCList"
      BY <1>3, <2>1, <2>2
    <2>6. DeletionSound'
      BY <1>4, <1>7, <1>9, <2>2, <2>5 DEF DeletionSound
    <2> QED
      BY <1>4, <1>6, <2>3, <2>4, <2>5, <2>6 DEF PathsAccounted, PlayPlaces
  <1> QED
    BY <1>5, <1>8, <1>9

LEMMA DeletionIncremental ==
  ASSUME TypeOK, TypeOK', PathsAccounted, Deletion
  PROVE  PathsAccounted'
  <1> USE DEF env, bucket, local, cleanup, counts
  <1>1. /\ mem \in DB /\ file \in DB /\ fs \in Files /\ index \in IndexObjects
        /\ now \in Nat /\ Snapshots = SnapshotsIn(index)
    BY TypeParts
  <1>2. /\ FilesTimed /\ PlacesSound /\ ItemsSound /\ DeletionSound
        /\ pc # "CleanupRows" => DbSound(file, fs, index, now)
        /\ Running => DbSound(mem, fs, index, now) /\ JournalTimes(mem) = {snapshot}
        /\ \A p \in Paths : fs[p].mtime > 0
    BY DEF PathsAccounted, FilesTimed
  <1>3. CASE DeleteIndexObj
    BY <1>3, DeleteIndexIncremental
  \* The steps that touch neither index objects nor the copy.
  <1>4. ASSUME pc \notin PlayPlaces, pc' \notin PlayPlaces,
               IF pc' = "CleanupRows" THEN DbSound(WipeBackupJournal(file), fs, index, now)'
                                      ELSE DbSound(file, fs, index, now)',
               op # "none", pc' # "Idle", op = "delete" => pc' \in GCPlaces,
               pc' = "Return" => op = "cancel",
               DeletionSound',
               UNCHANGED <<now, fs, mem, index, snapshot, prev, task, parts, packer, held, op>>
        PROVE  PathsAccounted'
    <2>1. FilesTimed' /\ Running' = Running
      BY <1>2, <1>4 DEF FilesTimed, Running
    <2>2. PlacesSound'
      BY <1>2, <1>4, <2>1 DEF PlacesSound
    <2>3. parts = {}
      BY <1>2, <1>4 DEF ItemsSound, PlayPlaces
    <2>4. ItemsSound'
      BY <1>2, <1>4, <2>3 DEF ItemsSound
    <2> QED
      BY <1>2, <1>4, <2>1, <2>2, <2>4 DEF PathsAccounted, PlayPlaces
  <1>5. ASSUME pc \in GCPlaces \cup CancelPlaces
        PROVE  op # "none" /\ pc \notin PlayPlaces /\ (pc \in CancelPlaces => op \in {"cancel", "rollback"})
    BY <1>2, <1>5 DEF PlacesSound, GCPlaces, CancelPlaces, PlayPlaces, TypeOK, Ops
  <1>6. CASE ListOrphans \/ DeleteOrphan
    <2>1. /\ pc \in {"GCList", "GCDelete"} /\ pc' = "GCDelete"
          /\ UNCHANGED <<now, fs, file, mem, index, snapshot, prev, task, parts, packer, held, op, doomed>>
      BY <1>6 DEF ListOrphans, DeleteOrphan, Goto
    <2>2. DeletionSound'
      BY <1>2, <2>1 DEF DeletionSound, IsMostRecentSnapshot, Snapshots
    <2> QED
      BY <1>2, <1>4, <1>5, <2>1, <2>2 DEF GCPlaces, PlayPlaces
  <1>7. CASE OrphansDeleted
    <2>1. /\ pc = "GCDelete" /\ AfterDeletion /\ UNCHANGED <<now, fs, file, index>>
      BY <1>7 DEF OrphansDeleted
    <2>2. CASE op = "delete" /\ Leave
      BY <1>2, <2>1, <2>2, LeaveIncremental DEF FilesTimed
    <2>3. CASE op # "delete" /\ pc' = "Reset" /\ doomed' = {} /\ UNCHANGED <<mem, local, op>>
      <3>1. op \in {"cancel", "rollback"}
        BY <1>5, <2>1, <2>3 DEF GCPlaces, TypeOK, Ops
      <3>2. DeletionSound'
        BY <1>2, <2>1, <2>3, <3>1 DEF DeletionSound, Snapshots
      <3> QED
        BY <1>2, <1>4, <1>5, <2>1, <2>3, <3>2 DEF GCPlaces, PlayPlaces
    <2> QED BY <2>1, <2>2, <2>3 DEF AfterDeletion, Goto
  <1>8. CASE ResetTimes
    <2>1. /\ pc = "Reset" /\ pc' = "Cleanup" /\ file' = CancelationResetLastBackupTime(file)
          /\ UNCHANGED <<now, fs, mem, index, snapshot, prev, task, parts, packer, held, op, doomed>>
      BY <1>8 DEF ResetTimes, Goto
    <2>2. op \in {"cancel", "rollback"}
      BY <1>5, <2>1 DEF CancelPlaces
    <2>3. /\ DbSound(file', fs, index, now)
          /\ JournalTimes(file') = JournalTimes(file)
          /\ \A r \in file'.journal : r.status # "Unstarted" => ~TakenForUnchanged(file', r.path, fs)
      BY <1>1, <1>2, <2>1, UndoTimesSound
    <2>4. DeletionSound'
      BY <1>2, <2>1, <2>2, <2>3 DEF DeletionSound, Snapshots
    <2> QED
      BY <1>4, <1>5, <2>1, <2>2, <2>3, <2>4 DEF CancelPlaces, PlayPlaces
  <1>11. CASE CleanupInfos
    <2>1. /\ pc = "Cleanup" /\ pc' = "CleanupRows" /\ file' = CancelationDeleteInfos(file)
          /\ UNCHANGED <<now, fs, mem, index, snapshot, prev, task, parts, packer, held, op, doomed>>
      BY <1>11 DEF CleanupInfos, Goto
    <2>2. op \in {"cancel", "rollback"}
      BY <1>5, <2>1 DEF CancelPlaces
    <2>3. DbSound(WipeBackupJournal(file'), fs, index, now)
      <3>1. JournalTimes(file) \cap SnapshotsIn(index) = {}
        BY <1>1, <1>2, <2>1, <2>2 DEF DeletionSound
      <3>2. \A r \in file.journal : r.status # "Unstarted" => ~TakenForUnchanged(file, r.path, fs)
        BY <1>2, <2>1 DEF DeletionSound
      <3> QED BY <1>1, <1>2, <2>1, <3>1, <3>2, CleanupSound
    <2>4. JournalTimes(file') = {}
      BY <1>1, <2>1, DeletedTimes
    <2>5. DeletionSound'
      BY <2>1, <2>2, <2>4 DEF DeletionSound
    <2> QED
      BY <1>4, <1>5, <2>1, <2>2, <2>3, <2>5 DEF CancelPlaces, PlayPlaces
  <1>9. CASE CleanupJournal
    <2>1. /\ pc = "CleanupRows" /\ file' = WipeBackupJournal(file)
          /\ UNCHANGED <<now, fs, index>>
          /\ \/ Leave
             \/ op = "cancel" /\ pc' = "Return" /\ UNCHANGED <<mem, local, cleanup>>
      BY <1>9 DEF CleanupJournal, Goto
    <2>2. op \in {"cancel", "rollback"}
      BY <1>5, <2>1 DEF CancelPlaces
    <2>3. DbSound(file', fs, index, now)
      BY <2>1 DEF PathsAccounted
    <2>4. CASE Leave
      BY <1>2, <2>1, <2>3, <2>4, LeaveIncremental DEF FilesTimed
    <2>5. CASE op = "cancel" /\ pc' = "Return" /\ UNCHANGED <<mem, local, cleanup>>
      <3>1. JournalTimes(file') = {}
        <4>1. file'.journal = {}
          BY <1>1, <2>1 DEF WipeBackupJournal, DB
        <4> QED BY <4>1, CleanTimes
      <3>2. DeletionSound'
        BY <2>1, <2>5, <3>1 DEF DeletionSound
      <3> QED
        BY <1>4, <1>5, <2>1, <2>3, <2>5, <3>2 DEF CancelPlaces, PlayPlaces
    <2> QED BY <2>1, <2>4, <2>5
  <1>10. CASE CancelReturn
    <2>1. pc = "Return" /\ file' = mem /\ Leave /\ UNCHANGED <<now, fs, index>>
      BY <1>10 DEF CancelReturn
    <2>2. DbSound(mem, fs, index, now)
      BY <1>2, <2>1 DEF PlacesSound, Running
    <2>3. FilesTimed' /\ DbSound(file, fs, index, now)'
      BY <1>2, <2>1, <2>2 DEF FilesTimed
    <2> QED BY <2>1, <2>3, LeaveIncremental
  <1> QED
    BY <1>3, <1>6, <1>7, <1>8, <1>9, <1>10, <1>11 DEF Deletion

\* The failures of the object store, which a quiet engine does not meet.
LEMMA StoreAnswers ==
  ASSUME Quiet PROVE ~PlayFails /\ ~DeletionFails
  BY DEF Quiet, PlayFails, DeletionFails, GetPrevSnapshotFails, UploadPartFails,
         UploadPackerFails, WriteIndexFileFails, Fault

LEMMA StutterIncremental ==
  ASSUME PathsAccounted, UNCHANGED vars PROVE PathsAccounted'
  <1> USE DEF vars, env, bucket, local, cleanup, counts
  <1>1. /\ FilesTimed' = FilesTimed /\ PlacesSound' = PlacesSound /\ ItemsSound' = ItemsSound
        /\ RowsSound' = RowsSound /\ PrevSound' = PrevSound /\ Running' = Running
    BY DEF FilesTimed, PlacesSound, ItemsSound, RowsSound, PrevSound, Running
  <1>2. WrittenSound' = WrittenSound /\ DeletionSound' = DeletionSound
    BY DEF WrittenSound, DeletionSound, IsMostRecentSnapshot, Snapshots
  <1> QED
    BY <1>1, <1>2 DEF PathsAccounted

LEMMA NextIncremental ==
  ASSUME TypeOK, TypeOK', PathsAccounted, Quiet, NullsDistinct, [Next]_vars
  PROVE  PathsAccounted'
  <1>1. CASE Machine
    BY <1>1, MachineIncremental
  <1>2. CASE Start \/ ReplayBackupJournal \/ CancelBackup
    BY <1>2, StartIncremental
  <1>3. CASE Play \/ PersistWhileUploading
    BY <1>3, LoopStepsIncremental, TaskStepsIncremental, PackStepsIncremental,
       IndexStepsIncremental DEF Play
  <1>4. CASE Deletion
    BY <1>4, DeletionIncremental
  <1>5. CASE PlayFails \/ DeletionFails
    BY <1>5, StoreAnswers
  <1>6. CASE UNCHANGED vars
    BY <1>6, StutterIncremental
  <1> QED
    BY <1>1, <1>2, <1>3, <1>4, <1>5, <1>6 DEF Next

(* In a quiet directory the database file and the copy of a running backup *)
(* account, at every step, for every path: through any number of backups,  *)
(* crashes and replays, cancelations, rollbacks, deletions by the daemon,  *)
(* forced full backups and entries that cannot be read.                    *)
THEOREM AccountsKept ==
  ASSUME Quiet, NullsDistinct
  PROVE  Spec => []PathsAccounted
  <1>1. Init => PathsAccounted
    BY InitIncremental
  <1>2. TypeOK /\ TypeOK' /\ PathsAccounted /\ [Next]_vars => PathsAccounted'
    BY NextIncremental
  <1>3. Spec => []TypeOK
    BY TypeCorrect
  <1> QED
    BY <1>1, <1>2, <1>3, PTL DEF Spec

\* A file that an index lists can be restored from it when no index dangles.
LEMMA ListedIsRestored ==
  ASSUME NEW ix, NEW C, NEW p \in Paths, NEW v, IndexIn(ix, C)
  PROVE  Restores(ix[p], p, v, C) <=> Lists(ix[p], p, v)
  BY DEF Restores, Lists, IndexIn

(* What the next Traverse will take for unchanged is listed in the most    *)
(* recent snapshot, whole and at its present version, also after           *)
(* cancelations.                                                           *)
THEOREM UnchangedIsListed ==
  ASSUME Quiet, NullsDistinct
  PROVE  Spec => []IncrementalListed
  <1>1. TypeOK /\ PathsAccounted => IncrementalListed
    <2> SUFFICES ASSUME TypeOK, PathsAccounted, pc = "Idle", ~HasDirtyBackupJournal(file),
                        NEW t \in Snapshots, NEW p \in Paths, IsMostRecentSnapshot(t),
                        TakenForUnchanged(file, p, fs)
                 PROVE  Lists(index[t][p], p, fs[p].ver)
      BY DEF IncrementalListed, Unchanged, TakenForUnchanged
    <2>1. file.journal = {} /\ DbSound(file, fs, index, now)
      BY DEF HasDirtyBackupJournal, PathsAccounted
    <2>2. PICK u \in SnapshotsIn(index) :
            (\A v \in SnapshotsIn(index) : v =< u) /\ ListsPresent(index[u][p], p, fs)
      BY <2>1, CleanBase, TypeParts
    <2>3. t \in Nat /\ u \in Nat /\ Snapshots = SnapshotsIn(index)
      BY TypeParts, BoundsAssumption DEF Snapshots, Times
    <2>4. t = u
      BY <2>2, <2>3 DEF IsMostRecentSnapshot
    <2> QED
      BY <2>2, <2>4 DEF ListsPresent
  <1> QED
    BY <1>1, AccountsKept, TypeCorrect, PTL

(* Where moreover no journal is played whose chunks were collected, it can *)
(* be restored from that snapshot: the chunks of every extent are there.   *)
THEOREM UnchangedIsBackedUp ==
  ASSUME Quiet, CollectedIsForgotten, NullsDistinct
  PROVE  Spec => []IncrementalSound
  <1>1. StorageInv /\ IncrementalListed => IncrementalSound
    <2> SUFFICES ASSUME StorageInv, IncrementalListed, pc = "Idle", ~HasDirtyBackupJournal(file),
                        NEW t \in Snapshots, NEW p \in Paths, IsMostRecentSnapshot(t),
                        Unchanged(p)
                 PROVE  Restores(index[t][p], p, fs[p].ver, chunks)
      BY DEF IncrementalSound
    <2>1. IndexIn(index[t], chunks)
      BY DEF StorageInv, Snapshots
    <2>2. Lists(index[t][p], p, fs[p].ver)
      BY DEF IncrementalListed
    <2> QED
      BY <2>1, <2>2, ListedIsRestored
  <1> QED
    BY <1>1, UnchangedIsListed, StorageInvariant, PTL

(* Where every entry can be read, the index written by WriteIndexFile is   *)
(* the directory: every file there is can be restored from it, its chunks  *)
(* being in the bucket, and no other is listed.                            *)
THEOREM SnapshotIsDirectory ==
  ASSUME Quiet, CollectedIsForgotten, NullsDistinct, "readError" \notin Allowed
  PROVE  Spec => SnapshotMatchesFs
  <1> DEFINE Matches == index' # index /\ pc = "Index" =>
                 \A p \in Paths :
                     IF fs[p].exists THEN Restores(index'[snapshot][p], p, fs[p].ver, chunks')
                                     ELSE index'[snapshot][p] = NoEntry
  <1>1. TypeOK /\ PathsAccounted /\ StorageInv' /\ [Next]_vars => [Matches]_vars
    <2> SUFFICES ASSUME TypeOK, PathsAccounted, StorageInv', Next, index' # index, pc = "Index"
                 PROVE  \A p \in Paths :
                     IF fs[p].exists THEN Restores(index'[snapshot][p], p, fs[p].ver, chunks')
                                     ELSE index'[snapshot][p] = NoEntry
      OBVIOUS
    <2>1. WriteIndexFile
      BY DEF Next, Machine, Tick, Crash, WriteFile, RemoveFile, Start, DoJournaledBackup,
             ForceFullBackup, DeleteSnapshots, CloudRm, RollBack, ReplayBackupJournal,
             Play, GetPrevSnapshot, ClaimNext, NoWork, TaskDeleted, TaskWithoutDirEnt,
             TaskUnchanged, ReadFails, BackupSmall, UploadPart, LargeDone, CallsBackup,
             UploadPacker, Finalize, WipeJournal, PlayFails, GetPrevSnapshotFails,
             UploadPartFails, UploadPackerFails, WriteIndexFileFails,
             PersistWhileUploading, CancelBackup, Deletion, DeleteIndexObj, ListOrphans,
             DeleteOrphan, OrphansDeleted, ResetTimes, CleanupInfos, CleanupJournal,
             CancelReturn, DeletionFails, GCPlaces, bucket
    <2>2. /\ mem \in DB /\ fs \in Files /\ index \in IndexObjects /\ now \in Times
      BY TypeParts
    <2>3. /\ DbSound(mem, fs, index, now) /\ JournalTimes(mem) = {snapshot}
          /\ AllTasksFinished(mem)
      BY AtPlay DEF PlayPlaces, RowsSound
    <2>4. snapshot \in Times /\ mem.journal # {}
      BY <2>2, <2>3, OwnTime, JournalNonempty
    <2>5. index'[snapshot] = IndexFileOf(mem)
      BY <2>1, <2>2, <2>4 DEF WriteIndexFile, IndexObjects
    <2>6. \A p \in Paths :
            IF fs[p].exists THEN ListsPresent(IndexFileOf(mem)[p], p, fs)
                            ELSE IndexFileOf(mem)[p] = NoEntry
      BY <2>2, <2>3, <2>4, FinishedIndex
    <2>7. ASSUME NEW p \in Paths, fs[p].exists
          PROVE  Restores(index'[snapshot][p], p, fs[p].ver, chunks')
      <3>1. Lists(index'[snapshot][p], p, fs[p].ver)
        BY <2>5, <2>6, <2>7 DEF ListsPresent
      <3>2. index'[snapshot] # None => IndexIn(index'[snapshot], chunks')
        BY <2>4 DEF StorageInv
      <3>3. index'[snapshot] # None
        BY <2>2, <2>5, IndexFileOfType DEF NullsDistinct, IndexFile
      <3> QED BY <3>1, <3>2, <3>3, ListedIsRestored
    <2> QED
      BY <2>5, <2>6, <2>7
  <1>2. Spec => [][Matches]_vars
    BY <1>1, AccountsKept, StorageInvariant, TypeCorrect, PTL DEF Spec
  <1> QED
    BY <1>2 DEF SnapshotMatchesFs

-----------------------------------------------------------------------------
(* The promise of BackupService.  First, that a journal is only ever       *)
(* played again on the directory its snapshot has.                         *)

LEMMA InitHarmless == Init => ReplayHarmless
  BY DEF Init, ReplayHarmless, Snapshots

\* What keeps ReplayHarmless when neither files nor index objects change: every
\* journal, in the file or being played, was there before or is of a new name.
LEMMA KeepsHarmless ==
  ASSUME ReplayHarmless, UNCHANGED <<fs, index>>,
         \A t \in JournalTimes(file') \cap Snapshots :
             t \in JournalTimes(file) \/ (Running /\ t = snapshot),
         Running' => \/ Running /\ snapshot' = snapshot
                     \/ snapshot' \in JournalTimes(file)
                     \/ snapshot' \notin Snapshots
  PROVE  ReplayHarmless'
  <1>1. Snapshots' = Snapshots
    BY DEF Snapshots
  <1>2. \A t : Mirrors(index[t], fs)' = Mirrors(index[t], fs)
    BY DEF Mirrors
  <1>3. (JournalTimes(file))' = JournalTimes(file')
    BY DEF JournalTimes, JournaledInfos
  <1> QED
    BY <1>1, <1>2, <1>3 DEF ReplayHarmless, Mirrors

\* last_backup has no part in the names of journals.
LEMMA DirentsTimes ==
  ASSUME NEW db \in DB
  PROVE  /\ JournalTimes(ResetLastBackedUpTime(db)) = JournalTimes(db)
         /\ JournalTimes(CancelationResetLastBackupTime(db)) = JournalTimes(db)
  BY DEF JournalTimes, JournaledInfos, ResetLastBackedUpTime, CancelationResetLastBackupTime, DB

LEMMA MachineHarmless ==
  ASSUME TypeOK, PathsAccounted, ReplayHarmless, Quiet, Machine
  PROVE  ReplayHarmless'
  <1> USE DEF env, bucket, local, cleanup, counts
  <1>1. CASE Tick
    <2>1. UNCHANGED <<fs, file, index, pc, op, snapshot>>
      BY <1>1 DEF Tick
    <2> QED BY <2>1, KeepsHarmless DEF Running
  <1>2. CASE Crash
    <2>1. UNCHANGED <<fs, file, index>> /\ ~Running'
      BY <1>2 DEF Crash, Leave, Running, PlayPlaces
    <2> QED BY <2>1, KeepsHarmless
  <1>3. CASE \E p \in Paths : WriteFile(p) \/ RemoveFile(p)
    <2>1. MayChangeFiles /\ UNCHANGED <<file, pc, op>>
      BY <1>3 DEF WriteFile, RemoveFile
    <2>2. pc = "Idle" /\ file.journal = {}
      BY <2>1 DEF MayChangeFiles, Quiet, HasDirtyBackupJournal
    <2>3. op = "none"
      BY <2>2, AtIdle
    <2>4. ~Running' /\ (JournalTimes(file))' = {}
      BY <2>1, <2>2, <2>3, CleanTimes DEF Running, PlayPlaces
    <2> QED BY <2>4 DEF ReplayHarmless
  <1> QED
    BY <1>1, <1>2, <1>3 DEF Machine

LEMMA StartHarmless ==
  ASSUME TypeOK, PathsAccounted, ReplayHarmless, Quiet,
         Start \/ ReplayBackupJournal \/ CancelBackup
  PROVE  ReplayHarmless'
  <1> USE DEF env, bucket, local, cleanup, counts
  <1>1. file \in DB /\ fs \in Files /\ index \in IndexObjects /\ now \in Nat \ {0}
        /\ Snapshots = SnapshotsIn(index)
    BY TypeParts
  <1>2. CASE DoJournaledBackup
    <2>1. /\ pc = "Idle" /\ file.journal = {} /\ \A i \in file.infos : i.time # now
          /\ UNCHANGED <<now, fs, index>>
      BY <1>2 DEF DoJournaledBackup, Quiet, HasDirtyBackupJournal
    <2>2. /\ op = "none" /\ DbSound(file, fs, index, now)
          /\ \A p \in Paths : fs[p].mtime > 0
      BY <2>1, AtIdle
    <2>3. now \notin Snapshots
      BY <1>1, <2>1, <2>2 DEF DbSound, JournalShape
    <2>4. PICK seen \in SUBSET Paths :
            LET db == FillJournal(file, seen, now)
            IN  /\ Walk(seen)
                /\ \/ (\E info \in GetJournaledBackupInfo(db) : snapshot' = info.time) /\ file' = file
                   \/ file' = db /\ UNCHANGED <<pc, op>>
      BY <1>2 DEF DoJournaledBackup
    <2> DEFINE db == FillJournal(file, seen, now)
    <2>5. /\ seen \in SUBSET {p \in Paths : fs[p].exists}
          /\ "readError" \notin Allowed => seen = {p \in Paths : fs[p].exists}
      BY <2>4 DEF Walk
    <2>6. JournalTimes(db) \subseteq {now}
      BY <1>1, <2>1, <2>2, <2>5, FillSound
    <2> HIDE DEF db
    <2>7. CASE (\E info \in GetJournaledBackupInfo(db) : snapshot' = info.time) /\ file' = file
      <3>1. snapshot' \in JournalTimes(db)
        BY <2>7 DEF GetJournaledBackupInfo, JournalTimes
      <3>2. snapshot' \notin Snapshots
        BY <2>3, <2>6, <3>1
      <3> QED BY <2>1, <2>7, <3>2, KeepsHarmless
    <2>8. CASE file' = db /\ UNCHANGED <<pc, op>>
      <3>1. \A t \in JournalTimes(file') : t \notin Snapshots
        BY <2>3, <2>6, <2>8
      <3>2. ~Running'
        BY <2>1, <2>2, <2>8 DEF Running, PlayPlaces
      <3> QED BY <2>1, <3>1, <3>2, KeepsHarmless
    <2> QED BY <2>4, <2>7, <2>8 DEF db
  <1>3. CASE ForceFullBackup \/ DeleteSnapshots \/ CloudRm \/ RollBack
    <2>1. /\ pc = "Idle" /\ UNCHANGED <<fs, index>>
          /\ file' \in {file, ResetLastBackedUpTime(file)}
          /\ pc' \in {"Idle", "DeleteIndex"}
          /\ op' \in {op, "delete", "rollback"}
      BY <1>3 DEF ForceFullBackup, DeleteSnapshots, CloudRm, RollBack, StartDeletion, Goto
    <2>2. op = "none"
      BY <2>1, AtIdle
    <2>3. ~Running'
      BY <2>1, <2>2 DEF Running, PlayPlaces
    <2>4. JournalTimes(file') = JournalTimes(file)
      BY <1>1, <2>1, DirentsTimes
    <2> QED BY <2>1, <2>3, <2>4, KeepsHarmless
  <1>4. CASE ReplayBackupJournal
    <2>1. UNCHANGED <<fs, index, file>> /\ \E info \in GetJournaledBackupInfo(file) : snapshot' = info.time
      BY <1>4, AtIdle, JournalHasInfo DEF ReplayBackupJournal, HasDirtyBackupJournal
    <2>2. snapshot' \in JournalTimes(file)
      BY <2>1 DEF GetJournaledBackupInfo, JournalTimes
    <2> QED BY <2>1, <2>2, KeepsHarmless
  <1>5. CASE CancelBackup
    <2>1. pc = "Loop" /\ UNCHANGED <<fs, index, file, snapshot>>
      BY <1>5 DEF CancelBackup
    <2>2. Running
      BY <2>1 DEF Running, PlayPlaces
    <2> QED BY <2>1, <2>2, KeepsHarmless
  <1> QED
    BY <1>2, <1>3, <1>4, <1>5 DEF Start

\* The index a backup writes is the directory.
LEMMA WritesDirectory ==
  ASSUME TypeOK, PathsAccounted, NullsDistinct, "readError" \notin Allowed, WriteIndexFile
  PROVE  /\ snapshot \in Times \ {Lost} /\ IndexFileOf(mem) # None
         /\ index' = [index EXCEPT ![snapshot] = IndexFileOf(mem)]
         /\ Mirrors(IndexFileOf(mem), fs)
         /\ JournalTimes(file) = {snapshot} /\ UNCHANGED <<fs, file, snapshot>>
         /\ \A t \in Snapshots : t =< snapshot
  <1>1. pc = "Index" /\ pc \in PlayPlaces
    BY DEF WriteIndexFile, PlayPlaces
  <1>2. /\ mem \in DB /\ fs \in Files /\ index \in IndexObjects /\ now \in Times
        /\ Snapshots = SnapshotsIn(index)
    BY TypeParts
  <1>3. /\ DbSound(mem, fs, index, now) /\ JournalTimes(mem) = {snapshot}
        /\ AllTasksFinished(mem) /\ JournalTimes(file) = {snapshot}
    BY <1>1, AtPlay DEF RowsSound, PrevSound
  <1>4. snapshot \in Times \ {Lost} /\ mem.journal # {}
    BY <1>2, <1>3, OwnTime, JournalNonempty
  <1>5. IndexFileOf(mem) # None
    BY <1>2, IndexFileOfType DEF NullsDistinct, IndexFile
  <1>6. Mirrors(IndexFileOf(mem), fs)
    BY <1>2, <1>3, <1>4, FinishedIndex DEF Mirrors
  <1>7. \A t \in Snapshots : t =< snapshot
    BY <1>2, <1>3 DEF DbSound, JournalShape
  <1> QED
    BY <1>3, <1>4, <1>5, <1>6, <1>7 DEF WriteIndexFile, env, local

LEMMA PlayHarmless ==
  ASSUME TypeOK, PathsAccounted, ReplayHarmless, NullsDistinct, "readError" \notin Allowed,
         Play \/ PersistWhileUploading
  PROVE  ReplayHarmless'
  <1> USE DEF env, bucket, local, cleanup, counts
  <1>1. pc \in PlayPlaces
    BY DEF Play, PersistWhileUploading, GetPrevSnapshot, ClaimNext, NoWork, TaskDeleted,
           TaskWithoutDirEnt, TaskUnchanged, ReadFails, BackupSmall, UploadPart, LargeDone,
           CallsBackup, UploadPacker, Finalize, WriteIndexFile, WipeJournal, PlayPlaces
  <1>2. Running /\ JournalTimes(mem) = {snapshot}
    BY <1>1, AtPlay DEF Running
  <1>3. CASE WriteIndexFile
    <2> DEFINE x == IndexFileOf(mem)
    <2>1. /\ snapshot \in Times /\ index' = [index EXCEPT ![snapshot] = x]
          /\ Mirrors(x, fs)
          /\ JournalTimes(file) = {snapshot} /\ UNCHANGED <<fs, file, snapshot>>
      BY <1>3, WritesDirectory
    <2> HIDE DEF x
    <2>2. index'[snapshot] = x
      BY <2>1, TypeParts DEF IndexObjects
    <2>3. Mirrors(index'[snapshot'], fs')
      BY <2>1, <2>2
    <2>4. (JournalTimes(file))' = {snapshot'}
      BY <2>1
    <2> QED BY <2>3, <2>4 DEF ReplayHarmless, Mirrors, ListsPresent
  <1>4. CASE WipeJournal
    <2>1. UNCHANGED <<fs, index>> /\ file' = WipeBackupJournal(mem) /\ ~Running'
      BY <1>4 DEF WipeJournal, Leave, Running, PlayPlaces
    <2>2. file'.journal = {}
      BY <2>1, TypeParts DEF WipeBackupJournal, DB
    <2> QED BY <2>1, <2>2, CleanTimes, KeepsHarmless
  <1>5. CASE ~WriteIndexFile /\ ~WipeJournal
    <2>1. UNCHANGED <<fs, index, snapshot>> /\ file' \in {file, mem}
      BY <1>5 DEF Play, PersistWhileUploading, GetPrevSnapshot, ClaimNext, NoWork, TaskDeleted,
             TaskWithoutDirEnt, TaskUnchanged, ReadFails, BackupSmall, UploadPart, LargeDone,
             UploadPacker, Finalize, MayPersist, NewChunk
    <2> QED BY <1>2, <2>1, KeepsHarmless
  <1> QED
    BY <1>3, <1>4, <1>5

LEMMA DeletionHarmless ==
  ASSUME TypeOK, PathsAccounted, ReplayHarmless, Deletion
  PROVE  ReplayHarmless'
  <1> USE DEF env, bucket, local, cleanup, counts
  <1>1. file \in DB /\ index \in IndexObjects
    BY TypeParts
  <1>2. pc \in GCPlaces \cup CancelPlaces /\ pc \notin PlayPlaces
    BY DEF Deletion, DeleteIndexObj, ListOrphans, DeleteOrphan, OrphansDeleted, ResetTimes,
           CleanupInfos, CleanupJournal, CancelReturn, GCPlaces, CancelPlaces, PlayPlaces
  <1>3. op = "cancel" => Running /\ JournalTimes(mem) = {snapshot}
    BY DEF PathsAccounted, Running
  <1>4. CASE DeleteIndexObj
    <2>1. PICK t \in doomed : index' = [index EXCEPT ![t] = None]
      BY <1>4 DEF DeleteIndexObj
    <2>2. UNCHANGED <<fs, file, op, snapshot>> /\ pc' \notin PlayPlaces
      BY <1>4 DEF DeleteIndexObj, Goto, PlayPlaces
    <2>3. ASSUME NEW u \in Snapshots' PROVE u \in Snapshots /\ index'[u] = index[u]
      BY <1>1, <2>1, <2>3 DEF Snapshots, IndexObjects
    <2>4. Running' => Running
      BY <1>2, <2>2 DEF Running
    <2> QED BY <2>2, <2>3, <2>4 DEF ReplayHarmless, Mirrors, ListsPresent
  <1>5. CASE ListOrphans \/ DeleteOrphan \/ OrphansDeleted
    <2>1. UNCHANGED <<fs, index, file>>
      BY <1>5 DEF ListOrphans, DeleteOrphan, OrphansDeleted
    <2>2. Running' => Running /\ snapshot' = snapshot
      BY <1>5 DEF ListOrphans, DeleteOrphan, OrphansDeleted, AfterDeletion, Leave, Goto, Running,
             PlayPlaces
    <2> QED BY <2>1, <2>2, KeepsHarmless
  <1>6. CASE ResetTimes
    <2>1. /\ UNCHANGED <<fs, index, op, snapshot>> /\ pc' \notin PlayPlaces
          /\ file' = CancelationResetLastBackupTime(file)
      BY <1>6 DEF ResetTimes, Goto, PlayPlaces
    <2>2. Running' => Running
      BY <1>2, <2>1 DEF Running
    <2> QED BY <1>1, <2>1, <2>2, DirentsTimes, KeepsHarmless
  <1>9. CASE CleanupInfos
    <2>1. UNCHANGED <<fs, index, snapshot>> /\ file' = CancelationDeleteInfos(file)
      BY <1>9 DEF CleanupInfos
    <2>2. Running' => Running
      BY <1>9 DEF CleanupInfos, Goto, Running, PlayPlaces
    <2>3. JournalTimes(file') = {}
      BY <1>1, <2>1, DeletedTimes
    <2> QED BY <2>1, <2>2, <2>3, KeepsHarmless
  <1>7. CASE CleanupJournal
    <2>1. UNCHANGED <<fs, index>> /\ file' = WipeBackupJournal(file)
      BY <1>7 DEF CleanupJournal
    <2>2. Running' => Running /\ snapshot' = snapshot
      BY <1>7 DEF CleanupJournal, Leave, Goto, Running, PlayPlaces
    <2>3. file'.journal = {}
      BY <1>1, <2>1 DEF WipeBackupJournal, DB
    <2> QED BY <2>1, <2>2, <2>3, CleanTimes, KeepsHarmless
  <1>8. CASE CancelReturn
    <2>1. UNCHANGED <<fs, index>> /\ file' = mem /\ ~Running' /\ op = "cancel"
      BY <1>8 DEF CancelReturn, Leave, Running, PlayPlaces, PathsAccounted, PlacesSound
    <2> QED BY <1>3, <2>1, KeepsHarmless
  <1> QED
    BY <1>4, <1>5, <1>6, <1>7, <1>8, <1>9 DEF Deletion

(* In a quiet directory whose entries can be read a replay does no harm: a *)
(* snapshot whose journal is pending, in the database file or in the copy  *)
(* of a backup, is the directory as it is, so that playing the journal     *)
(* again writes the same contents under the same name.                     *)
THEOREM ReplayRepeats ==
  ASSUME Quiet, NullsDistinct, "readError" \notin Allowed
  PROVE  Spec => []ReplayHarmless
  <1>1. TypeOK /\ PathsAccounted /\ ReplayHarmless /\ [Next]_vars => ReplayHarmless'
    <2> SUFFICES ASSUME TypeOK, PathsAccounted, ReplayHarmless, [Next]_vars PROVE ReplayHarmless'
      OBVIOUS
    <2>1. CASE Machine
      BY <2>1, MachineHarmless
    <2>2. CASE Start \/ ReplayBackupJournal \/ CancelBackup
      BY <2>2, StartHarmless
    <2>3. CASE Play \/ PersistWhileUploading
      BY <2>3, PlayHarmless
    <2>4. CASE Deletion
      BY <2>4, DeletionHarmless
    <2>5. CASE PlayFails \/ DeletionFails
      BY <2>5, StoreAnswers
    <2>6. CASE UNCHANGED vars
      <3>1. UNCHANGED <<fs, index, file, pc, op, snapshot>>
        BY <2>6 DEF vars, env, bucket, local, cleanup
      <3> QED BY <3>1, KeepsHarmless DEF Running
    <2> QED
      BY <2>1, <2>2, <2>3, <2>4, <2>5, <2>6 DEF Next
  <1> QED
    BY <1>1, InitHarmless, AccountsKept, TypeCorrect, PTL DEF Spec

(* IncrementalInv, both parts of it, for every number of files and backups *)
(* and through any crashes, replays, cancelations, rollbacks and deletions *)
(* by the daemon.                                                          *)
THEOREM IncrementalInvariant ==
  ASSUME Quiet, NullsDistinct
  PROVE  Spec => []IncrementalInv
  <1>1. CASE "readError" \in Allowed
    <2>1. PathsAccounted => IncrementalInv
      BY <1>1 DEF IncrementalInv
    <2> QED BY <2>1, AccountsKept, PTL
  <1>2. CASE "readError" \notin Allowed
    <2>1. PathsAccounted /\ ReplayHarmless => IncrementalInv
      BY DEF IncrementalInv
    <2>2. Spec => []ReplayHarmless
      BY <1>2, ReplayRepeats
    <2> QED BY <2>1, <2>2, AccountsKept, PTL
  <1> QED BY <1>1, <1>2

\* What an index lists, whether or not its chunks are there.
ListedOf(entry, p) ==
    LET version == (CHOOSE e \in entry : TRUE).ver
    IN  IF entry = NoEntry THEN Absent
        ELSE IF entry # {} /\ Lists(entry, p, version) THEN version ELSE Damaged

Listed(ix) == [p \in Paths |-> ListedOf(ix[p], p)]

\* Restore gets what is listed when no index dangles.
LEMMA ContentsListed ==
  ASSUME NEW ix, NEW C, IndexIn(ix, C)
  PROVE  Contents(ix, C) = Listed(ix)
  <1>1. ASSUME NEW p \in Paths PROVE ContentOf(ix[p], p, C) = ListedOf(ix[p], p)
    <2> DEFINE version == (CHOOSE e \in ix[p] : TRUE).ver
    <2>1. ix[p] # NoEntry => (Restores(ix[p], p, version, C) <=> Lists(ix[p], p, version))
      BY DEF Restores, IndexIn
    <2> QED BY <2>1 DEF ContentOf, ListedOf
  <1> QED BY <1>1 DEF Contents, Listed

\* What is listed by an index that is the directory.
LEMMA MirrorContents ==
  ASSUME NEW ix, Mirrors(ix, fs)
  PROVE  Listed(ix) = Present
  <1>1. ASSUME NEW p \in Paths
        PROVE  ListedOf(ix[p], p) = IF fs[p].exists THEN fs[p].ver ELSE Absent
    <2>1. CASE ~fs[p].exists
      BY <2>1 DEF Mirrors, ListedOf
    <2>2. CASE fs[p].exists
      <3>1. Lists(ix[p], p, fs[p].ver)
        BY <2>2 DEF Mirrors, ListsPresent
      <3>2. 1 \in 1..PartsOf(p)
        BY SizesAssumption DEF PartsOf
      <3>3. PICK e \in ix[p] : e.part = 1
        BY <3>1, <3>2 DEF Lists
      <3>4. (CHOOSE d \in ix[p] : TRUE) \in ix[p]
        BY <3>3
      <3>5. (CHOOSE d \in ix[p] : TRUE).ver = fs[p].ver
        BY <3>1, <3>4 DEF Lists
      <3> QED
        BY <2>2, <3>1, <3>3, <3>5 DEF ListedOf, Lists
    <2> QED BY <2>1, <2>2
  <1> QED
    BY <1>1 DEF Listed, Present

\* The snapshots BackupService sees, and what they list.
Exposed == [t \in Snapshots |-> Contents(index[t], chunks)]
Seen == [t \in Snapshots |-> Listed(index[t])]

LEMMA ExposedIsSeen == StorageInv => Exposed = Seen
  <1> SUFFICES ASSUME StorageInv PROVE Exposed = Seen OBVIOUS
  <1>1. ASSUME NEW t \in Snapshots PROVE Contents(index[t], chunks) = Listed(index[t])
    <2>1. IndexIn(index[t], chunks)
      BY DEF StorageInv, Snapshots
    <2> QED BY <2>1, ContentsListed
  <1> QED BY <1>1 DEF Exposed, Seen

LEMMA NextExposedIsSeen == StorageInv' => Exposed' = Seen'
  <1> SUFFICES ASSUME StorageInv' PROVE Exposed' = Seen' OBVIOUS
  <1>1. ASSUME NEW t \in Snapshots' PROVE Contents(index[t], chunks)' = Listed(index[t])'
    <2>1. IndexIn(index'[t], chunks')
      BY DEF StorageInv, Snapshots
    <2>2. Contents(index'[t], chunks') = Listed(index'[t])
      BY <2>1, ContentsListed
    <2> QED BY <2>2 DEF Contents, ContentOf, Listed, ListedOf
  <1> QED BY <1>1 DEF Exposed, Seen

LEMMA ServiceStutters ==
  ASSUME StorageInv, StorageInv', UNCHANGED <<fs, index>> PROVE UNCHANGED Service!vars
  <1>1. Present' = Present
    BY DEF Present
  <1>2. Seen' = Seen
    BY DEF Seen, Snapshots, Listed
  <1> QED BY <1>1, <1>2, ExposedIsSeen, NextExposedIsSeen DEF Service!vars, Exposed

LEMMA ServiceStarts == ASSUME TypeOK, Init PROVE Service!Init
  <1>1. Snapshots = {}
    BY DEF Init, Snapshots
  <1>2. Present \in [Paths -> Nat \cup {Absent}]
    BY DEF Present, TypeOK, FileState
  <1> QED BY <1>1, <1>2 DEF Service!Init

LEMMA ServiceChanges ==
  ASSUME TypeOK', StorageInv, StorageInv', UNCHANGED index PROVE Service!Change
  <1>1. Present' \in [Paths -> Nat \cup {Absent}]
    BY DEF Present, TypeOK, FileState
  <1>2. Seen' = Seen
    BY DEF Seen, Snapshots, Listed
  <1> QED BY <1>1, <1>2, ExposedIsSeen, NextExposedIsSeen DEF Service!Change, Exposed

LEMMA ServiceTakes ==
  ASSUME TypeOK, PathsAccounted, ReplayHarmless, NullsDistinct, "readError" \notin Allowed,
         StorageInv, StorageInv', WriteIndexFile
  PROVE  Service!Take(snapshot) \/ UNCHANGED Service!vars
  <1> DEFINE x == IndexFileOf(mem)
  <1>1. /\ snapshot \in Times \ {Lost} /\ x # None /\ Mirrors(x, fs)
        /\ index' = [index EXCEPT ![snapshot] = x]
        /\ JournalTimes(file) = {snapshot} /\ UNCHANGED fs
        /\ \A t \in Snapshots : t =< snapshot
    BY WritesDirectory
  <1> HIDE DEF x
  <1>2. index \in [Times -> IndexFile \cup {None}]
    BY DEF TypeOK
  <1>3. Listed(x) = Present /\ Present' = Present
    BY <1>1, MirrorContents DEF Present
  <1>4. Snapshots' = Snapshots \cup {snapshot}
    BY <1>1, <1>2 DEF Snapshots
  <1>5. Seen' = [t \in Snapshots' |-> Listed(index'[t])]
    BY DEF Seen, Listed
  <1>6. \A t \in Snapshots' : index'[t] = IF t = snapshot THEN x ELSE index[t]
    BY <1>1, <1>2 DEF Snapshots
  <1>7. CASE snapshot \notin Snapshots
    <2>1. \A t \in Snapshots : t < snapshot
      BY <1>1, <1>7 DEF Snapshots, Times
    <2>2. Seen' = [t \in Snapshots \cup {snapshot} |-> IF t = snapshot THEN Present ELSE Seen[t]]
      BY <1>3, <1>4, <1>5, <1>6 DEF Seen
    <2>3. DOMAIN Seen = Snapshots
      BY DEF Seen
    <2>4. Service!Take(snapshot)
      BY <1>3, <2>1, <2>2, <2>3, ExposedIsSeen, NextExposedIsSeen DEF Service!Take, Exposed
    <2> QED BY <2>4
  <1>8. CASE snapshot \in Snapshots
    <2>1. Listed(index[snapshot]) = Present
      BY <1>1, <1>8, MirrorContents DEF ReplayHarmless
    <2>2. Snapshots' = Snapshots
      BY <1>4, <1>8
    <2>3. \A t \in Snapshots : Listed(index'[t]) = Listed(index[t])
      BY <1>3, <1>6, <2>1, <2>2
    <2>4. Seen' = Seen
      BY <1>5, <2>2, <2>3 DEF Seen
    <2> QED BY <1>3, <2>4, ExposedIsSeen, NextExposedIsSeen DEF Service!vars, Exposed
  <1> QED BY <1>7, <1>8

LEMMA ServiceDeletes ==
  ASSUME TypeOK, StorageInv, StorageInv', DeleteIndexObj
  PROVE  (\E t \in Times : Service!Delete(t)) \/ UNCHANGED Service!vars
  <1>1. PICK t \in doomed : index' = [index EXCEPT ![t] = None]
    BY DEF DeleteIndexObj
  <1>2. UNCHANGED fs /\ index \in [Times -> IndexFile \cup {None}]
    BY DEF DeleteIndexObj, env, TypeOK
  <1>3. CASE t \notin Times
    <2>1. index' = index
      BY <1>1, <1>2, <1>3
    <2> QED BY <1>2, <2>1, ServiceStutters
  <1>4. CASE t \in Times
    <2>1. Snapshots' = Snapshots \ {t} /\ \A u \in Snapshots' : index'[u] = index[u]
      BY <1>1, <1>2 DEF Snapshots
    <2>2. Seen' = [u \in Snapshots' |-> Listed(index'[u])] /\ Present' = Present
      BY <1>2 DEF Seen, Listed, Present
    <2>3. Seen' = [u \in Snapshots \ {t} |-> Seen[u]] /\ DOMAIN Seen = Snapshots
      BY <2>1, <2>2 DEF Seen
    <2>4. Service!Delete(t)
      BY <2>2, <2>3, ExposedIsSeen, NextExposedIsSeen DEF Service!Delete, Exposed
    <2> QED BY <1>4, <2>4
  <1> QED BY <1>3, <1>4

\* Every other step leaves files and index objects alone.
LEMMA OtherSteps ==
  ASSUME Next, Quiet, ~WriteIndexFile, ~DeleteIndexObj,
         ~\E p \in Paths : WriteFile(p) \/ RemoveFile(p)
  PROVE  UNCHANGED <<fs, index>>
  BY StoreAnswers
     DEF Next, Machine, Tick, Crash, Start, DoJournaledBackup,
         ForceFullBackup, DeleteSnapshots, CloudRm, RollBack, ReplayBackupJournal,
         Play, GetPrevSnapshot, ClaimNext, NoWork, TaskDeleted, TaskWithoutDirEnt,
         TaskUnchanged, ReadFails, BackupSmall, UploadPart, LargeDone, NewChunk,
         UploadPacker, Finalize, WipeJournal, PersistWhileUploading, CancelBackup, Deletion,
         ListOrphans, DeleteOrphan, OrphansDeleted, ResetTimes, CleanupInfos, CleanupJournal,
         CancelReturn,
         env, bucket

(* The backup engine implements BackupService, for any number of files,    *)
(* sizes, backups, crashes, rollbacks and deletions: every snapshot        *)
(* appears whole, with the contents of the directory and the latest name,  *)
(* can be restored and is never changed from then on, not by the replay of *)
(* its own journal nor by a garbage collection, and only goes by being     *)
(* deleted.                                                                *)
THEOREM BackupKeepsPromise ==
  ASSUME Quiet, CollectedIsForgotten, NullsDistinct, "readError" \notin Allowed
  PROVE  Spec => ImplementsService
  <1>1. TypeOK /\ Init => Service!Init
    BY ServiceStarts
  <1>2. TypeOK /\ TypeOK' /\ StorageInv /\ StorageInv' /\ PathsAccounted /\ ReplayHarmless
          /\ [Next]_vars => [Service!Next]_Service!vars
    <2> SUFFICES ASSUME TypeOK, TypeOK', StorageInv, StorageInv', PathsAccounted,
                        ReplayHarmless, [Next]_vars
                 PROVE  Service!Next \/ UNCHANGED Service!vars
      OBVIOUS
    <2>1. CASE WriteIndexFile
      <3>1. snapshot \in Times
        BY <2>1, WritesDirectory
      <3> QED BY <2>1, <3>1, ServiceTakes DEF Service!Next
    <2>2. CASE DeleteIndexObj
      BY <2>2, ServiceDeletes DEF Service!Next
    <2>3. CASE \E p \in Paths : WriteFile(p) \/ RemoveFile(p)
      <3>1. UNCHANGED index
        BY <2>3 DEF WriteFile, RemoveFile, bucket
      <3> QED BY <3>1, ServiceChanges DEF Service!Next
    <2>4. CASE UNCHANGED vars
      BY <2>4, ServiceStutters DEF vars, env, bucket
    <2> QED
      BY <2>1, <2>2, <2>3, <2>4, OtherSteps, ServiceStutters
  <1> QED
    BY <1>1, <1>2, ReplayRepeats, AccountsKept, StorageInvariant, TypeCorrect, PTL
       DEF Spec, ImplementsService, Service!Spec
=============================================================================
