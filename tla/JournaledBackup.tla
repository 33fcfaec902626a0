--------------------------- MODULE JournaledBackup ---------------------------
(***************************************************************************)
(* The backup engine of tless (pkg/backup, pkg/fstraverse, pkg/snapshots)  *)
(* on one backup directory: a backup traverses the file system, queues its *)
(* work in the journal of an in-memory copy of the database, plays the     *)
(* journal (uploading chunks and noting their extents), writes the         *)
(* snapshot's index object and wipes the journal.  The in-memory copy is   *)
(* written back to the database file at the points the code does it, so a  *)
(* crash leaves the file at the last of them and the journal is replayed.  *)
(* Snapshot deletion, cancelation and rollback all end in a garbage        *)
(* collection of the chunks no index refers to.                            *)
(*                                                                         *)
(* The engine is one thread of control: pc names the place it has reached  *)
(* and an action is the code between two places where a crash, an answer   *)
(* of the object store or the rest of the machine can make a difference.   *)
(***************************************************************************)
EXTENDS Database, FiniteSets

CONSTANTS
    LargePaths,  \* the paths whose contents exceed ChunkSize
    LargeParts,  \* the number of chunks such a file is cut into
    PackCap,     \* how many small files fit in one chunk of the packer
    None,        \* no index object, no previous snapshot, no task
    Allowed,     \* the environment's events the model includes
    MaxTime,     \* bound: the clock
    MaxVer,      \* bound: versions of a file
    MaxBackups,  \* bound: backups started
    MaxFaults    \* bound: crashes and errors

EventKinds == {"crash", "undoCrash", "storeError", "readError", "edit",
               "editDirty", "cancel", "rollback", "delete", "deleteDirty",
               "cloudrm", "dirtyStart", "forceFull", "sameSecond"}

ASSUME PathsAssumption == LargePaths \subseteq Paths
ASSUME SizesAssumption == LargeParts \in Nat \ {0} /\ PackCap \in Nat \ {0}
ASSUME EventsAssumption == Allowed \subseteq EventKinds
ASSUME BoundsAssumption ==
    /\ MaxTime \in Nat \ {0}
    /\ MaxVer \in Nat /\ MaxBackups \in Nat /\ MaxFaults \in Nat

Times == 0..MaxTime

VARIABLES
    now, fs,                   \* the clock (seconds) and the backup directory
    file, mem,                 \* the database file; the copy of a backup
    chunks, nextChunk, index,  \* objects in the bucket; fresh chunk names
    pc,
    snapshot, prev,            \* PlayBackupJournal: snapshot name, prevSnapshot
    task, parts,               \* the claimed row; uploaded parts of a large file
    packer, held,              \* chunkPacker.items; the item it was too full for
    op, doomed, victims, retry,\* who deletes snapshots; which; GC's chunks;
                               \*   whether a failure is followed by another GC
    backups, faults            \* counters for the bounds

env     == <<now, fs>>
bucket  == <<chunks, nextChunk, index>>
local   == <<snapshot, prev, task, parts, packer, held>>
cleanup == <<op, doomed, victims, retry>>
counts  == <<backups, faults>>
vars    == <<env, file, mem, bucket, pc, local, cleanup, counts>>

-----------------------------------------------------------------------------
(* Types *)

FileState == [exists : BOOLEAN, ver : Nat, mtime : Nat]

\* A chunkPackerItem: the journal row it settles and what was read.
Item == [info : Nat, path : Paths, ver : Nat]

IndexFile == [Paths -> Entries]

PlayPlaces == {"Group", "Loop", "Task", "Flush", "Finalize", "Index", "Wipe"}
GCPlaces == {"DeleteIndex", "GCList", "GCDelete"}
CancelPlaces == {"Reset", "Cleanup", "CleanupRows", "Return"}
Places == {"Idle"} \cup PlayPlaces \cup GCPlaces \cup CancelPlaces
Ops == {"none", "cancel", "rollback", "delete"}

-----------------------------------------------------------------------------
(* Snapshots *)

ChunksOf(ix) ==
    {e.chunk : e \in UNION {ix[p] : p \in {q \in Paths : ix[q] # NoEntry}}}

\* Time 0 is no time of a backup: a journal that has lost its backup_info rows
\* is replayed for the backup directory "" at that time, and index[0] stands
\* for the index object written then, under another name.
Lost == 0

\* The snapshots of the backup directory.
Snapshots == {t \in Times \ {Lost} : index[t] # None}

\* The reference count of GCChunks: the chunks some index object needs.
ReferencedChunks == UNION {ChunksOf(index[t]) : t \in {u \in Times : index[u] # None}}

IsMostRecentSnapshot(t) == t \in Snapshots /\ \A u \in Snapshots : u =< t

PartsOf(p) == IF p \in LargePaths THEN LargeParts ELSE 1

\* An index entry lists version v of p, all of it.
Lists(entry, p, v) ==
    /\ entry # NoEntry
    /\ {e.part : e \in entry} = 1..PartsOf(p)
    /\ \A e \in entry : e.ver = v

\* What Restore gets from it, with the chunks C in the bucket, is that version.
Restores(entry, p, v, C) == Lists(entry, p, v) /\ \A e \in entry : e.chunk \in C

-----------------------------------------------------------------------------
(* Fault bookkeeping, and the end of a backup's stack frame *)

Fault(kind) ==
    /\ kind \in Allowed
    /\ faults < MaxFaults
    /\ faults' = faults + 1
    /\ UNCHANGED backups

\* Return from DoJournaledBackup, ReplayBackupJournal or a deletion, or die:
\* the locals and the in-memory database are gone.
Leave ==
    /\ pc' = "Idle"
    /\ mem' = EmptyDB
    /\ snapshot' = 0
    /\ prev' = None
    /\ task' = None
    /\ parts' = {}
    /\ packer' = {}
    /\ held' = {}
    /\ op' = "none"
    /\ doomed' = {}
    /\ victims' = {}
    /\ retry' = FALSE

Goto(place) == pc' = place

-----------------------------------------------------------------------------
(* The machine: clock, files, crashes *)

Init ==
    /\ now = 1
    /\ fs = [p \in Paths |-> [exists |-> TRUE, ver |-> 1, mtime |-> 1]]
    /\ file = EmptyDB
    /\ mem = EmptyDB
    /\ chunks = {}
    /\ nextChunk = 0
    /\ index = [t \in Times |-> None]
    /\ pc = "Idle"
    /\ snapshot = 0
    /\ prev = None
    /\ task = None
    /\ parts = {}
    /\ packer = {}
    /\ held = {}
    /\ op = "none"
    /\ doomed = {}
    /\ victims = {}
    /\ retry = FALSE
    /\ backups = 0
    /\ faults = 0

Tick ==
    /\ now < MaxTime
    /\ now' = now + 1
    /\ UNCHANGED <<fs, file, mem, bucket, pc, local, cleanup, counts>>

\* Unless "edit" is allowed files only change between backups, and in a later
\* second than the last one: the quiet directory the mtime test presumes.
\* "editDirty" lets them change before an interrupted backup is resumed, too.
MayChangeFiles ==
    \/ "edit" \in Allowed
    \/ /\ pc = "Idle"
       /\ HasDirtyBackupJournal(file) => "editDirty" \in Allowed
       /\ \A p \in Paths : file.dirents[p] < now

WriteFile(p) ==
    /\ MayChangeFiles
    /\ fs[p].ver < MaxVer
    /\ fs' = [fs EXCEPT ![p] = [exists |-> TRUE, ver |-> @.ver + 1, mtime |-> now]]
    /\ UNCHANGED <<now, file, mem, bucket, pc, local, cleanup, counts>>

RemoveFile(p) ==
    /\ MayChangeFiles
    /\ fs[p].exists
    /\ fs' = [fs EXCEPT ![p].exists = FALSE]
    /\ UNCHANGED <<now, file, mem, bucket, pc, local, cleanup, counts>>

\* A cancelation or a rollback may have collected chunks that the journal in
\* the database file refers to, and has not cleared that journal yet.
Undoing ==
    /\ op \in {"cancel", "rollback"}
    /\ pc \in {"GCDelete"} \cup CancelPlaces \/ (pc = "GCList" /\ ~retry)

\* The process dies: the database file and the bucket are what is left.
Crash ==
    /\ pc # "Idle"
    /\ Fault(IF Undoing THEN "undoCrash" ELSE "crash")
    /\ Leave
    /\ UNCHANGED <<env, file, bucket>>

-----------------------------------------------------------------------------
(* Starting a backup: Traverse and the journal *)

\* The queue Traverse fills from the entries it saw.
UpdatedOrUnchanged(db, seen) ==
    {[path |-> p,
      change |-> IF HasDirEnt(db, p) /\ fs[p].mtime =< db.dirents[p]
                 THEN "Unchanged" ELSE "Updated"] : p \in seen}

\* What is left of knownPaths after the walk.
Gone(db, seen) ==
    {[path |-> p, change |-> "Deleted"] : p \in GetAllKnownPaths(db) \ seen}

\* Traverse and the two bulk inserts: one backup_info row each, of the same
\* second (the code asks for the time twice).
FillJournal(db, seen, t) ==
    LET inserted == InsertDirEnts(db, {p \in seen : ~HasDirEnt(db, p)})
        updated  == InsertBackupJournal(inserted, t, UpdatedOrUnchanged(db, seen))
    IN  InsertBackupJournal(updated, t, Gone(db, seen))

\* A walk sees every entry unless a directory or an entry cannot be read.
Walk(seen) ==
    LET existing == {p \in Paths : fs[p].exists}
    IN  \/ seen = existing /\ backups' = backups + 1 /\ UNCHANGED faults
        \/ /\ "readError" \in Allowed /\ faults < MaxFaults
           /\ seen # existing /\ seen \subseteq existing
           /\ backups' = backups + 1 /\ faults' = faults + 1

\* DoJournaledBackup up to PlayBackupJournal.  The command line replays or
\* rolls back a dirty journal first; the daemon's Backup does not look.
\* Two backups get the same snapshot name only if started in one second.
DoJournaledBackup ==
    /\ pc = "Idle"
    /\ backups < MaxBackups
    /\ HasDirtyBackupJournal(file) => "dirtyStart" \in Allowed
    /\ (\E i \in file.infos : i.time = now) => "sameSecond" \in Allowed
    /\ \E seen \in SUBSET Paths :
        LET db == FillJournal(file, seen, now)
        IN  /\ Walk(seen)
            /\ \/ /\ \E info \in GetJournaledBackupInfo(db) : snapshot' = info.time
                  /\ mem' = db
                  /\ Goto("Group")
                  /\ UNCHANGED <<file, prev, task, parts, packer, held, cleanup>>
               \/ \* nothing to back up: the deferred persist and return
                  /\ GetJournaledBackupInfo(db) = {}
                  /\ file' = db
                  /\ UNCHANGED <<mem, pc, local, cleanup>>
    /\ UNCHANGED <<env, bucket>>

\* ReplayBackupJournal up to PlayBackupJournal, on Hello or the next command.
\* That the journal has no backup_info row is logged, and the replay goes on.
ReplayBackupJournal ==
    /\ pc = "Idle"
    /\ HasDirtyBackupJournal(file)
    /\ mem' = ResetAllInProgressBackupJournalTasks(file)
    /\ \/ \E info \in GetJournaledBackupInfo(file) : snapshot' = info.time
       \/ JournaledInfos(file) = {} /\ snapshot' = Lost
    /\ Goto("Group")
    /\ UNCHANGED <<env, file, bucket, prev, task, parts, packer, held, cleanup, counts>>

\* The Backup RPC's ForceFullBackup, before it starts the backup.
ForceFullBackup ==
    /\ "forceFull" \in Allowed
    /\ pc = "Idle"
    /\ file' = ResetLastBackedUpTime(file)
    /\ UNCHANGED <<env, mem, bucket, pc, local, cleanup, counts>>

-----------------------------------------------------------------------------
(* PlayBackupJournal *)

\* GetGroupedSnapshots, then the forced persist.
GetPrevSnapshot ==
    /\ pc = "Group"
    /\ \/ snapshot = Lost /\ prev' = index[Lost]
       \/ snapshot # Lost /\ Snapshots = {} /\ prev' = None
       \/ /\ snapshot # Lost
          /\ \E t \in Snapshots : IsMostRecentSnapshot(t) /\ prev' = index[t]
    /\ file' = mem
    /\ Goto("Loop")
    /\ UNCHANGED <<env, mem, bucket, snapshot, task, parts, packer, held, cleanup, counts>>

\* The snapshots cannot be read: return, with the deferred persist.
GetPrevSnapshotFails ==
    /\ pc = "Group"
    /\ Fault("storeError")
    /\ file' = mem
    /\ Leave
    /\ UNCHANGED <<env, bucket>>

\* persistMemDbToFile without force: it depends on the time since the last one.
MayPersist == file' \in {file, mem}

ClaimNext ==
    /\ pc = "Loop"
    /\ MayPersist
    /\ \E r \in UnstartedRows(mem) :
        /\ mem' = ClaimBackupJournalTask(mem, r)
        /\ task' = r
    /\ Goto("Task")
    /\ UNCHANGED <<env, bucket, snapshot, prev, parts, packer, held, cleanup, counts>>

\* Mutant: the chunk still pending in the packer is not completed.
NoWorkForgetsPacker ==
    /\ pc = "Loop"
    /\ UnstartedRows(mem) = {}
    /\ packer = {}
    /\ MayPersist
    /\ Goto("Index")
    /\ UNCHANGED <<env, mem, bucket, local, cleanup, counts>>

\* ErrNoWork: cp.Complete uploads what is pending, if anything.
NoWork ==
    /\ pc = "Loop"
    /\ UnstartedRows(mem) = {}
    /\ MayPersist
    /\ Goto(IF packer = {} THEN "Index" ELSE "Flush")
    /\ UNCHANGED <<env, mem, bucket, local, cleanup, counts>>

\* completeTask, and whether it found the journal complete.
EndTask(db) ==
    /\ mem' = db
    /\ task' = None
    /\ parts' = {}
    /\ held' = {}
    /\ Goto(IF AllTasksFinished(db) THEN "Index" ELSE "Loop")

\* updateLastBackupTime and completeTask of a task finished immediately.
FinishTask(db, entry) ==
    EndTask(CompleteBackupJournalTask(
                UpdateLastBackupTime(db, task.path, now), task, entry))

\* Mutant: a file that could not be backed up counts as backed up.
FailTaskMarksBackedUp ==
    /\ mem' = CompleteBackupJournalTask(
                 UpdateLastBackupTime(mem, task.path, now), task, NoEntry)
    /\ task' = None
    /\ parts' = {}
    /\ held' = {}
    /\ Goto("Loop")

\* Backup returned an error: completed without an entry, last_backup as it
\* was; the loop goes on even when this was the last task.
FailTask ==
    /\ mem' = CompleteBackupJournalTask(mem, task, NoEntry)
    /\ task' = None
    /\ parts' = {}
    /\ held' = {}
    /\ Goto("Loop")

\* The dirents row is purged by the name of the backup directory.
TaskDeleted ==
    /\ pc = "Task"
    /\ task.change = "Deleted"
    /\ FinishTask(IF snapshot = Lost THEN mem ELSE DeleteDirEntByPath(mem, task.path), NoEntry)
    /\ UNCHANGED <<env, file, bucket, snapshot, prev, packer, cleanup, counts>>

\* The dirents row is gone (two journals in one): GetDirEntPaths yields an
\* empty relPath, and what is recorded is the backup directory itself, which
\* is none of Paths.
TaskWithoutDirEnt ==
    /\ pc = "Task"
    /\ task.change # "Deleted"
    /\ ~HasDirEnt(mem, task.path)
    /\ FinishTask(mem, NoEntry)
    /\ UNCHANGED <<env, file, bucket, snapshot, prev, packer, cleanup, counts>>

\* The extents of the previous snapshot, none if it lacks the path.
TaskUnchanged ==
    /\ pc = "Task"
    /\ task.change = "Unchanged"
    /\ HasDirEnt(mem, task.path)
    /\ prev # None
    /\ FinishTask(mem, IF prev[task.path] = NoEntry THEN {} ELSE prev[task.path])
    /\ UNCHANGED <<env, file, bucket, snapshot, prev, packer, cleanup, counts>>

\* The tasks for which Backup is called.
CallsBackup ==
    /\ pc = "Task"
    /\ HasDirEnt(mem, task.path)
    /\ task.change = "Updated" \/ (task.change = "Unchanged" /\ prev = None)

\* A file is looked up once, below the backup directory; a large one then stays
\* open between its parts.
Found == snapshot # Lost /\ (fs[task.path].exists \/ parts # {})

\* Lstat, open or read fails.
ReadFails ==
    /\ CallsBackup
    /\ \/ ~Found /\ UNCHANGED counts
       \/ Found /\ Fault("readError")
    /\ FailTask
    /\ UNCHANGED <<env, file, bucket, snapshot, prev, packer, cleanup>>

ItemRead == [info |-> task.info, path |-> task.path, ver |-> fs[task.path].ver]

\* A small file: into the packer, or the packer has to be uploaded first.
BackupSmall ==
    /\ CallsBackup
    /\ task.path \notin LargePaths
    /\ Found
    /\ \/ /\ Cardinality(packer) < PackCap
          /\ packer' = packer \cup {ItemRead}
          /\ task' = None
          /\ Goto("Loop")
          /\ UNCHANGED held
       \/ /\ Cardinality(packer) >= PackCap
          /\ held' = {ItemRead}
          /\ Goto("Flush")
          /\ UNCHANGED <<packer, task>>
    /\ UNCHANGED <<env, file, mem, bucket, snapshot, prev, parts, cleanup, counts>>

NewChunk ==
    /\ chunks' = chunks \cup {nextChunk}
    /\ nextChunk' = nextChunk + 1
    /\ UNCHANGED index

PartsUploaded == {e.part : e \in parts}

\* One iteration of the loop over a large file: read, encrypt, upload.
UploadPart ==
    /\ CallsBackup
    /\ task.path \in LargePaths
    /\ Found
    /\ NewChunk
    /\ \E n \in 1..LargeParts :
        /\ PartsUploaded = 1..(n - 1)
        /\ parts' = parts \cup {[chunk |-> nextChunk, part |-> n,
                                 ver |-> fs[task.path].ver]}
    /\ UNCHANGED <<env, file, mem, pc, snapshot, prev, task, packer, held, cleanup, counts>>

UploadPartFails ==
    /\ CallsBackup
    /\ task.path \in LargePaths
    /\ Found
    /\ PartsUploaded # 1..LargeParts
    /\ Fault("storeError")
    /\ FailTask
    /\ UNCHANGED <<env, file, bucket, snapshot, prev, packer, cleanup>>

\* End of file: the extents are returned and the task finished.
LargeDone ==
    /\ CallsBackup
    /\ task.path \in LargePaths
    /\ PartsUploaded = 1..LargeParts
    /\ FinishTask(mem, parts)
    /\ UNCHANGED <<env, file, bucket, snapshot, prev, packer, cleanup, counts>>

-----------------------------------------------------------------------------
(* chunkPacker.Complete *)

\* runWhileUploadingFunc, a goroutine beside the upload.
PersistWhileUploading ==
    /\ pc = "Flush"
    /\ file' = mem
    /\ UNCHANGED <<env, mem, bucket, pc, local, cleanup, counts>>

UploadPacker ==
    /\ pc = "Flush"
    /\ NewChunk
    /\ Goto("Finalize")
    /\ UNCHANGED <<env, file, mem, local, cleanup, counts>>

\* Complete gives up and the packer stays full.  Backup then returns no
\* extents and a nil error, so the task is finished with an empty entry; at
\* the end of the journal the index is written without the pending items.
UploadPackerFails ==
    /\ pc = "Flush"
    /\ Fault("storeError")
    /\ IF held = {}
       THEN Goto("Index") /\ UNCHANGED <<mem, task, parts, held>>
       ELSE FinishTask(mem, {})
    /\ UNCHANGED <<env, file, bucket, snapshot, prev, packer, cleanup>>

\* updateLastBackupTime and completeTask for every item of the chunk.
FinalizeItems(db, items, chunk, t) ==
    [db EXCEPT
        !.dirents = [p \in Paths |->
            IF HasDirEnt(db, p) /\ \E i \in items : i.path = p THEN t ELSE @[p]],
        !.journal = {LET own == {i \in items : IsRow(r, i)}
                     IN  IF own = {} THEN r
                         ELSE [r EXCEPT !.status = "Finished",
                                        !.entry = {[chunk |-> chunk, part |-> 1,
                                                    ver |-> i.ver] : i \in own}]
                     : r \in @}]

\* Mutant: the item that did not fit is added but not let go of.
FinalizeKeepsHeld ==
    /\ pc = "Finalize"
    /\ mem' = FinalizeItems(mem, packer, nextChunk - 1, now)
    /\ packer' = held
    /\ task' = None
    /\ Goto(IF held = {} THEN "Index" ELSE "Loop")
    /\ UNCHANGED <<env, file, bucket, snapshot, prev, parts, held, cleanup, counts>>

\* The packer is reset and takes the item it had no room for.
Finalize ==
    /\ pc = "Finalize"
    /\ mem' = FinalizeItems(mem, packer, nextChunk - 1, now)
    /\ packer' = held
    /\ held' = {}
    /\ task' = None
    /\ Goto(IF held = {} THEN "Index" ELSE "Loop")
    /\ UNCHANGED <<env, file, bucket, snapshot, prev, parts, cleanup, counts>>

-----------------------------------------------------------------------------
(* writeIndexFileAndWipeJournal *)

WriteIndexFile ==
    /\ pc = "Index"
    /\ index' = [index EXCEPT ![snapshot] = IndexFileOf(mem)]
    /\ Goto("Wipe")
    /\ UNCHANGED <<env, file, mem, chunks, nextChunk, local, cleanup, counts>>

\* The error is logged and the journal wiped all the same.
WriteIndexFileFails ==
    /\ pc = "Index"
    /\ Fault("storeError")
    /\ Goto("Wipe")
    /\ UNCHANGED <<env, file, mem, bucket, local, cleanup>>

\* WipeBackupJournal, return, the deferred persist.
WipeJournal ==
    /\ pc = "Wipe"
    /\ file' = WipeBackupJournal(mem)
    /\ Leave
    /\ UNCHANGED <<env, bucket, counts>>

-----------------------------------------------------------------------------
(* Deleting snapshots: the daemon's RPC, cloudrm, cancelation, rollback *)

StartDeletion(who, S) ==
    /\ op' = who
    /\ doomed' = S
    /\ retry' = (who # "delete")
    /\ Goto("DeleteIndex")
    /\ UNCHANGED victims

\* Mutant: deleting the most recent snapshot does not force a full backup.
DeleteSnapshotsNoReset ==
    /\ "delete" \in Allowed
    /\ pc = "Idle"
    /\ HasDirtyBackupJournal(file) => "deleteDirty" \in Allowed
    /\ \E S \in SUBSET Snapshots \ {{}} : StartDeletion("delete", S)
    /\ UNCHANGED <<env, file, mem, bucket, local, counts>>

\* The daemon's DeleteSnapshots: the next backup is made a full one when the
\* most recent snapshot is among the doomed.
DeleteSnapshots ==
    /\ "delete" \in Allowed
    /\ pc = "Idle"
    /\ HasDirtyBackupJournal(file) => "deleteDirty" \in Allowed
    /\ \E S \in SUBSET Snapshots \ {{}} :
        /\ file' = IF \E t \in S : IsMostRecentSnapshot(t)
                   THEN ResetLastBackedUpTime(file) ELSE file
        /\ StartDeletion("delete", S)
    /\ UNCHANGED <<env, mem, bucket, local, counts>>

\* The command line's cloudrm leaves the database alone.
CloudRm ==
    /\ "cloudrm" \in Allowed
    /\ pc = "Idle"
    /\ HasDirtyBackupJournal(file) => "deleteDirty" \in Allowed
    /\ \E S \in SUBSET Snapshots \ {{}} : StartDeletion("delete", S)
    /\ UNCHANGED <<env, file, mem, bucket, local, counts>>

\* checkAndHandleCancelation found a request at the top of the loop.
CancelBackup ==
    /\ "cancel" \in Allowed
    /\ pc = "Loop"
    /\ StartDeletion("cancel", {snapshot})
    /\ UNCHANGED <<env, file, mem, bucket, local, counts>>

\* handleReplay with --resume-backup=false.
RollBack ==
    /\ "rollback" \in Allowed
    /\ pc = "Idle"
    /\ \E info \in GetJournaledBackupInfo(file) : StartDeletion("rollback", {info.time})
    /\ UNCHANGED <<env, file, mem, bucket, local, counts>>

\* Deleting an object that is not there is no error.
DeleteIndexObj ==
    /\ pc = "DeleteIndex"
    /\ \E t \in doomed :
        /\ index' = [index EXCEPT ![t] = None]
        /\ doomed' = doomed \ {t}
        /\ Goto(IF doomed = {t} THEN "GCList" ELSE "DeleteIndex")
    /\ UNCHANGED <<env, file, mem, chunks, nextChunk, local, op, victims, retry, counts>>

\* Back to whoever asked for the deletion.
AfterDeletion ==
    \/ /\ op = "delete"
       /\ Leave
    \/ /\ op # "delete"
       /\ Goto("Reset")
       /\ doomed' = {}
       /\ victims' = {}
       /\ UNCHANGED <<mem, local, op, retry>>

\* DeleteSnapshots or GCChunks returned an error: cancelBackup and
\* handleReplay then call GCChunks once more.
DeletionFails ==
    /\ pc \in GCPlaces
    /\ pc = "GCDelete" => victims # {}
    /\ Fault("storeError")
    /\ \/ /\ retry
          /\ retry' = FALSE
          /\ doomed' = {}
          /\ victims' = {}
          /\ Goto("GCList")
          /\ UNCHANGED <<mem, local, op>>
       \/ ~retry /\ AfterDeletion
    /\ UNCHANGED <<env, file, bucket>>

\* Mutant: only the first extent of an entry is counted.
ListOrphansByFirstExtent ==
    /\ pc = "GCList"
    /\ victims' = {c \in chunks : \A t \in Snapshots, p \in Paths :
                     index[t][p] # NoEntry =>
                         \A e \in index[t][p] : e.part = 1 => e.chunk # c}
    /\ Goto("GCDelete")
    /\ UNCHANGED <<env, file, mem, bucket, local, op, doomed, retry, counts>>

\* GCChunks: the reference counts, then the list of chunks.
ListOrphans ==
    /\ pc = "GCList"
    /\ victims' = chunks \ ReferencedChunks
    /\ Goto("GCDelete")
    /\ UNCHANGED <<env, file, mem, bucket, local, op, doomed, retry, counts>>

DeleteOrphan ==
    /\ pc = "GCDelete"
    /\ \E c \in victims :
        /\ chunks' = chunks \ {c}
        /\ victims' = victims \ {c}
    /\ UNCHANGED <<env, file, mem, nextChunk, index, pc, local, op, doomed, retry, counts>>

OrphansDeleted ==
    /\ pc = "GCDelete"
    /\ victims = {}
    /\ AfterDeletion
    /\ UNCHANGED <<env, file, bucket, counts>>

\* The rest of cancelBackup and handleReplay works on the database file.
ResetTimes ==
    /\ pc = "Reset"
    /\ file' = CancelationResetLastBackupTime(file)
    /\ Goto("Cleanup")
    /\ UNCHANGED <<env, mem, bucket, local, cleanup, counts>>

\* The two statements of CancelationCleanupJournal.
CleanupInfos ==
    /\ pc = "Cleanup"
    /\ file' = CancelationDeleteInfos(file)
    /\ Goto("CleanupRows")
    /\ UNCHANGED <<env, mem, bucket, local, cleanup, counts>>

CleanupJournal ==
    /\ pc = "CleanupRows"
    /\ file' = WipeBackupJournal(file)
    /\ \/ op = "rollback" /\ Leave
       \/ op = "cancel" /\ Goto("Return") /\ UNCHANGED <<mem, local, cleanup>>
    /\ UNCHANGED <<env, bucket, counts>>

\* PlayBackupJournal returns to DoJournaledBackup: the deferred persist.
CancelReturn ==
    /\ pc = "Return"
    /\ file' = mem
    /\ Leave
    /\ UNCHANGED <<env, bucket, counts>>

-----------------------------------------------------------------------------

Play ==
    \/ GetPrevSnapshot \/ ClaimNext \/ NoWork
    \/ TaskDeleted \/ TaskWithoutDirEnt \/ TaskUnchanged
    \/ ReadFails \/ BackupSmall \/ UploadPart \/ LargeDone
    \/ UploadPacker \/ Finalize \/ WriteIndexFile \/ WipeJournal

PlayFails ==
    \/ GetPrevSnapshotFails \/ UploadPartFails
    \/ UploadPackerFails \/ WriteIndexFileFails

Deletion ==
    \/ DeleteIndexObj \/ ListOrphans \/ DeleteOrphan \/ OrphansDeleted
    \/ ResetTimes \/ CleanupInfos \/ CleanupJournal \/ CancelReturn

Start == DoJournaledBackup \/ ForceFullBackup \/ DeleteSnapshots \/ CloudRm \/ RollBack

Machine == Tick \/ Crash \/ \E p \in Paths : WriteFile(p) \/ RemoveFile(p)

Next ==
    \/ Machine
    \/ Start
    \/ ReplayBackupJournal
    \/ Play
    \/ PlayFails
    \/ PersistWhileUploading
    \/ CancelBackup
    \/ Deletion
    \/ DeletionFails

Spec == Init /\ [][Next]_vars

\* The engine's thread runs on; an interrupted backup is taken up again.
Fairness == WF_vars(Play) /\ WF_vars(Deletion) /\ WF_vars(ReplayBackupJournal)

FairSpec == Spec /\ Fairness

-----------------------------------------------------------------------------
(* Properties *)

(* Type correctness, with the facts about the places that the actions rely *)
(* on: a row is claimed at "Task" and while a full packer is uploaded, the *)
(* only time an item waits for it.                                         *)
TypeOK ==
    /\ now \in Times \ {0}
    /\ fs \in [Paths -> FileState]
    /\ file \in DB
    /\ mem \in DB
    /\ chunks \in SUBSET Nat
    /\ nextChunk \in Nat
    /\ index \in [Times -> IndexFile \cup {None}]
    /\ pc \in Places
    /\ snapshot \in Nat
    /\ prev \in IndexFile \cup {None}
    /\ task \in JournalRow \cup {None}
    /\ parts \in SUBSET Extent
    /\ packer \in SUBSET Item
    /\ held \in SUBSET Item
    /\ op \in Ops
    /\ doomed \in SUBSET Nat
    /\ victims \in SUBSET Nat
    /\ retry \in BOOLEAN
    /\ backups \in Nat
    /\ faults \in Nat
    /\ pc = "Task" => task \in JournalRow
    /\ held # {} => pc \in {"Flush", "Finalize"} /\ task \in JournalRow
    /\ pc = "Finalize" => nextChunk > 0

(* No snapshot refers to a chunk that is not in the bucket: what an index  *)
(* lists can be restored, whatever was uploaded, collected as garbage,     *)
(* crashed and replayed before (WriteIndexFile, GCChunks).                 *)
NoDangling == ReferencedChunks \subseteq chunks

(* The inductive strengthening of NoDangling.  An extent travels from the  *)
(* upload through parts or the packer into the journal of the copy, with   *)
(* it into the file, and from a journal or a previous snapshot into an     *)
(* index: none of these places may refer to a missing chunk, and garbage   *)
(* is collected only while no journal refers to anything, or by a rollback *)
(* that goes on to clear the journal in the file.                          *)
IndexIn(ix, C) == \A p \in Paths : ix[p] # NoEntry => \A e \in ix[p] : e.chunk \in C

JournalIn(db, C) ==
    \A r \in db.journal : r.entry # NoEntry => \A e \in r.entry : e.chunk \in C

\* No backup is under way.
NoBackup == mem.journal = {} /\ prev = None /\ parts = {}

\* A journal whose chunks may have been collected is never played: there is no
\* cancelation (it writes the journal back), no crash in the middle of an undo,
\* and snapshots are deleted only when the journal is clean.
CollectedIsForgotten == Allowed \cap {"cancel", "undoCrash", "deleteDirty"} = {}

StorageInv ==
    /\ \A t \in Times : index[t] # None => IndexIn(index[t], chunks)
    /\ ~Undoing => JournalIn(file, chunks)
    /\ JournalIn(mem, chunks)
    /\ prev # None => IndexIn(prev, chunks)
    /\ \A e \in parts : e.chunk \in chunks
    /\ pc = "Finalize" => nextChunk - 1 \in chunks
    /\ pc = "Idle" => NoBackup
    /\ pc \in GCPlaces \cup CancelPlaces =>
         /\ NoBackup
         /\ op \in {"delete", "rollback"}
         /\ op = "delete" => pc \in GCPlaces /\ ~retry /\ file.journal = {}
    /\ pc = "GCDelete" => victims \cap ReferencedChunks = {}

(* Between backups, whatever the next Traverse will take for unchanged can *)
(* be restored at its present contents from the most recent snapshot, the  *)
(* one whose extents the next snapshot will record for it.                 *)
Unchanged(p) ==
    fs[p].exists /\ HasDirEnt(file, p) /\ fs[p].mtime =< file.dirents[p]

IncrementalSound ==
    pc = "Idle" /\ ~HasDirtyBackupJournal(file) =>
        \A t \in Snapshots, p \in Paths :
            IsMostRecentSnapshot(t) /\ Unchanged(p) =>
                Restores(index[t][p], p, fs[p].ver, chunks)

(* The part of IncrementalSound that is about the database and the index   *)
(* objects alone: that snapshot lists the file, whole and at its present   *)
(* contents.  A backup that was canceled, and undone and forgotten only in *)
(* the database file, still has that; the chunks may be gone.              *)
IncrementalListed ==
    pc = "Idle" /\ ~HasDirtyBackupJournal(file) =>
        \A t \in Snapshots, p \in Paths :
            IsMostRecentSnapshot(t) /\ Unchanged(p) => Lists(index[t][p], p, fs[p].ver)

(* In a quiet directory a snapshot is the directory: from the index that   *)
(* WriteIndexFile writes every file that exists can be restored, whole and *)
(* at its present version, and no other, even when the backup was          *)
(* interrupted and replayed.                                               *)
SnapshotMatchesFs ==
    [][index' # index /\ pc = "Index" =>
        \A p \in Paths :
            IF fs[p].exists THEN Restores(index'[snapshot][p], p, fs[p].ver, chunks')
                            ELSE index'[snapshot][p] = NoEntry]_vars

(* A journal left by a crash or an error is played to its end and wiped    *)
(* once the program is run again (ReplayBackupJournal), and no step of the *)
(* engine waits forever.                                                   *)
DirtyJournalResolved ==
    HasDirtyBackupJournal(file) ~> (pc = "Idle" /\ ~HasDirtyBackupJournal(file))

(* Every backup and every deletion ends, with success or without.          *)
EngineReturns == pc # "Idle" ~> pc = "Idle"

(* A canceled backup is not remembered: once cancelBackup has cleared the  *)
(* journal and PlayBackupJournal has returned, the journal is clean.       *)
CancelationForgotten == [][pc = "Return" => ~HasDirtyBackupJournal(file')]_vars

(* Nor does a rolled back one look like a completed backup: what the       *)
(* status then reports as completed does not include its snapshot time     *)
(* (CancelationCleanupJournal, GetLastCompletedBackupUnixTime).            *)
RollbackForgotten ==
    [][pc = "Cleanup" /\ pc' = "CleanupRows" /\ op = "rollback" =>
        \A i \in CompletedInfos(file'), j \in JournaledInfos(file) : i.time # j.time]_vars

-----------------------------------------------------------------------------
(* The inductive invariant behind IncrementalListed and, with StorageInv,  *)
(* behind IncrementalSound and SnapshotMatchesFs: it tells what is listed. *)
(* What it says of a database db is said with respect to the files f, the  *)
(* index objects ix and the clock n.                                       *)

\* A directory that changes only between backups and never while one is to be
\* resumed, a store that answers, snapshots deleted by the daemon, undos that
\* are not cut off, and each backup with a journal and a second of its own.
Quiet == Allowed \cap {"edit", "editDirty", "storeError", "cloudrm", "undoCrash",
                       "deleteDirty", "dirtyStart", "sameSecond"} = {}

\* NULL is no list of extents, and None no index object and no task.
NullsDistinct == NoEntry \notin SUBSET Extent /\ None \notin IndexFile \cup JournalRow

\* What a Traverse on db would take for unchanged.
TakenForUnchanged(db, p, f) ==
    f[p].exists /\ HasDirEnt(db, p) /\ f[p].mtime =< db.dirents[p]

ListsPresent(entry, p, f) == Lists(entry, p, f[p].ver)

SnapshotsIn(ix) == {t \in Times \ {Lost} : ix[t] # None}

\* The snapshot a pending journal is to become, by name, and the ones before.
JournalTimes(db) == {i.time : i \in JournaledInfos(db)}
Earlier(db, ix) == SnapshotsIn(ix) \ JournalTimes(db)

\* The last of the earlier snapshots has the present contents of p.
BaseLists(db, p, f, ix) ==
    \E t \in Earlier(db, ix) :
        (\A u \in Earlier(db, ix) : u =< t) /\ ListsPresent(ix[t][p], p, f)

OneRowPerPath(db) == \A r, q \in db.journal : r.path = q.path => r = q

\* The backup_info rows of a journal are of one time, the latest of all.
JournalShape(db, ix, n) ==
    /\ \A i \in db.infos : i.id =< db.seq /\ i.time \in 1..n
    /\ \A t \in SnapshotsIn(ix) : \E i \in db.infos : i.time = t
    /\ \A r \in db.journal : \E i \in db.infos : i.id = r.info
    /\ OneRowPerPath(db)
    /\ \A s \in JournalTimes(db) : /\ \A u \in JournalTimes(db) : s = u
                                   /\ \A t \in SnapshotsIn(ix) : t =< s

\* What a row says of its path.
RowSound(db, r, f) ==
    /\ r.change = "Deleted" => r.entry = NoEntry
    /\ r.change # "Deleted" => HasDirEnt(db, r.path)
    /\ r.change = "Unchanged" /\ r.status = "Finished" => ListsPresent(r.entry, r.path, f)
    /\ TakenForUnchanged(db, r.path, f) =>
         /\ r.change = "Updated" => r.status = "Finished"
         /\ r.status = "Finished" => ListsPresent(r.entry, r.path, f)
    /\ "readError" \notin Allowed =>
         /\ r.change # "Deleted" <=> f[r.path].exists
         /\ r.change = "Updated" /\ r.status = "Finished" => ListsPresent(r.entry, r.path, f)

\* The snapshots the extents of an Unchanged row may be taken from have them.
RowRests(db, r, f, ix) ==
    r.change = "Unchanged" =>
        /\ BaseLists(db, r.path, f, ix)
        /\ \A s \in JournalTimes(db) \cap SnapshotsIn(ix) : ListsPresent(ix[s][r.path], r.path, f)

\* What is taken for unchanged has been backed up, by this backup or before; the
\* journal is of every path that is known, and of every one that can be seen.
PathSound(db, p, f, ix) ==
    /\ TakenForUnchanged(db, p, f) =>
         \/ BaseLists(db, p, f, ix)
         \/ \E r \in db.journal : r.path = p /\ r.status = "Finished"
    /\ /\ db.journal # {}
       /\ HasDirEnt(db, p) \/ ("readError" \notin Allowed /\ f[p].exists)
       => \E r \in db.journal : r.path = p

DbSound(db, f, ix, n) ==
    /\ JournalShape(db, ix, n)
    /\ \A r \in db.journal : RowSound(db, r, f) /\ RowRests(db, r, f, ix)
    /\ \A p \in Paths : PathSound(db, p, f, ix)

FilesTimed == \A p \in Paths : fs[p].mtime > 0 /\ fs[p].mtime =< now

\* A backup has its copy of the database, also while it is canceled.
Running == pc \in PlayPlaces \/ op = "cancel"

\* Who is at which place, and that nothing is left of a backup that returned.
PlacesSound ==
    /\ op = "none" <=> pc \in {"Idle"} \cup PlayPlaces
    /\ op = "delete" => pc \in GCPlaces
    /\ pc = "Return" => op = "cancel"
    /\ ~Running => task = None /\ parts = {} /\ packer = {} /\ held = {}

\* What was read is the present version, for a row that is waiting for it.
ItemsSound ==
    /\ \A i \in packer \cup held :
         /\ i.path \notin LargePaths /\ i.ver = fs[i.path].ver
         /\ \E r \in mem.journal : IsRow(r, i) /\ r.change = "Updated"
    /\ \A i \in held : i.info = task.info /\ i.path = task.path
    /\ \A e \in parts : e.ver = fs[task.path].ver
    /\ parts # {} => pc = "Task" /\ task.path \in LargePaths

\* Where the rows in progress are.
RowsSound ==
    /\ \A r \in mem.journal : r.status = "InProgress" =>
         \/ task # None /\ IsRow(r, task)
         \/ \E i \in packer \cup held : IsRow(r, i)
    /\ pc = "Task" =>
         \E r \in mem.journal : IsRow(r, task) /\ r.change = task.change /\ r.status = "InProgress"
    /\ pc \in {"Group", "Loop"} \/ (held = {} /\ pc \in {"Flush", "Finalize"}) => task = None
    /\ held = {} /\ pc \in {"Flush", "Finalize"} => UnstartedRows(mem) = {}
    /\ pc \in {"Index", "Wipe"} => AllTasksFinished(mem)

\* The file has the journal of the copy, and the previous snapshot what the
\* Unchanged rows of both will take from it.
PrevSound ==
    /\ JournalTimes(file) = {snapshot}
    /\ \A r \in file.journal : r.change = "Unchanged" =>
         \E q \in mem.journal : q.path = r.path /\ q.change = "Unchanged"
    /\ \A r \in mem.journal : r.change = "Unchanged" =>
         prev # None /\ ListsPresent(prev[r.path], r.path, fs)

WrittenSound ==
    /\ snapshot \in Snapshots
    /\ \A p \in Paths : TakenForUnchanged(mem, p, fs) => ListsPresent(index[snapshot][p], p, fs)

\* A deletion spares the last snapshot or finds nothing resting on it; an undo
\* deletes the snapshot of the journal before it clears it.
DeletionSound ==
    /\ op = "delete" =>
         /\ file.journal = {}
         /\ \/ \A p \in Paths : ~TakenForUnchanged(file, p, fs)
            \/ \A t \in doomed : ~IsMostRecentSnapshot(t)
    /\ op = "cancel" /\ pc = "DeleteIndex" => doomed = {snapshot}
    /\ op \in {"cancel", "rollback"} =>
         IF pc = "DeleteIndex" THEN JournalTimes(file) = doomed
                               ELSE JournalTimes(file) \cap Snapshots = {}
    /\ pc = "Cleanup" =>
         \A r \in file.journal : r.status # "Unstarted" => ~TakenForUnchanged(file, r.path, fs)

\* The database file, and the copy of a running backup, account for every path
\* with the snapshots there are.  Between the two statements of
\* CancelationCleanupJournal the file does so without its journal rows.
PathsAccounted ==
    /\ FilesTimed
    /\ IF pc = "CleanupRows" THEN DbSound(WipeBackupJournal(file), fs, index, now)
                            ELSE DbSound(file, fs, index, now)
    /\ Running => DbSound(mem, fs, index, now) /\ JournalTimes(mem) = {snapshot}
    /\ PlacesSound
    /\ ItemsSound
    /\ pc \in PlayPlaces => RowsSound
    /\ pc \in PlayPlaces \ {"Group"} => PrevSound
    /\ pc = "Wipe" => WrittenSound
    /\ DeletionSound

\* An index is the directory f.
Mirrors(ix, f) ==
    \A p \in Paths : IF f[p].exists THEN ListsPresent(ix[p], p, f)
                                    ELSE ix[p] = NoEntry

\* A snapshot whose journal is still there to be played again is the directory.
ReplayHarmless ==
    \A t \in Snapshots :
        t \in JournalTimes(file) \/ (Running /\ t = snapshot) => Mirrors(index[t], fs)

(* Inductive where Quiet: the database file and the copy of a running      *)
(* backup account for every path, so that an unchanged file is listed      *)
(* whole in the most recent snapshot; and where every entry can be read, a *)
(* journal played again (ReplayBackupJournal) writes what its snapshot has.*)
IncrementalInv ==
    /\ PathsAccounted
    /\ "readError" \notin Allowed => ReplayHarmless

-----------------------------------------------------------------------------
(* The engine as a service to its user (BackupService).                    *)

\* The version Restore gets from an index entry with the chunks C in the bucket:
\* Absent when the path is not in the index, Damaged when the extents are not
\* one version of the whole file or one of their chunks is gone.
Absent == -1
Damaged == -2

ContentOf(entry, p, C) ==
    LET version == (CHOOSE e \in entry : TRUE).ver
    IN  IF entry = NoEntry THEN Absent
        ELSE IF entry # {} /\ Restores(entry, p, version, C) THEN version ELSE Damaged

Contents(ix, C) == [p \in Paths |-> ContentOf(ix[p], p, C)]

Present == [p \in Paths |-> IF fs[p].exists THEN fs[p].ver ELSE Absent]

(* The engine keeps the promise of BackupService: through crashes and      *)
(* replays, rollbacks and deletions a snapshot becomes visible only when   *)
(* it is the directory, and a replay that writes its index a second time   *)
(* changes nothing (WriteIndexFile, DeleteSnapshots).                      *)
Service == INSTANCE BackupService
               WITH Names <- Times, Directories <- [Paths -> Nat \cup {Absent}],
                    dir <- Present,
                    snaps <- [t \in Snapshots |-> Contents(index[t], chunks)]
ImplementsService == Service!Spec

=============================================================================
