------------------------------ MODULE Database ------------------------------
(***************************************************************************)
(* The local sqlite database of tless (pkg/database), as operators on a    *)
(* record.  The same operators serve the database file and the in-memory   *)
(* copy a running backup works on.                                         *)
(*                                                                         *)
(*   dirents  path |-> last_backup (NotKnown when the path has no row);    *)
(*            (rootdir, relpath) is unique because Traverse only inserts a *)
(*            path HasDirEnt did not find, so the path stands for the id   *)
(*   infos    the rows of backup_info (id, snapshot_time)                  *)
(*   seq      the AUTOINCREMENT counter of backup_info                     *)
(*   journal  the rows of backup_journal; a backup_info row never has two  *)
(*            journal rows for one path, so (info, path) stands for the id *)
(*                                                                         *)
(* One backup directory is modelled, so rootdir and dirpath are left out.  *)
(***************************************************************************)
EXTENDS Integers

CONSTANTS
    Paths,      \* the relative paths below the backup directory
    NoEntry     \* SQL NULL in backup_journal.index_entry

NotKnown == -1

ChangeTypes == {"Updated", "Unchanged", "Deleted"}
Statuses == {"Unstarted", "InProgress", "Finished"}

\* A snapshots.ChunkExtent: the part-th piece of a file, read when the file
\* was at version ver, stored in the named chunk.  (chunk, Offset, Len) select
\* those bytes in the code; the version stands for them here.
Extent == [chunk : Nat, part : Nat, ver : Nat]

\* index_entry is NULL or a JSON CloudRelPath, i.e. a list of extents.
Entries == (SUBSET Extent) \cup {NoEntry}

BackupInfo == [id : Nat, time : Nat]

JournalRow == [info : Nat, path : Paths, change : ChangeTypes,
               status : Statuses, entry : Entries]

DB == [dirents : [Paths -> Nat \cup {NotKnown}],
       infos   : SUBSET BackupInfo,
       seq     : Nat,
       journal : SUBSET JournalRow]

EmptyDB == [dirents |-> [p \in Paths |-> NotKnown],
            infos   |-> {},
            seq     |-> 0,
            journal |-> {}]

-----------------------------------------------------------------------------
(* Table dirents *)

HasDirEnt(db, p) == db.dirents[p] # NotKnown

GetAllKnownPaths(db) == {p \in Paths : HasDirEnt(db, p)}

\* doPendingDirEntryInserts: new paths enter with last_backup = 0.
InsertDirEnts(db, S) ==
    [db EXCEPT !.dirents = [p \in Paths |-> IF p \in S THEN 0 ELSE @[p]]]

\* An UPDATE by id: nothing happens when the row is gone.
UpdateLastBackupTime(db, p, t) ==
    [db EXCEPT !.dirents =
        [q \in Paths |-> IF q = p /\ HasDirEnt(db, q) THEN t ELSE @[q]]]

DeleteDirEntByPath(db, p) ==
    [db EXCEPT !.dirents = [q \in Paths |-> IF q = p THEN NotKnown ELSE @[q]]]

\* ResetLastBackedUpTimeForEntireBackup and, with a single backup directory,
\* ResetLastBackedUpTimeForAllDirents.
ResetLastBackedUpTime(db) ==
    [db EXCEPT !.dirents =
        [q \in Paths |-> IF HasDirEnt(db, q) THEN 0 ELSE NotKnown]]

-----------------------------------------------------------------------------
(* Tables backup_info and backup_journal *)

\* NewInsertBackupJournalStmt, one InsertBackupJournalRow per item of queue,
\* Close.  The backup_info row is inserted even when the queue is empty.
InsertBackupJournal(db, t, queue) ==
    [db EXCEPT
        !.seq = @ + 1,
        !.infos = @ \cup {[id |-> db.seq + 1, time |-> t]},
        !.journal = @ \cup
            {[info |-> db.seq + 1, path |-> q.path, change |-> q.change,
              status |-> "Unstarted", entry |-> NoEntry] : q \in queue}]

\* The candidates of SELECT ... WHERE status = Unstarted LIMIT 1, which has
\* no ORDER BY.
UnstartedRows(db) == {r \in db.journal : r.status = "Unstarted"}

IsRow(r, t) == r.info = t.info /\ r.path = t.path

SetRow(db, t, status, entry) ==
    [db EXCEPT !.journal =
        {IF IsRow(r, t) THEN [r EXCEPT !.status = status, !.entry = entry]
                        ELSE r : r \in @}]

ClaimBackupJournalTask(db, t) == SetRow(db, t, "InProgress", t.entry)

CompleteBackupJournalTask(db, t, entry) == SetRow(db, t, "Finished", entry)

\* Mutant: the rows stay.
WipeBackupJournalKeepsRows(db) == db

\* Deletes every row, whatever its status.
WipeBackupJournal(db) == [db EXCEPT !.journal = {}]

\* Mutant: interrupted tasks are not taken up again.
NoResetOfInProgressTasks(db) == db

ResetAllInProgressBackupJournalTasks(db) ==
    [db EXCEPT !.journal =
        {IF r.status = "InProgress" THEN [r EXCEPT !.status = "Unstarted"]
                                    ELSE r : r \in @}]

\* GetBackupJournalCounts: finished >= total.
AllTasksFinished(db) == \A r \in db.journal : r.status = "Finished"

HasDirtyBackupJournal(db) == db.journal # {}

JournaledInfos(db) == {i \in db.infos : \E r \in db.journal : r.info = i.id}

\* Mutant: the backup_info table is not joined with the journal.
FirstBackupInfo(db) == {i \in db.infos : \A j \in db.infos : i.id =< j.id}

\* The row GetJournaledBackupInfo reads: the first backup_info row that has
\* journal rows.  Empty stands for sql.ErrNoRows.
GetJournaledBackupInfo(db) ==
    {i \in JournaledInfos(db) : \A j \in JournaledInfos(db) : i.id =< j.id}

\* The backups GetLastCompletedBackupUnixTime takes the maximum over.
CompletedInfos(db) == db.infos \ JournaledInfos(db)

\* Mutant: what the undone backup had finished stays marked as backed up.
CancelationKeepsLastBackupTime(db) == db

CancelationResetLastBackupTime(db) ==
    [db EXCEPT !.dirents =
        [p \in Paths |->
            IF /\ HasDirEnt(db, p)
               /\ \E r \in db.journal : r.path = p /\ r.status # "Unstarted"
            THEN 0 ELSE @[p]]]

\* The first statement of CancelationCleanupJournal, committed by itself: only
\* the backup_info rows with journal rows are deleted.  The second one deletes
\* the journal rows, as WipeBackupJournal does.
CancelationDeleteInfos(db) == [db EXCEPT !.infos = @ \ JournaledInfos(db)]

\* WriteIndexFile's loop over GetAllBackupJournalRowIndexEntries: rows without
\* an entry are skipped, a later row replaces an earlier one of the same path.
IndexEntry(db, p) ==
    LET rows == {r \in db.journal : r.path = p /\ r.entry # NoEntry}
        last == {r \in rows : \A q \in rows : q.info =< r.info}
    IN  IF last = {} THEN NoEntry ELSE (CHOOSE r \in last : TRUE).entry

IndexFileOf(db) == [p \in Paths |-> IndexEntry(db, p)]

=============================================================================
