# A TLA+ verification project for tless

tless makes encrypted, incremental backups of directories to an S3 bucket. A
backup is journaled in a local sqlite database so that an interrupted one can be
resumed; a snapshot is an index object naming chunks in the bucket; a daemon runs
backups, restores, deletions and prunes on behalf of a GUI client and of a timer.
These modules model the parts of it where a wrong order of steps loses data or
leaves the program stuck.

## The system

| Component | State | Operations | Hard because |
| --- | --- | --- | --- |
| Local database (`pkg/database`) | `dirents` (path, last_backup), `backup_info`, `backup_journal` | the statements the engine issues | two copies: the file, and the in-memory copy of a running backup |
| Backup engine (`pkg/backup`) | in-memory database, chunk packer, current task | DoJournaledBackup, PlayBackupJournal, ReplayBackupJournal, Backup | crash at any step, failing uploads, files changing, one task finished long after it was read |
| Traversal (`pkg/fstraverse`) | none | Traverse | judges by mtime against last_backup; unreadable directories |
| Snapshots (`pkg/snapshots`) | index objects and chunks in the bucket | WriteIndexFile, DeleteSnapshots, GCChunks | reference counts over objects that are written one at a time |
| Cancelation, rollback (`daemon/backup.go`, `cmd/backup.go`) | as the engine | cancelBackup, handleReplay | undo several things, each of which can be cut short |
| Daemon (`daemon`) | gStatus, gCancelRequested, gDb, goroutines | one RPC each, timerLoop, replay loop | check-then-act on the status, goroutines that outlive their RPC, copies of gDb |
| Pruning (`pkg/snapshots/prune.go`) | none | GetPruneKeepsList | the clock runs while snapshots are judged by age |
| Restore (`pkg/backup/restore.go`, `daemon/restore.go`) | destination, queue of modes | Restore, RestoreDirEntry | a process that dies in the middle; files open up the directories they are in |
| Chunk cache (`pkg/backup/chunk_cache.go`) | index in memory, files on disk | NewChunkCache, FetchExtentIntoBuffer, saveObjToCache | eviction against the clock; what an earlier restore left on disk |
| Bucket metadata, configuration (`pkg/objstore`, `daemon/config.go`, `password.go`) | a metadata object per bucket; config.toml, gCfg, gEncKey | GetOrCreateBucketMetadata, VerifyKeys, ChangePassword, initConfig | many callers, each of several calls; wipes; keys that must never be replaced |
| Usage reports (`pkg/objstore`, `pkg/database/usage.go`) | byte counters, two tables | persistUsage, GetUsageHistory | atomic counters shared by goroutines; failures; the copy a backup writes back |
| Log stream (`daemon/logs.go`) | the log file, a client's offset | LogStream | a file read in buffers while it is written and truncated |
| Command line, cryptography, RPC stubs, utilities | - | sequential input and output | - |

The engine reads and writes the database through a copy: `initMemDb` fills an
in-memory database from the file, `makePersistMemDbToFile` writes it back (forced
at the start and at the end, by time during the loop, and by a goroutine beside an
upload). The daemon calls the engine in a goroutine, hands it a function that
polls gCancelRequested, and meanwhile answers other RPCs. Snapshot deletion,
cancelation and rollback end in a garbage collection that counts references in
the indexes of the bucket.

What makes each part correct:

* engine: a snapshot restores what was in the directory; what is taken for
  unchanged is in the previous snapshot; an interrupted backup is resumed; every
  run ends;
* snapshots: no index refers to a chunk that is gone;
* undo: a canceled or rolled back backup leaves nothing behind;
* daemon: one operation at a time, or else it is known why; the status is Idle when
  nothing runs; nobody meets a closed database handle; operations end and their
  events arrive;
* pruning: the list is what the ranges say; the most recent snapshot, and one of
  each range of age, survive;
* restore: what is said to be restored has the bytes of the snapshot, directories
  have their modes, the cache keeps its limit, a restore ends;
* bucket metadata: every object can be read with the keys of its bucket; the keys
  survive changes of password; calls end;
* usage: each byte is counted once; what was shown stays;
* log stream: each line arrives once and whole; all of them arrive.

## Modules

| Module | Models |
| --- | --- |
| `Database` | the tables as a record and the statements as operators on it; used for the file and for the copy |
| `JournaledBackup` | the engine on one backup directory, the bucket, deletion, garbage collection, cancelation, rollback, the machine |
| `BackupService` | what a backup of a quiet directory promises; `JournaledBackup` implements it |
| `MCJournaledBackup` | the symmetry of small files, for TLC |
| `JournaledBackupProofs` | lemmas about the statements, the engine's type invariant and the storage invariant; what a backup takes for unchanged is listed in, and can be restored from, the most recent snapshot, a snapshot is its directory, and the engine implements `BackupService` |
| `DaemonStatus`, `DaemonProofs` | admission and end of the daemon's operations, Hello's replay loop, cancel requests, events |
| `DaemonHistory`, `MCDaemonHistory` | `DaemonStatus` with a history variable: whether a goroutine was ever let in beside one that had not announced itself |
| `Prune`, `MCPrune`, `PruneProofs` | GetPruneKeepsList and the deletion that follows |
| `ChunkCache` | the cache a restore reads through |
| `Restore`, `MCRestore`, `RestoreProofs` | restoring a snapshot; extends `ChunkCache` |
| `RestoreService` | what a restore promises; `Restore` implements it |
| `BucketMetadata`, `MCBucketMetadata`, `BucketProofs` | the keys of buckets, with every caller that creates, reads, publishes or uses them |
| `Usage`, `MCUsage`, `UsageProofs` | counters, usage tables and the history |
| `LogStream`, `MCLogStream`, `LogProofs` | the log stream and the client that polls it |
| `SumTheorems` | lemmas about least numbers and sums over a set, for the proofs |

### Database and JournaledBackup

A database is `[dirents, infos, seq, journal]`. A path stands for a dirents id,
`(backup_info id, path)` for a journal id. An extent is `(chunk, part, ver)`: the
version of the file stands for the bytes that offset and length select. Names,
encryption, compression and metadata are left out.

The engine is one thread; `pc` is the place it has reached:

| pc | code |
| --- | --- |
| `Group` | PlayBackupJournal before GetGroupedSnapshots |
| `Loop` | top of its loop: cancel check, persist by time, claim a task |
| `Task` | the claimed task: Deleted, Unchanged, or Backup on the file (one step per chunk of a large one) |
| `Flush`, `Finalize` | chunkPacker.Complete: the upload, then updateLastBackupTime and completeTask for each item |
| `Index`, `Wipe` | writeIndexFileAndWipeJournal, return and the deferred persist |
| `DeleteIndex`, `GCList`, `GCDelete` | snapshots.DeleteSnapshots and GCChunks, one object per step |
| `Reset`, `Cleanup`, `CleanupRows`, `Return` | the rest of cancelBackup and handleReplay: the statement that resets last_backup, the two of CancelationCleanupJournal, and the deferred persist of a canceled backup |

The traversal and the filling of the journal are one step, because they work on
the in-memory copy and nothing of them survives a crash. A cancel request seen by
the traversal changes no engine state and is modelled in `DaemonStatus`.

`Allowed` selects the environment: `crash`, `undoCrash` (a crash in a cancelation or
rollback after it began to collect chunks and before it has cleared the journal),
`storeError` (any call of the object store fails), `readError` (an entry or a
directory cannot be read), `edit` (files change at any time), `editDirty` (also before a replay), `cancel`, `rollback`,
`delete` (the daemon's RPC), `cloudrm` (the command, which leaves the database
alone), `deleteDirty` (a deletion while a journal waits for its replay),
`dirtyStart` (the daemon's Backup, which does not look for a dirty journal),
`forceFull`, `sameSecond` (two backups of one second share a snapshot name).
Without `edit` a file changes only between backups and in a later second than the
last one: that is what a comparison of mtime and last_backup in whole seconds
presumes.

Abstractions worth knowing:

* the packer's capacity is a number of files, not bytes; a large file has
  `LargeParts` chunks, and no file changes from small to large;
* the order of claims is any (the SELECT has no ORDER BY);
* a persist by time is a nondeterministic choice on every iteration; this
  includes what the goroutine of a failed upload may still write;
* a row whose dirents row is gone (a second journal laid over a first) records
  the backup directory itself, which is none of the modelled paths;
* the two backup_info rows of a backup get one time: strftime('now') is evaluated
  for each, so the second may be later by a second, and which of them names the
  snapshot depends on whether the first has journal rows;
* a crash between the two statements of CancelationCleanupJournal leaves a journal
  without backup_info rows. ReplayBackupJournal only logs that and plays it for the
  directory "" at time 0. `Lost` is that time; index[0] is the object it writes under
  a name of its own. It is no snapshot of the directory, but GCChunks counts its
  references;
* a file replaced by one with an older mtime is not modelled.

An index entry `Lists` a version of a file when its extents are all of that version;
what it `Restores` also depends on the bucket: every chunk must still be there
(otherwise RestoreDirEntry ends the process). `IncrementalSound`, `SnapshotMatchesFs`
and the refinement ask for the second, `IncrementalListed` for the first only.

`BackupService` says what the engine owes a user whose directory is quiet. Its state
is the directory and the snapshots, a function from names to contents. `Take` adds
one, whole, equal to the directory and named later than all others; nothing but
`Delete` touches it afterwards. In the refinement mapping the directory is the version
of each file that exists (`Present`), a snapshot the version of each path that Restore
gets from its index and the chunks in the bucket (`ContentOf`, which is `Damaged` when the
extents are not one version of the whole file or one of their chunks is gone), so an index
that is incomplete, mixed or overwritten, or a chunk that is collected too early, is no step
of the service. Journals and the two copies of the database are not seen.

### DaemonStatus

An action is one section under gGlobalsLock, or the work between two. A job is a
goroutine: what it does, where it is, which caller waits for it, the copy of gDb
its engine holds, and whether its in-memory journal has rows. The file's journal
is a bit. Hello replaces gDb (a number) and closes the old one in the Idle state;
a persist through a closed handle is BackupTo's log.Fatal. `Meanwhile` are the
steps a goroutine may repeat (another item restored, another persist); `Work` are
those that take it further.

The model starts after the first Hello (earlier there is no configuration and
nothing can run). Capturing gDb and filling the in-memory copy is one step. The
brief use of gDb by persistUsage is left out. The timer's look at the status and
its call are a guard and a request; the call looks again, as the code does.

`DaemonHistory` says when operations overlap. A goroutine is let in by finding the
status Idle and writes it in a later section of the lock, a replay much later, after
it has connected and taken its copy of gDb. `raced` becomes true when a goroutine is
let in while another is let in and unannounced; it restrains nothing.

### Prune

`GetPruneKeepsList` asks of every snapshot whether it is in the first range, and
else whether it is the oldest or the newest of each of four others. Every
question reads the clock twice for every snapshot it compares with, so an action
is one question and chooses which of the readings come after a tick. The clock
does not step back.

### ChunkCache, Restore and RestoreService

The cache directory maps a chunk name to the state of its file: not there, empty,
cut short, whole. The index maps a name to the second it was stored in and to the
plaintext it was decrypted from. Decryption fails for what is cut short and for a
name of another bucket (its keys differ); that is all that is kept of
cryptography. A restore is one thread that goes from `entry` (the next name, and
the look for a cancel request) over `fetch`, `save` (one round of the eviction
loop, or the write) and `write` (the extent is written, or the directory or link
made). log.Fatal, a panic (the slice of an entry that is not in the index) and a
kill all end the process and leave disk and destination as they are. Errors that
are only logged put the entry into `reported`.

`RestoreService` says what a restore owes: it touches only what was asked for,
and when it says it is done each entry asked for has the content of the snapshot
or was reported. `KeepsPromise` is the refinement, with `restored` mapped to the
entries whose content in the destination is that of the snapshot.

A cached file that NewChunkCache cannot remove stays (the error is only logged, and
counts as a fault); so does an uncreatable cache directory, which then is an empty
one whose writes fail.

Left out: the check that nonces count up, whose failure is only logged; the
statistics; files in the cache larger than the limit (RestoreEnds says so).

### BucketMetadata

Keys are numbers, made by CreateMetadata; the metadata object of a bucket is a
password and a key; an object in a bucket is a kind and the key it is encrypted
under (one chunk or one snapshot name of each is enough to tell). A process is a
handler of a daemon or a command; one step is one call of the object store or one
section under gGlobalsLock:

| pc | code |
| --- | --- |
| `truncate`, `write` | makeTemplateConfigFile |
| `load`, `bucket`, `reach` | initConfig up to the password; Backup's IsReachable |
| `list`, `read`, `empty`, `create` | GetOrCreateBucketMetadata |
| `verify`, `names` | VerifyKeys |
| `put` | ChangePassword |
| `publish`, `copyKey` | the keys into the globals, and from there into Backup |
| `replay`, `upload`, `index` | replayBackupJournal; what a backup or a command writes |
| `listAll`, `delete` | WipeCloud |

An upload without a network waits; every other call fails. An upload that answers
with an error may have been done. `Allowed` selects calls and faults. Unless it
has `races`, a bucket without metadata is entered, wiped or configured by one
caller at a time (`MayBegin`); all other calls overlap. Of VerifyKeys' snapshot
names, the one the listing happens to give first is tested.

### Usage

The counters are integers, and an action is one atomic operation, one statement
or one listing. The tables hold per day the peak (space) or the sum (bandwidth),
which is all that is asked of them. Days stand for dates; `Window` for three
months. `InitMemDb` and `PersistMemDbToFile` are what a backup does to the usage
tables. `transferred`, `expired` and `disturbed` are history: what was counted, what
was deleted as old, and whether one of the two cases happened in which the code
does lose or double bytes (below). Bytes that die with the process leave
`transferred`.

### LogStream

The file is a sequence of bytes: newline, NUL, or the number of the line the byte
belongs to. A buffer is three bytes, and lines are shorter, just as long, and
longer than one or two buffers. The client keeps the offset it was given last and
polls. A line is written in one call (log.Println), so a file ends in a newline. The
file is written and truncated at any time, between two calls or two reads of one. A
call fails at any place: open answers with the client's own offset, Send with nothing,
ReadAt with the offset the call began at, after it may have sent lines (`Fail`). A
client that takes this answer goes back; `startingLines` are the lines it had then.
`stale` and `staleRead` are history: the client's offset, or that of the call, is a
place of a file that has been truncated since. LinesExact speaks of a client that is
not stale. A stale one may be sent the rest of a line, or a partial line padded with
zero bytes (below).
`Split` and `NotBlank` are recursive functions over the last bytes or lines of a
sequence: a text grows at its front, so that the definition of the pieces of `<<c>> \o s`
from those of `s` is one step (`Cut`, `Keep`).

## Runs

Bounds of the engine: two paths, one small and one large (or two small,
interchangeable), a packer of one file so that the second small file finds it full,
versions 1 and 2, three seconds, two backups: enough for a backup, a change or
removal, and an incremental backup resting on the first, with an interruption and
its replay in either; three in EngineQuiet, for a backup that could rest on the wrong
one of two snapshots. One fault at any place. The bounds are `MaxTime`, `MaxVer`,
`MaxBackups`, `MaxFaults`; `MaxRequests`, `MaxHellos`, `MaxCancels`, `MaxFaults` in
the daemon; `MaxSnaps`, `MaxTicks`, `MaxTime` in Prune; `MaxRestores`, `MaxFaults`
in Restore; `MaxCalls`, `MaxFaults` in BucketMetadata; `MaxDay`, `MaxBytes`,
`MaxCalls`, `MaxBackups`, `MaxFaults` in Usage; `MaxLines`, `MaxTruncations`,
`MaxFaults` in LogStream. Deadlock is not checked: with the bounds used up the models
stop, and the programs may stop, too. `EngineReturns`, `WorkEnds`, `RestoreEnds` and
`CallsEnd` say that nothing stops in the middle.

| Run | Checks | Shows |
| --- | --- | --- |
| EngineQuiet | TypeOK, IncrementalInv, IncrementalSound, SnapshotMatchesFs, ImplementsService | a quiet directory is backed up exactly, three backups, through a crash and its replay, rollback, deletion; unchanged files can be restored from the most recent snapshot; a snapshot that is there is never changed, and its chunks stay |
| EngineCanceled | IncrementalListed | unchanged files are listed in the most recent snapshot, with cancelation, full backups, an unreadable entry or directory, and a crash also in the middle of a cancelation or rollback |
| EngineStorage | NoDangling, StorageInv, DirtyJournalResolved, EngineReturns | indexes never dangle, with rollbacks, while no journal is played whose chunks were collected; a journal is resumed and every operation ends; every fault, files in two chunks, same-second names. Versions are limited to 1 here, so a change of a file is its removal, and at most one snapshot survives a deletion; the theorem has no such limits |
| DaemonEnds | TypeOK, QuiescentIdle, SerialInv, OverlapIsARace, EventsDelivered, WorkEnds | a client, the timer, and a Hello whose replay finds a dirty journal, in any overlap, with a failure and a cancel: operations, the replay loop and the delivery of events come to an end, the status does not stay busy, and operations overlap only by the race between look and write of the status |
| PruneKeeps | TypeOK, PruneInv, KeepsAreOldestAndNewest, NewestKept, RangesCovered | the list against the definition of the code's ranges, and what is never deleted, for every choice of up to four snapshots and two ticks at any reading |
| RestoreCache | TypeOK, RestoreInv, ModesAreFinal, DirectoryWithinLimit, KeepsPromise, RestoreEnds | two restores, of everything and of a part, by daemon or command; two directories one in the other, a file of two chunks, a shared chunk, a link, an entry without extents; a cache with room for two of three chunks and a file of another bucket in it; two faults |
| BucketKeys | TypeOK, ObjectsReadable, KeyInv, KeysSurvive, CallsEnd | two handlers of one daemon, two buckets, three calls and a fault in any overlap but races; the inductive invariant of the proof holds |
| UsageCounted | TypeOK, NeverOvercounted, NothingLost, ShownStays | two goroutines persist usage while two bytes are transferred, two midnights pass, a backup runs and something fails or the process dies |
| LogLines | TypeOK, LinesExact, LogInv, EverythingArrives | four lines, two truncations and a failing call at any place, during calls as well |
| CancelRemembered, EditDuringBackup, PruneDocumented | one each | a counterexample to what the repository says (Disagreements) |

IncrementalInv, PruneInv, RestoreInv, SerialInv, StorageInv, KeyInv and LogInv are
the inductive invariants of the proofs. In PruneDocumented the ranges are the code's, in
hours. The ranges in PruneKeeps are two or three units long, so that each has an oldest, a newest and a bound between it and the next, and
two ticks are as long as the shortest; the code uses them only through comparisons. A
window of one day in UsageCounted is enough for a day to be hidden, then deleted.

Fairness. `JournaledBackup`: weak fairness of the engine's own steps (a thread
that is not blocked runs on), and of ReplayBackupJournal (Hello and the next
command look for a dirty journal). Nothing is assumed of faults, requests or
files. Cancelation is left out of EngineStorage: a replay that is canceled leaves the
journal dirty (below), so a user who cancels every one is never done.
`DaemonStatus`: weak fairness of each goroutine's `Work` (the loops it leaves to
`Meanwhile` are over finite lists) and of Status, which the client polls.
DaemonEnds has one Hello: two replay loops, of which each persists the journal the
other has just wiped, need not end. `Restore`: weak fairness of the thread's own
steps and of the clock, without which an eviction loop with chunks of this very
second only would not end. `BucketMetadata`: weak fairness of each handler's steps
and of the end of an outage, which an upload waits for without a limit. `LogStream`:
the client polls. `Usage` has no liveness property.

## Disagreements

Three runs end in a counterexample to something the repository says:

* **CancelRemembered** (`CancelationForgotten`): "Wipes out the journal and
  removes the backup row from backup_info so it doesn't get remembered"
  (`journals.go:362`). cancelBackup does so in the database file; the deferred
  persist of DoJournaledBackup then writes the in-memory copy over it. The
  canceled backup is replayed on the next Hello.
* **EditDuringBackup** (`IncrementalSound`): "Check whether mtime is newer than
  last_backup? If yes, enqueue it" (`fstraverse.go:139`). last_backup is the time
  of completion, not of reading; a change in between is never seen.
* **PruneDocumented** (`KeepsAsDocumented`): "the oldest and newest from the past 2-7
  days, the oldest and newest from past 7-30 days and the oldest and newest from the
  past 2-12 months" (`cmd/prune.go:22`). The code's ranges are 1-3, 3-7, 7-30 and
  30-360 days; of snapshots of 36, 53 and 60 hours it deletes the one of 53.

The same modules show the following when the constants of a run are changed as said.
First what contradicts a line of the repository:

* with `cancel` NoDangling fails: "Garbage collect any orphaned chunks that were
  written while creating unused snapshot index file" (`daemon/backup.go:373`), but
  the chunks of finished tasks are referred to by the journal that CancelRemembered
  shows to be written back. The replay writes its index, and the chunks are gone. This
  is why what asks for chunks is checked and proved without `cancel`;
* with `rollback` and `crash` RollbackForgotten fails: "Delete backup_info row so this
  doesn't look like a completed backup" (`journals.go:365`), but there are two rows
  for each backup, and the one without journal rows stays;
* with a timer OneAtATime fails: "Can we start a backup right now? Judge from the
  current status" (`daemon/backup.go:25`), but the status is read and written in two
  sections of the lock;
* with two Hellos and a dirty journal NeverFatal fails: "we only call gDb.Close() when
  we're in an Idle state, meaning no one is holding a long-lived copy of gDb"
  (`main.go:123`), but a replay takes its copy before it leaves Idle, and the second
  Hello closes it;
* with `forceFull` QuiescentIdle fails: "already doing a backup right now"
  (`daemon/backup.go:36`) is the answer to every request after the early return of the
  Backup RPC (`daemon/backup.go:61`), which leaves the status at BackingUp. This is the
  hypothesis of `StatusReturnsToIdle`;
* with `races` ObjectsReadable fails: "create one (checking first that bucket is
  actually empty" (`bucket_metadata_obj.go:123`), but two commands that both find a
  bucket empty both create metadata, and what the first uploads is under keys nobody
  has any more. A change of configuration between the sections of Backup (`"backup"`,
  `"config"`) makes it use the keys of one bucket in another;
* in LogLines EofAtFileLen fails: "currOffset should >= fileLen at EOF"
  (`logs.go:112`), but a log truncated during a call ends earlier, and the partial
  line kept from the buffer before is sent, padded with zero bytes;
* in LogLines LongerMeansAppended fails: "greater than startingOffset (meaning new
  bytes appended)" (`logs.go:74`), but so is a log truncated and grown past the
  client's offset before the next call, which is then read on from there.

Each of the following bounds a property above, and is the reason for a condition of a
passing run:

* a usage row inserted while a backup holds its copy is overwritten (`"during"` in
  `disturbed`), and one inserted before a failing deletion of old rows is counted
  again (`"tidyError"`);
* with `delete` and `deleteDirty` after a crash NoDangling fails: the chunks of the
  pending journal are collected, then its index is written. So it does with `rollback`
  and `undoCrash`: the rollback has collected chunks, and its journal is replayed.
  SnapshotMatchesFs fails with them (`CollectedIsForgotten` excludes both, and `cancel`);
* with `cancel`, `undoCrash`, `readError` and two faults IncrementalListed fails: a
  directory that could not be read gives Deleted rows; the replay of a journal without
  backup_info rows does not find the dirents rows they are to delete, and marks them
  as backed up instead;
* with `storeError` IncrementalSound fails: a full packer that cannot be uploaded
  makes Backup return no extents and no error, and a failed WriteIndexFile does
  not keep the journal from being wiped. WipeBackupJournal deletes rows in
  progress, where the comment on ErrJournalHasUnfinishedTasks says it refuses;
  a backup started on a dirty journal also wipes rows that a crash left in progress;
* with `dirtyStart` after a crash and three backups IncrementalSound and
  SnapshotMatchesFs fail: a file that the interrupted backup had finished is
  Unchanged in the journal laid over it, and takes its stale extents from the older
  snapshot;
* with `deleteDirty` and three backups IncrementalSound fails: an Unchanged row that
  waited for the replay takes its extents from the snapshot before the deleted one;
* with `sameSecond` and `rollback` after a crash IncrementalSound fails: undoing a
  backup deletes the snapshot of its name, which an earlier backup of the same second
  had written and on which the last_backup times rest;
* with `editDirty` after a crash IncrementalSound fails: an Unchanged row is
  replayed without looking at the file;
* with `cloudrm` IncrementalSound fails: the daemon forces a full backup after
  the deletion of the most recent snapshot, the command does not;
* with `hello` a replay loop that saw the journal of a running backup may replay an
  empty one after it, writing an index for time 0.

Noted while reading, outside the models: persistUsage of the command line
(`cmd/cmd.go:251-260`) opens a database into a variable of the inner block and goes
on with the nil it was given; a restore of some entries only leaves the directories
above them at 0755, since no entry queues their modes.

## Proofs

For every value of the constants, from the ASSUMEs of the modules. What the ASSUMEs
ask for: the goroutines that report usage and the entries of a snapshot are finite
sets; what other buckets left in the cache directory was within the limit; no client
or goroutine is called None; the clock starts within its bound. No proof bounds the
number of processes, faults, calls or backups.

* `JournaledBackupProofs!TypeCorrect`: `Spec => []TypeOK`. TypeOK is inductive as
  it stands, because it includes where a task is claimed and when an item waits
  for the packer. The lemmas on `Database` say that each statement maps a
  database to a database, or what it leaves alone.
* `JournaledBackupProofs!StorageInvariant` and `NoSnapshotDangles`, assuming
  `CollectedIsForgotten`: no `cancel`, `undoCrash` or `deleteDirty`. NoDangling is not
  inductive: an index is written from the journal, the journal from uploaded parts,
  the packer's chunk and the previous snapshot, and the file's journal comes back
  after a crash. StorageInv says of each of these places that what it refers to is in
  the bucket. Uploads only add chunks (the monotonicity lemmas). A deletion runs only
  with nothing pending. A rollback collects chunks of its own journal, of which
  StorageInv therefore says nothing from there until the journal is cleared
  (`Undoing`). The victims are referred to by no index, which stays true because
  indexes only disappear meanwhile.
* `JournaledBackupProofs!IncrementalInvariant`, and from it `UnchangedIsListed`
  (`Spec => []IncrementalListed`), for any paths, backups, crashes, rollbacks,
  cancelations, deletions, forced full backups and unreadable entries; with
  StorageInvariant, and so without cancelations, `UnchangedIsBackedUp`
  (`Spec => []IncrementalSound`) and, where every entry can be read,
  `SnapshotIsDirectory` (`Spec => SnapshotMatchesFs`). Hypotheses: `Quiet`, of whose
  eight excluded events seven break IncrementalSound and the eighth, `undoCrash`, the
  accounts of the database file (see Disagreements); `CollectedIsForgotten` for the two
  that ask for chunks; and `NullsDistinct`, that NULL and the absence of an object are
  no data. The latter is a hypothesis and not an ASSUME because TLC cannot compare a
  model value with every set of extents. IncrementalListed speaks of an idle engine and
  is far from inductive. The core of IncrementalInv is `PathsAccounted`, and of that
  `DbSound`, asked of the database file at all times and of the copy while a backup
  runs, because a crash or an undo goes back to the file: the journal is of one time, the latest (`JournalShape`); each row is right about its path
  (`RowSound`), and an Unchanged row has its extents in the last snapshot before the
  journal's and in the journal's own if that is already written (`RowRests`), since a
  replay after a crash between WriteIndexFile and WipeBackupJournal takes them from
  there; and what would be taken for unchanged is in that snapshot or has a finished
  row (`PathSound`). Around it: what was read is the present version (`ItemsSound`),
  where the rows in progress are (`RowsSound`), and that a deletion or an undo never
  takes away a snapshot last_backup still rests on (`DeletionSound`). Between the two
  statements of CancelationCleanupJournal the file has rows without backup_info; there
  it is sound without them. A family of
  lemmas says of each SQL statement that it keeps a database sound; each action is then
  a statement or two.
* `JournaledBackupProofs!BackupKeepsPromise` (`Spec => ImplementsService`), under the
  hypotheses of SnapshotIsDirectory. Only four actions change what `BackupService`
  sees: WriteFile and RemoveFile are its `Change`, DeleteIndexObj its `Delete`, and
  WriteIndexFile its `Take` if the snapshot is not there yet. If it is, the index is
  written a second time, by a replay after a crash before WipeBackupJournal, and must
  not change: that is `ReplayHarmless`, the second part of IncrementalInv
  (`ReplayRepeats`). It holds because files do not change while a journal is pending
  and a new journal has a name without a snapshot (`JournalShape`). Every other step
  leaves files and indexes alone (`OtherSteps`). As contents depend on the chunks, a
  step that deletes one must leave every snapshot as it is: its victims are referred to
  by no index (StorageInv).
* `DaemonProofs!DaemonTypeCorrect`: `Spec => []TypeOK`.
* `DaemonProofs!StatusReturnsToIdle`: `Spec => []QuiescentIdle`, assuming the
  database does not fail in a forced full backup. Every step that makes the
  status busy leaves its goroutine in progress (`WorkIsAnnounced`), and the step
  with which the last one in progress ends writes Idle, however many overlapped.
* `DaemonProofs!SerialInvariant` and `OverlapsAreRaces`, for `DaemonHistory`, without
  a hypothesis: any clients, timers, Hellos, faults and cancels. OneAtATime does not
  hold, since looking at the status and setting it are two sections of the lock;
  OverlapIsARace says that this is the only way it fails. It is not inductive:
  SerialInv adds that, until the first race, of the goroutines that were let in,
  those not yet in progress included, there is one at most, and that it shows in the
  status once announced, although an operation outlives its call.
* `BucketProofs!KeyTypes`: `Spec => []TypeOK`.
* `BucketProofs!KeyInvariant`: `Spec => []KeyInv`, assuming `"races"` is not in
  `Allowed`; `EveryObjectReadable` and `KeysNeverChange` follow. ObjectsReadable is
  not inductive: an object is encrypted under a key that a process holds, which it
  copied from the globals, where another put it, having read it for the bucket its
  configuration named then. KeyInv says of each of these places whose key is there:
  `HeldKeysCurrent` (a process), `PublishedKeyCurrent` (a daemon), `OneBucket` (file,
  memory and calls of a machine name one bucket, except while one caller alone
  replaces it), `CreatorsAlone` and `LoadsSettled` (who may meet a bucket without
  metadata), `CallsAtLabels` and `ConfigLoaded` (which calls get where). A key then
  changes only in CreateMetadata, which is alone with an empty bucket, and in
  ChangePassword, which holds the current one. Nothing is assumed of the number of
  machines, buckets, handlers, calls or faults.
* `PruneProofs!PruneInvariant`, and from it `PruneTypes`, `KeepsExact`,
  `NewestNeverDeleted` and `RangesStayCovered`, for any five ranges. PruneInv says of
  each snapshot what the loops have decided so far if it is not on the list:
  `DayKept` (it is older than a day), `NewestOlder` (the newest of all is older than
  each range it was tested for), `ListExact` (while the clock stands still, it is not
  at an end of a range). A test may read the clock before and after a tick; all that
  is known of what it finds is `Found`: the snapshots in the range throughout, and
  some of those in it for a moment. `RangesListed` is the part that carries
  RangesCovered, and looks ahead to what the clock may still read (`Clocks`): at any
  of these times a range whose newest snapshot is judged has one on the list. A
  snapshot can be the newest of a range only because it has just come into it from
  the one before, after it was tested; then the oldest of the range before, which is
  on the list, has come with it (`EntersWithOther`), and cannot have left on the
  other side, provided the prune takes no longer than a range lasts. That is the
  hypothesis `Brief` of RangesStayCovered; the shortest range of the code is two days.
* `RestoreProofs!RestoreInvariant`, and from it `RestoreTypes`, `DirectoryModes`,
  `CacheWithinLimit` and the refinement `RestoreKeepsPromise` (`Spec => Service!Spec`),
  for any snapshot, sizes, limit, selections, crashes and faults. The promise is
  about contents, so RestoreInv follows the bytes: the index holds only what
  decrypted (`IndexGood`), an entry that is being written has exactly its first
  extents (`PartGood`), and what was asked for is still queued, restored or reported
  (`Accounted`). For the limit, `FilesIndexed`: the index knows of every file and adds
  up to no more than the limit; a crash empties the index, and the next NewChunkCache
  fills it before anything is added. The refinement maps each action to a step of
  `RestoreService` or to a stutter.
* `UsageProofs!UsageInvariant`, and from it `UsageTypes`, `BytesReportedOnce`,
  `BytesNeverLost` and `HistoryStays`, for any finite set of goroutines and any days.
  The accounts are sums over goroutines and days, and a backup writes its copy of the
  tables back: `CopyCurrent` and `CopyNeverOvercounts` say of the copy what the
  properties say of the tables.
* `LogProofs!LogInvariant`, and from it `LogTypes` and `EachLineOnce`
  (`Spec => []LinesExact`), for any buffers, lines and limits, and truncations and
  failures at any place. LinesExact speaks of the client's offset, where a call begins;
  LogInv adds where a failing read takes the client back to, and `ReadExact`, for the
  middle of a call on a file that was not truncated below it: what is kept of the last buffer is what the file has before currOffset, it
  begins where a line may begin, and the lines before that place have been sent. The
  step of a buffer rests on lemmas about texts. A text is whole lines and the beginning
  of one (`TextParts`); the pieces of two texts together are theirs, the last of the one
  and the first of the other made one (`SplitConcat`, with `Join`), so after whole lines
  a text is split as if it stood alone (`SplitAfterLines`); blank lines at an end make
  no difference (`NotBlankFront`), padding included (`LinesAtEof`). They are proved by
  induction over sequences (`FrontInduction`, `EndInduction`), which is stated for the
  set of sequences a formula holds of, and hence needs no operator as a parameter; that
  the recursive functions behind Split and NotBlank exist is proved the same way.
* `SumTheorems`: a nonempty set of numbers has a least one, and how a sum over a
  finite set changes when one value does. The provers cannot instantiate an induction
  theorem with an operator; the lemmas use that `<` on Nat is well-founded
  (`NatLessThanWellFounded`, `WFMin`), which takes a set, and so a set of
  counterexamples with a least member.

Only model-checked: everything under fairness (DirtyJournalResolved, EngineReturns,
EventsDelivered, WorkEnds, RestoreEnds, CallsEnd, EverythingArrives), which the prover
does not do.

## Not modelled, and the plan

Left out for good: cryptography and serialization (bytes; the models keep what
fails to decrypt), the calls of the minio client (they succeed or fail), bucket
listing and creation and RenameObj (no state, or not called), command line input
and output, the listings of `daemon/snapshots.go` (read-only), schema migrations
(one, before anything else runs), utilities, and the generated RPC code, which is a
third of the source. One backup directory is modelled; the journal does not say
which directory a row belongs to.

Next: a composition of `DaemonStatus` and `JournaledBackup` with two directories and
two engines on one file.
