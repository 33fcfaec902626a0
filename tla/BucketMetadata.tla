---------------------------- MODULE BucketMetadata ----------------------------
(***************************************************************************)
(* The keys of a bucket.  The object "metadata" holds the encryption keys, *)
(* encrypted under a key derived from the password                         *)
(* (pkg/objstore/bucket_metadata_obj.go).  Every caller fetches the keys   *)
(* with GetOrCreateBucketMetadata, most verify them with VerifyKeys:       *)
(* initConfig and WriteToDaemonConfig (daemon/config.go), ChangePassword   *)
(* (daemon/password.go), CheckBucketPassword (daemon/buckets.go), Backup   *)
(* and replayBackupJournal (daemon/backup.go), validateConfigVars          *)
(* (cmd/cmd.go).  A step is one call of the object store or one section    *)
(* under gGlobalsLock.                                                     *)
(***************************************************************************)
EXTENDS Naturals, FiniteSets

CONSTANTS
    Machines, Buckets, Passwords,
    Procs,         \* handlers of a daemon or commands
    Host,          \* the machine each runs on
    None,          \* no metadata object; no configuration in memory
    NoBucket, NoPassword,  \* a blank entry of the configuration file
    Allowed,       \* what happens: calls; "crash", "error", "outage"; "races"
    Choices,       \* the buckets and passwords clients name
    Changes,       \* the old and new passwords they ask for
    StartBuckets, StartFiles,  \* the metadata and configuration files to begin with
    MaxCalls,      \* bound: calls begun
    MaxFaults      \* bound: crashes, failing calls, outages

NoKey == 0

ASSUME KeyAssumption ==
    /\ Host \in [Procs -> Machines]
    /\ Choices \subseteq Buckets \X Passwords /\ Changes \subseteq Passwords \X Passwords
    /\ NoBucket \notin Buckets /\ NoPassword \notin Passwords

Configs == [bucket : Buckets \cup {NoBucket}, password : Passwords \cup {NoPassword}]
Entries == [password : Passwords \cup {NoPassword}, key : Nat]
Blank == [bucket |-> NoBucket, password |-> NoPassword]

ASSUME ConfigAssumption ==
    /\ StartFiles \subseteq [Machines -> Configs]
    /\ StartBuckets \subseteq [Buckets -> {None} \cup Entries]
    /\ IsFiniteSet(Buckets)
    /\ \A start \in StartBuckets, b \in Buckets :
           start[b] # None => start[b].key \in 1..Cardinality(Buckets)
    /\ None \notin Configs /\ None \notin Entries
ASSUME BucketBounds == MaxCalls \in Nat /\ MaxFaults \in Nat

Objects == [kind : {"chunk", "name"}, key : Nat]

MetadataObj == [kind |-> "metadata", key |-> NoKey]

Calls == {"none", "hello", "init", "backup", "check", "change", "changed", "command", "wipe"}

Jobs == [call : Calls, bucket : Buckets \cup {NoBucket},
         password : Passwords \cup {NoPassword}, key : Nat,
         new : Passwords \cup {NoPassword}, update : BOOLEAN,
         todo : SUBSET (Objects \cup {MetadataObj})]

VARIABLES
    metadata,       \* of each bucket: password and key of its metadata object
    objects,        \* of each bucket: the key of each other object in it
    file,           \* of each machine: config.toml
    gCfg, gEncKey,  \* of each machine: the daemon's copy of it, and the key
    pc, job,        \* of each process: where it is, its local variables
    fresh,          \* the last random key
    network, calls, faults

cloud  == <<metadata, objects, fresh>>
disk   == <<file>>
memory == <<gCfg, gEncKey>>
counts == <<network, calls, faults>>
vars   == <<cloud, disk, memory, pc, job, counts>>

NoJob == [call |-> "none", bucket |-> NoBucket, password |-> NoPassword, key |-> NoKey,
          new |-> NoPassword, update |-> FALSE, todo |-> {}]

\* The configuration file of m names a bucket and has its password.
CanRead(m) ==
    /\ file[m].bucket \in Buckets
    /\ metadata[file[m].bucket] # None
    /\ metadata[file[m].bucket].password = file[m].password

\* A bucket is new, or somebody created it earlier; a daemon has just been
\* started, or has read the configuration and the keys.
Init ==
    /\ metadata \in StartBuckets
    /\ objects = [b \in Buckets |-> {}]
    /\ fresh = NoKey + Cardinality(Buckets)
    /\ file \in StartFiles
    /\ \E ready \in SUBSET {m \in Machines : CanRead(m)} :
        /\ gCfg = [m \in Machines |-> IF m \in ready THEN file[m] ELSE None]
        /\ gEncKey = [m \in Machines |-> IF m \in ready THEN metadata[file[m].bucket].key
                                                       ELSE NoKey]
    /\ pc = [p \in Procs |-> "idle"]
    /\ job = [p \in Procs |-> NoJob]
    /\ network = "up" /\ calls = 0 /\ faults = 0

-----------------------------------------------------------------------------
(* Local steps *)

Goto(p, l) == pc' = [pc EXCEPT ![p] = l]

\* Mutant: the local variables outlive the call.
ReturnKeepsJob(p) == Goto(p, "idle") /\ UNCHANGED job

\* The call returns, with or without an error.
Return(p) == Goto(p, "idle") /\ job' = [job EXCEPT ![p] = NoJob]

\* A call of the object store that is answered.
Reaches(p) == network = "up" /\ job[p].bucket \in Buckets

Fault == faults < MaxFaults /\ faults' = faults + 1 /\ UNCHANGED <<network, calls>>

-----------------------------------------------------------------------------
(* Beginnings of calls.  Unless "races" are allowed, a bucket is created,  *)
(* wiped and configured by one caller at a time.                           *)

Settled(b) == b \in Buckets => metadata[b] # None

MayBegin(p, b, alone) ==
    /\ pc[p] = "idle" /\ calls < MaxCalls
    /\ \/ "races" \in Allowed
       \/ \A q \in Procs : pc[q] = "idle"
       \/ /\ ~alone /\ Settled(b)
          /\ \A q \in Procs : /\ job[q].call \notin {"wipe", "init"}
                              /\ pc[q] # "idle" => Settled(job[q].bucket)

Begin(p, j, l) ==
    /\ job' = [job EXCEPT ![p] = j]
    /\ Goto(p, l)
    /\ calls' = calls + 1
    /\ UNCHANGED <<network, faults>>

\* gStatus keeps backups, replays and wipes of one daemon apart.
Busy(m) == \E q \in Procs : /\ Host[q] = m
                            /\ \/ job[q].call \in {"backup", "wipe"}
                               \/ pc[q] \in {"copyKey", "upload", "index"}

Hello(p) ==
    /\ "hello" \in Allowed
    /\ MayBegin(p, file[Host[p]].bucket, file[Host[p]].bucket = NoBucket)
    /\ Begin(p, [NoJob EXCEPT !.call = "hello", !.bucket = file[Host[p]].bucket], "load")
    /\ UNCHANGED <<cloud, disk, memory>>

BackupRPC(p) ==
    /\ "backup" \in Allowed
    /\ gCfg[Host[p]] # None /\ gEncKey[Host[p]] # NoKey /\ ~Busy(Host[p])
    /\ MayBegin(p, gCfg[Host[p]].bucket, FALSE)
    /\ Begin(p, [NoJob EXCEPT !.call = "backup", !.bucket = gCfg[Host[p]].bucket], "reach")
    /\ UNCHANGED <<cloud, disk, memory>>

CheckBucketPassword(p, b, w) ==
    /\ "check" \in Allowed
    /\ gCfg[Host[p]] # None
    /\ MayBegin(p, b, FALSE)
    /\ Begin(p, [NoJob EXCEPT !.call = "check", !.bucket = b, !.password = w], "list")
    /\ UNCHANGED <<cloud, disk, memory>>

ChangePasswordRPC(p, old, new, update) ==
    /\ "change" \in Allowed
    /\ gCfg[Host[p]] # None
    /\ MayBegin(p, gCfg[Host[p]].bucket, FALSE)
    /\ Begin(p, [NoJob EXCEPT !.call = "change", !.bucket = gCfg[Host[p]].bucket,
                              !.password = old, !.new = new, !.update = update], "list")
    /\ UNCHANGED <<cloud, disk, memory>>

\* The answer is a success whatever initConfig finds.
WriteToDaemonConfig(p, b, w) ==
    /\ "config" \in Allowed
    /\ gCfg[Host[p]] # None
    /\ MayBegin(p, b, TRUE)
    /\ Begin(p, [NoJob EXCEPT !.call = "init", !.bucket = b, !.password = w], "truncate")
    /\ UNCHANGED <<cloud, disk, memory>>

\* A command: its flags take precedence over the configuration file.
Command(p, b, w) ==
    /\ "command" \in Allowed
    /\ MayBegin(p, b, FALSE)
    /\ Begin(p, [NoJob EXCEPT !.call = "command", !.bucket = b, !.password = w], "list")
    /\ UNCHANGED <<cloud, disk, memory>>

WipeCloud(p) ==
    /\ "wipe" \in Allowed
    /\ gCfg[Host[p]] # None /\ ~Busy(Host[p])
    /\ MayBegin(p, gCfg[Host[p]].bucket, TRUE)
    /\ Begin(p, [NoJob EXCEPT !.call = "wipe", !.bucket = gCfg[Host[p]].bucket], "listAll")
    /\ UNCHANGED <<cloud, disk, memory>>

-----------------------------------------------------------------------------
(* initConfig *)

\* makeTemplateConfigFile: os.WriteFile truncates the file before it writes.
TruncateConfig(p) ==
    /\ pc[p] = "truncate"
    /\ file' = [file EXCEPT ![Host[p]] = Blank]
    /\ Goto(p, "write")
    /\ UNCHANGED <<cloud, memory, job, counts>>

WriteConfig(p) ==
    /\ pc[p] = "write"
    /\ file' = [file EXCEPT ![Host[p]] =
                    [bucket |-> job[p].bucket, password |-> job[p].password]]
    /\ Goto(p, "load")
    /\ UNCHANGED <<cloud, memory, job, counts>>

LoadConfig(p) ==
    /\ pc[p] = "load"
    /\ gCfg' = [gCfg EXCEPT ![Host[p]] = file[Host[p]]]
    /\ Goto(p, "bucket")
    /\ UNCHANGED <<cloud, disk, gEncKey, job, counts>>

ReadBucketName(p) ==
    /\ pc[p] = "bucket"
    /\ job' = [job EXCEPT ![p].bucket = gCfg[Host[p]].bucket]
    /\ Goto(p, "reach")
    /\ UNCHANGED <<cloud, disk, memory, counts>>

\* IsReachable, and the password, read from the configuration only now.
IsReachable(p) ==
    /\ pc[p] = "reach" /\ Reaches(p)
    /\ job' = [job EXCEPT ![p].password = gCfg[Host[p]].password]
    /\ Goto(p, "list")
    /\ UNCHANGED <<cloud, disk, memory, counts>>

-----------------------------------------------------------------------------
(* GetOrCreateBucketMetadata *)

AfterKeys(c) == IF c = "backup" THEN "publish" ELSE "verify"

AfterVerify(c) ==
    CASE c = "check"   -> "idle"
      [] c = "change"  -> "put"
      [] c = "command" -> "upload"
      [] OTHER         -> "publish"

Opens(p) ==
    /\ metadata[job[p].bucket] # None
    /\ metadata[job[p].bucket].password = job[p].password

ListMetadata(p) ==
    /\ pc[p] = "list" /\ Reaches(p)
    /\ Goto(p, IF metadata[job[p].bucket] # None THEN "read" ELSE "empty")
    /\ UNCHANGED <<cloud, disk, memory, job, counts>>

\* Mutant: a password that does not open the bucket is tried again.
ReadUntilItOpens(p) ==
    /\ pc[p] = "read" /\ Reaches(p)
    /\ \/ /\ Opens(p)
          /\ job' = [job EXCEPT ![p].key = metadata[job[p].bucket].key]
          /\ Goto(p, AfterKeys(job[p].call))
       \/ ~Opens(p) /\ Goto(p, "list") /\ UNCHANGED job
    /\ UNCHANGED <<cloud, disk, memory, counts>>

\* readBucketMetadataFile: decryption under a wrong password fails.
ReadBucketMetadataFile(p) ==
    /\ pc[p] = "read" /\ Reaches(p)
    /\ \/ /\ Opens(p)
          /\ job' = [job EXCEPT ![p].key = metadata[job[p].bucket].key]
          /\ Goto(p, AfterKeys(job[p].call))
       \/ ~Opens(p) /\ Return(p)
    /\ UNCHANGED <<cloud, disk, memory, counts>>

\* Mutant: only snapshots count, chunks are overlooked.
NoSnapshots(b) == metadata[b] = None /\ \A o \in objects[b] : o.kind # "name"

IsBucketEmpty(b) == metadata[b] = None /\ objects[b] = {}

ListBucket(p) ==
    /\ pc[p] = "empty" /\ Reaches(p)
    /\ \/ IsBucketEmpty(job[p].bucket) /\ Goto(p, "create") /\ UNCHANGED job
       \/ ~IsBucketEmpty(job[p].bucket) /\ Return(p)   \* ErrNoMetadataButNotEmpty
    /\ UNCHANGED <<cloud, disk, memory, counts>>

\* writeBucketMetadataFile: an unreachable network is waited for; an upload
\* that fails otherwise may have been done.
WriteBucketMetadataFile(p, entry) ==
    /\ Reaches(p)
    /\ metadata' = [metadata EXCEPT ![job[p].bucket] = entry]
    /\ UNCHANGED objects

CreateMetadata(p) ==
    /\ pc[p] = "create"
    /\ fresh' = fresh + 1
    /\ WriteBucketMetadataFile(p, [password |-> job[p].password, key |-> fresh + 1])
    /\ \/ Goto(p, "read") /\ UNCHANGED <<job, counts>>
       \/ "error" \in Allowed /\ Fault /\ Return(p)
    /\ UNCHANGED <<disk, memory>>

-----------------------------------------------------------------------------
(* VerifyKeys *)

VerifyKeys(p) ==
    /\ pc[p] = "verify" /\ Reaches(p)
    /\ \/ /\ Opens(p) /\ metadata[job[p].bucket].key = job[p].key
          /\ Goto(p, "names") /\ UNCHANGED job
       \/ /\ ~(Opens(p) /\ metadata[job[p].bucket].key = job[p].key)
          /\ Return(p)
    /\ UNCHANGED <<cloud, disk, memory, counts>>

\* The first snapshot name in the listing must decrypt.
DecryptFirstName(p) ==
    LET names == {o \in objects[job[p].bucket] : o.kind = "name"}
    IN  /\ pc[p] = "names" /\ Reaches(p)
        /\ \/ /\ names = {} \/ \E o \in names : o.key = job[p].key
              /\ \/ AfterVerify(job[p].call) # "idle"
                    /\ Goto(p, AfterVerify(job[p].call)) /\ UNCHANGED job
                 \/ AfterVerify(job[p].call) = "idle" /\ Return(p)
           \/ /\ \E o \in names : o.key # job[p].key
              /\ Return(p)
        /\ UNCHANGED <<cloud, disk, memory, counts>>

-----------------------------------------------------------------------------
(* ChangePassword *)

\* Mutant: the change of password makes new keys.
ReencryptNewKeys(p) == [password |-> job[p].new, key |-> fresh + 1]

\* The keys given are encrypted again, under the new password.
Reencrypt(p) == [password |-> job[p].new, key |-> job[p].key]

ChangePassword(p) ==
    /\ pc[p] = "put"
    /\ WriteBucketMetadataFile(p, Reencrypt(p))
    /\ \/ /\ job' = [job EXCEPT ![p].call = "changed", ![p].password = job[p].new]
          /\ Goto(p, "list") /\ UNCHANGED counts
       \/ "error" \in Allowed /\ Fault /\ Return(p)
    /\ UNCHANGED <<fresh, disk, memory>>

\* The keys go into the globals.  Hello goes on to a dirty journal.
PublishKeys(p) ==
    /\ pc[p] = "publish"
    /\ gEncKey' = [gEncKey EXCEPT ![Host[p]] = job[p].key]
    /\ \/ job[p].call = "backup" /\ Goto(p, "copyKey") /\ UNCHANGED job
       \/ job[p].call = "hello" /\ Goto(p, "replay") /\ UNCHANGED job
       \/ /\ job[p].call = "changed" /\ job[p].update
          /\ job' = [job EXCEPT ![p].call = "init", ![p].bucket = gCfg[Host[p]].bucket]
          /\ Goto(p, "truncate")
       \/ /\ job[p].call \in {"hello", "init"} \/ (job[p].call = "changed" /\ ~job[p].update)
          /\ Return(p)
    /\ UNCHANGED <<cloud, disk, gCfg, counts>>

-----------------------------------------------------------------------------
(* Backup and replay *)

\* replayBackupJournal uses the globals as they are once nothing else runs.
ReplayBackupJournal(p) ==
    /\ pc[p] = "replay"
    /\ \/ /\ ~Busy(Host[p])
          /\ job' = [job EXCEPT ![p].bucket = gCfg[Host[p]].bucket]
          /\ Goto(p, "copyKey")
       \/ Return(p)   \* the journal is clean by now
    /\ UNCHANGED <<cloud, disk, memory, counts>>

CopyKey(p) ==
    /\ pc[p] = "copyKey"
    /\ job' = [job EXCEPT ![p].key = gEncKey[Host[p]]]
    /\ Goto(p, "upload")
    /\ UNCHANGED <<cloud, disk, memory, counts>>

PutObject(p, kind) ==
    /\ Reaches(p)
    /\ objects' = [objects EXCEPT ![job[p].bucket] = @ \cup {[kind |-> kind, key |-> job[p].key]}]
    /\ UNCHANGED <<metadata, fresh>>

UploadChunk(p) ==
    /\ pc[p] = "upload"
    /\ PutObject(p, "chunk")
    /\ Goto(p, "index")
    /\ UNCHANGED <<job, disk, memory, counts>>

WriteIndexFile(p) ==
    /\ pc[p] = "index"
    /\ PutObject(p, "name")
    /\ Return(p)
    /\ UNCHANGED <<disk, memory, counts>>

-----------------------------------------------------------------------------
(* WipeCloud deletes what it listed, in any order; failures are logged.    *)

Contents(b) == objects[b] \cup (IF metadata[b] = None THEN {} ELSE {MetadataObj})

ListAll(p) ==
    /\ pc[p] = "listAll" /\ Reaches(p)
    /\ job' = [job EXCEPT ![p].todo = Contents(job[p].bucket)]
    /\ Goto(p, "delete")
    /\ UNCHANGED <<cloud, disk, memory, counts>>

DeleteObj(p) ==
    /\ pc[p] = "delete"
    /\ \E o \in job[p].todo :
        /\ job' = [job EXCEPT ![p].todo = @ \ {o}]
        /\ \/ Reaches(p) /\ UNCHANGED counts
              /\ metadata' = [metadata EXCEPT ![job[p].bucket] = IF o = MetadataObj THEN None ELSE @]
              /\ objects' = [objects EXCEPT ![job[p].bucket] = @ \ {o}]
           \/ ~Reaches(p) /\ UNCHANGED <<metadata, objects, counts>>
           \/ "error" \in Allowed /\ Fault /\ UNCHANGED <<metadata, objects>>
    /\ UNCHANGED <<fresh, disk, memory, pc>>

WipeDone(p) ==
    /\ pc[p] = "delete" /\ job[p].todo = {}
    /\ Return(p)
    /\ UNCHANGED <<cloud, disk, memory, counts>>

-----------------------------------------------------------------------------
(* Faults *)

AtStore == {"reach", "list", "read", "empty", "create", "verify", "names", "put",
            "upload", "index", "listAll"}
Waits == {"create", "put", "upload", "index"}

\* The store answers with an error; without a network, only uploads wait.
StoreError(p) ==
    /\ pc[p] \in AtStore
    /\ \/ "error" \in Allowed /\ Fault
       \/ ~Reaches(p) /\ pc[p] \notin Waits /\ UNCHANGED counts
       \/ job[p].bucket \notin Buckets /\ UNCHANGED counts
    /\ Return(p)
    /\ UNCHANGED <<cloud, disk, memory>>

NetworkDown ==
    /\ "outage" \in Allowed /\ network = "up" /\ faults < MaxFaults
    /\ network' = "down" /\ faults' = faults + 1
    /\ UNCHANGED <<cloud, disk, memory, pc, job, calls>>

NetworkUp ==
    /\ network = "down" /\ network' = "up"
    /\ UNCHANGED <<cloud, disk, memory, pc, job, calls, faults>>

Crash(m) ==
    /\ "crash" \in Allowed /\ Fault
    /\ gCfg' = [gCfg EXCEPT ![m] = None]
    /\ gEncKey' = [gEncKey EXCEPT ![m] = NoKey]
    /\ pc' = [p \in Procs |-> IF Host[p] = m THEN "idle" ELSE pc[p]]
    /\ job' = [p \in Procs |-> IF Host[p] = m THEN NoJob ELSE job[p]]
    /\ UNCHANGED <<cloud, disk>>

-----------------------------------------------------------------------------
Step(p) ==
    \/ TruncateConfig(p) \/ WriteConfig(p) \/ LoadConfig(p)
    \/ ReadBucketName(p) \/ IsReachable(p)
    \/ ListMetadata(p) \/ ReadBucketMetadataFile(p) \/ ListBucket(p) \/ CreateMetadata(p)
    \/ VerifyKeys(p) \/ DecryptFirstName(p)
    \/ ChangePassword(p) \/ PublishKeys(p)
    \/ ReplayBackupJournal(p) \/ CopyKey(p) \/ UploadChunk(p) \/ WriteIndexFile(p)
    \/ ListAll(p) \/ DeleteObj(p) \/ WipeDone(p)
    \/ StoreError(p)

Request(p) ==
    \/ Hello(p) \/ BackupRPC(p) \/ WipeCloud(p)
    \/ \E c \in Choices : \/ CheckBucketPassword(p, c[1], c[2])
                          \/ WriteToDaemonConfig(p, c[1], c[2])
                          \/ Command(p, c[1], c[2])
    \/ \E c \in Changes, update \in BOOLEAN : ChangePasswordRPC(p, c[1], c[2], update)

Next ==
    \/ \E p \in Procs : Request(p) \/ Step(p)
    \/ \E m \in Machines : Crash(m)
    \/ NetworkDown \/ NetworkUp

Spec == Init /\ [][Next]_vars

(* Goroutines run, and an outage ends.                                     *)
FairSpec == Spec /\ WF_vars(NetworkUp) /\ \A p \in Procs : WF_vars(Step(p))

-----------------------------------------------------------------------------
Labels == {"idle", "truncate", "write", "load", "bucket", "reach", "list", "read", "empty",
           "create", "verify", "names", "put", "publish", "replay", "copyKey", "upload",
           "index", "listAll", "delete"}

(* The variables keep their types; local variables live as long as a call. *)
TypeOK ==
    /\ metadata \in [Buckets -> {None} \cup Entries]
    /\ objects \in [Buckets -> SUBSET Objects]
    /\ file \in [Machines -> Configs]
    /\ gCfg \in [Machines -> {None} \cup Configs]
    /\ gEncKey \in [Machines -> Nat]
    /\ fresh \in Nat
    /\ pc \in [Procs -> Labels]
    /\ job \in [Procs -> Jobs]
    /\ \A p \in Procs : pc[p] = "idle" => job[p] = NoJob
    /\ network \in {"up", "down"} /\ calls \in Nat /\ faults \in Nat

(* No object is encrypted under keys other than those its bucket's         *)
(* metadata holds: otherwise no password would ever open it again.         *)
ObjectsReadable ==
    \A b \in Buckets : metadata[b] # None => \A o \in objects[b] : o.key = metadata[b].key

-----------------------------------------------------------------------------
(* The inductive invariant behind ObjectsReadable, without races, part by  *)
(* part.                                                                   *)

Alone(p) == \A q \in Procs \ {p} : pc[q] = "idle"

\* A call that sets or uses the globals of its daemon.
UsesGlobals(p) == job[p].call \in {"hello", "init", "backup", "change", "changed"}

\* Which calls get where.
CallsAtLabels ==
    \A p \in Procs :
        /\ job[p].call = "none" <=> pc[p] = "idle"
        /\ job[p].call = "wipe" <=> pc[p] \in {"listAll", "delete"}
        /\ pc[p] \in {"truncate", "write"} => job[p].call = "init"
        /\ pc[p] \in {"load", "bucket"} => job[p].call \in {"hello", "init"}
        /\ pc[p] \in {"reach", "publish"} => UsesGlobals(p)
        /\ pc[p] \in {"replay", "copyKey"} => job[p].call \in {"hello", "backup"}
        /\ pc[p] = "put" => job[p].call = "change"

\* It finds a configuration in memory.
ConfigLoaded ==
    \A p \in Procs : UsesGlobals(p) /\ pc[p] # "load" => gCfg[Host[p]] # None

\* Whoever works on a bucket without metadata, or deletes one, is alone.
CreatorsAlone ==
    \A p \in Procs :
        /\ pc[p] # "idle" /\ ~Settled(job[p].bucket) => Alone(p)
        /\ job[p].call = "wipe" => Alone(p)
        /\ pc[p] = "create" /\ job[p].bucket \in Buckets => IsBucketEmpty(job[p].bucket)

\* A bucket without metadata is not met unexpectedly in the configuration.
LoadsSettled ==
    \A p \in Procs :
        /\ pc[p] = "load" => \/ Settled(file[Host[p]].bucket)
                             \/ job[p].bucket = file[Host[p]].bucket
        /\ pc[p] = "bucket" => \/ Settled(gCfg[Host[p]].bucket)
                               \/ job[p].bucket = gCfg[Host[p]].bucket

Holding == {"verify", "names", "put", "publish"}

HasKeyOf(k, b) == b \in Buckets => metadata[b] # None /\ metadata[b].key = k

\* Keys a call has read are the bucket's until it ends.
HeldKeysCurrent ==
    \A p \in Procs :
        /\ pc[p] \in Holding \cup {"replay"} => job[p].bucket \in Buckets
        /\ pc[p] \in Holding \cup {"upload", "index"} => HasKeyOf(job[p].key, job[p].bucket)

\* A new configuration takes the place of the old one in the file and then in
\* memory; nobody else is at work.
Reconfigures(p, m, labels) ==
    Host[p] = m /\ job[p].call = "init" /\ pc[p] \in labels /\ Alone(p)

\* The configuration file, its copy and the calls agree on the bucket, b.
AgreeOn(m, b) ==
    /\ \/ file[m].bucket \in {b, NoBucket}
       \/ \E p \in Procs : Reconfigures(p, m, {"truncate"})
    /\ \/ gCfg[m] # None => gCfg[m].bucket \in {b, NoBucket}
       \/ \E p \in Procs : Reconfigures(p, m, {"truncate", "write", "load"})
    /\ \A p \in Procs : Host[p] = m /\ UsesGlobals(p) => job[p].bucket \in {b, NoBucket}

OneBucket == \A m \in Machines : \E b \in Buckets \cup {NoBucket} : AgreeOn(m, b)

\* The key a backup or a replay is about to copy is that of its bucket.
PublishedKeyCurrent ==
    \A p \in Procs :
        pc[p] \in {"copyKey", "replay"} => HasKeyOf(gEncKey[Host[p]], job[p].bucket)

(* A call never holds, and a daemon never publishes, keys that are not     *)
(* those of the bucket it is about to encrypt for; whoever may create a    *)
(* bucket's keys, or delete them, is alone (GetOrCreateBucketMetadata,     *)
(* initConfig, Backup).  The conjunction is inductive.                     *)
KeyInv == /\ TypeOK /\ ObjectsReadable /\ CallsAtLabels /\ ConfigLoaded
          /\ CreatorsAlone /\ LoadsSettled /\ HeldKeysCurrent
          /\ OneBucket /\ PublishedKeyCurrent

-----------------------------------------------------------------------------
(* While a bucket has metadata, its keys stay the same: a change of        *)
(* password encrypts the same keys again (ChangePassword), and a bucket is *)
(* not given new ones (GetOrCreateBucketMetadata).                         *)
KeysSurvive ==
    [][\A b \in Buckets : metadata[b] # None /\ metadata'[b] # None
                              => metadata'[b].key = metadata[b].key]_vars

(* Every call comes to an end: a password that does not open the bucket, a *)
(* bucket without metadata, an outage that an upload waits for.            *)
CallsEnd == \A p \in Procs : pc[p] # "idle" ~> pc[p] = "idle"
=============================================================================
