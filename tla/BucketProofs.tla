----------------------------- MODULE BucketProofs -----------------------------
(***************************************************************************)
(* The keys of a bucket for any number of machines, buckets, passwords and *)
(* handlers: as long as a bucket is created, wiped and configured by one   *)
(* caller at a time, what is in it is encrypted under the keys its         *)
(* metadata holds (ObjectsReadable), and they never change (KeysSurvive).  *)
(***************************************************************************)
EXTENDS BucketMetadata, FiniteSetTheorems, TLAPS

-----------------------------------------------------------------------------
(* Types *)

(* Process p goes to label l with the local variables j.                   *)
Moves(p, l, j) == pc' = [pc EXCEPT ![p] = l] /\ job' = [job EXCEPT ![p] = j]

LEMMA NoJobType == NoJob \in Jobs
BY DEF NoJob, Jobs, Calls, NoKey, Objects, MetadataObj

LEMMA ReturnMoves ==
    ASSUME NEW p \in Procs, Return(p)
    PROVE  Moves(p, "idle", NoJob)
BY DEF Return, Goto, Moves

LEMMA GotoMoves ==
    ASSUME TypeOK, NEW p \in Procs, NEW l, Goto(p, l), UNCHANGED job
    PROVE  Moves(p, l, job[p])
BY DEF TypeOK, Goto, Moves

(* What a step of one process does to pc and job.                          *)
LEMMA MovesType ==
    ASSUME TypeOK, NEW p \in Procs, NEW l \in Labels, NEW j \in Jobs,
           l = "idle" => j = NoJob, Moves(p, l, j)
    PROVE  /\ pc' \in [Procs -> Labels]
           /\ job' \in [Procs -> Jobs]
           /\ \A q \in Procs : pc'[q] = "idle" => job'[q] = NoJob
BY DEF TypeOK, Moves

(* A move that leaves the rest alone, or only counts.                      *)
LEMMA MoveKeepsType ==
    ASSUME TypeOK, NEW p \in Procs, NEW l \in Labels, NEW j \in Jobs,
           l = "idle" => j = NoJob, Moves(p, l, j),
           UNCHANGED <<cloud, disk, memory>>,
           UNCHANGED counts \/ Fault
    PROVE  TypeOK'
<1>1. calls' \in Nat /\ faults' \in Nat /\ network' \in {"up", "down"}
  BY DEF TypeOK, counts, Fault
<1> QED BY <1>1, MovesType DEF TypeOK, cloud, disk, memory

LEMMA BeginKeepsType ==
    ASSUME TypeOK, NEW p \in Procs, NEW l \in Labels \ {"idle"}, NEW j \in Jobs,
           Begin(p, j, l), UNCHANGED <<cloud, disk, memory>>
    PROVE  TypeOK'
<1>1. Moves(p, l, j)
  BY DEF Begin, Goto, Moves
<1>2. calls' \in Nat /\ faults' \in Nat /\ network' \in {"up", "down"}
  BY DEF TypeOK, Begin
<1> QED BY <1>1, <1>2, MovesType DEF TypeOK, cloud, disk, memory

(* A configuration that is there.                                          *)
LEMMA ConfigFields ==
    ASSUME TypeOK, NEW m \in Machines
    PROVE  /\ file[m] \in Configs
           /\ file[m].bucket \in Buckets \cup {NoBucket}
           /\ gCfg[m] # None => /\ gCfg[m] \in Configs
                                /\ gCfg[m].bucket \in Buckets \cup {NoBucket}
                                /\ gCfg[m].password \in Passwords \cup {NoPassword}
BY DEF TypeOK, Configs

LEMMA HostType == \A p \in Procs : Host[p] \in Machines
BY KeyAssumption

LEMMA JobFields ==
    ASSUME TypeOK, NEW p \in Procs
    PROVE  /\ job[p] \in Jobs
           /\ job[p].call \in Calls /\ job[p].bucket \in Buckets \cup {NoBucket}
           /\ job[p].password \in Passwords \cup {NoPassword} /\ job[p].key \in Nat
           /\ job[p].new \in Passwords \cup {NoPassword} /\ job[p].update \in BOOLEAN
           /\ job[p].todo \in SUBSET (Objects \cup {MetadataObj})
BY DEF TypeOK, Jobs

(* What a request begins with.                                             *)
LEMMA RequestJob ==
    ASSUME NEW c \in Calls, NEW b \in Buckets \cup {NoBucket},
           NEW w \in Passwords \cup {NoPassword}, NEW n \in Passwords \cup {NoPassword},
           NEW u \in BOOLEAN
    PROVE  /\ [NoJob EXCEPT !.call = c, !.bucket = b] \in Jobs
           /\ [NoJob EXCEPT !.call = c, !.bucket = b, !.password = w] \in Jobs
           /\ [NoJob EXCEPT !.call = c, !.bucket = b, !.password = w, !.new = n,
                            !.update = u] \in Jobs
BY DEF NoJob, Jobs, NoKey, Objects, MetadataObj

LEMMA ChangeJob ==
    ASSUME NEW b \in Buckets \cup {NoBucket}, NEW old \in Passwords, NEW new \in Passwords,
           NEW u \in BOOLEAN
    PROVE  [NoJob EXCEPT !.call = "change", !.bucket = b, !.password = old, !.new = new,
                         !.update = u] \in Jobs
BY DEF NoJob, Jobs, NoKey, Calls, Objects, MetadataObj

LEMMA RequestKeepsType ==
    ASSUME TypeOK, NEW p \in Procs, Request(p)
    PROVE  TypeOK'
<1> USE HostType, ConfigFields, RequestJob, BeginKeepsType DEF Calls, Labels
<1>1. CASE Hello(p)
  <2> DEFINE j == [NoJob EXCEPT !.call = "hello", !.bucket = file[Host[p]].bucket]
  <2>1. j \in Jobs
    OBVIOUS
  <2> HIDE DEF j
  <2>2. Begin(p, j, "load") /\ UNCHANGED <<cloud, disk, memory>>
    BY <1>1 DEF Hello, j
  <2> QED BY <2>1, <2>2
<1>2. CASE BackupRPC(p)
  <2> DEFINE j == [NoJob EXCEPT !.call = "backup", !.bucket = gCfg[Host[p]].bucket]
  <2>1. j \in Jobs
    BY <1>2 DEF BackupRPC
  <2> HIDE DEF j
  <2>2. Begin(p, j, "reach") /\ UNCHANGED <<cloud, disk, memory>>
    BY <1>2 DEF BackupRPC, j
  <2> QED BY <2>1, <2>2
<1>3. CASE WipeCloud(p)
  <2> DEFINE j == [NoJob EXCEPT !.call = "wipe", !.bucket = gCfg[Host[p]].bucket]
  <2>1. j \in Jobs
    BY <1>3 DEF WipeCloud
  <2> HIDE DEF j
  <2>2. Begin(p, j, "listAll") /\ UNCHANGED <<cloud, disk, memory>>
    BY <1>3 DEF WipeCloud, j
  <2> QED BY <2>1, <2>2
<1>4. ASSUME NEW c \in Choices,
             \/ CheckBucketPassword(p, c[1], c[2]) \/ WriteToDaemonConfig(p, c[1], c[2])
             \/ Command(p, c[1], c[2])
      PROVE  TypeOK'
  <2>1. c[1] \in Buckets /\ c[2] \in Passwords
    BY KeyAssumption
  <2> DEFINE j(call) == [NoJob EXCEPT !.call = call, !.bucket = c[1], !.password = c[2]]
  <2>2. \A call \in Calls : j(call) \in Jobs
    BY <2>1
  <2> HIDE DEF j
  <2>3. /\ \/ Begin(p, j("check"), "list") \/ Begin(p, j("init"), "truncate")
           \/ Begin(p, j("command"), "list")
        /\ UNCHANGED <<cloud, disk, memory>>
    BY <1>4 DEF CheckBucketPassword, WriteToDaemonConfig, Command, j
  <2> QED BY <2>2, <2>3
<1>5. ASSUME NEW c \in Changes, NEW update \in BOOLEAN,
             ChangePasswordRPC(p, c[1], c[2], update)
      PROVE  TypeOK'
  <2>1. c[1] \in Passwords /\ c[2] \in Passwords
    BY KeyAssumption
  <2> DEFINE j == [NoJob EXCEPT !.call = "change", !.bucket = gCfg[Host[p]].bucket,
                                !.password = c[1], !.new = c[2], !.update = update]
  <2>b. gCfg[Host[p]].bucket \in Buckets \cup {NoBucket}
    BY <1>5 DEF ChangePasswordRPC
  <2>2. j \in Jobs
    BY ONLY <2>1, <2>b, update \in BOOLEAN, ChangeJob
  <2> HIDE DEF j
  <2>3. Begin(p, j, "list") /\ UNCHANGED <<cloud, disk, memory>>
    BY <1>5 DEF ChangePasswordRPC, j
  <2> QED BY <2>2, <2>3
<1> QED BY <1>1, <1>2, <1>3, <1>4, <1>5 DEF Request

(* A step that only moves on, with at most one local variable changed.     *)
LEMMA JobUpdate ==
    ASSUME TypeOK, NEW p \in Procs
    PROVE  /\ \A k \in Nat : [job[p] EXCEPT !.key = k] \in Jobs
           /\ \A b \in Buckets \cup {NoBucket} : [job[p] EXCEPT !.bucket = b] \in Jobs
           /\ \A w \in Passwords \cup {NoPassword} : [job[p] EXCEPT !.password = w] \in Jobs
           /\ \A T \in SUBSET (Objects \cup {MetadataObj}) : [job[p] EXCEPT !.todo = T] \in Jobs
           /\ \A w \in Passwords \cup {NoPassword}, c \in Calls :
                  [job[p] EXCEPT !.call = c, !.password = w] \in Jobs
           /\ \A b \in Buckets \cup {NoBucket}, c \in Calls :
                  [job[p] EXCEPT !.call = c, !.bucket = b] \in Jobs
BY JobFields DEF Jobs

LEMMA MetadataFields ==
    ASSUME TypeOK, NEW b \in Buckets, metadata[b] # None
    PROVE  metadata[b] \in Entries /\ metadata[b].key \in Nat
BY DEF TypeOK, Entries

(* Steps on which only pc and job change.                                  *)
Look(p) == \/ ReadBucketName(p) \/ IsReachable(p) \/ ListMetadata(p)
           \/ ReadBucketMetadataFile(p) \/ ListBucket(p) \/ VerifyKeys(p)
           \/ DecryptFirstName(p) \/ ReplayBackupJournal(p) \/ CopyKey(p)
           \/ ListAll(p) \/ WipeDone(p) \/ StoreError(p)

LEMMA LookMoves ==
    ASSUME TypeOK, CallsAtLabels, ConfigLoaded, NEW p \in Procs, Look(p)
    PROVE  \E l \in Labels, j \in Jobs : (l = "idle" => j = NoJob) /\ Moves(p, l, j)
<1> USE NoJobType, JobUpdate, HostType, ConfigFields, JobFields DEF Labels
<1>1. Return(p) => Moves(p, "idle", NoJob)
  BY ReturnMoves
<1>2. \A l : Goto(p, l) /\ UNCHANGED job => Moves(p, l, job[p])
  BY GotoMoves
<1>3. CASE ReadBucketName(p)
  <2>1. gCfg[Host[p]].bucket \in Buckets \cup {NoBucket}
    BY <1>3 DEF ReadBucketName, CallsAtLabels, ConfigLoaded, UsesGlobals
  <2>2. Moves(p, "reach", [job[p] EXCEPT !.bucket = gCfg[Host[p]].bucket])
    BY <1>3 DEF ReadBucketName, Goto, Moves, TypeOK
  <2> QED BY <2>1, <2>2
<1>4. CASE IsReachable(p)
  <2>1. gCfg[Host[p]].password \in Passwords \cup {NoPassword}
    BY <1>4 DEF IsReachable, CallsAtLabels, ConfigLoaded
  <2>2. Moves(p, "list", [job[p] EXCEPT !.password = gCfg[Host[p]].password])
    BY <1>4 DEF IsReachable, Goto, Moves, TypeOK
  <2> QED BY <2>1, <2>2
<1>5. CASE ListMetadata(p)
  BY <1>2, <1>5 DEF ListMetadata
<1>6. CASE ReadBucketMetadataFile(p)
  <2> DEFINE k == metadata[job[p].bucket].key
  <2>1. CASE Opens(p) /\ ~Return(p)
    <3>1. k \in Nat
      BY <1>6, <2>1, MetadataFields DEF ReadBucketMetadataFile, Reaches, Opens
    <3>2. AfterKeys(job[p].call) \in Labels \ {"idle"}
      BY DEF AfterKeys
    <3>3. Moves(p, AfterKeys(job[p].call), [job[p] EXCEPT !.key = k])
      BY <1>6, <2>1 DEF ReadBucketMetadataFile, Goto, Moves, TypeOK
    <3> HIDE DEF k
    <3> QED BY <3>1, <3>2, <3>3
  <2> QED BY <1>1, <1>6, <2>1 DEF ReadBucketMetadataFile
<1>7. CASE ListBucket(p)
  BY <1>1, <1>2, <1>7 DEF ListBucket
<1>8. CASE VerifyKeys(p)
  BY <1>1, <1>2, <1>8 DEF VerifyKeys
<1>9. CASE DecryptFirstName(p)
  <2>1. AfterVerify(job[p].call) \in Labels
    BY DEF AfterVerify
  <2>2. \/ Return(p)
        \/ AfterVerify(job[p].call) # "idle" /\ Goto(p, AfterVerify(job[p].call)) /\ UNCHANGED job
    BY <1>9 DEF DecryptFirstName
  <2> QED BY <1>1, <1>2, <2>1, <2>2
<1>10. CASE ReplayBackupJournal(p)
  <2>1. gCfg[Host[p]].bucket \in Buckets \cup {NoBucket}
    BY <1>10 DEF ReplayBackupJournal, CallsAtLabels, ConfigLoaded, UsesGlobals
  <2>2. \/ Return(p) \/ Moves(p, "copyKey", [job[p] EXCEPT !.bucket = gCfg[Host[p]].bucket])
    BY <1>10 DEF ReplayBackupJournal, Goto, Moves, TypeOK
  <2> QED BY <1>1, <2>1, <2>2
<1>11. CASE CopyKey(p)
  <2>1. gEncKey[Host[p]] \in Nat
    BY DEF TypeOK
  <2>2. Moves(p, "upload", [job[p] EXCEPT !.key = gEncKey[Host[p]]])
    BY <1>11 DEF CopyKey, Goto, Moves, TypeOK
  <2> QED BY <2>1, <2>2
<1>12. CASE ListAll(p)
  <2> DEFINE T == Contents(job[p].bucket)
  <2>1. T \in SUBSET (Objects \cup {MetadataObj})
    BY <1>12 DEF ListAll, Reaches, Contents, TypeOK
  <2>2. Moves(p, "delete", [job[p] EXCEPT !.todo = T])
    BY <1>12 DEF ListAll, Goto, Moves, TypeOK
  <2> HIDE DEF T
  <2> QED BY <2>1, <2>2
<1>13. CASE WipeDone(p)
  BY <1>1, <1>13 DEF WipeDone
<1>14. CASE StoreError(p)
  BY <1>1, <1>14 DEF StoreError
<1> QED
  BY <1>3, <1>4, <1>5, <1>6, <1>7, <1>8, <1>9, <1>10, <1>11, <1>12, <1>13, <1>14 DEF Look

LEMMA LookKeepsRest ==
    ASSUME NEW p \in Procs, Look(p)
    PROVE  UNCHANGED <<cloud, disk, memory>> /\ (UNCHANGED counts \/ Fault)
BY DEF Look, ReadBucketName, IsReachable, ListMetadata, ReadBucketMetadataFile, ListBucket,
       VerifyKeys, DecryptFirstName, ReplayBackupJournal, CopyKey, ListAll, WipeDone, StoreError

LEMMA StepKeepsType ==
    ASSUME TypeOK, CallsAtLabels, ConfigLoaded, NEW p \in Procs, Step(p)
    PROVE  TypeOK'
<1> USE HostType, JobFields, ConfigFields DEF Labels
<1>1. CASE Look(p)
  BY <1>1, LookMoves, LookKeepsRest, MoveKeepsType
<1>m. ASSUME NEW l \in Labels, NEW j \in Jobs, l = "idle" => j = NoJob, Moves(p, l, j)
      PROVE  /\ pc' \in [Procs -> Labels] /\ job' \in [Procs -> Jobs]
             /\ \A q \in Procs : pc'[q] = "idle" => job'[q] = NoJob
  BY <1>m, MovesType
<1>g. ASSUME NEW l \in Labels \ {"idle"}, Goto(p, l), UNCHANGED job
      PROVE  /\ pc' \in [Procs -> Labels] /\ job' \in [Procs -> Jobs]
             /\ \A q \in Procs : pc'[q] = "idle" => job'[q] = NoJob
  BY <1>g, <1>m, GotoMoves
<1>r. ASSUME Return(p)
      PROVE  /\ pc' \in [Procs -> Labels] /\ job' \in [Procs -> Jobs]
             /\ \A q \in Procs : pc'[q] = "idle" => job'[q] = NoJob
  BY <1>r, <1>m, ReturnMoves, NoJobType
<1>2. CASE TruncateConfig(p)
  <2>1. file' \in [Machines -> Configs]
    BY <1>2 DEF TruncateConfig, TypeOK, Blank, Configs
  <2> QED BY <1>2, <1>g, <2>1 DEF TruncateConfig, TypeOK, cloud, memory, counts
<1>3. CASE WriteConfig(p)
  <2>1. file' \in [Machines -> Configs]
    BY <1>3 DEF WriteConfig, TypeOK, Configs
  <2> QED BY <1>3, <1>g, <2>1 DEF WriteConfig, TypeOK, cloud, memory, counts
<1>4. CASE LoadConfig(p)
  <2>1. gCfg' \in [Machines -> {None} \cup Configs]
    BY <1>4 DEF LoadConfig, TypeOK
  <2> QED BY <1>4, <1>g, <2>1 DEF LoadConfig, TypeOK, cloud, disk, counts
<1>5. CASE CreateMetadata(p)
  <2>1. [password |-> job[p].password, key |-> fresh + 1] \in Entries /\ fresh' \in Nat
    BY <1>5 DEF CreateMetadata, TypeOK, Entries
  <2>2. metadata' \in [Buckets -> {None} \cup Entries]
    BY <1>5, <2>1 DEF CreateMetadata, WriteBucketMetadataFile, TypeOK
  <2>3. calls' \in Nat /\ faults' \in Nat /\ network' \in {"up", "down"}
    BY <1>5 DEF CreateMetadata, TypeOK, counts, Fault
  <2> QED BY <1>5, <1>g, <1>r, <2>1, <2>2, <2>3
          DEF CreateMetadata, WriteBucketMetadataFile, TypeOK, disk, memory
<1>6. CASE ChangePassword(p)
  <2>1. [password |-> job[p].new, key |-> job[p].key] \in Entries
    BY DEF Entries
  <2>2. metadata' \in [Buckets -> {None} \cup Entries]
    BY <1>6, <2>1 DEF ChangePassword, WriteBucketMetadataFile, Reencrypt, TypeOK
  <2>3. calls' \in Nat /\ faults' \in Nat /\ network' \in {"up", "down"}
    BY <1>6 DEF ChangePassword, TypeOK, counts, Fault
  <2> DEFINE j == [job[p] EXCEPT !.call = "changed", !.password = job[p].new]
  <2>4. j \in Jobs
    BY JobUpdate DEF Calls
  <2>5. Return(p) \/ Moves(p, "list", j)
    BY <1>6 DEF ChangePassword, Goto, Moves, TypeOK
  <2> HIDE DEF j
  <2> QED BY <1>6, <1>m, <1>r, <2>2, <2>3, <2>4, <2>5
          DEF ChangePassword, WriteBucketMetadataFile, TypeOK, disk, memory
<1>7. CASE PublishKeys(p)
  <2>1. gEncKey' \in [Machines -> Nat]
    BY <1>7 DEF PublishKeys, TypeOK
  <2>2. gCfg[Host[p]].bucket \in Buckets \cup {NoBucket}
    BY <1>7 DEF PublishKeys, CallsAtLabels, ConfigLoaded
  <2> DEFINE j == [job[p] EXCEPT !.call = "init", !.bucket = gCfg[Host[p]].bucket]
  <2>4. j \in Jobs
    BY <2>2, JobUpdate DEF Calls
  <2>5. \/ Return(p) \/ Moves(p, "truncate", j)
        \/ \E l \in {"copyKey", "replay"} : Goto(p, l) /\ UNCHANGED job
    BY <1>7 DEF PublishKeys, Goto, Moves, TypeOK
  <2> HIDE DEF j
  <2>6. /\ pc' \in [Procs -> Labels] /\ job' \in [Procs -> Jobs]
        /\ \A q \in Procs : pc'[q] = "idle" => job'[q] = NoJob
    BY <1>m, <1>r, <1>g, <2>4, <2>5
  <2> QED BY <1>7, <2>1, <2>6 DEF PublishKeys, TypeOK, cloud, disk, counts
<1>8. CASE UploadChunk(p) \/ WriteIndexFile(p)
  <2>1. \A kind \in {"chunk", "name"} : [kind |-> kind, key |-> job[p].key] \in Objects
    BY DEF Objects
  <2>2. objects' \in [Buckets -> SUBSET Objects]
    BY <1>8, <2>1 DEF UploadChunk, WriteIndexFile, PutObject, TypeOK
  <2> QED BY <1>8, <1>g, <1>r, <2>2
          DEF UploadChunk, WriteIndexFile, PutObject, TypeOK, disk, memory, counts
<1>9. CASE DeleteObj(p)
  <2> PICK o \in job[p].todo : DeleteObj(p)!2!(o)
    BY <1>9 DEF DeleteObj
  <2>1. Moves(p, "delete", [job[p] EXCEPT !.todo = @ \ {o}])
    BY <1>9 DEF DeleteObj, Moves, TypeOK
  <2>2. [job[p] EXCEPT !.todo = @ \ {o}] \in Jobs
    BY DEF Jobs
  <2>3. metadata' \in [Buckets -> {None} \cup Entries] /\ objects' \in [Buckets -> SUBSET Objects]
    BY <1>9 DEF DeleteObj, TypeOK
  <2>4. calls' \in Nat /\ faults' \in Nat /\ network' \in {"up", "down"}
    BY <1>9 DEF DeleteObj, TypeOK, counts, Fault
  <2>5. /\ pc' \in [Procs -> Labels] /\ job' \in [Procs -> Jobs]
        /\ \A q \in Procs : pc'[q] = "idle" => job'[q] = NoJob
    BY <1>m, <2>1, <2>2
  <2> QED BY <1>9, <2>3, <2>4, <2>5 DEF DeleteObj, TypeOK, disk, memory
<1> QED BY <1>1, <1>2, <1>3, <1>4, <1>5, <1>6, <1>7, <1>8, <1>9 DEF Step, Look

(* The variables keep their types.                                         *)
LEMMA NextKeepsType ==
    ASSUME TypeOK, CallsAtLabels, ConfigLoaded, [Next]_vars
    PROVE  TypeOK'
<1>1. ASSUME NEW m \in Machines, Crash(m) PROVE TypeOK'
  <2>1. /\ gCfg' \in [Machines -> {None} \cup Configs] /\ gEncKey' \in [Machines -> Nat]
        /\ faults' \in Nat
    BY <1>1 DEF Crash, TypeOK, NoKey, Fault
  <2>2. /\ pc' \in [Procs -> Labels] /\ job' \in [Procs -> Jobs]
        /\ \A q \in Procs : pc'[q] = "idle" => job'[q] = NoJob
    BY <1>1, NoJobType DEF Crash, TypeOK, Labels
  <2> QED BY <1>1, <2>1, <2>2 DEF Crash, TypeOK, Fault, cloud, disk
<1>2. NetworkDown \/ NetworkUp => TypeOK'
  BY DEF NetworkDown, NetworkUp, TypeOK, cloud, disk, memory
<1>3. UNCHANGED vars => TypeOK'
  BY DEF vars, cloud, disk, memory, counts, TypeOK
<1> QED BY <1>1, <1>2, <1>3, RequestKeepsType, StepKeepsType DEF Next

(* A call c at label l that CallsAtLabels allows.                          *)
CallFits(c, l) ==
    /\ c = "none" <=> l = "idle"
    /\ c = "wipe" <=> l \in {"listAll", "delete"}
    /\ l \in {"truncate", "write"} => c = "init"
    /\ l \in {"load", "bucket"} => c \in {"hello", "init"}
    /\ l \in {"reach", "publish"} => c \in {"hello", "init", "backup", "change", "changed"}
    /\ l \in {"replay", "copyKey"} => c \in {"hello", "backup"}
    /\ l = "put" => c = "change"

(* Process p goes where its call may go, with a configuration in memory if *)
(* it needs one, and no configuration is forgotten.                        *)
StaysOnTrack(p) ==
    /\ \A q \in Procs \ {p} : pc'[q] = pc[q] /\ job'[q] = job[q]
    /\ CallFits(job'[p].call, pc'[p])
    /\ job'[p].call \in {"hello", "init", "backup", "change", "changed"} /\ pc'[p] # "load"
           => gCfg'[Host[p]] # None
    /\ \A m \in Machines : gCfg[m] # None => gCfg'[m] # None

LEMMA OnTrack ==
    ASSUME CallsAtLabels, ConfigLoaded, NEW p \in Procs, StaysOnTrack(p)
    PROVE  CallsAtLabels' /\ ConfigLoaded'
<1>1. \A q \in Procs : CallFits(job'[q].call, pc'[q])
  BY DEF StaysOnTrack, CallFits, CallsAtLabels, UsesGlobals
<1>2. CallsAtLabels'
  BY <1>1 DEF CallFits, CallsAtLabels, UsesGlobals
<1>3. ConfigLoaded'
  BY HostType DEF StaysOnTrack, ConfigLoaded, UsesGlobals
<1> QED BY <1>2, <1>3

LEMMA ReturnOnTrack ==
    ASSUME TypeOK, NEW p \in Procs, Return(p), UNCHANGED gCfg
    PROVE  StaysOnTrack(p)
BY DEF TypeOK, Return, Goto, NoJob, StaysOnTrack, CallFits

(* A call goes on to another label.                                        *)
LEMMA GoesOnTrack ==
    ASSUME TypeOK, ConfigLoaded, NEW p \in Procs, NEW l, UNCHANGED gCfg,
           pc' = [pc EXCEPT ![p] = l], pc[p] # "load",
           \A q \in Procs \ {p} : job'[q] = job[q], job'[p].call = job[p].call,
           CallFits(job[p].call, l)
    PROVE  StaysOnTrack(p)
BY DEF TypeOK, StaysOnTrack, ConfigLoaded, UsesGlobals

LEMMA StepOnTrack ==
    ASSUME TypeOK, CallsAtLabels, ConfigLoaded, NEW p \in Procs, Step(p)
    PROVE  StaysOnTrack(p)
<1>0. CallFits(job[p].call, pc[p]) /\ job[p].call \in Calls
  BY JobFields DEF CallsAtLabels, CallFits, UsesGlobals
<1>j. job \in [Procs -> Jobs] /\ job[p] \in Jobs
  BY DEF TypeOK
<1>1. ASSUME NEW l, Goto(p, l), UNCHANGED <<job, gCfg>>, pc[p] # "load", CallFits(job[p].call, l)
      PROVE  StaysOnTrack(p)
  BY <1>1, GoesOnTrack DEF Goto
<1>2. CASE TruncateConfig(p) \/ WriteConfig(p) \/ ListMetadata(p)
  BY <1>0, <1>1, <1>2 DEF TruncateConfig, WriteConfig, ListMetadata, CallFits, memory
<1>3. CASE LoadConfig(p)
  <2>1. gCfg'[Host[p]] = file[Host[p]] /\ file[Host[p]] \in Configs
        /\ \A m \in Machines : gCfg[m] # None => gCfg'[m] # None
    BY <1>3, HostType, ConfigAssumption DEF LoadConfig, TypeOK
  <2>2. pc'[p] = "bucket" /\ \A q \in Procs \ {p} : pc'[q] = pc[q]
    BY <1>3 DEF LoadConfig, Goto, TypeOK
  <2> QED BY <1>0, <1>3, <2>1, <2>2, ConfigAssumption DEF LoadConfig, StaysOnTrack, CallFits
<1>4. CASE ReadBucketName(p) \/ IsReachable(p) \/ CopyKey(p) \/ ListAll(p)
  <2>1. PICK l \in {"reach", "list", "upload", "delete"} :
          /\ Goto(p, l) /\ UNCHANGED gCfg /\ pc[p] # "load" /\ CallFits(job[p].call, l)
    BY <1>0, <1>4 DEF ReadBucketName, IsReachable, CopyKey, ListAll, CallFits, memory
  <2>2. job'[p].call = job[p].call /\ \A q \in Procs \ {p} : job'[q] = job[q]
    BY <1>4, <1>j DEF ReadBucketName, IsReachable, CopyKey, ListAll, Jobs
  <2> QED BY <2>1, <2>2, GoesOnTrack DEF Goto
<1>5. CASE ReadBucketMetadataFile(p)
  <2>1. CASE Return(p)
    BY <1>5, <2>1, ReturnOnTrack DEF ReadBucketMetadataFile, memory
  <2>2. CASE ~Return(p)
    <3>1. Goto(p, AfterKeys(job[p].call)) /\ UNCHANGED gCfg /\ pc[p] = "read"
      BY <1>5, <2>2 DEF ReadBucketMetadataFile, memory
    <3>2. job'[p].call = job[p].call /\ \A q \in Procs \ {p} : job'[q] = job[q]
      BY <1>5, <2>2, <1>j DEF ReadBucketMetadataFile, Jobs
    <3>3. CallFits(job[p].call, AfterKeys(job[p].call))
      BY <1>0, <3>1 DEF CallFits, AfterKeys
    <3> QED BY <3>1, <3>2, <3>3, GoesOnTrack DEF Goto
  <2> QED BY <2>1, <2>2
<1>6. CASE ListBucket(p) \/ VerifyKeys(p) \/ CreateMetadata(p)
  <2>1. CASE Return(p)
    BY <1>6, <2>1, ReturnOnTrack DEF ListBucket, VerifyKeys, CreateMetadata, memory
  <2>2. CASE ~Return(p)
    BY <1>0, <1>1, <1>6, <2>2 DEF ListBucket, VerifyKeys, CreateMetadata, CallFits, memory
  <2> QED BY <2>1, <2>2
<1>7. CASE DecryptFirstName(p)
  <2>1. UNCHANGED gCfg /\ pc[p] = "names"
    BY <1>7 DEF DecryptFirstName, memory
  <2>2. \/ Return(p)
        \/ AfterVerify(job[p].call) # "idle" /\ Goto(p, AfterVerify(job[p].call)) /\ UNCHANGED job
    BY <1>7 DEF DecryptFirstName
  <2>3. CallFits(job[p].call, AfterVerify(job[p].call)) \/ AfterVerify(job[p].call) = "idle"
    BY <1>0, <2>1 DEF CallFits, AfterVerify, Calls
  <2> QED BY <1>1, <2>1, <2>2, <2>3, ReturnOnTrack
<1>8. CASE ChangePassword(p)
  <2>1. CASE Return(p)
    BY <1>8, <2>1, ReturnOnTrack DEF ChangePassword, memory
  <2>2. CASE ~Return(p)
    <3>1. /\ job' = [job EXCEPT ![p].call = "changed", ![p].password = job[p].new]
          /\ Goto(p, "list") /\ UNCHANGED gCfg /\ pc[p] = "put"
      BY <1>8, <2>2 DEF ChangePassword, memory
    <3>2. job'[p].call = "changed" /\ \A q \in Procs \ {p} : job'[q] = job[q]
      BY <1>j, <3>1 DEF Jobs
    <3>3. pc'[p] = "list" /\ \A q \in Procs \ {p} : pc'[q] = pc[q]
      BY <3>1 DEF Goto, TypeOK
    <3>4. gCfg'[Host[p]] # None
      BY <1>0, <3>1 DEF CallFits, ConfigLoaded, UsesGlobals
    <3> QED BY <3>1, <3>2, <3>3, <3>4 DEF StaysOnTrack, CallFits
  <2> QED BY <2>1, <2>2
<1>9. CASE PublishKeys(p)
  <2>1. UNCHANGED gCfg /\ pc[p] = "publish" /\ gCfg[Host[p]] # None
    BY <1>0, <1>9 DEF PublishKeys, CallFits, ConfigLoaded, UsesGlobals
  <2>2. CASE Return(p)
    BY <2>1, <2>2, ReturnOnTrack
  <2>3. CASE \/ job[p].call = "backup" /\ Goto(p, "copyKey") /\ UNCHANGED job
             \/ job[p].call = "hello" /\ Goto(p, "replay") /\ UNCHANGED job
    BY <1>1, <2>1, <2>3 DEF CallFits
  <2>4. CASE /\ job' = [job EXCEPT ![p].call = "init", ![p].bucket = gCfg[Host[p]].bucket]
             /\ Goto(p, "truncate")
    <3>1. job'[p].call = "init" /\ \A q \in Procs \ {p} : job'[q] = job[q]
      BY <1>j, <2>4 DEF Jobs
    <3>2. pc'[p] = "truncate" /\ \A q \in Procs \ {p} : pc'[q] = pc[q]
      BY <2>4 DEF Goto, TypeOK
    <3> QED BY <2>1, <3>1, <3>2 DEF StaysOnTrack, CallFits
  <2> QED BY <1>9, <2>2, <2>3, <2>4 DEF PublishKeys
<1>10. CASE ReplayBackupJournal(p)
  <2>1. CASE Return(p)
    BY <1>10, <2>1, ReturnOnTrack DEF ReplayBackupJournal, memory
  <2>2. CASE ~Return(p)
    <3>1. Goto(p, "copyKey") /\ UNCHANGED gCfg /\ pc[p] = "replay"
      BY <1>10, <2>2 DEF ReplayBackupJournal, memory
    <3>2. job'[p].call = job[p].call /\ \A q \in Procs \ {p} : job'[q] = job[q]
      BY <1>10, <2>2, <1>j DEF ReplayBackupJournal, Jobs
    <3> QED BY <1>0, <3>1, <3>2, GoesOnTrack DEF Goto, CallFits
  <2> QED BY <2>1, <2>2
<1>11. CASE UploadChunk(p)
  BY <1>0, <1>1, <1>11 DEF UploadChunk, CallFits, memory
<1>12. CASE WriteIndexFile(p) \/ WipeDone(p) \/ StoreError(p)
  BY <1>12, ReturnOnTrack DEF WriteIndexFile, WipeDone, StoreError, memory
<1>13. CASE DeleteObj(p)
  <2>1. UNCHANGED <<pc, gCfg>> /\ pc[p] = "delete"
    BY <1>13 DEF DeleteObj, memory
  <2>2. job'[p].call = job[p].call /\ \A q \in Procs \ {p} : job'[q] = job[q]
    BY <1>13, <1>j DEF DeleteObj, Jobs
  <2> QED BY <1>0, <2>1, <2>2 DEF StaysOnTrack, ConfigLoaded, UsesGlobals
<1> QED BY <1>2, <1>3, <1>4, <1>5, <1>6, <1>7, <1>8, <1>9, <1>10, <1>11, <1>12, <1>13 DEF Step

LEMMA RequestOnTrack ==
    ASSUME TypeOK, CallsAtLabels, ConfigLoaded, NEW p \in Procs, Request(p)
    PROVE  StaysOnTrack(p)
<1>1. ASSUME NEW j, NEW l, Begin(p, j, l), UNCHANGED memory, CallFits(j.call, l),
             j.call \in {"hello", "init", "backup", "change", "changed"} /\ l # "load"
                 => gCfg[Host[p]] # None
      PROVE  StaysOnTrack(p)
  <2>1. pc'[p] = l /\ job'[p] = j /\ \A q \in Procs \ {p} : pc'[q] = pc[q] /\ job'[q] = job[q]
    BY <1>1 DEF Begin, Goto, TypeOK
  <2> QED BY <1>1, <2>1 DEF StaysOnTrack, memory
<1> USE DEF CallFits, NoJob
<1>2. CASE Hello(p) \/ BackupRPC(p) \/ WipeCloud(p)
  BY <1>1, <1>2 DEF Hello, BackupRPC, WipeCloud
<1>3. ASSUME NEW b, NEW w, CheckBucketPassword(p, b, w) \/ WriteToDaemonConfig(p, b, w)
                               \/ Command(p, b, w)
      PROVE  StaysOnTrack(p)
  BY <1>1, <1>3 DEF CheckBucketPassword, WriteToDaemonConfig, Command
<1>4. ASSUME NEW old, NEW new, NEW update, ChangePasswordRPC(p, old, new, update)
      PROVE  StaysOnTrack(p)
  BY <1>1, <1>4 DEF ChangePasswordRPC
<1> QED BY <1>2, <1>3, <1>4 DEF Request

LEMMA NextOnTrack ==
    ASSUME TypeOK, CallsAtLabels, ConfigLoaded, [Next]_vars
    PROVE  CallsAtLabels' /\ ConfigLoaded'
<1>1. ASSUME NEW m \in Machines, Crash(m) PROVE CallsAtLabels' /\ ConfigLoaded'
  <2>1. \A q \in Procs : \/ pc'[q] = "idle" /\ job'[q] = NoJob
                         \/ Host[q] # m /\ pc'[q] = pc[q] /\ job'[q] = job[q]
    BY <1>1 DEF Crash
  <2>2. \A n \in Machines \ {m} : gCfg'[n] = gCfg[n]
    BY <1>1 DEF Crash, TypeOK
  <2>3. CallsAtLabels'
    BY <2>1 DEF CallsAtLabels, UsesGlobals, NoJob
  <2>4. ConfigLoaded'
    BY <2>1, <2>2, HostType DEF ConfigLoaded, UsesGlobals, NoJob
  <2> QED BY <2>3, <2>4
<1>2. UNCHANGED <<pc, job, gCfg>> => CallsAtLabels' /\ ConfigLoaded'
  BY DEF CallsAtLabels, ConfigLoaded, UsesGlobals
<1>3. NetworkDown \/ NetworkUp \/ UNCHANGED vars => UNCHANGED <<pc, job, gCfg>>
  BY DEF NetworkDown, NetworkUp, vars, memory
<1> QED BY <1>1, <1>2, <1>3, StepOnTrack, RequestOnTrack, OnTrack DEF Next

-----------------------------------------------------------------------------
(* Beginnings of calls *)

(* Which job a request begins with, and where.                             *)
StartsRight(p, j, l) ==
    \/ j.call = "hello" /\ l = "load" /\ j.bucket = file[Host[p]].bucket
    \/ /\ j.call = "backup" /\ l = "reach"
       /\ gCfg[Host[p]] # None /\ j.bucket = gCfg[Host[p]].bucket
    \/ /\ j.call = "change" /\ l = "list"
       /\ gCfg[Host[p]] # None /\ j.bucket = gCfg[Host[p]].bucket
    \/ j.call \in {"check", "command"} /\ l = "list"
    \/ j.call = "init" /\ l = "truncate" /\ gCfg[Host[p]] # None
    \/ j.call = "wipe" /\ l = "listAll"

LEMMA BeginKeepsKeyInv ==
    ASSUME KeyInv, "races" \notin Allowed, NEW p \in Procs, NEW l \in Labels, NEW j \in Jobs,
           NEW alone \in BOOLEAN, MayBegin(p, j.bucket, alone), Begin(p, j, l),
           j.call \in {"wipe", "init"} => alone, StartsRight(p, j, l),
           UNCHANGED <<cloud, disk, memory>>, TypeOK'
    PROVE  KeyInv'
<1>1. /\ pc' = [pc EXCEPT ![p] = l] /\ job' = [job EXCEPT ![p] = j]
      /\ pc[p] = "idle" /\ l # "idle" /\ job[p] = NoJob
      /\ pc \in [Procs -> Labels] /\ job \in [Procs -> Jobs]
      /\ UNCHANGED <<metadata, objects, file, gCfg, gEncKey>>
  BY DEF Begin, Goto, MayBegin, StartsRight, KeyInv, TypeOK, cloud, disk, memory
<1>2. \/ \A q \in Procs : pc[q] = "idle"
      \/ /\ ~alone /\ Settled(j.bucket)
         /\ \A q \in Procs : /\ job[q].call \notin {"wipe", "init"}
                             /\ pc[q] # "idle" => Settled(job[q].bucket)
  BY DEF MayBegin
<1>3. \A q \in Procs : q # p => pc'[q] = pc[q] /\ job'[q] = job[q]
  BY <1>1
<1>4. pc'[p] = l /\ job'[p] = j
  BY <1>1
<1>5. ObjectsReadable'
  BY <1>1 DEF KeyInv, ObjectsReadable
<1>6. CallsAtLabels'
  BY <1>3, <1>4 DEF KeyInv, CallsAtLabels, UsesGlobals, StartsRight
<1>7. ConfigLoaded'
  BY <1>1, <1>3, <1>4 DEF KeyInv, ConfigLoaded, UsesGlobals, StartsRight
<1>8. CreatorsAlone'
  <2>1. \A b : Settled(b)' = Settled(b)
    BY <1>1 DEF Settled
  <2>2. l # "create"
    BY DEF StartsRight
  <2>3. CASE \A q \in Procs : pc[q] = "idle"
    BY <1>1, <1>3, <1>4, <2>2, <2>3 DEF KeyInv, TypeOK, CreatorsAlone, Alone, CallsAtLabels
  <2>4. CASE ~\A q \in Procs : pc[q] = "idle"
    BY <1>1, <1>2, <1>3, <1>4, <2>1, <2>2, <2>4
       DEF KeyInv, CreatorsAlone, IsBucketEmpty
  <2> QED BY <2>3, <2>4
<1>9. LoadsSettled'
  BY <1>1, <1>3, <1>4 DEF KeyInv, LoadsSettled, StartsRight, Settled
<1>10. HeldKeysCurrent'
  BY <1>1, <1>3, <1>4 DEF KeyInv, HeldKeysCurrent, HasKeyOf, Holding, StartsRight
<1>11. OneBucket'
  <2> SUFFICES ASSUME NEW m \in Machines
               PROVE  \E b \in Buckets \cup {NoBucket} : AgreeOn(m, b)'
    BY DEF OneBucket
  <2> PICK b \in Buckets \cup {NoBucket} : AgreeOn(m, b)
    BY DEF KeyInv, OneBucket
  <2>1. \A q \in Procs : \A ls : ~Reconfigures(q, m, ls)
    BY <1>2, <1>1 DEF Reconfigures, KeyInv, TypeOK, CallsAtLabels
  <2>2. CASE j.call = "init"
    <3>1. Alone(p)'
      BY <1>2, <1>3, <2>2 DEF Alone
    <3>2. \A q \in Procs : q # p => job'[q].call = "none"
      BY <1>2, <1>3, <2>2 DEF KeyInv, CallsAtLabels
    <3>3. CASE Host[p] = m
      <4>1. Reconfigures(p, m, {"truncate"})' /\ Reconfigures(p, m, {"truncate", "write", "load"})'
        BY <1>4, <2>2, <3>1, <3>3 DEF Reconfigures, StartsRight
      <4>2. j.bucket \in Buckets \cup {NoBucket}
        BY DEF Jobs
      <4>3. AgreeOn(m, j.bucket)'
        BY <1>4, <3>2, <4>1 DEF AgreeOn, UsesGlobals
      <4> QED BY <4>2, <4>3
    <3>4. CASE Host[p] # m
      <4>1. AgreeOn(m, b)'
        BY <1>1, <1>3, <2>1, <3>4 DEF AgreeOn, UsesGlobals
      <4> QED BY <4>1
    <3> QED BY <3>3, <3>4
  <2>3. CASE j.call # "init"
    <3>1. AgreeOn(m, b)'
      BY <1>1, <1>3, <1>4, <2>1, <2>3 DEF AgreeOn, UsesGlobals, StartsRight
    <3> QED BY <3>1
  <2> QED BY <2>2, <2>3
<1>12. PublishedKeyCurrent'
  BY <1>1, <1>3, <1>4 DEF KeyInv, PublishedKeyCurrent, HasKeyOf, StartsRight
<1> QED BY <1>5, <1>6, <1>7, <1>8, <1>9, <1>10, <1>11, <1>12 DEF KeyInv

LEMMA RequestKeepsKeyInv ==
    ASSUME KeyInv, "races" \notin Allowed, NEW p \in Procs, Request(p)
    PROVE  KeyInv'
<1>t. TypeOK'
  BY RequestKeepsType DEF KeyInv
<1>f. \A c, b, w, n, u :
         /\ [NoJob EXCEPT !.call = c, !.bucket = b].call = c
         /\ [NoJob EXCEPT !.call = c, !.bucket = b].bucket = b
         /\ [NoJob EXCEPT !.call = c, !.bucket = b, !.password = w].call = c
         /\ [NoJob EXCEPT !.call = c, !.bucket = b, !.password = w].bucket = b
         /\ [NoJob EXCEPT !.call = c, !.bucket = b, !.password = w, !.new = n, !.update = u].call = c
         /\ [NoJob EXCEPT !.call = c, !.bucket = b, !.password = w, !.new = n, !.update = u].bucket = b
  BY DEF NoJob
<1> DEFINE Right(j, l) == /\ l \in Labels /\ j \in Jobs /\ Begin(p, j, l) /\ StartsRight(p, j, l)
                          /\ \E alone \in BOOLEAN : /\ MayBegin(p, j.bucket, alone)
                                                    /\ j.call \in {"wipe", "init"} => alone
<1>b. ASSUME NEW j, NEW l, Right(j, l), UNCHANGED <<cloud, disk, memory>> PROVE KeyInv'
  BY <1>b, <1>t, BeginKeepsKeyInv
<1>k. TypeOK
  BY DEF KeyInv
<1>1. CASE Hello(p)
  <2> DEFINE j == [NoJob EXCEPT !.call = "hello", !.bucket = file[Host[p]].bucket]
  <2>1. j \in Jobs
    BY <1>k, HostType, ConfigFields, RequestJob DEF Calls
  <2>2. j.call = "hello" /\ j.bucket = file[Host[p]].bucket
    BY <1>f
  <2> HIDE DEF j
  <2>3. Begin(p, j, "load") /\ MayBegin(p, j.bucket, j.bucket = NoBucket)
        /\ UNCHANGED <<cloud, disk, memory>>
    BY <1>1, <2>2 DEF Hello, j
  <2>4. (j.bucket = NoBucket) \in BOOLEAN
    OBVIOUS
  <2>5. Right(j, "load")
    BY <2>1, <2>2, <2>3, <2>4 DEF StartsRight, Labels
  <2> QED BY <1>b, <2>3, <2>5
<1>2. CASE BackupRPC(p)
  <2> DEFINE j == [NoJob EXCEPT !.call = "backup", !.bucket = gCfg[Host[p]].bucket]
  <2>1. j \in Jobs
    BY <1>2, <1>k, HostType, ConfigFields, RequestJob DEF Calls, BackupRPC
  <2>2. j.call = "backup" /\ j.bucket = gCfg[Host[p]].bucket
    BY <1>f
  <2> HIDE DEF j
  <2>3. /\ Begin(p, j, "reach") /\ MayBegin(p, j.bucket, FALSE) /\ gCfg[Host[p]] # None
        /\ UNCHANGED <<cloud, disk, memory>>
    BY <1>2, <2>2 DEF BackupRPC, j
  <2>4. Right(j, "reach")
    BY <2>1, <2>2, <2>3 DEF StartsRight, Labels
  <2> QED BY <1>b, <2>3, <2>4
<1>3. CASE WipeCloud(p)
  <2> DEFINE j == [NoJob EXCEPT !.call = "wipe", !.bucket = gCfg[Host[p]].bucket]
  <2>1. j \in Jobs
    BY <1>3, <1>k, HostType, ConfigFields, RequestJob DEF Calls, WipeCloud
  <2>2. j.call = "wipe" /\ j.bucket = gCfg[Host[p]].bucket
    BY <1>f
  <2> HIDE DEF j
  <2>3. /\ Begin(p, j, "listAll") /\ MayBegin(p, j.bucket, TRUE)
        /\ UNCHANGED <<cloud, disk, memory>>
    BY <1>3, <2>2 DEF WipeCloud, j
  <2>4. Right(j, "listAll")
    BY <2>1, <2>2, <2>3 DEF StartsRight, Labels
  <2> QED BY <1>b, <2>3, <2>4
<1>4. ASSUME NEW c \in Choices,
             \/ CheckBucketPassword(p, c[1], c[2]) \/ WriteToDaemonConfig(p, c[1], c[2])
             \/ Command(p, c[1], c[2])
      PROVE  KeyInv'
  <2>1. c[1] \in Buckets /\ c[2] \in Passwords
    BY KeyAssumption
  <2> DEFINE j(call) == [NoJob EXCEPT !.call = call, !.bucket = c[1], !.password = c[2]]
  <2>2. \A call \in Calls : j(call) \in Jobs
    BY <2>1, RequestJob
  <2>3. \A call : j(call).call = call /\ j(call).bucket = c[1]
    BY <1>f
  <2> HIDE DEF j
  <2>4. /\ \/ Begin(p, j("check"), "list") /\ MayBegin(p, c[1], FALSE)
           \/ /\ Begin(p, j("init"), "truncate") /\ MayBegin(p, c[1], TRUE)
              /\ gCfg[Host[p]] # None
           \/ Begin(p, j("command"), "list") /\ MayBegin(p, c[1], FALSE)
        /\ UNCHANGED <<cloud, disk, memory>>
    BY <1>4 DEF CheckBucketPassword, WriteToDaemonConfig, Command, j
  <2>5. CASE Begin(p, j("check"), "list") /\ MayBegin(p, c[1], FALSE)
    <3>0. /\ j("check") \in Jobs /\ j("check").call = "check"
          /\ MayBegin(p, j("check").bucket, FALSE)
      BY <2>2, <2>3, <2>5 DEF Calls
    <3>1. StartsRight(p, j("check"), "list") /\ "list" \in Labels
      BY <3>0 DEF StartsRight, Labels
    <3>2. Right(j("check"), "list")
      BY <3>0, <3>1, <2>5
    <3> QED BY <1>b, <2>4, <3>2
  <2>6. CASE /\ Begin(p, j("init"), "truncate") /\ MayBegin(p, c[1], TRUE)
             /\ gCfg[Host[p]] # None
    <3>1. Right(j("init"), "truncate")
      BY <2>2, <2>3, <2>6 DEF StartsRight, Labels, Calls
    <3> QED BY <1>b, <2>4, <3>1
  <2>7. CASE Begin(p, j("command"), "list") /\ MayBegin(p, c[1], FALSE)
    <3>0. /\ j("command") \in Jobs /\ j("command").call = "command"
          /\ MayBegin(p, j("command").bucket, FALSE)
      BY <2>2, <2>3, <2>7 DEF Calls
    <3>1. StartsRight(p, j("command"), "list") /\ "list" \in Labels
      BY <3>0 DEF StartsRight, Labels
    <3>2. Right(j("command"), "list")
      BY <3>0, <3>1, <2>7
    <3> QED BY <1>b, <2>4, <3>2
  <2> QED BY <2>4, <2>5, <2>6, <2>7
<1>5. ASSUME NEW c \in Changes, NEW update \in BOOLEAN,
             ChangePasswordRPC(p, c[1], c[2], update)
      PROVE  KeyInv'
  <2>1. c[1] \in Passwords /\ c[2] \in Passwords
    BY KeyAssumption
  <2> DEFINE j == [NoJob EXCEPT !.call = "change", !.bucket = gCfg[Host[p]].bucket,
                                !.password = c[1], !.new = c[2], !.update = update]
  <2>b. gCfg[Host[p]].bucket \in Buckets \cup {NoBucket} /\ gCfg[Host[p]] # None
    BY <1>5, <1>k, HostType, ConfigFields DEF ChangePasswordRPC
  <2>2. j \in Jobs
    BY <2>1, <2>b, RequestJob, Zenon DEF Calls
  <2>3. j.call = "change" /\ j.bucket = gCfg[Host[p]].bucket
    BY <1>f
  <2> HIDE DEF j
  <2>4. /\ Begin(p, j, "list") /\ MayBegin(p, j.bucket, FALSE)
        /\ UNCHANGED <<cloud, disk, memory>>
    BY <1>5, <2>3 DEF ChangePasswordRPC, j
  <2>5. Right(j, "list")
    BY <2>b, <2>2, <2>3, <2>4 DEF StartsRight, Labels
  <2> QED BY <1>b, <2>4, <2>5
<1> QED BY <1>1, <1>2, <1>3, <1>4, <1>5 DEF Request

-----------------------------------------------------------------------------
(* Steps that only look *)

(* What the invariant asks of the place a call moves on to.                *)
Onward(p, l, j) ==
    /\ l \notin {"idle", "truncate", "write", "load", "bucket", "replay"}
    /\ j.call = job[p].call \/ (job[p].call = "change" /\ j.call = "changed")
    /\ \/ j.bucket = job[p].bucket
       \/ /\ gCfg[Host[p]] # None /\ j.bucket = gCfg[Host[p]].bucket
          /\ Settled(j.bucket) \/ Alone(p)
    /\ j.call = "wipe" <=> l \in {"listAll", "delete"}
    /\ j.call # "none" /\ (l = "put" => j.call = "change")
    /\ l \in {"reach", "publish"} => UsesGlobals(p)
    /\ l = "copyKey" => /\ j.call \in {"hello", "backup"}
                        /\ HasKeyOf(gEncKey[Host[p]], j.bucket)
    /\ l = "create" => IsBucketEmpty(j.bucket)
    /\ l \in Holding => j.bucket \in Buckets
    /\ l \in Holding \cup {"upload", "index"} => HasKeyOf(j.key, j.bucket)

(* The keys of the buckets stay, and so does a bucket without any.         *)
KeysSame ==
    \A b \in Buckets : /\ metadata'[b] = None <=> metadata[b] = None
                       /\ metadata[b] # None => metadata'[b].key = metadata[b].key
                       /\ metadata[b] = None => objects'[b] = objects[b]

LEMMA SameKeysSameFacts ==
    ASSUME KeysSame
    PROVE  /\ \A b : Settled(b)' = Settled(b)
           /\ \A b \in Buckets : IsBucketEmpty(b)' = IsBucketEmpty(b)
           /\ \A b, k : HasKeyOf(k, b)' = HasKeyOf(k, b)
BY DEF KeysSame, Settled, IsBucketEmpty, HasKeyOf

LEMMA MoveKeepsKeyInv ==
    ASSUME KeyInv, TypeOK', NEW p \in Procs, NEW l, NEW j, Moves(p, l, j),
           pc[p] \notin {"idle", "truncate", "write", "load"},
           KeysSame, ObjectsReadable', UNCHANGED <<disk, memory>>,
           (l = "idle" /\ j = NoJob) \/ Onward(p, l, j)
    PROVE  KeyInv'
<1>1. /\ pc' = [pc EXCEPT ![p] = l] /\ job' = [job EXCEPT ![p] = j]
      /\ pc \in [Procs -> Labels] /\ job \in [Procs -> Jobs]
      /\ UNCHANGED <<file, gCfg, gEncKey>>
  BY DEF Moves, KeyInv, TypeOK, disk, memory
<1>2. \A q \in Procs : q # p => pc'[q] = pc[q] /\ job'[q] = job[q]
  BY <1>1
<1>3. pc'[p] = l /\ job'[p] = j
  BY <1>1
<1>4. NoJob.call = "none" /\ NoJob.bucket = NoBucket
  BY DEF NoJob
<1>5. /\ \A b : Settled(b)' = Settled(b)
      /\ \A b \in Buckets : IsBucketEmpty(b)' = IsBucketEmpty(b)
      /\ \A b, k : HasKeyOf(k, b)' = HasKeyOf(k, b)
  BY SameKeysSameFacts
<1>6. CallsAtLabels'
  BY <1>2, <1>3, <1>4 DEF KeyInv, CallsAtLabels, UsesGlobals, Onward
<1>7. ConfigLoaded'
  BY <1>1, <1>2, <1>3, <1>4 DEF KeyInv, ConfigLoaded, UsesGlobals, Onward
<1>8. \A q \in Procs : Alone(q) => Alone(q)'
  BY <1>2, <1>3 DEF Alone
<1>9. CreatorsAlone'
  <2>2. \A q \in Procs : q # p =>
           /\ pc'[q] # "idle" /\ ~Settled(job'[q].bucket) => Alone(q)
           /\ job'[q].call = "wipe" => Alone(q)
           /\ pc'[q] = "create" /\ job'[q].bucket \in Buckets => IsBucketEmpty(job'[q].bucket)
    BY <1>2 DEF KeyInv, CreatorsAlone
  <2>3. /\ pc'[p] # "idle" /\ ~Settled(job'[p].bucket) => Alone(p)
        /\ job'[p].call = "wipe" => Alone(p)
        /\ pc'[p] = "create" => IsBucketEmpty(job'[p].bucket)
    BY <1>3, <1>4 DEF KeyInv, CreatorsAlone, Onward
  <2> QED BY <1>5, <1>8, <2>2, <2>3 DEF CreatorsAlone
<1>10. LoadsSettled'
  BY <1>1, <1>2, <1>3, <1>5 DEF KeyInv, LoadsSettled, Onward
<1>11. HeldKeysCurrent'
  BY <1>1, <1>2, <1>3, <1>5 DEF KeyInv, HeldKeysCurrent, Holding, Onward
<1>12. OneBucket'
  <2> SUFFICES ASSUME NEW m \in Machines
               PROVE  \E b \in Buckets \cup {NoBucket} : AgreeOn(m, b)'
    BY DEF OneBucket
  <2> PICK b \in Buckets \cup {NoBucket} : AgreeOn(m, b)
    BY DEF KeyInv, OneBucket
  <2>1. \A q \in Procs : \A ls : Reconfigures(q, m, ls) /\ q # p => Reconfigures(q, m, ls)'
    BY <1>2, <1>8 DEF Reconfigures
  <2>2. /\ ~Reconfigures(p, m, {"truncate"})
        /\ ~Reconfigures(p, m, {"truncate", "write", "load"})
    BY DEF Reconfigures
  <2>3. \A q \in Procs : \A ls : ~Reconfigures(q, m, ls) \/ q = p
    BY DEF Reconfigures, Alone
  <2>4. \A q \in Procs : Host[q] = m /\ UsesGlobals(q)' => job'[q].bucket \in {b, NoBucket}
    BY <1>2, <1>3, <1>4, <2>2, <2>3 DEF AgreeOn, UsesGlobals, Onward
  <2>5. AgreeOn(m, b)'
    BY <1>1, <2>2, <2>3, <2>4 DEF AgreeOn
  <2> QED BY <2>5
<1>13. PublishedKeyCurrent'
  BY <1>1, <1>2, <1>3, <1>5 DEF KeyInv, PublishedKeyCurrent, Onward
<1> QED BY <1>6, <1>7, <1>9, <1>10, <1>11, <1>12, <1>13 DEF KeyInv

(* A call that uses the globals and works on a bucket finds that bucket,   *)
(* or none, in the configuration.                                          *)
LEMMA SameBucket ==
    ASSUME KeyInv, NEW p \in Procs, UsesGlobals(p), pc[p] \notin {"truncate", "write", "load"},
           job[p].bucket \in Buckets
    PROVE  /\ gCfg[Host[p]] # None /\ gCfg[Host[p]].bucket \in {job[p].bucket, NoBucket}
           /\ \A q \in Procs : Host[q] = Host[p] /\ UsesGlobals(q)
                                  => job[q].bucket \in {job[p].bucket, NoBucket}
<1> PICK b \in Buckets \cup {NoBucket} : AgreeOn(Host[p], b)
  BY HostType DEF KeyInv, OneBucket
<1>1. pc[p] # "idle"
  BY DEF KeyInv, CallsAtLabels, UsesGlobals
<1>2. \A q \in Procs : ~Reconfigures(q, Host[p], {"truncate", "write", "load"})
  BY <1>1 DEF Reconfigures, Alone
<1>3. job[p].bucket = b
  BY KeyAssumption DEF AgreeOn
<1>4. gCfg[Host[p]] # None
  BY DEF KeyInv, ConfigLoaded
<1> QED BY <1>2, <1>3, <1>4 DEF AgreeOn

LEMMA LookKeepsKeyInv ==
    ASSUME KeyInv, NEW p \in Procs, Look(p)
    PROVE  KeyInv'
<1>k. TypeOK /\ CallsAtLabels /\ ConfigLoaded
  BY DEF KeyInv
<1>t. TypeOK'
  BY <1>k, StepKeepsType DEF Step, Look
<1>u. KeysSame /\ ObjectsReadable' /\ UNCHANGED <<disk, memory>>
  BY LookKeepsRest DEF KeysSame, KeyInv, ObjectsReadable, cloud
<1>p. pc[p] \notin {"idle", "truncate", "write", "load"}
  BY DEF Look, ReadBucketName, IsReachable, ListMetadata, ReadBucketMetadataFile, ListBucket,
         VerifyKeys, DecryptFirstName, ReplayBackupJournal, CopyKey, ListAll, WipeDone,
         StoreError, AtStore
<1>r. Return(p) => KeyInv'
  BY <1>t, <1>u, <1>p, ReturnMoves, MoveKeepsKeyInv
<1>o. ASSUME NEW l, NEW j, Moves(p, l, j), Onward(p, l, j) PROVE KeyInv'
  BY <1>o, <1>t, <1>u, <1>p, MoveKeepsKeyInv
<1>g. ASSUME NEW l, Goto(p, l), UNCHANGED job, Onward(p, l, job[p]) PROVE KeyInv'
  BY <1>g, <1>k, <1>o, GotoMoves
<1>n. job[p].call # "none"
  BY <1>k, <1>p DEF CallsAtLabels
<1> USE JobFields, HostType, ConfigFields, <1>k, <1>n
<1>3. CASE ReadBucketName(p)
  <2> DEFINE j == [job[p] EXCEPT !.bucket = gCfg[Host[p]].bucket]
  <2>1. Moves(p, "reach", j)
    BY <1>3 DEF ReadBucketName, Goto, Moves, TypeOK
  <2>2. j.call = job[p].call /\ j.bucket = gCfg[Host[p]].bucket
    BY DEF Jobs
  <2>3. UsesGlobals(p) /\ gCfg[Host[p]] # None
    BY <1>3 DEF ReadBucketName, CallsAtLabels, ConfigLoaded, UsesGlobals
  <2>4. Settled(j.bucket) \/ Alone(p)
    BY <1>3, <2>2 DEF ReadBucketName, KeyInv, LoadsSettled, CreatorsAlone
  <2> HIDE DEF j
  <2>5. Onward(p, "reach", j)
    BY <2>2, <2>3, <2>4 DEF Onward, UsesGlobals, Holding
  <2> QED BY <1>o, <2>1, <2>5
<1>4. CASE IsReachable(p)
  <2> DEFINE j == [job[p] EXCEPT !.password = gCfg[Host[p]].password]
  <2>1. Moves(p, "list", j)
    BY <1>4 DEF IsReachable, Goto, Moves, TypeOK
  <2>2. j.call = job[p].call /\ j.bucket = job[p].bucket
    BY DEF Jobs
  <2>3. job[p].call # "wipe"
    BY <1>4 DEF IsReachable, CallsAtLabels
  <2> HIDE DEF j
  <2>4. Onward(p, "list", j)
    BY <2>2, <2>3 DEF Onward, Holding
  <2> QED BY <1>o, <2>1, <2>4
<1>5. CASE ListMetadata(p)
  <2>1. Onward(p, "read", job[p]) /\ Onward(p, "empty", job[p])
    BY <1>5 DEF ListMetadata, Onward, Holding, CallsAtLabels
  <2> QED BY <1>5, <1>g, <2>1 DEF ListMetadata
<1>6. CASE ReadBucketMetadataFile(p)
  <2> DEFINE j == [job[p] EXCEPT !.key = metadata[job[p].bucket].key]
             l == AfterKeys(job[p].call)
  <2>1. CASE Opens(p) /\ ~Return(p)
    <3>1. Moves(p, l, j)
      BY <1>6, <2>1 DEF ReadBucketMetadataFile, Goto, Moves, TypeOK
    <3>2. j.call = job[p].call /\ j.bucket = job[p].bucket /\ j.key = metadata[job[p].bucket].key
      BY DEF Jobs
    <3>3. l \in {"verify", "publish"} /\ (l = "publish" => UsesGlobals(p))
      BY DEF AfterKeys, UsesGlobals
    <3>4. job[p].bucket \in Buckets /\ metadata[job[p].bucket] # None /\ job[p].call # "wipe"
      BY <1>6, <2>1 DEF ReadBucketMetadataFile, Reaches, Opens, CallsAtLabels
    <3> HIDE DEF j, l
    <3>5. Onward(p, l, j)
      BY <3>2, <3>3, <3>4 DEF Onward, Holding, HasKeyOf
    <3> QED BY <1>o, <3>1, <3>5
  <2> QED BY <1>r, <1>6, <2>1 DEF ReadBucketMetadataFile
<1>7. CASE ListBucket(p)
  <2>1. IsBucketEmpty(job[p].bucket) => Onward(p, "create", job[p])
    BY <1>7 DEF ListBucket, Onward, Holding, CallsAtLabels
  <2> QED BY <1>7, <1>g, <1>r, <2>1 DEF ListBucket
<1>8. CASE VerifyKeys(p)
  <2>1. Onward(p, "names", job[p])
    BY <1>8 DEF VerifyKeys, Onward, Holding, CallsAtLabels, KeyInv, HeldKeysCurrent
  <2> QED BY <1>8, <1>g, <1>r, <2>1 DEF VerifyKeys
<1>9. CASE DecryptFirstName(p)
  <2> DEFINE l == AfterVerify(job[p].call)
  <2>1. \/ Return(p)
        \/ l # "idle" /\ Goto(p, l) /\ UNCHANGED job
    BY <1>9 DEF DecryptFirstName
  <2>2. pc[p] = "names" /\ job[p].call \notin {"none", "wipe"}
    BY <1>9 DEF DecryptFirstName, CallsAtLabels
  <2>3. /\ l \in {"idle", "put", "upload", "publish"}
        /\ l = "publish" => UsesGlobals(p)
        /\ l = "put" => job[p].call = "change"
    BY <2>2 DEF AfterVerify, UsesGlobals, Calls
  <2>4. job[p].bucket \in Buckets /\ HasKeyOf(job[p].key, job[p].bucket)
    BY <2>2 DEF KeyInv, HeldKeysCurrent, Holding
  <2> HIDE DEF l
  <2>5. l # "idle" => Onward(p, l, job[p])
    BY <2>2, <2>3, <2>4 DEF Onward, Holding
  <2> QED BY <1>g, <1>r, <2>1, <2>5
<1>10. CASE ReplayBackupJournal(p)
  <2> DEFINE j == [job[p] EXCEPT !.bucket = gCfg[Host[p]].bucket]
  <2>1. Return(p) \/ Moves(p, "copyKey", j)
    BY <1>10 DEF ReplayBackupJournal, Goto, Moves, TypeOK
  <2>2. j.call = job[p].call /\ j.bucket = gCfg[Host[p]].bucket
    BY DEF Jobs
  <2>3. pc[p] = "replay" /\ UsesGlobals(p) /\ job[p].call \in {"hello", "backup"}
    BY <1>10 DEF ReplayBackupJournal, CallsAtLabels, UsesGlobals
  <2>4. job[p].bucket \in Buckets /\ HasKeyOf(gEncKey[Host[p]], job[p].bucket)
    BY <2>3 DEF KeyInv, HeldKeysCurrent, PublishedKeyCurrent
  <2>5. gCfg[Host[p]] # None /\ gCfg[Host[p]].bucket \in {job[p].bucket, NoBucket}
    BY <2>3, <2>4, SameBucket
  <2> HIDE DEF j
  <2>6. Settled(j.bucket) /\ HasKeyOf(gEncKey[Host[p]], j.bucket)
    BY <2>2, <2>4, <2>5, KeyAssumption DEF Settled, HasKeyOf
  <2>7. Onward(p, "copyKey", j)
    BY <2>2, <2>3, <2>5, <2>6 DEF Onward, Holding
  <2> QED BY <1>o, <1>r, <2>1, <2>7
<1>11. CASE CopyKey(p)
  <2> DEFINE j == [job[p] EXCEPT !.key = gEncKey[Host[p]]]
  <2>1. Moves(p, "upload", j)
    BY <1>11 DEF CopyKey, Goto, Moves, TypeOK
  <2>2. j.call = job[p].call /\ j.bucket = job[p].bucket /\ j.key = gEncKey[Host[p]]
    BY DEF Jobs
  <2>3. job[p].call # "wipe" /\ HasKeyOf(gEncKey[Host[p]], job[p].bucket)
    BY <1>11 DEF CopyKey, CallsAtLabels, KeyInv, PublishedKeyCurrent
  <2> HIDE DEF j
  <2>4. Onward(p, "upload", j)
    BY <2>2, <2>3 DEF Onward, Holding
  <2> QED BY <1>o, <2>1, <2>4
<1>12. CASE ListAll(p)
  <2> DEFINE j == [job[p] EXCEPT !.todo = Contents(job[p].bucket)]
  <2>1. Moves(p, "delete", j)
    BY <1>12 DEF ListAll, Goto, Moves, TypeOK
  <2>2. j.call = job[p].call /\ j.bucket = job[p].bucket
    BY DEF Jobs
  <2>3. job[p].call = "wipe"
    BY <1>12 DEF ListAll, CallsAtLabels
  <2> HIDE DEF j
  <2>4. Onward(p, "delete", j)
    BY <2>2, <2>3 DEF Onward, Holding
  <2> QED BY <1>o, <2>1, <2>4
<1>13. CASE WipeDone(p)
  BY <1>r, <1>13 DEF WipeDone
<1>14. CASE StoreError(p)
  BY <1>r, <1>14 DEF StoreError
<1> QED
  BY <1>3, <1>4, <1>5, <1>6, <1>7, <1>8, <1>9, <1>10, <1>11, <1>12, <1>13, <1>14 DEF Look

-----------------------------------------------------------------------------
(* Steps on the bucket *)

LEMMA PutKeepsKeyInv ==
    ASSUME KeyInv, NEW p \in Procs, UploadChunk(p) \/ WriteIndexFile(p)
    PROVE  KeyInv'
<1>t. TypeOK'
  BY StepKeepsType DEF KeyInv, Step
<1> DEFINE b == job[p].bucket
<1>1. /\ pc[p] \in {"upload", "index"} /\ b \in Buckets
      /\ UNCHANGED <<metadata, disk, memory>>
      /\ \E kind : objects' = [objects EXCEPT ![b] = @ \cup {[kind |-> kind, key |-> job[p].key]}]
  BY DEF UploadChunk, WriteIndexFile, PutObject, Reaches
<1>2. HasKeyOf(job[p].key, b)
  BY <1>1 DEF KeyInv, HeldKeysCurrent
<1>3. KeysSame
  BY <1>1, <1>2 DEF KeysSame, HasKeyOf, KeyInv, TypeOK
<1>4. ObjectsReadable'
  <2> PICK kind : objects' = [objects EXCEPT ![b] = @ \cup {[kind |-> kind, key |-> job[p].key]}]
    BY <1>1
  <2> QED BY <1>1, <1>2 DEF ObjectsReadable, KeyInv, TypeOK, HasKeyOf
<1>5. UploadChunk(p) => Onward(p, "index", job[p])
  BY <1>1, <1>2 DEF UploadChunk, Onward, Holding, KeyInv, CallsAtLabels
<1>6. \/ Moves(p, "idle", NoJob)
      \/ UploadChunk(p) /\ Moves(p, "index", job[p])
  BY ReturnMoves, GotoMoves DEF UploadChunk, WriteIndexFile, KeyInv
<1> QED BY <1>t, <1>1, <1>3, <1>4, <1>5, <1>6, MoveKeepsKeyInv

LEMMA ChangeKeepsKeyInv ==
    ASSUME KeyInv, NEW p \in Procs, ChangePassword(p)
    PROVE  KeyInv'
<1>t. TypeOK'
  BY StepKeepsType DEF KeyInv, Step
<1> DEFINE b == job[p].bucket
           e == [password |-> job[p].new, key |-> job[p].key]
           j == [job[p] EXCEPT !.call = "changed", !.password = job[p].new]
<1>1. /\ pc[p] = "put" /\ b \in Buckets
      /\ UNCHANGED <<objects, disk, memory>>
      /\ metadata' = [metadata EXCEPT ![b] = e]
  BY DEF ChangePassword, WriteBucketMetadataFile, Reencrypt, Reaches
<1>2. HasKeyOf(job[p].key, b)
  BY <1>1 DEF KeyInv, HeldKeysCurrent, Holding
<1>3. e # None /\ e.key = job[p].key
  BY ConfigAssumption, JobFields DEF Entries, KeyInv
<1> HIDE DEF e
<1>4. KeysSame
  BY <1>1, <1>2, <1>3 DEF KeysSame, HasKeyOf, KeyInv, TypeOK
<1>5. ObjectsReadable'
  BY <1>1, <1>2, <1>3 DEF ObjectsReadable, KeyInv, TypeOK, HasKeyOf
<1>6. \/ Moves(p, "idle", NoJob) \/ Moves(p, "list", j)
  BY ReturnMoves DEF ChangePassword, Moves, Goto, KeyInv, TypeOK
<1>7. j.call = "changed" /\ j.bucket = job[p].bucket
  BY JobFields DEF KeyInv, Jobs
<1>8. job[p].call = "change"
  BY <1>1 DEF KeyInv, CallsAtLabels
<1> HIDE DEF j
<1>9. Onward(p, "list", j)
  BY <1>7, <1>8 DEF Onward, Holding
<1> QED BY <1>t, <1>1, <1>4, <1>5, <1>6, <1>9, MoveKeepsKeyInv

(* While one process works, all others idle: what is left to show.         *)
LEMMA AloneKeepsKeyInv ==
    ASSUME KeyInv, TypeOK', ObjectsReadable', NEW p \in Procs, NEW l, NEW j, Moves(p, l, j),
           Alone(p), pc[p] \notin {"idle", "truncate", "write", "load"},
           UNCHANGED <<disk, memory>>,
           \/ l = "idle" /\ j = NoJob
           \/ /\ l \in {"read", "delete"} /\ j.call = job[p].call /\ j.bucket = job[p].bucket
              /\ j.call = "wipe" <=> l = "delete"
              /\ j.call # "none"
    PROVE  KeyInv'
<1>1. /\ pc' = [pc EXCEPT ![p] = l] /\ job' = [job EXCEPT ![p] = j]
      /\ pc \in [Procs -> Labels] /\ job \in [Procs -> Jobs]
      /\ UNCHANGED <<file, gCfg, gEncKey>>
  BY DEF Moves, KeyInv, TypeOK, disk, memory
<1>2. \A q \in Procs : q # p => pc'[q] = "idle" /\ job'[q] = NoJob
  BY <1>1 DEF KeyInv, TypeOK, Alone
<1>3. pc'[p] = l /\ job'[p] = j
  BY <1>1
<1>4. NoJob.call = "none" /\ NoJob.bucket = NoBucket
  BY DEF NoJob
<1>5. Alone(p)'
  BY <1>2 DEF Alone
<1>6. CallsAtLabels'
  BY <1>2, <1>3, <1>4 DEF CallsAtLabels, UsesGlobals
<1>7. ConfigLoaded'
  BY <1>1, <1>2, <1>3, <1>4 DEF KeyInv, ConfigLoaded, UsesGlobals
<1>8. CreatorsAlone'
  BY <1>2, <1>3, <1>4, <1>5 DEF CreatorsAlone
<1>9. LoadsSettled'
  BY <1>2, <1>3 DEF LoadsSettled
<1>10. HeldKeysCurrent'
  BY <1>2, <1>3 DEF HeldKeysCurrent, Holding
<1>11. OneBucket'
  <2> SUFFICES ASSUME NEW m \in Machines
               PROVE  \E b \in Buckets \cup {NoBucket} : AgreeOn(m, b)'
    BY DEF OneBucket
  <2> PICK b \in Buckets \cup {NoBucket} : AgreeOn(m, b)
    BY DEF KeyInv, OneBucket
  <2>1. \A q \in Procs : /\ ~Reconfigures(q, m, {"truncate"})
                         /\ ~Reconfigures(q, m, {"truncate", "write", "load"})
    BY DEF Reconfigures, Alone
  <2>2. \A q \in Procs : Host[q] = m /\ UsesGlobals(q)' => job'[q].bucket \in {b, NoBucket}
    BY <1>2, <1>3, <1>4 DEF AgreeOn, UsesGlobals
  <2>3. AgreeOn(m, b)'
    BY <1>1, <2>1, <2>2 DEF AgreeOn
  <2> QED BY <2>3
<1>12. PublishedKeyCurrent'
  BY <1>2, <1>3 DEF PublishedKeyCurrent
<1> QED BY <1>6, <1>7, <1>8, <1>9, <1>10, <1>11, <1>12 DEF KeyInv

LEMMA CreateKeepsKeyInv ==
    ASSUME KeyInv, NEW p \in Procs, CreateMetadata(p)
    PROVE  KeyInv'
<1>t. TypeOK'
  BY StepKeepsType DEF KeyInv, Step
<1> DEFINE b == job[p].bucket
<1>1. /\ pc[p] = "create" /\ b \in Buckets
      /\ UNCHANGED <<objects, disk, memory>>
      /\ \E e : metadata' = [metadata EXCEPT ![b] = e]
  BY DEF CreateMetadata, WriteBucketMetadataFile, Reaches
<1>2. IsBucketEmpty(b)
  BY <1>1 DEF KeyInv, CreatorsAlone
<1>3. Alone(p)
  BY <1>1, <1>2 DEF KeyInv, CreatorsAlone, Settled, IsBucketEmpty
<1>4. ObjectsReadable'
  BY <1>1, <1>2 DEF KeyInv, TypeOK, ObjectsReadable, IsBucketEmpty
<1>5. Moves(p, "idle", NoJob) \/ Moves(p, "read", job[p])
  BY ReturnMoves, GotoMoves DEF CreateMetadata, KeyInv
<1>6. job[p].call \notin {"wipe", "none"}
  BY <1>1 DEF KeyInv, CallsAtLabels
<1> QED BY <1>t, <1>1, <1>3, <1>4, <1>5, <1>6, AloneKeepsKeyInv

LEMMA DeleteKeepsKeyInv ==
    ASSUME KeyInv, NEW p \in Procs, DeleteObj(p)
    PROVE  KeyInv'
<1>t. TypeOK'
  BY StepKeepsType DEF KeyInv, Step
<1> PICK o \in job[p].todo : DeleteObj(p)!2!(o)
  BY DEF DeleteObj
<1> DEFINE j == [job[p] EXCEPT !.todo = @ \ {o}]
<1>1. pc[p] = "delete" /\ job[p].call = "wipe" /\ Alone(p)
  BY DEF DeleteObj, KeyInv, CallsAtLabels, CreatorsAlone
<1>2. Moves(p, "delete", j) /\ UNCHANGED <<disk, memory>>
  BY <1>1 DEF DeleteObj, Moves, KeyInv, TypeOK
<1>3. j.call = job[p].call /\ j.bucket = job[p].bucket
  BY JobFields DEF KeyInv, Jobs
<1>4. ObjectsReadable'
  BY DEF KeyInv, TypeOK, ObjectsReadable
<1> HIDE DEF j
<1> QED BY <1>t, <1>1, <1>2, <1>3, <1>4, AloneKeepsKeyInv

-----------------------------------------------------------------------------
(* Steps on the configuration and the globals *)

LEMMA TruncateKeepsKeyInv ==
    ASSUME KeyInv, NEW p \in Procs, TruncateConfig(p)
    PROVE  KeyInv'
<1>t. TypeOK'
  BY StepKeepsType DEF KeyInv, Step
<1>1. /\ pc[p] = "truncate" /\ pc' = [pc EXCEPT ![p] = "write"]
      /\ UNCHANGED <<job, metadata, objects, gCfg, gEncKey>>
      /\ pc \in [Procs -> Labels] /\ job[p].call = "init"
  BY DEF TruncateConfig, Goto, KeyInv, TypeOK, CallsAtLabels, cloud, memory
<1>2. \A m \in Machines : file'[m] = file[m] \/ file'[m].bucket = NoBucket
  BY DEF TruncateConfig, KeyInv, TypeOK, Blank
<1>3. \A q \in Procs : /\ q # p => pc'[q] = pc[q]
                       /\ Alone(q)' = Alone(q)
  BY <1>1 DEF Alone
<1>4. pc'[p] = "write"
  BY <1>1
<1>5. ObjectsReadable'
  BY <1>1 DEF KeyInv, ObjectsReadable
<1>6. CallsAtLabels' /\ ConfigLoaded'
  BY <1>1, <1>3, <1>4 DEF KeyInv, CallsAtLabels, ConfigLoaded, UsesGlobals
<1>7. CreatorsAlone'
  BY <1>1, <1>3, <1>4 DEF KeyInv, CreatorsAlone, Settled, IsBucketEmpty
<1>8. LoadsSettled'
  <2>1. \A b : Settled(b)' = Settled(b)
    BY <1>1 DEF Settled
  <2>2. Settled(NoBucket)
    BY KeyAssumption DEF Settled
  <2> QED BY <1>1, <1>2, <1>3, <1>4, <2>1, <2>2, HostType DEF KeyInv, LoadsSettled
<1>9. HeldKeysCurrent' /\ PublishedKeyCurrent'
  BY <1>1, <1>3, <1>4 DEF KeyInv, HeldKeysCurrent, PublishedKeyCurrent, HasKeyOf, Holding
<1>10. OneBucket'
  <2> SUFFICES ASSUME NEW m \in Machines
               PROVE  \E b \in Buckets \cup {NoBucket} : AgreeOn(m, b)'
    BY DEF OneBucket
  <2> PICK b \in Buckets \cup {NoBucket} : AgreeOn(m, b)
    BY DEF KeyInv, OneBucket
  <2>1. \A q \in Procs : Reconfigures(q, m, {"truncate"}) => q = p
    BY <1>1 DEF Reconfigures, Alone
  <2>2. Host[p] = m => file'[m].bucket = NoBucket
    BY DEF TruncateConfig, KeyInv, TypeOK, Blank
  <2>3. file'[m].bucket \in {b, NoBucket}
    BY <1>2, <2>1, <2>2 DEF AgreeOn, Reconfigures
  <2>4. \A q \in Procs : Reconfigures(q, m, {"truncate", "write", "load"})
                            => Reconfigures(q, m, {"truncate", "write", "load"})'
    BY <1>1, <1>3, <1>4 DEF Reconfigures
  <2>5. AgreeOn(m, b)'
    BY <1>1, <2>3, <2>4 DEF AgreeOn, UsesGlobals
  <2> QED BY <2>5
<1> QED BY <1>t, <1>5, <1>6, <1>7, <1>8, <1>9, <1>10 DEF KeyInv

LEMMA WriteConfigKeepsKeyInv ==
    ASSUME KeyInv, NEW p \in Procs, WriteConfig(p)
    PROVE  KeyInv'
<1>t. TypeOK'
  BY StepKeepsType DEF KeyInv, Step
<1>1. /\ pc[p] = "write" /\ pc' = [pc EXCEPT ![p] = "load"]
      /\ UNCHANGED <<job, metadata, objects, gCfg, gEncKey>>
      /\ pc \in [Procs -> Labels] /\ job[p].call = "init"
  BY DEF WriteConfig, Goto, KeyInv, TypeOK, CallsAtLabels, cloud, memory
<1>2. \A m \in Machines : file'[m].bucket = IF m = Host[p] THEN job[p].bucket ELSE file[m].bucket
  BY DEF WriteConfig, KeyInv, TypeOK
<1>3. \A q \in Procs : /\ q # p => pc'[q] = pc[q]
                       /\ Alone(q)' = Alone(q)
  BY <1>1 DEF Alone
<1>4. pc'[p] = "load"
  BY <1>1
<1>5. ObjectsReadable'
  BY <1>1 DEF KeyInv, ObjectsReadable
<1>6. CallsAtLabels' /\ ConfigLoaded'
  BY <1>1, <1>3, <1>4 DEF KeyInv, CallsAtLabels, ConfigLoaded, UsesGlobals
<1>7. CreatorsAlone'
  BY <1>1, <1>3, <1>4 DEF KeyInv, CreatorsAlone, Settled, IsBucketEmpty
<1>8. LoadsSettled'
  <2>1. \A b : Settled(b)' = Settled(b)
    BY <1>1 DEF Settled
  <2>2. ASSUME NEW q \in Procs, q # p, pc[q] # "idle" PROVE Settled(job[p].bucket)
    BY <1>1, <2>2 DEF KeyInv, CreatorsAlone, Alone
  <2> QED BY <1>1, <1>2, <1>3, <1>4, <2>1, <2>2, HostType DEF KeyInv, LoadsSettled
<1>9. HeldKeysCurrent' /\ PublishedKeyCurrent'
  BY <1>1, <1>3, <1>4 DEF KeyInv, HeldKeysCurrent, PublishedKeyCurrent, HasKeyOf, Holding
<1>10. OneBucket'
  <2> SUFFICES ASSUME NEW m \in Machines
               PROVE  \E b \in Buckets \cup {NoBucket} : AgreeOn(m, b)'
    BY DEF OneBucket
  <2> PICK b \in Buckets \cup {NoBucket} : AgreeOn(m, b)
    BY DEF KeyInv, OneBucket
  <2>1. \A q \in Procs : ~Reconfigures(q, m, {"truncate"})
    BY <1>1 DEF Reconfigures, Alone
  <2>2. file'[m].bucket \in {b, NoBucket}
    BY <1>1, <1>2, <2>1 DEF AgreeOn, UsesGlobals
  <2>3. \A q \in Procs : Reconfigures(q, m, {"truncate", "write", "load"})
                            => Reconfigures(q, m, {"truncate", "write", "load"})'
    BY <1>1, <1>3, <1>4 DEF Reconfigures
  <2>4. AgreeOn(m, b)'
    BY <1>1, <2>2, <2>3 DEF AgreeOn, UsesGlobals
  <2> QED BY <2>4
<1> QED BY <1>t, <1>5, <1>6, <1>7, <1>8, <1>9, <1>10 DEF KeyInv

LEMMA LoadConfigKeepsKeyInv ==
    ASSUME KeyInv, NEW p \in Procs, LoadConfig(p)
    PROVE  KeyInv'
<1>t. TypeOK'
  BY StepKeepsType DEF KeyInv, Step
<1>1. /\ pc[p] = "load" /\ pc' = [pc EXCEPT ![p] = "bucket"]
      /\ UNCHANGED <<job, metadata, objects, file, gEncKey>>
      /\ pc \in [Procs -> Labels] /\ job[p].call \in {"hello", "init"}
  BY DEF LoadConfig, Goto, KeyInv, TypeOK, CallsAtLabels, cloud, disk
<1>2. \A m \in Machines : gCfg'[m] = IF m = Host[p] THEN file[m] ELSE gCfg[m]
  BY DEF LoadConfig, KeyInv, TypeOK
<1>n. \A m \in Machines : file[m] # None
  BY ConfigAssumption DEF KeyInv, TypeOK
<1>3. \A q \in Procs : /\ q # p => pc'[q] = pc[q]
                       /\ Alone(q)' = Alone(q)
  BY <1>1 DEF Alone
<1>4. pc'[p] = "bucket"
  BY <1>1
<1>5. ObjectsReadable'
  BY <1>1 DEF KeyInv, ObjectsReadable
<1>6. CallsAtLabels' /\ ConfigLoaded'
  BY <1>1, <1>2, <1>n, <1>3, <1>4, HostType
     DEF KeyInv, CallsAtLabels, ConfigLoaded, UsesGlobals
<1>7. CreatorsAlone'
  BY <1>1, <1>3, <1>4 DEF KeyInv, CreatorsAlone, Settled, IsBucketEmpty
<1>8. LoadsSettled'
  <2>1. \A b : Settled(b)' = Settled(b)
    BY <1>1 DEF Settled
  <2>2. ASSUME NEW q \in Procs, q # p, pc[q] # "idle" PROVE Settled(file[Host[p]].bucket)
    BY <1>1, <2>2 DEF KeyInv, CreatorsAlone, LoadsSettled, Alone
  <2> QED BY <1>1, <1>2, <1>3, <1>4, <2>1, <2>2, HostType DEF KeyInv, LoadsSettled
<1>9. HeldKeysCurrent' /\ PublishedKeyCurrent'
  BY <1>1, <1>3, <1>4 DEF KeyInv, HeldKeysCurrent, PublishedKeyCurrent, HasKeyOf, Holding
<1>10. OneBucket'
  <2> SUFFICES ASSUME NEW m \in Machines
               PROVE  \E b \in Buckets \cup {NoBucket} : AgreeOn(m, b)'
    BY DEF OneBucket
  <2> PICK b \in Buckets \cup {NoBucket} : AgreeOn(m, b)
    BY DEF KeyInv, OneBucket
  <2>1. \A q \in Procs : /\ ~Reconfigures(q, m, {"truncate"})
                         /\ Reconfigures(q, m, {"truncate", "write", "load"}) => q = p
    BY <1>1 DEF Reconfigures, Alone
  <2>2. file[m].bucket \in {b, NoBucket}
    BY <2>1 DEF AgreeOn
  <2>3. gCfg'[m] # None => gCfg'[m].bucket \in {b, NoBucket}
    BY <1>2, <2>1, <2>2 DEF AgreeOn, Reconfigures
  <2>4. AgreeOn(m, b)'
    BY <1>1, <2>2, <2>3 DEF AgreeOn, UsesGlobals
  <2> QED BY <2>4
<1> QED BY <1>t, <1>5, <1>6, <1>7, <1>8, <1>9, <1>10 DEF KeyInv

LEMMA PublishKeepsKeyInv ==
    ASSUME KeyInv, NEW p \in Procs, PublishKeys(p)
    PROVE  KeyInv'
<1>t. TypeOK'
  BY StepKeepsType DEF KeyInv, Step
<1>1. /\ pc[p] = "publish" /\ pc \in [Procs -> Labels] /\ job \in [Procs -> Jobs]
      /\ UNCHANGED <<metadata, objects, file, gCfg>>
  BY DEF PublishKeys, KeyInv, TypeOK, cloud, disk
<1>2. \A m \in Machines : gEncKey'[m] = IF m = Host[p] THEN job[p].key ELSE gEncKey[m]
  BY DEF PublishKeys, KeyInv, TypeOK
<1>3. /\ job[p].bucket \in Buckets /\ HasKeyOf(job[p].key, job[p].bucket) /\ UsesGlobals(p)
  BY <1>1 DEF KeyInv, HeldKeysCurrent, CallsAtLabels, Holding
<1>4. /\ gCfg[Host[p]] # None /\ gCfg[Host[p]].bucket \in {job[p].bucket, NoBucket}
      /\ \A q \in Procs : Host[q] = Host[p] /\ UsesGlobals(q)
                             => job[q].bucket \in {job[p].bucket, NoBucket}
  BY <1>1, <1>3, SameBucket
<1>5. PICK l, j :
         /\ pc' = [pc EXCEPT ![p] = l] /\ job' = [job EXCEPT ![p] = j]
         /\ \/ l = "idle" /\ j = NoJob
            \/ l \in {"copyKey", "replay"} /\ j = job[p] /\ job[p].call \in {"hello", "backup"}
            \/ /\ l = "truncate" /\ j.call = "init" /\ j.bucket = gCfg[Host[p]].bucket
  <2> DEFINE i == [job[p] EXCEPT !.call = "init", !.bucket = gCfg[Host[p]].bucket]
  <2>1. i.call = "init" /\ i.bucket = gCfg[Host[p]].bucket
    BY JobFields DEF KeyInv, Jobs
  <2>2. \/ Moves(p, "idle", NoJob)
        \/ job[p].call = "backup" /\ Moves(p, "copyKey", job[p])
        \/ job[p].call = "hello" /\ Moves(p, "replay", job[p])
        \/ Moves(p, "truncate", i)
    BY <1>1, ReturnMoves DEF PublishKeys, Goto, Moves, KeyInv
  <2> HIDE DEF i
  <2> QED BY <2>1, <2>2 DEF Moves
<1>6. \A q \in Procs : q # p => pc'[q] = pc[q] /\ job'[q] = job[q]
  BY <1>1, <1>5
<1>7. pc'[p] = l /\ job'[p] = j
  BY <1>1, <1>5
<1>8. NoJob.call = "none" /\ NoJob.bucket = NoBucket
  BY DEF NoJob
<1>9. \A b : Settled(b)' = Settled(b) /\ IsBucketEmpty(b)' = IsBucketEmpty(b)
             /\ \A k : HasKeyOf(k, b)' = HasKeyOf(k, b)
  BY <1>1 DEF Settled, IsBucketEmpty, HasKeyOf
<1>10. \A q \in Procs : Alone(q) => Alone(q)'
  BY <1>1, <1>6, <1>7 DEF Alone
<1>11. Settled(job[p].bucket) /\ Settled(NoBucket)
  BY <1>3, KeyAssumption DEF Settled, HasKeyOf
<1>12. ObjectsReadable'
  BY <1>1 DEF KeyInv, ObjectsReadable
<1>13. CallsAtLabels'
  BY <1>5, <1>6, <1>7, <1>8 DEF KeyInv, CallsAtLabels, UsesGlobals
<1>14. ConfigLoaded'
  BY <1>1, <1>4, <1>6, <1>7 DEF KeyInv, ConfigLoaded, UsesGlobals
<1>15. CreatorsAlone'
  <2>1. \A q \in Procs : q # p =>
           /\ pc'[q] # "idle" /\ ~Settled(job'[q].bucket) => Alone(q)
           /\ job'[q].call = "wipe" => Alone(q)
           /\ pc'[q] = "create" /\ job'[q].bucket \in Buckets => IsBucketEmpty(job'[q].bucket)
    BY <1>6 DEF KeyInv, CreatorsAlone
  <2>2. Settled(job'[p].bucket) /\ job'[p].call # "wipe" /\ pc'[p] # "create"
    BY <1>4, <1>5, <1>7, <1>8, <1>11
  <2> QED BY <1>9, <1>10, <2>1, <2>2 DEF CreatorsAlone
<1>16. LoadsSettled'
  BY <1>1, <1>5, <1>6, <1>7, <1>9 DEF KeyInv, LoadsSettled
<1>17. HeldKeysCurrent'
  BY <1>3, <1>5, <1>6, <1>7, <1>9 DEF KeyInv, HeldKeysCurrent, Holding
<1>18. OneBucket'
  <2> SUFFICES ASSUME NEW m \in Machines
               PROVE  \E b \in Buckets \cup {NoBucket} : AgreeOn(m, b)'
    BY DEF OneBucket
  <2> PICK b \in Buckets \cup {NoBucket} : AgreeOn(m, b)
    BY DEF KeyInv, OneBucket
  <2>1. \A q \in Procs : /\ ~Reconfigures(q, m, {"truncate"})
                         /\ ~Reconfigures(q, m, {"truncate", "write", "load"})
    BY <1>1 DEF Reconfigures, Alone
  <2>2. \A q \in Procs : Host[q] = m /\ UsesGlobals(q)' => job'[q].bucket \in {b, NoBucket}
    BY <1>3, <1>4, <1>5, <1>6, <1>7, <1>8 DEF AgreeOn, UsesGlobals
  <2>3. AgreeOn(m, b)'
    BY <1>1, <2>1, <2>2 DEF AgreeOn
  <2> QED BY <2>3
<1>19. PublishedKeyCurrent'
  <2> SUFFICES ASSUME NEW q \in Procs, pc'[q] \in {"copyKey", "replay"}
               PROVE  HasKeyOf(gEncKey'[Host[q]], job'[q].bucket)
    BY <1>9 DEF PublishedKeyCurrent
  <2>1. CASE q = p
    BY <1>2, <1>3, <1>5, <1>7, <2>1, HostType
  <2>2. CASE q # p /\ Host[q] = Host[p]
    <3>1. UsesGlobals(q)
      BY <1>6, <2>2 DEF KeyInv, CallsAtLabels, UsesGlobals
    <3>2. job[q].bucket \in {job[p].bucket, NoBucket}
      BY <1>4, <2>2, <3>1
    <3> QED BY <1>2, <1>3, <1>6, <2>2, <3>2, HostType, KeyAssumption DEF HasKeyOf
  <2>3. CASE q # p /\ Host[q] # Host[p]
    BY <1>2, <1>6, <2>3, HostType DEF KeyInv, PublishedKeyCurrent
  <2> QED BY <2>1, <2>2, <2>3
<1> QED BY <1>t, <1>12, <1>13, <1>14, <1>15, <1>16, <1>17, <1>18, <1>19 DEF KeyInv

LEMMA CrashKeepsKeyInv ==
    ASSUME KeyInv, NEW n \in Machines, Crash(n)
    PROVE  KeyInv'
<1>t. TypeOK'
  BY NextKeepsType DEF KeyInv, Next
<1>1. /\ UNCHANGED <<metadata, objects, file>>
      /\ \A m \in Machines : /\ m = n => gCfg'[m] = None
                             /\ m # n => gCfg'[m] = gCfg[m] /\ gEncKey'[m] = gEncKey[m]
      /\ \A q \in Procs : \/ Host[q] = n /\ pc'[q] = "idle" /\ job'[q] = NoJob
                          \/ Host[q] # n /\ pc'[q] = pc[q] /\ job'[q] = job[q]
  BY DEF Crash, KeyInv, TypeOK, cloud, disk
<1>2. NoJob.call = "none" /\ NoJob.bucket = NoBucket
  BY DEF NoJob
<1>3. \A q \in Procs : Alone(q) => Alone(q)'
  BY <1>1 DEF Alone
<1>4. \A b : Settled(b)' = Settled(b) /\ IsBucketEmpty(b)' = IsBucketEmpty(b)
             /\ \A k : HasKeyOf(k, b)' = HasKeyOf(k, b)
  BY <1>1 DEF Settled, IsBucketEmpty, HasKeyOf
<1>5. ObjectsReadable'
  BY <1>1 DEF KeyInv, ObjectsReadable
<1>6. CallsAtLabels' /\ ConfigLoaded'
  BY <1>1, <1>2, HostType DEF KeyInv, CallsAtLabels, ConfigLoaded, UsesGlobals
<1>7. CreatorsAlone'
  BY <1>1, <1>2, <1>3, <1>4 DEF KeyInv, CreatorsAlone
<1>8. LoadsSettled'
  BY <1>1, <1>4, HostType DEF KeyInv, LoadsSettled
<1>9. HeldKeysCurrent' /\ PublishedKeyCurrent'
  BY <1>1, <1>4, HostType DEF KeyInv, HeldKeysCurrent, PublishedKeyCurrent, Holding
<1>10. OneBucket'
  <2> SUFFICES ASSUME NEW m \in Machines
               PROVE  \E b \in Buckets \cup {NoBucket} : AgreeOn(m, b)'
    BY DEF OneBucket
  <2>1. CASE m = n
    <3> PICK b \in Buckets \cup {NoBucket} : b = file[m].bucket
      BY ConfigFields DEF KeyInv
    <3>1. AgreeOn(m, b)'
      BY <1>1, <1>2, <2>1 DEF AgreeOn, UsesGlobals
    <3> QED BY <3>1
  <2>2. CASE m # n
    <3> PICK b \in Buckets \cup {NoBucket} : AgreeOn(m, b)
      BY DEF KeyInv, OneBucket
    <3>1. \A q \in Procs : \A ls : Reconfigures(q, m, ls) => Reconfigures(q, m, ls)'
      BY <1>1, <1>3, <2>2 DEF Reconfigures
    <3>2. AgreeOn(m, b)'
      BY <1>1, <2>2, <3>1 DEF AgreeOn, UsesGlobals
    <3> QED BY <3>2
  <2> QED BY <2>1, <2>2
<1> QED BY <1>t, <1>5, <1>6, <1>7, <1>8, <1>9, <1>10 DEF KeyInv

-----------------------------------------------------------------------------
(* The invariant *)

LEMMA InitKeyInv == Init => KeyInv
<1> SUFFICES ASSUME Init PROVE KeyInv
  OBVIOUS
<1>1. Cardinality(Buckets) \in Nat
  BY ConfigAssumption, FS_CardinalityType
<1>2. \A b \in Buckets : metadata[b] # None => metadata[b] \in Entries /\ metadata[b].key \in Nat
  BY ConfigAssumption DEF Init, Entries
<1>3. \A m \in Machines : gCfg[m] \in {None, file[m]} /\ gEncKey[m] \in Nat
  BY <1>2 DEF Init, CanRead, NoKey
<1>4. NoJob.call = "none"
  BY DEF NoJob
<1>5. \A p \in Procs : pc[p] = "idle" /\ job[p] = NoJob
  BY DEF Init
<1>6. TypeOK
  <2>1. gCfg \in [Machines -> {None} \cup Configs] /\ gEncKey \in [Machines -> Nat]
    <3>1. DOMAIN gCfg = Machines /\ DOMAIN gEncKey = Machines
      BY DEF Init
    <3>2. gCfg = [m \in Machines |-> gCfg[m]] /\ gEncKey = [m \in Machines |-> gEncKey[m]]
      BY DEF Init
    <3>3. \A m \in Machines : file[m] \in Configs
      BY ConfigAssumption DEF Init
    <3> QED BY <1>3, <3>2, <3>3
  <2>2. metadata \in [Buckets -> {None} \cup Entries] /\ file \in [Machines -> Configs]
    BY ConfigAssumption DEF Init
  <2>3. /\ objects \in [Buckets -> SUBSET Objects] /\ fresh \in Nat
        /\ network \in {"up", "down"} /\ calls \in Nat /\ faults \in Nat
    BY <1>1 DEF Init, NoKey
  <2>4. pc \in [Procs -> Labels] /\ job \in [Procs -> Jobs]
    BY NoJobType DEF Init, Labels
  <2> QED BY <1>5, <2>1, <2>2, <2>3, <2>4 DEF TypeOK
<1>7. ObjectsReadable
  BY DEF Init, ObjectsReadable
<1>8. /\ CallsAtLabels /\ ConfigLoaded /\ CreatorsAlone /\ LoadsSettled
      /\ HeldKeysCurrent /\ PublishedKeyCurrent
  BY <1>4, <1>5 DEF CallsAtLabels, ConfigLoaded, CreatorsAlone, LoadsSettled,
     HeldKeysCurrent, PublishedKeyCurrent, UsesGlobals, Holding
<1>9. OneBucket
  <2> SUFFICES ASSUME NEW m \in Machines
               PROVE  \E b \in Buckets \cup {NoBucket} : AgreeOn(m, b)
    BY DEF OneBucket
  <2>1. AgreeOn(m, file[m].bucket)
    BY <1>3, <1>4, <1>5 DEF AgreeOn, UsesGlobals
  <2> QED BY <1>6, <2>1, ConfigFields
<1> QED BY <1>6, <1>7, <1>8, <1>9 DEF KeyInv

LEMMA NextKeepsKeyInv ==
    ASSUME KeyInv, "races" \notin Allowed, [Next]_vars
    PROVE  KeyInv'
<1>1. ASSUME NEW p \in Procs, Step(p) PROVE KeyInv'
  BY <1>1, LookKeepsKeyInv, PutKeepsKeyInv, ChangeKeepsKeyInv, CreateKeepsKeyInv,
     DeleteKeepsKeyInv, TruncateKeepsKeyInv, WriteConfigKeepsKeyInv, LoadConfigKeepsKeyInv,
     PublishKeepsKeyInv DEF Step, Look
<1>2. CASE UNCHANGED <<cloud, disk, memory, pc, job>>
  <2>1. TypeOK'
    BY NextKeepsType DEF KeyInv
  <2>2. UNCHANGED <<metadata, objects, file, gCfg, gEncKey, pc, job>>
    BY <1>2 DEF cloud, disk, memory
  <2> QED BY <2>1, <2>2 DEF KeyInv, ObjectsReadable, CallsAtLabels, ConfigLoaded, CreatorsAlone,
          LoadsSettled, HeldKeysCurrent, OneBucket, PublishedKeyCurrent, UsesGlobals, Settled,
          IsBucketEmpty, Alone, HasKeyOf, AgreeOn, Reconfigures, Holding
<1> QED BY <1>1, <1>2, RequestKeepsKeyInv, CrashKeepsKeyInv
        DEF Next, NetworkDown, NetworkUp, vars

(* The variables keep their types and local variables live as long as a    *)
(* call, also when calls race: a call that uses the configuration finds    *)
(* one in memory (initConfig, ChangePassword, Backup).                     *)
THEOREM KeyTypes == Spec => []TypeOK
<1> DEFINE Inv == TypeOK /\ CallsAtLabels /\ ConfigLoaded
<1>1. Init => Inv
  BY InitKeyInv DEF KeyInv
<1>2. Inv /\ [Next]_vars => Inv'
  BY NextKeepsType, NextOnTrack
<1> QED BY <1>1, <1>2, PTL DEF Spec

(* Unless a bucket is created, wiped or configured while somebody else is  *)
(* at work, no call holds and no daemon publishes keys that are not those  *)
(* of the bucket (GetOrCreateBucketMetadata, initConfig, Backup), with any *)
(* number of machines and handlers, crashes, errors and outages.           *)
THEOREM KeyInvariant ==
    ASSUME "races" \notin Allowed
    PROVE  Spec => []KeyInv
<1>1. KeyInv /\ [Next]_vars => KeyInv'
  BY NextKeepsKeyInv
<1> QED BY InitKeyInv, <1>1, PTL DEF Spec

(* Under the same condition what is in a bucket can be read with the keys  *)
(* its metadata holds, through changes of password (ChangePassword) and    *)
(* wipes (WipeCloud).                                                      *)
THEOREM EveryObjectReadable ==
    ASSUME "races" \notin Allowed
    PROVE  Spec => []ObjectsReadable
<1>1. KeyInv => ObjectsReadable
  BY DEF KeyInv
<1> QED BY <1>1, KeyInvariant, PTL

(* Under the same condition the keys of a bucket never change while it has *)
(* any: those made when it was created (CreateMetadata) serve until it is  *)
(* wiped, whatever passwords they are encrypted under in between.          *)
THEOREM KeysNeverChange ==
    ASSUME "races" \notin Allowed
    PROVE  Spec => KeysSurvive
<1> DEFINE Kept == \A b \in Buckets : metadata[b] # None /\ metadata'[b] # None
                                          => metadata'[b].key = metadata[b].key
<1>1. ASSUME KeyInv, [Next]_vars PROVE Kept
  <2>1. CASE UNCHANGED metadata
    BY <2>1
  <2>2. ASSUME NEW p \in Procs, CreateMetadata(p) PROVE Kept
    <3>1. /\ pc[p] = "create" /\ job[p].bucket \in Buckets
          /\ \E e : metadata' = [metadata EXCEPT ![job[p].bucket] = e]
      BY <2>2 DEF CreateMetadata, WriteBucketMetadataFile, Reaches
    <3>2. metadata[job[p].bucket] = None
      BY <1>1, <3>1 DEF KeyInv, CreatorsAlone, IsBucketEmpty
    <3> QED BY <1>1, <3>1, <3>2 DEF KeyInv, TypeOK
  <2>3. ASSUME NEW p \in Procs, ChangePassword(p) PROVE Kept
    <3>1. /\ pc[p] = "put" /\ job[p].bucket \in Buckets
          /\ metadata' = [metadata EXCEPT ![job[p].bucket] =
                              [password |-> job[p].new, key |-> job[p].key]]
      BY <2>3 DEF ChangePassword, WriteBucketMetadataFile, Reencrypt, Reaches
    <3>2. HasKeyOf(job[p].key, job[p].bucket)
      BY <1>1, <3>1 DEF KeyInv, HeldKeysCurrent, Holding
    <3> QED BY <1>1, <3>1, <3>2 DEF KeyInv, TypeOK, HasKeyOf
  <2>4. ASSUME NEW p \in Procs, DeleteObj(p) PROVE Kept
    BY <1>1, <2>4 DEF DeleteObj, KeyInv, TypeOK
  <2>5. ASSUME NEW p \in Procs, Step(p) PROVE Kept
    BY <2>1, <2>2, <2>3, <2>4, <2>5
       DEF Step, TruncateConfig, WriteConfig, LoadConfig, ReadBucketName, IsReachable,
           ListMetadata, ReadBucketMetadataFile, ListBucket, VerifyKeys, DecryptFirstName,
           PublishKeys, ReplayBackupJournal, CopyKey, UploadChunk, WriteIndexFile, PutObject,
           ListAll, WipeDone, StoreError, cloud
  <2>6. ASSUME NEW p \in Procs, Request(p) PROVE UNCHANGED metadata
    BY <2>6 DEF Request, Hello, BackupRPC, WipeCloud, CheckBucketPassword,
                WriteToDaemonConfig, Command, ChangePasswordRPC, cloud
  <2> QED BY <1>1, <2>1, <2>5, <2>6
          DEF Next, Crash, NetworkDown, NetworkUp, vars, cloud
<1>2. KeyInv /\ [Next]_vars => [Kept]_vars
  BY <1>1
<1> QED BY KeyInvariant, <1>2, PTL DEF Spec, KeysSurvive
=============================================================================
