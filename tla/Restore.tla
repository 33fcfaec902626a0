------------------------------- MODULE Restore -------------------------------
(***************************************************************************)
(* Restoring a snapshot (pkg/backup/restore.go, Restore in                 *)
(* daemon/restore.go, restoreMain in cmd/restore.go): the selected entries *)
(* are restored in the order of their names, each from its extents, which  *)
(* are read through the chunk cache; directories are made with mode 0755   *)
(* and get their own mode at the end.                                      *)
(***************************************************************************)
EXTENDS ChunkCache, Sequences, FiniteSets

CONSTANTS
    Order,         \* the entries of the snapshot, sorted by name
    Kind,          \* of each: "dir", "file" or "symlink"
    Dir,           \* of each: the directory it is in, or Top
    Top,           \* the root of what is restored
    ChunkExtents,  \* of each: the chunks of its extents
    StartsWith,    \* of each: the entries whose name it is a prefix of
    Selections,    \* the choices of entries a client asks for
    MaxRestores,   \* bound: restores begun
    MaxFaults      \* bound: failing calls and crashes

Paths == {Order[i] : i \in DOMAIN Order}
Directories == {p \in Paths : Kind[p] = "dir"}
Place == [p \in Paths |-> CHOOSE i \in DOMAIN Order : Order[i] = p]

ASSUME SnapshotAssumption ==
    /\ Order \in Seq(Paths)
    /\ \A i, j \in DOMAIN Order : Order[i] = Order[j] => i = j
    /\ Kind \in [Paths -> {"dir", "file", "symlink"}]
    /\ Top \notin Paths
    /\ Dir \in [Paths -> Directories \cup {Top}]
    /\ ChunkExtents \in [Paths -> Seq(Chunks)]
    /\ StartsWith \in [Paths -> SUBSET Paths]
    /\ Selections \subseteq SUBSET Paths
ASSUME RestoreBounds == MaxRestores \in Nat /\ MaxFaults \in Nat

VARIABLES
    at,             \* where the restore is
    by,             \* the daemon or the command line
    queue, ext,     \* the entries left; extents of the first of them written
    target, mode,   \* the destination: what entries hold, modes of directories
    dirChmodQueue,
    wanted, reported, outcome,  \* what was asked for, failed, and how it ended
    stray,          \* a file was left in the cache directory and in no index
    restores, faults

entry  == <<queue, ext>>
dest   == <<target, mode, dirChmodQueue>>
result == <<wanted, reported, outcome>>
counts == <<restores, faults>>
vars   == <<cacheVars, at, by, entry, dest, result, stray, counts>>

-----------------------------------------------------------------------------
(* What is selected *)

FilterRelPaths(specific, prefixes) ==
    IF specific = {} /\ prefixes = {} THEN Paths
    ELSE IF specific # {} THEN specific
    ELSE UNION {StartsWith[p] : p \in prefixes}

-----------------------------------------------------------------------------
(* The destination *)

\* The directories on the way to d, d included.
PathTo[d \in Directories \cup {Top}] == IF d = Top THEN {} ELSE {d} \cup PathTo[Dir[d]]

\* createFullPath: what is missing is made, an existing directory is opened up.
CreateFullPath(d) ==
    mode' = [q \in Directories |->
                IF q = d \/ (q \in PathTo[d] /\ mode[q] = "none" /\ mode[d] = "none")
                THEN "0755" ELSE mode[q]]

\* Entries are restored in the order of their names.
RelPath == CHOOSE p \in queue : \A q \in queue : Place[p] <= Place[q]
ChunkExtent == ChunkExtents[RelPath][ext + 1]
Extent == [chunk |-> ChunkExtent, plaintext |-> cached[ChunkExtent].plaintext]

\* The content an entry has in the snapshot: that of its first n extents, and of
\* all there are.
Extents(p, n) == [i \in 1..n |-> [chunk |-> ChunkExtents[p][i], plaintext |-> "whole"]]
InSnapshot(p) == Extents(p, IF Kind[p] = "file" THEN Len(ChunkExtents[p]) ELSE 1)

Restored == {p \in Paths : ChunkExtents[p] # <<>> /\ target[p] = InSnapshot(p)}

-----------------------------------------------------------------------------
Init ==
    /\ now = 0
    /\ disk = [n \in Names |-> IF n \in Foreign THEN "whole" ELSE "none"]
    /\ cached = [n \in {} |-> Stamp(n, "whole")]
    /\ at = "idle" /\ by = "daemon" /\ queue = {} /\ ext = 0
    /\ target = [p \in Paths |-> <<>>]
    /\ mode = [d \in Directories |-> "none"]
    /\ dirChmodQueue = {}
    /\ wanted = {} /\ reported = {} /\ outcome = "none"
    /\ stray = FALSE
    /\ restores = 0 /\ faults = 0

Fault == faults < MaxFaults /\ faults' = faults + 1 /\ UNCHANGED restores

\* The stack frame of the restore is gone, and with it the index of the cache.
Leave(how) ==
    /\ at' = "idle" /\ queue' = {} /\ ext' = 0 /\ dirChmodQueue' = {}
    /\ cached' = [n \in {} |-> Stamp(n, "whole")]
    /\ outcome' = how
    /\ UNCHANGED <<now, by, wanted>>

\* A goroutine of the daemon or a process; log.Fatal, a panic and a kill all
\* end it here.
Die == Leave("abandoned") /\ Fault /\ UNCHANGED <<mode, reported>>

NextEntry == at' = "entry" /\ queue' = queue \ {RelPath} /\ ext' = 0

-----------------------------------------------------------------------------
\* The daemon is given names, the command line one prefix ("" is everything).
\* A walk of the cache directory that ends early is noted as a fault, and so is
\* a file that cannot be removed.
StartRestore(who, selection) ==
    LET chosen == IF who = "daemon" THEN FilterRelPaths(selection, {})
                                    ELSE FilterRelPaths({}, selection)
    IN  /\ at = "idle" /\ restores < MaxRestores
        /\ who = "cli" => Cardinality(selection) <= 1
        /\ restores' = restores + 1
        /\ \/ NewChunkCache(Names, {}) /\ UNCHANGED <<faults, stray>>
           \/ /\ faults < MaxFaults /\ faults' = faults + 1
              /\ \E n \in Files : \/ NewChunkCache({m \in Names : m < n}, {})
                                  \/ ~Decrypts(n, disk[n]) /\ NewChunkCache(Names, {n})
              /\ stray' = TRUE
        /\ wanted' = chosen /\ reported' = {} /\ outcome' = "none"
        /\ queue' = chosen /\ ext' = 0
        /\ at' = "entry" /\ by' = who
        /\ UNCHANGED dest

NextRelPath ==
    /\ at = "entry" /\ queue # {}
    /\ \/ ChunkExtents[RelPath] # <<>> /\ at' = "fetch" /\ UNCHANGED <<entry, reported>>
       \/ \* an index entry without extents
          /\ ChunkExtents[RelPath] = <<>>
          /\ reported' = reported \cup {RelPath} /\ NextEntry
    /\ UNCHANGED <<cacheVars, by, dest, wanted, outcome, stray, counts>>

\* FetchExtentIntoBuffer, up to the download.
FetchExtent ==
    /\ at = "fetch"
    /\ at' = IF IsObjCached(ChunkExtent) THEN "write" ELSE "save"
    /\ UNCHANGED <<cacheVars, by, entry, dest, result, stray, counts>>

DownloadFails ==
    /\ at = "fetch" /\ ~IsObjCached(ChunkExtent)
    /\ Die
    /\ UNCHANGED <<disk, target, stray>>

Evict ==
    /\ at = "save"
    /\ \/ EvictLeastRecentlyUsed(ChunkExtent, TRUE) /\ UNCHANGED <<counts, stray>>
       \/ EvictLeastRecentlyUsed(ChunkExtent, FALSE) /\ Fault /\ stray' = TRUE
    /\ UNCHANGED <<at, by, entry, dest, result>>

SaveChunk ==
    /\ at = "save"
    /\ SaveObjToCache(ChunkExtent)
    /\ at' = "write"
    /\ UNCHANGED <<by, entry, dest, result, stray, counts>>

SaveChunkFails ==
    /\ at = "save"
    /\ SaveFails(ChunkExtent)
    /\ Die
    /\ UNCHANGED <<target, stray>>

\* The first extent is written to a new or truncated file; the entry of a
\* directory or a link needs only that one.
WriteExtent ==
    /\ target' = [target EXCEPT ![RelPath] =
                     IF ext = 0 THEN <<Extent>> ELSE Append(@, Extent)]
    /\ IF Kind[RelPath] = "file" /\ ext + 1 < Len(ChunkExtents[RelPath])
       THEN at' = "fetch" /\ ext' = ext + 1 /\ UNCHANGED queue
       ELSE NextEntry

RestoreDirectory ==
    /\ Kind[RelPath] = "dir"
    /\ CreateFullPath(RelPath)
    /\ dirChmodQueue' = dirChmodQueue \cup {RelPath}

RestoreOther ==
    /\ Kind[RelPath] # "dir"
    /\ IF ext = 0 /\ Dir[RelPath] # Top THEN CreateFullPath(Dir[RelPath]) ELSE UNCHANGED mode
    /\ UNCHANGED dirChmodQueue

\* RestoreDirEntry after a fetch.
RestoreDirEntry ==
    /\ at = "write"
    /\ RestoreDirectory \/ RestoreOther
    /\ WriteExtent
    /\ UNCHANGED <<cacheVars, by, result, stray, counts>>

\* Something fails that is only logged: before anything is written, when a link
\* is made, or after all the rest (extended attributes, owner).
RestoreDirEntryFails ==
    /\ at = "write"
    /\ Fault
    /\ reported' = reported \cup {RelPath}
    /\ \/ /\ ext = 0
          /\ NextEntry
          /\ UNCHANGED dest
       \/ /\ Kind[RelPath] = "symlink"
          /\ RestoreOther
          /\ NextEntry
          /\ UNCHANGED target
       \/ /\ Kind[RelPath] = "dir" \/ ext + 1 = Len(ChunkExtents[RelPath])
          /\ Kind[RelPath] # "symlink"
          /\ RestoreDirectory \/ RestoreOther
          /\ WriteExtent
    /\ UNCHANGED <<cacheVars, by, wanted, outcome, stray>>

\* The file cannot be created or written, or the process dies.
Crash ==
    /\ at # "idle"
    /\ Die
    /\ \/ UNCHANGED target
       \/ /\ at = "write" /\ Kind[RelPath] = "file" /\ ext = 0
          /\ target' = [target EXCEPT ![RelPath] = <<>>]
    /\ UNCHANGED <<disk, stray>>

\* The daemon looks for a cancel request before each entry.
CancelRestore ==
    /\ at = "entry" /\ queue # {} /\ by = "daemon"
    /\ Leave("abandoned")
    /\ UNCHANGED <<disk, target, mode, reported, stray, counts>>

\* Mutant: only the top directories get their own mode.
SetFinalModesOfFirst(d) == IF d \in dirChmodQueue /\ Dir[d] = Top THEN "final" ELSE mode[d]

SetFinalMode(d) == IF d \in dirChmodQueue THEN "final" ELSE mode[d]

\* The loop is over: the queued modes are set; one that cannot be is logged.
FinishRestore ==
    /\ at = "entry" /\ queue = {}
    /\ \/ mode' = [d \in Directories |-> SetFinalMode(d)] /\ UNCHANGED <<reported, counts>>
       \/ /\ Fault
          /\ \E d \in dirChmodQueue :
                /\ mode' = [q \in Directories |-> IF q = d THEN mode[q] ELSE SetFinalMode(q)]
                /\ reported' = reported \cup {d}
    /\ Leave("done")
    /\ UNCHANGED <<disk, target, stray>>

-----------------------------------------------------------------------------
Clock == Tick /\ UNCHANGED <<at, by, entry, dest, result, stray, counts>>

Vanish ==
    /\ \E n \in Names : FileVanishes(n)
    /\ Fault
    /\ UNCHANGED <<at, by, entry, dest, result, stray>>

Start == \E who \in {"daemon", "cli"} : \E s \in Selections : StartRestore(who, s)

Step == NextRelPath \/ FetchExtent \/ Evict \/ SaveChunk \/ RestoreDirEntry \/ FinishRestore

Next ==
    \/ Start \/ Step \/ CancelRestore \/ Clock \/ Vanish
    \/ DownloadFails \/ SaveChunkFails \/ RestoreDirEntryFails \/ Crash

Spec == Init /\ [][Next]_vars

\* The clock does not stop, and the restore runs on while nothing fails.
FairSpec == Spec /\ WF_vars(Clock) /\ WF_vars(Step)

-----------------------------------------------------------------------------
(* Types, and that a chunk is in the index when its extent is cut out of   *)
(* it: FetchExtentIntoBuffer would slice the plaintext of no entry.        *)
TypeOK ==
    /\ now \in Nat /\ disk \in [Names -> FileStates]
    /\ DOMAIN cached \subseteq Names /\ cached \in [DOMAIN cached -> CachedChunk]
    /\ at \in {"idle", "entry", "fetch", "save", "write"} /\ by \in {"daemon", "cli"}
    /\ at \in {"fetch", "save", "write"} => queue # {} /\ ext < Len(ChunkExtents[RelPath])
    /\ at = "write" => IsObjCached(ChunkExtent)
    /\ target \in [Paths -> Seq([chunk : Chunks, plaintext : FileStates])]
    /\ mode \in [Directories -> {"none", "0755", "final"}]
    /\ dirChmodQueue \subseteq Directories \cap wanted
    /\ wanted \subseteq Paths /\ reported \subseteq wanted
    /\ queue \subseteq wanted /\ ext \in Nat
    /\ outcome \in {"none", "done", "abandoned"}
    /\ stray \in BOOLEAN /\ restores \in Nat /\ faults \in Nat

(* A restore through the cache keeps the promise of RestoreService: a file *)
(* cut short by a crash or by a full disk, a chunk evicted between two     *)
(* extents of one entry or a cache directory of another bucket never shows *)
(* in what is restored (RestoreDirEntry, FetchExtentIntoBuffer).           *)
Service == INSTANCE RestoreService WITH running <- at # "idle", restored <- Restored
KeepsPromise == Service!Spec

(* "they'll get fixed later when we process the dirs' entries themselves": *)
(* when a restore is done, the directories it was asked for have the mode  *)
(* of the snapshot, though every file below opened them up again.          *)
ModesAreFinal ==
    outcome = "done" =>
        \A d \in (Directories \cap wanted) \ reported : mode[d] = "final"

(* The files in the cache directory stay within the limit (saveObjToCache  *)
(* only adds up the index): what a crash or a failed write leaves behind   *)
(* had its place, and the next NewChunkCache finds it, unless it could not *)
(* read a file or remove one.                                              *)
DirectoryWithinLimit == ~stray => SizeOf(Files) <= MaxCacheSizeOnDisk

-----------------------------------------------------------------------------
(* The inductive invariant behind them, part by part.                      *)

\* What is indexed decrypted.
IndexGood == \A n \in DOMAIN cached : n \in Chunks /\ cached[n].plaintext = "whole"

\* An entry that is being written has its first extents.
PartGood ==
    /\ at = "idle" => dirChmodQueue = {}
    /\ at \in {"idle", "entry"} => ext = 0
    /\ ext > 0 => Kind[RelPath] = "file" /\ target[RelPath] = Extents(RelPath, ext)

\* What was asked for is still to come, restored, or reported.
Accounted ==
    at # "idle" =>
        /\ outcome = "none"
        /\ wanted \subseteq queue \cup Restored \cup reported
        /\ Directories \cap wanted \subseteq queue \cup dirChmodQueue \cup reported

\* The index knows of the files, and adds up to no more than the limit.
FilesIndexed ==
    ~stray /\ at # "idle" => /\ Files \subseteq DOMAIN cached
                             /\ TotalSizeOnDisk <= MaxCacheSizeOnDisk

(* Every entry of the loop that is done with is in the destination as in   *)
(* the snapshot or reported, from an index that holds only what decrypted, *)
(* and that knows every file of the cache directory (RestoreDirEntry,      *)
(* NewChunkCache, saveObjToCache).                                         *)
RestoreInv == /\ TypeOK /\ IndexGood /\ PartGood /\ Accounted /\ FilesIndexed
              /\ ModesAreFinal /\ DirectoryWithinLimit

-----------------------------------------------------------------------------
(* A restore comes to an end, if every chunk fits in the cache: the loop   *)
(* of saveObjToCache waits for the clock when all it has is of this second.*)
RestoreEnds ==
    (\A c \in Chunks : Size[c] <= MaxCacheSizeOnDisk) => (at # "idle" ~> at = "idle")
=============================================================================
