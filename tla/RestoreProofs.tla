---------------------------- MODULE RestoreProofs ----------------------------
(***************************************************************************)
(* Restores through the chunk cache, for any snapshot, any cache size and  *)
(* any number of restores, failures and crashes: the promise of            *)
(* RestoreService is kept, directories get their modes, and the cache      *)
(* directory stays within its limit.                                       *)
(***************************************************************************)
EXTENDS Restore, SumTheorems

-----------------------------------------------------------------------------
(* The entry at the head of the loop *)

LEMMA HeadIn ==
    ASSUME queue \subseteq Paths, queue # {}
    PROVE  RelPath \in queue
<1> DEFINE I == {Place[p] : p \in queue}
<1>1. \A p \in Paths : Place[p] \in Nat
  <2>1. \A p \in Paths : \E i \in DOMAIN Order : Order[i] = p
    BY DEF Paths
  <2>2. \A p \in Paths : Place[p] \in DOMAIN Order
    BY <2>1 DEF Place
  <2>3. DOMAIN Order \subseteq Nat
    BY SnapshotAssumption
  <2> QED BY <2>2, <2>3
<1>2. I \in SUBSET Nat /\ I # {}
  BY <1>1
<1>3. PICK n \in I : \A m \in I : n <= m
  BY <1>2, LeastNumber
<1>4. PICK p \in queue : n = Place[p]
  OBVIOUS
<1>5. \A q \in queue : Place[p] <= Place[q]
  BY <1>3, <1>4
<1> QED BY <1>5 DEF RelPath

LEMMA PathFacts ==
    ASSUME NEW p \in Paths
    PROVE  /\ Kind[p] \in {"dir", "file", "symlink"} /\ Dir[p] \in Directories \cup {Top}
           /\ ChunkExtents[p] \in Seq(Chunks) /\ Len(ChunkExtents[p]) \in Nat
           /\ \A i \in 1..Len(ChunkExtents[p]) : ChunkExtents[p][i] \in Chunks
           /\ ChunkExtents[p] # <<>> <=> Len(ChunkExtents[p]) > 0
BY SnapshotAssumption

LEMMA AtEntry ==
    ASSUME TypeOK, queue # {}
    PROVE  RelPath \in queue /\ RelPath \in wanted /\ RelPath \in Paths
BY HeadIn DEF TypeOK

LEMMA AtExtent ==
    ASSUME TypeOK, at \in {"fetch", "save", "write"}
    PROVE  /\ RelPath \in queue /\ RelPath \in wanted /\ RelPath \in Paths
           /\ ext \in Nat /\ ext < Len(ChunkExtents[RelPath]) /\ ChunkExtent \in Chunks
           /\ ChunkExtent \in Names /\ ChunkExtents[RelPath] # <<>>
<1>1. RelPath \in queue /\ RelPath \in wanted /\ RelPath \in Paths
  BY AtEntry DEF TypeOK
<1>2. ext \in Nat /\ ext < Len(ChunkExtents[RelPath])
  BY DEF TypeOK
<1>3. ext + 1 \in 1..Len(ChunkExtents[RelPath])
  BY <1>1, <1>2, PathFacts
<1> QED BY <1>1, <1>2, <1>3, PathFacts DEF ChunkExtent, Names

-----------------------------------------------------------------------------
(* The cache *)

LEMMA SizeFacts ==
    ASSUME NEW S \in SUBSET Names
    PROVE  /\ IsFiniteSet(S) /\ SizeOf(S) \in Nat
           /\ \A R \in SUBSET S : SizeOf(R) <= SizeOf(S)
           /\ \A n \in Names : Size[n] \in Nat /\ SizeOf(S \cup {n}) <= SizeOf(S) + Size[n]
<1>1. IsFiniteSet(S) /\ \A n \in Names : Size[n] \in Nat
  BY FS_Subset, NamesAssumption, SizeAssumption
<1>2. SumFunctionOnSet(Size, S) \in Nat
  BY <1>1, SumType
<1>3. \A R \in SUBSET S : SumFunctionOnSet(Size, R) <= SumFunctionOnSet(Size, S)
  BY <1>1, SumSubset
<1>4. ASSUME NEW n \in Names
      PROVE  SumFunctionOnSet(Size, S \cup {n}) <= SumFunctionOnSet(Size, S) + Size[n]
  BY <1>1, SumAdd
<1> QED BY <1>1, <1>2, <1>3, <1>4 DEF SizeOf

NoIndex == [n \in {} |-> Stamp(n, "whole")]

(* The ways a step changes the cache.                                      *)
Fresh == \E walked, stuck \in SUBSET Names :
            /\ NewChunkCache(walked, stuck)
            /\ ~stray' => ~stray /\ walked = Names /\ stuck = {}
Evicts == \E removed \in BOOLEAN :
            EvictLeastRecentlyUsed(ChunkExtent, removed) /\ (~stray' => ~stray /\ removed)
Saves == SaveObjToCache(ChunkExtent) /\ UNCHANGED stray
Drops == /\ now' = now /\ cached' = NoIndex /\ UNCHANGED stray
         /\ UNCHANGED disk \/ SaveFails(ChunkExtent)

LEMMA CacheSteps ==
    ASSUME TypeOK, [Next]_vars
    PROVE  \/ at = "idle" /\ at' = "entry" /\ Fresh
           \/ at = "save" /\ at' = at /\ Evicts
           \/ at = "save" /\ at' = "write" /\ Saves
           \/ at # "idle" /\ at' = "idle" /\ Drops /\ (UNCHANGED disk \/ at = "save")
           \/ /\ at' = at /\ UNCHANGED stray
              /\ Tick \/ \E n \in Names : FileVanishes(n)
           \/ at # "idle" /\ at' # "idle" /\ UNCHANGED <<cacheVars, stray>>
           \/ UNCHANGED <<cacheVars, stray, at>>
<1>1. CASE Start
  <2>1. PICK who \in {"daemon", "cli"}, s \in Selections : StartRestore(who, s)
    BY <1>1 DEF Start
  <2>2. \/ NewChunkCache(Names, {}) /\ UNCHANGED stray
        \/ stray' = TRUE /\ \E walked, stuck \in SUBSET Names : NewChunkCache(walked, stuck)
    <3>1. CASE NewChunkCache(Names, {}) /\ UNCHANGED stray
      BY <3>1
    <3>2. CASE stray' = TRUE /\ \E n \in Files : \/ NewChunkCache({m \in Names : m < n}, {})
                                                \/ NewChunkCache(Names, {n})
      <4>1. PICK n \in Files : NewChunkCache({m \in Names : m < n}, {}) \/ NewChunkCache(Names, {n})
        BY <3>2
      <4>2. /\ {m \in Names : m < n} \in SUBSET Names /\ Names \in SUBSET Names
            /\ {} \in SUBSET Names /\ {n} \in SUBSET Names
        BY DEF Files
      <4> QED BY <3>2, <4>1, <4>2
    <3> QED BY <2>1, <3>1, <3>2 DEF StartRestore
  <2>3. stray' \in BOOLEAN
    BY <2>1 DEF StartRestore, TypeOK
  <2>4. Fresh
    BY <2>2, <2>3 DEF Fresh, TypeOK
  <2> QED BY <2>1, <2>4 DEF StartRestore
<1>2. CASE Evict
  <2>1. stray' \in BOOLEAN
    BY <1>2 DEF Evict, TypeOK
  <2> QED BY <1>2, <2>1 DEF Evict, Evicts, TypeOK
<1>3. CASE SaveChunk
  BY <1>3 DEF SaveChunk, Saves
<1>4. CASE DownloadFails \/ SaveChunkFails \/ Crash \/ CancelRestore \/ FinishRestore
  BY <1>4 DEF DownloadFails, SaveChunkFails, Crash, CancelRestore, FinishRestore, Die, Leave,
     Drops, NoIndex
<1>5. CASE Clock \/ Vanish
  BY <1>5 DEF Clock, Vanish
<1>6. CASE NextRelPath \/ FetchExtent \/ RestoreDirEntry \/ RestoreDirEntryFails
  BY <1>6 DEF NextRelPath, FetchExtent, RestoreDirEntry, RestoreDirEntryFails, NextEntry, WriteExtent
<1>7. CASE UNCHANGED vars
  BY <1>7 DEF vars
<1> QED BY <1>1, <1>2, <1>3, <1>4, <1>5, <1>6, <1>7 DEF Next, Step

LEMMA CacheTypes ==
    ASSUME TypeOK, IndexGood, [Next]_vars
    PROVE  /\ now' \in Nat /\ disk' \in [Names -> FileStates]
           /\ DOMAIN cached' \subseteq Names /\ cached' \in [DOMAIN cached' -> CachedChunk]
           /\ IndexGood'
<1> USE DEF TypeOK, IndexGood
<1>1. CASE Fresh
  BY <1>1 DEF Fresh, NewChunkCache, Files, Decrypts, FileStates, Stamp, CachedChunk
<1>2. CASE at = "save" /\ Evicts
  BY <1>2 DEF Evicts, EvictLeastRecentlyUsed, LeastRecentlyUsed, Forget, FileStates
<1>3. CASE at = "save" /\ Saves
  BY <1>3, AtExtent DEF Saves, SaveObjToCache, Stamp, CachedChunk, FileStates
<1>4. CASE Drops /\ (UNCHANGED disk \/ at = "save")
  BY <1>4, AtExtent DEF Drops, NoIndex, SaveFails, FileStates
<1>5. CASE Tick \/ \E n \in Names : FileVanishes(n)
  BY <1>5 DEF Tick, FileVanishes, FileStates
<1>6. CASE UNCHANGED cacheVars
  BY <1>6 DEF cacheVars
<1> QED BY <1>1, <1>2, <1>3, <1>4, <1>5, <1>6, CacheSteps

(* The limit.                                                              *)
LEMMA CacheKeepsLimit ==
    ASSUME TypeOK, FilesIndexed, DirectoryWithinLimit, [Next]_vars, TypeOK'
    PROVE  FilesIndexed' /\ DirectoryWithinLimit'
<1>m. MaxCacheSizeOnDisk \in Nat
  BY SizeAssumption
<1>f. Files \subseteq Names /\ Files' \subseteq Names
  BY DEF Files
<1>d. DOMAIN cached \subseteq Names /\ DOMAIN cached' \subseteq Names
  BY DEF TypeOK
<1>s. /\ SizeOf(Files) \in Nat /\ SizeOf(Files') \in Nat
      /\ SizeOf(DOMAIN cached) \in Nat /\ SizeOf(DOMAIN cached') \in Nat
  BY <1>f, <1>d, SizeFacts
<1>1. CASE at = "idle" /\ at' = "entry" /\ Fresh
  <2> SUFFICES ASSUME ~stray' PROVE /\ Files' \subseteq DOMAIN cached'
                                    /\ SizeOf(DOMAIN cached') <= MaxCacheSizeOnDisk
                                    /\ SizeOf(Files') <= MaxCacheSizeOnDisk
    BY DEF FilesIndexed, DirectoryWithinLimit, TotalSizeOnDisk
  <2>1. NewChunkCache(Names, {})
    BY <1>1 DEF Fresh
  <2>2. Files' = DOMAIN cached' /\ Files' \subseteq Files
    BY <2>1 DEF NewChunkCache, Files
  <2>3. SizeOf(Files) <= MaxCacheSizeOnDisk
    BY <1>1 DEF DirectoryWithinLimit, Fresh
  <2>4. SizeOf(Files') <= SizeOf(Files)
    BY <1>f, <2>2, SizeFacts
  <2> QED BY <1>m, <1>s, <2>2, <2>3, <2>4
<1>2. CASE at = "save" /\ at' = at /\ Evicts
  <2> SUFFICES ASSUME ~stray' PROVE /\ Files' \subseteq DOMAIN cached'
                                    /\ SizeOf(DOMAIN cached') <= MaxCacheSizeOnDisk
                                    /\ SizeOf(Files') <= MaxCacheSizeOnDisk
    BY DEF FilesIndexed, DirectoryWithinLimit, TotalSizeOnDisk
  <2>1. EvictLeastRecentlyUsed(ChunkExtent, TRUE) /\ ~stray
    BY <1>2 DEF Evicts
  <2>2. PICK n \in DOMAIN cached : cached' = Forget(n) /\ disk' = [disk EXCEPT ![n] = "none"]
    BY <2>1 DEF EvictLeastRecentlyUsed, LeastRecentlyUsed
  <2>3. Files \subseteq DOMAIN cached /\ SizeOf(DOMAIN cached) <= MaxCacheSizeOnDisk
    BY <1>2, <2>1 DEF FilesIndexed, TotalSizeOnDisk
  <2>4. DOMAIN cached' = DOMAIN cached \ {n} /\ Files' = Files \ {n}
    BY <2>2 DEF Forget, Files, TypeOK
  <2>5. /\ SizeOf(DOMAIN cached') <= SizeOf(DOMAIN cached)
        /\ SizeOf(Files') <= SizeOf(DOMAIN cached')
    BY <1>d, <2>3, <2>4, SizeFacts
  <2> QED BY <1>m, <1>s, <2>3, <2>4, <2>5
<1>3. CASE at = "save" /\ Saves
  <2> SUFFICES ASSUME ~stray' PROVE /\ Files' \subseteq DOMAIN cached'
                                    /\ SizeOf(DOMAIN cached') <= MaxCacheSizeOnDisk
                                    /\ SizeOf(Files') <= MaxCacheSizeOnDisk
    BY DEF FilesIndexed, DirectoryWithinLimit, TotalSizeOnDisk
  <2> DEFINE c == ChunkExtent
  <2>1. SaveObjToCache(c) /\ ~stray /\ c \in Names /\ at # "idle"
    BY <1>3, AtExtent DEF Saves
  <2> HIDE DEF c
  <2>2. DOMAIN cached' = DOMAIN cached \cup {c} /\ Files' \subseteq Files \cup {c}
    BY <2>1 DEF SaveObjToCache, Files, TypeOK
  <2>3. Files \subseteq DOMAIN cached
    BY <2>1 DEF FilesIndexed
  <2>4. SizeOf(DOMAIN cached) + Size[c] <= MaxCacheSizeOnDisk
    <3>1. ~(SizeOf(DOMAIN cached) + Size[c] > MaxCacheSizeOnDisk)
      BY <2>1 DEF SaveObjToCache, MustEvict, TotalSizeOnDisk
    <3>2. Size[c] \in Nat
      BY <2>1, SizeAssumption
    <3> QED BY <1>m, <1>s, <3>1, <3>2
  <2>5. /\ SizeOf(DOMAIN cached') <= SizeOf(DOMAIN cached) + Size[c]
        /\ SizeOf(Files') <= SizeOf(DOMAIN cached') /\ Size[c] \in Nat
    BY <1>d, <2>1, <2>2, <2>3, SizeFacts
  <2> QED BY <1>m, <1>s, <2>2, <2>3, <2>4, <2>5
<1>4. CASE at # "idle" /\ at' = "idle" /\ Drops /\ (UNCHANGED disk \/ at = "save")
  <2> SUFFICES ASSUME ~stray' PROVE SizeOf(Files') <= MaxCacheSizeOnDisk
    BY <1>4 DEF FilesIndexed, DirectoryWithinLimit
  <2>1. ~stray
    BY <1>4 DEF Drops
  <2>2. CASE UNCHANGED disk
    <3>1. Files' = Files
      BY <2>2 DEF Files
    <3> QED BY <2>1, <3>1 DEF DirectoryWithinLimit
  <2>3. CASE at = "save" /\ SaveFails(ChunkExtent)
    <3> DEFINE c == ChunkExtent
    <3>1. SaveFails(c) /\ c \in Names
      BY <2>3, AtExtent
    <3> HIDE DEF c
    <3>2. Files' \subseteq DOMAIN cached \cup {c}
      BY <1>4, <2>1, <3>1 DEF SaveFails, Files, TypeOK, FilesIndexed
    <3>3. SizeOf(DOMAIN cached) + Size[c] <= MaxCacheSizeOnDisk
      <4>1. ~(SizeOf(DOMAIN cached) + Size[c] > MaxCacheSizeOnDisk)
        BY <3>1 DEF SaveFails, MustEvict, TotalSizeOnDisk
      <4>2. Size[c] \in Nat
        BY <3>1, SizeAssumption
      <4> QED BY <1>m, <1>s, <4>1, <4>2
    <3>4. DOMAIN cached \cup {c} \in SUBSET Names
      BY <1>d, <3>1
    <3>5. /\ SizeOf(DOMAIN cached \cup {c}) <= SizeOf(DOMAIN cached) + Size[c]
          /\ SizeOf(Files') <= SizeOf(DOMAIN cached \cup {c}) /\ Size[c] \in Nat
          /\ SizeOf(DOMAIN cached \cup {c}) \in Nat
      BY <1>d, <3>1, <3>2, <3>4, SizeFacts
    <3> QED BY <1>m, <1>s, <3>3, <3>5
  <2> QED BY <1>4, <2>2, <2>3 DEF Drops
<1>5. CASE /\ at' = at /\ UNCHANGED stray
           /\ Tick \/ \E n \in Names : FileVanishes(n)
  <2>1. Files' \subseteq Files /\ cached' = cached
    BY <1>5 DEF Tick, FileVanishes, Files, TypeOK
  <2>2. SizeOf(Files') <= SizeOf(Files)
    BY <1>f, <2>1, SizeFacts
  <2> QED BY <1>5, <1>m, <1>s, <2>1, <2>2 DEF FilesIndexed, DirectoryWithinLimit, TotalSizeOnDisk
<1>6. CASE UNCHANGED <<cacheVars, stray>> /\ (at = "idle" <=> at' = "idle")
  <2>1. Files' = Files /\ cached' = cached
    BY <1>6 DEF Files, cacheVars
  <2> QED BY <1>6, <2>1 DEF FilesIndexed, DirectoryWithinLimit, TotalSizeOnDisk
<1> QED BY <1>1, <1>2, <1>3, <1>4, <1>5, <1>6, CacheSteps

-----------------------------------------------------------------------------
(* What is written *)

LEMMA ExtentsGrow ==
    ASSUME NEW p \in Paths, NEW n \in Nat, n < Len(ChunkExtents[p])
    PROVE  LET X == [chunk |-> ChunkExtents[p][n + 1], plaintext |-> "whole"]
           IN  /\ X \in [chunk : Chunks, plaintext : FileStates]
               /\ n = 0 => Extents(p, n + 1) = <<X>>
               /\ Extents(p, n) \in Seq([chunk : Chunks, plaintext : FileStates])
               /\ Extents(p, n + 1) = Append(Extents(p, n), X)
<1>1. Len(ChunkExtents[p]) \in Nat /\ \A i \in 1..Len(ChunkExtents[p]) : ChunkExtents[p][i] \in Chunks
  BY PathFacts
<1> DEFINE Piece == [chunk : Chunks, plaintext : FileStates]
           X == [chunk |-> ChunkExtents[p][n + 1], plaintext |-> "whole"]
           E(k) == [i \in 1..k |-> [chunk |-> ChunkExtents[p][i], plaintext |-> "whole"]]
<1>2. X \in Piece
  BY <1>1 DEF FileStates
<1>3. E(n) \in Seq(Piece)
  <2>1. \A i \in 1..n : E(n)[i] \in Piece
    BY <1>1 DEF FileStates
  <2> QED BY <2>1
<1>4. E(n + 1) = Append(E(n), X)
  OBVIOUS
<1>5. n = 0 => E(n + 1) = <<X>>
  OBVIOUS
<1> QED BY <1>2, <1>3, <1>4, <1>5 DEF Extents

Good == TypeOK /\ IndexGood /\ PartGood /\ Accounted /\ ModesAreFinal

(* An extent is written behind those before it, and the last one completes *)
(* the entry.                                                              *)
LEMMA Written ==
    ASSUME Good, at = "write", WriteExtent
    PROVE  /\ target' \in [Paths -> Seq([chunk : Chunks, plaintext : FileStates])]
           /\ \A q \in Paths \ {RelPath} : target'[q] = target[q]
           /\ target'[RelPath] = Extents(RelPath, ext + 1)
           /\ \/ Kind[RelPath] = "file" /\ ext + 1 < Len(ChunkExtents[RelPath])
                 /\ at' = "fetch" /\ ext' = ext + 1 /\ queue' = queue
              \/ NextEntry /\ target'[RelPath] = InSnapshot(RelPath)
<1> DEFINE p == RelPath
           X == [chunk |-> ChunkExtents[p][ext + 1], plaintext |-> "whole"]
           Piece == [chunk : Chunks, plaintext : FileStates]
<1>1. p \in Paths /\ ext \in Nat /\ ext < Len(ChunkExtents[p]) /\ Len(ChunkExtents[p]) \in Nat
  BY AtExtent, PathFacts DEF Good
<1>2. Extent = X
  BY DEF Extent, ChunkExtent, Good, TypeOK, IsObjCached, IndexGood
<1>3. target' = [target EXCEPT ![p] = IF ext = 0 THEN <<X>> ELSE Append(target[p], X)]
  BY <1>1, <1>2 DEF WriteExtent, Good, TypeOK
<1>4. target \in [Paths -> Seq(Piece)]
  BY DEF Good, TypeOK
<1>5. (IF ext = 0 THEN <<X>> ELSE Append(target[p], X)) = Extents(p, ext + 1)
  <2>1. ext # 0 => target[p] = Extents(p, ext)
    BY <1>1 DEF Good, PartGood
  <2> QED BY <1>1, <2>1, ExtentsGrow
<1>6. Extents(p, ext + 1) \in Seq(Piece)
  <2>1. X \in Piece /\ Extents(p, ext) \in Seq(Piece) /\ Extents(p, ext + 1) = Append(Extents(p, ext), X)
    BY <1>1, ExtentsGrow
  <2> HIDE DEF X, Piece
  <2> QED BY <2>1
<1>7. Kind[p] # "file" => ext = 0
  BY <1>1 DEF Good, PartGood
<1> HIDE DEF X, Piece
<1>8. /\ target' \in [Paths -> Seq(Piece)] /\ target'[p] = Extents(p, ext + 1)
      /\ \A q \in Paths \ {p} : target'[q] = target[q]
  BY <1>1, <1>3, <1>4, <1>5, <1>6
<1>9. ~(Kind[p] = "file" /\ ext + 1 < Len(ChunkExtents[p])) => target'[p] = InSnapshot(p)
  BY <1>1, <1>7, <1>8 DEF InSnapshot
<1> QED BY <1>8, <1>9 DEF WriteExtent, Piece

LEMMA ModeTypes ==
    ASSUME NEW d, CreateFullPath(d), mode \in [Directories -> {"none", "0755", "final"}]
    PROVE  mode' \in [Directories -> {"none", "0755", "final"}]
BY DEF CreateFullPath

-----------------------------------------------------------------------------
(* The steps *)

LEMMA CountTypes ==
    ASSUME TypeOK, [Next]_vars
    PROVE  stray' \in BOOLEAN /\ restores' \in Nat /\ faults' \in Nat
<1>1. restores' \in Nat /\ faults' \in Nat
  <2>1. restores' \in {restores, restores + 1} /\ faults' \in {faults, faults + 1}
    <3>1. CASE Start
      BY <3>1 DEF Start, StartRestore
    <3>2. CASE Step
      BY <3>2 DEF Step, NextRelPath, FetchExtent, Evict, SaveChunk, RestoreDirEntry,
         FinishRestore, Fault, counts
    <3>3. CASE CancelRestore \/ Clock \/ Vanish \/ UNCHANGED vars
      BY <3>3 DEF CancelRestore, Clock, Vanish, Fault, counts, vars
    <3>4. CASE DownloadFails \/ SaveChunkFails \/ RestoreDirEntryFails \/ Crash
      BY <3>4 DEF DownloadFails, SaveChunkFails, RestoreDirEntryFails, Crash, Die, Fault
    <3> QED BY <3>1, <3>2, <3>3, <3>4 DEF Next
  <2> QED BY <2>1 DEF TypeOK
<1>2. stray' = stray \/ stray' = TRUE
  <2>1. CASE Start
    BY <2>1 DEF Start, StartRestore
  <2>2. CASE Step
    BY <2>2 DEF Step, NextRelPath, FetchExtent, Evict, SaveChunk, RestoreDirEntry, FinishRestore
  <2>3. CASE CancelRestore \/ Clock \/ Vanish \/ UNCHANGED vars
    BY <2>3 DEF CancelRestore, Clock, Vanish, vars
  <2>4. CASE DownloadFails \/ SaveChunkFails \/ RestoreDirEntryFails \/ Crash
    BY <2>4 DEF DownloadFails, SaveChunkFails, RestoreDirEntryFails, Crash
  <2> QED BY <2>1, <2>2, <2>3, <2>4 DEF Next
<1> QED BY <1>1, <1>2 DEF TypeOK

LEMMA StartGood == ASSUME Good, Start, [Next]_vars PROVE Good'
<1>1. PICK who \in {"daemon", "cli"}, s \in Selections : StartRestore(who, s)
  BY DEF Start
<1> DEFINE chosen == IF who = "daemon" THEN FilterRelPaths(s, {}) ELSE FilterRelPaths({}, s)
<1>2. chosen \subseteq Paths
  BY SnapshotAssumption DEF FilterRelPaths
<1>3. /\ wanted' = chosen /\ reported' = {} /\ outcome' = "none" /\ queue' = chosen /\ ext' = 0
      /\ at' = "entry" /\ by' = who /\ UNCHANGED <<target, mode, dirChmodQueue>> /\ at = "idle"
  BY <1>1 DEF StartRestore, dest
<1> HIDE DEF chosen
<1>4. TypeOK' /\ IndexGood'
  BY <1>2, <1>3, CacheTypes, CountTypes DEF Good, TypeOK, PartGood
<1> QED BY <1>3, <1>4 DEF Good, PartGood, Accounted, ModesAreFinal

LEMMA NextRelPathGood == ASSUME Good, NextRelPath, [Next]_vars PROVE Good'
<1>1. RelPath \in queue /\ RelPath \in wanted /\ RelPath \in Paths
  BY AtEntry DEF NextRelPath, Good
<1>2. UNCHANGED <<target, mode, dirChmodQueue, wanted, outcome, stray, restores, faults, by>>
  BY DEF NextRelPath, dest, counts
<1>r. Restored' = Restored
  BY <1>2 DEF Restored
<1>3. CASE /\ ChunkExtents[RelPath] # <<>> /\ at' = "fetch" /\ UNCHANGED <<queue, ext, reported>>
  <2>1. RelPath' = RelPath /\ ext = 0 /\ at = "entry"
    BY <1>3 DEF RelPath, Good, PartGood, NextRelPath
  <2>2. 0 < Len(ChunkExtents[RelPath])
    BY <1>1, <1>3, PathFacts
  <2>3. TypeOK' /\ IndexGood'
    BY <1>1, <1>2, <1>3, <2>1, <2>2, CacheTypes DEF Good, TypeOK
  <2> QED BY <1>2, <1>3, <1>r, <2>1, <2>3 DEF Good, PartGood, Accounted, ModesAreFinal
<1>4. CASE reported' = reported \cup {RelPath} /\ NextEntry /\ at = "entry"
  <2>1. TypeOK' /\ IndexGood'
    BY <1>1, <1>2, <1>4, CacheTypes DEF Good, TypeOK, NextEntry
  <2> QED BY <1>2, <1>4, <1>r, <2>1 DEF Good, PartGood, Accounted, ModesAreFinal, NextEntry
<1> QED BY <1>3, <1>4 DEF NextRelPath, entry

LEMMA CacheStepGood ==
    ASSUME Good, FetchExtent \/ Evict \/ SaveChunk \/ Clock \/ Vanish, [Next]_vars
    PROVE  Good'
<1>1. UNCHANGED <<queue, ext, target, mode, dirChmodQueue, wanted, reported, outcome, by>>
  BY DEF FetchExtent, Evict, SaveChunk, Clock, Vanish, entry, dest, result
<1>2. RelPath' = RelPath /\ Restored' = Restored /\ ChunkExtent' = ChunkExtent
  BY <1>1 DEF RelPath, Restored, ChunkExtent
<1>3. /\ at' \in {"idle", "entry", "fetch", "save", "write"}
      /\ at' # at => at \in {"fetch", "save"} /\ at' \in {"save", "write"}
      /\ at' = "write" => IsObjCached(ChunkExtent)'
  <2>1. CASE FetchExtent
    BY <1>2, <2>1 DEF FetchExtent, IsObjCached, cacheVars, Good, TypeOK
  <2>2. CASE SaveChunk
    BY <1>2, <2>2 DEF SaveChunk, SaveObjToCache, IsObjCached
  <2>3. CASE Evict
    BY <1>2, <2>3 DEF Evict
  <2>4. CASE Clock \/ Vanish
    BY <1>2, <2>4 DEF Clock, Vanish, Tick, FileVanishes, Good, TypeOK, IsObjCached
  <2> QED BY <2>1, <2>2, <2>3, <2>4
<1>4. TypeOK' /\ IndexGood'
  BY <1>1, <1>2, <1>3, CacheTypes, CountTypes DEF Good, TypeOK
<1> QED BY <1>1, <1>2, <1>3, <1>4 DEF Good, PartGood, Accounted, ModesAreFinal

LEMMA EntryGood ==
    ASSUME Good, RestoreDirEntry \/ RestoreDirEntryFails, [Next]_vars
    PROVE  Good'
<1>1. /\ RelPath \in queue /\ RelPath \in wanted /\ RelPath \in Paths /\ at = "write"
      /\ ext \in Nat /\ ext < Len(ChunkExtents[RelPath]) /\ ChunkExtents[RelPath] # <<>>
      /\ outcome = "none"
  BY AtExtent DEF RestoreDirEntry, RestoreDirEntryFails, Good, Accounted
<1>2. /\ UNCHANGED <<by, wanted, outcome>>
      /\ reported' \in {reported, reported \cup {RelPath}}
      /\ RestoreDirEntryFails => RelPath \in reported'
  BY DEF RestoreDirEntry, RestoreDirEntryFails, result
<1>3. /\ mode' \in [Directories -> {"none", "0755", "final"}]
      /\ dirChmodQueue' \in {dirChmodQueue, dirChmodQueue \cup ({RelPath} \cap Directories)}
      /\ WriteExtent /\ RelPath \in Directories => RelPath \in dirChmodQueue' \cup reported'
  <2>1. mode' = mode \/ \E d \in Paths \cup {Top} : CreateFullPath(d)
    <3>1. RestoreDirectory => \E d \in Paths \cup {Top} : CreateFullPath(d)
      BY <1>1 DEF RestoreDirectory
    <3>2. RestoreOther => mode' = mode \/ \E d \in Paths \cup {Top} : CreateFullPath(d)
      <4>1. Dir[RelPath] \in Paths \cup {Top}
        BY <1>1, PathFacts DEF Directories
      <4> QED BY <4>1 DEF RestoreOther
    <3> QED BY <3>1, <3>2 DEF RestoreDirEntry, RestoreDirEntryFails, dest
  <2>2. mode' \in [Directories -> {"none", "0755", "final"}]
    BY <2>1, ModeTypes DEF Good, TypeOK
  <2>3. /\ dirChmodQueue' \in {dirChmodQueue, dirChmodQueue \cup ({RelPath} \cap Directories)}
        /\ RestoreDirEntry /\ RelPath \in Directories => RelPath \in dirChmodQueue'
    BY <1>1 DEF RestoreDirEntry, RestoreDirEntryFails, RestoreDirectory, RestoreOther, dest,
       Directories
  <2> QED BY <1>2, <2>2, <2>3
<1>4. \/ WriteExtent
      \/ NextEntry /\ UNCHANGED target /\ RelPath \in reported'
  BY <1>2 DEF RestoreDirEntry, RestoreDirEntryFails, dest
<1>5. CASE NextEntry /\ UNCHANGED target /\ RelPath \in reported'
  <2>1. Restored' = Restored
    BY <1>5 DEF Restored
  <2>2. TypeOK' /\ IndexGood'
    BY <1>1, <1>2, <1>3, <1>5, CacheTypes, CountTypes DEF Good, TypeOK, NextEntry
  <2> QED BY <1>1, <1>2, <1>3, <1>5, <2>1, <2>2
          DEF Good, PartGood, Accounted, ModesAreFinal, NextEntry
<1>6. CASE WriteExtent
  <2>1. /\ target' \in [Paths -> Seq([chunk : Chunks, plaintext : FileStates])]
        /\ \A q \in Paths \ {RelPath} : target'[q] = target[q]
        /\ target'[RelPath] = Extents(RelPath, ext + 1)
    BY <1>1, <1>6, Written
  <2>2. Restored \ {RelPath} \subseteq Restored'
    BY <2>1 DEF Restored
  <2>3. CASE /\ Kind[RelPath] = "file" /\ ext + 1 < Len(ChunkExtents[RelPath])
             /\ at' = "fetch" /\ ext' = ext + 1 /\ queue' = queue
    <3>1. RelPath' = RelPath
      BY <2>3 DEF RelPath
    <3>2. TypeOK' /\ IndexGood'
      <4>1. ext' \in Nat /\ ext' < Len(ChunkExtents[RelPath']) /\ queue' # {} /\ at' = "fetch"
        BY <1>1, <2>3, <3>1
      <4>2. dirChmodQueue' \subseteq Directories \cap wanted /\ reported' \subseteq wanted
        BY <1>1, <1>2, <1>3 DEF Good, TypeOK
      <4> QED BY <1>2, <1>3, <2>1, <2>3, <4>1, <4>2, CacheTypes, CountTypes DEF Good, TypeOK
    <3>3. PartGood'
      BY <2>1, <2>3, <3>1 DEF PartGood
    <3>4. Accounted'
      BY <1>1, <1>2, <1>3, <2>2, <2>3 DEF Good, Accounted
    <3> QED BY <1>1, <1>2, <3>2, <3>3, <3>4 DEF Good, ModesAreFinal
  <2>4. CASE NextEntry /\ target'[RelPath] = InSnapshot(RelPath)
    <3>1. RelPath \in Restored'
      BY <1>1, <2>4 DEF Restored
    <3>2. TypeOK' /\ IndexGood'
      BY <1>1, <1>2, <1>3, <2>1, <2>4, CacheTypes, CountTypes DEF Good, TypeOK, NextEntry
    <3>3. Accounted'
      BY <1>1, <1>2, <1>3, <1>6, <2>2, <2>4, <3>1 DEF Good, Accounted, NextEntry
    <3> QED BY <1>1, <1>2, <2>4, <3>2, <3>3 DEF Good, PartGood, ModesAreFinal, NextEntry
  <2> QED BY <1>1, <1>6, <2>3, <2>4, Written
<1> QED BY <1>4, <1>5, <1>6

LEMMA FinishGood == ASSUME Good, FinishRestore, [Next]_vars PROVE Good'
<1>1. /\ at = "entry" /\ queue = {} /\ at' = "idle" /\ queue' = {} /\ ext' = 0
      /\ dirChmodQueue' = {} /\ outcome' = "done" /\ UNCHANGED <<by, wanted, target>>
  BY DEF FinishRestore, Leave
<1>2. /\ mode' \in [Directories -> {"none", "0755", "final"}]
      /\ reported \subseteq reported' /\ reported' \subseteq reported \cup dirChmodQueue
      /\ \A d \in dirChmodQueue : d \in reported' \/ mode'[d] = "final"
  BY DEF FinishRestore, SetFinalMode, Good, TypeOK
<1>3. Directories \cap wanted \subseteq dirChmodQueue \cup reported
  BY <1>1 DEF Good, Accounted
<1>4. TypeOK' /\ IndexGood'
  BY <1>1, <1>2, CacheTypes, CountTypes DEF Good, TypeOK
<1> QED BY <1>1, <1>2, <1>3, <1>4 DEF Good, PartGood, Accounted, ModesAreFinal

LEMMA EndGood ==
    ASSUME Good, CancelRestore \/ DownloadFails \/ SaveChunkFails \/ Crash, [Next]_vars
    PROVE  Good'
<1>1. /\ at # "idle" /\ at' = "idle" /\ queue' = {} /\ ext' = 0
      /\ dirChmodQueue' = {} /\ outcome' = "abandoned" /\ UNCHANGED <<by, wanted, mode, reported>>
  BY DEF CancelRestore, DownloadFails, SaveChunkFails, Crash, Die, Leave
<1>2. target' \in [Paths -> Seq([chunk : Chunks, plaintext : FileStates])]
  <2>1. CASE UNCHANGED target
    BY <2>1 DEF Good, TypeOK
  <2>2. CASE target' = [target EXCEPT ![RelPath] = <<>>]
    <3>1. <<>> \in Seq([chunk : Chunks, plaintext : FileStates])
      OBVIOUS
    <3> QED BY <2>2, <3>1 DEF Good, TypeOK
  <2> QED BY <2>1, <2>2 DEF CancelRestore, DownloadFails, SaveChunkFails, Crash
<1>3. TypeOK' /\ IndexGood'
  BY <1>1, <1>2, CacheTypes, CountTypes DEF Good, TypeOK
<1> QED BY <1>1, <1>3 DEF Good, PartGood, Accounted, ModesAreFinal

LEMMA NextKeeps == ASSUME RestoreInv, [Next]_vars PROVE RestoreInv'
<1>1. Good /\ FilesIndexed /\ DirectoryWithinLimit
  BY DEF RestoreInv, Good
<1>2. ASSUME UNCHANGED vars PROVE Good'
  <2>1. /\ RelPath' = RelPath /\ ChunkExtent' = ChunkExtent /\ Restored' = Restored
        /\ UNCHANGED <<now, disk, cached, at, by, queue, ext, target, mode, dirChmodQueue>>
        /\ UNCHANGED <<wanted, reported, outcome, stray, restores, faults>>
    BY <1>2 DEF vars, cacheVars, entry, dest, result, counts, RelPath, ChunkExtent, Restored
  <2>2. TypeOK' /\ IndexGood'
    BY <1>1, <2>1, CacheTypes DEF Good, TypeOK, IsObjCached
  <2>3. PartGood'
    BY <1>1, <2>1 DEF Good, PartGood
  <2>4. Accounted' /\ ModesAreFinal'
    BY <1>1, <2>1 DEF Good, Accounted, ModesAreFinal
  <2> QED BY <2>2, <2>3, <2>4 DEF Good
<1>3. Good'
  BY <1>1, <1>2, StartGood, NextRelPathGood, CacheStepGood, EntryGood, FinishGood, EndGood
     DEF Next, Step
<1>4. FilesIndexed' /\ DirectoryWithinLimit'
  BY <1>1, <1>3, CacheKeepsLimit DEF Good
<1> QED BY <1>3, <1>4 DEF RestoreInv, Good

LEMMA InitGood == ASSUME Init PROVE RestoreInv
<1>1. TypeOK
  <2>1. target \in [Paths -> Seq([chunk : Chunks, plaintext : FileStates])]
    <3>1. <<>> \in Seq([chunk : Chunks, plaintext : FileStates])
      OBVIOUS
    <3> QED BY <3>1 DEF Init
  <2>2. DOMAIN cached \subseteq Names /\ cached \in [DOMAIN cached -> CachedChunk]
    BY DEF Init
  <2>3. disk \in [Names -> FileStates] /\ mode \in [Directories -> {"none", "0755", "final"}]
    BY DEF Init, FileStates
  <2>4. stray \in BOOLEAN
    BY DEF Init
  <2> QED BY <2>1, <2>2, <2>3, <2>4 DEF Init, TypeOK
<1>2. IndexGood /\ PartGood /\ Accounted /\ FilesIndexed /\ ModesAreFinal
  BY DEF Init, IndexGood, PartGood, Accounted, FilesIndexed, ModesAreFinal
<1>3. DirectoryWithinLimit
  <2>1. Files = Foreign
    BY DEF Init, Files, Names
  <2> QED BY <2>1, SizeAssumption DEF DirectoryWithinLimit
<1> QED BY <1>1, <1>2, <1>3 DEF RestoreInv

(* Every entry of the loop that is done with is in the destination as in   *)
(* the snapshot or reported, the index holds only chunks that decrypted    *)
(* and, unless a file could not be read or removed, every file of the      *)
(* cache directory (Restore, NewChunkCache, saveObjToCache).               *)
THEOREM RestoreInvariant == Spec => []RestoreInv
<1>1. Init => RestoreInv
  BY InitGood
<1>2. RestoreInv /\ [Next]_vars => RestoreInv'
  BY NextKeeps
<1> QED BY <1>1, <1>2, PTL DEF Spec

(* The types, and that FetchExtentIntoBuffer only cuts an extent out of a  *)
(* chunk that is in the index.                                             *)
THEOREM RestoreTypes == Spec => []TypeOK
<1>1. RestoreInv => TypeOK
  BY DEF RestoreInv
<1> QED BY <1>1, RestoreInvariant, PTL

(* After a restore every directory it was asked for has the mode of the    *)
(* snapshot or was reported (the dirChmodQueue of Restore).                *)
THEOREM DirectoryModes == Spec => []ModesAreFinal
<1>1. RestoreInv => ModesAreFinal
  BY DEF RestoreInv
<1> QED BY <1>1, RestoreInvariant, PTL

(* What is in the cache directory stays within MaxCacheSizeOnDisk, across  *)
(* crashes and failed writes (saveObjToCache, NewChunkCache).              *)
THEOREM CacheWithinLimit == Spec => []DirectoryWithinLimit
<1>1. RestoreInv => DirectoryWithinLimit
  BY DEF RestoreInv
<1> QED BY <1>1, RestoreInvariant, PTL

-----------------------------------------------------------------------------
(* The promise of RestoreService *)

LEMMA NotEmpty ==
    ASSUME NEW p \in Paths, ChunkExtents[p] # <<>>
    PROVE  InSnapshot(p) # <<>>
<1>1. Len(ChunkExtents[p]) \in Nat /\ Len(ChunkExtents[p]) > 0
  BY PathFacts
<1>2. PICK n \in Nat : n > 0 /\ InSnapshot(p) = Extents(p, n)
  BY <1>1 DEF InSnapshot
<1>3. DOMAIN Extents(p, n) = 1..n
  BY DEF Extents
<1>4. 1 \in DOMAIN InSnapshot(p)
  BY <1>2, <1>3
<1> QED BY <1>4

LEMMA ServiceInit == ASSUME Init PROVE Service!Init
<1>1. \A p \in Paths : target[p] = <<>>
  BY DEF Init
<1>2. Restored = {}
  BY <1>1, NotEmpty DEF Restored
<1> QED BY <1>2 DEF Init, Service!Init

(* Only the entry being restored comes or goes.                            *)
LEMMA OneEntry ==
    ASSUME TypeOK, at = "write", \A q \in Paths \ {RelPath} : target'[q] = target[q]
    PROVE  /\ Restored' \ {RelPath} = Restored \ {RelPath}
           /\ Restored' \in {Restored, Restored \ {RelPath}, Restored \cup {RelPath}}
<1>1. RelPath \in Paths
  BY AtExtent
<1>2. \A q \in Paths \ {RelPath} : q \in Restored' <=> q \in Restored
  BY DEF Restored
<1>3. Restored \subseteq Paths /\ Restored' \subseteq Paths
  BY DEF Restored
<1>4. Restored' \ {RelPath} = Restored \ {RelPath}
  BY <1>2, <1>3
<1>5. RelPath \in Restored /\ RelPath \in Restored' => Restored' = Restored
  BY <1>4
<1>6. RelPath \notin Restored /\ RelPath \in Restored' => Restored' = Restored \cup {RelPath}
  BY <1>4
<1>7. RelPath \notin Restored' => Restored' = Restored \ {RelPath}
  BY <1>4
<1> QED BY <1>4, <1>5, <1>6, <1>7

LEMMA ServiceBegins == ASSUME Good, Start, [Next]_vars PROVE Service!Begin
<1>1. PICK who \in {"daemon", "cli"}, c \in Selections : StartRestore(who, c)
  BY DEF Start
<1>2. /\ at = "idle" /\ at' = "entry" /\ reported' = {} /\ outcome' = "none"
      /\ UNCHANGED target
  BY <1>1 DEF StartRestore, dest
<1>3. Restored' = Restored
  BY <1>2 DEF Restored
<1>4. wanted' \in SUBSET Paths
  BY StartGood DEF Good, TypeOK
<1> QED BY <1>2, <1>3, <1>4 DEF Service!Begin

LEMMA ServiceEntry ==
    ASSUME Good, RestoreDirEntry, [Next]_vars
    PROVE  \E p \in Paths : Service!Overwrite(p) \/ Service!Deliver(p) \/ UNCHANGED Service!vars
<1>1. RelPath \in wanted /\ RelPath \in Paths /\ at = "write"
  BY AtExtent DEF RestoreDirEntry, Good
<1>2. UNCHANGED <<wanted, reported, outcome>> /\ at' # "idle" /\ WriteExtent
  BY DEF RestoreDirEntry, WriteExtent, NextEntry, result
<1>3. Restored' \in {Restored, Restored \ {RelPath}, Restored \cup {RelPath}}
  BY <1>1, <1>2, OneEntry, Written DEF Good
<1>4. CASE Restored' = Restored
  BY <1>1, <1>2, <1>4 DEF Service!vars
<1>5. CASE Restored' = Restored \ {RelPath}
  BY <1>1, <1>2, <1>5 DEF Service!Overwrite
<1>6. CASE Restored' = Restored \cup {RelPath}
  BY <1>1, <1>2, <1>6 DEF Service!Deliver
<1> QED BY <1>3, <1>4, <1>5, <1>6

LEMMA ServiceReports ==
    ASSUME Good, RestoreDirEntryFails, [Next]_vars
    PROVE  Service!Report(RelPath) /\ RelPath \in Paths
<1>1. /\ RelPath \in wanted /\ RelPath \in Paths /\ at = "write" /\ ChunkExtents[RelPath] # <<>>
      /\ ext \in Nat
  BY AtExtent DEF RestoreDirEntryFails, Good
<1>2. UNCHANGED <<wanted, outcome>> /\ reported' = reported \cup {RelPath}
  BY DEF RestoreDirEntryFails
<1>3. at' # "idle"
  BY DEF RestoreDirEntryFails, WriteExtent, NextEntry
<1>4. Restored' \in {Restored, Restored \cup {RelPath}}
  <2>1. CASE UNCHANGED target
    <3>1. Restored' = Restored
      BY <2>1 DEF Restored
    <3> QED BY <3>1
  <2>2. CASE WriteExtent /\ (Kind[RelPath] = "dir" \/ ext + 1 = Len(ChunkExtents[RelPath]))
    <3>1. target'[RelPath] = InSnapshot(RelPath)
      BY <1>1, <2>2, Written, PathFacts
    <3>2. RelPath \in Restored'
      BY <1>1, <3>1 DEF Restored
    <3>3. Restored' \in {Restored, Restored \ {RelPath}, Restored \cup {RelPath}}
      BY <1>1, <2>2, OneEntry, Written DEF Good
    <3> QED BY <3>2, <3>3
  <2> QED BY <2>1, <2>2 DEF RestoreDirEntryFails, dest
<1> QED BY <1>1, <1>2, <1>3, <1>4 DEF Service!Report

LEMMA ServiceDone == ASSUME Good, FinishRestore PROVE Service!Done
<1>1. /\ at = "entry" /\ queue = {} /\ at' = "idle" /\ outcome' = "done"
      /\ UNCHANGED <<wanted, target>>
  BY DEF FinishRestore, Leave
<1>2. Restored' = Restored
  BY <1>1 DEF Restored
<1>3. wanted \subseteq Restored \cup reported
  BY <1>1 DEF Good, Accounted
<1>4. reported' \in {reported \cup S : S \in SUBSET wanted}
  <2>1. CASE reported' = reported
    <3>1. reported' = reported \cup {} /\ {} \in SUBSET wanted
      BY <2>1
    <3> QED BY <3>1
  <2>2. CASE \E d \in dirChmodQueue : reported' = reported \cup {d}
    <3>1. PICK d \in dirChmodQueue : reported' = reported \cup {d}
      BY <2>2
    <3>2. {d} \in SUBSET wanted
      BY DEF Good, TypeOK
    <3> QED BY <3>1, <3>2
  <2> QED BY <2>1, <2>2 DEF FinishRestore
<1> QED BY <1>1, <1>2, <1>3, <1>4 DEF Service!Done

LEMMA ServiceAbandons ==
    ASSUME Good, CancelRestore \/ DownloadFails \/ SaveChunkFails \/ Crash
    PROVE  Service!Abandon
<1>1. at # "idle" /\ at' = "idle" /\ outcome' = "abandoned" /\ UNCHANGED <<wanted, reported>>
  BY DEF CancelRestore, DownloadFails, SaveChunkFails, Crash, Die, Leave
<1>2. Restored' \in {Restored} \cup {Restored \ {p} : p \in wanted}
  <2>1. CASE UNCHANGED target
    <3>1. Restored' = Restored
      BY <2>1 DEF Restored
    <3> QED BY <3>1
  <2>2. CASE at = "write" /\ target' = [target EXCEPT ![RelPath] = <<>>]
    <3>1. RelPath \in wanted /\ RelPath \in Paths /\ ChunkExtents[RelPath] # <<>>
      BY <2>2, AtExtent DEF Good
    <3>2. target'[RelPath] = <<>> /\ \A q \in Paths \ {RelPath} : target'[q] = target[q]
      BY <2>2, <3>1 DEF Good, TypeOK
    <3>3. Restored' \ {RelPath} = Restored \ {RelPath}
      BY <2>2, <3>2, OneEntry DEF Good
    <3>4. RelPath \notin Restored'
      BY <3>1, <3>2, NotEmpty DEF Restored
    <3>5. Restored' = Restored \ {RelPath}
      BY <3>3, <3>4
    <3> QED BY <3>1, <3>5
  <2> QED BY <2>1, <2>2 DEF CancelRestore, DownloadFails, SaveChunkFails, Crash
<1> QED BY <1>1, <1>2 DEF Service!Abandon

LEMMA ServiceNext == ASSUME Good, [Next]_vars PROVE [Service!Next]_Service!vars
<1>1. CASE NextRelPath
  <2>1. RelPath \in wanted /\ RelPath \in Paths
    BY <1>1, AtEntry DEF NextRelPath, Good
  <2>2. UNCHANGED <<target, wanted, outcome>> /\ at # "idle" /\ at' # "idle"
    BY <1>1 DEF NextRelPath, NextEntry, dest
  <2>3. Restored' = Restored
    BY <2>2 DEF Restored
  <2>4. reported' = reported \/ reported' = reported \cup {RelPath}
    BY <1>1 DEF NextRelPath
  <2>5. CASE reported' = reported
    BY <2>2, <2>3, <2>5 DEF Service!vars
  <2>6. CASE reported' = reported \cup {RelPath}
    BY <2>1, <2>2, <2>3, <2>6 DEF Service!Report, Service!Next
  <2> QED BY <2>4, <2>5, <2>6
<1>2. CASE FetchExtent \/ Evict \/ SaveChunk \/ Clock \/ Vanish \/ UNCHANGED vars
  <2>1. UNCHANGED <<target, wanted, reported, outcome>> /\ (at # "idle" <=> at' # "idle")
    BY <1>2 DEF FetchExtent, Evict, SaveChunk, Clock, Vanish, vars, dest, result
  <2>2. Restored' = Restored
    BY <2>1 DEF Restored
  <2> QED BY <2>1, <2>2 DEF Service!vars
<1>3. CASE Start
  BY <1>3, ServiceBegins DEF Service!Next
<1>4. CASE RestoreDirEntry
  BY <1>4, ServiceEntry DEF Service!Next
<1>5. CASE RestoreDirEntryFails
  BY <1>5, ServiceReports DEF Service!Next
<1>6. CASE FinishRestore
  BY <1>6, ServiceDone DEF Service!Next
<1>7. CASE CancelRestore \/ DownloadFails \/ SaveChunkFails \/ Crash
  BY <1>7, ServiceAbandons DEF Service!Next
<1> QED BY <1>1, <1>2, <1>3, <1>4, <1>5, <1>6, <1>7 DEF Next, Step

(* A restore through the chunk cache implements RestoreService: what it    *)
(* reports as done is in the destination with the bytes of the snapshot,   *)
(* whatever is left in the cache directory and whatever is evicted between *)
(* two extents (RestoreDirEntry, FetchExtentIntoBuffer).                   *)
THEOREM RestoreKeepsPromise == Spec => KeepsPromise
<1>1. Init => Service!Init
  BY ServiceInit
<1>2. RestoreInv /\ [Next]_vars => [Service!Next]_Service!vars
  BY ServiceNext DEF RestoreInv, Good
<1> QED BY <1>1, <1>2, RestoreInvariant, PTL DEF Spec, KeepsPromise, Service!Spec
=============================================================================
