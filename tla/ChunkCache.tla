----------------------------- MODULE ChunkCache -----------------------------
(***************************************************************************)
(* The cache of chunks a restore reads through (pkg/backup/chunk_cache.go):*)
(* ciphertext in files of a cache directory, which outlives the process,   *)
(* and an index in memory with the plaintext of the same chunks.  The      *)
(* index is bounded by MaxCacheSizeOnDisk; a chunk is evicted by the time  *)
(* it was stored, in whole seconds.                                        *)
(*                                                                         *)
(* Chunk names are numbers in the order WalkDir visits their files.        *)
(***************************************************************************)
EXTENDS Integers, FiniteSets, Functions

CONSTANTS
    Chunks,              \* the names of the chunks in the bucket
    Foreign,             \* names of files left by a restore from another bucket
    Size,                \* the length of each
    MaxCacheSizeOnDisk

Names == Chunks \cup Foreign

ASSUME NamesAssumption == Names \subseteq Nat /\ IsFiniteSet(Names) /\ Chunks \cap Foreign = {}
SizeOf(S) == SumFunctionOnSet(Size, S)

\* What another restore left was within the same limit.
ASSUME SizeAssumption ==
    /\ Size \in [Names -> Nat \ {0}]
    /\ MaxCacheSizeOnDisk \in Nat
    /\ SizeOf(Foreign) <= MaxCacheSizeOnDisk

VARIABLES
    now,     \* time.Now().Unix()
    disk,    \* the cache directory
    cached   \* ChunkCache.chunks: when stored, and the plaintext

cacheVars == <<now, disk, cached>>

\* Of a file: not there, created and not written, cut short, complete.
FileStates == {"none", "empty", "part", "whole"}

CachedChunk == [lastUsedUnixTime : Nat, plaintext : FileStates]

\* The files with something in them.
Files == {n \in Names : disk[n] \in {"part", "whole"}}

-----------------------------------------------------------------------------
\* Mutant: whatever was read is taken for the plaintext.
DecryptAnything(n, ciphertext) == TRUE

\* DecryptBufferReturningNonce authenticates: it fails on a chunk that was cut
\* short and on one under the key of another bucket.
Decrypts(n, ciphertext) == ciphertext = "whole" /\ n \in Chunks

IsObjCached(n) == n \in DOMAIN cached

\* Mutant: a chunk that does not fit beside the others is stored all the same.
TotalSizeOfNothing == 0

TotalSizeOnDisk == SizeOf(DOMAIN cached)

Forget(n) == [m \in DOMAIN cached \ {n} |-> cached[m]]

Stamp(n, plaintext) == [lastUsedUnixTime |-> now, plaintext |-> plaintext]

\* The chunks evictLeastRecentlyUsed may choose (the map has no order): the
\* oldest, unless that is of this very second.
LeastRecentlyUsed ==
    {n \in DOMAIN cached :
        /\ cached[n].lastUsedUnixTime < now
        /\ \A m \in DOMAIN cached :
              cached[n].lastUsedUnixTime <= cached[m].lastUsedUnixTime}

-----------------------------------------------------------------------------
\* A second passes.  It makes a difference once something was stored in it.
Tick ==
    /\ \E n \in DOMAIN cached : cached[n].lastUsedUnixTime = now
    /\ now' = now + 1
    /\ UNCHANGED <<disk, cached>>

\* Somebody else tidies the cache directory.
FileVanishes(n) ==
    /\ disk[n] # "none"
    /\ disk' = [disk EXCEPT ![n] = "none"]
    /\ UNCHANGED <<now, cached>>

\* NewChunkCache: the files walked are indexed, or removed if they do not
\* decrypt and are not stuck (a failing os.Remove is only logged); a file that
\* cannot be read ends the walk.  Empty ones are ignored.  Of a directory that
\* cannot be created nothing is walked, and the calls that save in it fail.
NewChunkCache(walked, stuck) ==
    LET seen == walked \cap Files
        good == {n \in seen : Decrypts(n, disk[n])}
    IN  /\ cached' = [n \in good |-> Stamp(n, disk[n])]
        /\ disk' = [n \in Names |-> IF n \in seen \ (good \cup stuck) THEN "none" ELSE disk[n]]
        /\ UNCHANGED now

MustEvict(c) == TotalSizeOnDisk + Size[c] > MaxCacheSizeOnDisk

\* Mutant: the file goes, the entry of the index stays.
EvictForgetsIndex(c, removed) ==
    /\ MustEvict(c)
    /\ \E n \in LeastRecentlyUsed :
          disk' = IF removed THEN [disk EXCEPT ![n] = "none"] ELSE disk
    /\ UNCHANGED <<now, cached>>

\* One round of saveObjToCache's loop.  With nothing old enough to evict it
\* goes round until the clock has moved.  A failing os.Remove is only logged.
EvictLeastRecentlyUsed(c, removed) ==
    /\ MustEvict(c)
    /\ \E n \in LeastRecentlyUsed :
          /\ cached' = Forget(n)
          /\ disk' = IF removed THEN [disk EXCEPT ![n] = "none"] ELSE disk
    /\ UNCHANGED now

\* Mutant: the file is written and the index forgotten.
SaveWithoutIndex(c) ==
    /\ ~MustEvict(c)
    /\ disk' = [disk EXCEPT ![c] = "whole"]
    /\ UNCHANGED <<now, cached>>

\* The rest of saveObjToCache.
SaveObjToCache(c) ==
    /\ ~MustEvict(c)
    /\ disk' = [disk EXCEPT ![c] = "whole"]
    /\ cached' = [n \in DOMAIN cached \cup {c} |->
                     IF n = c THEN Stamp(c, "whole") ELSE cached[n]]
    /\ UNCHANGED now

\* One of its calls fails (or the process dies in it): the file is as it was,
\* created, or written in part.  Nothing is indexed, and the caller slices the
\* plaintext of an entry that is not there.
SaveFails(c) ==
    /\ ~MustEvict(c)
    /\ \E left \in {disk[c], "empty", "part"} : disk' = [disk EXCEPT ![c] = left]
=============================================================================
