----------------------------- MODULE UsageProofs -----------------------------
(***************************************************************************)
(* Usage reports for any window, any number of goroutines, transfers,      *)
(* backups and failures: no byte is reported twice or lost, and what was   *)
(* shown of a day stays, each under the condition that the property names. *)
(***************************************************************************)
EXTENDS Usage, SumTheorems

-----------------------------------------------------------------------------
(* Types *)

LEMMA DaysFinite == IsFiniteSet(Days)
BY FS_Interval, UsageAssumption DEF Days

LEMMA CutType == TypeOK => Cut \in Nat
BY UsageAssumption DEF TypeOK, Cut, Days

LEMMA TablesFields ==
    ASSUME NEW t \in Tables
    PROVE  t.space \in [Days -> Nat] /\ t.bandwidth \in [Days -> Nat]
BY DEF Tables

LEMMA TidyType ==
    ASSUME NEW t \in [Days -> Nat]
    PROVE  Tidy(t) \in [Days -> Nat] /\ \A d \in Days : Tidy(t)[d] <= t[d]
BY DEF Tidy

LEMMA SumTableType ==
    ASSUME NEW t \in [Days -> Nat]
    PROVE  Sum(t) \in Nat
BY SumType, DaysFinite DEF Sum

(* Deleting old rows removes bytes.                                        *)
LEMMA TidySum ==
    ASSUME NEW t \in [Days -> Nat]
    PROVE  Sum(Tidy(t)) <= Sum(t)
<1>1. Tidy(t) \in [Days -> Nat] /\ \A d \in Days : Tidy(t)[d] <= t[d]
  BY TidyType
<1> DEFINE u == Tidy(t)
<1>2. \A d \in Days : u[d] \in Int /\ t[d] \in Int /\ u[d] <= t[d]
  BY <1>1
<1> HIDE DEF u
<1>3. SumFunctionOnSet(u, Days) <= SumFunctionOnSet(t, Days)
  BY <1>2, SumMonotone, DaysFinite
<1> QED BY <1>3 DEF Sum, u

(* A row adds its bytes to the total.                                      *)
LEMMA RowSum ==
    ASSUME NEW t \in [Days -> Nat], NEW d \in Days, NEW n \in Nat
    PROVE  /\ [t EXCEPT ![d] = @ + n] \in [Days -> Nat]
           /\ Sum([t EXCEPT ![d] = @ + n]) = Sum(t) + n
<1> DEFINE u == [t EXCEPT ![d] = @ + n]
<1>1. u \in [Days -> Nat] /\ u[d] = t[d] + n /\ \A x \in Days \ {d} : t[x] = u[x]
  OBVIOUS
<1>2. \A x \in Days : t[x] \in Int /\ u[x] \in Int
  BY <1>1
<1> HIDE DEF u
<1>3. SumFunctionOnSet(u, Days) = SumFunctionOnSet(t, Days) + (u[d] - t[d])
  BY <1>1, <1>2, SumUpdate, DaysFinite
<1>4. SumFunctionOnSet(t, Days) \in Int /\ t[d] \in Int
  BY <1>2, SumType, DaysFinite
<1>5. SumFunctionOnSet(u, Days) = SumFunctionOnSet(t, Days) + n
  BY <1>1, <1>3, <1>4
<1> QED BY <1>1, <1>5 DEF Sum, u

LEMMA NoJobType == NoJob \in Jobs
BY DEF NoJob, Jobs, Kinds

LEMMA JobFields ==
    ASSUME TypeOK, NEW p \in Procs
    PROVE  /\ job[p].kind \in Kinds \cup {"none"}
           /\ job[p].up \in Nat /\ job[p].down \in Nat /\ job[p].bytes \in Nat
BY DEF TypeOK, Jobs

(* The goroutines hold natural numbers of bytes.                           *)
LEMMA TakenType ==
    ASSUME TypeOK
    PROVE  /\ \A p \in Procs : Taken[p] \in Nat
           /\ SumFunctionOnSet(Taken, Procs) \in Nat
           /\ Held \in Nat
<1>1. \A p \in Procs : Taken[p] \in Nat
  BY JobFields DEF Taken
<1>2. SumFunctionOnSet(Taken, Procs) \in Nat
  BY <1>1, SumType, UsageAssumption
<1> QED BY <1>1, <1>2 DEF Held, TypeOK

(* What a step of goroutine p leaves alone.                                *)
OnlyMoves(p) == \A q \in Procs \ {p} : pc'[q] = pc[q] /\ job'[q] = job[q]

(* A step of p changes what the process holds by what p takes and by what  *)
(* the counters change.                                                    *)
LEMMA HeldMoves ==
    ASSUME TypeOK, TypeOK', NEW p \in Procs, OnlyMoves(p)
    PROVE  /\ Held' = Held + (uploadBytes' - uploadBytes) + (downloadBytes' - downloadBytes)
                           + (Taken'[p] - Taken[p])
           /\ Held' \in Nat /\ Taken[p] \in Nat /\ Taken'[p] \in Nat
<1> DEFINE f == Taken
           g == Taken'
<1>1. \A q \in Procs : f[q] \in Nat
  BY TakenType
<1>2. \A q \in Procs : g[q] \in Nat
  BY DEF TypeOK, Jobs, Taken
<1>3. \A q \in Procs \ {p} : f[q] = g[q]
  BY DEF OnlyMoves, Taken
<1>4. SumFunctionOnSet(Taken', Procs) = SumFunctionOnSet(Taken, Procs) + (Taken'[p] - Taken[p])
  <2> HIDE DEF f, g
  <2>1. \A q \in Procs : f[q] \in Int /\ g[q] \in Int
    BY <1>1, <1>2
  <2>2. SumFunctionOnSet(g, Procs) = SumFunctionOnSet(f, Procs) + (g[p] - f[p])
    BY <2>1, <1>3, SumUpdate, UsageAssumption
  <2> QED BY <2>2 DEF f, g
<1>5. SumFunctionOnSet(Taken, Procs) \in Nat
  BY TakenType
<1>6. SumFunctionOnSet(Taken', Procs) \in Nat
  <2> HIDE DEF g
  <2>1. SumFunctionOnSet(g, Procs) \in Nat
    BY <1>2, SumType, UsageAssumption
  <2> QED BY <2>1 DEF g
<1> QED BY <1>1, <1>2, <1>4, <1>5, <1>6 DEF Held, TypeOK

(* What goroutine p does to pc and job.                                    *)
Moves(p, l, j) == pc' = [pc EXCEPT ![p] = l] /\ job' = [job EXCEPT ![p] = j]

LEMMA MovesType ==
    ASSUME TypeOK, NEW p \in Procs, NEW l \in Labels, NEW j \in Jobs, Moves(p, l, j),
           l \in {"idle", "space", "addSpace", "loadUp", "done", "total"} => j.up = 0,
           l \notin {"swapDown", "add", "putBack"} => j.down = 0
    PROVE  /\ OnlyMoves(p) /\ pc'[p] = l /\ job'[p] = j
           /\ pc' \in [Procs -> Labels] /\ job' \in [Procs -> Jobs]
           /\ \A q \in Procs :
               /\ pc'[q] \in {"idle", "space", "addSpace", "loadUp", "done", "total"}
                      => job'[q].up = 0
               /\ pc'[q] \notin {"swapDown", "add", "putBack"} => job'[q].down = 0
<1>1. OnlyMoves(p) /\ pc'[p] = l /\ job'[p] = j
  BY DEF TypeOK, Moves, OnlyMoves
<1>2. pc' \in [Procs -> Labels] /\ job' \in [Procs -> Jobs]
  BY DEF TypeOK, Moves
<1>3. ASSUME NEW q \in Procs
      PROVE  /\ pc'[q] \in {"idle", "space", "addSpace", "loadUp", "done", "total"}
                    => job'[q].up = 0
             /\ pc'[q] \notin {"swapDown", "add", "putBack"} => job'[q].down = 0
  <2>1. CASE q = p
    BY <1>1, <2>1
  <2>2. CASE q # p
    BY <1>1, <2>2 DEF OnlyMoves, TypeOK
  <2> QED BY <2>1, <2>2
<1> QED BY <1>1, <1>2, <1>3

(* The job of p after an assignment to one of its local variables.         *)
LEMMA JobUpdate ==
    ASSUME TypeOK, NEW p \in Procs
    PROVE  /\ \A k \in Kinds : LET j == [job[p] EXCEPT !.kind = k]
                               IN  /\ j \in Jobs /\ j.up = job[p].up /\ j.down = job[p].down
           /\ \A n \in Nat :
               /\ LET j == [job[p] EXCEPT !.up = n]
                  IN  j \in Jobs /\ j.up = n /\ j.down = job[p].down
               /\ LET j == [job[p] EXCEPT !.down = n]
                  IN  j \in Jobs /\ j.up = job[p].up /\ j.down = n
               /\ LET j == [job[p] EXCEPT !.bytes = n]
                  IN  j \in Jobs /\ j.up = job[p].up /\ j.down = job[p].down
           /\ LET j == [job[p] EXCEPT !.up = 0, !.down = 0]
              IN  j \in Jobs /\ j.up = 0 /\ j.down = 0
BY DEF TypeOK, Jobs

(* The bytes a goroutine at label l with the local variables j has taken.  *)
Weight(l, j) ==
    IF l \in {"swapUp", "loadUp"} THEN 0
    ELSE j.up + (IF l = "swapDown" THEN 0 ELSE j.down)

(* Local variables as they may be at a label.                              *)
Fits(l, j) ==
    /\ l \in Labels /\ j \in Jobs
    /\ l \in {"idle", "space", "addSpace", "loadUp", "done", "total"} => j.up = 0
    /\ l \notin {"swapDown", "add", "putBack"} => j.down = 0

(* Goroutine p moves, and n bytes are no longer held.                      *)
Releases(p, n) ==
    \E l, j : /\ Fits(l, j) /\ Moves(p, l, j)
              /\ uploadBytes' \in Nat /\ downloadBytes' \in Nat
              /\ uploadBytes' + downloadBytes' + Weight(l, j) + n
                     = uploadBytes + downloadBytes + Weight(pc[p], job[p])

LEMMA ReleasesHeld ==
    ASSUME TypeOK, NEW p \in Procs, NEW n \in Nat, Releases(p, n)
    PROVE  /\ pc' \in [Procs -> Labels] /\ job' \in [Procs -> Jobs]
           /\ \A q \in Procs :
               /\ pc'[q] \in {"idle", "space", "addSpace", "loadUp", "done", "total"}
                      => job'[q].up = 0
               /\ pc'[q] \notin {"swapDown", "add", "putBack"} => job'[q].down = 0
           /\ uploadBytes' \in Nat /\ downloadBytes' \in Nat
           /\ TypeOK' => Held' \in Nat /\ Held' + n = Held
<1>1. PICK l, j : /\ Fits(l, j) /\ Moves(p, l, j)
                  /\ uploadBytes' \in Nat /\ downloadBytes' \in Nat
                  /\ uploadBytes' + downloadBytes' + Weight(l, j) + n
                         = uploadBytes + downloadBytes + Weight(pc[p], job[p])
  BY DEF Releases
<1>2. /\ OnlyMoves(p) /\ pc'[p] = l /\ job'[p] = j
      /\ pc' \in [Procs -> Labels] /\ job' \in [Procs -> Jobs]
      /\ \A q \in Procs :
           /\ pc'[q] \in {"idle", "space", "addSpace", "loadUp", "done", "total"}
                  => job'[q].up = 0
           /\ pc'[q] \notin {"swapDown", "add", "putBack"} => job'[q].down = 0
  BY <1>1, MovesType DEF Fits
<1>3. ASSUME TypeOK' PROVE Held' \in Nat /\ Held' + n = Held
  <2>1. /\ Held' = Held + (uploadBytes' - uploadBytes) + (downloadBytes' - downloadBytes)
                        + (Taken'[p] - Taken[p])
        /\ Held' \in Nat /\ Taken[p] \in Nat /\ Taken'[p] \in Nat
    BY <1>2, <1>3, HeldMoves
  <2>2. Taken[p] = Weight(pc[p], job[p]) /\ Taken'[p] = Weight(l, j)
    BY <1>2 DEF Taken, Weight
  <2>3. Held \in Nat
    BY TakenType
  <2>4. /\ uploadBytes \in Nat /\ downloadBytes \in Nat
        /\ uploadBytes' \in Nat /\ downloadBytes' \in Nat
    BY <1>1 DEF TypeOK
  <2>5. uploadBytes' + downloadBytes' + Taken'[p] + n = uploadBytes + downloadBytes + Taken[p]
    BY <1>1, <2>2
  <2> QED BY <2>1, <2>3, <2>4, <2>5
<1> QED BY <1>1, <1>2, <1>3

-----------------------------------------------------------------------------
(* Steps that insert no row *)

Quiet(p) ==
    \/ \E kind \in Kinds : PersistUsage(p, kind)
    \/ ComputeTotalCloudSpaceUsage(p)
    \/ LoadUploadBytes(p) \/ SwapUploadBytes(p)
    \/ LoadDownloadBytes(p) \/ SwapDownloadBytes(p)
    \/ PutBack(p) \/ Persisted(p)

LEMMA StaysPut ==
    ASSUME TypeOK, NEW p \in Procs, UNCHANGED job
    PROVE  job' = [job EXCEPT ![p] = job[p]]
BY DEF TypeOK

LEMMA SettleMoves ==
    ASSUME TypeOK, NEW p \in Procs, Settle(p)
    PROVE  job' = [job EXCEPT ![p] = [job[p] EXCEPT !.up = 0, !.down = 0]]
<1> DEFINE j == [job EXCEPT ![p].up = 0]
<1>1. job' = [j EXCEPT ![p].down = 0]
  BY DEF Settle
<1>2. j = [job EXCEPT ![p] = [job[p] EXCEPT !.up = 0]] /\ j[p] = [job[p] EXCEPT !.up = 0]
  BY DEF TypeOK
<1> HIDE DEF j
<1>3. job' = [j EXCEPT ![p] = [j[p] EXCEPT !.down = 0]]
  BY <1>1
<1> QED BY <1>2, <1>3 DEF TypeOK

LEMMA QuietReleases ==
    ASSUME TypeOK, NEW p \in Procs, Quiet(p)
    PROVE  Releases(p, 0)
<1> DEFINE Goal(l, j) ==
      /\ Fits(l, j) /\ Moves(p, l, j)
      /\ uploadBytes' \in Nat /\ downloadBytes' \in Nat
      /\ uploadBytes' + downloadBytes' + Weight(l, j)
             = uploadBytes + downloadBytes + Weight(pc[p], job[p])
<1>0. ASSUME NEW l, NEW j, Goal(l, j) PROVE Releases(p, 0)
  <2>1. Weight(l, j) \in Nat
    BY <1>0 DEF Fits, Weight, Jobs
  <2> QED BY <1>0, <2>1 DEF Releases
<1>j. /\ job[p] \in Jobs /\ pc[p] \in Labels /\ Fits(pc[p], job[p])
      /\ uploadBytes \in Nat /\ downloadBytes \in Nat /\ size \in Nat
  BY DEF TypeOK, Fits
<1>n. NoJob \in Jobs /\ NoJob.up = 0 /\ NoJob.down = 0
  BY NoJobType DEF NoJob
<1> HIDE DEF Goal
<1>1. ASSUME NEW kind \in Kinds, PersistUsage(p, kind) PROVE Releases(p, 0)
  <2> DEFINE j == [job[p] EXCEPT !.kind = kind]
             l == IF kind = "exit" THEN "loadUp" ELSE "space"
  <2>1. pc[p] = "idle" /\ UNCHANGED counters /\ Moves(p, l, j)
    BY <1>1 DEF PersistUsage, Goto, Moves
  <2>2. j \in Jobs /\ j.up = job[p].up /\ j.down = job[p].down
    BY JobUpdate
  <2>3. l \in {"loadUp", "space"}
    OBVIOUS
  <2> HIDE DEF j, l
  <2>4. Goal(l, j)
    BY <1>j, <2>1, <2>2, <2>3 DEF Goal, Fits, Weight, Labels, counters
  <2> QED BY <2>4, <1>0
<1>2. ASSUME ComputeTotalCloudSpaceUsage(p) PROVE Releases(p, 0)
  <2>1. CASE Moves(p, "addSpace", [job[p] EXCEPT !.bytes = size])
    <3> DEFINE j == [job[p] EXCEPT !.bytes = size]
    <3>1. j \in Jobs /\ j.up = job[p].up /\ j.down = job[p].down
      BY JobUpdate, <1>j
    <3> HIDE DEF j
    <3>2. Goal("addSpace", j)
      BY <1>2, <1>j, <2>1, <3>1
         DEF ComputeTotalCloudSpaceUsage, Goal, Fits, Weight, Labels, counters, j
    <3> QED BY <3>2, <1>0
  <2>2. ASSUME NEW l \in {"done", "loadUp"}, Moves(p, l, job[p]) PROVE Releases(p, 0)
    <3>1. Goal(l, job[p])
      BY <1>2, <1>j, <2>2
         DEF ComputeTotalCloudSpaceUsage, Goal, Fits, Weight, Labels, counters
    <3> QED BY <3>1, <1>0
  <2> QED BY <1>2, <2>1, <2>2, StaysPut DEF ComputeTotalCloudSpaceUsage, Goto, Moves
<1>3. ASSUME LoadUploadBytes(p) PROVE Releases(p, 0)
  <2> DEFINE j == [job[p] EXCEPT !.up = uploadBytes]
  <2>1. Moves(p, "swapUp", j)
    BY <1>3 DEF LoadUploadBytes, Goto, Moves
  <2>2. j \in Jobs /\ j.down = job[p].down
    BY JobUpdate, <1>j
  <2> HIDE DEF j
  <2>3. Goal("swapUp", j)
    BY <1>3, <1>j, <2>1, <2>2 DEF LoadUploadBytes, Goal, Fits, Weight, Labels, counters
  <2> QED BY <2>3, <1>0
<1>4. ASSUME SwapUploadBytes(p) PROVE Releases(p, 0)
  <2>1. CASE uploadBytes = job[p].up
    <3>1. uploadBytes' = 0 /\ Moves(p, "loadDown", job[p]) /\ pc[p] = "swapUp"
          /\ UNCHANGED downloadBytes
      BY <1>4, <2>1, StaysPut DEF SwapUploadBytes, Goto, Moves
    <3>2. Goal("loadDown", job[p])
      BY <1>j, <2>1, <3>1 DEF Goal, Fits, Weight, Labels
    <3> QED BY <3>2, <1>0
  <2>2. CASE uploadBytes # job[p].up
    <3> DEFINE j == [job[p] EXCEPT !.up = 0]
    <3>1. Moves(p, "loadUp", j) /\ pc[p] = "swapUp" /\ UNCHANGED <<uploadBytes, downloadBytes>>
      BY <1>4, <2>2 DEF SwapUploadBytes, Goto, Moves
    <3>2. j \in Jobs /\ j.up = 0 /\ j.down = job[p].down
      BY JobUpdate
    <3> HIDE DEF j
    <3>3. Goal("loadUp", j)
      BY <1>j, <3>1, <3>2 DEF Goal, Fits, Weight, Labels
    <3> QED BY <3>3, <1>0
  <2> QED BY <2>1, <2>2
<1>5. ASSUME LoadDownloadBytes(p) PROVE Releases(p, 0)
  <2> DEFINE j == [job[p] EXCEPT !.down = downloadBytes]
  <2>1. Moves(p, "swapDown", j)
    BY <1>5 DEF LoadDownloadBytes, Goto, Moves
  <2>2. j \in Jobs /\ j.up = job[p].up
    BY JobUpdate, <1>j
  <2> HIDE DEF j
  <2>3. Goal("swapDown", j)
    BY <1>5, <1>j, <2>1, <2>2 DEF LoadDownloadBytes, Goal, Fits, Weight, Labels, counters, Jobs
  <2> QED BY <2>3, <1>0
<1>6. ASSUME SwapDownloadBytes(p) PROVE Releases(p, 0)
  <2>1. CASE downloadBytes = job[p].down
    <3>1. downloadBytes' = 0 /\ Moves(p, "add", job[p]) /\ pc[p] = "swapDown"
          /\ UNCHANGED uploadBytes
      BY <1>6, <2>1, StaysPut DEF SwapDownloadBytes, Goto, Moves
    <3>2. Goal("add", job[p])
      BY <1>j, <2>1, <3>1 DEF Goal, Fits, Weight, Labels, Jobs
    <3> QED BY <3>2, <1>0
  <2>2. CASE downloadBytes # job[p].down
    <3> DEFINE j == [job[p] EXCEPT !.down = 0]
    <3>1. Moves(p, "loadDown", j) /\ pc[p] = "swapDown" /\ UNCHANGED <<uploadBytes, downloadBytes>>
      BY <1>6, <2>2 DEF SwapDownloadBytes, Goto, Moves
    <3>2. j \in Jobs /\ j.down = 0 /\ j.up = job[p].up
      BY JobUpdate
    <3> HIDE DEF j
    <3>3. Goal("loadDown", j)
      BY <1>j, <3>1, <3>2 DEF Goal, Fits, Weight, Labels, Jobs
    <3> QED BY <3>3, <1>0
  <2> QED BY <2>1, <2>2
<1>7. ASSUME PutBack(p) PROVE Releases(p, 0)
  <2>1. CASE job[p].up > 0
    <3> DEFINE j == [job[p] EXCEPT !.up = 0]
    <3>1. job' = [job EXCEPT ![p] = j] /\ pc[p] = "putBack" /\ UNCHANGED <<pc, downloadBytes>>
          /\ uploadBytes' = uploadBytes + job[p].up
      BY <1>7, <2>1 DEF PutBack
    <3>2. j \in Jobs /\ j.up = 0 /\ j.down = job[p].down
      BY JobUpdate
    <3> HIDE DEF j
    <3>3. Moves(p, "putBack", j)
      BY <3>1 DEF Moves, TypeOK
    <3>4. Goal("putBack", j)
      BY <1>j, <3>1, <3>2, <3>3 DEF Goal, Fits, Weight, Labels, Jobs
    <3> QED BY <3>4, <1>0
  <2>2. CASE job[p].up = 0
    <3> DEFINE j == [job[p] EXCEPT !.up = 0, !.down = 0]
    <3>1. Moves(p, "done", j) /\ pc[p] = "putBack" /\ UNCHANGED downloadBytes
          /\ uploadBytes' = uploadBytes + job[p].down
      <4>1. /\ Settle(p) /\ Goto(p, "done") /\ pc[p] = "putBack" /\ UNCHANGED downloadBytes
            /\ uploadBytes' = uploadBytes + job[p].down
        BY <1>7, <2>2 DEF PutBack
      <4>2. job' = [job EXCEPT ![p] = j]
        BY <4>1, SettleMoves
      <4> QED BY <4>1, <4>2 DEF Goto, Moves
    <3>2. j \in Jobs /\ j.up = 0 /\ j.down = 0
      BY JobUpdate
    <3> HIDE DEF j
    <3>3. Goal("done", j)
      BY <1>j, <2>2, <3>1, <3>2 DEF Goal, Fits, Weight, Labels, Jobs
    <3> QED BY <3>3, <1>0
  <2> QED BY <2>1, <2>2, <1>j DEF Jobs
<1>8. ASSUME Persisted(p) PROVE Releases(p, 0)
  <2>1. Moves(p, "idle", NoJob) /\ pc[p] = "done" /\ UNCHANGED <<uploadBytes, downloadBytes>>
    BY <1>8 DEF Persisted, Goto, Moves, counters
  <2>2. Goal("idle", NoJob)
    BY <1>j, <1>n, <2>1 DEF Goal, Fits, Weight, Labels
  <2> QED BY <2>2, <1>0
<1> QED BY <1>1, <1>2, <1>3, <1>4, <1>5, <1>6, <1>7, <1>8 DEF Quiet

(* When bytes are counted as they are transferred, and no table changes.   *)
LEMMA SameTablesKeepInv ==
    ASSUME UsageInv, TypeOK', UNCHANGED <<db, mem, shown, expired, disturbed, day>>,
           Held' \in Nat, Held' + transferred = Held + transferred'
    PROVE  UsageInv'
<1>1. Held \in Nat /\ transferred \in Nat /\ transferred' \in Nat /\ expired \in Nat
  BY TakenType DEF UsageInv, TypeOK
<1>2. Sum(db.bandwidth) \in Nat /\ (mem # None => Sum(mem.bandwidth) \in Nat)
  BY SumTableType, TablesFields DEF UsageInv, TypeOK
<1>3. Held' <= transferred' /\ CopyCurrent'
  BY <1>1 DEF UsageInv, CopyCurrent
<1>4. CopyNeverOvercounts' /\ NeverOvercounted' /\ NothingLost'
  <2>1. ASSUME NEW b \in Nat
        PROVE  /\ b + Held <= transferred => b + Held' <= transferred'
               /\ b + Held + expired = transferred => b + Held' + expired = transferred'
    <3> DEFINE h == Held'
               t == transferred'
    <3>1. h \in Nat /\ t \in Nat /\ h + transferred = Held + t
      BY <1>1
    <3> HIDE DEF h, t
    <3>2. /\ b + Held <= transferred => b + h <= t
          /\ b + Held + expired = transferred => b + h + expired = t
      BY <1>1, <3>1
    <3> QED BY <3>2 DEF h, t
  <2>2. CopyNeverOvercounts'
    BY <1>2, <2>1 DEF UsageInv, CopyNeverOvercounts, Sum
  <2>3. NeverOvercounted' /\ NothingLost'
    BY <1>2, <2>1 DEF UsageInv, NeverOvercounted, NothingLost, Sum
  <2> QED BY <2>2, <2>3
<1>5. ShownStays'
  BY DEF UsageInv, ShownStays, Visible, Cut
<1> QED BY <1>3, <1>4, <1>5 DEF UsageInv

LEMMA SameHeld ==
    ASSUME UNCHANGED <<uploadBytes, downloadBytes, pc, job>>
    PROVE  Held' = Held
BY DEF Held, Taken

LEMMA QuietKeepsInv ==
    ASSUME UsageInv, NEW p \in Procs, Quiet(p)
    PROVE  UsageInv'
<1>1. UNCHANGED <<db, mem, shown, expired, disturbed, day, transferred, size, backups>>
  BY DEF Quiet, PersistUsage, ComputeTotalCloudSpaceUsage, LoadUploadBytes, SwapUploadBytes,
     LoadDownloadBytes, SwapDownloadBytes, PutBack, Persisted, tables, world, history
<1>2. calls' \in Nat /\ faults' \in Nat
  BY DEF Quiet, PersistUsage, ComputeTotalCloudSpaceUsage, LoadUploadBytes, SwapUploadBytes,
     LoadDownloadBytes, SwapDownloadBytes, PutBack, Persisted, Fault, UsageInv, TypeOK
<1>3. Releases(p, 0)
  BY QuietReleases DEF UsageInv
<1>4. TypeOK'
  BY <1>1, <1>2, <1>3, ReleasesHeld DEF UsageInv, TypeOK
<1>5. Held' \in Nat /\ Held' + 0 = Held
  BY <1>3, <1>4, ReleasesHeld DEF UsageInv
<1>6. Held' + transferred = Held + transferred'
  BY <1>1, <1>5 DEF UsageInv, TypeOK
<1> QED BY <1>1, <1>4, <1>5, <1>6, SameTablesKeepInv

(* Transfers, and the beginning of a backup.                               *)
LEMMA CountKeepsInv ==
    ASSUME UsageInv, UploadObjFromBuffer \/ DownloadObjToBuffer
    PROVE  UsageInv'
<1>1. PICK up \in 0..1, down \in 0..1 : Count(up, down)
  BY DEF UploadObjFromBuffer, DownloadObjToBuffer
<1>2. size' \in Nat
  BY DEF UploadObjFromBuffer, DownloadObjToBuffer, UsageInv, TypeOK
<1>3. /\ UNCHANGED <<db, mem, shown, expired, disturbed, day, pc, job, calls, faults, backups>>
      /\ uploadBytes' = uploadBytes + up /\ downloadBytes' = downloadBytes + down
      /\ transferred' = transferred + up + down
  BY <1>1 DEF Count, tables
<1>4. TypeOK'
  BY <1>2, <1>3 DEF UsageInv, TypeOK
<1>5. SumFunctionOnSet(Taken', Procs) = SumFunctionOnSet(Taken, Procs)
  BY <1>3 DEF Taken
<1>6. SumFunctionOnSet(Taken, Procs) \in Nat
  BY TakenType DEF UsageInv
<1>7. Held' \in Nat /\ Held' + transferred = Held + transferred'
  BY <1>3, <1>5, <1>6 DEF Held, UsageInv, TypeOK
<1> QED BY <1>3, <1>4, <1>7, SameTablesKeepInv

(* A backup takes its copy of the tables and writes it back.               *)
LEMMA BackupKeepsInv ==
    ASSUME UsageInv, InitMemDb \/ PersistMemDbToFile
    PROVE  UsageInv'
<1>1. /\ UNCHANGED <<uploadBytes, downloadBytes, pc, job, shown, transferred, expired,
                     disturbed, day, size, calls, faults>>
      /\ backups' \in Nat
  BY DEF InitMemDb, PersistMemDbToFile, counters, history, world, UsageInv, TypeOK
<1>2. \/ mem' = db /\ db' = db
      \/ mem # None /\ db' = mem /\ mem' \in {mem, None}
  BY DEF InitMemDb, PersistMemDbToFile
<1>3. TypeOK'
  BY <1>1, <1>2 DEF UsageInv, TypeOK
<1>4. Held' = Held
  BY <1>1, SameHeld
<1>5. CopyCurrent'
  BY <1>1, <1>2 DEF UsageInv, CopyCurrent
<1>6. CopyNeverOvercounts' /\ NeverOvercounted'
  BY <1>1, <1>2, <1>4 DEF UsageInv, CopyNeverOvercounts, NeverOvercounted, Sum
<1>7. disturbed = {} => db' = db
  BY <1>2 DEF UsageInv, CopyCurrent
<1>8. NothingLost'
  BY <1>1, <1>4, <1>7 DEF UsageInv, NothingLost, Sum
<1>9. "during" \notin disturbed => db' = db
  BY <1>2 DEF UsageInv, CopyCurrent
<1>10. ShownStays'
  BY <1>1, <1>9 DEF UsageInv, ShownStays, Visible, Cut
<1> QED BY <1>1, <1>3, <1>4, <1>5, <1>6, <1>8, <1>10 DEF UsageInv

(* What is shown at midnight was shown before.                             *)
LEMMA MidnightKeepsInv ==
    ASSUME UsageInv, Midnight
    PROVE  UsageInv'
<1>1. /\ UNCHANGED <<uploadBytes, downloadBytes, pc, job, db, mem, shown, transferred, expired,
                     disturbed, size, calls, faults, backups>>
      /\ day' = day + 1 /\ day < MaxDay
  BY DEF Midnight, counters, tables, history
<1>2. TypeOK'
  BY <1>1, UsageAssumption DEF UsageInv, TypeOK, Days
<1>3. Held' = Held
  BY <1>1, SameHeld
<1>4. \A d \in Days : Visible(d)' => Visible(d)
  BY <1>1, UsageAssumption DEF Visible, Cut, UsageInv, TypeOK, Days
<1>5. ShownStays'
  BY <1>1, <1>4 DEF UsageInv, ShownStays
<1>6. Held' <= transferred' /\ CopyCurrent'
  BY <1>1, <1>3 DEF UsageInv, CopyCurrent
<1>7. CopyNeverOvercounts' /\ NeverOvercounted' /\ NothingLost'
  BY <1>1, <1>3 DEF UsageInv, CopyNeverOvercounts, NeverOvercounted, NothingLost, Sum
<1> QED BY <1>2, <1>5, <1>6, <1>7 DEF UsageInv

(* What the process held goes with it.                                     *)
LEMMA EndKeepsInv ==
    ASSUME UsageInv, EndProcess, faults' \in Nat
    PROVE  UsageInv'
<1>1. Held \in Nat /\ transferred \in Nat /\ expired \in Nat
  BY TakenType DEF UsageInv, TypeOK
<1>2. /\ UNCHANGED <<db, shown, expired, disturbed, calls, day, size, backups>>
      /\ mem' = None /\ uploadBytes' = 0 /\ downloadBytes' = 0
      /\ pc' = [p \in Procs |-> "idle"] /\ job' = [p \in Procs |-> NoJob]
      /\ transferred' = transferred - Held
  BY DEF EndProcess, world
<1>3. transferred' \in Nat
  BY <1>1, <1>2 DEF UsageInv
<1>4. TypeOK'
  <2>1. pc' \in [Procs -> Labels] /\ job' \in [Procs -> Jobs]
    BY <1>2, NoJobType DEF Labels
  <2>2. \A p \in Procs : job'[p].up = 0 /\ job'[p].down = 0
    BY <1>2 DEF NoJob
  <2> QED BY <1>2, <1>3, <2>1, <2>2 DEF UsageInv, TypeOK
<1>5. Held' = 0
  <2> DEFINE g == Taken'
  <2>1. \A p \in Procs : g[p] = 0
    BY <1>2 DEF Taken, NoJob
  <2> HIDE DEF g
  <2>2. SumFunctionOnSet(g, Procs) = 0
    BY <2>1, SumZero, UsageAssumption
  <2> QED BY <1>2, <2>2 DEF g, Held
<1>6. Sum(db.bandwidth) \in Nat /\ Sum(db.bandwidth)' = Sum(db.bandwidth)
  BY <1>2, SumTableType, TablesFields DEF UsageInv, TypeOK, Sum
<1>7. NeverOvercounted' /\ NothingLost'
  BY <1>1, <1>2, <1>5, <1>6 DEF UsageInv, NeverOvercounted, NothingLost
<1>8. CopyCurrent' /\ CopyNeverOvercounts' /\ ShownStays'
  BY <1>2 DEF UsageInv, CopyCurrent, CopyNeverOvercounts, ShownStays, Visible, Cut
<1> QED BY <1>3, <1>4, <1>5, <1>7, <1>8 DEF UsageInv

-----------------------------------------------------------------------------
(* Rows *)

(* A day that is shown is not deleted as old.                              *)
LEMMA TidyKeepsVisible ==
    ASSUME TypeOK, NEW t \in [Days -> Nat], NEW d \in Days, Visible(d)
    PROVE  Tidy(t)[d] = t[d]
BY CutType DEF Visible, Tidy, Days

LEMMA SpaceRowKeepsInv ==
    ASSUME UsageInv, NEW p \in Procs, AddSpaceUsageReport(p)
    PROVE  UsageInv'
<1> DEFINE j == [job[p] EXCEPT !.bytes = 0]
           l == IF job[p].kind = "delete" THEN "done" ELSE "loadUp"
           t == [db.space EXCEPT ![day] = Larger(@, job[p].bytes)]
<1>t. TypeOK /\ db \in Tables /\ db.space \in [Days -> Nat] /\ db.bandwidth \in [Days -> Nat]
      /\ day \in Days /\ job[p].bytes \in Nat
  BY TablesFields, JobFields DEF UsageInv, TypeOK
<1>1. Moves(p, l, j) /\ pc[p] = "addSpace"
  BY DEF AddSpaceUsageReport, Goto, Moves
<1>2. Releases(p, 0)
  <2>1. j \in Jobs /\ j.up = job[p].up /\ j.down = job[p].down
    BY JobUpdate, <1>t
  <2>2. l \in {"done", "loadUp"}
    OBVIOUS
  <2>3. job[p].up = 0 /\ job[p].down = 0
    BY <1>1, <1>t DEF TypeOK
  <2>4. UNCHANGED <<uploadBytes, downloadBytes>>
    BY DEF AddSpaceUsageReport, counters
  <2> HIDE DEF j, l
  <2>5. Fits(l, j) /\ Weight(l, j) = 0 /\ Weight(pc[p], job[p]) = 0
    BY <1>1, <2>1, <2>2, <2>3 DEF Fits, Weight, Labels
  <2> QED BY <1>1, <1>t, <2>4, <2>5 DEF Releases, TypeOK
<1>3. /\ UNCHANGED <<uploadBytes, downloadBytes, mem, shown, transferred, expired, day, size,
                     backups, calls>>
      /\ faults' \in Nat
  BY <1>t DEF AddSpaceUsageReport, counters, world, Fault, TypeOK
<1>4. t \in [Days -> Nat] /\ \A d \in Days : db.space[d] <= t[d]
  BY <1>t DEF Larger
<1>5. \/ db' = [db EXCEPT !.space = Tidy(t)] /\ disturbed' = Inserted({})
      \/ db' = [db EXCEPT !.space = t] /\ disturbed' = Inserted({})
      \/ UNCHANGED <<db, disturbed>>
  BY DEF AddSpaceUsageReport
<1> HIDE DEF t, j, l
<1>6. /\ db' \in Tables /\ db'.bandwidth = db.bandwidth
      /\ db' = db \/ db'.space \in {t, Tidy(t)}
  BY <1>t, <1>4, <1>5, TidyType DEF Tables
<1>7. TypeOK'
  BY <1>2, <1>3, <1>6, <1>t, ReleasesHeld DEF TypeOK
<1>8. Held' = Held
  <2>1. Held' \in Nat /\ Held' + 0 = Held
    BY <1>2, <1>7, <1>t, ReleasesHeld
  <2> QED BY <2>1
<1>9. /\ disturbed \subseteq disturbed'
      /\ "during" \notin disturbed' => mem = None \/ db' = db
  BY <1>5 DEF Inserted
<1>10. CopyCurrent'
  BY <1>3, <1>9 DEF UsageInv, CopyCurrent
<1>11. CopyNeverOvercounts' /\ NeverOvercounted' /\ NothingLost'
  <2>1. disturbed' = {} => disturbed = {}
    BY <1>9
  <2> QED BY <1>3, <1>6, <1>8, <1>9, <2>1
          DEF UsageInv, CopyNeverOvercounts, NeverOvercounted, NothingLost, Sum
<1>12. ShownStays'
  <2> SUFFICES ASSUME "during" \notin disturbed', NEW d \in Days, Visible(d)'
               PROVE  shown'.space[d] <= db'.space[d] /\ shown'.bandwidth[d] <= db'.bandwidth[d]
    BY DEF ShownStays
  <2>1. Visible(d)
    BY <1>3 DEF Visible, Cut
  <2>2. shown.space[d] <= db.space[d] /\ shown.bandwidth[d] <= db.bandwidth[d]
    BY <1>9, <2>1 DEF UsageInv, ShownStays
  <2>3. db'.space[d] \in {db.space[d], t[d]}
    BY <1>4, <1>6, <1>t, <2>1, TidyKeepsVisible
  <2>4. shown.space[d] \in Nat /\ db.space[d] \in Nat /\ t[d] \in Nat /\ db.space[d] <= t[d]
    BY <1>4, <1>t, TablesFields DEF TypeOK
  <2> QED BY <1>3, <1>6, <2>2, <2>3, <2>4
<1> QED BY <1>3, <1>7, <1>8, <1>10, <1>11, <1>12 DEF UsageInv

LEMMA BandwidthRowKeepsInv ==
    ASSUME UsageInv, NEW p \in Procs, AddBandwidthUsageReport(p)
    PROVE  UsageInv'
<1> DEFINE bytes == job[p].up + job[p].down
           added == [db.bandwidth EXCEPT ![day] = @ + bytes]
<1>t. TypeOK /\ db \in Tables /\ db.space \in [Days -> Nat] /\ db.bandwidth \in [Days -> Nat]
      /\ day \in Days /\ bytes \in Nat /\ job[p] \in Jobs /\ job[p].up \in Nat /\ job[p].down \in Nat
      /\ uploadBytes \in Nat /\ downloadBytes \in Nat /\ transferred \in Nat /\ expired \in Nat
      /\ Held \in Nat
  BY TablesFields, JobFields, TakenType DEF UsageInv, TypeOK
<1>a. added \in [Days -> Nat] /\ Sum(added) = Sum(db.bandwidth) + bytes
  BY <1>t, RowSum
<1>b. /\ Tidy(added) \in [Days -> Nat] /\ Sum(Tidy(added)) <= Sum(added)
      /\ Sum(db.bandwidth) \in Nat /\ Sum(added) \in Nat /\ Sum(Tidy(added)) \in Nat
  BY <1>t, <1>a, TidySum, TidyType, SumTableType
<1>1. /\ UNCHANGED <<uploadBytes, downloadBytes, mem, shown, transferred, day, size, backups, calls>>
      /\ faults' \in Nat /\ pc[p] = "add"
  BY <1>t DEF AddBandwidthUsageReport, counters, world, Fault, TypeOK
<1>2. \/ /\ bytes = 0 /\ Goto(p, "done") /\ UNCHANGED <<db, job, expired, disturbed>>
      \/ /\ db' = [db EXCEPT !.bandwidth = Tidy(added)]
         /\ expired' = expired + (Sum(added) - Sum(Tidy(added)))
         /\ disturbed' = Inserted({}) /\ Settle(p) /\ Goto(p, "done")
      \/ Goto(p, "putBack") /\ UNCHANGED <<db, job, expired, disturbed>>
      \/ /\ db' = [db EXCEPT !.bandwidth = added]
         /\ disturbed' = Inserted({"tidyError"}) /\ Goto(p, "putBack") /\ UNCHANGED <<job, expired>>
  BY DEF AddBandwidthUsageReport
<1>w. Weight(pc[p], job[p]) = bytes /\ Weight("putBack", job[p]) = bytes
      /\ Fits("putBack", job[p]) /\ (bytes = 0 => Fits("done", job[p]))
      /\ (bytes = 0 => Weight("done", job[p]) = 0)
  BY <1>1, <1>t DEF Weight, Fits, Labels
<1>v. \A d \in Days : db.bandwidth[d] <= added[d]
  BY <1>t
<1> HIDE DEF bytes, added
<1>3. ASSUME NEW l \in {"done", "putBack"}, l = "done" => bytes = 0, Goto(p, l),
             UNCHANGED <<db, job, expired, disturbed>>
      PROVE  UsageInv'
  <2>1. Releases(p, 0)
    <3>1. Fits(l, job[p]) /\ Weight(l, job[p]) = bytes /\ Moves(p, l, job[p])
      BY <1>3, <1>w, <1>t, StaysPut DEF Goto, Moves
    <3> QED BY <3>1, <1>1, <1>w, <1>t DEF Releases
  <2>2. TypeOK'
    BY <1>1, <1>3, <1>t, <2>1, ReleasesHeld DEF TypeOK
  <2>3. Held' \in Nat /\ Held' + 0 = Held
    BY <1>t, <2>1, <2>2, ReleasesHeld
  <2>4. Held' + transferred = Held + transferred'
    <3>1. Held' = Held
      BY <2>3
    <3> QED BY <1>1, <3>1
  <2> QED BY <1>1, <1>3, <2>2, <2>3, <2>4, SameTablesKeepInv
<1>4. ASSUME NEW t \in {added, Tidy(added)}, NEW error,
             db' = [db EXCEPT !.bandwidth = t], disturbed' = Inserted(error)
      PROVE  /\ db' \in Tables /\ db'.bandwidth = t
             /\ CopyCurrent' /\ ShownStays' /\ disturbed \subseteq disturbed'
  <2>1. t \in [Days -> Nat]
    BY <1>a, <1>b
  <2>2. db' \in Tables /\ db'.bandwidth = t /\ db'.space = db.space
    BY <1>4, <1>t, <2>1 DEF Tables
  <2>3. disturbed \subseteq disturbed' /\ ("during" \notin disturbed' => mem = None)
    BY <1>4 DEF Inserted
  <2>4. CopyCurrent'
    BY <1>1, <2>3 DEF CopyCurrent
  <2>5. ShownStays'
    <3> SUFFICES ASSUME "during" \notin disturbed', NEW d \in Days, Visible(d)'
                 PROVE  shown'.space[d] <= db'.space[d] /\ shown'.bandwidth[d] <= db'.bandwidth[d]
      BY DEF ShownStays
    <3>1. Visible(d)
      BY <1>1 DEF Visible, Cut
    <3>2. shown.space[d] <= db.space[d] /\ shown.bandwidth[d] <= db.bandwidth[d]
      BY <2>3, <3>1 DEF UsageInv, ShownStays
    <3>3. t[d] = added[d]
      BY <1>4, <1>a, <1>t, <3>1, TidyKeepsVisible
    <3>4. shown.bandwidth[d] \in Nat /\ db.bandwidth[d] \in Nat /\ added[d] \in Nat
      BY <1>a, <1>t, TablesFields DEF TypeOK
    <3> QED BY <1>1, <1>v, <2>2, <3>2, <3>3, <3>4
  <2> QED BY <2>2, <2>3, <2>4, <2>5
<1>5. CASE /\ db' = [db EXCEPT !.bandwidth = Tidy(added)]
           /\ expired' = expired + (Sum(added) - Sum(Tidy(added)))
           /\ disturbed' = Inserted({}) /\ Settle(p) /\ Goto(p, "done")
  <2>1. Releases(p, bytes)
    <3> DEFINE j == [job[p] EXCEPT !.up = 0, !.down = 0]
    <3>1. j \in Jobs /\ j.up = 0 /\ j.down = 0
      BY <1>t, JobUpdate
    <3>2. Moves(p, "done", j)
      BY <1>5, <1>t, SettleMoves DEF Moves, Goto
    <3> HIDE DEF j
    <3>3. Fits("done", j) /\ Weight("done", j) = 0
      BY <3>1 DEF Fits, Weight, Labels
    <3> QED BY <3>2, <3>3, <1>1, <1>w, <1>t DEF Releases
  <2>2. /\ db' \in Tables /\ db'.bandwidth = Tidy(added)
        /\ CopyCurrent' /\ ShownStays' /\ disturbed \subseteq disturbed'
    BY <1>4, <1>5
  <2>3. expired' \in Nat
    BY <1>5, <1>b, <1>t
  <2>4. TypeOK'
    BY <1>1, <1>t, <2>1, <2>2, <2>3, ReleasesHeld DEF TypeOK
  <2>5. Held' \in Nat /\ Held' + bytes = Held
    BY <1>t, <2>1, <2>4, ReleasesHeld
  <2> DEFINE h == Held'
             e == expired'
             b == Sum(db.bandwidth)
             c == Sum(added)
             d == Sum(Tidy(added))
  <2>6. /\ h \in Nat /\ h + bytes = Held /\ e = expired + (c - d) /\ c = b + bytes /\ d <= c
        /\ b \in Nat /\ c \in Nat /\ d \in Nat /\ h <= Held
    BY <1>5, <1>a, <1>b, <1>t, <2>5
  <2>7. Sum(db.bandwidth)' = d
    BY <2>2 DEF Sum
  <2> HIDE DEF h, e, b, c, d
  <2>8. Held' <= transferred'
    BY <1>1, <1>t, <2>6 DEF h, UsageInv
  <2>9. NeverOvercounted'
    <3>1. "tidyError" \notin disturbed' => b + Held <= transferred
      BY <2>2 DEF UsageInv, NeverOvercounted, b
    <3>2. "tidyError" \notin disturbed' => d + h <= transferred
      BY <1>t, <2>6, <3>1
    <3> QED BY <1>1, <2>7, <3>2 DEF NeverOvercounted, h
  <2>10. NothingLost'
    <3>1. disturbed' = {} => b + Held + expired = transferred
      BY <2>2 DEF UsageInv, NothingLost, b
    <3>2. disturbed' = {} => d + h + e = transferred
      BY <1>t, <2>6, <3>1
    <3> QED BY <1>1, <2>7, <3>2 DEF NothingLost, h, e
  <2>11. CopyNeverOvercounts'
    <3> DEFINE m == Sum(mem.bandwidth)
    <3>1. "tidyError" \notin disturbed' /\ mem # None => m + Held <= transferred /\ m \in Nat
      BY <1>t, <2>2, SumTableType, TablesFields DEF UsageInv, CopyNeverOvercounts, TypeOK
    <3> HIDE DEF m
    <3>2. "tidyError" \notin disturbed' /\ mem # None => m + h <= transferred
      BY <1>t, <2>6, <3>1
    <3> QED BY <1>1, <3>2 DEF CopyNeverOvercounts, h, m, Sum
  <2> QED BY <2>2, <2>4, <2>8, <2>9, <2>10, <2>11 DEF UsageInv
<1>6. CASE /\ db' = [db EXCEPT !.bandwidth = added]
           /\ disturbed' = Inserted({"tidyError"}) /\ Goto(p, "putBack") /\ UNCHANGED <<job, expired>>
  <2>1. Releases(p, 0)
    <3>1. Moves(p, "putBack", job[p])
      BY <1>6, <1>t, StaysPut DEF Moves, Goto
    <3> QED BY <3>1, <1>1, <1>w, <1>t DEF Releases
  <2>2. /\ db' \in Tables /\ CopyCurrent' /\ ShownStays' /\ "tidyError" \in disturbed'
    BY <1>4, <1>6 DEF Inserted
  <2>3. TypeOK'
    BY <1>1, <1>6, <1>t, <2>1, <2>2, ReleasesHeld DEF TypeOK
  <2>4. Held' \in Nat /\ Held' + 0 = Held
    BY <1>t, <2>1, <2>3, ReleasesHeld
  <2>5. Held' = Held
    BY <2>4
  <2>6. NeverOvercounted' /\ NothingLost' /\ CopyNeverOvercounts'
    BY <2>2 DEF NeverOvercounted, NothingLost, CopyNeverOvercounts
  <2> QED BY <1>1, <2>2, <2>3, <2>5, <2>6 DEF UsageInv
<1> QED BY <1>2, <1>3, <1>5, <1>6

-----------------------------------------------------------------------------
(* What the user is shown *)

LEMMA ShowKeepsInv ==
    ASSUME UsageInv, NEW p \in Procs,
           GetPeakDailySpaceUsage(p) \/ GetTotalDailyBandwidthUsage(p)
    PROVE  UsageInv'
<1> DEFINE s == [d \in Days |-> IF Visible(d) THEN db.space[d] ELSE 0]
           b == [d \in Days |-> IF Visible(d) THEN db.bandwidth[d] ELSE 0]
<1>t. /\ TypeOK /\ db.space \in [Days -> Nat] /\ db.bandwidth \in [Days -> Nat]
      /\ shown \in Tables /\ shown.space \in [Days -> Nat] /\ shown.bandwidth \in [Days -> Nat]
      /\ job[p] \in Jobs /\ uploadBytes \in Nat /\ downloadBytes \in Nat /\ Held \in Nat
  BY TablesFields, TakenType DEF UsageInv, TypeOK
<1>1. UNCHANGED <<uploadBytes, downloadBytes, db, mem, day, size, backups, transferred, expired,
                  disturbed, calls, faults>>
  BY DEF GetPeakDailySpaceUsage, GetTotalDailyBandwidthUsage, counters, tables, world
<1>2. \/ shown' = [shown EXCEPT !.space = s]
      \/ shown' = [shown EXCEPT !.bandwidth = b]
  BY DEF GetPeakDailySpaceUsage, GetTotalDailyBandwidthUsage
<1>3. Releases(p, 0)
  <2>1. /\ pc[p] \in {"done", "total"}
        /\ Moves(p, "total", job[p]) \/ Moves(p, "idle", NoJob)
    BY <1>t, StaysPut DEF GetPeakDailySpaceUsage, GetTotalDailyBandwidthUsage, Goto, Moves
  <2>2. job[p].up = 0 /\ job[p].down = 0 /\ NoJob.up = 0 /\ NoJob.down = 0 /\ NoJob \in Jobs
    BY <1>t, <2>1, NoJobType DEF TypeOK, NoJob
  <2>3. /\ Fits("total", job[p]) /\ Fits("idle", NoJob) /\ Weight(pc[p], job[p]) = 0
        /\ Weight("total", job[p]) = 0 /\ Weight("idle", NoJob) = 0
    BY <1>t, <2>1, <2>2 DEF Fits, Weight, Labels
  <2> QED BY <1>1, <1>t, <2>1, <2>3 DEF Releases
<1>4. s \in [Days -> Nat] /\ b \in [Days -> Nat]
  BY <1>t
<1>5. /\ shown' \in Tables
      /\ shown'.space \in {shown.space, s} /\ shown'.bandwidth \in {shown.bandwidth, b}
  <2> HIDE DEF s, b
  <2> QED BY <1>2, <1>4, <1>t DEF Tables
<1>6. TypeOK'
  BY <1>1, <1>3, <1>5, <1>t, ReleasesHeld DEF TypeOK
<1>7. Held' = Held
  <2>1. Held' \in Nat /\ Held' + 0 = Held
    BY <1>3, <1>6, <1>t, ReleasesHeld
  <2> QED BY <2>1
<1>8. Held' <= transferred' /\ CopyCurrent' /\ CopyNeverOvercounts' /\ NeverOvercounted' /\ NothingLost'
  BY <1>1, <1>7 DEF UsageInv, CopyCurrent, CopyNeverOvercounts, NeverOvercounted, NothingLost, Sum
<1>9. ShownStays'
  <2> SUFFICES ASSUME "during" \notin disturbed', NEW d \in Days, Visible(d)'
               PROVE  shown'.space[d] <= db'.space[d] /\ shown'.bandwidth[d] <= db'.bandwidth[d]
    BY DEF ShownStays
  <2>1. Visible(d)
    BY <1>1 DEF Visible, Cut
  <2>2. shown.space[d] <= db.space[d] /\ shown.bandwidth[d] <= db.bandwidth[d]
    BY <1>1, <2>1 DEF UsageInv, ShownStays
  <2>3. s[d] = db.space[d] /\ b[d] = db.bandwidth[d] /\ db.space[d] \in Nat /\ db.bandwidth[d] \in Nat
    BY <1>t, <2>1
  <2> HIDE DEF s, b
  <2>4. shown'.space[d] \in {shown.space[d], db.space[d]}
        /\ shown'.bandwidth[d] \in {shown.bandwidth[d], db.bandwidth[d]}
    BY <1>5, <2>3
  <2> QED BY <1>1, <2>2, <2>3, <2>4
<1> QED BY <1>6, <1>8, <1>9 DEF UsageInv

-----------------------------------------------------------------------------
(* Theorems *)

LEMMA InitUsageInv == Init => UsageInv
<1> SUFFICES ASSUME Init PROVE UsageInv
  OBVIOUS
<1>1. Empty \in Tables /\ \A d \in Days : Empty.space[d] = 0 /\ Empty.bandwidth[d] = 0
  BY DEF Empty, Tables
<1>2. TypeOK
  <2>1. pc \in [Procs -> Labels] /\ job \in [Procs -> Jobs]
    BY NoJobType DEF Init, Labels
  <2>2. \A p \in Procs : job[p].up = 0 /\ job[p].down = 0
    BY DEF Init, NoJob
  <2>3. day \in Days
    BY UsageAssumption DEF Init, Days
  <2> QED BY <1>1, <2>1, <2>2, <2>3 DEF Init, TypeOK
<1>3. Held = 0
  <2>1. \A p \in Procs : Taken[p] = 0
    BY DEF Init, Taken, NoJob
  <2>2. SumFunctionOnSet(Taken, Procs) = 0
    BY <2>1, SumZero, UsageAssumption
  <2> QED BY <2>2 DEF Held, Init
<1>4. Sum(db.bandwidth) = 0
  <2>1. \A d \in Days : db.bandwidth[d] = 0
    BY <1>1 DEF Init
  <2> QED BY <2>1, SumZero, DaysFinite DEF Sum
<1>5. CopyCurrent /\ CopyNeverOvercounts /\ NeverOvercounted /\ NothingLost
  BY <1>3, <1>4 DEF Init, CopyCurrent, CopyNeverOvercounts, NeverOvercounted, NothingLost
<1>6. ShownStays
  BY <1>1 DEF Init, ShownStays
<1> QED BY <1>2, <1>3, <1>5, <1>6 DEF UsageInv, Init

LEMMA NextKeepsUsageInv ==
    ASSUME UsageInv, [Next]_vars
    PROVE  UsageInv'
<1>1. ASSUME NEW p \in Procs, Exit(p) PROVE UsageInv'
  BY <1>1, EndKeepsInv DEF Exit, UsageInv, TypeOK
<1>2. CASE Crash
  BY <1>2, EndKeepsInv DEF Crash, Fault, UsageInv, TypeOK
<1>3. CASE UNCHANGED vars
  <2>1. UNCHANGED <<uploadBytes, downloadBytes, db, mem, pc, job, day, size, backups, shown,
                    transferred, expired, disturbed, calls, faults>>
    BY <1>3 DEF vars, counters, tables, world, history
  <2>2. TypeOK' /\ Held' = Held
    BY <2>1, SameHeld DEF UsageInv, TypeOK
  <2>3. Held' \in Nat
    BY <2>2, TakenType DEF UsageInv
  <2> QED BY <2>1, <2>2, <2>3, SameTablesKeepInv
<1> QED BY <1>1, <1>2, <1>3, QuietKeepsInv, CountKeepsInv, BackupKeepsInv, MidnightKeepsInv,
           SpaceRowKeepsInv, BandwidthRowKeepsInv, ShowKeepsInv DEF Next, Quiet

(* What persistUsage keeps true, whoever calls it, at any number of        *)
(* goroutines, with crashes and errors.                                    *)
THEOREM UsageInvariant == Spec => []UsageInv
<1>1. UsageInv /\ [Next]_vars => UsageInv'
  BY NextKeepsUsageInv
<1> QED BY InitUsageInv, <1>1, PTL DEF Spec

(* The variables keep their types, and only a goroutine that has taken     *)
(* bytes from the counters (PersistBandwidthUsage) holds any.              *)
THEOREM UsageTypes == Spec => []TypeOK
<1>1. UsageInv => TypeOK
  BY DEF UsageInv
<1> QED BY <1>1, UsageInvariant, PTL

(* Unless deleting old rows failed after an insertion, no byte is reported *)
(* twice (PersistBandwidthUsage, AddBandwidthUsageReport).                 *)
THEOREM BytesReportedOnce == Spec => []NeverOvercounted
<1>1. UsageInv => NeverOvercounted
  BY DEF UsageInv
<1> QED BY <1>1, UsageInvariant, PTL

(* Unless, besides, a row was inserted while a backup held its copy of the *)
(* tables, no byte is lost.                                                *)
THEOREM BytesNeverLost == Spec => []NothingLost
<1>1. UsageInv => NothingLost
  BY DEF UsageInv
<1> QED BY <1>1, UsageInvariant, PTL

(* Under the condition about copies, what GetUsageHistory showed of a day  *)
(* stays stored as long as the day is shown, for every window.             *)
THEOREM HistoryStays == Spec => []ShownStays
<1>1. UsageInv => ShownStays
  BY DEF UsageInv
<1> QED BY <1>1, UsageInvariant, PTL
=============================================================================
