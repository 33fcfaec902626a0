-------------------------------- MODULE Prune --------------------------------
(***************************************************************************)
(* Which snapshots of a backup a prune deletes (pkg/snapshots/prune.go,    *)
(* cmd/prune.go, daemon/prune.go).                                         *)
(*                                                                         *)
(* GetPruneKeepsList tests every snapshot against five ranges of age, and  *)
(* every test reads the clock again, twice for every snapshot it looks at: *)
(* the snapshots age while they are judged, and one may leave a range for  *)
(* the next in the middle of a test.  An action is one test.               *)
(***************************************************************************)
EXTENDS Integers, Sequences, FiniteSetsExt

CONSTANTS
    Bounds,      \* OneDay, ThreeDays, OneWeek, OneMonth, OneYear
    StartTime,   \* the clock at the start
    StartInfos,  \* times at which snapshots may have been taken until then
    MaxSnaps,    \* bound: how many of them are left
    MaxTicks,    \* bound: ticks of the clock during a prune
    MaxTime      \* bound: the clock

ASSUME BoundsAreAges ==
    /\ Bounds \in Seq(Nat \ {0}) /\ Len(Bounds) = 5
    /\ \A i \in 1..4 : Bounds[i] < Bounds[i + 1]
ASSUME TimesAssumption ==
    /\ StartTime \in 0..MaxTime /\ StartInfos \subseteq 0..StartTime
    /\ MaxSnaps \in Nat /\ MaxTicks \in Nat /\ MaxTime \in Nat

OneYear == Bounds[5]

(* TimeRangeSecondsAgo values.                                             *)
KeepEverything   == [From |-> 0, BackTo |-> Bounds[1]]
KeepOldestNewest == [i \in 1..4 |-> [From |-> Bounds[i], BackTo |-> Bounds[i + 1]]]

VARIABLES
    now, infos,   \* the clock, and the times of the backup's snapshots
    at,           \* the test to make next
    todo, range,  \* the snapshots not judged yet, the range they are tested for
    keeps, ticks  \* the list so far; ticks of the clock since the prune began

vars == <<now, infos, at, todo, range, keeps, ticks>>

-----------------------------------------------------------------------------
\* Mutant: both bounds exclude the snapshot taken at them.
TimeIsWithinOpen(tr, ts, n1, n2) == ts < n1 - tr.From /\ ts > n2 - tr.BackTo

(* time.Now() is read once for each bound.                                 *)
TimeIsWithin(tr, ts, n1, n2) == ts <= n1 - tr.From /\ ts > n2 - tr.BackTo

(* The readings of the clock one test can make: the clock ticks at most    *)
(* once, and late[i] are the snapshots whose i-th reading is after that.   *)
Readings ==
    {late \in (SUBSET infos) \X (SUBSET infos) :
        /\ late[1] \subseteq late[2]
        /\ late[2] # {} => ticks < MaxTicks /\ now < MaxTime}

Within(tr, late) ==
    {ts \in infos : TimeIsWithin(tr, ts, now + (IF ts \in late[1] THEN 1 ELSE 0),
                                         now + (IF ts \in late[2] THEN 1 ELSE 0))}

ClockAfter(late) ==
    /\ now' = IF late[2] = {} THEN now ELSE now + 1
    /\ ticks' = IF late[2] = {} THEN ticks ELSE ticks + 1

(* getOrderedSliceWithin sorts; the first is the oldest, the last newest.  *)
IsOldestWithin(tr, ts, late) == Within(tr, late) # {} /\ ts = Min(Within(tr, late))
IsNewestWithin(tr, ts, late) == Within(tr, late) # {} /\ ts = Max(Within(tr, late))

Init ==
    /\ now = StartTime
    /\ infos \in {S \in SUBSET StartInfos : Cardinality(S) <= MaxSnaps}
    /\ at = "rest" /\ todo = {} /\ range = 1 /\ keeps = {} /\ ticks = 0

(* A backup writes a snapshot, and time passes.                            *)
Backup ==
    /\ at = "rest" /\ Cardinality(infos) < MaxSnaps
    /\ infos' = infos \cup {now}
    /\ UNCHANGED <<now, at, todo, range, keeps, ticks>>

Tick ==
    /\ at = "rest" /\ now < MaxTime
    /\ now' = now + 1
    /\ UNCHANGED <<infos, at, todo, range, keeps, ticks>>

-----------------------------------------------------------------------------
(* GetAllSnapshotInfos lists the snapshots, sorted by time.                *)
StartPrune ==
    /\ at = "rest"
    /\ at' = "everything" /\ todo' = infos /\ keeps' = {} /\ ticks' = 0
    /\ UNCHANGED <<now, infos, range>>

(* The snapshot being judged.                                              *)
ss == Min(todo)

NextSnapshot == at' = "everything" /\ todo' = todo \ {ss} /\ range' = 1

\* Mutant: the last range is forgotten.
NextRangeStopsEarly ==
    \/ /\ range < 3
       /\ at' = "oldest" /\ range' = range + 1
       /\ UNCHANGED todo
    \/ range = 3 /\ NextSnapshot

\* Mutant: the loop over the ranges does not end.
NextRangePastEnd ==
    /\ at' = "oldest" /\ range' = range + 1
    /\ UNCHANGED todo

NextRange ==
    \/ /\ range < 4
       /\ at' = "oldest" /\ range' = range + 1
       /\ UNCHANGED todo
    \/ range = 4 /\ NextSnapshot

TestEverything ==
    /\ at = "everything" /\ todo # {}
    /\ \E late \in Readings :
         /\ ClockAfter(late)
         /\ IF ss \in Within(KeepEverything, late)
            THEN keeps' = keeps \cup {ss} /\ NextSnapshot
            ELSE at' = "oldest" /\ UNCHANGED <<keeps, todo, range>>
    /\ UNCHANGED infos

TestOldest ==
    /\ at = "oldest"
    /\ \E late \in Readings :
         /\ ClockAfter(late)
         /\ IF IsOldestWithin(KeepOldestNewest[range], ss, late)
            THEN keeps' = keeps \cup {ss} /\ NextRange
            ELSE at' = "newest" /\ UNCHANGED <<keeps, todo, range>>
    /\ UNCHANGED infos

\* Mutant: only the oldest snapshots are kept.
TestNewestMissing ==
    /\ at = "newest"
    /\ NextRange
    /\ UNCHANGED <<now, infos, keeps, ticks>>

TestNewest ==
    /\ at = "newest"
    /\ \E late \in Readings :
         /\ ClockAfter(late)
         /\ keeps' = IF IsNewestWithin(KeepOldestNewest[range], ss, late)
                     THEN keeps \cup {ss} ELSE keeps
         /\ NextRange
    /\ UNCHANGED infos

(* What is not on the list is deleted, but for deletions that fail.        *)
DeleteOthers ==
    /\ at = "everything" /\ todo = {}
    /\ \E failed \in SUBSET (infos \ keeps) : infos' = keeps \cup failed
    /\ at' = "rest"
    /\ UNCHANGED <<now, todo, range, keeps, ticks>>

Next ==
    \/ Backup \/ Tick \/ StartPrune
    \/ TestEverything \/ TestOldest \/ TestNewest \/ DeleteOthers

Spec == Init /\ [][Next]_vars

-----------------------------------------------------------------------------
Ranges == {KeepEverything} \cup {KeepOldestNewest[i] : i \in 1..4}

Ages(tr, S) == {ts \in S : TimeIsWithin(tr, ts, now, now)}

(* Type correctness; in particular GetPruneKeepsList only judges snapshots *)
(* that are there, and for ranges that are there.                          *)
TypeOK ==
    /\ now \in 0..MaxTime /\ infos \subseteq 0..MaxTime
    /\ at \in {"rest", "everything", "oldest", "newest"}
    /\ todo \subseteq infos /\ keeps \subseteq 0..MaxTime
    /\ range \in 1..4 /\ ticks \in 0..MaxTicks

(* What the list is when the clock stands still: everything of the last    *)
(* day, and the oldest and the newest of each of the code's other ranges   *)
(* (the loops of GetPruneKeepsList against their result as a set).  The    *)
(* ranges themselves are not the documented ones, see KeepsAsDocumented.   *)
KeepsAreOldestAndNewest ==
    (at = "everything" /\ todo = {} /\ ticks = 0) =>
        keeps = Ages(KeepEverything, infos)
                \cup UNION {{Min(Ages(tr, infos)), Max(Ages(tr, infos))} :
                            tr \in {r \in Ranges : Ages(r, infos) # {}}}

(* What the help of the command prune promises to keep (cmd/prune.go:22):  *)
(* every snapshot of the past 24 hours, and the oldest and the newest from *)
(* the past 2-7 days, 7-30 days and 2-12 months.  GetPruneKeepsList has    *)
(* ranges of 1-3, 3-7 and 7-30 days and of a month to a year.              *)
OneDay == Bounds[1]
Documented == {[From |-> 2 * OneDay, BackTo |-> 7 * OneDay],
               [From |-> 7 * OneDay, BackTo |-> 30 * OneDay],
               [From |-> 60 * OneDay, BackTo |-> 360 * OneDay]}

KeepsAsDocumented ==
    (at = "everything" /\ todo = {} /\ ticks = 0) =>
        /\ Ages(KeepEverything, infos) \subseteq keeps
        /\ \A tr \in {r \in Documented : Ages(r, infos) # {}} :
              {Min(Ages(tr, infos)), Max(Ages(tr, infos))} \subseteq keeps

(* A prune never deletes the most recent snapshot of a backup that is less *)
(* than a year old, whatever the clock does meanwhile.  The daemon relies  *)
(* on it: unlike DeleteSnapshots, a prune does not make the next backup a  *)
(* full one, and an incremental one takes its extents from that snapshot.  *)
NewestKept ==
    [][\A ts \in infos \ infos' : ts # Max(infos) \/ ts <= now - OneYear]_vars

(* A prune leaves a snapshot in every range of age that has one: no step   *)
(* from one range to the next loses the last of both.                      *)
RangesCovered ==
    [][\A tr \in Ranges : Ages(tr, infos \ infos') # {} => Ages(tr, infos') # {}]_vars

-----------------------------------------------------------------------------
(* The inductive invariant behind them: what is known of a snapshot that   *)
(* is not on the list, once it is judged and while it is.                  *)

Judging(ts) == at \in {"oldest", "newest"} /\ ts = ss
Judged(ts)  == at # "rest" /\ ts \notin todo

\* The i-th range of S when the clock reads n, and the snapshots at its ends.
RangeAt(S, i, n) == {ts \in S : TimeIsWithin(KeepOldestNewest[i], ts, n, n)}
OldestAt(S, ts, i, n) == ts \in RangeAt(S, i, n) /\ \A u \in RangeAt(S, i, n) : ts <= u
NewestAt(S, ts, i, n) == ts \in RangeAt(S, i, n) /\ \A u \in RangeAt(S, i, n) : u <= ts

LoopShape ==
    /\ \A ts \in infos : ts <= now
    /\ at \in {"rest", "everything"} => range = 1
    /\ at \in {"oldest", "newest"} => todo # {}
    /\ at # "rest" => keeps \subseteq infos

\* Everything of the last day is kept, and time only makes it older.
DayKept ==
    \A ts \in infos \ keeps : Judged(ts) \/ Judging(ts) => ts <= now - Bounds[1]

\* The newest of all is older than each range it was not kept for.
NewestOlder ==
    \A ts \in infos \ keeps : (\A u \in infos : u <= ts) =>
        /\ Judged(ts) => ts <= now - OneYear
        /\ Judging(ts) => ts <= now - Bounds[range]

\* What the clock may read until the prune is over.
Clocks == now..(now - ticks + MaxTicks)

\* A prune is over before a whole range has passed by.
Brief == \A i \in 1..4 : MaxTicks <= Bounds[i + 1] - Bounds[i]

\* If a snapshot will come into the i-th range before the prune is over, then one
\* on the list comes with it: the oldest of the range before.
EntersWithOther(ts, i) ==
    \/ ts <= now - Bounds[i]
    \/ ts > now - ticks + MaxTicks - Bounds[i]
    \/ \E kept \in keeps : kept <= ts /\ kept > now - ticks - Bounds[i]

\* In the range a snapshot is the newest of, one is on the list.
RangeListed(ts, i) ==
    \A n \in Clocks : NewestAt(infos, ts, i, n) => keeps \cap RangeAt(infos, i, n) # {}

RangesListed ==
    Brief => \A ts \in infos :
        /\ Judged(ts) => /\ \A i \in 1..5 : EntersWithOther(ts, i)
                         /\ \A i \in 1..4 : RangeListed(ts, i)
        /\ Judging(ts) =>
             /\ \A i \in 1..(IF at = "newest" THEN range + 1 ELSE range) : EntersWithOther(ts, i)
             /\ \A i \in 1..(range - 1) : RangeListed(ts, i)

\* While the clock stands still the list is exact.
ListExact ==
    ticks = 0 =>
        \A ts \in infos :
            /\ Judged(ts) => (ts \in keeps <=>
                    \/ TimeIsWithin(KeepEverything, ts, now, now)
                    \/ \E i \in 1..4 : OldestAt(infos, ts, i, now) \/ NewestAt(infos, ts, i, now))
            /\ Judging(ts) =>
                 /\ ~TimeIsWithin(KeepEverything, ts, now, now)
                 /\ ts \in keeps <=>
                       \E i \in 1..(range - 1) : OldestAt(infos, ts, i, now) \/ NewestAt(infos, ts, i, now)
                 /\ at = "newest" => ~OldestAt(infos, ts, range, now)
            /\ at # "rest" /\ ts \in keeps => Judged(ts) \/ Judging(ts)

(* What GetPruneKeepsList has decided at each point of its two loops.      *)
PruneInv == TypeOK /\ LoopShape /\ DayKept /\ NewestOlder /\ RangesListed /\ ListExact
=============================================================================
