----------------------------- MODULE PruneProofs -----------------------------
(***************************************************************************)
(* What a prune keeps, for any ranges of age, any snapshots and any ticks  *)
(* of the clock while it judges them: the newest snapshot that is not a    *)
(* year old, one of every range that has one, and, when the clock stands   *)
(* still, exactly what the ranges call for.                                *)
(***************************************************************************)
EXTENDS Prune, SumTheorems

-----------------------------------------------------------------------------
(* Oldest and newest *)

LEMMA MinFacts ==
    ASSUME NEW S \in SUBSET Nat, S # {}
    PROVE  Min(S) \in S /\ \A u \in S : Min(S) <= u
BY LeastNumber DEF Min

LEMMA MaxFacts ==
    ASSUME NEW k \in Nat, NEW S \in SUBSET (0..k), S # {}
    PROVE  Max(S) \in S /\ \A u \in S : u <= Max(S)
<1> DEFINE T == {k - u : u \in S}
<1>0. \A u \in S : u \in Nat /\ k - u \in Nat
  OBVIOUS
<1>1. T \in SUBSET Nat /\ T # {}
  BY <1>0
<1>2. PICK n \in T : \A m \in T : n <= m
  BY <1>1, LeastNumber
<1>3. PICK x \in S : n = k - x
  BY <1>2
<1>4. \A u \in S : k - x <= k - u
  BY <1>2, <1>3
<1>5. \A u \in S : x >= u
  BY <1>0, <1>4
<1>6. Max(S) \in S /\ \A u \in S : Max(S) >= u
  BY <1>5 DEF Max
<1> QED BY <1>0, <1>6

LEMMA BoundFacts ==
    /\ \A i \in 1..5 : Bounds[i] \in Nat
    /\ \A i \in 1..4 : Bounds[i] < Bounds[i + 1]
    /\ OneYear = Bounds[5] /\ KeepEverything.From = 0 /\ KeepEverything.BackTo = Bounds[1]
    /\ \A i \in 1..4 : /\ KeepOldestNewest[i].From = Bounds[i]
                       /\ KeepOldestNewest[i].BackTo = Bounds[i + 1]
<1>1. \A i \in 1..5 : Bounds[i] \in Nat
  <2>1. \A T : Bounds \in Seq(T) => \A i \in 1..Len(Bounds) : Bounds[i] \in T
    OBVIOUS
  <2> QED BY <2>1, BoundsAreAges
<1>2. \A i \in 1..4 : Bounds[i] < Bounds[i + 1]
  BY BoundsAreAges
<1>3. OneYear = Bounds[5] /\ KeepEverything.From = 0 /\ KeepEverything.BackTo = Bounds[1]
  BY DEF OneYear, KeepEverything
<1>4. \A i \in 1..4 : KeepOldestNewest[i] = [From |-> Bounds[i], BackTo |-> Bounds[i + 1]]
  BY DEF KeepOldestNewest
<1> QED BY <1>1, <1>2, <1>3, <1>4

LEMMA RangeFacts ==
    ASSUME NEW S, NEW i \in 1..4, NEW n
    PROVE  /\ RangeAt(S, i, n) = {ts \in S : ts <= n - Bounds[i] /\ ts > n - Bounds[i + 1]}
           /\ \A ts : OldestAt(S, ts, i, n) <=>
                 /\ ts \in S /\ ts <= n - Bounds[i] /\ ts > n - Bounds[i + 1]
                 /\ \A u \in S : u <= n - Bounds[i] /\ u > n - Bounds[i + 1] => ts <= u
           /\ \A ts : NewestAt(S, ts, i, n) <=>
                 /\ ts \in S /\ ts <= n - Bounds[i] /\ ts > n - Bounds[i + 1]
                 /\ \A u \in S : u <= n - Bounds[i] /\ u > n - Bounds[i + 1] => u <= ts
<1>1. RangeAt(S, i, n) = {ts \in S : ts <= n - Bounds[i] /\ ts > n - Bounds[i + 1]}
  BY BoundFacts DEF RangeAt, TimeIsWithin
<1> QED BY <1>1 DEF OldestAt, NewestAt

-----------------------------------------------------------------------------
(* One test *)

(* The snapshots found in a range are those that are in it throughout, and *)
(* some of those that are in it for a moment of the test.                  *)
Found(W, from, backTo) ==
    /\ W \subseteq infos
    /\ \A ts \in W : ts <= now' - from /\ ts > now - backTo
    /\ \A ts \in infos : ts <= now - from /\ ts > now' - backTo => ts \in W

ClockMoves ==
    /\ now' \in 0..MaxTime /\ ticks' \in 0..MaxTicks
    /\ \/ now' = now /\ ticks' = ticks
       \/ now' = now + 1 /\ ticks' = ticks + 1

First(W) == ss \in W /\ \A u \in W : ss <= u
Last(W)  == ss \in W /\ \A u \in W : u <= ss

LEMMA ReadingFacts ==
    ASSUME TypeOK, NEW late \in Readings, ClockAfter(late),
           NEW tr, tr.From \in Nat, tr.BackTo \in Nat
    PROVE  ClockMoves /\ Found(Within(tr, late), tr.From, tr.BackTo)
<1>1. CASE late[2] = {}
  <2>1. late[1] = {} /\ now' = now /\ ticks' = ticks
    BY <1>1 DEF Readings, ClockAfter
  <2>2. Within(tr, late) = {ts \in infos : ts <= now - tr.From /\ ts > now - tr.BackTo}
    BY <1>1, <2>1 DEF Within, TimeIsWithin, TypeOK
  <2> QED BY <2>1, <2>2 DEF ClockMoves, Found, TypeOK
<1>2. CASE late[2] # {}
  <2>1. ticks < MaxTicks /\ now < MaxTime /\ now' = now + 1 /\ ticks' = ticks + 1
    BY <1>2 DEF Readings, ClockAfter
  <2>2. ClockMoves
    BY <2>1, TimesAssumption DEF ClockMoves, TypeOK
  <2> DEFINE n1(ts) == now + (IF ts \in late[1] THEN 1 ELSE 0)
             n2(ts) == now + (IF ts \in late[2] THEN 1 ELSE 0)
  <2>3. \A ts : n1(ts) \in {now, now + 1} /\ n2(ts) \in {now, now + 1}
    BY DEF TypeOK
  <2>4. \A ts : ts \in Within(tr, late) <=>
                    ts \in infos /\ ts <= n1(ts) - tr.From /\ ts > n2(ts) - tr.BackTo
    BY DEF Within, TimeIsWithin
  <2> HIDE DEF n1, n2
  <2>5. infos \subseteq Int /\ now \in Int
    BY DEF TypeOK
  <2> DEFINE f == tr.From
             b == tr.BackTo
  <2>b. f \in Int /\ b \in Int
    OBVIOUS
  <2>w. \A ts : ts \in Within(tr, late) <=>
                    ts \in infos /\ ts <= n1(ts) - f /\ ts > n2(ts) - b
    BY <2>4
  <2> HIDE DEF f, b
  <2>6. ASSUME NEW ts \in infos, ts <= n1(ts) - f, ts > n2(ts) - b
        PROVE  ts <= now + 1 - f /\ ts > now - b
    BY <2>3, <2>5, <2>6, <2>b
  <2>7. ASSUME NEW ts \in infos, ts <= now - f, ts > now + 1 - b
        PROVE  ts <= n1(ts) - f /\ ts > n2(ts) - b
    BY <2>3, <2>5, <2>7, <2>b
  <2>8. /\ \A ts \in Within(tr, late) : ts <= now' - f /\ ts > now - b
        /\ \A ts \in infos : ts <= now - f /\ ts > now' - b => ts \in Within(tr, late)
    <3>1. \A ts \in Within(tr, late) : ts <= now + 1 - f /\ ts > now - b
      BY <2>6, <2>w
    <3>2. \A ts \in infos : ts <= now - f /\ ts > now + 1 - b => ts \in Within(tr, late)
      BY <2>7, <2>w
    <3>3. now' - f = now + 1 - f /\ now' - b = now + 1 - b
      BY <2>1, <2>5, <2>b
    <3> QED BY <3>1, <3>2, <3>3
  <2> QED BY <2>2, <2>4, <2>8 DEF Found, f, b
<1> QED BY <1>1, <1>2

LEMMA Subject ==
    ASSUME TypeOK, todo # {}
    PROVE  ss \in todo /\ ss \in infos /\ ss \in Nat /\ \A u \in todo : ss <= u
<1>1. todo \in SUBSET Nat
  BY DEF TypeOK
<1> QED BY <1>1, MinFacts DEF ss, TypeOK

LEMMA EverythingTest ==
    ASSUME TypeOK, TestEverything
    PROVE  /\ ClockMoves /\ infos' = infos /\ todo # {} /\ at = "everything"
           /\ \E W : /\ Found(W, 0, Bounds[1])
                     /\ IF ss \in W THEN keeps' = keeps \cup {ss} /\ NextSnapshot
                        ELSE at' = "oldest" /\ UNCHANGED <<keeps, todo, range>>
<1>1. PICK late \in Readings :
         /\ ClockAfter(late)
         /\ IF ss \in Within(KeepEverything, late)
            THEN keeps' = keeps \cup {ss} /\ NextSnapshot
            ELSE at' = "oldest" /\ UNCHANGED <<keeps, todo, range>>
  BY DEF TestEverything
<1>2. ClockMoves /\ Found(Within(KeepEverything, late), 0, Bounds[1])
  BY <1>1, BoundFacts, ReadingFacts
<1>3. infos' = infos /\ todo # {} /\ at = "everything"
  BY DEF TestEverything
<1> QED BY <1>1, <1>2, <1>3

LEMMA OldestTest ==
    ASSUME TypeOK, LoopShape, TestOldest
    PROVE  /\ ClockMoves /\ infos' = infos /\ todo # {} /\ at = "oldest"
           /\ \E W : /\ Found(W, Bounds[range], Bounds[range + 1])
                     /\ \/ First(W) /\ keeps' = keeps \cup {ss} /\ NextRange
                        \/ ~First(W) /\ at' = "newest" /\ UNCHANGED <<keeps, todo, range>>
<1>1. PICK late \in Readings :
         /\ ClockAfter(late)
         /\ IF IsOldestWithin(KeepOldestNewest[range], ss, late)
            THEN keeps' = keeps \cup {ss} /\ NextRange
            ELSE at' = "newest" /\ UNCHANGED <<keeps, todo, range>>
  BY DEF TestOldest
<1> DEFINE W == Within(KeepOldestNewest[range], late)
<1>2. range \in 1..4 /\ infos' = infos /\ at = "oldest" /\ todo # {}
  BY DEF TypeOK, TestOldest, LoopShape
<1>3. ClockMoves /\ Found(W, Bounds[range], Bounds[range + 1])
  BY <1>1, <1>2, BoundFacts, ReadingFacts
<1>4. W \in SUBSET Nat
  <2>1. infos \subseteq Nat
    BY DEF TypeOK
  <2> QED BY <1>3, <2>1 DEF Found
<1>5. IsOldestWithin(KeepOldestNewest[range], ss, late) <=> W # {} /\ ss = Min(W)
  BY DEF IsOldestWithin
<1> HIDE DEF W
<1>6. W # {} /\ ss = Min(W) <=> First(W)
  <2>1. ss \in Nat
    BY <1>2, Subject
  <2>2. W # {} => Min(W) \in W /\ (\A u \in W : Min(W) <= u) /\ Min(W) \in Nat
    BY <1>4, MinFacts
  <2> QED BY <1>4, <2>1, <2>2 DEF First
<1> QED BY <1>1, <1>2, <1>3, <1>5, <1>6

LEMMA NewestTest ==
    ASSUME TypeOK, LoopShape, TestNewest
    PROVE  /\ ClockMoves /\ infos' = infos /\ todo # {} /\ at = "newest" /\ NextRange
           /\ \E W : /\ Found(W, Bounds[range], Bounds[range + 1])
                     /\ keeps' = IF Last(W) THEN keeps \cup {ss} ELSE keeps
<1>1. PICK late \in Readings :
         /\ ClockAfter(late) /\ NextRange
         /\ keeps' = IF IsNewestWithin(KeepOldestNewest[range], ss, late)
                     THEN keeps \cup {ss} ELSE keeps
  BY DEF TestNewest
<1> DEFINE W == Within(KeepOldestNewest[range], late)
<1>2. range \in 1..4 /\ infos' = infos /\ at = "newest" /\ todo # {}
  BY DEF TypeOK, TestNewest, LoopShape
<1>3. ClockMoves /\ Found(W, Bounds[range], Bounds[range + 1])
  BY <1>1, <1>2, BoundFacts, ReadingFacts
<1>4. W \in SUBSET (0..MaxTime) /\ MaxTime \in Nat
  BY <1>3, TimesAssumption DEF Found, TypeOK
<1>5. IsNewestWithin(KeepOldestNewest[range], ss, late) <=> W # {} /\ ss = Max(W)
  BY DEF IsNewestWithin
<1> HIDE DEF W
<1>6. W # {} /\ ss = Max(W) <=> Last(W)
  <2>1. ss \in Nat
    BY <1>2, Subject
  <2>2. W # {} => Max(W) \in W /\ (\A u \in W : u <= Max(W)) /\ Max(W) \in Nat
    <3>1. W # {} => Max(W) \in W /\ \A u \in W : u <= Max(W)
      BY <1>4, MaxFacts
    <3>2. W \subseteq Nat
      BY <1>4
    <3> QED BY <3>1, <3>2
  <2> QED BY <1>4, <2>1, <2>2 DEF Last
<1> QED BY <1>1, <1>2, <1>3, <1>5, <1>6

(* Where the loops are after a test.                                       *)
Stays(r) == /\ at' \in {"oldest", "newest"} /\ todo' = todo /\ range' = r

LEMMA AfterStay ==
    ASSUME TypeOK, at # "rest", NEW r, Stays(r), NEW ts
    PROVE  (Judged(ts)' <=> Judged(ts)) /\ (Judging(ts)' <=> ts = ss) /\ ss' = ss
BY DEF Stays, Judged, Judging, ss

LEMMA AfterSnapshot ==
    ASSUME TypeOK, at # "rest", todo # {}, NextSnapshot, NEW ts
    PROVE  (Judged(ts)' <=> Judged(ts) \/ ts = ss) /\ ~Judging(ts)'
BY Subject DEF NextSnapshot, Judged, Judging

LEMMA AfterRange ==
    ASSUME TypeOK, NextRange
    PROVE  \/ range < 4 /\ Stays(range + 1) /\ at' = "oldest"
           \/ range = 4 /\ NextSnapshot
BY DEF NextRange, Stays

-----------------------------------------------------------------------------
(* The steps *)

Test == TestEverything \/ TestOldest \/ TestNewest

(* A test leaves the snapshot it is about, or goes on with it.             *)
LEMMA TestFacts ==
    ASSUME TypeOK, LoopShape, Test
    PROVE  /\ ClockMoves /\ infos' = infos /\ todo # {} /\ at # "rest"
           /\ keeps' \in {keeps, keeps \cup {ss}}
           /\ \/ NextSnapshot
              \/ Stays(range)
              \/ range < 4 /\ Stays(range + 1) /\ at' = "oldest"
<1>1. CASE TestEverything
  BY <1>1, EverythingTest DEF Stays
<1>2. CASE TestOldest
  BY <1>2, OldestTest, AfterRange DEF Stays
<1>3. CASE TestNewest
  BY <1>3, NewestTest, AfterRange DEF Stays
<1> QED BY <1>1, <1>2, <1>3 DEF Test

LEMMA ShapeKept ==
    ASSUME TypeOK, LoopShape, [Next]_vars
    PROVE  TypeOK' /\ LoopShape'
<1>t. MaxTime \in Nat /\ MaxTicks \in Nat
  BY TimesAssumption
<1>1. CASE Test
  <2>1. ss \in todo /\ ss \in infos
    BY <1>1, TestFacts, Subject
  <2>2. /\ ClockMoves /\ infos' = infos /\ at # "rest" /\ keeps' \in {keeps, keeps \cup {ss}}
    BY <1>1, TestFacts
  <2>3. /\ at' \in {"everything", "oldest", "newest"} /\ todo' \subseteq todo /\ range' \in 1..4
        /\ at' = "everything" => range' = 1
        /\ at' \in {"oldest", "newest"} => todo' # {}
    BY <1>1, TestFacts DEF NextSnapshot, Stays, TypeOK
  <2>4. now' >= now /\ now' \in 0..MaxTime /\ ticks' \in 0..MaxTicks
    BY <2>2 DEF ClockMoves, TypeOK
  <2>5. \A ts \in infos : ts <= now'
    BY <2>4 DEF LoopShape, TypeOK
  <2>6. TypeOK'
    BY <2>1, <2>2, <2>3, <2>4 DEF TypeOK
  <2> QED BY <2>1, <2>2, <2>3, <2>5, <2>6 DEF LoopShape
<1>2. CASE Backup
  BY <1>2 DEF Backup, TypeOK, LoopShape
<1>3. CASE Tick
  BY <1>3, <1>t DEF Tick, TypeOK, LoopShape
<1>4. CASE StartPrune
  BY <1>4, <1>t DEF StartPrune, TypeOK, LoopShape
<1>5. CASE DeleteOthers
  <2>1. infos' \subseteq infos
    BY <1>5 DEF DeleteOthers, LoopShape
  <2> QED BY <1>5, <2>1 DEF DeleteOthers, TypeOK, LoopShape
<1>6. CASE UNCHANGED vars
  BY <1>6 DEF vars, TypeOK, LoopShape
<1> QED BY <1>1, <1>2, <1>3, <1>4, <1>5, <1>6 DEF Next, Test

(* Outside the tests nothing has been judged, or nothing changes.          *)
Quiet == Backup \/ Tick \/ StartPrune \/ DeleteOthers \/ UNCHANGED vars

LEMMA QuietFacts ==
    ASSUME TypeOK, LoopShape, Quiet
    PROVE  \/ UNCHANGED vars
           \/ at' = "rest"
           \/ at' = "everything" /\ todo' = infos' /\ keeps' = {}
BY DEF Quiet, Backup, Tick, StartPrune, DeleteOthers

LEMMA NothingJudged ==
    ASSUME TypeOK, LoopShape, Quiet, ~UNCHANGED vars, NEW ts \in infos'
    PROVE  ~Judged(ts)' /\ ~Judging(ts)' /\ (at' # "rest" => ts \notin keeps')
BY QuietFacts DEF Judged, Judging

LEMMA SameJudged ==
    ASSUME UNCHANGED vars, NEW ts
    PROVE  /\ UNCHANGED <<now, infos, at, todo, range, keeps, ticks>>
           /\ (Judged(ts)' <=> Judged(ts)) /\ (Judging(ts)' <=> Judging(ts))
BY DEF vars, Judged, Judging, ss

(* Everything of the last day.                                             *)
LEMMA DayStep ==
    ASSUME TypeOK, LoopShape, DayKept, [Next]_vars
    PROVE  DayKept'
<1>b. Bounds[1] \in Nat
  BY BoundFacts
<1>1. CASE Quiet
  <2>1. CASE UNCHANGED vars
    BY <2>1, SameJudged DEF DayKept
  <2>2. CASE ~UNCHANGED vars
    BY <1>1, <2>2, NothingJudged DEF DayKept
  <2> QED BY <2>1, <2>2
<1>2. CASE Test
  <2> SUFFICES ASSUME NEW ts \in infos, ts \notin keeps', Judged(ts)' \/ Judging(ts)'
               PROVE  ts <= now' - Bounds[1]
    BY <1>2, TestFacts DEF DayKept
  <2>0. ts \in Nat /\ now \in Nat /\ now' \in Nat /\ now <= now' /\ ts \notin keeps /\ ts <= now
    BY <1>2, TestFacts DEF ClockMoves, TypeOK, LoopShape
  <2>1. CASE Judged(ts) \/ Judging(ts)
    <3>1. ts <= now - Bounds[1]
      BY <2>0, <2>1 DEF DayKept
    <3> QED BY <1>b, <2>0, <3>1
  <2>2. CASE ~Judged(ts) /\ ~Judging(ts)
    <3>1. ts = ss
      BY <1>2, <2>2, TestFacts, AfterStay, AfterSnapshot
    <3>2. TestEverything
      BY <1>2, <2>2, <3>1, OldestTest, NewestTest DEF Test, Judging
    <3>3. PICK W : /\ Found(W, 0, Bounds[1])
                   /\ ss \in W => keeps' = keeps \cup {ss}
      BY <3>2, EverythingTest
    <3>4. ts \notin W /\ (ts <= now - 0 /\ ts > now' - Bounds[1] => ts \in W)
      BY <3>1, <3>3 DEF Found
    <3> QED BY <1>b, <2>0, <3>4
  <2> QED BY <2>1, <2>2
<1> QED BY <1>1, <1>2 DEF Next, Quiet, Test

(* The newest of all.                                                      *)
LEMMA NewestStep ==
    ASSUME TypeOK, LoopShape, DayKept, NewestOlder, [Next]_vars
    PROVE  NewestOlder'
<1>b. /\ \A i \in 1..5 : Bounds[i] \in Nat
      /\ OneYear = Bounds[5]
  BY BoundFacts
<1>1. CASE Quiet
  <2>1. CASE UNCHANGED vars
    BY <2>1, SameJudged DEF NewestOlder
  <2>2. CASE ~UNCHANGED vars
    BY <1>1, <2>2, NothingJudged DEF NewestOlder
  <2> QED BY <2>1, <2>2
<1>2. CASE Test
  <2> SUFFICES ASSUME NEW ts \in infos, ts \notin keeps', \A u \in infos : u <= ts
               PROVE  /\ Judged(ts)' => ts <= now' - Bounds[5]
                      /\ Judging(ts)' => ts <= now' - Bounds[range']
    BY <1>2, <1>b, TestFacts DEF NewestOlder
  <2>0. /\ ts \in Nat /\ now \in Nat /\ now' \in Nat /\ now <= now' /\ ts \notin keeps
        /\ range \in 1..4 /\ \A i \in 1..5 : ts <= now - Bounds[i] => ts <= now' - Bounds[i]
    <3>1. ts \in Nat /\ now \in Nat /\ now' \in Nat /\ now <= now' /\ ts \notin keeps
      BY <1>2, TestFacts DEF ClockMoves, TypeOK
    <3> QED BY <3>1, <1>b DEF TypeOK
  <2>1. CASE ts # ss
    <3>1. ~Judging(ts)' /\ (Judged(ts)' => Judged(ts))
      BY <1>2, <2>1, TestFacts, AfterStay, AfterSnapshot
    <3> QED BY <1>b, <2>0, <3>1 DEF NewestOlder
  <2>2. CASE ts = ss /\ TestEverything
    <3>1. ~Judged(ts)'
      <4>1. PICK W : /\ Found(W, 0, Bounds[1])
                     /\ IF ss \in W THEN keeps' = keeps \cup {ss} /\ NextSnapshot
                        ELSE at' = "oldest" /\ UNCHANGED <<keeps, todo, range>>
        BY <2>2, EverythingTest
      <4>2. todo' = todo /\ ss \in todo
        BY <2>2, <4>1, EverythingTest, Subject
      <4> QED BY <2>2, <4>2 DEF Judged
    <3>2. Judging(ts)' => range' = 1
      BY <2>2, EverythingTest DEF NextSnapshot, Judging, LoopShape
    <3>3. Judging(ts)' => ts <= now' - Bounds[1]
      BY <1>2, DayStep, TestFacts DEF DayKept
    <3> QED BY <3>1, <3>2, <3>3
  <2>3. CASE ts = ss /\ TestOldest
    <3>1. ts <= now - Bounds[range] /\ at = "oldest"
      BY <2>0, <2>3, OldestTest DEF NewestOlder, Judging
    <3>2. Stays(range)
      BY <2>3, OldestTest DEF Stays
    <3>3. ~Judged(ts)' /\ range' = range
      BY <2>3, <3>2, OldestTest, Subject DEF Stays, Judged
    <3> QED BY <2>0, <3>1, <3>3
  <2>4. CASE ts = ss /\ TestNewest
    <3>1. ts <= now - Bounds[range]
      BY <2>0, <2>4, NewestTest DEF NewestOlder, Judging
    <3>2. PICK W : Found(W, Bounds[range], Bounds[range + 1]) /\ ~Last(W)
      BY <2>4, NewestTest
    <3>3. ts \notin W
      BY <2>4, <3>2 DEF Last, Found
    <3>4. ts <= now' - Bounds[range + 1]
      <4>1. ~(ts > now' - Bounds[range + 1])
        BY <3>1, <3>2, <3>3 DEF Found
      <4>2. Bounds[range + 1] \in Nat
        BY <1>b, <2>0
      <4> QED BY <2>0, <4>1, <4>2
    <3>5. (Judged(ts)' => range = 4) /\ (Judging(ts)' => range' = range + 1)
      BY <2>4, NewestTest, AfterRange, AfterSnapshot, Subject DEF Stays, Judged
    <3> QED BY <3>4, <3>5
  <2> QED BY <1>2, <2>1, <2>2, <2>3, <2>4 DEF Test
<1> QED BY <1>1, <1>2 DEF Next, Quiet, Test

-----------------------------------------------------------------------------
(* One of every range *)

LEMMA TestNumbers ==
    ASSUME TypeOK, LoopShape, Test
    PROVE  /\ now \in Nat /\ now' \in Nat /\ now <= now' /\ now' - ticks' = now - ticks
           /\ ticks \in Nat /\ ticks' \in Nat /\ MaxTicks \in Nat /\ ticks' <= MaxTicks
           /\ range \in 1..4 /\ \A i \in 1..5 : Bounds[i] \in Nat
           /\ infos \subseteq Nat /\ keeps \subseteq infos
           /\ keeps \subseteq keeps' /\ keeps' \subseteq infos
           /\ infos' = infos
<1>1. ClockMoves /\ keeps' \in {keeps, keeps \cup {ss}} /\ infos' = infos /\ at # "rest"
  BY TestFacts
<1>2. ss \in infos
  BY TestFacts, Subject
<1>3. /\ now \in Nat /\ now' \in Nat /\ now <= now' /\ now' - ticks' = now - ticks
      /\ ticks \in Nat /\ ticks' \in Nat /\ MaxTicks \in Nat /\ ticks' <= MaxTicks
  <2>1. now \in Nat /\ ticks \in Nat /\ MaxTicks \in Nat /\ MaxTime \in Nat
    BY TimesAssumption DEF TypeOK
  <2>2. now' \in Nat /\ ticks' \in Nat /\ ticks' <= MaxTicks
    BY <1>1, <2>1 DEF ClockMoves
  <2>a. \/ now' = now /\ ticks' = ticks
        \/ now' = now + 1 /\ ticks' = ticks + 1
    BY <1>1 DEF ClockMoves
  <2>3. now <= now' /\ now' - ticks' = now - ticks
    BY <2>1, <2>a
  <2> QED BY <2>1, <2>2, <2>3
<1>4. infos \subseteq Nat /\ range \in 1..4
  BY DEF TypeOK
<1> QED BY <1>1, <1>2, <1>3, <1>4, BoundFacts DEF LoopShape

(* What is known stays known.                                              *)
LEMMA ListedStays ==
    ASSUME TypeOK, LoopShape, Test, NEW ts \in infos
    PROVE  /\ \A i \in 1..5 : EntersWithOther(ts, i) => EntersWithOther(ts, i)'
           /\ \A i \in 1..4 : RangeListed(ts, i) => RangeListed(ts, i)'
<1>1. ASSUME NEW i \in 1..5, EntersWithOther(ts, i) PROVE EntersWithOther(ts, i)'
  <2> DEFINE b == Bounds[i]
             T == now - ticks
  <2>1. ts \in Nat /\ b \in Nat /\ T \in Int /\ now' - ticks' = T
    BY TestNumbers
  <2>2. \/ ts <= now - b
        \/ ts > T + MaxTicks - b
        \/ \E kept \in keeps : kept <= ts /\ kept > T - b
    BY <1>1 DEF EntersWithOther
  <2> HIDE DEF b, T
  <2>3. \/ ts <= now' - b
        \/ ts > T + MaxTicks - b
        \/ \E kept \in keeps' : kept <= ts /\ kept > T - b
    BY <2>1, <2>2, TestNumbers
  <2> QED BY <2>1, <2>3 DEF EntersWithOther, b
<1>2. ASSUME NEW i \in 1..4, RangeListed(ts, i) PROVE RangeListed(ts, i)'
  <2>1. Clocks' \subseteq Clocks
    <3> DEFINE T == now - ticks
    <3>1. T \in Int /\ now' - ticks' = T
      BY TestNumbers
    <3> HIDE DEF T
    <3>2. now'..(T + MaxTicks) \subseteq now..(T + MaxTicks)
      BY <3>1, TestNumbers
    <3> QED BY <3>1, <3>2 DEF Clocks, T
  <2> QED BY <1>2, <2>1, TestNumbers DEF RangeListed
<1> QED BY <1>1, <1>2

(* Nothing is asked of a snapshot that is on the list itself.              *)
LEMMA KeptListed ==
    ASSUME TypeOK, LoopShape, Test, NEW ts \in keeps'
    PROVE  /\ \A i \in 1..5 : EntersWithOther(ts, i)'
           /\ \A i \in 1..4 : RangeListed(ts, i)'
<1>1. ASSUME NEW i \in 1..5 PROVE EntersWithOther(ts, i)'
  <2>1. ts \in Nat /\ Bounds[i] \in Nat
    BY TestNumbers
  <2>2. ts > now' - Bounds[i] => ts > now' - ticks' - Bounds[i]
    BY <2>1, TestNumbers
  <2>3. ts <= now' - Bounds[i] \/ ts > now' - Bounds[i]
    BY <2>1, TestNumbers
  <2>4. ts <= ts
    BY <2>1
  <2> QED BY <2>2, <2>3, <2>4 DEF EntersWithOther
<1>2. ASSUME NEW i \in 1..4 PROVE RangeListed(ts, i)'
  BY TestNumbers DEF RangeListed, NewestAt
<1> QED BY <1>1, <1>2

(* The oldest of the range before is on the list.                          *)
LEMMA OldestEnters ==
    ASSUME TypeOK, LoopShape, RangesListed, Brief, TestOldest, ss \notin keeps'
    PROVE  EntersWithOther(ss, range + 1)'
<1> DEFINE y == ss
           T == now - ticks
           b == Bounds[range]
           c == Bounds[range + 1]
<1>1. PICK W : Found(W, b, c) /\ ~First(W)
  BY OldestTest
<1>n. Test
  BY DEF Test
<1>2. /\ y \in Nat /\ T \in Int /\ b \in Nat /\ c \in Nat /\ now' - ticks' = T /\ T <= now
      /\ now \in Nat /\ now' \in Nat /\ MaxTicks \in Nat /\ now <= now'
  BY <1>n, OldestTest, Subject, TestNumbers
<1>3. MaxTicks <= c - b
  BY <1>n, TestNumbers DEF Brief
<1>4. y \in infos /\ y \in todo /\ \A u \in todo : y <= u
  BY OldestTest, Subject
<1>s. EntersWithOther(ss, range + 1)' <=>
          \/ y <= now' - c
          \/ y > T + MaxTicks - c
          \/ \E kept \in keeps' : kept <= y /\ kept > T - c
  <2>1. ss' = ss
    BY OldestTest, AfterStay DEF Stays
  <2>2. range' = range
    BY OldestTest
  <2> QED BY <1>2, <2>1, <2>2 DEF EntersWithOther
<1> SUFFICES ASSUME y > now' - c, y <= T + MaxTicks - c
             PROVE  \E kept \in keeps' : kept <= y /\ kept > T - c
  BY <1>2, <1>s
<1> HIDE DEF y, T, b, c
<1>5. y <= now - b
  BY <1>2, <1>3
<1>6. y \in W
  BY <1>1, <1>4, <1>5 DEF Found
<1>7. PICK z \in W : ~(y <= z)
  BY <1>1, <1>6 DEF First, y
<1>8. z \in infos /\ z \in Nat /\ z < y /\ z > now - c
  BY <1>1, <1>2, <1>7, <1>n, TestNumbers DEF Found
<1>9. z \notin todo
  BY <1>2, <1>4, <1>8
<1>10. EntersWithOther(z, range + 1)
  <2>1. Judged(z)
    BY <1>9, OldestTest DEF Judged
  <2>2. range + 1 \in 1..5
    BY <1>n, TestNumbers
  <2> QED BY <1>8, <2>1, <2>2 DEF RangesListed
<1>11. \/ z <= now - c
       \/ z > T + MaxTicks - c
       \/ \E kept \in keeps : kept <= z /\ kept > T - c
  BY <1>10 DEF EntersWithOther, T, c
<1>12. ~(z <= now - c) /\ ~(z > T + MaxTicks - c)
  BY <1>2, <1>8
<1>13. PICK kept \in keeps : kept <= z /\ kept > T - c
  BY <1>11, <1>12
<1>14. kept \in Nat /\ kept \in keeps'
  BY <1>n, TestNumbers
<1> QED BY <1>2, <1>8, <1>13, <1>14

(* The newest of a range is on the list, or another one of it.             *)
LEMMA NewestLists ==
    ASSUME TypeOK, LoopShape, RangesListed, Brief, TestNewest, ss \notin keeps',
           NEW n \in Clocks', NewestAt(infos, ss, range, n)
    PROVE  keeps' \cap RangeAt(infos, range, n) # {}
<1> DEFINE y == ss
           T == now - ticks
           b == Bounds[range]
           c == Bounds[range + 1]
<1>1. PICK W : Found(W, b, c) /\ ~Last(W)
  BY NewestTest
<1>n. Test
  BY DEF Test
<1>2. /\ y \in Nat /\ T \in Int /\ b \in Nat /\ c \in Nat /\ now' - ticks' = T /\ T <= now
      /\ now \in Nat /\ now' \in Nat /\ MaxTicks \in Nat /\ now <= now'
  BY <1>n, NewestTest, Subject, TestNumbers
<1>3. MaxTicks <= c - b
  BY <1>n, TestNumbers DEF Brief
<1>4. n \in Int /\ now' <= n /\ n <= T + MaxTicks
  <2>1. n \in now'..(T + MaxTicks)
    BY <1>2 DEF Clocks
  <2> HIDE DEF T
  <2> QED BY <1>2, <2>1
<1>5. /\ y \in infos /\ y <= n - b /\ y > n - c
      /\ \A u \in infos : u <= n - b /\ u > n - c => u <= y
  BY <1>n, TestNumbers, RangeFacts
<1>6. RangeAt(infos, range, n) = {ts \in infos : ts <= n - b /\ ts > n - c}
  BY <1>n, TestNumbers, RangeFacts
<1>7. EntersWithOther(ss, range)
  <2>1. Judging(ss) /\ at = "newest"
    BY NewestTest DEF Judging
  <2>2. range \in 1..(range + 1)
    BY <1>n, TestNumbers
  <2> QED BY <1>5, <2>1, <2>2 DEF RangesListed
<1>8. \/ y <= now - b
      \/ y > T + MaxTicks - b
      \/ \E kept \in keeps : kept <= y /\ kept > T - b
  BY <1>7 DEF EntersWithOther
<1>9. Last(W) <=> y \in W /\ \A u \in W : u <= y
  BY DEF Last
<1> HIDE DEF y, T, b, c
<1>10. CASE y <= now - b
  <2>N. PICK N \in Nat : N = now'
    BY <1>2
  <2>m. y > N - c
    <3>1. N <= n
      BY <1>4, <2>N
    <3> QED BY <1>2, <1>4, <1>5, <3>1
  <2>0. y > now' - c
    BY <2>N, <2>m
  <2>1. y \in W
    BY <1>1, <1>5, <1>10, <2>0 DEF Found
  <2>2. PICK z \in W : ~(z <= y)
    BY <1>1, <1>9, <2>1
  <2>3. z \in infos /\ z \in Nat /\ z <= now' - b /\ z > y
    BY <1>1, <1>2, <1>n, <2>2, TestNumbers DEF Found
  <2>4. z <= n - b /\ z > n - c
    <3>1. N <= n /\ z <= N - b
      BY <1>4, <2>N, <2>3
    <3> QED BY <1>2, <1>4, <1>5, <2>3, <3>1
  <2> QED BY <1>2, <1>5, <2>3, <2>4
<1>11. CASE \E kept \in keeps : kept <= y /\ kept > T - b
  <2>1. PICK kept \in keeps : kept <= y /\ kept > T - b
    BY <1>11
  <2>2. kept \in Nat /\ kept \in keeps' /\ kept \in infos
    BY <1>n, TestNumbers
  <2>3. kept <= n - b /\ kept > n - c
    BY <1>2, <1>3, <1>4, <1>5, <2>1, <2>2
  <2> QED BY <1>6, <2>2, <2>3
<1>12. ~(y > T + MaxTicks - b)
  BY <1>2, <1>4, <1>5
<1> QED BY <1>8, <1>10, <1>11, <1>12

LEMMA RangesStep ==
    ASSUME TypeOK, LoopShape, DayKept, RangesListed, [Next]_vars
    PROVE  RangesListed'
<1> SUFFICES ASSUME Brief, NEW ts \in infos'
             PROVE  /\ Judged(ts)' => /\ \A i \in 1..5 : EntersWithOther(ts, i)'
                                      /\ \A i \in 1..4 : RangeListed(ts, i)'
                    /\ Judging(ts)' =>
                         /\ \A i \in 1..(IF at' = "newest" THEN range' + 1 ELSE range') :
                               EntersWithOther(ts, i)'
                         /\ \A i \in 1..(range' - 1) : RangeListed(ts, i)'
  BY DEF RangesListed, Brief
<1>1. CASE Quiet
  <2>1. CASE UNCHANGED vars
    <3>1. /\ UNCHANGED <<now, infos, at, todo, range, keeps, ticks>>
          /\ (Judged(ts)' <=> Judged(ts)) /\ (Judging(ts)' <=> Judging(ts))
      BY <2>1, SameJudged
    <3>2. \A i : (EntersWithOther(ts, i)' <=> EntersWithOther(ts, i))
                 /\ (RangeListed(ts, i)' <=> RangeListed(ts, i))
      BY <3>1 DEF EntersWithOther, RangeListed, Clocks
    <3> QED BY <3>1, <3>2 DEF RangesListed
  <2>2. CASE ~UNCHANGED vars
    BY <1>1, <2>2, NothingJudged
  <2> QED BY <2>1, <2>2
<1>2. CASE Test
  <2>0. infos' = infos /\ range \in 1..4 /\ at # "rest" /\ todo # {}
    BY <1>2, TestNumbers, TestFacts
  <2>1. CASE ts \in keeps'
    <3>1. range' \in 1..4
      BY ShapeKept DEF TypeOK
    <3>2. /\ \A i \in 1..5 : EntersWithOther(ts, i)'
          /\ \A i \in 1..4 : RangeListed(ts, i)'
      BY <1>2, <2>1, KeptListed
    <3>3. /\ 1..(IF at' = "newest" THEN range' + 1 ELSE range') \subseteq 1..5
          /\ 1..(range' - 1) \subseteq 1..4
      <4>1. PICK r \in 1..4 : r = range'
        BY <3>1
      <4>2. 1..r \subseteq 1..5 /\ 1..(r + 1) \subseteq 1..5 /\ 1..(r - 1) \subseteq 1..4
        OBVIOUS
      <4> QED BY <4>1, <4>2
    <3> QED BY <3>2, <3>3
  <2>2. CASE ts # ss
    <3>1. ~Judging(ts)' /\ (Judged(ts)' => Judged(ts))
      BY <1>2, <2>0, <2>2, TestFacts, AfterStay, AfterSnapshot
    <3> QED BY <1>2, <2>0, <3>1, ListedStays DEF RangesListed
  <2>3. CASE ts = ss /\ ts \notin keeps' /\ TestEverything
    <3>1. Stays(1) /\ at' = "oldest"
      BY <2>3, EverythingTest DEF Stays, LoopShape
    <3>2. ~Judged(ts)' /\ Judging(ts)'
      BY <2>0, <2>3, <3>1, AfterStay, Subject DEF Judged
    <3>3. ts <= now' - Bounds[1]
      BY <2>3, <3>2, DayStep DEF DayKept
    <3>4. EntersWithOther(ts, 1)'
      BY <3>3 DEF EntersWithOther
    <3> QED BY <3>1, <3>2, <3>4 DEF Stays
  <2>4. CASE ts = ss /\ ts \notin keeps' /\ TestOldest
    <3>1. Stays(range) /\ at' = "newest" /\ at = "oldest"
      BY <2>4, OldestTest DEF Stays
    <3>2. ~Judged(ts)' /\ Judging(ts) /\ ss' = ss
      BY <2>0, <2>4, <3>1, AfterStay, Subject DEF Judged, Judging
    <3>3. EntersWithOther(ts, range + 1)'
      <4>1. EntersWithOther(ss, range + 1)'
        BY <2>4, OldestEnters
      <4>2. range' = range
        BY <3>1 DEF Stays
      <4> QED BY <2>4, <3>2, <4>1, <4>2 DEF EntersWithOther
    <3>4. \A i \in 1..range : EntersWithOther(ts, i)'
      BY <1>2, <2>0, <3>1, <3>2, ListedStays DEF RangesListed
    <3>5. \A i \in 1..(range - 1) : RangeListed(ts, i)'
      BY <1>2, <2>0, <3>2, ListedStays DEF RangesListed
    <3>6. range' = range /\ \A i \in 1..(range + 1) : i \in 1..range \/ i = range + 1
      BY <2>0, <3>1 DEF Stays
    <3> QED BY <3>1, <3>2, <3>3, <3>4, <3>5, <3>6
  <2>5. CASE ts = ss /\ ts \notin keeps' /\ TestNewest
    <3>1. Judging(ts) /\ at = "newest"
      BY <2>5, NewestTest DEF Judging
    <3>2. \A i \in 1..(range + 1) : EntersWithOther(ts, i)'
      BY <1>2, <2>0, <3>1, ListedStays DEF RangesListed
    <3>3. \A i \in 1..(range - 1) : RangeListed(ts, i)'
      BY <1>2, <2>0, <3>1, ListedStays DEF RangesListed
    <3>r. PICK r \in 1..4 : r = range
      BY <2>0
    <3>4. RangeListed(ts, r)'
      <4>1. \A n \in Clocks' : NewestAt(infos, ts, r, n) => keeps' \cap RangeAt(infos, r, n) # {}
        BY <2>5, <3>r, NewestLists
      <4> QED BY <2>0, <4>1 DEF RangeListed
    <3>5. \A i \in 1..range : RangeListed(ts, i)'
      <4>1. \A i \in 1..range : i \in 1..(range - 1) \/ i = r
        BY <2>0, <3>r
      <4> QED BY <3>3, <3>4, <4>1
    <3>6. CASE range < 4 /\ Stays(range + 1) /\ at' = "oldest"
      <4>1. ~Judged(ts)' /\ range' = range + 1 /\ range' - 1 = range
        BY <2>0, <2>5, <3>6, AfterStay, Subject DEF Judged, Stays
      <4> QED BY <3>2, <3>5, <3>6, <4>1
    <3>7. CASE range = 4 /\ NextSnapshot
      <4>1. ~Judging(ts)'
        BY <2>0, <3>7, AfterSnapshot
      <4> QED BY <3>2, <3>5, <3>7, <4>1
    <3> QED BY <2>5, <3>6, <3>7, NewestTest, AfterRange
  <2> QED BY <1>2, <2>1, <2>2, <2>3, <2>4, <2>5 DEF Test
<1> QED BY <1>1, <1>2 DEF Next, Quiet, Test
-----------------------------------------------------------------------------
(* The exact list *)

(* When the clock stands still, a test finds exactly what is in its range. *)
LEMMA StillFacts ==
    ASSUME TypeOK, LoopShape, Test, ticks' = 0
    PROVE  /\ now' = now /\ ticks = 0
           /\ \A W : Found(W, 0, Bounds[1]) =>
                 (ss \in W <=> TimeIsWithin(KeepEverything, ss, now, now))
           /\ \A W : Found(W, Bounds[range], Bounds[range + 1]) =>
                 /\ First(W) <=> OldestAt(infos, ss, range, now)
                 /\ Last(W) <=> NewestAt(infos, ss, range, now)
<1>1. now' = now /\ ticks = 0
  <2>1. ticks \in Nat
    BY DEF TypeOK
  <2>2. ClockMoves
    BY TestFacts
  <2>3. ticks + 1 # 0
    BY <2>1
  <2> QED BY <2>2, <2>3 DEF ClockMoves
<1>2. \A W, f, b : Found(W, f, b) => W = {ts \in infos : ts <= now - f /\ ts > now - b}
  BY <1>1 DEF Found
<1>3. ss \in infos /\ range \in 1..4
  BY TestFacts, Subject, TestNumbers
<1>4. ASSUME NEW W, Found(W, 0, Bounds[1])
      PROVE  ss \in W <=> TimeIsWithin(KeepEverything, ss, now, now)
  BY <1>2, <1>3, <1>4, BoundFacts DEF TimeIsWithin
<1>5. ASSUME NEW W, Found(W, Bounds[range], Bounds[range + 1])
      PROVE  /\ First(W) <=> OldestAt(infos, ss, range, now)
             /\ Last(W) <=> NewestAt(infos, ss, range, now)
  <2>1. W = RangeAt(infos, range, now)
    <3>1. W = {ts \in infos : ts <= now - Bounds[range] /\ ts > now - Bounds[range + 1]}
      BY <1>2, <1>5
    <3>2. RangeAt(infos, range, now)
              = {ts \in infos : ts <= now - Bounds[range] /\ ts > now - Bounds[range + 1]}
      BY <1>3, RangeFacts
    <3> QED BY <3>1, <3>2
  <2> QED BY <2>1 DEF First, Last, OldestAt, NewestAt
<1> QED BY <1>1, <1>4, <1>5

End(ts, i) == OldestAt(infos, ts, i, now) \/ NewestAt(infos, ts, i, now)

(* What the list says of one snapshot.                                     *)
ExactFor(ts) ==
    /\ Judged(ts) => (ts \in keeps <=> TimeIsWithin(KeepEverything, ts, now, now)
                                       \/ \E i \in 1..4 : End(ts, i))
    /\ Judging(ts) => /\ ~TimeIsWithin(KeepEverything, ts, now, now)
                      /\ ts \in keeps <=> \E i \in 1..(range - 1) : End(ts, i)
                      /\ at = "newest" => ~OldestAt(infos, ts, range, now)
    /\ at # "rest" /\ ts \in keeps => Judged(ts) \/ Judging(ts)

LEMMA ExactParts == ListExact <=> (ticks = 0 => \A ts \in infos : ExactFor(ts))
BY DEF ListExact, ExactFor, End

(* The range after is tested when the answer for this one is known.        *)
LEMMA ExactRange ==
    ASSUME TypeOK, LoopShape, Test, now' = now, NextRange, Judging(ss),
           NEW k \in BOOLEAN, k <=> \E i \in 1..range : End(ss, i),
           ss \in keeps' <=> k, ~TimeIsWithin(KeepEverything, ss, now, now),
           NEW ts, ts = ss
    PROVE  ExactFor(ts)'
<1>0. infos' = infos /\ range \in 1..4 /\ at # "rest" /\ todo # {}
  BY TestNumbers, TestFacts
<1>1. \A i : End(ts, i)' <=> End(ts, i)
  BY <1>0 DEF End
<1>2. CASE range < 4 /\ Stays(range + 1) /\ at' = "oldest"
  <2>1. ~Judged(ts)' /\ Judging(ts)'
    BY <1>0, <1>2, AfterStay, Subject DEF Judged
  <2>2. range' - 1 = range
    BY <1>0, <1>2 DEF Stays
  <2> QED BY <1>1, <1>2, <2>1, <2>2 DEF ExactFor
<1>3. CASE range = 4 /\ NextSnapshot
  <2>1. Judged(ts)' /\ ~Judging(ts)'
    BY <1>0, <1>3, AfterSnapshot
  <2> QED BY <1>1, <1>3, <2>1 DEF ExactFor
<1> QED BY <1>2, <1>3, AfterRange

LEMMA ExactStep ==
    ASSUME TypeOK, LoopShape, ListExact, [Next]_vars
    PROVE  ListExact'
<1>q. CASE Quiet
  <2>1. CASE UNCHANGED vars
    BY <2>1 DEF vars, ListExact, Judged, Judging, ss
  <2>2. CASE ~UNCHANGED vars
    BY <1>q, <2>2, NothingJudged DEF ListExact
  <2> QED BY <2>1, <2>2
<1>t. CASE Test
  <2> SUFFICES ASSUME ticks' = 0, NEW ts \in infos
               PROVE  ExactFor(ts)'
    <3>1. ListExact' <=> (ticks' = 0 => \A u \in infos' : ExactFor(u)')
      BY DEF ListExact, ExactFor, End
    <3> QED BY <1>t, <3>1, TestFacts
  <2>0. /\ infos' = infos /\ at # "rest" /\ todo # {} /\ range \in 1..4
        /\ keeps' \in {keeps, keeps \cup {ss}} /\ now' = now /\ ticks = 0
        /\ ss \in infos /\ ss \in todo
    BY <1>t, TestFacts, TestNumbers, StillFacts, Subject
  <2>1. ExactFor(ts) /\ ExactFor(ss)
    BY <2>0, ExactParts
  <2>2. CASE ts # ss
    <3>1. ~Judging(ts) /\ ~Judging(ts)' /\ (Judged(ts)' <=> Judged(ts))
      BY <1>t, <2>0, <2>2, TestFacts, AfterStay, AfterSnapshot DEF Judging
    <3>2. ts \in keeps' <=> ts \in keeps
      BY <2>0, <2>2
    <3>3. \A i : End(ts, i)' <=> End(ts, i)
      BY <2>0 DEF End
    <3> QED BY <2>0, <2>1, <3>1, <3>2, <3>3 DEF ExactFor
  <2>3. CASE ts = ss /\ TestEverything
    <3>1. PICK W : /\ Found(W, 0, Bounds[1])
                   /\ IF ss \in W THEN keeps' = keeps \cup {ss} /\ NextSnapshot
                      ELSE at' = "oldest" /\ UNCHANGED <<keeps, todo, range>>
      BY <2>3, EverythingTest
    <3>2. ss \in W <=> TimeIsWithin(KeepEverything, ts, now, now)
      BY <1>t, <2>3, <3>1, StillFacts
    <3>3. ts \notin keeps
      BY <2>0, <2>1, <2>3, EverythingTest DEF ExactFor, Judged, Judging
    <3>4. CASE ss \in W
      <4>1. Judged(ts)' /\ ~Judging(ts)'
        BY <2>0, <2>3, <3>1, <3>4, AfterSnapshot
      <4> QED BY <2>0, <2>3, <3>1, <3>2, <3>4, <4>1 DEF ExactFor
    <3>5. CASE ss \notin W
      <4>1. Stays(range) /\ at' = "oldest" /\ keeps' = keeps /\ range' = 1
        BY <2>3, <3>1, <3>5, EverythingTest DEF Stays, LoopShape
      <4>2. ~Judged(ts)' /\ Judging(ts)'
        BY <2>0, <2>3, <4>1, AfterStay DEF Judged
      <4>3. 1..(range' - 1) = {}
        BY <4>1
      <4> QED BY <2>0, <3>2, <3>3, <3>5, <4>1, <4>2, <4>3 DEF ExactFor
    <3> QED BY <3>4, <3>5
  <2>4. \A i \in 1..range : i \in 1..(range - 1) \/ i = range
    BY <2>0
  <2>5. range \in 1..range /\ 1..(range - 1) \subseteq 1..range
    BY <2>0
  <2>6. CASE ts = ss /\ TestOldest
    <3>1. PICK W : /\ Found(W, Bounds[range], Bounds[range + 1])
                   /\ \/ First(W) /\ keeps' = keeps \cup {ss} /\ NextRange
                      \/ ~First(W) /\ at' = "newest" /\ UNCHANGED <<keeps, todo, range>>
      BY <2>6, OldestTest
    <3>2. First(W) <=> OldestAt(infos, ts, range, now)
      BY <1>t, <2>6, <3>1, StillFacts
    <3>3. Judging(ss) /\ at = "oldest"
      BY <2>6, OldestTest DEF Judging
    <3>4. CASE First(W)
      <4>1. ss \in keeps' <=> TRUE
        BY <3>1, <3>4
      <4>2. TRUE <=> \E i \in 1..range : End(ss, i)
        BY <2>5, <2>6, <3>2, <3>4 DEF End
      <4>3. ~TimeIsWithin(KeepEverything, ss, now, now)
        BY <2>1, <3>3 DEF ExactFor
      <4>4. NextRange
        BY <3>1, <3>4
      <4> QED BY <1>t, <2>0, <2>6, <3>3, <4>1, <4>2, <4>3, <4>4, ExactRange
    <3>5. CASE ~First(W)
      <4>1. Stays(range) /\ at' = "newest" /\ keeps' = keeps /\ range' = range
        BY <3>1, <3>5 DEF Stays
      <4>2. ~Judged(ts)' /\ Judging(ts)'
        BY <2>0, <2>6, <4>1, AfterStay DEF Judged
      <4>3. \A i : End(ts, i)' <=> End(ts, i)
        BY <2>0 DEF End
      <4> QED BY <2>0, <2>1, <2>6, <3>2, <3>3, <3>5, <4>1, <4>2, <4>3 DEF ExactFor
    <3> QED BY <3>4, <3>5
  <2>7. CASE ts = ss /\ TestNewest
    <3>1. PICK W : /\ Found(W, Bounds[range], Bounds[range + 1])
                   /\ keeps' = IF Last(W) THEN keeps \cup {ss} ELSE keeps
      BY <2>7, NewestTest
    <3>2. Last(W) <=> NewestAt(infos, ts, range, now)
      BY <1>t, <2>7, <3>1, StillFacts
    <3>3. Judging(ss) /\ at = "newest"
      BY <2>7, NewestTest DEF Judging
    <3>4. End(ss, range) <=> Last(W)
      BY <2>1, <2>7, <3>2, <3>3 DEF ExactFor, End
    <3>5. ss \in keeps' <=> \E i \in 1..range : End(ss, i)
      BY <2>1, <2>4, <2>5, <3>1, <3>3, <3>4 DEF ExactFor
    <3>6. ~TimeIsWithin(KeepEverything, ss, now, now)
      BY <2>1, <3>3 DEF ExactFor
    <3>7. NextRange
      BY <2>7, NewestTest
    <3> DEFINE k == \E i \in 1..range : End(ss, i)
    <3> QED BY <1>t, <2>0, <2>7, <3>3, <3>5, <3>6, <3>7, ExactRange
  <2> QED BY <1>t, <2>2, <2>3, <2>6, <2>7 DEF Test
<1> QED BY <1>q, <1>t DEF Next, Quiet, Test

-----------------------------------------------------------------------------
(* The theorems *)

(* The inductive invariant of the two loops of GetPruneKeepsList.          *)
THEOREM PruneInvariant == Spec => []PruneInv
<1>1. Init => PruneInv
  <2> SUFFICES ASSUME Init PROVE PruneInv
    OBVIOUS
  <2>1. infos \subseteq 0..StartTime /\ StartTime \in 0..MaxTime /\ MaxTime \in Nat /\ MaxTicks \in Nat
    BY TimesAssumption DEF Init
  <2>2. TypeOK /\ LoopShape
    BY <2>1 DEF Init, TypeOK, LoopShape
  <2>3. \A ts : ~Judged(ts) /\ ~Judging(ts)
    BY DEF Init, Judged, Judging
  <2> QED BY <2>2, <2>3 DEF Init, PruneInv, DayKept, NewestOlder, RangesListed, ListExact
<1>2. PruneInv /\ [Next]_vars => PruneInv'
  BY ShapeKept, DayStep, NewestStep, RangesStep, ExactStep DEF PruneInv
<1> QED BY <1>1, <1>2, PTL DEF Spec

(* A prune judges only snapshots and ranges that are there.                *)
THEOREM PruneTypes == Spec => []TypeOK
BY PruneInvariant, PTL DEF PruneInv

(* The list of GetPruneKeepsList is the one its ranges define, when the    *)
(* clock stands still.                                                     *)
THEOREM KeepsExact == Spec => []KeepsAreOldestAndNewest
<1>1. PruneInv => KeepsAreOldestAndNewest
  <2> SUFFICES ASSUME PruneInv, at = "everything", todo = {}, ticks = 0
               PROVE  keeps = Ages(KeepEverything, infos)
                              \cup UNION {{Min(Ages(tr, infos)), Max(Ages(tr, infos))} :
                                          tr \in {r \in Ranges : Ages(r, infos) # {}}}
    BY DEF KeepsAreOldestAndNewest
  <2> DEFINE Day == Ages(KeepEverything, infos)
             Ends(tr) == {Min(Ages(tr, infos)), Max(Ages(tr, infos))}
             There == {r \in Ranges : Ages(r, infos) # {}}
  <2>0. TypeOK /\ LoopShape /\ ListExact
    BY DEF PruneInv
  <2>1. keeps \subseteq infos
    BY <2>0 DEF LoopShape
  <2>2. \A ts \in infos : ts \in keeps <=>
            \/ ts \in Day
            \/ \E i \in 1..4 : OldestAt(infos, ts, i, now) \/ NewestAt(infos, ts, i, now)
    <3>1. \A ts : Judged(ts)
      BY DEF Judged
    <3> QED BY <2>0, <3>1 DEF ListExact, Ages
  <2>3. ASSUME NEW tr, Ages(tr, infos) # {}
        PROVE  \A ts : /\ ts = Min(Ages(tr, infos)) <=>
                             ts \in Ages(tr, infos) /\ \A u \in Ages(tr, infos) : ts <= u
                       /\ ts = Max(Ages(tr, infos)) <=>
                             ts \in Ages(tr, infos) /\ \A u \in Ages(tr, infos) : u <= ts
    <3> DEFINE A == Ages(tr, infos)
    <3>1. A \in SUBSET (0..MaxTime) /\ A \in SUBSET Nat /\ MaxTime \in Nat /\ A # {}
      <4>1. A \subseteq infos /\ infos \subseteq 0..MaxTime /\ MaxTime \in Nat
        BY <2>0, TimesAssumption DEF Ages, TypeOK
      <4>2. 0..MaxTime \subseteq Nat
        OBVIOUS
      <4> HIDE DEF A
      <4>3. A # {}
        BY <2>3 DEF A
      <4> QED BY <4>1, <4>2, <4>3
    <3> HIDE DEF A
    <3>2. /\ Min(A) \in A /\ \A u \in A : Min(A) <= u
          /\ Max(A) \in A /\ \A u \in A : u <= Max(A)
      BY <3>1, MinFacts, MaxFacts
    <3>3. \A x, y \in A : x <= y /\ y <= x => x = y
      BY <3>1
    <3>4. \A ts : /\ ts = Min(A) <=> ts \in A /\ \A u \in A : ts <= u
                  /\ ts = Max(A) <=> ts \in A /\ \A u \in A : u <= ts
      BY <3>2, <3>3
    <3> QED BY <3>4 DEF A
  <2>4. \A i \in 1..4 : Ages(KeepOldestNewest[i], infos) = RangeAt(infos, i, now)
    BY DEF Ages, RangeAt
  <2>5. ASSUME NEW i \in 1..4, NEW ts
        PROVE  (OldestAt(infos, ts, i, now) \/ NewestAt(infos, ts, i, now)) <=>
                   Ages(KeepOldestNewest[i], infos) # {} /\ ts \in Ends(KeepOldestNewest[i])
    BY <2>3, <2>4 DEF OldestAt, NewestAt
  <2>6. Day # {} => Ends(KeepEverything) \subseteq Day
    BY <2>3
  <2>7. \A tr : tr \in There <=> /\ Ages(tr, infos) # {}
                                 /\ tr = KeepEverything \/ \E i \in 1..4 : tr = KeepOldestNewest[i]
    BY DEF Ranges
  <2>8. Day \subseteq infos /\ \A tr : Ages(tr, infos) # {} => Ends(tr) \subseteq infos
    <3>1. \A tr : Ages(tr, infos) \subseteq infos
      BY DEF Ages
    <3> QED BY <2>3, <3>1
  <2> HIDE DEF Day, Ends, There
  <2>9. ASSUME NEW ts \in keeps PROVE ts \in Day \cup UNION {Ends(tr) : tr \in There}
    <3>1. CASE \E i \in 1..4 : OldestAt(infos, ts, i, now) \/ NewestAt(infos, ts, i, now)
      <4>1. PICK i \in 1..4 : OldestAt(infos, ts, i, now) \/ NewestAt(infos, ts, i, now)
        BY <3>1
      <4>2. KeepOldestNewest[i] \in There /\ ts \in Ends(KeepOldestNewest[i])
        BY <2>5, <2>7, <4>1
      <4> QED BY <4>2
    <3> QED BY <2>1, <2>2, <3>1
  <2>10. ASSUME NEW tr \in There PROVE Ends(tr) \subseteq keeps
    <3>1. Ages(tr, infos) # {} /\ Ends(tr) \subseteq infos
      BY <2>7, <2>8
    <3>2. CASE tr = KeepEverything
      BY <2>2, <2>6, <2>8, <3>1, <3>2 DEF Day
    <3>3. ASSUME NEW i \in 1..4, tr = KeepOldestNewest[i] PROVE Ends(tr) \subseteq keeps
      BY <2>2, <2>5, <3>1, <3>3
    <3> QED BY <2>7, <3>2, <3>3
  <2>11. Day \subseteq keeps
    BY <2>2, <2>8
  <2>12. keeps = Day \cup UNION {Ends(tr) : tr \in There}
    BY <2>9, <2>10, <2>11
  <2> QED BY <2>12 DEF Day, Ends, There
<1> QED BY <1>1, PruneInvariant, PTL

(* A prune never deletes the newest snapshot that is not a year old,       *)
(* however the clock ticks while it judges: the next backup is incremental *)
(* against it.                                                             *)
THEOREM NewestNeverDeleted == Spec => NewestKept
<1>1. PruneInv /\ [Next]_vars =>
          [\A ts \in infos \ infos' : ts # Max(infos) \/ ts <= now - OneYear]_vars
  <2> SUFFICES ASSUME PruneInv, Next, NEW ts \in infos, ts \notin infos', ts = Max(infos)
               PROVE  ts <= now - OneYear
    BY DEF vars
  <2>0. TypeOK /\ LoopShape /\ NewestOlder
    BY DEF PruneInv
  <2>1. DeleteOthers
    BY <2>0, TestFacts DEF Next, Test, Backup, Tick, StartPrune
  <2>2. ts \notin keeps /\ Judged(ts)
    BY <2>1 DEF DeleteOthers, Judged
  <2>3. \A u \in infos : u <= ts
    BY <2>0, MaxFacts, TimesAssumption DEF TypeOK
  <2> QED BY <2>0, <2>2, <2>3 DEF NewestOlder
<1> QED BY <1>1, PruneInvariant, PTL DEF Spec, NewestKept

(* A prune leaves a snapshot in every range of age that has one, when it   *)
(* takes less time than the shortest range lasts.                          *)
THEOREM RangesStayCovered == ASSUME Brief PROVE Spec => RangesCovered
<1>1. PruneInv /\ [Next]_vars =>
          [\A tr \in Ranges : Ages(tr, infos \ infos') # {} => Ages(tr, infos') # {}]_vars
  <2> SUFFICES ASSUME PruneInv, Next,
                      NEW tr \in Ranges, NEW ts \in infos, ts \notin infos',
                      TimeIsWithin(tr, ts, now, now)
               PROVE  Ages(tr, infos') # {}
    BY DEF vars, Ages
  <2>0. TypeOK /\ LoopShape /\ DayKept /\ RangesListed
    BY DEF PruneInv
  <2>1. DeleteOthers
    BY <2>0, TestFacts DEF Next, Test, Backup, Tick, StartPrune
  <2>2. ts \notin keeps /\ now' = now /\ \A u \in infos : Judged(u)
    BY <2>1 DEF DeleteOthers, Judged
  <2>3. CASE tr = KeepEverything
    <3>1. ts <= now - Bounds[1] /\ ts > now - Bounds[1]
      BY <2>0, <2>2, <2>3, BoundFacts DEF DayKept, TimeIsWithin
    <3>2. ts \in Int /\ now \in Int /\ Bounds[1] \in Int
      BY <2>0, BoundFacts DEF TypeOK
    <3> QED BY <3>1, <3>2
  <2>4. ASSUME NEW i \in 1..4, tr = KeepOldestNewest[i] PROVE Ages(tr, infos') # {}
    <3> DEFINE A == RangeAt(infos, i, now)
    <3>1. A \in SUBSET (0..MaxTime) /\ A # {} /\ MaxTime \in Nat
      BY <2>0, <2>4, TimesAssumption DEF RangeAt, TypeOK
    <3>2. Max(A) \in A /\ \A u \in A : u <= Max(A)
      <4> HIDE DEF A
      <4> QED BY <3>1, MaxFacts
    <3>3. Max(A) \in infos /\ NewestAt(infos, Max(A), i, now)
      BY <3>2 DEF NewestAt, RangeAt
    <3>4. now \in Clocks
      BY <2>0, TimesAssumption DEF Clocks, TypeOK
    <3>5. keeps \cap RangeAt(infos, i, now) # {}
      BY <2>0, <2>2, <3>3, <3>4 DEF RangesListed, RangeListed
    <3>6. keeps \subseteq infos'
      BY <2>1 DEF DeleteOthers
    <3> QED BY <2>2, <2>4, <3>5, <3>6 DEF RangeAt, Ages
  <2> QED BY <2>3, <2>4 DEF Ranges
<1> QED BY <1>1, PruneInvariant, PTL DEF Spec, RangesCovered
=============================================================================
