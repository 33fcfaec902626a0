------------------------------ MODULE LogProofs ------------------------------
(***************************************************************************)
(* The client of LogStream gets each line of the log once and whole, for   *)
(* any lengths of lines and buffers.  The first lemmas are about splitting *)
(* a text: how the pieces of two texts make up those of both together.     *)
(***************************************************************************)
EXTENDS LogStream, SumTheorems, SequenceTheorems

-----------------------------------------------------------------------------
(* Sequences *)

(* What holds of the empty sequence, and of a sequence with one element    *)
(* more in front, holds of all.                                            *)
LEMMA FrontInduction ==
    ASSUME NEW S, NEW T \in SUBSET Seq(S), <<>> \in T,
           \A c \in S, s \in T : <<c>> \o s \in T
    PROVE  T = Seq(S)
<1> DEFINE N == {n \in Nat : \A s \in Seq(S) : Len(s) = n => s \in T}
<1>1. 0 \in N
  BY EmptySeq
<1>2. ASSUME NEW n \in N PROVE n + 1 \in N
  <2> SUFFICES ASSUME NEW s \in Seq(S), Len(s) = n + 1 PROVE s \in T
    OBVIOUS
  <2>1. /\ 1 \in 1..Len(s) /\ Len(s) \in 1..Len(s)
        /\ s = SubSeq(s, 1, Len(s)) /\ s[1] \in S
    BY SubSeqFull
  <2>2. s = <<s[1]>> \o SubSeq(s, 2, Len(s))
    BY <2>1, SubSeqRecursiveFirst
  <2>3. SubSeq(s, 2, Len(s)) \in Seq(S) /\ Len(SubSeq(s, 2, Len(s))) = n
    BY SubSeqProperties
  <2> QED BY <2>1, <2>2, <2>3
<1> HIDE DEF N
<1>3. N \in SUBSET Nat
  BY DEF N
<1>4. N = Nat
  BY <1>1, <1>2, <1>3, NumbersInduction
<1>5. ASSUME NEW s \in Seq(S) PROVE s \in T
  BY <1>4, LenProperties DEF N
<1> QED BY <1>5

(* The same with one element more at the end.                              *)
LEMMA EndInduction ==
    ASSUME NEW S, NEW T \in SUBSET Seq(S), <<>> \in T,
           \A s \in T, c \in S : s \o <<c>> \in T
    PROVE  T = Seq(S)
<1> DEFINE N == {n \in Nat : \A s \in Seq(S) : Len(s) = n => s \in T}
<1>1. 0 \in N
  BY EmptySeq
<1>2. ASSUME NEW n \in N PROVE n + 1 \in N
  <2> SUFFICES ASSUME NEW s \in Seq(S), Len(s) = n + 1 PROVE s \in T
    OBVIOUS
  <2>1. /\ 1 \in 1..Len(s) /\ Len(s) \in 1..Len(s)
        /\ s = SubSeq(s, 1, Len(s)) /\ s[Len(s)] \in S
    BY SubSeqFull
  <2>2. s = SubSeq(s, 1, Len(s) - 1) \o <<s[Len(s)]>>
    BY <2>1, SubSeqRecursiveSecond
  <2>3. SubSeq(s, 1, Len(s) - 1) \in Seq(S) /\ Len(SubSeq(s, 1, Len(s) - 1)) = n
    BY SubSeqProperties
  <2> QED BY <2>1, <2>2, <2>3
<1> HIDE DEF N
<1>3. N \in SUBSET Nat
  BY DEF N
<1>4. N = Nat
  BY <1>1, <1>2, <1>3, NumbersInduction
<1>5. ASSUME NEW s \in Seq(S) PROVE s \in T
  BY <1>4, LenProperties DEF N
<1> QED BY <1>5

(* A sequence is its front and its last element.                           *)
LEMMA FrontLast ==
    ASSUME NEW S, NEW s \in Seq(S), s # <<>>
    PROVE  /\ Front(s) \in Seq(S) /\ Len(Front(s)) = Len(s) - 1
           /\ \A i \in 1..(Len(s) - 1) : Front(s)[i] = s[i]
           /\ Last(s) = s[Len(s)] /\ Last(s) \in S
           /\ s = Append(Front(s), Last(s))
<1>1. Len(s) \in Nat /\ Len(s) >= 1
  BY EmptySeq
<1>2. Last(s) = s[Len(s)] /\ Last(s) \in S
  BY <1>1 DEF Last
<1>3. PICK t \in Seq(S), e \in S : s = Append(t, e)
  BY SequenceEmptyOrAppend
<1>4. Front(s) = t /\ Last(s) = e
  BY <1>3 DEF Front, Last
<1>5. Len(s) = Len(t) + 1 /\ \A i \in 1..Len(t) : s[i] = t[i]
  BY <1>3
<1>6. Len(t) \in Nat /\ Len(t) = Len(s) - 1
  BY <1>5, LenProperties
<1> QED BY <1>2, <1>3, <1>4, <1>5, <1>6

LEMMA FrontOfAppend ==
    ASSUME NEW S, NEW s \in Seq(S), NEW e \in S
    PROVE  Front(Append(s, e)) = s /\ Last(Append(s, e)) = e
  BY DEF Front, Last

LEMMA ConsProperties ==
    ASSUME NEW S, NEW s \in Seq(S), NEW c \in S
    PROVE  /\ <<c>> \o s \in Seq(S) /\ Len(<<c>> \o s) = Len(s) + 1
           /\ (<<c>> \o s)[1] = c
           /\ \A i \in 1..Len(s) : (<<c>> \o s)[i + 1] = s[i]
  OBVIOUS

-----------------------------------------------------------------------------
(* The function behind Split *)

PiecesStep(s, g, n) == IF n = 0 THEN << <<>> >> ELSE Cut(s[Len(s) - n + 1], g[n - 1])

PiecesOf(s) == CHOOSE g : g = [n \in 0..Len(s) |-> PiecesStep(s, g, n)]

LEMMA SplitIsPieces ==
    ASSUME NEW s PROVE Split(s) = PiecesOf(s)[Len(s)]
  BY DEF Split, PiecesOf, PiecesStep

LEMMA PiecesExist ==
    ASSUME NEW s, Len(s) \in Nat
    PROVE  \E g : g = [n \in 0..Len(s) |-> PiecesStep(s, g, n)]
<1> DEFINE Exists(k) == \E g : g = [n \in 0..k |-> PiecesStep(s, g, n)]
           N == {k \in Nat : Exists(k)}
<1>1. 0 \in N
  <2> DEFINE g == [n \in 0..0 |-> << <<>> >>]
  <2>1. g = [n \in 0..0 |-> PiecesStep(s, g, n)]
    BY DEF PiecesStep
  <2> QED BY <2>1
<1>2. ASSUME NEW k \in N PROVE k + 1 \in N
  <2>1. PICK g : g = [n \in 0..k |-> PiecesStep(s, g, n)]
    OBVIOUS
  <2> DEFINE h == [n \in 0..(k + 1) |-> PiecesStep(s, g, n)]
  <2>2. ASSUME NEW n \in 0..(k + 1) PROVE PiecesStep(s, h, n) = PiecesStep(s, g, n)
    <3>1. CASE n = 0
      BY <3>1 DEF PiecesStep
    <3>2. CASE n # 0
      <4>1. n - 1 \in 0..k /\ n - 1 \in 0..(k + 1)
        BY <3>2
      <4>2. h[n - 1] = g[n - 1]
        BY <2>1, <4>1
      <4> QED BY <3>2, <4>2 DEF PiecesStep
    <3> QED BY <3>1, <3>2
  <2>3. h = [n \in 0..(k + 1) |-> PiecesStep(s, h, n)]
    BY <2>2
  <2> HIDE DEF h
  <2>4. Exists(k + 1)
    BY <2>3
  <2> HIDE DEF Exists
  <2> QED BY <2>4
<1> HIDE DEF N
<1>3. N = Nat
  BY <1>1, <1>2, NumbersInduction DEF N
<1> QED BY <1>3 DEF N

LEMMA PiecesDef ==
    ASSUME NEW s, Len(s) \in Nat
    PROVE  /\ PiecesOf(s)[0] = << <<>> >>
           /\ \A n \in 1..Len(s) :
                PiecesOf(s)[n] = Cut(s[Len(s) - n + 1], PiecesOf(s)[n - 1])
<1>1. PiecesOf(s) = [n \in 0..Len(s) |-> PiecesStep(s, PiecesOf(s), n)]
  BY PiecesExist DEF PiecesOf
<1> HIDE DEF PiecesOf
<1>2. \A n \in 0..Len(s) : PiecesOf(s)[n] = PiecesStep(s, PiecesOf(s), n)
  BY <1>1
<1> QED BY <1>2 DEF PiecesStep

LEMMA SplitEmpty == Split(<<>>) = << <<>> >>
  BY SplitIsPieces, PiecesDef

LEMMA SplitCons ==
    ASSUME NEW S, NEW s \in Seq(S), NEW c \in S
    PROVE  Split(<<c>> \o s) = Cut(c, Split(s))
<1> DEFINE t == <<c>> \o s
           T == {n \in Nat : n <= Len(s) => PiecesOf(t)[n] = PiecesOf(s)[n]}
<1> HIDE DEF t
<1>1. /\ Len(s) \in Nat /\ Len(t) \in Nat /\ Len(t) = Len(s) + 1 /\ t[1] = c
      /\ \A i \in 1..Len(s) : t[i + 1] = s[i]
  BY ConsProperties, LenProperties DEF t
<1>2. /\ PiecesOf(t)[0] = << <<>> >>
      /\ \A n \in 1..Len(t) : PiecesOf(t)[n] = Cut(t[Len(t) - n + 1], PiecesOf(t)[n - 1])
  BY <1>1, PiecesDef
<1>3. /\ PiecesOf(s)[0] = << <<>> >>
      /\ \A n \in 1..Len(s) : PiecesOf(s)[n] = Cut(s[Len(s) - n + 1], PiecesOf(s)[n - 1])
  BY <1>1, PiecesDef
<1>4. 0 \in T
  BY <1>2, <1>3
<1>5. ASSUME NEW n \in T PROVE n + 1 \in T
  <2> SUFFICES ASSUME n + 1 <= Len(s) PROVE PiecesOf(t)[n + 1] = PiecesOf(s)[n + 1]
    OBVIOUS
  <2>1. n + 1 \in 1..Len(s) /\ n + 1 \in 1..Len(t) /\ (n + 1) - 1 = n
    BY <1>1
  <2>2. t[Len(t) - (n + 1) + 1] = s[Len(s) - (n + 1) + 1]
    BY <1>1, <2>1
  <2>3. PiecesOf(t)[n] = PiecesOf(s)[n]
    BY <1>1, <2>1
  <2>4. PiecesOf(t)[n + 1] = Cut(t[Len(t) - (n + 1) + 1], PiecesOf(t)[n])
    BY <1>2, <2>1
  <2>5. PiecesOf(s)[n + 1] = Cut(s[Len(s) - (n + 1) + 1], PiecesOf(s)[n])
    BY <1>3, <2>1
  <2> QED BY <2>2, <2>3, <2>4, <2>5
<1> HIDE DEF T
<1>6. T = Nat
  BY <1>4, <1>5, NumbersInduction DEF T
<1>7. PiecesOf(t)[Len(s)] = PiecesOf(s)[Len(s)]
  BY <1>1, <1>6 DEF T
<1>8. PiecesOf(t)[Len(t)] = Cut(c, PiecesOf(t)[Len(s)])
  <2>1. Len(t) \in 1..Len(t) /\ Len(t) - Len(t) + 1 = 1 /\ Len(t) - 1 = Len(s)
    BY <1>1
  <2> QED BY <1>1, <1>2, <2>1
<1> QED BY <1>7, <1>8, SplitIsPieces DEF t

-----------------------------------------------------------------------------
(* The function behind NotBlank *)

KeptStep(s, g, n) == IF n = 0 THEN <<>> ELSE Keep(s[Len(s) - n + 1], g[n - 1])

KeptOf(s) == CHOOSE g : g = [n \in 0..Len(s) |-> KeptStep(s, g, n)]

LEMMA NotBlankIsKept ==
    ASSUME NEW s PROVE NotBlank(s) = KeptOf(s)[Len(s)]
  BY DEF NotBlank, KeptOf, KeptStep

LEMMA KeptExist ==
    ASSUME NEW s, Len(s) \in Nat
    PROVE  \E g : g = [n \in 0..Len(s) |-> KeptStep(s, g, n)]
<1> DEFINE Exists(k) == \E g : g = [n \in 0..k |-> KeptStep(s, g, n)]
           N == {k \in Nat : Exists(k)}
<1>1. 0 \in N
  <2> DEFINE g == [n \in 0..0 |-> <<>>]
  <2>1. g = [n \in 0..0 |-> KeptStep(s, g, n)]
    BY DEF KeptStep
  <2> QED BY <2>1
<1>2. ASSUME NEW k \in N PROVE k + 1 \in N
  <2>1. PICK g : g = [n \in 0..k |-> KeptStep(s, g, n)]
    OBVIOUS
  <2> DEFINE h == [n \in 0..(k + 1) |-> KeptStep(s, g, n)]
  <2>2. ASSUME NEW n \in 0..(k + 1) PROVE KeptStep(s, h, n) = KeptStep(s, g, n)
    <3>1. CASE n = 0
      BY <3>1 DEF KeptStep
    <3>2. CASE n # 0
      <4>1. n - 1 \in 0..k /\ n - 1 \in 0..(k + 1)
        BY <3>2
      <4>2. h[n - 1] = g[n - 1]
        BY <2>1, <4>1
      <4> QED BY <3>2, <4>2 DEF KeptStep
    <3> QED BY <3>1, <3>2
  <2>3. h = [n \in 0..(k + 1) |-> KeptStep(s, h, n)]
    BY <2>2
  <2> HIDE DEF h
  <2>4. Exists(k + 1)
    BY <2>3
  <2> HIDE DEF Exists
  <2> QED BY <2>4
<1> HIDE DEF N
<1>3. N = Nat
  BY <1>1, <1>2, NumbersInduction DEF N
<1> QED BY <1>3 DEF N

LEMMA KeptDef ==
    ASSUME NEW s, Len(s) \in Nat
    PROVE  /\ KeptOf(s)[0] = <<>>
           /\ \A n \in 1..Len(s) :
                KeptOf(s)[n] = Keep(s[Len(s) - n + 1], KeptOf(s)[n - 1])
<1>1. KeptOf(s) = [n \in 0..Len(s) |-> KeptStep(s, KeptOf(s), n)]
  BY KeptExist DEF KeptOf
<1> HIDE DEF KeptOf
<1>2. \A n \in 0..Len(s) : KeptOf(s)[n] = KeptStep(s, KeptOf(s), n)
  BY <1>1
<1> QED BY <1>2 DEF KeptStep

LEMMA NotBlankEmpty == NotBlank(<<>>) = <<>>
  BY NotBlankIsKept, KeptDef

LEMMA NotBlankCons ==
    ASSUME NEW S, NEW s \in Seq(S), NEW c \in S
    PROVE  NotBlank(<<c>> \o s) = Keep(c, NotBlank(s))
<1> DEFINE t == <<c>> \o s
           T == {n \in Nat : n <= Len(s) => KeptOf(t)[n] = KeptOf(s)[n]}
<1> HIDE DEF t
<1>1. /\ Len(s) \in Nat /\ Len(t) \in Nat /\ Len(t) = Len(s) + 1 /\ t[1] = c
      /\ \A i \in 1..Len(s) : t[i + 1] = s[i]
  BY ConsProperties, LenProperties DEF t
<1>2. /\ KeptOf(t)[0] = <<>>
      /\ \A n \in 1..Len(t) : KeptOf(t)[n] = Keep(t[Len(t) - n + 1], KeptOf(t)[n - 1])
  BY <1>1, KeptDef
<1>3. /\ KeptOf(s)[0] = <<>>
      /\ \A n \in 1..Len(s) : KeptOf(s)[n] = Keep(s[Len(s) - n + 1], KeptOf(s)[n - 1])
  BY <1>1, KeptDef
<1>4. 0 \in T
  BY <1>2, <1>3
<1>5. ASSUME NEW n \in T PROVE n + 1 \in T
  <2> SUFFICES ASSUME n + 1 <= Len(s) PROVE KeptOf(t)[n + 1] = KeptOf(s)[n + 1]
    OBVIOUS
  <2>1. n + 1 \in 1..Len(s) /\ n + 1 \in 1..Len(t) /\ (n + 1) - 1 = n
    BY <1>1
  <2>2. t[Len(t) - (n + 1) + 1] = s[Len(s) - (n + 1) + 1]
    BY <1>1, <2>1
  <2>3. KeptOf(t)[n] = KeptOf(s)[n]
    BY <1>1, <2>1
  <2>4. KeptOf(t)[n + 1] = Keep(t[Len(t) - (n + 1) + 1], KeptOf(t)[n])
    BY <1>2, <2>1
  <2>5. KeptOf(s)[n + 1] = Keep(s[Len(s) - (n + 1) + 1], KeptOf(s)[n])
    BY <1>3, <2>1
  <2> QED BY <2>2, <2>3, <2>4, <2>5
<1> HIDE DEF T
<1>6. T = Nat
  BY <1>4, <1>5, NumbersInduction DEF T
<1>7. KeptOf(t)[Len(s)] = KeptOf(s)[Len(s)]
  BY <1>1, <1>6 DEF T
<1>8. KeptOf(t)[Len(t)] = Keep(c, KeptOf(t)[Len(s)])
  <2>1. Len(t) \in 1..Len(t) /\ Len(t) - Len(t) + 1 = 1 /\ Len(t) - 1 = Len(s)
    BY <1>1
  <2> QED BY <1>1, <1>2, <2>1
<1> QED BY <1>7, <1>8, NotBlankIsKept DEF t

-----------------------------------------------------------------------------
(* Pieces of texts *)

Texts == Seq(Nat)
Pieces == Seq(Seq(Nat)) \ {<<>>}

LEMMA PiecesEqual ==
    ASSUME NEW ps \in Pieces, NEW qs \in Pieces, Len(ps) = Len(qs),
           \A i \in 1..Len(ps) : ps[i] = qs[i]
    PROVE  ps = qs
  BY SeqEqual DEF Pieces

LEMMA PiecesLen ==
    ASSUME NEW ps \in Pieces
    PROVE  /\ Len(ps) \in Nat /\ Len(ps) >= 1
           /\ \A i \in 1..Len(ps) : ps[i] \in Texts
  BY EmptySeq, LenProperties DEF Pieces, Texts

LEMMA CutNewline ==
    ASSUME NEW ps \in Pieces
    PROVE  /\ Cut(Newline, ps) \in Pieces
           /\ Len(Cut(Newline, ps)) = Len(ps) + 1
           /\ Cut(Newline, ps)[1] = <<>>
           /\ \A i \in 1..Len(ps) : Cut(Newline, ps)[i + 1] = ps[i]
<1>1. Cut(Newline, ps) = << <<>> >> \o ps
  BY DEF Cut
<1>2. ps \in Seq(Seq(Nat)) /\ <<>> \in Seq(Nat)
  BY DEF Pieces
<1>3. /\ << <<>> >> \o ps \in Seq(Seq(Nat)) /\ Len(<< <<>> >> \o ps) = Len(ps) + 1
      /\ (<< <<>> >> \o ps)[1] = <<>>
      /\ \A i \in 1..Len(ps) : (<< <<>> >> \o ps)[i + 1] = ps[i]
  BY <1>2, ConsProperties
<1>4. << <<>> >> \o ps # <<>>
  BY <1>3, PiecesLen, EmptySeq
<1> QED BY <1>1, <1>3, <1>4 DEF Pieces

LEMMA CutOther ==
    ASSUME NEW c \in Nat, c # Newline, NEW ps \in Pieces
    PROVE  /\ Cut(c, ps) \in Pieces
           /\ Len(Cut(c, ps)) = Len(ps)
           /\ Cut(c, ps)[1] = <<c>> \o ps[1]
           /\ \A i \in 2..Len(ps) : Cut(c, ps)[i] = ps[i]
<1>1. /\ ps \in Seq(Seq(Nat)) /\ Len(ps) \in Nat /\ Len(ps) >= 1 /\ 1 \in 1..Len(ps)
      /\ ps[1] \in Seq(Nat) /\ <<c>> \o ps[1] \in Seq(Nat)
  BY PiecesLen DEF Pieces, Texts
<1> DEFINE q == [ps EXCEPT ![1] = <<c>> \o @]
<1>2. /\ q \in Seq(Seq(Nat)) /\ Len(q) = Len(ps) /\ q[1] = <<c>> \o ps[1]
      /\ \A i \in 2..Len(ps) : q[i] = ps[i]
  <2>1. q = [ps EXCEPT ![1] = <<c>> \o ps[1]]
    OBVIOUS
  <2> QED BY <1>1, <2>1, ExceptSeq
<1>3. q # <<>>
  BY <1>1, <1>2, EmptySeq
<1> HIDE DEF q
<1>4. Cut(c, ps) = q
  BY DEF Cut, q
<1> QED BY <1>2, <1>3, <1>4 DEF Pieces

LEMMA CutPieces ==
    ASSUME NEW c \in Nat, NEW ps \in Pieces PROVE Cut(c, ps) \in Pieces
  BY CutNewline, CutOther

(* The pieces of two texts together: the last of the first and the first   *)
(* of the second are one.                                                  *)
Join(ps, qs) ==
    [i \in 1..(Len(ps) + Len(qs) - 1) |->
        IF i < Len(ps) THEN ps[i]
        ELSE IF i = Len(ps) THEN ps[i] \o qs[1]
        ELSE qs[i - Len(ps) + 1]]

LEMMA JoinProperties ==
    ASSUME NEW ps \in Pieces, NEW qs \in Pieces
    PROVE  /\ Join(ps, qs) \in Pieces /\ Len(Join(ps, qs)) = Len(ps) + Len(qs) - 1
           /\ \A i \in 1..(Len(ps) - 1) : Join(ps, qs)[i] = ps[i]
           /\ Join(ps, qs)[Len(ps)] = ps[Len(ps)] \o qs[1]
           /\ \A i \in 2..Len(qs) : Join(ps, qs)[Len(ps) + i - 1] = qs[i]
<1>1. PICK m \in Nat, n \in Nat : m = Len(ps) /\ m >= 1 /\ n = Len(qs) /\ n >= 1
  BY PiecesLen
<1>2. /\ m + n - 1 \in Nat /\ m + n - 1 >= 1 /\ m \in 1..(m + n - 1) /\ ~(m < m)
  BY <1>1
<1>3. /\ \A i \in 1..m : ps[i] \in Seq(Nat)
      /\ \A i \in 1..n : qs[i] \in Seq(Nat)
  BY <1>1, PiecesLen DEF Texts
<1>4. Join(ps, qs) \in [1..(m + n - 1) -> Seq(Nat)]
  <2> DEFINE J(i) == IF i < m THEN ps[i] ELSE IF i = m THEN ps[i] \o qs[1] ELSE qs[i - m + 1]
  <2>1. ASSUME NEW i \in 1..(m + n - 1) PROVE J(i) \in Seq(Nat)
    <3>1. CASE i < m
      BY <1>3, <3>1
    <3>2. CASE i = m
      <4>1. ps[m] \in Seq(Nat) /\ qs[1] \in Seq(Nat)
        BY <1>1, <1>3
      <4> QED BY <3>2, <4>1, ConcatProperties
    <3>3. CASE i > m
      <4>1. i - m + 1 \in 1..n /\ ~(i < m) /\ i # m
        BY <1>1, <3>3
      <4> QED BY <1>3, <4>1
    <3> QED BY <3>1, <3>2, <3>3
  <2> HIDE DEF J
  <2>2. Join(ps, qs) = [i \in 1..(m + n - 1) |-> J(i)]
    BY <1>1 DEF Join, J
  <2> QED BY <2>1, <2>2
<1>5. Join(ps, qs) \in Seq(Seq(Nat)) /\ Len(Join(ps, qs)) = m + n - 1
  BY <1>2, <1>4
<1>6. Join(ps, qs) # <<>>
  BY <1>2, <1>5, EmptySeq
<1>7. ASSUME NEW i \in 1..(m - 1) PROVE Join(ps, qs)[i] = ps[i]
  <2>1. i \in 1..(m + n - 1) /\ i < m
    BY <1>1
  <2> QED BY <1>1, <2>1 DEF Join
<1>8. Join(ps, qs)[m] = ps[m] \o qs[1]
  BY <1>1, <1>2 DEF Join
<1>9. ASSUME NEW i \in 2..n PROVE Join(ps, qs)[m + i - 1] = qs[i]
  <2>1. /\ m + i - 1 \in 1..(m + n - 1) /\ ~(m + i - 1 < m) /\ m + i - 1 # m
        /\ (m + i - 1) - m + 1 = i
    BY <1>1
  <2> QED BY <1>1, <2>1 DEF Join
<1> QED BY <1>1, <1>5, <1>6, <1>7, <1>8, <1>9 DEF Pieces

LEMMA JoinUnique ==
    ASSUME NEW ps \in Pieces, NEW qs \in Pieces, NEW x \in Pieces,
           Len(x) = Len(ps) + Len(qs) - 1,
           \A i \in 1..(Len(ps) - 1) : x[i] = ps[i],
           x[Len(ps)] = ps[Len(ps)] \o qs[1],
           \A i \in 2..Len(qs) : x[Len(ps) + i - 1] = qs[i]
    PROVE  x = Join(ps, qs)
<1>1. PICK m \in Nat, n \in Nat : m = Len(ps) /\ m >= 1 /\ n = Len(qs) /\ n >= 1
  BY PiecesLen
<1>2. ASSUME NEW j \in 1..(m + n - 1) PROVE x[j] = Join(ps, qs)[j]
  <2>1. CASE j \in 1..(m - 1)
    BY <1>1, <2>1, JoinProperties
  <2>2. CASE j = m
    BY <1>1, <2>2, JoinProperties
  <2>3. CASE j > m
    <3>1. j - m + 1 \in 2..n /\ m + (j - m + 1) - 1 = j
      BY <1>1, <2>3
    <3>2. x[m + (j - m + 1) - 1] = qs[j - m + 1]
      BY <1>1, <3>1
    <3>3. Join(ps, qs)[m + (j - m + 1) - 1] = qs[j - m + 1]
      BY <1>1, <3>1, JoinProperties
    <3> QED BY <3>1, <3>2, <3>3
  <2> QED BY <1>1, <2>1, <2>2, <2>3
<1>3. Len(Join(ps, qs)) = Len(x) /\ Len(x) = m + n - 1 /\ Join(ps, qs) \in Pieces
  BY <1>1, JoinProperties
<1> QED BY <1>2, <1>3, PiecesEqual

LEMMA CutJoin ==
    ASSUME NEW c \in Nat, NEW ps \in Pieces, NEW qs \in Pieces
    PROVE  Cut(c, Join(ps, qs)) = Join(Cut(c, ps), qs)
<1>1. PICK m \in Nat, n \in Nat : m = Len(ps) /\ m >= 1 /\ n = Len(qs) /\ n >= 1
  BY PiecesLen
<1>2. PICK j : j = Join(ps, qs)
  OBVIOUS
<1>3. j \in Pieces /\ Len(j) = m + n - 1
  BY <1>1, <1>2, JoinProperties
<1>4. \A i \in 1..(m - 1) : j[i] = ps[i]
  BY <1>1, <1>2, JoinProperties
<1>5. j[m] = ps[m] \o qs[1]
  BY <1>1, <1>2, JoinProperties
<1>6. \A i \in 2..n : j[m + i - 1] = qs[i]
  BY <1>1, <1>2, JoinProperties
<1>7. PICK k, l : k = Cut(c, ps) /\ l = Cut(c, j)
  OBVIOUS
<1>8. k \in Pieces /\ l \in Pieces
  BY <1>3, <1>7, CutPieces
<1>9. CASE c = Newline
  <2>1. Len(k) = m + 1 /\ k[1] = <<>>
    BY <1>1, <1>7, <1>9, CutNewline
  <2>2. \A i \in 1..m : k[i + 1] = ps[i]
    BY <1>1, <1>7, <1>9, CutNewline
  <2>3. Len(l) = (m + n - 1) + 1 /\ l[1] = <<>>
    BY <1>3, <1>7, <1>9, CutNewline
  <2>4. \A i \in 1..(m + n - 1) : l[i + 1] = j[i]
    BY <1>3, <1>7, <1>9, CutNewline
  <2>5. ASSUME NEW i \in 1..m PROVE l[i] = k[i]
    <3>1. CASE i = 1
      BY <2>1, <2>3, <3>1
    <3>2. CASE i # 1
      <4>1. /\ i - 1 \in 1..(m - 1) /\ i - 1 \in 1..m /\ i - 1 \in 1..(m + n - 1)
            /\ (i - 1) + 1 = i
        BY <1>1, <3>2
      <4>2. l[(i - 1) + 1] = j[i - 1] /\ k[(i - 1) + 1] = ps[i - 1] /\ j[i - 1] = ps[i - 1]
        BY <1>4, <2>2, <2>4, <4>1
      <4> QED BY <4>1, <4>2
    <3> QED BY <3>1, <3>2
  <2>6. l[m + 1] = k[m + 1] \o qs[1]
    <3>1. m \in 1..m /\ m \in 1..(m + n - 1)
      BY <1>1
    <3>2. l[m + 1] = j[m] /\ k[m + 1] = ps[m]
      BY <2>2, <2>4, <3>1
    <3> QED BY <1>5, <3>2
  <2>7. ASSUME NEW i \in 2..n PROVE l[(m + 1) + i - 1] = qs[i]
    <3>1. m + i - 1 \in 1..(m + n - 1) /\ (m + i - 1) + 1 = (m + 1) + i - 1
      BY <1>1
    <3>2. l[(m + i - 1) + 1] = j[m + i - 1]
      BY <2>4, <3>1
    <3>3. j[m + i - 1] = qs[i]
      BY <1>6
    <3> QED BY <3>1, <3>2, <3>3
  <2>8. (m + n - 1) + 1 = (m + 1) + n - 1 /\ (m + 1) - 1 = m
    OBVIOUS
  <2>9. /\ Len(l) = Len(k) + Len(qs) - 1
        /\ \A i \in 1..(Len(k) - 1) : l[i] = k[i]
        /\ l[Len(k)] = k[Len(k)] \o qs[1]
        /\ \A i \in 2..Len(qs) : l[Len(k) + i - 1] = qs[i]
    BY <1>1, <2>1, <2>3, <2>5, <2>6, <2>7, <2>8
  <2>10. l = Join(k, qs)
    BY <1>8, <2>9, JoinUnique
  <2> QED BY <1>2, <1>7, <2>10
<1>10. CASE c # Newline
  <2>1. Len(k) = m
    BY <1>1, <1>7, <1>10, CutOther
  <2>2. k[1] = <<c>> \o ps[1]
    BY <1>7, <1>10, CutOther
  <2>3. \A i \in 2..m : k[i] = ps[i]
    BY <1>1, <1>7, <1>10, CutOther
  <2>4. Len(l) = m + n - 1
    BY <1>3, <1>7, <1>10, CutOther
  <2>5. l[1] = <<c>> \o j[1]
    BY <1>3, <1>7, <1>10, CutOther
  <2>6. \A i \in 2..(m + n - 1) : l[i] = j[i]
    <3>1. \A i \in 2..Len(j) : Cut(c, j)[i] = j[i]
      BY <1>3, <1>10, CutOther
    <3> QED BY <1>3, <1>7, <3>1
  <2>7. ASSUME NEW i \in 1..(m - 1) PROVE l[i] = k[i]
    <3>1. j[i] = ps[i]
      BY <1>4
    <3>2. CASE i = 1
      BY <2>2, <2>5, <3>1, <3>2
    <3>3. CASE i # 1
      <4>1. i \in 2..m /\ i \in 2..(m + n - 1)
        BY <1>1, <3>3
      <4>2. l[i] = j[i] /\ k[i] = ps[i]
        BY <2>3, <2>6, <4>1
      <4> QED BY <3>1, <4>2
    <3> QED BY <3>2, <3>3
  <2>8. l[m] = k[m] \o qs[1]
    <3>1. CASE m = 1
      <4>1. 1 \in 1..m /\ 1 \in 1..n
        BY <1>1
      <4>2. PICK p \in Seq(Nat), q \in Seq(Nat) : p = ps[1] /\ q = qs[1]
        BY <1>1, <4>1, PiecesLen DEF Texts
      <4>3. (<<c>> \o p) \o q = <<c>> \o (p \o q)
        <5>1. <<c>> \in Seq(Nat)
          OBVIOUS
        <5> QED BY <5>1, ConcatAssociative
      <4>4. j[1] = p \o q
        BY <1>5, <3>1, <4>2
      <4>5. k[1] \o qs[1] = (<<c>> \o p) \o q
        BY <2>2, <4>2
      <4> QED BY <2>5, <3>1, <4>3, <4>4, <4>5
    <3>2. CASE m # 1
      <4>1. m \in 2..m /\ m \in 2..(m + n - 1)
        BY <1>1, <3>2
      <4>2. l[m] = j[m] /\ k[m] = ps[m]
        BY <2>3, <2>6, <4>1
      <4> QED BY <1>5, <4>2
    <3> QED BY <3>1, <3>2
  <2>9. ASSUME NEW i \in 2..n PROVE l[m + i - 1] = qs[i]
    <3>1. m + i - 1 \in 2..(m + n - 1)
      BY <1>1
    <3>2. l[m + i - 1] = j[m + i - 1]
      BY <2>6, <3>1
    <3> QED BY <1>6, <3>2
  <2>10. /\ Len(l) = Len(k) + Len(qs) - 1
         /\ \A i \in 1..(Len(k) - 1) : l[i] = k[i]
         /\ l[Len(k)] = k[Len(k)] \o qs[1]
         /\ \A i \in 2..Len(qs) : l[Len(k) + i - 1] = qs[i]
    BY <1>1, <2>1, <2>4, <2>7, <2>8, <2>9
  <2>11. l = Join(k, qs)
    BY <1>8, <2>10, JoinUnique
  <2> QED BY <1>2, <1>7, <2>11
<1> QED BY <1>9, <1>10

LEMMA OnePiece ==
    ASSUME NEW t \in Texts
    PROVE  <<t>> \in Pieces /\ Len(<<t>>) = 1 /\ <<t>>[1] = t
  BY DEF Pieces, Texts

LEMMA JoinEmpty ==
    ASSUME NEW qs \in Pieces
    PROVE  << <<>> >> \in Pieces /\ qs = Join(<< <<>> >>, qs)
<1>1. << <<>> >> \in Pieces /\ Len(<< <<>> >>) = 1
  BY DEF Pieces
<1>2. PICK n \in Nat : n = Len(qs) /\ n >= 1
  BY PiecesLen
<1>3. qs[1] \in Seq(Nat)
  BY <1>2, PiecesLen DEF Texts
<1>4. qs[1] = <<>> \o qs[1]
  BY <1>3, ConcatEmptySeq
<1>5. /\ n = 1 + n - 1 /\ 1..(1 - 1) = {} /\ \A i \in 2..n : 1 + i - 1 = i
  OBVIOUS
<1>6. /\ Len(qs) = Len(<< <<>> >>) + Len(qs) - 1
      /\ \A i \in 1..(Len(<< <<>> >>) - 1) : qs[i] = << <<>> >>[i]
      /\ qs[Len(<< <<>> >>)] = << <<>> >>[Len(<< <<>> >>)] \o qs[1]
      /\ \A i \in 2..Len(qs) : qs[Len(<< <<>> >>) + i - 1] = qs[i]
  BY <1>1, <1>2, <1>4, <1>5
<1> QED BY <1>1, <1>6, JoinUnique

LEMMA SplitType ==
    ASSUME NEW s \in Texts PROVE Split(s) \in Pieces
<1> DEFINE T == {t \in Texts : Split(t) \in Pieces}
<1>1. <<>> \in T
  <2>1. <<>> \in Texts
    BY DEF Texts
  <2> QED BY <2>1, SplitEmpty, OnePiece
<1>2. ASSUME NEW c \in Nat, NEW t \in T PROVE <<c>> \o t \in T
  <2>1. <<c>> \o t \in Texts
    BY ConsProperties DEF Texts
  <2>2. Split(<<c>> \o t) = Cut(c, Split(t))
    BY SplitCons DEF Texts
  <2> QED BY <2>1, <2>2, CutPieces
<1> HIDE DEF T
<1>3. T = Seq(Nat)
  BY <1>1, <1>2, FrontInduction DEF T, Texts
<1> QED BY <1>3 DEF T, Texts

(* Splitting two texts and joining the pieces splits both together.        *)
LEMMA SplitConcat ==
    ASSUME NEW a \in Texts, NEW b \in Texts
    PROVE  Split(a \o b) = Join(Split(a), Split(b))
<1> DEFINE T == {t \in Texts : Split(t \o b) = Join(Split(t), Split(b))}
<1>1. <<>> \in T
  <2>1. <<>> \o b = b /\ <<>> \in Texts
    BY ConcatEmptySeq DEF Texts
  <2>2. Split(b) = Join(Split(<<>>), Split(b))
    BY SplitEmpty, SplitType, JoinEmpty
  <2> QED BY <2>1, <2>2
<1>2. ASSUME NEW c \in Nat, NEW t \in T PROVE <<c>> \o t \in T
  <2>1. <<c>> \o t \in Texts /\ t \o b \in Texts /\ <<c>> \in Texts
    BY ConsProperties, ConcatProperties DEF Texts
  <2>2. (<<c>> \o t) \o b = <<c>> \o (t \o b)
    BY <2>1, ConcatAssociative DEF Texts
  <2>3. Split(<<c>> \o (t \o b)) = Cut(c, Split(t \o b))
    BY <2>1, SplitCons DEF Texts
  <2>4. Cut(c, Join(Split(t), Split(b))) = Join(Cut(c, Split(t)), Split(b))
    BY SplitType, CutJoin
  <2>5. Split(<<c>> \o t) = Cut(c, Split(t))
    BY SplitCons DEF Texts
  <2> QED BY <2>1, <2>2, <2>3, <2>4, <2>5
<1> HIDE DEF T
<1>3. T = Seq(Nat)
  BY <1>1, <1>2, FrontInduction DEF T, Texts
<1> QED BY <1>3 DEF T, Texts

(* A text without newlines is one piece.                                   *)
LEMMA SplitLine ==
    ASSUME NEW s \in Texts, \A i \in 1..Len(s) : s[i] # Newline
    PROVE  Split(s) = <<s>>
<1> DEFINE T == {t \in Texts : (\A i \in 1..Len(t) : t[i] # Newline) => Split(t) = <<t>>}
<1>1. <<>> \in T
  BY SplitEmpty DEF Texts
<1>2. ASSUME NEW c \in Nat, NEW t \in T PROVE <<c>> \o t \in T
  <2>1. /\ <<c>> \o t \in Texts /\ Len(<<c>> \o t) = Len(t) + 1 /\ Len(t) \in Nat
        /\ (<<c>> \o t)[1] = c /\ \A i \in 1..Len(t) : (<<c>> \o t)[i + 1] = t[i]
    BY ConsProperties, LenProperties DEF Texts
  <2> SUFFICES ASSUME \A i \in 1..Len(<<c>> \o t) : (<<c>> \o t)[i] # Newline
               PROVE  Split(<<c>> \o t) = <<(<<c>> \o t)>>
    BY <2>1
  <2>2. c # Newline
    BY <2>1
  <2>3. \A i \in 1..Len(t) : t[i] # Newline
    <3>1. ASSUME NEW i \in 1..Len(t) PROVE t[i] # Newline
      <4>1. i + 1 \in 1..Len(<<c>> \o t)
        BY <2>1
      <4> QED BY <2>1, <4>1
    <3> QED BY <3>1
  <2>4. Split(t) = <<t>>
    BY <2>3
  <2>5. Split(<<c>> \o t) = Cut(c, <<t>>)
    BY <2>4, SplitCons DEF Texts
  <2>6. Cut(c, <<t>>) = [<<t>> EXCEPT ![1] = <<c>> \o t]
    BY <2>2 DEF Cut
  <2> QED BY <2>5, <2>6
<1> HIDE DEF T
<1>3. T = Seq(Nat)
  BY <1>1, <1>2, FrontInduction DEF T, Texts
<1> QED BY <1>3 DEF T, Texts

(* What follows a text that ends in a newline makes pieces of its own.     *)
LEMMA JoinAtLineStart ==
    ASSUME NEW ps \in Pieces, NEW qs \in Pieces, Last(ps) = <<>>
    PROVE  Join(ps, qs) = Front(ps) \o qs
<1>1. PICK m \in Nat, n \in Nat : m = Len(ps) /\ m >= 1 /\ n = Len(qs) /\ n >= 1
  BY PiecesLen
<1>2. PICK f \in Seq(Seq(Nat)) : f = Front(ps) /\ Len(f) = m - 1 /\ \A i \in 1..(m - 1) : f[i] = ps[i]
  BY <1>1, FrontLast DEF Pieces
<1>3. ps[m] = <<>>
  BY <1>1, FrontLast DEF Pieces
<1>4. qs[1] \in Seq(Nat) /\ qs \in Seq(Seq(Nat))
  BY <1>1, PiecesLen DEF Texts, Pieces
<1>5. PICK x : x = f \o qs
  OBVIOUS
<1>6. /\ x \in Seq(Seq(Nat)) /\ Len(x) = (m - 1) + n
      /\ \A i \in 1..((m - 1) + n) : x[i] = IF i <= m - 1 THEN f[i] ELSE qs[i - (m - 1)]
  <2>1. /\ f \o qs \in Seq(Seq(Nat)) /\ Len(f \o qs) = Len(f) + Len(qs)
        /\ \A i \in 1..(Len(f) + Len(qs)) :
             (f \o qs)[i] = IF i <= Len(f) THEN f[i] ELSE qs[i - Len(f)]
    BY <1>4, ConcatProperties
  <2> QED BY <1>1, <1>2, <1>5, <2>1
<1>7. x \in Pieces /\ (m - 1) + n = m + n - 1
  BY <1>1, <1>6 DEF Pieces
<1>8. ASSUME NEW i \in 1..(m - 1) PROVE x[i] = ps[i]
  <2>1. i \in 1..((m - 1) + n) /\ i <= m - 1
    BY <1>1
  <2> QED BY <1>2, <1>6, <2>1
<1>9. ASSUME NEW i \in 1..n PROVE x[m + i - 1] = qs[i]
  <2>1. /\ m + i - 1 \in 1..((m - 1) + n) /\ ~(m + i - 1 <= m - 1)
        /\ (m + i - 1) - (m - 1) = i
    BY <1>1
  <2> QED BY <1>6, <2>1
<1>10. x[m] = ps[m] \o qs[1]
  <2>1. m + 1 - 1 = m /\ 1 \in 1..n
    BY <1>1
  <2>2. x[m] = qs[1]
    BY <1>9, <2>1
  <2>3. <<>> \o qs[1] = qs[1]
    BY <1>4, ConcatEmptySeq
  <2> QED BY <1>3, <2>2, <2>3
<1>11. x = Join(ps, qs)
  <2>1. \A i \in 2..n : x[m + i - 1] = qs[i]
    BY <1>9
  <2>2. /\ Len(x) = Len(ps) + Len(qs) - 1
        /\ \A i \in 1..(Len(ps) - 1) : x[i] = ps[i]
        /\ x[Len(ps)] = ps[Len(ps)] \o qs[1]
        /\ \A i \in 2..Len(qs) : x[Len(ps) + i - 1] = qs[i]
    BY <1>1, <1>6, <1>7, <1>8, <1>10, <2>1
  <2> QED BY <1>7, <2>2, JoinUnique
<1> QED BY <1>2, <1>5, <1>11

-----------------------------------------------------------------------------
(* Lines *)

(* A text at whose end a line may begin.                                   *)
AtStart(u) == u = <<>> \/ u[Len(u)] = Newline

WithoutNewline(r) == \A i \in 1..Len(r) : r[i] # Newline

LEMMA ConcatElements ==
    ASSUME NEW S, NEW a \in Seq(S), NEW b \in Seq(S)
    PROVE  /\ a \o b \in Seq(S) /\ Len(a \o b) = Len(a) + Len(b)
           /\ Len(a) \in Nat /\ Len(b) \in Nat
           /\ \A i \in 1..Len(a) : (a \o b)[i] = a[i]
           /\ \A i \in 1..Len(b) : (a \o b)[Len(a) + i] = b[i]
<1>1. PICK m \in Nat, n \in Nat : m = Len(a) /\ n = Len(b)
  BY LenProperties
<1>2. /\ a \o b \in Seq(S) /\ Len(a \o b) = m + n
      /\ \A i \in 1..(m + n) : (a \o b)[i] = IF i <= m THEN a[i] ELSE b[i - m]
  BY <1>1, ConcatProperties
<1>3. ASSUME NEW i \in 1..m PROVE (a \o b)[i] = a[i]
  BY <1>2
<1>4. ASSUME NEW i \in 1..n PROVE (a \o b)[m + i] = b[i]
  <2>1. m + i \in 1..(m + n) /\ ~(m + i <= m) /\ (m + i) - m = i
    OBVIOUS
  <2> QED BY <1>2, <2>1
<1> QED BY <1>1, <1>2, <1>3, <1>4

LEMMA TextsConcat ==
    ASSUME NEW a \in Texts, NEW b \in Texts
    PROVE  /\ a \o b \in Texts /\ Len(a \o b) = Len(a) + Len(b)
           /\ Len(a) \in Nat /\ Len(b) \in Nat
           /\ \A i \in 1..Len(a) : (a \o b)[i] = a[i]
           /\ \A i \in 1..Len(b) : (a \o b)[Len(a) + i] = b[i]
  BY ConcatElements DEF Texts

LEMMA TextsAssociative ==
    ASSUME NEW a \in Texts, NEW b \in Texts, NEW c \in Texts
    PROVE  (a \o b) \o c = a \o (b \o c)
  BY ConcatAssociative DEF Texts

(* A text is whole lines and the beginning of one.                         *)
Parts(w, u, r) == w = u \o r /\ AtStart(u) /\ WithoutNewline(r)

LEMMA TextParts ==
    ASSUME NEW w \in Texts
    PROVE  \E u \in Texts, r \in Texts : Parts(w, u, r)
<1> USE DEF Parts
<1> DEFINE T == {t \in Texts : \E u \in Texts, r \in Texts : Parts(t, u, r)}
<1>0. <<>> \in Texts /\ Len(<<>>) = 0
  BY DEF Texts
<1>1. <<>> \in T
  <2>1. <<>> = <<>> \o <<>> /\ AtStart(<<>>) /\ WithoutNewline(<<>>)
    BY DEF AtStart, WithoutNewline
  <2> QED BY <1>0, <2>1
<1>2. ASSUME NEW t \in T, NEW c \in Nat PROVE t \o <<c>> \in T
  <2>1. PICK u \in Texts, r \in Texts : Parts(t, u, r)
    OBVIOUS
  <2>2. <<c>> \in Texts /\ Len(<<c>>) = 1 /\ <<c>>[1] = c
    BY DEF Texts
  <2>3. /\ t \o <<c>> \in Texts /\ Len(t) \in Nat /\ Len(t \o <<c>>) = Len(t) + 1
        /\ (t \o <<c>>)[Len(t) + 1] = c
    BY <2>2, ConcatElements DEF Texts
  <2>4. CASE c = Newline
    <3>1. (t \o <<c>>) \o <<>> = t \o <<c>>
      BY <2>3, ConcatEmptySeq DEF Texts
    <3>2. AtStart(t \o <<c>>) /\ WithoutNewline(<<>>)
      BY <1>0, <2>3, <2>4 DEF AtStart, WithoutNewline
    <3> QED BY <1>0, <2>3, <3>1, <3>2
  <2>5. CASE c # Newline
    <3>1. (u \o r) \o <<c>> = u \o (r \o <<c>>)
      <4>1. PICK e \in Texts : e = <<c>>
        BY <2>2
      <4>2. (u \o r) \o e = u \o (r \o e)
        BY TextsAssociative
      <4> QED BY <4>1, <4>2
    <3>2. /\ r \o <<c>> \in Texts /\ Len(r) \in Nat /\ Len(r \o <<c>>) = Len(r) + 1
          /\ \A i \in 1..Len(r) : (r \o <<c>>)[i] = r[i]
          /\ (r \o <<c>>)[Len(r) + 1] = c
      BY <2>2, ConcatElements DEF Texts
    <3>3. WithoutNewline(r \o <<c>>)
      <4>1. ASSUME NEW i \in 1..(Len(r) + 1) PROVE (r \o <<c>>)[i] # Newline
        <5>1. i \in 1..Len(r) \/ i = Len(r) + 1
          BY <3>2
        <5> QED BY <2>1, <2>5, <3>2, <5>1 DEF WithoutNewline
      <4> QED BY <3>2, <4>1 DEF WithoutNewline
    <3> QED BY <2>1, <2>3, <3>1, <3>2, <3>3
  <2> QED BY <2>4, <2>5
<1> HIDE DEF T
<1>3. T = Seq(Nat)
  BY <1>1, <1>2, EndInduction DEF T, Texts
<1> QED BY <1>3 DEF T, Texts

(* The last piece of a text that ends in a newline is empty.               *)
LEMMA SplitAtStart ==
    ASSUME NEW u \in Texts, AtStart(u) PROVE Last(Split(u)) = <<>>
<1>1. CASE u = <<>>
  BY <1>1, SplitEmpty DEF Last
<1>2. CASE u # <<>>
  <2>1. PICK v \in Texts, e \in Nat : u = Append(v, e)
    BY <1>2, SequenceEmptyOrAppend DEF Texts
  <2>2. u[Len(u)] = e
    BY <2>1 DEF Texts
  <2>3. e = Newline
    BY <1>2, <2>2 DEF AtStart
  <2>4. u = v \o <<Newline>> /\ <<Newline>> \in Texts
    <3>1. Append(v, e) = v \o <<e>>
      BY DEF Texts
    <3> QED BY <2>1, <2>3, <3>1 DEF Texts
  <2> DEFINE nl == Split(<<Newline>>)
  <2>5. nl = Cut(Newline, << <<>> >>)
    <3>1. <<Newline>> \o <<>> = <<Newline>> /\ <<>> \in Seq(Nat) /\ Newline \in Nat
      BY DEF Newline
    <3>2. Split(<<Newline>> \o <<>>) = Cut(Newline, Split(<<>>))
      BY <3>1, SplitCons
    <3> QED BY <3>1, <3>2, SplitEmpty
  <2>6. nl \in Pieces /\ Len(nl) = 2 /\ nl[2] = <<>>
    <3>1. << <<>> >> \in Pieces /\ Len(<< <<>> >>) = 1 /\ << <<>> >>[1] = <<>>
      BY DEF Pieces
    <3>2. /\ Cut(Newline, << <<>> >>) \in Pieces
          /\ Len(Cut(Newline, << <<>> >>)) = 1 + 1
          /\ Cut(Newline, << <<>> >>)[1 + 1] = <<>>
      <4>1. PICK p \in Pieces : p = << <<>> >> /\ Len(p) = 1 /\ p[1] = <<>>
        BY <3>1
      <4>2. /\ Cut(Newline, p) \in Pieces /\ Len(Cut(Newline, p)) = Len(p) + 1
            /\ \A i \in 1..Len(p) : Cut(Newline, p)[i + 1] = p[i]
        BY CutNewline
      <4> QED BY <4>1, <4>2
    <3> QED BY <2>5, <3>2
  <2> HIDE DEF nl
  <2>7. PICK ps \in Pieces, m \in Nat : ps = Split(v) /\ m = Len(ps) /\ m >= 1
    BY SplitType, PiecesLen
  <2>8. Split(u) = Join(ps, nl)
    BY <2>4, <2>7, SplitConcat DEF nl
  <2>9. /\ Join(ps, nl) \in Pieces /\ Len(Join(ps, nl)) = Len(ps) + Len(nl) - 1
        /\ \A i \in 2..Len(nl) : Join(ps, nl)[Len(ps) + i - 1] = nl[i]
    BY <2>6, JoinProperties
  <2>10. /\ Len(Join(ps, nl)) = m + 2 - 1 /\ Join(ps, nl)[m + 2 - 1] = <<>>
    BY <2>6, <2>7, <2>9
  <2>11. Last(Join(ps, nl)) = Join(ps, nl)[Len(Join(ps, nl))]
    BY <2>9, FrontLast DEF Pieces
  <2> QED BY <2>8, <2>10, <2>11
<1> QED BY <1>1, <1>2

(* After whole lines, a text is split as if it stood alone.                *)
LEMMA SplitAfterLines ==
    ASSUME NEW u \in Texts, AtStart(u), NEW b \in Texts
    PROVE  Split(u \o b) = Front(Split(u)) \o Split(b)
  BY SplitAtStart, SplitType, SplitConcat, JoinAtLineStart

LEMMA SplitWithRest ==
    ASSUME NEW u \in Texts, AtStart(u), NEW r \in Texts, WithoutNewline(r)
    PROVE  /\ Split(u \o r) \in Pieces
           /\ Front(Split(u \o r)) = Front(Split(u)) /\ Last(Split(u \o r)) = r
<1>1. PICK f \in Seq(Seq(Nat)) : f = Front(Split(u))
  BY SplitType, FrontLast DEF Pieces
<1>2. Split(u \o r) = f \o <<r>>
  BY <1>1, SplitAfterLines, SplitLine DEF WithoutNewline
<1>3. f \o <<r>> = Append(f, r)
  BY DEF Texts
<1>4. Front(Append(f, r)) = f /\ Last(Append(f, r)) = r
  BY FrontOfAppend DEF Texts
<1>5. u \o r \in Texts
  BY ConcatElements DEF Texts
<1> QED BY <1>1, <1>2, <1>3, <1>4, <1>5, SplitType

-----------------------------------------------------------------------------
(* Lines that are not blank *)

Lines == Seq(Texts)

LEMMA OneLine ==
    ASSUME NEW line \in Texts PROVE <<line>> \in Lines
  BY OnePiece DEF Lines, Pieces, Texts

LEMMA KeepProperties ==
    ASSUME NEW line \in Texts, NEW kept \in Lines, NEW more \in Lines
    PROVE  /\ Keep(line, kept) \in Lines
           /\ Keep(line, kept) \o more = Keep(line, kept \o more)
<1>1. CASE Blank(line)
  BY <1>1 DEF Keep
<1>2. CASE ~Blank(line)
  <2>1. PICK one \in Lines : one = <<line>>
    BY OneLine
  <2>2. one \o kept \in Lines /\ (one \o kept) \o more = one \o (kept \o more)
    BY ConcatAssociative, ConcatProperties DEF Lines
  <2> QED BY <1>2, <2>1, <2>2 DEF Keep
<1> QED BY <1>1, <1>2

LEMMA NotBlankConcat ==
    ASSUME NEW a \in Lines, NEW b \in Lines
    PROVE  /\ NotBlank(b) \in Lines
           /\ NotBlank(a \o b) = NotBlank(a) \o NotBlank(b)
<1>0. <<>> \in Lines
  BY DEF Lines
<1>1. ASSUME NEW c \in Texts, NEW ls \in Lines
      PROVE  <<c>> \o ls \in Lines /\ NotBlank(<<c>> \o ls) = Keep(c, NotBlank(ls))
  BY ConsProperties, NotBlankCons DEF Lines
<1>2. \A ls \in Lines : NotBlank(ls) \in Lines
  <2> DEFINE T == {ls \in Lines : NotBlank(ls) \in Lines}
  <2>1. <<>> \in T
    BY <1>0, NotBlankEmpty
  <2>2. ASSUME NEW c \in Texts, NEW ls \in T PROVE <<c>> \o ls \in T
    BY <1>0, <1>1, KeepProperties
  <2> HIDE DEF T
  <2>3. T = Seq(Texts)
    BY <2>1, <2>2, FrontInduction DEF T, Lines
  <2> QED BY <2>3 DEF T, Lines
<1>3. \A ls \in Lines : NotBlank(ls \o b) = NotBlank(ls) \o NotBlank(b)
  <2> DEFINE T == {ls \in Lines : NotBlank(ls \o b) = NotBlank(ls) \o NotBlank(b)}
  <2>1. <<>> \in T
    <3>1. <<>> \o b = b /\ <<>> \o NotBlank(b) = NotBlank(b)
      BY <1>2, ConcatEmptySeq DEF Lines
    <3> QED BY <1>0, <3>1, NotBlankEmpty
  <2>2. ASSUME NEW c \in Texts, NEW ls \in T PROVE <<c>> \o ls \in T
    <3>1. PICK one \in Lines : one = <<c>>
      BY OneLine
    <3>2. ls \o b \in Lines /\ (one \o ls) \o b = one \o (ls \o b)
      BY ConcatAssociative, ConcatProperties DEF Lines
    <3>3. NotBlank(one \o (ls \o b)) = Keep(c, NotBlank(ls) \o NotBlank(b))
      BY <1>1, <3>1, <3>2
    <3>4. Keep(c, NotBlank(ls) \o NotBlank(b)) = Keep(c, NotBlank(ls)) \o NotBlank(b)
      BY <1>2, KeepProperties
    <3> QED BY <1>1, <3>1, <3>2, <3>3, <3>4
  <2> HIDE DEF T
  <2>3. T = Seq(Texts)
    BY <2>1, <2>2, FrontInduction DEF T, Lines
  <2> QED BY <2>3 DEF T, Lines
<1> QED BY <1>2, <1>3

(* A blank line at the end makes no difference.                            *)
LEMMA NotBlankFront ==
    ASSUME NEW ls \in Lines, ls # <<>>, Blank(Last(ls))
    PROVE  NotBlank(Front(ls)) = NotBlank(ls)
<1>1. PICK f \in Lines, l \in Texts : f = Front(ls) /\ l = Last(ls) /\ ls = Append(f, l)
  BY FrontLast DEF Lines
<1>2. PICK one \in Lines : one = <<l>>
  BY OneLine
<1>3. ls = f \o one
  BY <1>1, <1>2 DEF Lines
<1>4. NotBlank(one) = <<>>
  <2>1. <<>> \in Lines /\ one = <<l>> \o <<>>
    BY <1>2 DEF Lines
  <2>2. NotBlank(one) = Keep(l, NotBlank(<<>>))
    BY <2>1, NotBlankCons DEF Lines
  <2> QED BY <1>1, <2>2, NotBlankEmpty DEF Keep
<1>5. NotBlank(f) \in Lines /\ NotBlank(ls) = NotBlank(f) \o NotBlank(one)
  BY <1>3, NotBlankConcat
<1>6. NotBlank(f) \o <<>> = NotBlank(f)
  BY <1>5, ConcatEmptySeq DEF Lines
<1> QED BY <1>1, <1>4, <1>5, <1>6

LEMMA BlankEmpty == Blank(<<>>)
  BY DEF Blank

LEMMA PiecesAreLines ==
    ASSUME NEW ps \in Pieces
    PROVE  ps \in Lines /\ ps # <<>> /\ Front(ps) \in Lines
  BY FrontLast DEF Pieces, Lines, Texts

(* The lines of whole lines and more are those of each.                    *)
LEMMA LinesConcat ==
    ASSUME NEW u \in Texts, AtStart(u), NEW b \in Texts
    PROVE  /\ NotBlank(Split(u)) \in Lines
           /\ NotBlank(Split(u)) = NotBlank(Front(Split(u)))
           /\ NotBlank(Split(u \o b)) = NotBlank(Split(u)) \o NotBlank(Split(b))
<1>1. PICK ps \in Pieces, qs \in Pieces : ps = Split(u) /\ qs = Split(b)
  BY SplitType
<1>2. /\ ps \in Lines /\ ps # <<>> /\ Front(ps) \in Lines /\ qs \in Lines
  BY PiecesAreLines
<1>3. Last(ps) = <<>>
  BY <1>1, SplitAtStart
<1>4. NotBlank(Front(ps)) = NotBlank(ps)
  BY <1>2, <1>3, BlankEmpty, NotBlankFront
<1>5. Split(u \o b) = Front(ps) \o qs
  BY <1>1, SplitAfterLines
<1>6. NotBlank(Front(ps) \o qs) = NotBlank(Front(ps)) \o NotBlank(qs)
  BY <1>2, NotBlankConcat
<1>7. NotBlank(ps) \in Lines
  BY <1>2, NotBlankConcat
<1> QED BY <1>1, <1>4, <1>5, <1>6, <1>7

(* Stripping a last line that is blank loses none.                         *)
LEMMA StripBlank ==
    ASSUME NEW ls \in Lines, NEW st,
           st = IF ls # <<>> /\ Blank(Last(ls)) THEN Front(ls) ELSE ls
    PROVE  st \in Lines /\ NotBlank(st) = NotBlank(ls)
<1>1. CASE ls # <<>> /\ Blank(Last(ls))
  <2>1. st = Front(ls) /\ Front(ls) \in Lines
    BY <1>1, FrontLast DEF Lines
  <2> QED BY <1>1, <2>1, NotBlankFront
<1>2. CASE ~(ls # <<>> /\ Blank(Last(ls)))
  BY <1>2
<1> QED BY <1>1, <1>2

(* A full buffer: the lines are those before the partial line, which is    *)
(* kept.                                                                   *)
LEMMA LinesOfBuffer ==
    ASSUME NEW u \in Texts, AtStart(u), NEW r \in Texts, WithoutNewline(r)
    PROVE  /\ SplitToLines(u \o r, FALSE).remnant = r
           /\ SplitToLines(u \o r, FALSE).lines \in Lines
           /\ NotBlank(SplitToLines(u \o r, FALSE).lines) = NotBlank(Split(u))
<1>1. PICK ps \in Pieces : ps = Split(u \o r) /\ Front(ps) = Front(Split(u)) /\ Last(ps) = r
  BY SplitWithRest
<1>2. SplitToLines(u \o r, FALSE).remnant = Last(ps)
  BY <1>1 DEF SplitToLines
<1>3. PICK w \in Lines : w = Front(ps)
  BY PiecesAreLines
<1>4. PICK st : st = SplitToLines(u \o r, FALSE).lines
  OBVIOUS
<1>5. st = IF w # <<>> /\ Blank(Last(w)) THEN Front(w) ELSE w
  BY <1>1, <1>3, <1>4 DEF SplitToLines
<1>6. st \in Lines /\ NotBlank(st) = NotBlank(w)
  BY <1>5, StripBlank
<1>7. NotBlank(Split(u)) = NotBlank(Front(Split(u)))
  BY LinesConcat
<1> QED BY <1>1, <1>2, <1>3, <1>4, <1>6, <1>7

(* The last buffer: the padding behind the whole lines is no line.         *)
LEMMA LinesAtEof ==
    ASSUME NEW u \in Texts, AtStart(u), NEW r \in Texts, \A i \in 1..Len(r) : r[i] = Nul
    PROVE  /\ SplitToLines(u \o r, TRUE).lines \in Lines
           /\ NotBlank(SplitToLines(u \o r, TRUE).lines) = NotBlank(Split(u))
<1>1. WithoutNewline(r)
  BY DEF WithoutNewline, Newline, Nul
<1>2. PICK ps \in Pieces : ps = Split(u \o r) /\ Front(ps) = Front(Split(u)) /\ Last(ps) = r
  BY <1>1, SplitWithRest
<1>3. Blank(r)
  <2>1. DOMAIN r = 1..Len(r)
    BY LenProperties DEF Texts
  <2> QED BY <2>1 DEF Blank
<1>4. ps \in Lines /\ ps # <<>>
  BY PiecesAreLines
<1>5. PICK st : st = SplitToLines(u \o r, TRUE).lines
  OBVIOUS
<1>6. st = IF ps # <<>> /\ Blank(Last(ps)) THEN Front(ps) ELSE ps
  BY <1>2, <1>5 DEF SplitToLines
<1>7. st \in Lines /\ NotBlank(st) = NotBlank(ps)
  BY <1>4, <1>6, StripBlank
<1>8. NotBlank(ps) = NotBlank(Front(ps))
  BY <1>2, <1>3, <1>4, NotBlankFront
<1>9. NotBlank(Split(u)) = NotBlank(Front(Split(u)))
  BY LinesConcat
<1> QED BY <1>2, <1>5, <1>7, <1>8, <1>9

-----------------------------------------------------------------------------
(* The file: what is between two offsets, and the lines before one *)

Between(f, n, p) == SubSeq(f, n + 1, p)
StartOf(f, n) == n = 0 \/ f[n] = Newline
LinesOf(f, n) == NotBlank(Split(SubSeq(f, 1, n)))

LEMMA BetweenProperties ==
    ASSUME NEW f \in Texts, NEW n \in Nat, NEW p \in Nat, n <= p, p <= Len(f)
    PROVE  /\ Between(f, n, p) \in Texts /\ Len(Between(f, n, p)) = p - n
           /\ \A i \in 1..(p - n) : Between(f, n, p)[i] = f[n + i]
<1>1. Len(f) \in Nat
  BY LenProperties DEF Texts
<1>2. \A i \in (n + 1)..p : f[i] \in Nat
  <2>1. ASSUME NEW i \in (n + 1)..p PROVE i \in 1..Len(f)
    BY <1>1
  <2> QED BY <2>1 DEF Texts
<1>3. PICK m \in Int : m = n + 1
  OBVIOUS
<1>4. /\ SubSeq(f, m, p) \in Seq(Nat)
      /\ Len(SubSeq(f, m, p)) = IF m <= p THEN p - m + 1 ELSE 0
      /\ \A i \in 1..(p - m + 1) : SubSeq(f, m, p)[i] = f[m + i - 1]
  BY <1>2, <1>3, SubSeqProperties
<1>5. Len(SubSeq(f, m, p)) = p - n
  BY <1>3, <1>4
<1>6. ASSUME NEW i \in 1..(p - n) PROVE SubSeq(f, m, p)[i] = f[n + i]
  <2>1. i \in 1..(p - m + 1) /\ m + i - 1 = n + i
    BY <1>3
  <2> QED BY <1>4, <2>1
<1> QED BY <1>3, <1>4, <1>5, <1>6 DEF Between, Texts

LEMMA TextEqual ==
    ASSUME NEW s \in Texts, NEW t \in Texts, Len(s) = Len(t),
           \A i \in 1..Len(s) : s[i] = t[i]
    PROVE  s = t
  BY SeqEqual DEF Texts

LEMMA BetweenNone ==
    ASSUME NEW f \in Texts, NEW n \in Nat PROVE Between(f, n, n) = <<>>
<1>1. n + 1 \in Int /\ n < n + 1
  OBVIOUS
<1> QED BY <1>1, SubSeqEmpty DEF Between

LEMMA BetweenAdjacent ==
    ASSUME NEW f \in Texts, NEW k \in Nat, NEW n \in Nat, NEW p \in Nat,
           k <= n, n <= p, p <= Len(f)
    PROVE  Between(f, k, p) = Between(f, k, n) \o Between(f, n, p)
<1>1. Len(f) \in Nat
  BY LenProperties DEF Texts
<1>2. k + 1 \in 1..(Len(f) + 1) /\ n \in ((k + 1) - 1)..Len(f) /\ p \in n..Len(f)
  BY <1>1
<1>3. SubSeq(f, k + 1, n) \o SubSeq(f, n + 1, p) = SubSeq(f, k + 1, p)
  BY <1>2, ConcatAdjacentSubSeq DEF Texts
<1> QED BY <1>3 DEF Between

(* Two parts of a stretch of the file are themselves stretches of it.      *)
LEMMA BetweenParts ==
    ASSUME NEW f \in Texts, NEW b \in Nat, NEW e \in Nat, b <= e, e <= Len(f),
           NEW u \in Texts, NEW r \in Texts, Parts(Between(f, b, e), u, r)
    PROVE  /\ Len(u) \in Nat /\ Len(r) \in Nat /\ b + Len(u) = e - Len(r)
           /\ b + Len(u) \in Nat /\ b + Len(u) <= e
           /\ u = Between(f, b, b + Len(u)) /\ r = Between(f, b + Len(u), e)
<1>1. PICK m \in Nat, n \in Nat : m = Len(u) /\ n = Len(r)
  BY LenProperties DEF Texts
<1>2. /\ Len(u \o r) = m + n
      /\ \A i \in 1..m : (u \o r)[i] = u[i]
      /\ \A i \in 1..n : (u \o r)[m + i] = r[i]
  BY <1>1, ConcatElements DEF Texts
<1>3. /\ Len(u \o r) = e - b
      /\ \A i \in 1..(e - b) : (u \o r)[i] = f[b + i]
  <2>1. /\ Len(Between(f, b, e)) = e - b
        /\ \A i \in 1..(e - b) : Between(f, b, e)[i] = f[b + i]
    BY BetweenProperties
  <2>2. Between(f, b, e) = u \o r
    BY DEF Parts
  <2> QED BY <2>1, <2>2
<1>4. e - b = m + n
  BY <1>2, <1>3
<1>5. PICK c \in Nat : c = b + m
  OBVIOUS
<1>6. c <= e /\ b <= c /\ c <= Len(f) /\ c - b = m /\ e - c = n
  <2>1. Len(f) \in Nat
    BY LenProperties DEF Texts
  <2> QED BY <1>4, <1>5, <2>1
<1>7. u = Between(f, b, c)
  <2>1. /\ Between(f, b, c) \in Texts /\ Len(Between(f, b, c)) = c - b
        /\ \A i \in 1..(c - b) : Between(f, b, c)[i] = f[b + i]
    BY <1>6, BetweenProperties
  <2>2. ASSUME NEW i \in 1..m PROVE u[i] = Between(f, b, c)[i]
    <3>1. i \in 1..(e - b) /\ i \in 1..(c - b)
      BY <1>4, <1>6
    <3> QED BY <1>2, <1>3, <2>1, <3>1
  <2> QED BY <1>1, <1>6, <2>1, <2>2, TextEqual
<1>8. r = Between(f, c, e)
  <2>1. /\ Between(f, c, e) \in Texts /\ Len(Between(f, c, e)) = e - c
        /\ \A i \in 1..(e - c) : Between(f, c, e)[i] = f[c + i]
    BY <1>6, BetweenProperties
  <2>2. ASSUME NEW i \in 1..n PROVE r[i] = Between(f, c, e)[i]
    <3>1. m + i \in 1..(e - b) /\ i \in 1..(e - c) /\ b + (m + i) = c + i
      BY <1>4, <1>5, <1>6
    <3>2. (u \o r)[m + i] = f[b + (m + i)]
      BY <1>3, <3>1
    <3> QED BY <1>2, <2>1, <3>1, <3>2
  <2> QED BY <1>1, <1>6, <2>1, <2>2, TextEqual
<1>9. b + m = e - n
  BY <1>4
<1> QED BY <1>1, <1>5, <1>6, <1>7, <1>8, <1>9

(* The lines up to an offset, from an earlier one on.                      *)
LEMMA LinesUpTo ==
    ASSUME NEW f \in Texts, NEW n \in Nat, NEW p \in Nat, n <= p, p <= Len(f),
           StartOf(f, n)
    PROVE  /\ LinesOf(f, n) \in Lines
           /\ LinesOf(f, p) = LinesOf(f, n) \o NotBlank(Split(Between(f, n, p)))
<1>1. PICK u \in Texts : u = Between(f, 0, n) /\ Len(u) = n - 0 /\ \A i \in 1..(n - 0) : u[i] = f[0 + i]
  <2>1. 0 <= n /\ n <= Len(f)
    BY LenProperties DEF Texts
  <2> QED BY <2>1, BetweenProperties
<1>2. AtStart(u)
  <2>1. CASE n = 0
    BY <1>1, <2>1, EmptySeq DEF AtStart, Texts
  <2>2. CASE n # 0
    <3>1. Len(u) = n /\ n \in 1..(n - 0) /\ 0 + n = n
      BY <1>1, <2>2
    <3> QED BY <1>1, <2>2, <3>1 DEF AtStart, StartOf
  <2> QED BY <2>1, <2>2
<1>3. PICK b \in Texts : b = Between(f, n, p)
  BY BetweenProperties
<1>4. Between(f, 0, p) = u \o b
  <2>1. 0 \in Nat /\ 0 <= n
    OBVIOUS
  <2>2. Between(f, 0, p) = Between(f, 0, n) \o Between(f, n, p)
    BY <2>1, BetweenAdjacent
  <2> QED BY <1>1, <1>3, <2>2
<1>5. u = SubSeq(f, 1, n) /\ u \o b = SubSeq(f, 1, p)
  BY <1>1, <1>4 DEF Between
<1>6. /\ NotBlank(Split(u)) \in Lines
      /\ NotBlank(Split(u \o b)) = NotBlank(Split(u)) \o NotBlank(Split(b))
  BY <1>2, LinesConcat
<1> QED BY <1>3, <1>5, <1>6 DEF LinesOf

(* What is appended to a file changes nothing before its old end.          *)
LEMMA BetweenOfLonger ==
    ASSUME NEW f \in Texts, NEW x \in Texts, NEW n \in Nat, NEW p \in Nat,
           n <= p, p <= Len(f)
    PROVE  /\ Between(f \o x, n, p) = Between(f, n, p)
           /\ LinesOf(f \o x, p) = LinesOf(f, p)
           /\ StartOf(f \o x, p) <=> StartOf(f, p)
<1>1. /\ Len(f) \in Nat /\ Len(x) \in Nat /\ f \o x \in Texts
      /\ Len(f \o x) = Len(f) + Len(x)
      /\ \A i \in 1..Len(f) : (f \o x)[i] = f[i]
  BY ConcatElements DEF Texts
<1>2. ASSUME NEW k \in Nat, k <= p PROVE Between(f \o x, k, p) = Between(f, k, p)
  <2>1. p <= Len(f \o x)
    BY <1>1
  <2>2. /\ Between(f, k, p) \in Texts /\ Len(Between(f, k, p)) = p - k
        /\ \A i \in 1..(p - k) : Between(f, k, p)[i] = f[k + i]
    BY <1>2, BetweenProperties
  <2>3. /\ Between(f \o x, k, p) \in Texts /\ Len(Between(f \o x, k, p)) = p - k
        /\ \A i \in 1..(p - k) : Between(f \o x, k, p)[i] = (f \o x)[k + i]
    BY <1>1, <1>2, <2>1, BetweenProperties
  <2>4. ASSUME NEW i \in 1..(p - k) PROVE (f \o x)[k + i] = f[k + i]
    <3>1. k + i \in 1..Len(f)
      BY <1>1, <1>2
    <3> QED BY <1>1, <3>1
  <2> QED BY <2>2, <2>3, <2>4, TextEqual
<1>3. SubSeq(f \o x, 1, p) = SubSeq(f, 1, p)
  <2>1. Between(f \o x, 0, p) = Between(f, 0, p)
    BY <1>2
  <2> QED BY <2>1 DEF Between
<1>4. p # 0 => (f \o x)[p] = f[p]
  BY <1>1
<1> QED BY <1>2, <1>3, <1>4 DEF LinesOf, StartOf

(* Whole lines after whole lines, and the beginning of one.                *)
LEMMA PartsOfBuffer ==
    ASSUME NEW f \in Texts, \A i \in 1..Len(f) : f[i] # Nul,
           NEW b \in Nat, NEW e \in Nat, b <= e, e <= Len(f), StartOf(f, b),
           NEW u \in Texts, NEW r \in Texts, Parts(Between(f, b, e), u, r)
    PROVE  /\ Len(r) \in Nat /\ e - Len(r) \in Nat
           /\ \A i \in 1..Len(r) : r[i] \notin {Newline, Nul}
           /\ StartOf(f, e - Len(r)) /\ r = Between(f, e - Len(r), e)
           /\ LinesOf(f, b) \in Lines
           /\ LinesOf(f, e - Len(r)) = LinesOf(f, b) \o NotBlank(Split(u))
<1>1. PICK c \in Nat : c = b + Len(u)
  BY LenProperties DEF Texts
<1>2. /\ Len(u) \in Nat /\ Len(r) \in Nat /\ c = e - Len(r) /\ c <= e
      /\ u = Between(f, b, c) /\ r = Between(f, c, e)
  <2>1. /\ Len(u) \in Nat /\ Len(r) \in Nat /\ b + Len(u) = e - Len(r)
        /\ b + Len(u) <= e
        /\ u = Between(f, b, b + Len(u)) /\ r = Between(f, b + Len(u), e)
    BY BetweenParts
  <2> QED BY <1>1, <2>1
<1>3. b <= c /\ c <= e /\ c <= Len(f) /\ Len(f) \in Nat
  <2>1. Len(f) \in Nat
    BY LenProperties DEF Texts
  <2> QED BY <1>1, <1>2, <2>1
<1>4. StartOf(f, c)
  <2>1. CASE u = <<>>
    <3>1. Len(u) = 0
      BY <2>1
    <3> QED BY <1>1, <3>1
  <2>2. CASE u # <<>>
    <3>1. Len(u) # 0
      BY <2>2, EmptySeq DEF Texts
    <3>2. Len(u) \in 1..(c - b)
      BY <1>1, <1>2, <3>1
    <3>3. u[Len(u)] = f[b + Len(u)]
      <4>1. \A i \in 1..(c - b) : Between(f, b, c)[i] = f[b + i]
        BY <1>3, BetweenProperties
      <4> QED BY <1>2, <3>2, <4>1
    <3> QED BY <1>1, <2>2, <3>3 DEF Parts, AtStart, StartOf
  <2> QED BY <2>1, <2>2
<1>5. ASSUME NEW i \in 1..Len(r) PROVE r[i] \notin {Newline, Nul}
  <2>1. i \in 1..(e - c) /\ c + i \in 1..Len(f)
    BY <1>2, <1>3
  <2>2. \A j \in 1..(e - c) : Between(f, c, e)[j] = f[c + j]
    BY <1>3, BetweenProperties
  <2>3. r[i] # Nul
    BY <1>2, <2>1, <2>2
  <2>4. r[i] # Newline
    BY DEF Parts, WithoutNewline
  <2> QED BY <2>3, <2>4
<1>6. LinesOf(f, b) \in Lines /\ LinesOf(f, c) = LinesOf(f, b) \o NotBlank(Split(u))
  <2>1. /\ LinesOf(f, b) \in Lines
        /\ LinesOf(f, c) = LinesOf(f, b) \o NotBlank(Split(Between(f, b, c)))
    BY <1>3, LinesUpTo
  <2> QED BY <1>2, <2>1
<1> QED BY <1>2, <1>4, <1>5, <1>6

(* A full buffer, up to e, after whole lines up to b: the remnant is what  *)
(* is left before e, and the lines are those up to it.                     *)
LEMMA BufferRead ==
    ASSUME NEW f \in Texts, \A i \in 1..Len(f) : f[i] # Nul,
           NEW b \in Nat, NEW e \in Nat, b <= e, e <= Len(f), StartOf(f, b)
    PROVE  \E r \in Texts, ls \in Lines :
             /\ r = SplitToLines(Between(f, b, e), FALSE).remnant
             /\ ls = SplitToLines(Between(f, b, e), FALSE).lines
             /\ Len(r) \in Nat /\ e - Len(r) \in Nat
             /\ \A i \in 1..Len(r) : r[i] \notin {Newline, Nul}
             /\ StartOf(f, e - Len(r)) /\ r = Between(f, e - Len(r), e)
             /\ LinesOf(f, b) \in Lines
             /\ LinesOf(f, e - Len(r)) = LinesOf(f, b) \o NotBlank(ls)
<1>1. Between(f, b, e) \in Texts
  BY BetweenProperties
<1>2. PICK u \in Texts, r \in Texts : Parts(Between(f, b, e), u, r)
  BY <1>1, TextParts
<1>3. /\ Len(r) \in Nat /\ e - Len(r) \in Nat
      /\ \A i \in 1..Len(r) : r[i] \notin {Newline, Nul}
      /\ StartOf(f, e - Len(r)) /\ r = Between(f, e - Len(r), e)
      /\ LinesOf(f, b) \in Lines
      /\ LinesOf(f, e - Len(r)) = LinesOf(f, b) \o NotBlank(Split(u))
  BY <1>2, PartsOfBuffer
<1>4. PICK ls : ls = SplitToLines(Between(f, b, e), FALSE).lines
  OBVIOUS
<1>5. /\ r = SplitToLines(Between(f, b, e), FALSE).remnant
      /\ ls \in Lines /\ NotBlank(ls) = NotBlank(Split(u))
  BY <1>2, <1>4, LinesOfBuffer DEF Parts
<1> QED BY <1>3, <1>4, <1>5

LEMMA LinesToEnd ==
    ASSUME NEW f \in Texts, StartOf(f, Len(f)),
           NEW b \in Nat, b <= Len(f), StartOf(f, b)
    PROVE  \E u \in Texts :
             /\ u = Between(f, b, Len(f)) /\ AtStart(u) /\ LinesOf(f, b) \in Lines
             /\ LinesOf(f, Len(f)) = LinesOf(f, b) \o NotBlank(Split(u))
<1>1. PICK n \in Nat : n = Len(f)
  BY LenProperties DEF Texts
<1>2. PICK u \in Texts :
        u = Between(f, b, n) /\ Len(u) = n - b /\ \A i \in 1..(n - b) : u[i] = f[b + i]
  <2>1. b <= n /\ n <= Len(f)
    BY <1>1
  <2>2. /\ Between(f, b, n) \in Texts /\ Len(Between(f, b, n)) = n - b
        /\ \A i \in 1..(n - b) : Between(f, b, n)[i] = f[b + i]
    BY <2>1, BetweenProperties
  <2> QED BY <2>2
<1>3. AtStart(u)
  <2>1. CASE n = b
    BY <1>2, <2>1, EmptySeq DEF AtStart, Texts
  <2>2. CASE n # b
    <3>1. n - b \in 1..(n - b) /\ b + (n - b) = n /\ n # 0
      BY <1>1, <2>2
    <3>2. f[n] = Newline
      BY <1>1, <3>1 DEF StartOf
    <3> QED BY <1>2, <3>1, <3>2 DEF AtStart
  <2> QED BY <2>1, <2>2
<1>4. n <= Len(f)
  BY <1>1
<1>5. LinesOf(f, b) \in Lines /\ LinesOf(f, n) = LinesOf(f, b) \o NotBlank(Split(u))
  BY <1>1, <1>2, <1>4, LinesUpTo
<1> QED BY <1>1, <1>2, <1>3, <1>5

(* The last buffer, after whole lines up to b: the lines are all the rest. *)
LEMMA EofRead ==
    ASSUME NEW f \in Texts, StartOf(f, Len(f)),
           NEW b \in Nat, b <= Len(f), StartOf(f, b),
           NEW nuls \in Texts, \A i \in 1..Len(nuls) : nuls[i] = Nul
    PROVE  \E ls \in Lines :
             /\ ls = SplitToLines(Between(f, b, Len(f)) \o nuls, TRUE).lines
             /\ LinesOf(f, b) \in Lines
             /\ LinesOf(f, Len(f)) = LinesOf(f, b) \o NotBlank(ls)
<1>1. PICK u \in Texts :
        /\ u = Between(f, b, Len(f)) /\ AtStart(u) /\ LinesOf(f, b) \in Lines
        /\ LinesOf(f, Len(f)) = LinesOf(f, b) \o NotBlank(Split(u))
  BY LinesToEnd
<1>2. PICK ls : ls = SplitToLines(u \o nuls, TRUE).lines
  OBVIOUS
<1>3. ls \in Lines /\ NotBlank(ls) = NotBlank(Split(u))
  BY <1>1, <1>2, LinesAtEof
<1> QED BY <1>1, <1>2, <1>3

LEMMA LinesOfNothing ==
    ASSUME NEW f PROVE LinesOf(f, 0) = <<>>
<1>1. SubSeq(f, 1, 0) = <<>>
  BY SubSeqEmpty
<1>2. Split(<<>>) = << <<>> >> \o <<>>
  BY SplitEmpty
<1>3. NotBlank(<< <<>> >> \o <<>>) = Keep(<<>>, NotBlank(<<>>))
  <2>1. <<>> \in Texts /\ <<>> \in Seq(Texts)
    BY DEF Texts
  <2> QED BY <2>1, NotBlankCons
<1> QED BY <1>1, <1>2, <1>3, BlankEmpty, NotBlankEmpty DEF LinesOf, Keep

-----------------------------------------------------------------------------
(* The inductive invariant *)

FileOK ==
    /\ file \in Texts /\ StartOf(file, Len(file))
    /\ \A i \in 1..Len(file) : file[i] # Nul

ClientOK ==
    ~stale => offset <= Len(file) /\ StartOf(file, offset) /\ delivered = LinesOf(file, offset)

ReadOK ==
    \E b \in Nat :
        /\ b = currOffset - Len(remnantBuf) /\ b <= currOffset /\ currOffset <= Len(file)
        /\ StartOf(file, b) /\ remnantBuf = Between(file, b, currOffset)
        /\ LinesOf(file, b) = IF restart THEN <<>> ELSE delivered

CallOK ==
    /\ pc = "open" /\ fileLen < offset => stale
    /\ restart => stale
    /\ pc = "read" /\ ~staleRead => ReadOK

StartOK ==
    ~(staleRead /\ startingOffset > 0) =>
        /\ startingOffset <= Len(file) /\ StartOf(file, startingOffset)
        /\ startingLines = LinesOf(file, startingOffset)

LEMMA LogInvParts ==
    ASSUME TypeOK PROVE LogInv <=> FileOK /\ ClientOK /\ CallOK /\ StartOK
<1>1. /\ file \in Texts /\ DOMAIN file = 1..Len(file) /\ Len(remnantBuf) \in Nat
      /\ currOffset \in Nat
  BY LenProperties DEF TypeOK, Texts
<1>2. ReadExact <=> ReadOK
  <2>1. currOffset - Len(remnantBuf) >= 0
          <=> \E b \in Nat : b = currOffset - Len(remnantBuf) /\ b <= currOffset
    BY <1>1
  <2> QED BY <1>1, <2>1 DEF ReadExact, ReadOK, LineStart, LinesBefore, StartOf, LinesOf, Between
<1>3. LineStart(Len(file)) <=> StartOf(file, Len(file))
  BY DEF LineStart, StartOf
<1>4. LinesExact <=> ClientOK
  BY DEF LinesExact, UpTo, LineStart, LinesBefore, StartOf, LinesOf, ClientOK
<1>5. (staleRead /\ startingOffset > 0) \/ UpTo(startingOffset, startingLines) <=> StartOK
  BY DEF UpTo, LineStart, LinesBefore, StartOf, LinesOf, StartOK
<1> QED BY <1>1, <1>2, <1>3, <1>4, <1>5 DEF LogInv, FileOK, CallOK

LEMMA LogInvPartsNext ==
    ASSUME TypeOK' PROVE LogInv' <=> FileOK' /\ ClientOK' /\ CallOK' /\ StartOK'
<1>1. /\ file' \in Texts /\ DOMAIN file' = 1..Len(file') /\ Len(remnantBuf') \in Nat
      /\ currOffset' \in Nat
  BY LenProperties DEF TypeOK, Texts
<1>2. ReadExact' <=> ReadOK'
  <2>1. currOffset' - Len(remnantBuf') >= 0
          <=> \E b \in Nat : b = currOffset' - Len(remnantBuf') /\ b <= currOffset'
    BY <1>1
  <2> QED BY <1>1, <2>1 DEF ReadExact, ReadOK, LineStart, LinesBefore, StartOf, LinesOf, Between
<1>3. LineStart(Len(file))' <=> StartOf(file', Len(file'))
  BY DEF LineStart, StartOf
<1>4. LinesExact' <=> ClientOK'
  BY DEF LinesExact, UpTo, LineStart, LinesBefore, StartOf, LinesOf, ClientOK
<1>5. (staleRead' /\ startingOffset' > 0) \/ UpTo(startingOffset, startingLines)' <=> StartOK'
  BY DEF UpTo, LineStart, LinesBefore, StartOf, LinesOf, StartOK
<1> QED BY <1>1, <1>2, <1>3, <1>4, <1>5 DEF LogInv, FileOK, CallOK

LEMMA InitParts == Init => TypeOK /\ FileOK /\ ClientOK /\ CallOK /\ StartOK
<1> SUFFICES ASSUME Init PROVE TypeOK /\ FileOK /\ ClientOK /\ CallOK /\ StartOK
  OBVIOUS
<1>1. TypeOK
  <2>1. <<>> \in Seq(Nat) /\ <<>> \in Seq(Seq(Nat)) /\ DOMAIN <<>> = {} /\ Len(<<>>) = 0
    OBVIOUS
  <2>2. (stale => offset > 0) /\ (staleRead => currOffset > 0)
    BY DEF Init
  <2>3. startingOffset + Len(remnantBuf) <= currOffset
    BY <2>1 DEF Init
  <2> QED BY <2>1, <2>2, <2>3 DEF Init, TypeOK
<1>2. FileOK
  BY DEF Init, FileOK, StartOf, Texts
<1>3. ClientOK /\ StartOK
  BY LinesOfNothing DEF Init, ClientOK, StartOK, StartOf
<1>4. CallOK
  BY DEF Init, CallOK
<1> QED BY <1>1, <1>2, <1>3, <1>4

(* A line is appended: what was read and sent is before it.                *)
LEMMA WriteLineParts ==
    ASSUME TypeOK, FileOK, ClientOK, CallOK, StartOK, NEW n \in Lengths, WriteLine(n)
    PROVE  TypeOK' /\ FileOK' /\ ClientOK' /\ CallOK' /\ StartOK'
<1>1. PICK x \in Texts, k \in Nat :
        /\ file' = file \o x /\ k = n + 1 /\ Len(x) = k /\ x[k] = Newline
        /\ \A i \in 1..k : x[i] # Nul
  <2>1. n \in Nat /\ lines \in Nat
    BY LogAssumption DEF TypeOK
  <2> DEFINE l == [i \in 1..n |-> lines + 2]
  <2>2. l \in Texts /\ Len(l) = n /\ \A i \in 1..n : l[i] = lines + 2
    BY <2>1 DEF Texts
  <2>3. file' = file \o l \o <<Newline>>
    BY DEF WriteLine
  <2> HIDE DEF l
  <2>4. PICK nl \in Texts : nl = <<Newline>> /\ Len(nl) = 1 /\ nl[1] = Newline
    <3>1. Newline \in Nat
      BY DEF Newline
    <3>2. <<Newline>> \in Texts /\ Len(<<Newline>>) = 1 /\ <<Newline>>[1] = Newline
      BY <3>1 DEF Texts
    <3> QED BY <3>2
  <2>5. /\ l \o nl \in Texts /\ Len(l \o nl) = n + 1
        /\ \A i \in 1..n : (l \o nl)[i] = lines + 2
        /\ (l \o nl)[n + 1] = Newline
    <3>1. /\ l \o nl \in Texts /\ Len(l \o nl) = Len(l) + Len(nl)
          /\ \A i \in 1..Len(l) : (l \o nl)[i] = l[i]
          /\ \A i \in 1..Len(nl) : (l \o nl)[Len(l) + i] = nl[i]
      BY <2>2, TextsConcat
    <3> QED BY <2>1, <2>2, <2>4, <3>1
  <2>6. file' = file \o (l \o nl)
    BY <2>2, <2>3, <2>4, TextsAssociative DEF FileOK
  <2>7. ASSUME NEW i \in 1..(n + 1) PROVE (l \o nl)[i] # Nul
    <3>1. i \in 1..n \/ i = n + 1
      BY <2>1
    <3> QED BY <2>1, <2>5, <3>1 DEF Nul, Newline
  <2>8. PICK x \in Texts : x = l \o nl
    BY <2>5
  <2>9. PICK k \in Nat : k = n + 1
    BY <2>1
  <2>10. /\ file' = file \o x /\ k = n + 1 /\ Len(x) = k /\ x[k] = Newline
         /\ \A i \in 1..k : x[i] # Nul
    BY <2>5, <2>6, <2>7, <2>8, <2>9
  <2> QED BY <2>10
<1>2. PICK m \in Nat : m = Len(file)
  BY LenProperties DEF TypeOK
<1>3. /\ file' \in Texts /\ Len(file') = m + k
      /\ \A i \in 1..m : file'[i] = file[i]
      /\ \A i \in 1..k : file'[m + i] = x[i]
  <2>1. /\ file \o x \in Texts /\ Len(file \o x) = Len(file) + Len(x)
        /\ \A i \in 1..Len(file) : (file \o x)[i] = file[i]
        /\ \A i \in 1..Len(x) : (file \o x)[Len(file) + i] = x[i]
    BY ConcatElements DEF Texts, FileOK
  <2> QED BY <1>1, <1>2, <2>1
<1>4. n \in Nat /\ k \in 1..k /\ k >= 1
  BY <1>1, LogAssumption
<1>5. TypeOK'
  <2>1. lines' \in Nat
    BY DEF WriteLine, TypeOK
  <2> QED BY <1>3, <2>1 DEF WriteLine, TypeOK, client, local, start, Texts
<1>6. FileOK'
  <2>1. file'[m + k] = Newline
    BY <1>1, <1>3, <1>4
  <2>2. ASSUME NEW i \in 1..(m + k) PROVE file'[i] # Nul
    <3>1. CASE i \in 1..m
      BY <1>2, <1>3, <3>1 DEF FileOK
    <3>2. CASE i \notin 1..m
      <4>1. i - m \in 1..k /\ m + (i - m) = i
        BY <3>2
      <4> QED BY <1>1, <1>3, <4>1
    <3> QED BY <3>1, <3>2
  <2> QED BY <1>3, <2>1, <2>2 DEF FileOK, StartOf
<1>7. ASSUME NEW a \in Nat, NEW p \in Nat, a <= p, p <= m
      PROVE  /\ Between(file', a, p) = Between(file, a, p)
             /\ LinesOf(file', p) = LinesOf(file, p)
             /\ StartOf(file', p) <=> StartOf(file, p)
  <2>1. p <= Len(file) /\ file \in Texts
    BY <1>2, <1>7 DEF FileOK
  <2>2. /\ Between(file \o x, a, p) = Between(file, a, p)
        /\ LinesOf(file \o x, p) = LinesOf(file, p)
        /\ StartOf(file \o x, p) <=> StartOf(file, p)
    BY <1>7, <2>1, BetweenOfLonger
  <2> QED BY <1>1, <2>2
<1>8. UNCHANGED <<offset, delivered, stale, pc, fileLen, currOffset, remnantBuf, restart,
                  startingOffset, startingLines, staleRead>>
  BY DEF WriteLine, client, local, start
<1>9. ASSUME NEW p \in Nat, p <= Len(file), StartOf(file, p)
      PROVE  p <= Len(file') /\ StartOf(file', p) /\ LinesOf(file', p) = LinesOf(file, p)
  <2>1. p <= m /\ p <= m + k
    BY <1>2, <1>9
  <2> QED BY <1>3, <1>7, <1>9, <2>1
<1>10. ClientOK'
  <2>1. CASE stale
    BY <1>8, <2>1 DEF ClientOK
  <2>2. CASE ~stale
    <3>1. /\ offset \in Nat /\ offset <= Len(file) /\ StartOf(file, offset)
          /\ delivered = LinesOf(file, offset)
      BY <2>2 DEF ClientOK, TypeOK
    <3> QED BY <1>8, <1>9, <3>1 DEF ClientOK
  <2> QED BY <2>1, <2>2
<1>11. StartOK'
  <2>1. CASE staleRead /\ startingOffset > 0
    BY <1>8, <2>1 DEF StartOK
  <2>2. CASE ~(staleRead /\ startingOffset > 0)
    <3>1. /\ startingOffset \in Nat /\ startingOffset <= Len(file) /\ StartOf(file, startingOffset)
          /\ startingLines = LinesOf(file, startingOffset)
      BY <2>2 DEF StartOK, TypeOK
    <3> QED BY <1>8, <1>9, <3>1 DEF StartOK
  <2> QED BY <2>1, <2>2
<1>12. CallOK'
  <2>1. ASSUME pc = "read", ReadOK PROVE ReadOK'
    <3>1. PICK b \in Nat :
            /\ b = currOffset - Len(remnantBuf) /\ b <= currOffset /\ currOffset <= m
            /\ StartOf(file, b) /\ remnantBuf = Between(file, b, currOffset)
            /\ LinesOf(file, b) = IF restart THEN <<>> ELSE delivered
      BY <1>2, <2>1 DEF ReadOK
    <3>2. currOffset \in Nat /\ b <= m /\ currOffset <= m + k
      BY <3>1 DEF TypeOK
    <3>3. Between(file', b, currOffset) = Between(file, b, currOffset)
      BY <1>7, <3>1, <3>2
    <3>4. LinesOf(file', b) = LinesOf(file, b) /\ StartOf(file', b)
      BY <1>7, <3>1, <3>2
    <3> QED BY <1>3, <1>8, <3>1, <3>2, <3>3, <3>4 DEF ReadOK
  <2> QED BY <1>8, <2>1 DEF CallOK
<1> QED BY <1>5, <1>6, <1>10, <1>11, <1>12

(* Places of the old file are marked as such, but for its beginning.       *)
LEMMA TruncateLogParts ==
    ASSUME TypeOK, FileOK, ClientOK, CallOK, StartOK, TruncateLog
    PROVE  TypeOK' /\ FileOK' /\ ClientOK' /\ CallOK' /\ StartOK'
<1>1. file' = <<>> /\ file' \in Texts /\ Len(file') = 0
  BY DEF TruncateLog, Texts
<1>2. /\ UNCHANGED <<offset, delivered, pc, fileLen, currOffset, remnantBuf, linesReturned, restart,
                     startingOffset, startingLines, lines, faults>>
      /\ stale' = (offset > 0) /\ staleRead' = (currOffset > 0)
      /\ (stale' <=> offset > 0) /\ (staleRead' <=> currOffset > 0)
  BY DEF TruncateLog, start
<1>3. /\ offset \in Nat /\ currOffset \in Nat /\ startingOffset \in Nat /\ Len(remnantBuf) \in Nat
      /\ Len(file) \in Nat /\ startingOffset + Len(remnantBuf) <= currOffset
  BY LenProperties DEF TypeOK
<1>4. TypeOK'
  <2>1. truncations' \in Nat /\ stale' \in BOOLEAN /\ staleRead' \in BOOLEAN
    BY <1>2 DEF TruncateLog, TypeOK
  <2> QED BY <1>1, <1>2, <2>1 DEF TypeOK, Texts
<1>5. FileOK'
  BY <1>1 DEF FileOK, StartOf
<1>6. ClientOK'
  <2>1. CASE offset > 0
    BY <1>2, <2>1 DEF ClientOK
  <2>2. CASE offset = 0
    <3>1. ~stale
      BY <2>2 DEF TypeOK
    <3>2. delivered' = LinesOf(file', 0)
      BY <1>2, <2>2, <3>1, LinesOfNothing DEF ClientOK
    <3> QED BY <1>1, <1>2, <2>2, <3>2 DEF ClientOK, StartOf
  <2> QED BY <1>3, <2>1, <2>2
<1>7. StartOK'
  <2>1. CASE startingOffset > 0
    <3>1. currOffset > 0
      BY <1>3, <2>1
    <3> QED BY <1>2, <2>1, <3>1 DEF StartOK
  <2>2. CASE startingOffset = 0
    <3>1. startingLines' = LinesOf(file', 0)
      BY <1>2, <2>2, LinesOfNothing DEF StartOK
    <3> QED BY <1>1, <1>2, <2>2, <3>1 DEF StartOK, StartOf
  <2> QED BY <1>3, <2>1, <2>2
<1>8. CallOK'
  <2>1. currOffset = 0 \/ staleRead'
    BY <1>2, <1>3
  <2>2. stale => stale'
    BY <1>2 DEF TypeOK
  <2>3. ASSUME pc = "read", currOffset = 0 PROVE ReadOK'
    <3>1. ~staleRead /\ ReadOK
      BY <2>3 DEF TypeOK, CallOK
    <3>2. PICK b \in Nat :
            /\ b = currOffset - Len(remnantBuf) /\ b <= currOffset
            /\ remnantBuf = Between(file, b, currOffset)
            /\ LinesOf(file, b) = IF restart THEN <<>> ELSE delivered
      BY <3>1 DEF ReadOK
    <3>3. b = 0
      BY <1>3, <2>3, <3>2
    <3>4. remnantBuf = <<>>
      BY <2>3, <3>2, <3>3, BetweenNone DEF FileOK
    <3>5. Between(file', 0, 0) = <<>>
      BY <1>1, BetweenNone
    <3>6. LinesOf(file', 0) = LinesOf(file, 0)
      BY LinesOfNothing
    <3>7. /\ 0 = currOffset' - Len(remnantBuf') /\ 0 <= currOffset' /\ currOffset' <= Len(file')
          /\ remnantBuf' = Between(file', 0, currOffset')
          /\ LinesOf(file', 0) = IF restart' THEN <<>> ELSE delivered'
      <4>1. currOffset' = 0 /\ Len(remnantBuf') = 0
        BY <1>2, <2>3, <3>4
      <4> QED BY <1>1, <1>2, <3>2, <3>3, <3>4, <3>5, <3>6, <4>1
    <3> QED BY <3>7 DEF ReadOK, StartOf
  <2>4. pc' = "read" /\ ~staleRead' => ReadOK'
    BY <1>2, <2>1, <2>3
  <2>5. (pc' = "open" /\ fileLen' < offset' => stale') /\ (restart' => stale')
    BY <1>2, <2>2 DEF CallOK
  <2> QED BY <2>4, <2>5 DEF CallOK
<1> QED BY <1>4, <1>5, <1>6, <1>7, <1>8

LEMMA LogStreamParts ==
    ASSUME TypeOK, FileOK, ClientOK, CallOK, StartOK, LogStream
    PROVE  TypeOK' /\ FileOK' /\ ClientOK' /\ CallOK' /\ StartOK'
<1>1. /\ UNCHANGED <<file, offset, delivered, stale, currOffset, remnantBuf, linesReturned, restart,
                     startingOffset, startingLines, staleRead, counts>>
      /\ fileLen' = Len(file) /\ pc = "idle" /\ pc' = "open"
  BY DEF LogStream, client, start
<1>2. Len(file) \in Nat /\ offset \in Nat
  BY LenProperties DEF TypeOK
<1>3. TypeOK'
  BY <1>1, <1>2 DEF TypeOK, counts
<1>4. FileOK' /\ ClientOK' /\ StartOK'
  BY <1>1 DEF FileOK, ClientOK, StartOK
<1>5. CallOK'
  <2>1. Len(file) < offset => stale
    BY <1>2 DEF ClientOK
  <2> QED BY <1>1, <2>1 DEF CallOK
<1> QED BY <1>3, <1>4, <1>5

(* A call begins where the client is, or anew.                             *)
LEMMA OpenParts ==
    ASSUME TypeOK, FileOK, ClientOK, CallOK, StartOK, Open
    PROVE  TypeOK' /\ FileOK' /\ ClientOK' /\ CallOK' /\ StartOK'
<1>1. /\ UNCHANGED <<file, offset, delivered, stale, fileLen, remnantBuf, linesReturned, counts>>
      /\ pc = "open" /\ pc' = "read"
      /\ remnantBuf = <<>> /\ restart' = (fileLen < offset)
      /\ startingOffset' = IF fileLen < offset THEN 0 ELSE offset
      /\ startingLines' = IF fileLen < offset THEN <<>> ELSE delivered
      /\ currOffset' = startingOffset'
      /\ staleRead' = (fileLen >= offset /\ stale)
  BY DEF Open, TypeOK, client
<1>2. offset \in Nat /\ fileLen \in Nat /\ Len(file) \in Nat /\ (stale => offset > 0)
  BY LenProperties DEF TypeOK
<1>3. \/ fileLen < offset /\ stale /\ restart' /\ startingOffset' = 0 /\ startingLines' = <<>> /\ ~staleRead'
      \/ /\ fileLen >= offset /\ ~restart' /\ startingOffset' = offset /\ startingLines' = delivered
         /\ staleRead' = stale
  <2>1. fileLen < offset \/ fileLen >= offset
    BY <1>2
  <2>2. CASE fileLen < offset
    <3>1. ~(fileLen >= offset)
      BY <1>2, <2>2
    <3>2. stale /\ restart' /\ ~staleRead'
      BY <1>1, <2>2, <3>1 DEF CallOK
    <3> QED BY <1>1, <2>2, <3>2
  <2>3. CASE fileLen >= offset
    <3>1. ~(fileLen < offset)
      BY <1>2, <2>3
    <3> QED BY <1>1, <2>3, <3>1 DEF TypeOK
  <2> QED BY <2>1, <2>2, <2>3
<1>4. TypeOK'
  <2>1. currOffset' \in Nat /\ startingOffset' \in Nat /\ restart' \in BOOLEAN /\ staleRead' \in BOOLEAN
    BY <1>1, <1>2, <1>3
  <2>2. startingLines' \in Seq(Seq(Nat))
    <3>1. <<>> \in Seq(Seq(Nat)) /\ delivered \in Seq(Seq(Nat))
      BY DEF TypeOK
    <3> QED BY <1>1, <3>1
  <2>3. startingOffset' + Len(remnantBuf') <= currOffset'
    <3>1. Len(remnantBuf') = 0
      BY <1>1
    <3> QED BY <1>1, <2>1, <3>1
  <2>4. staleRead' => currOffset' > 0
    BY <1>1, <1>2, <1>3
  <2> QED BY <1>1, <2>1, <2>2, <2>3, <2>4 DEF TypeOK, counts
<1>5. FileOK' /\ ClientOK'
  BY <1>1 DEF FileOK, ClientOK
<1>6. ASSUME ~staleRead'
      PROVE  /\ startingOffset' <= Len(file) /\ StartOf(file, startingOffset')
             /\ startingLines' = LinesOf(file, startingOffset')
             /\ startingLines' = IF restart' THEN <<>> ELSE delivered
  BY <1>2, <1>3, <1>6, LinesOfNothing DEF ClientOK, StartOf
<1>7. StartOK'
  <2>1. CASE staleRead'
    BY <1>2, <1>3, <2>1 DEF StartOK
  <2>2. CASE ~staleRead'
    BY <1>1, <1>6, <2>2 DEF StartOK
  <2> QED BY <2>1, <2>2
<1>8. ASSUME ~staleRead' PROVE ReadOK'
  <2>1. PICK b \in Nat : b = currOffset'
    BY <1>4 DEF TypeOK
  <2>2. remnantBuf' = Between(file', b, b)
    BY <1>1, BetweenNone DEF FileOK
  <2>3. b = currOffset' - Len(remnantBuf')
    <3>1. Len(remnantBuf') = 0
      BY <1>1
    <3>2. b - 0 = b
      OBVIOUS
    <3> QED BY <2>1, <3>1, <3>2
  <2>4. LinesOf(file', b) = IF restart' THEN <<>> ELSE delivered'
    BY <1>1, <1>6, <1>8, <2>1
  <2>5. b <= Len(file') /\ StartOf(file', b)
    BY <1>1, <1>6, <1>8, <2>1
  <2> QED BY <2>1, <2>2, <2>3, <2>4, <2>5 DEF ReadOK
<1>9. CallOK'
  BY <1>1, <1>3, <1>8 DEF CallOK
<1> QED BY <1>4, <1>5, <1>7, <1>9

LEMMA DoneParts ==
    ASSUME TypeOK, FileOK', Done
    PROVE  /\ pc' = "idle" /\ CallOK' /\ StartOK'
           /\ remnantBuf' \in Seq(Nat) /\ currOffset' \in Nat /\ fileLen' \in Nat
           /\ linesReturned' \in Nat /\ restart' \in BOOLEAN /\ ~restart' /\ remnantBuf' = <<>>
           /\ startingOffset' \in Nat /\ startingLines' \in Seq(Seq(Nat))
           /\ staleRead' \in BOOLEAN /\ ~staleRead'
           /\ startingOffset' + Len(remnantBuf') <= currOffset'
           /\ \A i \in DOMAIN remnantBuf' : remnantBuf'[i] \notin {Newline, Nul}
<1>1. <<>> \in Seq(Nat) /\ <<>> \in Seq(Seq(Nat)) /\ DOMAIN <<>> = {} /\ Len(<<>>) = 0
  OBVIOUS
<1>2. StartOK'
  <2>1. Len(file') \in Nat
    BY LenProperties DEF FileOK, Texts
  <2> QED BY <2>1, LinesOfNothing DEF Done, StartOK, StartOf
<1>3. CallOK'
  BY DEF Done, CallOK
<1>4. pc' = "idle" /\ remnantBuf' = <<>> /\ startingLines' = <<>> /\ restart' = FALSE /\ staleRead' = FALSE
  BY DEF Done
<1>5. /\ currOffset' \in Nat /\ fileLen' \in Nat /\ linesReturned' \in Nat /\ startingOffset' \in Nat
      /\ startingOffset' + Len(remnantBuf') <= currOffset'
  BY <1>1 DEF Done
<1> QED BY <1>1, <1>2, <1>3, <1>4, <1>5

LEMMA FailParts ==
    ASSUME TypeOK, FileOK, ClientOK, CallOK, StartOK, Fail
    PROVE  TypeOK' /\ FileOK' /\ ClientOK' /\ CallOK' /\ StartOK'
<1>1. Done /\ UNCHANGED <<file, lines, truncations>> /\ faults' = faults + 1
  BY DEF Fail
<1>2. FileOK'
  BY <1>1 DEF FileOK
<1>3. \/ UNCHANGED <<offset, delivered, stale>>
      \/ /\ offset' = startingOffset /\ delivered' = startingLines
         /\ stale' = (staleRead /\ startingOffset > 0)
  BY DEF Fail, client
<1>4. /\ offset' \in Nat /\ delivered' \in Seq(Seq(Nat)) /\ stale' \in BOOLEAN
      /\ stale' => offset' > 0
  <2>1. CASE UNCHANGED <<offset, delivered, stale>>
    BY <2>1 DEF TypeOK
  <2>2. CASE /\ offset' = startingOffset /\ delivered' = startingLines
             /\ stale' = (staleRead /\ startingOffset > 0)
    <3>1. stale' <=> staleRead /\ startingOffset > 0
      BY <2>2
    <3>2. stale' \in BOOLEAN
      BY <2>2
    <3> QED BY <2>2, <3>1, <3>2 DEF TypeOK
  <2> QED BY <1>3, <2>1, <2>2
<1>5. TypeOK'
  BY <1>1, <1>2, <1>4, DoneParts DEF TypeOK
<1>6. ClientOK'
  BY <1>1, <1>3 DEF ClientOK, StartOK
<1> QED BY <1>1, <1>2, <1>5, <1>6, DoneParts

LEMMA MinOfTwo ==
    ASSUME NEW a \in Nat, NEW b \in Nat
    PROVE  Min({a, b}) = IF a <= b THEN a ELSE b
  BY DEF Min

(* The bytes read follow the remnant in the file, up to e.                 *)
LEMMA BytesRead ==
    ASSUME TypeOK, FileOK, NEW b \in Nat, b <= currOffset, currOffset <= Len(file),
           remnantBuf = Between(file, b, currOffset)
    PROVE  \E e \in Nat :
             /\ b <= e /\ e <= Len(file) /\ Bytes \in Texts
             /\ Len(Bytes) \in Nat /\ e = currOffset + Len(Bytes)
             /\ remnantBuf \o Bytes = Between(file, b, e)
             /\ Eof => e = Len(file) /\ Len(Bytes) < MaxLineLengthBytes
<1>1. currOffset \in Nat /\ file \in Texts /\ MaxLineLengthBytes \in Nat
  BY LogAssumption DEF TypeOK, FileOK
<1>2. PICK n \in Nat : n = Len(file)
  BY LenProperties DEF TypeOK
<1>3. PICK e \in Nat : e = Min({Len(file), currOffset + MaxLineLengthBytes})
  <2>1. currOffset + MaxLineLengthBytes \in Nat
    BY <1>1
  <2>2. Min({n, currOffset + MaxLineLengthBytes}) \in {n, currOffset + MaxLineLengthBytes}
    BY <2>1, MinOfTwo
  <2> QED BY <1>2, <2>1, <2>2
<1>4. e = IF n <= currOffset + MaxLineLengthBytes THEN n ELSE currOffset + MaxLineLengthBytes
  <2>1. currOffset + MaxLineLengthBytes \in Nat
    BY <1>1
  <2> QED BY <1>2, <1>3, <2>1, MinOfTwo
<1>5. currOffset <= e /\ e <= Len(file) /\ b <= e
  BY <1>1, <1>2, <1>4
<1>6. Bytes = Between(file, currOffset, e)
  BY <1>3 DEF Bytes, Between
<1>7. Bytes \in Texts /\ Len(Bytes) = e - currOffset
  BY <1>1, <1>5, <1>6, BetweenProperties
<1>8. remnantBuf \o Bytes = Between(file, b, e)
  BY <1>1, <1>5, <1>6, BetweenAdjacent
<1>9. Len(Bytes) \in Nat /\ e = currOffset + Len(Bytes)
  BY <1>1, <1>5, <1>7
<1>10. Eof => e = Len(file) /\ Len(Bytes) < MaxLineLengthBytes
  <2>1. ASSUME Eof PROVE Len(Bytes) < MaxLineLengthBytes
    BY <2>1 DEF Eof
  <2>2. ASSUME Len(Bytes) < MaxLineLengthBytes PROVE e = n
    BY <1>1, <1>4, <1>9, <2>2
  <2> QED BY <1>2, <2>1, <2>2
<1> QED BY <1>5, <1>7, <1>8, <1>9, <1>10

(* Whatever the file is now, what is read of it is a text without NULs.    *)
LEMMA BytesText ==
    ASSUME TypeOK, FileOK
    PROVE  /\ Bytes \in Texts /\ Len(Bytes) \in Nat
           /\ \A i \in 1..Len(Bytes) : Bytes[i] # Nul
<1>1. currOffset \in Nat /\ file \in Texts /\ MaxLineLengthBytes \in Nat
  BY LogAssumption DEF TypeOK, FileOK
<1>2. PICK n \in Nat : n = Len(file)
  BY LenProperties DEF TypeOK
<1>3. PICK e \in Nat : e = Min({Len(file), currOffset + MaxLineLengthBytes}) /\ e <= n
  <2>1. currOffset + MaxLineLengthBytes \in Nat
    BY <1>1
  <2>2. Min({n, currOffset + MaxLineLengthBytes})
          = IF n <= currOffset + MaxLineLengthBytes THEN n ELSE currOffset + MaxLineLengthBytes
    BY <2>1, MinOfTwo
  <2>3. Min({n, currOffset + MaxLineLengthBytes}) \in Nat /\ Min({n, currOffset + MaxLineLengthBytes}) <= n
    BY <2>1, <2>2
  <2> QED BY <1>2, <2>3
<1>4. Bytes = Between(file, currOffset, e)
  BY <1>3 DEF Bytes, Between
<1>5. CASE currOffset <= e
  <2>1. e <= Len(file)
    BY <1>2, <1>3
  <2>2. /\ Bytes \in Texts /\ Len(Bytes) = e - currOffset
        /\ \A i \in 1..(e - currOffset) : Bytes[i] = file[currOffset + i]
    BY <1>1, <1>4, <1>5, <2>1, BetweenProperties
  <2>3. e - currOffset \in Nat
    BY <1>1, <1>5
  <2>4. ASSUME NEW i \in 1..(e - currOffset) PROVE Bytes[i] # Nul
    <3>1. currOffset + i \in 1..Len(file)
      BY <1>1, <1>2, <1>3
    <3> QED BY <2>2, <3>1 DEF FileOK
  <2> QED BY <2>2, <2>3, <2>4
<1>6. CASE ~(currOffset <= e)
  <2>1. e < currOffset + 1 /\ currOffset + 1 \in Int /\ e \in Int
    BY <1>1, <1>6
  <2>2. Bytes = <<>>
    BY <1>4, <2>1, SubSeqEmpty DEF Between
  <2> QED BY <2>2 DEF Texts
<1> QED BY <1>5, <1>6

(* What splitToLines makes of any text: if there are lines, the remnant is *)
(* shorter than the text.                                                  *)
LEMMA SplitText ==
    ASSUME NEW t \in Texts, \A i \in 1..Len(t) : t[i] # Nul
    PROVE  \E r \in Texts, ls \in Lines :
             /\ r = SplitToLines(t, FALSE).remnant /\ ls = SplitToLines(t, FALSE).lines
             /\ Len(r) \in Nat /\ Len(t) \in Nat /\ Len(r) <= Len(t)
             /\ ls # <<>> => Len(r) < Len(t)
             /\ \A i \in 1..Len(r) : r[i] \notin {Newline, Nul}
<1>1. PICK u \in Texts, r \in Texts : Parts(t, u, r)
  BY TextParts
<1>2. /\ t = u \o r /\ AtStart(u) /\ WithoutNewline(r)
  BY <1>1 DEF Parts
<1>3. PICK ls : ls = SplitToLines(t, FALSE).lines
  OBVIOUS
<1>4. r = SplitToLines(t, FALSE).remnant /\ ls \in Lines
  BY <1>2, <1>3, LinesOfBuffer
<1>5. PICK m \in Nat, n \in Nat : m = Len(u) /\ n = Len(r)
  BY LenProperties DEF Texts
<1>6. /\ Len(t) = m + n /\ \A i \in 1..n : t[m + i] = r[i]
  BY <1>2, <1>5, TextsConcat
<1>7. ASSUME NEW i \in 1..n PROVE r[i] \notin {Newline, Nul}
  <2>1. r[i] # Newline
    BY <1>2, <1>5 DEF WithoutNewline
  <2>2. m + i \in 1..Len(t)
    BY <1>6
  <2> QED BY <1>6, <2>1, <2>2
<1>8. ls # <<>> => m # 0
  <2> SUFFICES ASSUME m = 0 PROVE ls = <<>>
    OBVIOUS
  <2>1. u = <<>>
    BY <1>5, EmptySeq DEF Texts
  <2>2. t = r
    BY <1>2, <2>1, ConcatEmptySeq DEF Texts
  <2>3. Split(t) = <<r>>
    BY <1>2, <2>2, SplitLine DEF WithoutNewline
  <2>4. Front(<<r>>) = <<>>
    <3>1. <<r>> \in Seq(Texts) /\ Len(<<r>>) = 1
      OBVIOUS
    <3>2. Front(<<r>>) = SubSeq(<<r>>, 1, 0)
      BY <3>1 DEF Front
    <3> QED BY <3>2, SubSeqEmpty
  <2> QED BY <1>3, <2>3, <2>4 DEF SplitToLines
<1>9. n <= m + n /\ (m # 0 => n < m + n)
  OBVIOUS
<1>10. /\ Len(r) \in Nat /\ Len(t) \in Nat /\ Len(r) <= Len(t)
       /\ ls # <<>> => Len(r) < Len(t)
  BY <1>5, <1>6, <1>8, <1>9
<1>11. \A i \in 1..Len(r) : r[i] \notin {Newline, Nul}
  BY <1>5, <1>7
<1> QED BY <1>3, <1>4, <1>10, <1>11

LEMMA SplitAtEof ==
    ASSUME NEW t \in Texts PROVE SplitToLines(t, TRUE).lines \in Lines
<1>1. PICK ps \in Pieces : ps = Split(t)
  BY SplitType
<1>2. ps \in Lines
  BY PiecesAreLines
<1>3. PICK st : st = SplitToLines(t, TRUE).lines
  OBVIOUS
<1>4. st = IF ps # <<>> /\ Blank(Last(ps)) THEN Front(ps) ELSE ps
  BY <1>1, <1>3 DEF SplitToLines
<1> QED BY <1>2, <1>3, <1>4, StripBlank

(* The remnant and what is read after it.                                  *)
LEMMA ReadText ==
    ASSUME TypeOK, FileOK
    PROVE  \E t \in Texts :
             /\ t = remnantBuf \o Bytes /\ Len(t) = Len(remnantBuf) + Len(Bytes)
             /\ \A i \in 1..Len(t) : t[i] # Nul
<1>1. PICK m \in Nat, n \in Nat : m = Len(remnantBuf) /\ n = Len(Bytes)
  BY BytesText, LenProperties DEF TypeOK
<1>2. remnantBuf \in Texts /\ DOMAIN remnantBuf = 1..m
  BY <1>1, LenProperties DEF TypeOK, Texts
<1>3. PICK t \in Texts :
        /\ t = remnantBuf \o Bytes /\ Len(t) = m + n
        /\ \A i \in 1..m : t[i] = remnantBuf[i]
        /\ \A i \in 1..n : t[m + i] = Bytes[i]
  BY <1>1, <1>2, BytesText, TextsConcat
<1>4. ASSUME NEW i \in 1..(m + n) PROVE t[i] # Nul
  <2>1. CASE i <= m
    <3>1. i \in DOMAIN remnantBuf
      BY <1>2, <2>1
    <3> QED BY <1>2, <1>3, <3>1 DEF TypeOK
  <2>2. CASE ~(i <= m)
    <3>1. i - m \in 1..n /\ m + (i - m) = i
      BY <2>2
    <3> QED BY <1>1, <1>3, <3>1, BytesText
  <2> QED BY <2>1, <2>2
<1> QED BY <1>1, <1>3, <1>4

LEMMA ReceiveType ==
    ASSUME TypeOK, NEW c \in Nat, NEW ls \in Lines, Receive(ls, c)
    PROVE  offset' = c /\ stale' = staleRead /\ delivered' \in Seq(Seq(Nat))
<1>1. NotBlank(ls) \in Lines
  BY NotBlankConcat
<1>2. delivered \in Lines
  BY DEF TypeOK, Lines, Texts
<1>3. delivered \o NotBlank(ls) \in Lines
  BY <1>1, <1>2, ConcatProperties DEF Lines
<1> QED BY <1>1, <1>3 DEF Receive, Lines, Texts

(* The client of a response has the lines before its new offset.           *)
LEMMA ReceiveParts ==
    ASSUME TypeOK, NEW b \in Nat, NEW c \in Nat, NEW ls \in Lines, Receive(ls, c), file' = file,
           LinesOf(file, b) = IF restart THEN <<>> ELSE delivered,
           LinesOf(file, c) = LinesOf(file, b) \o NotBlank(ls),
           c <= Len(file), StartOf(file, c)
    PROVE  ClientOK' /\ delivered' = LinesOf(file, c)
<1>1. NotBlank(ls) \in Lines
  BY NotBlankConcat
<1>2. <<>> \o NotBlank(ls) = NotBlank(ls)
  BY <1>1, ConcatEmptySeq DEF Lines
<1>3. offset' = c
  BY DEF Receive
<1>4. delivered' = LinesOf(file, c)
  <2>1. CASE restart
    BY <1>2, <2>1 DEF Receive
  <2>2. CASE ~restart
    BY <2>2 DEF Receive
  <2> QED BY <2>1, <2>2
<1> QED BY <1>3, <1>4 DEF ClientOK

(* The loop goes round: the remnant is where the next lines begin.         *)
LEMMA ContinueParts ==
    ASSUME TypeOK, NEW r \in Texts, NEW e \in Nat, Continue(r), file' = file,
           e = currOffset + Len(Bytes), e <= Len(file), Len(r) \in Nat, e - Len(r) \in Nat,
           StartOf(file, e - Len(r)), r = Between(file, e - Len(r), e),
           LinesOf(file, e - Len(r)) = IF restart' THEN <<>> ELSE delivered'
    PROVE  ReadOK'
<1>1. remnantBuf' = r /\ currOffset' = e
  BY DEF Continue
<1>2. PICK c \in Nat : c = e - Len(r) /\ c <= e
  OBVIOUS
<1>3. /\ c = currOffset' - Len(remnantBuf') /\ c <= currOffset' /\ currOffset' <= Len(file')
      /\ StartOf(file', c) /\ remnantBuf' = Between(file', c, currOffset')
      /\ LinesOf(file', c) = IF restart' THEN <<>> ELSE delivered'
  BY <1>1, <1>2
<1> QED BY <1>3 DEF ReadOK

(* A full buffer: either there is no line yet, or the lines are sent and   *)
(* the client is beyond where the call began.                              *)
LEMMA ReturnSome ==
    ASSUME TypeOK, FileOK, ReadAndReturnSome
    PROVE  \E r \in Texts, ls \in Lines, c \in Nat, l \in Nat :
             /\ r = SplitToLines(remnantBuf \o Bytes, FALSE).remnant
             /\ ls = SplitToLines(remnantBuf \o Bytes, FALSE).lines
             /\ l = Len(Bytes) /\ c = currOffset + l - Len(r)
             /\ Len(r) \in Nat /\ startingOffset + Len(r) <= currOffset + l
             /\ \A i \in 1..Len(r) : r[i] \notin {Newline, Nul}
             /\ \/ ls = <<>> /\ Continue(r) /\ UNCHANGED <<restart, linesReturned, client>>
                \/ /\ Receive(ls, c) /\ c > 0
                   /\ \/ Continue(r) /\ linesReturned' = linesReturned + Len(ls) /\ restart' = FALSE
                      \/ Done
<1>1. PICK t \in Texts :
        /\ t = remnantBuf \o Bytes /\ Len(t) = Len(remnantBuf) + Len(Bytes)
        /\ \A i \in 1..Len(t) : t[i] # Nul
  BY ReadText
<1>2. PICK r \in Texts, ls \in Lines :
        /\ r = SplitToLines(t, FALSE).remnant /\ ls = SplitToLines(t, FALSE).lines
        /\ Len(r) \in Nat /\ Len(t) \in Nat /\ Len(r) <= Len(t)
        /\ ls # <<>> => Len(r) < Len(t)
        /\ \A i \in 1..Len(r) : r[i] \notin {Newline, Nul}
  BY <1>1, SplitText
<1>3. PICK l \in Nat, k \in Nat, m \in Nat : l = Len(Bytes) /\ k = Len(r) /\ m = Len(remnantBuf)
  BY <1>2, BytesText, LenProperties DEF TypeOK
<1>4. /\ currOffset \in Nat /\ startingOffset \in Nat /\ startingOffset + m <= currOffset
      /\ k <= m + l /\ (ls # <<>> => k < m + l)
  BY <1>1, <1>2, <1>3 DEF TypeOK
<1>5. PICK c \in Nat : c = currOffset + l - k
  BY <1>4
<1>6. startingOffset + k <= currOffset + l /\ (ls # <<>> => c > 0)
  BY <1>4, <1>5
<1>7. NextOffset(r) = c
  BY <1>3, <1>5 DEF NextOffset
<1>8. PICK s \in {SplitToLines(remnantBuf \o Bytes, FALSE)} :
        \/ s.lines = <<>> /\ Continue(s.remnant) /\ UNCHANGED <<restart, linesReturned, client>>
        \/ /\ s.lines # <<>> /\ Receive(s.lines, NextOffset(s.remnant))
           /\ \/ /\ Continue(s.remnant)
                 /\ linesReturned' = linesReturned + Len(s.lines) /\ restart' = FALSE
              \/ Done
  BY DEF ReadAndReturnSome
<1>9. s.remnant = r /\ s.lines = ls
  BY <1>1, <1>2
<1>10. \/ ls = <<>> /\ Continue(r) /\ UNCHANGED <<restart, linesReturned, client>>
       \/ /\ Receive(ls, c) /\ c > 0
          /\ \/ Continue(r) /\ linesReturned' = linesReturned + Len(ls) /\ restart' = FALSE
             \/ Done
  BY <1>6, <1>7, <1>8, <1>9
<1> QED BY <1>1, <1>2, <1>3, <1>5, <1>6, <1>10

LEMMA ContinueType ==
    ASSUME TypeOK, pc = "read", NEW r \in Texts, NEW l \in Nat, l = Len(Bytes), Continue(r),
           Len(r) \in Nat, startingOffset + Len(r) <= currOffset + l,
           \A i \in 1..Len(r) : r[i] \notin {Newline, Nul}
    PROVE  /\ remnantBuf' \in Seq(Nat) /\ currOffset' \in Nat /\ fileLen' \in Nat /\ pc' = "read"
           /\ startingOffset' \in Nat /\ startingLines' \in Seq(Seq(Nat))
           /\ UNCHANGED <<startingOffset, startingLines, staleRead>> /\ staleRead' \in BOOLEAN
           /\ startingOffset' + Len(remnantBuf') <= currOffset'
           /\ staleRead' => currOffset' > 0
           /\ \A i \in DOMAIN remnantBuf' : remnantBuf'[i] \notin {Newline, Nul}
<1>1. /\ remnantBuf' = r /\ currOffset' = currOffset + l
      /\ UNCHANGED <<pc, fileLen, startingOffset, startingLines, staleRead>>
  BY DEF Continue, start
<1>2. r \in Seq(Nat) /\ DOMAIN r = 1..Len(r)
  BY LenProperties DEF Texts
<1>3. currOffset \in Nat /\ (staleRead => currOffset > 0)
  BY DEF TypeOK
<1>4. currOffset + l \in Nat /\ (staleRead => currOffset + l > 0)
  BY <1>3
<1>5. \A i \in DOMAIN remnantBuf' : remnantBuf'[i] \notin {Newline, Nul}
  BY <1>1, <1>2
<1>6. startingOffset' + Len(remnantBuf') <= currOffset' /\ (staleRead' => currOffset' > 0)
  BY <1>1, <1>4
<1> QED BY <1>1, <1>2, <1>4, <1>5, <1>6 DEF TypeOK

(* A full buffer of a file that was not truncated: its lines follow those  *)
(* the client has.                                                         *)
LEMMA ExactRead ==
    ASSUME TypeOK, FileOK, ReadOK
    PROVE  \E b \in Nat, e \in Nat, r \in Texts, ls \in Lines :
             /\ r = SplitToLines(remnantBuf \o Bytes, FALSE).remnant
             /\ ls = SplitToLines(remnantBuf \o Bytes, FALSE).lines
             /\ e = currOffset + Len(Bytes) /\ e <= Len(file) /\ e - Len(r) \in Nat
             /\ StartOf(file, e - Len(r)) /\ r = Between(file, e - Len(r), e)
             /\ LinesOf(file, b) \in Lines
             /\ LinesOf(file, b) = IF restart THEN <<>> ELSE delivered
             /\ LinesOf(file, e - Len(r)) = LinesOf(file, b) \o NotBlank(ls)
<1>1. PICK b \in Nat :
        /\ b <= currOffset /\ currOffset <= Len(file)
        /\ StartOf(file, b) /\ remnantBuf = Between(file, b, currOffset)
        /\ LinesOf(file, b) = IF restart THEN <<>> ELSE delivered
  BY DEF ReadOK
<1>2. PICK e \in Nat :
        /\ b <= e /\ e <= Len(file) /\ Len(Bytes) \in Nat /\ e = currOffset + Len(Bytes)
        /\ remnantBuf \o Bytes = Between(file, b, e)
  BY <1>1, BytesRead
<1>3. PICK r \in Texts, ls \in Lines :
        /\ r = SplitToLines(Between(file, b, e), FALSE).remnant
        /\ ls = SplitToLines(Between(file, b, e), FALSE).lines
        /\ Len(r) \in Nat /\ e - Len(r) \in Nat
        /\ \A i \in 1..Len(r) : r[i] \notin {Newline, Nul}
        /\ StartOf(file, e - Len(r)) /\ r = Between(file, e - Len(r), e)
        /\ LinesOf(file, b) \in Lines
        /\ LinesOf(file, e - Len(r)) = LinesOf(file, b) \o NotBlank(ls)
  BY <1>1, <1>2, BufferRead DEF FileOK
<1> QED BY <1>1, <1>2, <1>3

(* A full buffer is split, and its lines are sent.                         *)
LEMMA ReadAndReturnSomeParts ==
    ASSUME TypeOK, FileOK, ClientOK, CallOK, StartOK, ReadAndReturnSome
    PROVE  TypeOK' /\ FileOK' /\ ClientOK' /\ CallOK' /\ StartOK'
<1>1. pc = "read" /\ UNCHANGED <<file, counts>>
  BY DEF ReadAndReturnSome
<1>2. FileOK'
  BY <1>1 DEF FileOK
<1>3. PICK r \in Texts, ls \in Lines, c \in Nat, l \in Nat :
        /\ r = SplitToLines(remnantBuf \o Bytes, FALSE).remnant
        /\ ls = SplitToLines(remnantBuf \o Bytes, FALSE).lines
        /\ l = Len(Bytes) /\ c = currOffset + l - Len(r)
        /\ Len(r) \in Nat /\ startingOffset + Len(r) <= currOffset + l
        /\ \A i \in 1..Len(r) : r[i] \notin {Newline, Nul}
        /\ \/ ls = <<>> /\ Continue(r) /\ UNCHANGED <<restart, linesReturned, client>>
           \/ /\ Receive(ls, c) /\ c > 0
              /\ \/ Continue(r) /\ linesReturned' = linesReturned + Len(ls) /\ restart' = FALSE
                 \/ Done
  BY ReturnSome
<1> DEFINE Exact(e) ==
        /\ e = currOffset + l /\ e <= Len(file) /\ e - Len(r) \in Nat
        /\ StartOf(file, e - Len(r)) /\ r = Between(file, e - Len(r), e)
<1>4. ASSUME ~staleRead
      PROVE  \E b \in Nat, e \in Nat :
               /\ Exact(e) /\ LinesOf(file, b) \in Lines
               /\ LinesOf(file, b) = IF restart THEN <<>> ELSE delivered
               /\ LinesOf(file, e - Len(r)) = LinesOf(file, b) \o NotBlank(ls)
  <2>1. ReadOK
    BY <1>1, <1>4 DEF CallOK
  <2>2. PICK b \in Nat, e \in Nat, rr \in Texts, lls \in Lines :
          /\ rr = SplitToLines(remnantBuf \o Bytes, FALSE).remnant
          /\ lls = SplitToLines(remnantBuf \o Bytes, FALSE).lines
          /\ e = currOffset + Len(Bytes) /\ e <= Len(file) /\ e - Len(rr) \in Nat
          /\ StartOf(file, e - Len(rr)) /\ rr = Between(file, e - Len(rr), e)
          /\ LinesOf(file, b) \in Lines
          /\ LinesOf(file, b) = IF restart THEN <<>> ELSE delivered
          /\ LinesOf(file, e - Len(rr)) = LinesOf(file, b) \o NotBlank(lls)
    BY <2>1, ExactRead
  <2>3. rr = r /\ lls = ls
    BY <1>3, <2>2
  <2> QED BY <1>3, <2>2, <2>3
<1>5. CASE ls = <<>> /\ Continue(r) /\ UNCHANGED <<restart, linesReturned, client>>
  <2>1. /\ remnantBuf' \in Seq(Nat) /\ currOffset' \in Nat /\ fileLen' \in Nat /\ pc' = "read"
        /\ startingOffset' \in Nat /\ startingLines' \in Seq(Seq(Nat))
        /\ UNCHANGED <<startingOffset, startingLines, staleRead>> /\ staleRead' \in BOOLEAN
        /\ startingOffset' + Len(remnantBuf') <= currOffset'
        /\ staleRead' => currOffset' > 0
        /\ \A i \in DOMAIN remnantBuf' : remnantBuf'[i] \notin {Newline, Nul}
    BY <1>1, <1>3, <1>5, ContinueType
  <2>2. TypeOK'
    BY <1>1, <1>2, <1>5, <2>1 DEF TypeOK, client, counts
  <2>3. ClientOK' /\ StartOK'
    BY <1>1, <1>5, <2>1 DEF ClientOK, StartOK, client
  <2>4. ASSUME ~staleRead PROVE ReadOK'
    <3>1. PICK b \in Nat, e \in Nat :
            /\ Exact(e) /\ LinesOf(file, b) \in Lines
            /\ LinesOf(file, b) = IF restart THEN <<>> ELSE delivered
            /\ LinesOf(file, e - Len(r)) = LinesOf(file, b) \o NotBlank(ls)
      BY <1>4, <2>4
    <3>2. LinesOf(file, b) \o <<>> = LinesOf(file, b)
      BY <3>1, ConcatEmptySeq DEF Lines
    <3>3. LinesOf(file, e - Len(r)) = IF restart' THEN <<>> ELSE delivered'
      BY <1>5, <3>1, <3>2, NotBlankEmpty DEF client
    <3> QED BY <1>1, <1>3, <1>5, <3>1, <3>3, ContinueParts
  <2>5. CallOK'
    BY <1>5, <2>1, <2>4 DEF CallOK, client
  <2> QED BY <1>2, <2>2, <2>3, <2>5
<1>6. CASE Receive(ls, c) /\ c > 0
  <2>1. offset' = c /\ stale' = staleRead /\ delivered' \in Seq(Seq(Nat))
    BY <1>6, ReceiveType
  <2>2. offset' \in Nat /\ stale' \in BOOLEAN /\ (stale' => offset' > 0)
    BY <1>6, <2>1 DEF TypeOK
  <2>3. ASSUME ~staleRead
        PROVE  /\ ClientOK' /\ delivered' = LinesOf(file, c)
               /\ \E e \in Nat : Exact(e) /\ c = e - Len(r)
    <3>1. PICK b \in Nat, e \in Nat :
            /\ Exact(e) /\ LinesOf(file, b) \in Lines
            /\ LinesOf(file, b) = IF restart THEN <<>> ELSE delivered
            /\ LinesOf(file, e - Len(r)) = LinesOf(file, b) \o NotBlank(ls)
      BY <1>4, <2>3
    <3>2. c = e - Len(r)
      <4>1. c = currOffset + l - Len(r)
        BY <1>3
      <4>2. e = currOffset + l
        BY <3>1
      <4>3. currOffset \in Nat /\ Len(r) \in Nat
        BY <1>3 DEF TypeOK
      <4> QED BY <4>1, <4>2, <4>3
    <3>3. Len(file) \in Nat
      BY LenProperties DEF TypeOK
    <3>4. c <= Len(file) /\ StartOf(file, c) /\ LinesOf(file, c) = LinesOf(file, b) \o NotBlank(ls)
      <4>1. c <= e /\ e <= Len(file)
        <5>1. Len(r) \in Nat
          BY <1>3
        <5>2. e <= Len(file)
          BY <3>1
        <5> QED BY <3>2, <5>1, <5>2
      <4> QED BY <3>1, <3>2, <3>3, <4>1
    <3> QED BY <1>1, <1>6, <3>1, <3>2, <3>4, ReceiveParts
  <2>4. ClientOK'
    <3>1. CASE staleRead
      BY <2>1, <3>1 DEF ClientOK
    <3> QED BY <2>3, <3>1
  <2>5. CASE Continue(r) /\ linesReturned' = linesReturned + Len(ls) /\ restart' = FALSE
    <3>1. /\ remnantBuf' \in Seq(Nat) /\ currOffset' \in Nat /\ fileLen' \in Nat /\ pc' = "read"
          /\ startingOffset' \in Nat /\ startingLines' \in Seq(Seq(Nat))
          /\ UNCHANGED <<startingOffset, startingLines, staleRead>> /\ staleRead' \in BOOLEAN
          /\ startingOffset' + Len(remnantBuf') <= currOffset'
          /\ staleRead' => currOffset' > 0
          /\ \A i \in DOMAIN remnantBuf' : remnantBuf'[i] \notin {Newline, Nul}
      BY <1>1, <1>3, <2>5, ContinueType
    <3>2. linesReturned' \in Nat
      BY <2>5, LenProperties DEF TypeOK, Lines
    <3>3. TypeOK'
      BY <1>1, <1>2, <2>1, <2>2, <2>5, <3>1, <3>2 DEF TypeOK, counts
    <3>4. StartOK'
      BY <1>1, <3>1 DEF StartOK
    <3>5. ASSUME ~staleRead PROVE ReadOK'
      <4>1. PICK e \in Nat : Exact(e) /\ c = e - Len(r)
        BY <2>3, <3>5
      <4>2. LinesOf(file, e - Len(r)) = IF restart' THEN <<>> ELSE delivered'
        BY <2>3, <2>5, <3>5, <4>1
      <4> QED BY <1>1, <1>3, <2>5, <4>1, <4>2, ContinueParts
    <3>6. CallOK'
      BY <2>5, <3>1, <3>5 DEF CallOK
    <3> QED BY <1>2, <2>4, <3>3, <3>4, <3>6
  <2>6. CASE Done
    <3>1. TypeOK'
      BY <1>1, <1>2, <2>1, <2>2, <2>6, DoneParts DEF TypeOK, counts
    <3> QED BY <1>2, <2>4, <2>6, <3>1, DoneParts
  <2> QED BY <1>3, <1>5, <1>6, <2>5, <2>6
<1> QED BY <1>3, <1>5, <1>6

(* The last buffer is what was read and padding.                           *)
LEMMA BufPadded ==
    ASSUME Bytes \in Texts, Len(Bytes) \in Nat, Len(Bytes) < MaxLineLengthBytes
    PROVE  \E nuls \in Texts : Buf = Bytes \o nuls /\ \A i \in 1..Len(nuls) : nuls[i] = Nul
<1>1. PICK m \in Nat, k \in Nat : m = Len(Bytes) /\ k = MaxLineLengthBytes - m
  BY LogAssumption
<1>2. Nul \in Nat
  BY DEF Nul
<1>3. PICK nuls \in Texts : Len(nuls) = k /\ \A i \in 1..k : nuls[i] = Nul
  <2> DEFINE z == [i \in 1..k |-> Nul]
  <2>1. z \in Texts /\ Len(z) = k /\ \A i \in 1..k : z[i] = Nul
    BY <1>2 DEF Texts
  <2> QED BY <2>1
<1>4. /\ Bytes \o nuls \in Texts /\ Len(Bytes \o nuls) = m + k
      /\ \A i \in 1..m : (Bytes \o nuls)[i] = Bytes[i]
      /\ \A i \in 1..k : (Bytes \o nuls)[m + i] = nuls[i]
  <2>1. /\ Bytes \o nuls \in Texts /\ Len(Bytes \o nuls) = Len(Bytes) + Len(nuls)
        /\ \A i \in 1..Len(Bytes) : (Bytes \o nuls)[i] = Bytes[i]
        /\ \A i \in 1..Len(nuls) : (Bytes \o nuls)[Len(Bytes) + i] = nuls[i]
    BY TextsConcat
  <2> QED BY <1>1, <1>3, <2>1
<1>5. m + k = MaxLineLengthBytes /\ MaxLineLengthBytes \in Nat
  BY <1>1, LogAssumption
<1>6. Buf = [i \in 1..(m + k) |-> IF i <= m THEN Bytes[i] ELSE Nul]
  BY <1>1, <1>5 DEF Buf
<1>7. ASSUME NEW i \in 1..(m + k) PROVE Buf[i] = (Bytes \o nuls)[i] /\ Buf[i] \in Nat
  <2>1. CASE i <= m
    <3>1. i \in 1..m /\ Buf[i] = Bytes[i]
      BY <1>6, <2>1
    <3>2. Bytes[i] \in Nat
      BY <1>1, <3>1 DEF Texts
    <3> QED BY <1>4, <3>1, <3>2
  <2>2. CASE ~(i <= m)
    <3>1. Buf[i] = Nul
      BY <1>6, <2>2
    <3>2. i - m \in 1..k /\ m + (i - m) = i
      BY <2>2
    <3>3. (Bytes \o nuls)[m + (i - m)] = Nul
      BY <1>3, <1>4, <3>2
    <3> QED BY <1>2, <3>1, <3>2, <3>3
  <2> QED BY <2>1, <2>2
<1>8. Buf \in Texts /\ Len(Buf) = m + k
  <2>1. Buf \in [1..(m + k) -> Nat]
    BY <1>6, <1>7
  <2>2. PICK j \in Nat : j = m + k
    OBVIOUS
  <2>3. Buf \in [1..j -> Nat]
    BY <2>1, <2>2
  <2>4. Buf \in Seq(Nat) /\ Len(Buf) = j
    BY <2>3
  <2> QED BY <2>2, <2>4 DEF Texts
<1>9. Buf = Bytes \o nuls
  BY <1>4, <1>7, <1>8, TextEqual
<1> QED BY <1>3, <1>9

(* At the end of the file all of it has been sent; of a file that was      *)
(* truncated since, whatever came of it.                                   *)
LEMMA ReadToEofParts ==
    ASSUME TypeOK, FileOK, ClientOK, CallOK, StartOK, ReadToEof
    PROVE  TypeOK' /\ FileOK' /\ ClientOK' /\ CallOK' /\ StartOK'
<1>1. pc = "read" /\ Eof /\ Done /\ UNCHANGED <<file, counts>>
  BY DEF ReadToEof
<1>2. FileOK'
  BY <1>1 DEF FileOK
<1>3. Bytes \in Texts /\ Len(Bytes) \in Nat /\ Len(Bytes) < MaxLineLengthBytes
  BY <1>1, BytesText DEF Eof
<1>4. PICK nuls \in Texts : Buf = Bytes \o nuls /\ \A i \in 1..Len(nuls) : nuls[i] = Nul
  BY <1>3, BufPadded
<1>5. remnantBuf \in Texts /\ remnantBuf \o Buf = (remnantBuf \o Bytes) \o nuls
  <2>1. remnantBuf \in Texts
    BY DEF TypeOK, Texts
  <2> QED BY <1>3, <1>4, <2>1, TextsAssociative
<1>6. PICK ls \in Lines : ls = SplitToLines(remnantBuf \o Buf, TRUE).lines
  <2>1. remnantBuf \o Bytes \in Texts
    BY <1>3, <1>5, TextsConcat
  <2>2. remnantBuf \o Buf \in Texts
    BY <1>4, <1>5, <2>1, TextsConcat
  <2> QED BY <2>2, SplitAtEof
<1>7. PICK e \in Nat : e = currOffset + Len(Bytes) /\ NextOffset(<<>>) = e /\ e >= currOffset
  <2>1. currOffset \in Nat /\ Len(<<>>) = 0
    BY DEF TypeOK
  <2>2. PICK e \in Nat : e = currOffset + Len(Bytes) /\ e >= currOffset
    BY <1>3, <2>1
  <2>3. NextOffset(<<>>) = e - 0
    BY <2>1, <2>2 DEF NextOffset
  <2>4. e - 0 = e
    OBVIOUS
  <2> QED BY <2>2, <2>3, <2>4
<1>8. Receive(ls, e)
  <2>1. PICK s \in {SplitToLines(remnantBuf \o Buf, TRUE)} : Receive(s.lines, NextOffset(<<>>))
    BY DEF ReadToEof
  <2> QED BY <1>6, <1>7, <2>1
<1>9. offset' = e /\ stale' = staleRead /\ delivered' \in Seq(Seq(Nat))
  BY <1>8, ReceiveType
<1>10. offset' \in Nat /\ stale' \in BOOLEAN /\ (stale' => offset' > 0)
  <2>1. currOffset \in Nat /\ (staleRead => currOffset > 0) /\ staleRead \in BOOLEAN
    BY DEF TypeOK
  <2> QED BY <1>7, <1>9, <2>1
<1>11. TypeOK'
  BY <1>1, <1>2, <1>9, <1>10, DoneParts DEF TypeOK, counts
<1>12. CASE staleRead
  <2>1. ClientOK'
    BY <1>9, <1>12 DEF ClientOK
  <2> QED BY <1>1, <1>2, <1>11, <2>1, DoneParts
<1>13. CASE ~staleRead
  <2>1. PICK b \in Nat :
          /\ b <= currOffset /\ currOffset <= Len(file)
          /\ StartOf(file, b) /\ remnantBuf = Between(file, b, currOffset)
          /\ LinesOf(file, b) = IF restart THEN <<>> ELSE delivered
    BY <1>1, <1>13 DEF CallOK, ReadOK
  <2>2. /\ b <= e /\ remnantBuf \o Bytes = Between(file, b, e)
        /\ e = Len(file)
    <3>1. PICK ee \in Nat :
            /\ b <= ee /\ ee = currOffset + Len(Bytes)
            /\ remnantBuf \o Bytes = Between(file, b, ee) /\ ee = Len(file)
      BY <1>1, <2>1, BytesRead
    <3> QED BY <1>7, <3>1
  <2>3. b <= Len(file) /\ remnantBuf \o Buf = Between(file, b, Len(file)) \o nuls
    BY <1>5, <2>2
  <2>4. PICK lls \in Lines :
          /\ lls = SplitToLines(Between(file, b, Len(file)) \o nuls, TRUE).lines
          /\ LinesOf(file, Len(file)) = LinesOf(file, b) \o NotBlank(lls)
    BY <1>4, <2>1, <2>3, EofRead DEF FileOK
  <2>5. e <= Len(file) /\ StartOf(file, e) /\ LinesOf(file, e) = LinesOf(file, b) \o NotBlank(ls)
    <3>1. e <= Len(file)
      BY <2>2
    <3> QED BY <1>6, <2>2, <2>3, <2>4, <3>1 DEF FileOK
  <2>6. ClientOK'
    BY <1>1, <1>8, <2>1, <2>5, ReceiveParts
  <2> QED BY <1>1, <1>2, <1>11, <2>6, DoneParts
<1> QED BY <1>12, <1>13

LEMMA StutterParts ==
    ASSUME TypeOK, FileOK, ClientOK, CallOK, StartOK, UNCHANGED vars
    PROVE  TypeOK' /\ FileOK' /\ ClientOK' /\ CallOK' /\ StartOK'
<1> USE DEF vars, client, local, start, counts
<1>1. TypeOK'
  BY DEF TypeOK
<1>2. FileOK' /\ ClientOK' /\ StartOK'
  BY DEF FileOK, ClientOK, StartOK
<1>3. ReadOK <=> ReadOK'
  BY DEF ReadOK
<1>4. CallOK'
  BY <1>3 DEF CallOK
<1> QED BY <1>1, <1>2, <1>4

-----------------------------------------------------------------------------
(* LogStream keeps its types and the inductive invariant, whatever the     *)
(* lengths of lines and buffers and wherever calls begin, end or fail and  *)
(* the file is written or truncated: at each buffer what was sent is what  *)
(* was read, unless the file was truncated below it, and only then a call  *)
(* begins the file again.                                                  *)
THEOREM LogInvariant == Spec => [](TypeOK /\ LogInv)
<1>1. Init => TypeOK /\ LogInv
  BY InitParts, LogInvParts
<1>2. TypeOK /\ LogInv /\ [Next]_vars => (TypeOK /\ LogInv)'
  <2> SUFFICES ASSUME TypeOK, LogInv, [Next]_vars PROVE (TypeOK /\ LogInv)'
    OBVIOUS
  <2>1. FileOK /\ ClientOK /\ CallOK /\ StartOK
    BY LogInvParts
  <2>2. TypeOK' /\ FileOK' /\ ClientOK' /\ CallOK' /\ StartOK'
    <3>1. CASE LogStream
      BY <2>1, <3>1, LogStreamParts
    <3>2. CASE Open
      BY <2>1, <3>2, OpenParts
    <3>3. CASE ReadAndReturnSome
      BY <2>1, <3>3, ReadAndReturnSomeParts
    <3>4. CASE ReadToEof
      BY <2>1, <3>4, ReadToEofParts
    <3>5. CASE Fail
      BY <2>1, <3>5, FailParts
    <3>6. CASE TruncateLog
      BY <2>1, <3>6, TruncateLogParts
    <3>7. ASSUME NEW n \in Lengths, WriteLine(n) PROVE TypeOK' /\ FileOK' /\ ClientOK' /\ CallOK' /\ StartOK'
      BY <2>1, <3>7, WriteLineParts
    <3>8. CASE UNCHANGED vars
      BY <2>1, <3>8, StutterParts
    <3> QED BY <3>1, <3>2, <3>3, <3>4, <3>5, <3>6, <3>7, <3>8 DEF Next, Call
  <2> QED BY <2>2, LogInvPartsNext
<1> QED BY <1>1, <1>2, PTL DEF Spec

(* A call of LogStream that has ended leaves nothing behind, and what is   *)
(* kept of a buffer is part of one line.                                   *)
THEOREM LogTypes == Spec => []TypeOK
  BY LogInvariant, PTL

(* The client of LogStream gets each line of the log once, whole and in    *)
(* order: what it got is what the file holds before its offset, unless     *)
(* that is a place of the file before a truncation.                        *)
THEOREM EachLineOnce == Spec => []LinesExact
<1>1. LogInv => LinesExact
  BY DEF LogInv
<1> QED BY <1>1, LogInvariant, PTL
=============================================================================
