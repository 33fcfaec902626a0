----------------------------- MODULE SumTheorems -----------------------------
(***************************************************************************)
(* Facts about sums over finite sets, for the modules that count bytes.    *)
(* Sums are those of the community modules: a recursive function that      *)
(* takes the elements out of the set one by one.  Induction is had from    *)
(* WFMin, the existence of minimal elements, for sets of numbers and of    *)
(* subsets.                                                                *)
(***************************************************************************)
EXTENDS Integers, FiniteSets, Functions, FiniteSetTheorems, WellFoundedInduction, TLAPS

-----------------------------------------------------------------------------
(* Induction *)

(* A set of numbers has a least one.                                       *)
LEMMA LeastNumber ==
    ASSUME NEW T \in SUBSET Nat, T # {}
    PROVE  \E n \in T : \A m \in T : n <= m
<1> DEFINE R == {ss \in Nat \X Nat : ss[1] < ss[2]}
<1>1. IsWellFoundedOn(R, Nat)
  BY NatLessThanWellFounded DEF OpToRel
<1> HIDE DEF R
<1>2. PICK n \in T : \A m \in T : ~(<<m, n>> \in R)
  BY <1>1, WFMin
<1>3. \A m \in T : ~(m < n)
  BY <1>2 DEF R
<1> QED BY <1>3

(* A set with 0 and the successor of each of its numbers has them all.     *)
LEMMA NumbersInduction ==
    ASSUME NEW T \in SUBSET Nat, 0 \in T, \A n \in T : n + 1 \in T
    PROVE  T = Nat
<1> DEFINE Rest == Nat \ T
<1> SUFFICES ASSUME Rest # {} PROVE FALSE
  OBVIOUS
<1>1. PICK n \in Rest : \A m \in Rest : n <= m
  BY LeastNumber
<1>2. n \in Nat /\ n # 0 /\ n - 1 \in Nat /\ ~(n <= n - 1)
  BY <1>1
<1>3. n - 1 \in T
  BY <1>1, <1>2
<1>4. (n - 1) + 1 \in T
  BY <1>3
<1> QED BY <1>2, <1>4

(* The element a sum takes next.                                           *)
Pick(s) == CHOOSE x \in s : TRUE

LEMMA PickIn == ASSUME NEW s, s # {} PROVE Pick(s) \in s
BY DEF Pick

(* What holds of the empty set, and of a set when it holds of the set      *)
(* without the element taken next, holds of every subset of a finite set.  *)
LEMMA SubsetInduction ==
    ASSUME NEW S, IsFiniteSet(S), NEW T \in SUBSET (SUBSET S), {} \in T,
           \A s \in SUBSET S : s # {} /\ s \ {Pick(s)} \in T => s \in T
    PROVE  T = SUBSET S
<1> DEFINE N == {n \in Nat : \A s \in SUBSET S : Cardinality(s) <= n => s \in T}
<1>1. \A s \in SUBSET S : IsFiniteSet(s) /\ Cardinality(s) \in Nat
  BY FS_Subset, FS_CardinalityType
<1>2. 0 \in N
  <2> SUFFICES ASSUME NEW s \in SUBSET S, Cardinality(s) <= 0 PROVE s \in T
    OBVIOUS
  <2>1. Cardinality(s) = 0
    BY <1>1
  <2> QED BY <1>1, <2>1, FS_EmptySet
<1>3. ASSUME NEW n \in N PROVE n + 1 \in N
  <2> SUFFICES ASSUME NEW s \in SUBSET S, Cardinality(s) <= n + 1, s # {} PROVE s \in T
    OBVIOUS
  <2>1. s \ {Pick(s)} \in SUBSET S
    OBVIOUS
  <2>2. Cardinality(s \ {Pick(s)}) = Cardinality(s) - 1
    BY <1>1, PickIn, FS_RemoveElement
  <2>3. Cardinality(s \ {Pick(s)}) <= n
    BY <1>1, <2>2
  <2> QED BY <2>1, <2>3
<1> HIDE DEF N
<1>4. N \in SUBSET Nat
  BY DEF N
<1>5. N = Nat
  BY <1>2, <1>3, <1>4, NumbersInduction
<1>6. \A n \in Nat : n \in N
  BY <1>5
<1> QED BY <1>1, <1>6 DEF N

-----------------------------------------------------------------------------
(* The function behind a sum *)

SumStep(f, g, s) == IF s = {} THEN 0 ELSE f[Pick(s)] + g[s \ {Pick(s)}]

Partial(f, S) == CHOOSE g : g = [s \in SUBSET S |-> SumStep(f, g, s)]

LEMMA SumIsPartial ==
    ASSUME NEW f, NEW S
    PROVE  SumFunctionOnSet(f, S) = Partial(f, S)[S]
BY DEF SumFunctionOnSet, FoldFunctionOnSet, MapThenFoldSet, Partial, SumStep, Pick

(* The sums of the subsets exist.                                          *)
LEMMA PartialExists ==
    ASSUME NEW f, NEW S, IsFiniteSet(S)
    PROVE  \E g : g = [s \in SUBSET S |-> SumStep(f, g, s)]
<1> DEFINE Small(n) == {s \in SUBSET S : Cardinality(s) <= n}
           Exists(n) == \E g : g = [s \in Small(n) |-> SumStep(f, g, s)]
           N == {n \in Nat : Exists(n)}
<1>1. \A s \in SUBSET S : IsFiniteSet(s) /\ Cardinality(s) \in Nat
  BY FS_Subset, FS_CardinalityType
<1>2. 0 \in N
  <2> DEFINE g == [s \in Small(0) |-> 0]
  <2>1. ASSUME NEW s \in Small(0) PROVE SumStep(f, g, s) = 0
    BY <1>1, FS_EmptySet DEF SumStep
  <2>2. g = [s \in Small(0) |-> SumStep(f, g, s)]
    BY <2>1
  <2> QED BY <2>2
<1>3. ASSUME NEW n \in N PROVE n + 1 \in N
  <2>1. PICK g : g = [s \in Small(n) |-> SumStep(f, g, s)]
    OBVIOUS
  <2> DEFINE h == [s \in Small(n + 1) |-> SumStep(f, g, s)]
  <2>2. ASSUME NEW s \in Small(n + 1) PROVE SumStep(f, h, s) = SumStep(f, g, s)
    <3>1. CASE s = {}
      BY <3>1 DEF SumStep
    <3>2. CASE s # {}
      <4>1. Cardinality(s \ {Pick(s)}) = Cardinality(s) - 1
        BY <3>2, <1>1, PickIn, FS_RemoveElement
      <4>2. s \ {Pick(s)} \in Small(n) /\ s \ {Pick(s)} \in Small(n + 1)
        BY <1>1, <4>1
      <4>3. g[s \ {Pick(s)}] = h[s \ {Pick(s)}]
        BY <2>1, <4>2
      <4> QED BY <3>2, <4>3 DEF SumStep
    <3> QED BY <3>1, <3>2
  <2>3. h = [s \in Small(n + 1) |-> SumStep(f, h, s)]
    BY <2>2
  <2> HIDE DEF h
  <2>4. Exists(n + 1)
    BY <2>3
  <2> HIDE DEF Exists
  <2> QED BY <2>4
<1> HIDE DEF N
<1>4. N \in SUBSET Nat
  BY DEF N
<1>5. Cardinality(S) \in N
  BY <1>1, <1>2, <1>3, <1>4, NumbersInduction
<1>6. Small(Cardinality(S)) = SUBSET S
  BY <1>1, FS_Subset
<1> QED BY <1>5, <1>6 DEF N

LEMMA PartialDef ==
    ASSUME NEW f, NEW S, IsFiniteSet(S)
    PROVE  /\ Partial(f, S)[{}] = 0
           /\ \A s \in SUBSET S : s # {} =>
                  Partial(f, S)[s] = f[Pick(s)] + Partial(f, S)[s \ {Pick(s)}]
<1>1. Partial(f, S) = [s \in SUBSET S |-> SumStep(f, Partial(f, S), s)]
  BY PartialExists DEF Partial
<1> HIDE DEF Partial
<1>2. \A s \in SUBSET S : Partial(f, S)[s] = SumStep(f, Partial(f, S), s)
  BY <1>1
<1> QED BY <1>2 DEF SumStep

-----------------------------------------------------------------------------
(* What sums are *)

(* A sum of natural numbers is one, and a sum of integers is one.          *)
LEMMA SumType ==
    ASSUME NEW f, NEW S, IsFiniteSet(S)
    PROVE  /\ (\A x \in S : f[x] \in Nat) => SumFunctionOnSet(f, S) \in Nat
           /\ (\A x \in S : f[x] \in Int) => SumFunctionOnSet(f, S) \in Int
<1>1. ASSUME NEW K \in {Nat, Int}, \A x \in S : f[x] \in K PROVE Partial(f, S)[S] \in K
  <2> DEFINE T == {s \in SUBSET S : Partial(f, S)[s] \in K}
  <2>1. {} \in T
    BY PartialDef
  <2>2. ASSUME NEW s \in SUBSET S, s # {}, s \ {Pick(s)} \in T PROVE s \in T
    <3>1. f[Pick(s)] \in K /\ Partial(f, S)[s \ {Pick(s)}] \in K
      BY <1>1, <2>2, PickIn
    <3>2. Partial(f, S)[s] = f[Pick(s)] + Partial(f, S)[s \ {Pick(s)}]
      BY <2>2, PartialDef
    <3> QED BY <3>1, <3>2
  <2>3. T = SUBSET S
    <3> HIDE DEF T
    <3>1. T \in SUBSET (SUBSET S)
      BY DEF T
    <3> QED BY <2>1, <2>2, <3>1, SubsetInduction
  <2> QED BY <2>3
<1> QED BY <1>1, SumIsPartial

(* A sum is no larger than another when no summand is.                     *)
LEMMA SumMonotone ==
    ASSUME NEW f, NEW g, NEW S, IsFiniteSet(S),
           \A x \in S : f[x] \in Int /\ g[x] \in Int /\ f[x] <= g[x]
    PROVE  SumFunctionOnSet(f, S) <= SumFunctionOnSet(g, S)
<1> DEFINE T == {s \in SUBSET S : /\ Partial(f, S)[s] \in Int /\ Partial(g, S)[s] \in Int
                                 /\ Partial(f, S)[s] <= Partial(g, S)[s]}
<1>1. {} \in T
  BY PartialDef
<1>2. ASSUME NEW s \in SUBSET S, s # {}, s \ {Pick(s)} \in T PROVE s \in T
  <2>1. Pick(s) \in S
    BY <1>2, PickIn
  <2>2. /\ Partial(f, S)[s] = f[Pick(s)] + Partial(f, S)[s \ {Pick(s)}]
        /\ Partial(g, S)[s] = g[Pick(s)] + Partial(g, S)[s \ {Pick(s)}]
    BY <1>2, PartialDef
  <2> QED BY <1>2, <2>1, <2>2
<1> HIDE DEF T
<1>3. T \in SUBSET (SUBSET S)
  BY DEF T
<1>4. T = SUBSET S
  BY <1>1, <1>2, <1>3, SubsetInduction
<1> QED BY <1>4, SumIsPartial DEF T

(* When one summand changes, the sum changes by as much.                   *)
LEMMA SumUpdate ==
    ASSUME NEW f, NEW g, NEW S, IsFiniteSet(S), NEW a \in S,
           \A x \in S : f[x] \in Int /\ g[x] \in Int,
           \A x \in S \ {a} : f[x] = g[x]
    PROVE  SumFunctionOnSet(g, S) = SumFunctionOnSet(f, S) + (g[a] - f[a])
<1> DEFINE D(s) == IF a \in s THEN g[a] - f[a] ELSE 0
           T == {s \in SUBSET S : /\ Partial(f, S)[s] \in Int /\ Partial(g, S)[s] \in Int
                                 /\ Partial(g, S)[s] = Partial(f, S)[s] + D(s)}
<1>1. {} \in T
  BY PartialDef
<1>2. ASSUME NEW s \in SUBSET S, s # {}, s \ {Pick(s)} \in T PROVE s \in T
  <2>1. Pick(s) \in S /\ Pick(s) \in s
    BY <1>2, PickIn
  <2>2. /\ Partial(f, S)[s] = f[Pick(s)] + Partial(f, S)[s \ {Pick(s)}]
        /\ Partial(g, S)[s] = g[Pick(s)] + Partial(g, S)[s \ {Pick(s)}]
    BY <1>2, PartialDef
  <2>3. D(s) = D(s \ {Pick(s)}) + (g[Pick(s)] - f[Pick(s)])
    <3>1. CASE Pick(s) = a
      BY <2>1, <3>1
    <3>2. CASE Pick(s) # a
      BY <2>1, <3>2
    <3> QED BY <3>1, <3>2
  <2>4. D(s) \in Int /\ D(s \ {Pick(s)}) \in Int
    OBVIOUS
  <2> HIDE DEF D
  <2> QED BY <1>2, <2>1, <2>2, <2>3, <2>4
<1> HIDE DEF T
<1>3. T \in SUBSET (SUBSET S)
  BY DEF T
<1>4. T = SUBSET S
  BY <1>1, <1>2, <1>3, SubsetInduction
<1> QED BY <1>4, SumIsPartial DEF T

(* Equal summands have equal sums, and zeros the sum 0.                    *)
LEMMA SumSame ==
    ASSUME NEW f, NEW g, NEW S, IsFiniteSet(S), \A x \in S : f[x] \in Int /\ f[x] = g[x]
    PROVE  SumFunctionOnSet(f, S) = SumFunctionOnSet(g, S)
<1>1. /\ SumFunctionOnSet(f, S) <= SumFunctionOnSet(g, S)
      /\ SumFunctionOnSet(g, S) <= SumFunctionOnSet(f, S)
  BY SumMonotone
<1>2. SumFunctionOnSet(f, S) \in Int /\ SumFunctionOnSet(g, S) \in Int
  BY SumType
<1> QED BY <1>1, <1>2

LEMMA SumZero ==
    ASSUME NEW f, NEW S, IsFiniteSet(S), \A x \in S : f[x] = 0
    PROVE  SumFunctionOnSet(f, S) = 0
<1> DEFINE T == {s \in SUBSET S : Partial(f, S)[s] = 0}
<1>1. {} \in T
  BY PartialDef
<1>2. ASSUME NEW s \in SUBSET S, s # {}, s \ {Pick(s)} \in T PROVE s \in T
  BY <1>2, PartialDef, PickIn
<1> HIDE DEF T
<1>3. T \in SUBSET (SUBSET S)
  BY DEF T
<1>4. T = SUBSET S
  BY <1>1, <1>2, <1>3, SubsetInduction
<1> QED BY <1>4, SumIsPartial DEF T

-----------------------------------------------------------------------------
(* Sums over different sets *)

LEMMA PartialIsSum ==
    ASSUME NEW f, NEW S, IsFiniteSet(S), NEW s \in SUBSET S
    PROVE  Partial(f, S)[s] = SumFunctionOnSet(f, s)
<1>1. IsFiniteSet(s)
  BY FS_Subset
<1> DEFINE T == {u \in SUBSET s : Partial(f, S)[u] = Partial(f, s)[u]}
<1>2. {} \in T
  BY <1>1, PartialDef
<1>3. ASSUME NEW u \in SUBSET s, u # {}, u \ {Pick(u)} \in T PROVE u \in T
  <2>1. u \in SUBSET S
    OBVIOUS
  <2>2. /\ Partial(f, S)[u] = f[Pick(u)] + Partial(f, S)[u \ {Pick(u)}]
        /\ Partial(f, s)[u] = f[Pick(u)] + Partial(f, s)[u \ {Pick(u)}]
    BY <1>1, <1>3, <2>1, PartialDef
  <2> QED BY <1>3, <2>2
<1> HIDE DEF T
<1>4. T \in SUBSET (SUBSET s)
  BY DEF T
<1>5. T = SUBSET s
  BY <1>1, <1>2, <1>3, <1>4, SubsetInduction
<1> QED BY <1>5, SumIsPartial DEF T

LEMMA SumPick ==
    ASSUME NEW f, NEW S, IsFiniteSet(S), S # {}
    PROVE  SumFunctionOnSet(f, S) = f[Pick(S)] + SumFunctionOnSet(f, S \ {Pick(S)})
<1>1. Partial(f, S)[S] = f[Pick(S)] + Partial(f, S)[S \ {Pick(S)}]
  BY PartialDef
<1>2. S \in SUBSET S /\ S \ {Pick(S)} \in SUBSET S
  OBVIOUS
<1> QED BY <1>1, <1>2, PartialIsSum

(* The order in which elements are taken does not matter.                  *)
LEMMA SumRemove ==
    ASSUME NEW f, NEW S, IsFiniteSet(S), \A x \in S : f[x] \in Int, NEW a \in S
    PROVE  SumFunctionOnSet(f, S) = f[a] + SumFunctionOnSet(f, S \ {a})
<1> DEFINE Ok(s) == \A x \in s : SumFunctionOnSet(f, s) = f[x] + SumFunctionOnSet(f, s \ {x})
           N == {n \in Nat : \A s \in SUBSET S : Cardinality(s) <= n => Ok(s)}
<1>1. \A s \in SUBSET S : /\ IsFiniteSet(s) /\ Cardinality(s) \in Nat
                          /\ SumFunctionOnSet(f, s) \in Int
  BY FS_Subset, FS_CardinalityType, SumType
<1>2. 0 \in N
  <2> SUFFICES ASSUME NEW s \in SUBSET S, Cardinality(s) <= 0 PROVE Ok(s)
    OBVIOUS
  <2>1. Cardinality(s) = 0
    BY <1>1
  <2>2. s = {}
    BY <1>1, <2>1, FS_EmptySet
  <2> QED BY <2>2
<1>3. ASSUME NEW n \in N PROVE n + 1 \in N
  <2> SUFFICES ASSUME NEW s \in SUBSET S, Cardinality(s) <= n + 1, NEW x \in s
               PROVE  SumFunctionOnSet(f, s) = f[x] + SumFunctionOnSet(f, s \ {x})
    OBVIOUS
  <2> DEFINE y == Pick(s)
  <2>1. y \in s /\ SumFunctionOnSet(f, s) = f[y] + SumFunctionOnSet(f, s \ {y})
    BY <1>1, SumPick, PickIn
  <2> HIDE DEF y
  <2>2. CASE x = y
    BY <2>1, <2>2
  <2>3. CASE x # y
    <3>1. Cardinality(s \ {x}) <= n /\ Cardinality(s \ {y}) <= n
      <4>1. Cardinality(s \ {x}) = Cardinality(s) - 1 /\ Cardinality(s \ {y}) = Cardinality(s) - 1
        BY <1>1, <2>1, FS_RemoveElement
      <4> QED BY <1>1, <4>1
    <3>2. s \ {x} \in SUBSET S /\ s \ {y} \in SUBSET S /\ (s \ {x}) \ {y} \in SUBSET S
      OBVIOUS
    <3>3. Ok(s \ {x}) /\ Ok(s \ {y})
      BY <3>1, <3>2
    <3>4. SumFunctionOnSet(f, s \ {x}) = f[y] + SumFunctionOnSet(f, (s \ {x}) \ {y})
      BY <2>1, <2>3, <3>3
    <3>5. SumFunctionOnSet(f, s \ {y}) = f[x] + SumFunctionOnSet(f, (s \ {y}) \ {x})
      BY <2>1, <2>3, <3>3
    <3>6. (s \ {x}) \ {y} = (s \ {y}) \ {x}
      OBVIOUS
    <3>7. f[x] \in Int /\ f[y] \in Int /\ SumFunctionOnSet(f, (s \ {x}) \ {y}) \in Int
      BY <1>1, <2>1, <3>2
    <3> DEFINE r == SumFunctionOnSet(f, (s \ {x}) \ {y})
    <3>8. /\ SumFunctionOnSet(f, s \ {x}) = f[y] + r /\ SumFunctionOnSet(f, s \ {y}) = f[x] + r
          /\ r \in Int
      BY <3>4, <3>5, <3>6, <3>7
    <3> HIDE DEF r
    <3> QED BY <2>1, <3>7, <3>8
  <2> QED BY <2>2, <2>3
<1> HIDE DEF N
<1>4. N \in SUBSET Nat
  BY DEF N
<1>5. Cardinality(S) \in N
  BY <1>1, <1>2, <1>3, <1>4, NumbersInduction
<1> QED BY <1>1, <1>5 DEF N

(* More natural numbers have a larger sum.                                 *)
LEMMA SumSubset ==
    ASSUME NEW f, NEW T, IsFiniteSet(T), \A x \in T : f[x] \in Nat, NEW S \in SUBSET T
    PROVE  SumFunctionOnSet(f, S) <= SumFunctionOnSet(f, T)
<1> DEFINE R == T \ S
           U == {u \in SUBSET R : SumFunctionOnSet(f, S) <= SumFunctionOnSet(f, S \cup u)}
<1>1. IsFiniteSet(R) /\ R \subseteq T
  BY FS_Subset
<1>2. \A s \in SUBSET T : IsFiniteSet(s) /\ SumFunctionOnSet(f, s) \in Nat
  BY FS_Subset, SumType
<1>3. {} \in U
  <2>1. S \cup {} = S
    OBVIOUS
  <2> QED BY <1>2, <2>1
<1>4. ASSUME NEW u \in SUBSET R, u # {}, u \ {Pick(u)} \in U PROVE u \in U
  <2> DEFINE x == Pick(u)
  <2>1. x \in u
    BY <1>4, PickIn
  <2> HIDE DEF x
  <2>2. S \cup u \in SUBSET T /\ x \in S \cup u /\ (S \cup u) \ {x} = S \cup (u \ {x})
        /\ S \cup (u \ {x}) \in SUBSET T
    BY <2>1
  <2>3. SumFunctionOnSet(f, S \cup u) = f[x] + SumFunctionOnSet(f, S \cup (u \ {x}))
    <3>1. \A z \in S \cup u : f[z] \in Int
      BY <2>2
    <3>2. IsFiniteSet(S \cup u)
      BY <1>2, <2>2
    <3>3. SumFunctionOnSet(f, S \cup u) = f[x] + SumFunctionOnSet(f, (S \cup u) \ {x})
      BY <2>2, <3>1, <3>2, SumRemove
    <3> QED BY <2>2, <3>3
  <2>4. SumFunctionOnSet(f, S) <= SumFunctionOnSet(f, S \cup (u \ {x}))
    BY <1>4 DEF x
  <2>5. f[x] \in Nat /\ SumFunctionOnSet(f, S) \in Nat /\ SumFunctionOnSet(f, S \cup (u \ {x})) \in Nat
    BY <1>1, <1>2, <2>1, <2>2
  <2>6. SumFunctionOnSet(f, S) <= SumFunctionOnSet(f, S \cup u)
    BY <2>3, <2>4, <2>5
  <2> QED BY <2>6
<1> HIDE DEF U
<1>5. U \in SUBSET (SUBSET R)
  BY DEF U
<1>6. U = SUBSET R
  BY <1>1, <1>3, <1>4, <1>5, SubsetInduction
<1>7. R \in U /\ S \cup R = T
  BY <1>6
<1> QED BY <1>7 DEF U

(* An element adds at most itself.                                         *)
LEMMA SumAdd ==
    ASSUME NEW f, NEW S, IsFiniteSet(S), NEW a, \A x \in S \cup {a} : f[x] \in Nat
    PROVE  SumFunctionOnSet(f, S \cup {a}) <= SumFunctionOnSet(f, S) + f[a]
<1>1. IsFiniteSet(S \cup {a})
  BY FS_AddElement
<1>2. \A x \in S \cup {a} : f[x] \in Int
  OBVIOUS
<1>3. a \in S \cup {a}
  OBVIOUS
<1>4. SumFunctionOnSet(f, S \cup {a}) = f[a] + SumFunctionOnSet(f, (S \cup {a}) \ {a})
  BY <1>1, <1>2, <1>3, SumRemove
<1>5. (S \cup {a}) \ {a} \in SUBSET S
  OBVIOUS
<1>6. SumFunctionOnSet(f, (S \cup {a}) \ {a}) <= SumFunctionOnSet(f, S)
  BY <1>5, SumSubset
<1>7. IsFiniteSet((S \cup {a}) \ {a})
  BY <1>5, FS_Subset
<1>8. /\ SumFunctionOnSet(f, (S \cup {a}) \ {a}) \in Nat /\ SumFunctionOnSet(f, S) \in Nat
      /\ f[a] \in Nat
  BY <1>5, <1>7, SumType
<1> QED BY <1>4, <1>6, <1>8
=============================================================================
