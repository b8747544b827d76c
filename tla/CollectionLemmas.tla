-------------------------- MODULE CollectionLemmas --------------------------
(***************************************************************************)
(* What the operators on sets and sequences that the models are built from *)
(* do: the sum of a function over a finite set, SumFunctionOnSet of the    *)
(* module Functions, when the set grows, shrinks or is split; and the      *)
(* elements of a sequence, and which are ahead of which, when an element   *)
(* is put in or taken out.                                                 *)
(***************************************************************************)
EXTENDS Integers, FiniteSets, Functions, SequencesExt, FiniteSetTheorems,
        SequenceTheorems, NaturalsInduction, WellFoundedInduction, TLAPS

(***************************************************************************)
(* Natural numbers.                                                        *)
(***************************************************************************)
\* A set of natural numbers has a least one.
LEMMA Least ==
  ASSUME NEW S \in SUBSET Nat, S # {}
  PROVE  \E k \in S : \A j \in S : k <= j
<1>1. IsWellFoundedOn(OpToRel(<, Nat), Nat)
  BY NatLessThanWellFounded
<1>2. PICK k \in S : \A j \in S : ~ (<<j, k>> \in OpToRel(<, Nat))
  BY <1>1, WFMin
<1>3. \A j \in S : ~ (j < k)
  BY <1>2 DEF OpToRel
<1> QED
  BY <1>3

\* A set that holds 0 and the successor of each of its numbers holds them all.
LEMMA SetInduction ==
  ASSUME NEW P \in SUBSET Nat, 0 \in P, \A n \in P : n + 1 \in P
  PROVE  P = Nat
<1> SUFFICES ASSUME Nat \ P # {} PROVE FALSE
  OBVIOUS
<1>1. PICK k \in Nat \ P : \A j \in Nat \ P : k <= j
  BY Least
<1>2. k # 0
  OBVIOUS
<1>3. k - 1 \in Nat /\ ~ (k <= k - 1)
  BY <1>2
<1>4. k - 1 \in P
  BY <1>1, <1>3
<1>5. (k - 1) + 1 \in P
  BY <1>4
<1> QED
  BY <1>1, <1>5

(***************************************************************************)
(* Sums.                                                                   *)
(***************************************************************************)
\* The function behind SumFunctionOnSet: its value at a set T, and the sets of
\* which it is a solution.
Pick(T) == CHOOSE x \in T : TRUE
Addition(g, h, T) == IF T = {} THEN 0 ELSE h[Pick(T)] + g[T \ {Pick(T)}]
Totals(g, h, D) == g = [T \in D |-> Addition(g, h, T)]
Solves(g, h, S) == Totals(g, h, SUBSET S)
UpTo(S, n) == {T \in SUBSET S : Cardinality(T) <= n}

LEMMA TotalsExist ==
  ASSUME NEW S, IsFiniteSet(S), NEW h
  PROVE  \E g : Solves(g, h, S)
<1> DEFINE P == {n \in Nat : \E g : Totals(g, h, UpTo(S, n))}
<1>0. \A T \in SUBSET S : IsFiniteSet(T) /\ Cardinality(T) \in Nat
  BY FS_Subset, FS_CardinalityType
<1>1. 0 \in P
  <2>1. UpTo(S, 0) = {{}}
    <3>1. \A T \in UpTo(S, 0) : T = {}
      BY <1>0, FS_EmptySet DEF UpTo
    <3>2. {} \in UpTo(S, 0)
      BY FS_EmptySet DEF UpTo
    <3> QED
      BY <3>1, <3>2
  <2>2. Totals([T \in {{}} |-> 0], h, {{}})
    BY DEF Totals, Addition
  <2> QED
    BY <2>1, <2>2
<1>2. ASSUME NEW n \in P PROVE n + 1 \in P
  <2>1. PICK g : Totals(g, h, UpTo(S, n))
    OBVIOUS
  <2> DEFINE k == [T \in UpTo(S, n + 1) |-> Addition(g, h, T)]
  <2>2. \A T \in UpTo(S, n) : g[T] = Addition(g, h, T)
    BY <2>1 DEF Totals
  <2>3. \A T \in UpTo(S, n) : T \in UpTo(S, n + 1)
    BY <1>0 DEF UpTo
  <2>4. \A T \in UpTo(S, n) : k[T] = g[T]
    BY <2>2, <2>3
  <2>5. ASSUME NEW T \in UpTo(S, n + 1), T # {}
        PROVE  T \ {Pick(T)} \in UpTo(S, n)
    <3>1. Pick(T) \in T /\ T \in SUBSET S /\ Cardinality(T) <= n + 1
      BY <2>5 DEF Pick, UpTo
    <3>2. Cardinality(T \ {Pick(T)}) = Cardinality(T) - 1
      BY <1>0, <3>1, FS_RemoveElement
    <3> QED
      BY <1>0, <3>1, <3>2 DEF UpTo
  <2>6. \A T \in UpTo(S, n + 1) : Addition(g, h, T) = Addition(k, h, T)
    BY <2>4, <2>5 DEF Addition
  <2>7. Totals(k, h, UpTo(S, n + 1))
    BY <2>6 DEF Totals
  <2> QED
    BY <2>7
<1>3. P = Nat
  <2>1. P \in SUBSET Nat
    OBVIOUS
  <2> HIDE DEF P
  <2> QED
    BY <1>1, <1>2, <2>1, SetInduction
<1>4. Cardinality(S) \in P
  BY <1>0, <1>3
<1>5. UpTo(S, Cardinality(S)) = SUBSET S
  BY FS_Subset DEF UpTo
<1> QED
  BY <1>4, <1>5 DEF Solves

\* A set of n + 1 elements without one of them.
LEMMA OneLess ==
  ASSUME NEW S, IsFiniteSet(S), NEW x \in S, NEW n \in Nat, Cardinality(S) = n + 1
  PROVE  Cardinality(S \ {x}) = n /\ IsFiniteSet(S \ {x})
<1>1. Cardinality(S \ {x}) = Cardinality(S) - 1 /\ IsFiniteSet(S \ {x})
  BY FS_RemoveElement
<1> QED
  BY <1>1

\* Solutions agree where their domains and the numbers do.
LEMMA TotalsAgree ==
  ASSUME NEW S, NEW g, NEW h, Solves(g, h, S),
         NEW U \in SUBSET S, IsFiniteSet(U), NEW k, NEW j, Solves(k, j, U),
         \A x \in U : h[x] = j[x]
  PROVE  g[U] = k[U]
<1> DEFINE P == {n \in Nat : \A V \in SUBSET U : Cardinality(V) = n => g[V] = k[V]}
<1>0. \A V \in SUBSET U : IsFiniteSet(V) /\ Cardinality(V) \in Nat
  BY FS_Subset, FS_CardinalityType
<1>a. /\ \A V \in SUBSET U : g[V] = Addition(g, h, V)
      /\ \A V \in SUBSET U : k[V] = Addition(k, j, V)
  BY DEF Solves, Totals
<1>1. 0 \in P
  <2>1. \A V \in SUBSET U : Cardinality(V) = 0 => V = {}
    BY <1>0, FS_EmptySet
  <2>2. g[{}] = 0 /\ k[{}] = 0
    BY <1>a DEF Addition
  <2> QED
    BY <2>1, <2>2
<1>2. ASSUME NEW n \in P PROVE n + 1 \in P
  <2> SUFFICES ASSUME NEW V \in SUBSET U, Cardinality(V) = n + 1 PROVE g[V] = k[V]
    OBVIOUS
  <2>0. n + 1 # 0 /\ n \in Nat /\ IsFiniteSet(V) /\ V \subseteq U
    BY <1>0
  <2>1. V # {}
    BY <2>0, FS_EmptySet
  <2>2. Pick(V) \in V
    BY <2>1 DEF Pick
  <2>3. Cardinality(V \ {Pick(V)}) = n
    BY <2>0, <2>2, OneLess
  <2>4. g[V \ {Pick(V)}] = k[V \ {Pick(V)}]
    BY <2>3
  <2> QED
    BY <1>a, <2>1, <2>2, <2>4 DEF Addition
<1>3. P = Nat
  <2>1. P \in SUBSET Nat
    OBVIOUS
  <2> HIDE DEF P
  <2> QED
    BY <1>1, <1>2, <2>1, SetInduction
<1> QED
  BY <1>0, <1>3

LEMMA SumIsTotal ==
  ASSUME NEW S, IsFiniteSet(S), NEW h
  PROVE  \E g : Solves(g, h, S) /\ SumFunctionOnSet(h, S) = g[S]
<1>1. SumFunctionOnSet(h, S)
        = (CHOOSE g : g = [T \in SUBSET S |->
                             IF T = {} THEN 0 ELSE h[Pick(T)] + g[T \ {Pick(T)}]])[S]
  BY Zenon DEF SumFunctionOnSet, FoldFunctionOnSet, MapThenFoldSet, Pick
<1>2. SumFunctionOnSet(h, S) = (CHOOSE g : Solves(g, h, S))[S]
  BY <1>1, Zenon DEF Solves, Totals, Addition
<1>3. \E g : Solves(g, h, S)
  BY TotalsExist
<1> QED
  BY <1>2, <1>3

\* A sum depends on the numbers summed.
LEMMA SumSame ==
  ASSUME NEW S, IsFiniteSet(S), NEW g, NEW h, \A x \in S : g[x] = h[x]
  PROVE  SumFunctionOnSet(g, S) = SumFunctionOnSet(h, S)
<1>1. PICK a : Solves(a, g, S) /\ SumFunctionOnSet(g, S) = a[S]
  BY SumIsTotal
<1>2. PICK b : Solves(b, h, S) /\ SumFunctionOnSet(h, S) = b[S]
  BY SumIsTotal
<1> QED
  BY <1>1, <1>2, TotalsAgree

LEMMA SumStep ==
  ASSUME NEW S, IsFiniteSet(S), NEW h
  PROVE  /\ S = {} => SumFunctionOnSet(h, S) = 0
         /\ S # {} => /\ Pick(S) \in S
                      /\ SumFunctionOnSet(h, S)
                            = h[Pick(S)] + SumFunctionOnSet(h, S \ {Pick(S)})
<1>1. PICK g : Solves(g, h, S) /\ SumFunctionOnSet(h, S) = g[S]
  BY SumIsTotal
<1>2. g[S] = Addition(g, h, S)
  BY <1>1 DEF Solves, Totals
<1>3. CASE S = {}
  BY <1>1, <1>2, <1>3 DEF Addition
<1>4. CASE S # {}
  <2> DEFINE R == S \ {Pick(S)}
  <2>1. IsFiniteSet(R) /\ R \subseteq S
    BY FS_Subset
  <2>2. PICK k : Solves(k, h, R) /\ SumFunctionOnSet(h, R) = k[R]
    BY <2>1, SumIsTotal
  <2> HIDE DEF R
  <2>3. g[R] = k[R]
    BY <1>1, <2>1, <2>2, TotalsAgree
  <2>4. Pick(S) \in S
    BY <1>4 DEF Pick
  <2> QED
    BY <1>1, <1>2, <1>4, <2>2, <2>3, <2>4 DEF Addition, R
<1> QED
  BY <1>3, <1>4

\* A sum of natural numbers is one.
LEMMA SumNat ==
  ASSUME NEW S, IsFiniteSet(S), NEW h, \A x \in S : h[x] \in Nat
  PROVE  SumFunctionOnSet(h, S) \in Nat
<1> DEFINE P == {n \in Nat : \A T \in SUBSET S :
                   Cardinality(T) = n => SumFunctionOnSet(h, T) \in Nat}
<1>0. \A T \in SUBSET S : IsFiniteSet(T) /\ Cardinality(T) \in Nat
  BY FS_Subset, FS_CardinalityType
<1>1. 0 \in P
  BY <1>0, SumStep, FS_EmptySet
<1>2. ASSUME NEW n \in P PROVE n + 1 \in P
  <2> SUFFICES ASSUME NEW T \in SUBSET S, Cardinality(T) = n + 1
               PROVE  SumFunctionOnSet(h, T) \in Nat
    OBVIOUS
  <2>1. IsFiniteSet(T) /\ n + 1 # 0 /\ n \in Nat
    BY <1>0
  <2>2. T # {}
    BY <2>1, FS_EmptySet
  <2> DEFINE y == Pick(T)
  <2>3. y \in T /\ SumFunctionOnSet(h, T) = h[y] + SumFunctionOnSet(h, T \ {y})
    BY <2>1, <2>2, SumStep
  <2> HIDE DEF y
  <2>4. Cardinality(T \ {y}) = n
    BY <2>1, <2>3, OneLess
  <2>5. SumFunctionOnSet(h, T \ {y}) \in Nat
    BY <2>4
  <2> QED
    BY <2>3, <2>5
<1>3. P = Nat
  <2>1. P \in SUBSET Nat
    OBVIOUS
  <2> HIDE DEF P
  <2> QED
    BY <1>1, <1>2, <2>1, SetInduction
<1> QED
  BY <1>0, <1>3

\* Any of the numbers can be taken out of a sum.
LEMMA SumTakeOut ==
  ASSUME NEW S, IsFiniteSet(S), NEW h, \A x \in S : h[x] \in Nat
  PROVE  \A x \in S : SumFunctionOnSet(h, S) = h[x] + SumFunctionOnSet(h, S \ {x})
<1> DEFINE Right(T) == \A x \in T :
             SumFunctionOnSet(h, T) = h[x] + SumFunctionOnSet(h, T \ {x})
           P == {n \in Nat : \A T \in SUBSET S : Cardinality(T) = n => Right(T)}
<1>0. \A T \in SUBSET S : IsFiniteSet(T) /\ Cardinality(T) \in Nat
  BY FS_Subset, FS_CardinalityType
<1>a. \A T \in SUBSET S : SumFunctionOnSet(h, T) \in Nat
  BY <1>0, SumNat
<1>1. 0 \in P
  <2>1. \A T \in SUBSET S : Cardinality(T) = 0 => T = {}
    BY <1>0, FS_EmptySet
  <2> QED
    BY <2>1
<1>2. ASSUME NEW n \in P PROVE n + 1 \in P
  <2> SUFFICES ASSUME NEW T \in SUBSET S, Cardinality(T) = n + 1 PROVE Right(T)
    OBVIOUS
  <2>0. IsFiniteSet(T) /\ n + 1 # 0 /\ n \in Nat
    BY <1>0
  <2>1. ASSUME NEW x \in T PROVE Right(T \ {x})
    <3>1. Cardinality(T \ {x}) = n
      BY <2>0, OneLess
    <3> QED
      BY <3>1
  <2>2. T # {}
    BY <2>0, FS_EmptySet
  <2> DEFINE y == Pick(T)
  <2>3. y \in T /\ SumFunctionOnSet(h, T) = h[y] + SumFunctionOnSet(h, T \ {y})
    BY <2>0, <2>2, SumStep
  <2> HIDE DEF y
  <2>4. ASSUME NEW x \in T, x # y
        PROVE  SumFunctionOnSet(h, T) = h[x] + SumFunctionOnSet(h, T \ {x})
    <3> DEFINE R == T \ {x, y}
    <3>1. (T \ {y}) \ {x} = R /\ (T \ {x}) \ {y} = R
      OBVIOUS
    <3>2. SumFunctionOnSet(h, T \ {y}) = h[x] + SumFunctionOnSet(h, R)
      BY <2>1, <2>3, <2>4, <3>1
    <3>3. SumFunctionOnSet(h, T \ {x}) = h[y] + SumFunctionOnSet(h, R)
      BY <2>1, <2>3, <2>4, <3>1
    <3>4. h[x] \in Nat /\ h[y] \in Nat /\ SumFunctionOnSet(h, R) \in Nat
      BY <1>a, <2>3
    <3> QED
      BY <2>3, <3>2, <3>3, <3>4
  <2> QED
    BY <2>3, <2>4
<1>3. P = Nat
  <2>1. P \in SUBSET Nat
    OBVIOUS
  <2> HIDE DEF P
  <2> QED
    BY <1>1, <1>2, <2>1, SetInduction
<1> QED
  BY <1>0, <1>3

\* Numbers that are all 0 add up to 0.
LEMMA SumZero ==
  ASSUME NEW S, IsFiniteSet(S), NEW h, \A x \in S : h[x] = 0
  PROVE  SumFunctionOnSet(h, S) = 0
<1> DEFINE P == {n \in Nat : \A T \in SUBSET S :
                   Cardinality(T) = n => SumFunctionOnSet(h, T) = 0}
<1>0. \A T \in SUBSET S : IsFiniteSet(T) /\ Cardinality(T) \in Nat
  BY FS_Subset, FS_CardinalityType
<1>1. 0 \in P
  BY <1>0, SumStep, FS_EmptySet
<1>2. ASSUME NEW n \in P PROVE n + 1 \in P
  <2> SUFFICES ASSUME NEW T \in SUBSET S, Cardinality(T) = n + 1
               PROVE  SumFunctionOnSet(h, T) = 0
    OBVIOUS
  <2>1. IsFiniteSet(T) /\ n + 1 # 0 /\ n \in Nat
    BY <1>0
  <2>2. T # {}
    BY <2>1, FS_EmptySet
  <2> DEFINE y == Pick(T)
  <2>3. y \in T /\ SumFunctionOnSet(h, T) = h[y] + SumFunctionOnSet(h, T \ {y})
    BY <2>1, <2>2, SumStep
  <2> HIDE DEF y
  <2>4. Cardinality(T \ {y}) = n
    BY <2>1, <2>3, OneLess
  <2>5. SumFunctionOnSet(h, T \ {y}) = 0
    BY <2>4
  <2> QED
    BY <2>3, <2>5
<1>3. P = Nat
  <2>1. P \in SUBSET Nat
    OBVIOUS
  <2> HIDE DEF P
  <2> QED
    BY <1>1, <1>2, <2>1, SetInduction
<1> QED
  BY <1>0, <1>3

\* A sum is that of a part and of the rest.
LEMMA SumSplit ==
  ASSUME NEW S, IsFiniteSet(S), NEW h, \A x \in S : h[x] \in Nat, NEW N \in SUBSET S
  PROVE  SumFunctionOnSet(h, S) = SumFunctionOnSet(h, N) + SumFunctionOnSet(h, S \ N)
<1> DEFINE P == {n \in Nat : \A T \in SUBSET N : Cardinality(T) = n =>
                   SumFunctionOnSet(h, S)
                     = SumFunctionOnSet(h, T) + SumFunctionOnSet(h, S \ T)}
<1>0. \A T \in SUBSET S : IsFiniteSet(T) /\ Cardinality(T) \in Nat
  BY FS_Subset, FS_CardinalityType
<1>a. \A T \in SUBSET S : SumFunctionOnSet(h, T) \in Nat
  BY <1>0, SumNat
<1>1. 0 \in P
  <2>1. \A T \in SUBSET N : Cardinality(T) = 0 => T = {}
    BY <1>0, FS_EmptySet
  <2>2. SumFunctionOnSet(h, {}) = 0
    BY SumStep, FS_EmptySet
  <2>3. S \ {} = S /\ SumFunctionOnSet(h, S) \in Nat
    BY <1>a
  <2> QED
    BY <2>1, <2>2, <2>3
<1>2. ASSUME NEW n \in P PROVE n + 1 \in P
  <2> SUFFICES ASSUME NEW T \in SUBSET N, Cardinality(T) = n + 1
               PROVE  SumFunctionOnSet(h, S)
                        = SumFunctionOnSet(h, T) + SumFunctionOnSet(h, S \ T)
    OBVIOUS
  <2>1. IsFiniteSet(T) /\ n + 1 # 0 /\ n \in Nat /\ T \in SUBSET S
    BY <1>0
  <2>2. T # {}
    BY <2>1, FS_EmptySet
  <2>3. PICK y : y \in T
    BY <2>2
  <2> DEFINE R == T \ {y}
  <2>4. Cardinality(R) = n /\ R \in SUBSET N
    BY <2>1, <2>3, OneLess
  <2>5. SumFunctionOnSet(h, S) = SumFunctionOnSet(h, R) + SumFunctionOnSet(h, S \ R)
    BY <2>4
  <2>6. SumFunctionOnSet(h, T) = h[y] + SumFunctionOnSet(h, R)
    BY <2>1, <2>3, SumTakeOut
  <2>7. SumFunctionOnSet(h, S \ R) = h[y] + SumFunctionOnSet(h, S \ T)
    <3>1. y \in S \ R /\ (S \ R) \ {y} = S \ T /\ IsFiniteSet(S \ R)
      BY <1>0, <2>1, <2>3
    <3> QED
      BY <3>1, SumTakeOut
  <2>8. /\ h[y] \in Nat /\ SumFunctionOnSet(h, R) \in Nat
        /\ SumFunctionOnSet(h, S \ T) \in Nat
    BY <1>a, <2>1, <2>3
  <2> QED
    BY <2>5, <2>6, <2>7, <2>8
<1>3. P = Nat
  <2>1. P \in SUBSET Nat
    OBVIOUS
  <2> HIDE DEF P
  <2> QED
    BY <1>1, <1>2, <2>1, SetInduction
<1>4. IsFiniteSet(N) /\ Cardinality(N) \in Nat
  BY <1>0
<1> QED
  BY <1>3, <1>4

(***************************************************************************)
(* Sequences.                                                              *)
(***************************************************************************)
\* Dropping a position shortens a sequence by one.
LEMMA RemoveAtType ==
  ASSUME NEW S, NEW s \in Seq(S), NEW k \in 1 .. Len(s)
  PROVE  RemoveAt(s, k) \in Seq(S) /\ Len(RemoveAt(s, k)) = Len(s) - 1
<1>0. Len(s) \in Nat /\ \A j \in 1 .. Len(s) : s[j] \in S
  BY LenProperties, ElementOfSeq
<1>1. /\ SubSeq(s, 1, k - 1) \in Seq(S)
      /\ Len(SubSeq(s, 1, k - 1)) = k - 1
  <2>1. \A j \in 1 .. k - 1 : s[j] \in S
    BY <1>0
  <2> QED
    BY <1>0, <2>1, SubSeqProperties
<1>2. /\ SubSeq(s, k + 1, Len(s)) \in Seq(S)
      /\ Len(SubSeq(s, k + 1, Len(s))) = Len(s) - k
  <2>1. \A j \in k + 1 .. Len(s) : s[j] \in S
    BY <1>0
  <2> QED
    BY <1>0, <2>1, SubSeqProperties
<1> DEFINE a == SubSeq(s, 1, k - 1)
           b == SubSeq(s, k + 1, Len(s))
<1>3. a \o b \in Seq(S) /\ Len(a \o b) = Len(s) - 1
  <2> HIDE DEF a, b
  <2>1. a \in Seq(S) /\ b \in Seq(S) /\ Len(a) = k - 1 /\ Len(b) = Len(s) - k
    BY <1>1, <1>2 DEF a, b
  <2>2. a \o b \in Seq(S) /\ Len(a \o b) = Len(a) + Len(b)
    BY <2>1, ConcatProperties, Zenon
  <2> QED
    BY <1>0, <2>1, <2>2
<1> QED
  BY <1>3, Zenon DEF RemoveAt

\* A sequence without one position.
LEMMA RemoveAtElements ==
  ASSUME NEW S, NEW s \in Seq(S), NEW k \in 1 .. Len(s)
  PROVE  \A i \in 1 .. Len(s) - 1 : RemoveAt(s, k)[i] = IF i < k THEN s[i] ELSE s[i + 1]
<1> DEFINE a == SubSeq(s, 1, k - 1)
           b == SubSeq(s, k + 1, Len(s))
<1>0. Len(s) \in Nat /\ \A j \in 1 .. Len(s) : s[j] \in S
  BY LenProperties, ElementOfSeq
<1>1. /\ a \in Seq(S) /\ Len(a) = k - 1
      /\ \A i \in 1 .. k - 1 : a[i] = s[i]
  <2>1. \A j \in 1 .. k - 1 : s[j] \in S
    BY <1>0
  <2> QED
    BY <1>0, <2>1, SubSeqProperties
<1>2. /\ b \in Seq(S) /\ Len(b) = Len(s) - k
      /\ \A i \in 1 .. Len(s) - k : b[i] = s[k + i]
  <2>1. \A j \in k + 1 .. Len(s) : s[j] \in S
    BY <1>0
  <2>2. /\ b \in Seq(S)
        /\ Len(b) = IF k + 1 <= Len(s) THEN Len(s) - (k + 1) + 1 ELSE 0
        /\ \A i \in 1 .. Len(s) - (k + 1) + 1 : b[i] = s[k + 1 + i - 1]
    BY <1>0, <2>1, SubSeqProperties
  <2> HIDE DEF b
  <2> QED
    BY <1>0, <2>2
<1> HIDE DEF a, b
<1>3. \A i \in 1 .. Len(a) + Len(b) :
        (a \o b)[i] = IF i <= Len(a) THEN a[i] ELSE b[i - Len(a)]
  BY <1>1, <1>2, ConcatProperties, Zenon
<1>4. RemoveAt(s, k) = a \o b
  BY Zenon DEF RemoveAt, a, b
<1> SUFFICES ASSUME NEW i \in 1 .. Len(s) - 1
             PROVE  RemoveAt(s, k)[i] = IF i < k THEN s[i] ELSE s[i + 1]
  OBVIOUS
<1>5. (a \o b)[i] = IF i <= k - 1 THEN a[i] ELSE b[i - (k - 1)]
  <2>1. i \in 1 .. Len(a) + Len(b)
    BY <1>0, <1>1, <1>2
  <2> QED
    BY <1>1, <1>3, <2>1
<1>6. i < k => a[i] = s[i]
  BY <1>1
<1>7. ~ (i < k) => b[i - (k - 1)] = s[i + 1]
  BY <1>0, <1>2
<1> QED
  BY <1>0, <1>4, <1>5, <1>6, <1>7

\* Putting an element in lengthens a sequence by one.
LEMMA InsertAtType ==
  ASSUME NEW S, NEW s \in Seq(S), NEW k \in 1 .. Len(s) + 1, NEW e \in S
  PROVE  InsertAt(s, k, e) \in Seq(S) /\ Len(InsertAt(s, k, e)) = Len(s) + 1
<1>0. Len(s) \in Nat /\ \A j \in 1 .. Len(s) : s[j] \in S
  BY LenProperties, ElementOfSeq
<1>1. /\ SubSeq(s, 1, k - 1) \in Seq(S)
      /\ Len(SubSeq(s, 1, k - 1)) = k - 1
  <2>1. \A j \in 1 .. k - 1 : s[j] \in S
    BY <1>0
  <2> QED
    BY <1>0, <2>1, SubSeqProperties
<1>2. /\ SubSeq(s, k, Len(s)) \in Seq(S)
      /\ Len(SubSeq(s, k, Len(s))) = Len(s) - k + 1
  <2>1. \A j \in k .. Len(s) : s[j] \in S
    BY <1>0
  <2> QED
    BY <1>0, <2>1, SubSeqProperties
<1>3. <<e>> \in Seq(S) /\ Len(<<e>>) = 1
  OBVIOUS
<1>4. /\ SubSeq(s, 1, k - 1) \o <<e>> \in Seq(S)
      /\ Len(SubSeq(s, 1, k - 1) \o <<e>>) = k
  BY <1>1, <1>3, ConcatProperties
<1> DEFINE a == SubSeq(s, 1, k - 1) \o <<e>>
           b == SubSeq(s, k, Len(s))
<1>5. a \o b \in Seq(S) /\ Len(a \o b) = Len(s) + 1
  <2> HIDE DEF a, b
  <2>1. a \in Seq(S) /\ b \in Seq(S) /\ Len(a) = k /\ Len(b) = Len(s) - k + 1
    BY <1>2, <1>4 DEF a, b
  <2>2. a \o b \in Seq(S) /\ Len(a \o b) = Len(a) + Len(b)
    BY <2>1, ConcatProperties, Zenon
  <2> QED
    BY <1>0, <2>1, <2>2
<1> QED
  BY <1>5, Zenon DEF InsertAt

\* A sequence with one element more.
LEMMA InsertAtElements ==
  ASSUME NEW S, NEW s \in Seq(S), NEW k \in 1 .. Len(s) + 1, NEW e \in S
  PROVE  \A i \in 1 .. Len(s) + 1 :
           InsertAt(s, k, e)[i] = IF i < k THEN s[i] ELSE IF i = k THEN e ELSE s[i - 1]
<1> DEFINE a == SubSeq(s, 1, k - 1)
           b == SubSeq(s, k, Len(s))
           c == a \o <<e>>
<1>0. Len(s) \in Nat /\ \A j \in 1 .. Len(s) : s[j] \in S
  BY LenProperties, ElementOfSeq
<1>1. /\ a \in Seq(S) /\ Len(a) = k - 1
      /\ \A i \in 1 .. k - 1 : a[i] = s[i]
  <2>1. \A j \in 1 .. k - 1 : s[j] \in S
    BY <1>0
  <2> QED
    BY <1>0, <2>1, SubSeqProperties
<1>2. /\ b \in Seq(S) /\ Len(b) = Len(s) - k + 1
      /\ \A i \in 1 .. Len(s) - k + 1 : b[i] = s[k + i - 1]
  <2>1. \A j \in k .. Len(s) : s[j] \in S
    BY <1>0
  <2> QED
    BY <1>0, <2>1, SubSeqProperties
<1>3. <<e>> \in Seq(S) /\ Len(<<e>>) = 1 /\ <<e>>[1] = e
  OBVIOUS
<1> HIDE DEF a, b
<1>4. /\ c \in Seq(S) /\ Len(c) = k
      /\ \A i \in 1 .. k : c[i] = IF i < k THEN a[i] ELSE e
  <2> DEFINE d == <<e>>
  <2>1. d \in Seq(S) /\ Len(d) = 1 /\ d[1] = e
    BY <1>3
  <2> HIDE DEF d
  <2>2. /\ a \o d \in Seq(S) /\ Len(a \o d) = Len(a) + Len(d)
        /\ \A i \in 1 .. Len(a) + Len(d) :
             (a \o d)[i] = IF i <= Len(a) THEN a[i] ELSE d[i - Len(a)]
    BY <1>1, <2>1, ConcatProperties, Zenon
  <2>3. c = a \o d
    BY DEF d
  <2> HIDE DEF c
  <2>4. Len(c) = k
    BY <1>0, <1>1, <2>1, <2>2, <2>3
  <2>5. \A i \in 1 .. k : c[i] = IF i < k THEN a[i] ELSE e
    <3> SUFFICES ASSUME NEW i \in 1 .. k PROVE c[i] = IF i < k THEN a[i] ELSE e
      OBVIOUS
    <3>1. c[i] = IF i <= k - 1 THEN a[i] ELSE d[i - (k - 1)]
      BY <1>0, <1>1, <2>1, <2>2, <2>3
    <3> QED
      BY <1>0, <2>1, <3>1
  <2> QED
    BY <2>2, <2>3, <2>4, <2>5
<1> HIDE DEF c
<1>5. \A i \in 1 .. Len(c) + Len(b) :
        (c \o b)[i] = IF i <= Len(c) THEN c[i] ELSE b[i - Len(c)]
  BY <1>2, <1>4, ConcatProperties, Zenon
<1>6. InsertAt(s, k, e) = c \o b
  BY Zenon DEF InsertAt, a, b, c
<1> SUFFICES ASSUME NEW i \in 1 .. Len(s) + 1
             PROVE  InsertAt(s, k, e)[i]
                      = IF i < k THEN s[i] ELSE IF i = k THEN e ELSE s[i - 1]
  OBVIOUS
<1>7. (c \o b)[i] = IF i <= k THEN c[i] ELSE b[i - k]
  BY <1>0, <1>2, <1>4, <1>5
<1>8. i < k => c[i] = s[i]
  BY <1>0, <1>1, <1>4
<1>9. i = k => c[i] = e
  BY <1>0, <1>4
<1>10. i > k => b[i - k] = s[i - 1]
  BY <1>0, <1>2
<1> QED
  BY <1>0, <1>6, <1>7, <1>8, <1>9, <1>10

\* x is ahead of y in s.
Ahead(s, x, y) == \E j, k \in DOMAIN s : j < k /\ s[j] = x /\ s[k] = y

\* An element taken out leaves the others as they are.
LEMMA RemoveAtKeeps ==
  ASSUME NEW S, NEW s \in Seq(S), NEW k \in 1 .. Len(s), IsInjective(s)
  PROVE  LET r == RemoveAt(s, k)
         IN  /\ r \in Seq(S) /\ Len(r) = Len(s) - 1 /\ IsInjective(r)
             /\ ToSet(r) = ToSet(s) \ {s[k]}
             /\ \A x, y : Ahead(r, x, y) <=> Ahead(s, x, y) /\ x # s[k] /\ y # s[k]
<1> DEFINE r == RemoveAt(s, k)
           Old(i) == IF i < k THEN i ELSE i + 1
           New(i) == IF i < k THEN i ELSE i - 1
<1>0. Len(s) \in Nat /\ DOMAIN s = 1 .. Len(s)
  BY LenProperties
<1>1. r \in Seq(S) /\ Len(r) = Len(s) - 1
  BY RemoveAtType
<1>2. \A i \in 1 .. Len(s) - 1 : r[i] = IF i < k THEN s[i] ELSE s[i + 1]
  BY RemoveAtElements
<1> HIDE DEF r
<1>3. DOMAIN r = 1 .. Len(s) - 1
  BY <1>1, LenProperties
<1>4. \A i \in DOMAIN r : Old(i) \in DOMAIN s /\ Old(i) # k /\ r[i] = s[Old(i)]
  BY <1>0, <1>2, <1>3
<1>5. \A i \in DOMAIN s : i # k => New(i) \in DOMAIN r /\ r[New(i)] = s[i]
  <2> SUFFICES ASSUME NEW i \in DOMAIN s, i # k
               PROVE  New(i) \in DOMAIN r /\ r[New(i)] = s[i]
    OBVIOUS
  <2>1. New(i) \in 1 .. Len(s) - 1
    BY <1>0
  <2>2. r[New(i)] = IF New(i) < k THEN s[New(i)] ELSE s[New(i) + 1]
    BY <1>2, <2>1
  <2> QED
    BY <1>0, <1>3, <2>1, <2>2
<1>6. \A i, j \in DOMAIN r : i < j => Old(i) < Old(j)
  BY <1>0, <1>3
<1>7. \A i, j \in DOMAIN s : i < j /\ i # k /\ j # k => New(i) < New(j)
  BY <1>0
<1>8. \A i, j \in DOMAIN r : Old(i) = Old(j) => i = j
  BY <1>0, <1>3
<1> HIDE DEF Old, New
<1>9. \A i, j \in DOMAIN s : s[i] = s[j] => i = j
  BY DEF IsInjective
<1>10. IsInjective(r)
  BY <1>4, <1>8, <1>9 DEF IsInjective
<1>11. \A i \in DOMAIN r : r[i] # s[k]
  BY <1>0, <1>4, <1>9
<1>12. ToSet(r) = ToSet(s) \ {s[k]}
  <2>1. \A x \in ToSet(r) : x \in ToSet(s) \ {s[k]}
    BY <1>4, <1>11 DEF ToSet
  <2>2. ASSUME NEW i \in DOMAIN s, s[i] # s[k] PROVE s[i] \in ToSet(r)
    BY <1>5, <2>2 DEF ToSet
  <2> QED
    BY <2>1, <2>2 DEF ToSet
<1>13. ASSUME NEW x, NEW y
       PROVE  Ahead(r, x, y) <=> Ahead(s, x, y) /\ x # s[k] /\ y # s[k]
  <2>1. ASSUME NEW i \in DOMAIN r, NEW j \in DOMAIN r, i < j, r[i] = x, r[j] = y
        PROVE  Ahead(s, x, y) /\ x # s[k] /\ y # s[k]
    BY <1>4, <1>6, <1>11, <2>1 DEF Ahead
  <2>2. ASSUME NEW i \in DOMAIN s, NEW j \in DOMAIN s, i < j, s[i] = x, s[j] = y,
               x # s[k], y # s[k]
        PROVE  Ahead(r, x, y)
    <3>1. i # k /\ j # k
      BY <2>2
    <3> QED
      BY <1>5, <1>7, <2>2, <3>1 DEF Ahead
  <2> QED
    BY <2>1, <2>2 DEF Ahead
<1>14. /\ r \in Seq(S) /\ Len(r) = Len(s) - 1 /\ IsInjective(r)
       /\ ToSet(r) = ToSet(s) \ {s[k]}
       /\ \A x, y : Ahead(r, x, y) <=> Ahead(s, x, y) /\ x # s[k] /\ y # s[k]
  BY <1>1, <1>10, <1>12, <1>13
<1> QED
  BY <1>14 DEF r

\* An element put in leaves the others as they are.
LEMMA InsertAtKeeps ==
  ASSUME NEW S, NEW s \in Seq(S), NEW k \in 1 .. Len(s) + 1, NEW e \in S,
         IsInjective(s), e \notin ToSet(s)
  PROVE  LET r == InsertAt(s, k, e)
         IN  /\ r \in Seq(S) /\ Len(r) = Len(s) + 1 /\ IsInjective(r)
             /\ ToSet(r) = ToSet(s) \cup {e}
             /\ \A x, y : Ahead(r, x, y) <=>
                  \/ Ahead(s, x, y)
                  \/ y = e /\ \E i \in DOMAIN s : i < k /\ s[i] = x
                  \/ x = e /\ \E i \in DOMAIN s : ~ (i < k) /\ s[i] = y
<1> DEFINE r == InsertAt(s, k, e)
           New(i) == IF i < k THEN i ELSE i + 1
<1>0. Len(s) \in Nat /\ DOMAIN s = 1 .. Len(s)
  BY LenProperties
<1>1. r \in Seq(S) /\ Len(r) = Len(s) + 1
  BY InsertAtType
<1>2. \A i \in 1 .. Len(s) + 1 :
        r[i] = IF i < k THEN s[i] ELSE IF i = k THEN e ELSE s[i - 1]
  BY InsertAtElements
<1> HIDE DEF r
<1>3. DOMAIN r = 1 .. Len(s) + 1
  BY <1>1, LenProperties
<1>4. k \in DOMAIN r /\ r[k] = e
  BY <1>0, <1>2, <1>3
<1>5. \A i \in DOMAIN s : New(i) \in DOMAIN r /\ New(i) # k /\ r[New(i)] = s[i]
  <2> SUFFICES ASSUME NEW i \in DOMAIN s
               PROVE  New(i) \in DOMAIN r /\ New(i) # k /\ r[New(i)] = s[i]
    OBVIOUS
  <2>1. New(i) \in 1 .. Len(s) + 1
    BY <1>0
  <2>2. r[New(i)] = IF New(i) < k THEN s[New(i)] ELSE IF New(i) = k THEN e ELSE s[New(i) - 1]
    BY <1>2, <2>1
  <2> QED
    BY <1>0, <1>3, <2>1, <2>2
<1>6. \A j \in DOMAIN r : j # k => \E i \in DOMAIN s : j = New(i)
  <2> SUFFICES ASSUME NEW j \in DOMAIN r, j # k PROVE \E i \in DOMAIN s : j = New(i)
    OBVIOUS
  <2>1. CASE j < k
    BY <1>0, <1>3, <2>1
  <2>2. CASE ~ (j < k)
    <3>1. j - 1 \in DOMAIN s /\ j = New(j - 1)
      BY <1>0, <1>3, <2>2
    <3> QED
      BY <3>1
  <2> QED
    BY <2>1, <2>2
<1>7. \A i, j \in DOMAIN s : /\ New(i) < New(j) <=> i < j
                             /\ New(i) = New(j) => i = j
  BY <1>0
<1>8. \A i \in DOMAIN s : /\ New(i) < k <=> i < k
                          /\ k < New(i) <=> ~ (i < k)
  BY <1>0
<1>9. k \in Nat
  BY <1>0
<1> HIDE DEF New
<1>10. \A i \in DOMAIN s : s[i] # e /\ s[i] \in ToSet(s)
  BY DEF ToSet
<1>11. IsInjective(r)
  <2> SUFFICES ASSUME NEW i \in DOMAIN r, NEW j \in DOMAIN r, r[i] = r[j]
               PROVE  i = j
    BY DEF IsInjective
  <2>1. CASE i = k \/ j = k
    BY <1>4, <1>5, <1>6, <1>10, <2>1
  <2>2. CASE i # k /\ j # k
    BY <1>5, <1>6, <2>2 DEF IsInjective
  <2> QED
    BY <2>1, <2>2
<1>12. ToSet(r) = ToSet(s) \cup {e}
  <2>1. ASSUME NEW i \in DOMAIN s PROVE s[i] \in ToSet(r)
    BY <1>5 DEF ToSet
  <2>2. e \in ToSet(r)
    BY <1>4 DEF ToSet
  <2>3. ASSUME NEW j \in DOMAIN r PROVE r[j] \in ToSet(s) \cup {e}
    BY <1>4, <1>5, <1>6, <1>10
  <2>4. \A x : x \in ToSet(r) <=> \E j \in DOMAIN r : x = r[j]
    BY DEF ToSet
  <2>5. \A x : x \in ToSet(s) <=> \E i \in DOMAIN s : x = s[i]
    BY DEF ToSet
  <2> QED
    BY <2>1, <2>2, <2>3, <2>4, <2>5
<1>13. ASSUME NEW x, NEW y
       PROVE  Ahead(r, x, y) <=>
                \/ Ahead(s, x, y)
                \/ y = e /\ \E i \in DOMAIN s : i < k /\ s[i] = x
                \/ x = e /\ \E i \in DOMAIN s : ~ (i < k) /\ s[i] = y
  <2>1. ASSUME NEW i \in DOMAIN s, NEW j \in DOMAIN s, i < j, s[i] = x, s[j] = y
        PROVE  Ahead(r, x, y)
    BY <1>5, <1>7, <2>1 DEF Ahead
  <2>2. ASSUME NEW i \in DOMAIN s, i < k, s[i] = x, y = e PROVE Ahead(r, x, y)
    BY <1>4, <1>5, <1>8, <2>2 DEF Ahead
  <2>3. ASSUME NEW i \in DOMAIN s, ~ (i < k), s[i] = y, x = e PROVE Ahead(r, x, y)
    BY <1>4, <1>5, <1>8, <2>3 DEF Ahead
  <2>4. ASSUME NEW i \in DOMAIN r, NEW j \in DOMAIN r, i < j, r[i] = x, r[j] = y
        PROVE  \/ Ahead(s, x, y)
               \/ y = e /\ \E l \in DOMAIN s : l < k /\ s[l] = x
               \/ x = e /\ \E l \in DOMAIN s : ~ (l < k) /\ s[l] = y
    <3>1. CASE i # k /\ j # k
      <4>1. PICK a \in DOMAIN s : i = New(a)
        BY <1>6, <3>1
      <4>2. PICK b \in DOMAIN s : j = New(b)
        BY <1>6, <3>1
      <4> QED
        BY <1>5, <1>7, <2>4, <4>1, <4>2 DEF Ahead
    <3>2. CASE i # k /\ j = k
      <4>1. PICK a \in DOMAIN s : i = New(a)
        BY <1>6, <3>2
      <4> QED
        BY <1>4, <1>5, <1>8, <2>4, <3>2, <4>1
    <3>3. CASE i = k /\ j # k
      <4>1. PICK b \in DOMAIN s : j = New(b)
        BY <1>6, <3>3
      <4> QED
        BY <1>4, <1>5, <1>8, <2>4, <3>3, <4>1
    <3>4. ~ (i = k /\ j = k)
      BY <1>9, <2>4
    <3> QED
      BY <3>1, <3>2, <3>3, <3>4
  <2> QED
    BY <2>1, <2>2, <2>3, <2>4 DEF Ahead
<1>14. /\ r \in Seq(S) /\ Len(r) = Len(s) + 1 /\ IsInjective(r)
       /\ ToSet(r) = ToSet(s) \cup {e}
       /\ \A x, y : Ahead(r, x, y) <=>
            \/ Ahead(s, x, y)
            \/ y = e /\ \E i \in DOMAIN s : i < k /\ s[i] = x
            \/ x = e /\ \E i \in DOMAIN s : ~ (i < k) /\ s[i] = y
  BY <1>1, <1>11, <1>12, <1>13
<1> QED
  BY <1>14 DEF r

\* An element at the end.
LEMMA AppendKeeps ==
  ASSUME NEW S, NEW s \in Seq(S), NEW e \in S, IsInjective(s), e \notin ToSet(s)
  PROVE  LET r == Append(s, e)
         IN  /\ r \in Seq(S) /\ Len(r) = Len(s) + 1 /\ IsInjective(r)
             /\ ToSet(r) = ToSet(s) \cup {e}
             /\ \A x, y : Ahead(r, x, y) <=> Ahead(s, x, y) \/ (y = e /\ x \in ToSet(s))
<1> DEFINE l == Len(s) + 1
           r == InsertAt(s, l, e)
<1>0. /\ Len(s) \in Nat /\ DOMAIN s = 1 .. Len(s)
      /\ l \in 1 .. Len(s) + 1
  BY LenProperties
<1>1. Append(s, e) = r
  <2>1. r \in Seq(S) /\ Len(r) = Len(s) + 1
    <3> HIDE DEF l
    <3> QED
      BY <1>0, InsertAtType
  <2>2. \A i \in 1 .. Len(s) + 1 :
          r[i] = IF i < l THEN s[i] ELSE IF i = Len(s) + 1 THEN e ELSE s[i - 1]
    BY <1>0, InsertAtElements
  <2> HIDE DEF r
  <2>3. /\ Append(s, e) \in Seq(S) /\ Len(Append(s, e)) = Len(s) + 1
        /\ \A i \in 1 .. Len(s) : Append(s, e)[i] = s[i]
        /\ Append(s, e)[Len(s) + 1] = e
    BY AppendProperties
  <2>4. \A i \in 1 .. Len(s) + 1 : r[i] = Append(s, e)[i]
    BY <1>0, <2>2, <2>3
  <2> QED
    BY <2>1, <2>3, <2>4, SeqEqual
<1>2. l \in 1 .. Len(s) + 1
  BY <1>0
<1> HIDE DEF l
<1>3. r \in Seq(S) /\ Len(r) = Len(s) + 1 /\ IsInjective(r) /\ ToSet(r) = ToSet(s) \cup {e}
  BY <1>2, InsertAtKeeps
<1>4. \A x, y : Ahead(r, x, y) <=>
        \/ Ahead(s, x, y)
        \/ y = e /\ \E i \in DOMAIN s : i < l /\ s[i] = x
        \/ x = e /\ \E i \in DOMAIN s : ~ (i < l) /\ s[i] = y
  BY <1>2, InsertAtKeeps
<1>5. \A i \in DOMAIN s : i < l
  BY <1>0 DEF l
<1>6. \A x : x \in ToSet(s) <=> \E i \in DOMAIN s : s[i] = x
  BY DEF ToSet
<1> HIDE DEF r
<1> QED
  BY <1>1, <1>5, <1>6, <1>3, <1>4

\* The first element taken out: all others were behind it.
LEMMA TailKeeps ==
  ASSUME NEW S, NEW s \in Seq(S), IsInjective(s), s # <<>>
  PROVE  LET r == Tail(s)
         IN  /\ r \in Seq(S) /\ Len(r) = Len(s) - 1 /\ IsInjective(r)
             /\ ToSet(r) = ToSet(s) \ {Head(s)}
             /\ \A x, y : Ahead(r, x, y) <=> Ahead(s, x, y) /\ x # Head(s) /\ y # Head(s)
             /\ Head(s) \in ToSet(s)
             /\ \A x \in ToSet(s) \ {Head(s)} : Ahead(s, Head(s), x)
<1> DEFINE r == RemoveAt(s, 1)
<1>0. /\ Len(s) \in Nat /\ DOMAIN s = 1 .. Len(s) /\ Head(s) = s[1]
      /\ 1 \in 1 .. Len(s)
  BY LenProperties, EmptySeq
<1>1. Tail(s) = r
  <2>1. r \in Seq(S) /\ Len(r) = Len(s) - 1
    BY <1>0, RemoveAtType
  <2>2. \A i \in 1 .. Len(s) - 1 : r[i] = IF i < 1 THEN s[i] ELSE s[i + 1]
    BY <1>0, RemoveAtElements
  <2> HIDE DEF r
  <2>3. /\ Tail(s) \in Seq(S) /\ Len(Tail(s)) = Len(s) - 1
        /\ \A i \in 1 .. Len(s) - 1 : Tail(s)[i] = s[i + 1]
    BY HeadTailProperties
  <2>4. \A i \in 1 .. Len(s) - 1 : r[i] = Tail(s)[i]
    BY <1>0, <2>2, <2>3
  <2> QED
    BY <2>1, <2>3, <2>4, SeqEqual
<1>2. /\ r \in Seq(S) /\ Len(r) = Len(s) - 1 /\ IsInjective(r)
      /\ ToSet(r) = ToSet(s) \ {s[1]}
      /\ \A x, y : Ahead(r, x, y) <=> Ahead(s, x, y) /\ x # s[1] /\ y # s[1]
  BY <1>0, RemoveAtKeeps
<1>3. \A i \in DOMAIN s : i = 1 \/ 1 < i
  BY <1>0
<1>4. \A x \in ToSet(s) \ {s[1]} : Ahead(s, s[1], x)
  BY <1>0, <1>3 DEF Ahead, ToSet
<1>5. s[1] \in ToSet(s)
  BY <1>0 DEF ToSet
<1> HIDE DEF r
<1> QED
  BY <1>0, <1>1, <1>2, <1>4, <1>5

\* An element taken out, wherever it is.
LEMMA RemoveFirstKeeps ==
  ASSUME NEW S, NEW s \in Seq(S), NEW e, IsInjective(s)
  PROVE  LET r == RemoveFirst(s, e)
         IN  /\ r \in Seq(S) /\ IsInjective(r)
             /\ Len(r) = IF e \in ToSet(s) THEN Len(s) - 1 ELSE Len(s)
             /\ ToSet(r) = ToSet(s) \ {e}
             /\ \A x, y : Ahead(r, x, y) <=> Ahead(s, x, y) /\ x # e /\ y # e
<1> DEFINE I == {i \in 1 .. Len(s) : s[i] = e}
<1>0. Len(s) \in Nat /\ DOMAIN s = 1 .. Len(s)
  BY LenProperties
<1>1. CASE e \notin ToSet(s)
  <2>1. RemoveFirst(s, e) = s
    <3>1. ~ \E i \in 1 .. Len(s) : s[i] = e
      BY <1>0, <1>1 DEF ToSet
    <3> QED
      BY <3>1, Zenon DEF RemoveFirst
  <2>2. \A x, y : Ahead(s, x, y) => x # e /\ y # e
    BY <1>1 DEF Ahead, ToSet
  <2> QED
    BY <1>1, <2>1, <2>2
<1>2. CASE e \in ToSet(s)
  <2>1. PICK k \in 1 .. Len(s) : s[k] = e
    BY <1>0, <1>2 DEF ToSet
  <2>2. I = {k}
    BY <1>0, <2>1 DEF IsInjective
  <2>3. Min(I) = k
    <3>1. k \in I /\ k <= k /\ \A i \in I : i = k
      BY <2>2
    <3> HIDE DEF I
    <3> QED
      BY <3>1 DEF Min
  <2>4. RemoveFirst(s, e) = RemoveAt(s, Min(I))
    <3>1. I # {} /\ \E i \in 1 .. Len(s) : s[i] = e
      BY <2>1
    <3> QED
      BY <3>1, Zenon DEF RemoveFirst, SelectInSeq
  <2> DEFINE r == RemoveAt(s, k)
  <2>5. RemoveFirst(s, e) = r
    BY <2>3, <2>4
  <2>6. /\ r \in Seq(S) /\ Len(r) = Len(s) - 1 /\ IsInjective(r)
        /\ ToSet(r) = ToSet(s) \ {e}
        /\ \A x, y : Ahead(r, x, y) <=> Ahead(s, x, y) /\ x # e /\ y # e
    <3>1. s[k] = e
      BY <2>1
    <3> QED
      BY <3>1, RemoveAtKeeps
  <2> HIDE DEF r
  <2> QED
    BY <1>2, <2>5, <2>6
<1> QED
  BY <1>1, <1>2

\* The positions in B come first: as many, then, are before any other.
LEMMA SplitAt ==
  ASSUME NEW S, NEW s \in Seq(S), NEW B \in SUBSET DOMAIN s,
         \A i \in DOMAIN s, j \in B : i < j => i \in B
  PROVE  /\ 1 + Cardinality(B) \in 1 .. Len(s) + 1
         /\ \A i \in DOMAIN s : i < 1 + Cardinality(B) <=> i \in B
<1> DEFINE P == (1 .. Len(s)) \ B
<1>0. Len(s) \in Nat /\ DOMAIN s = 1 .. Len(s)
  BY LenProperties
<1>1. \A n \in Nat : Cardinality(1 .. n) = n
  BY FS_Interval
<1>2. CASE P = {}
  <2>1. B = 1 .. Len(s)
    BY <1>0, <1>2
  <2>2. Cardinality(B) = Len(s)
    BY <1>0, <1>1, <2>1
  <2> QED
    BY <1>0, <2>1, <2>2
<1>3. CASE P # {}
  <2>1. PICK k \in P : \A j \in P : k <= j
    <3>1. P \in SUBSET Nat
      BY <1>0
    <3> HIDE DEF P
    <3> QED
      BY <1>3, <3>1, Least
  <2>2. B = 1 .. k - 1
    <3>1. ASSUME NEW j \in 1 .. k - 1 PROVE j \in B
      BY <1>0, <2>1
    <3>2. ASSUME NEW j \in B PROVE j \in 1 .. k - 1
      <4>1. ~ (k < j) /\ j # k
        BY <1>0, <2>1
      <4> QED
        BY <1>0, <2>1, <4>1
    <3> QED
      BY <3>1, <3>2
  <2>3. Cardinality(B) = k - 1
    <3>1. k - 1 \in Nat
      BY <1>0, <2>1
    <3> QED
      BY <1>1, <2>2, <3>1
  <2>4. \A i \in 1 .. Len(s) : i < k <=> i \in B
    BY <1>0, <2>1, <2>2
  <2> QED
    BY <1>0, <2>1, <2>3, <2>4
<1> QED
  BY <1>2, <1>3

\* As no element is there twice, there are as many as positions.
LEMMA SelectedCounted ==
  ASSUME NEW S, NEW s \in Seq(S), IsInjective(s), NEW P \in SUBSET DOMAIN s
  PROVE  LET V == {s[i] : i \in P}
         IN  IsFiniteSet(P) /\ IsFiniteSet(V) /\ Cardinality(V) = Cardinality(P)
<1> DEFINE V == {s[i] : i \in P}
           f == [i \in P |-> s[i]]
<1>0. DOMAIN s = 1 .. Len(s) /\ Len(s) \in Nat
  BY LenProperties
<1>1. f \in Bijection(P, V)
  <2>1. f \in [P -> V]
    OBVIOUS
  <2>2. \A v \in V : \E i \in P : f[i] = v
    OBVIOUS
  <2>3. \A i, j \in P : f[i] = f[j] => i = j
    BY DEF IsInjective
  <2> QED
    BY <2>1, <2>2, <2>3 DEF Bijection, Injection, Surjection, IsInjective
<1>2. ExistsBijection(P, V)
  BY <1>1 DEF ExistsBijection
<1>3. IsFiniteSet(P)
  <2>1. IsFiniteSet(1 .. Len(s))
    BY <1>0, FS_Interval
  <2> QED
    BY <1>0, <2>1, FS_Subset
<1> QED
  BY <1>2, <1>3, FS_Bijection

LEMMA ElementsCounted ==
  ASSUME NEW S, NEW s \in Seq(S), IsInjective(s)
  PROVE  IsFiniteSet(ToSet(s)) /\ Cardinality(ToSet(s)) = Len(s)
<1>0. DOMAIN s = 1 .. Len(s) /\ Len(s) \in Nat
  BY LenProperties
<1>1. Cardinality(DOMAIN s) = Len(s)
  <2>1. \A n \in Nat : Cardinality(1 .. n) = n
    BY FS_Interval
  <2> QED
    BY <1>0, <2>1
<1>2. /\ IsFiniteSet({s[i] : i \in DOMAIN s})
      /\ Cardinality({s[i] : i \in DOMAIN s}) = Cardinality(DOMAIN s)
  BY SelectedCounted
<1> QED
  BY <1>1, <1>2 DEF ToSet

\* The first k elements taken out.
LEMMA DropKeeps ==
  ASSUME NEW S, NEW s \in Seq(S), NEW k \in 1 .. Len(s), IsInjective(s)
  PROVE  LET r == SubSeq(s, k + 1, Len(s))
         IN  /\ r \in Seq(S) /\ Len(r) = Len(s) - k /\ IsInjective(r)
             /\ ToSet(r) = ToSet(s) \ {s[i] : i \in 1 .. k}
<1> DEFINE r == SubSeq(s, k + 1, Len(s))
<1>0. Len(s) \in Nat /\ DOMAIN s = 1 .. Len(s) /\ \A j \in 1 .. Len(s) : s[j] \in S
  BY LenProperties, ElementOfSeq
<1>1. /\ r \in Seq(S)
      /\ Len(r) = IF k + 1 <= Len(s) THEN Len(s) - (k + 1) + 1 ELSE 0
      /\ \A i \in 1 .. Len(s) - (k + 1) + 1 : r[i] = s[k + 1 + i - 1]
  <2>1. \A j \in k + 1 .. Len(s) : s[j] \in S
    BY <1>0
  <2> QED
    BY <1>0, <2>1, SubSeqProperties
<1> HIDE DEF r
<1>2. Len(r) = Len(s) - k
  <2>1. Len(r) = IF k + 1 <= Len(s) THEN Len(s) - (k + 1) + 1 ELSE 0
    BY <1>1, Zenon
  <2>2. k \in Nat /\ Len(s) \in Nat /\ k <= Len(s)
    BY <1>0
  <2>3. CASE k = Len(s)
    BY <2>1, <2>2, <2>3
  <2>4. CASE k < Len(s)
    BY <2>1, <2>2, <2>4
  <2> QED
    BY <2>2, <2>3, <2>4
<1>3. DOMAIN r = 1 .. Len(s) - k
  BY <1>1, <1>2, LenProperties
<1>4. \A i \in DOMAIN r : k + i \in DOMAIN s /\ r[i] = s[k + i]
  <2> SUFFICES ASSUME NEW i \in DOMAIN r PROVE k + i \in DOMAIN s /\ r[i] = s[k + i]
    OBVIOUS
  <2>1. i \in 1 .. Len(s) - (k + 1) + 1 /\ k + 1 + i - 1 = k + i
    BY <1>0, <1>3
  <2>2. r[i] = s[k + 1 + i - 1]
    BY <1>1, <2>1
  <2>3. k + i \in 1 .. Len(s)
    BY <1>0, <2>1
  <2> QED
    BY <1>0, <2>1, <2>2, <2>3
<1>5. \A i, j \in DOMAIN s : s[i] = s[j] => i = j
  BY DEF IsInjective
<1>6. IsInjective(r)
  <2> SUFFICES ASSUME NEW i \in DOMAIN r, NEW j \in DOMAIN r, r[i] = r[j] PROVE i = j
    BY DEF IsInjective
  <2>1. k + i = k + j
    BY <1>4, <1>5
  <2> QED
    BY <1>0, <1>3, <2>1
<1>7. \A i \in DOMAIN r : r[i] \in ToSet(s) \ {s[j] : j \in 1 .. k}
  <2> SUFFICES ASSUME NEW i \in DOMAIN r, NEW j \in 1 .. k
               PROVE  r[i] \in ToSet(s) /\ r[i] # s[j]
    BY <1>4 DEF ToSet
  <2>1. j \in DOMAIN s /\ k + i # j
    BY <1>0, <1>3
  <2> QED
    BY <1>4, <1>5, <2>1 DEF ToSet
<1>8. \A i \in DOMAIN s : s[i] \notin {s[j] : j \in 1 .. k} => s[i] \in ToSet(r)
  <2> SUFFICES ASSUME NEW i \in DOMAIN s, \A j \in 1 .. k : s[i] # s[j]
               PROVE  s[i] \in ToSet(r)
    OBVIOUS
  <2>1. i \notin 1 .. k
    OBVIOUS
  <2>2. i - k \in DOMAIN r /\ r[i - k] = s[k + (i - k)] /\ k + (i - k) = i
    BY <1>0, <1>3, <1>4, <2>1
  <2> QED
    BY <2>2 DEF ToSet
<1>9. ToSet(r) = ToSet(s) \ {s[i] : i \in 1 .. k}
  <2>1. \A x : x \in ToSet(r) <=> \E i \in DOMAIN r : r[i] = x
    BY DEF ToSet
  <2>2. \A x : x \in ToSet(s) <=> \E i \in DOMAIN s : s[i] = x
    BY DEF ToSet
  <2> QED
    BY <1>7, <1>8, <2>1, <2>2
<1> QED
  BY <1>1, <1>2, <1>6, <1>9 DEF r
=============================================================================
