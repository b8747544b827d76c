-------------------------- MODULE LfuSaveTagProofs --------------------------
(***************************************************************************)
(* Theorems about LfuSaveTag, for every set of names, every size and every *)
(* bound: first about the slots of the classes, then about the order of    *)
(* the policy and its victims.                                             *)
(***************************************************************************)
EXTENDS LfuSaveTag, CollectionLemmas

(***************************************************************************)
(* The arithmetic of the quotas.                                           *)
(***************************************************************************)

\* Among some classes there is one of the highest number.
LEMMA LargestClass ==
  ASSUME NEW D \in SUBSET Tags, D # {}
  PROVE  \E x \in D : \A y \in D : y <= x
<1>1. CASE 5 \in D
  BY <1>1 DEF Tags
<1>2. CASE 5 \notin D /\ 4 \in D
  BY <1>2 DEF Tags
<1>3. CASE 5 \notin D /\ 4 \notin D /\ 3 \in D
  BY <1>3 DEF Tags
<1>4. CASE 5 \notin D /\ 4 \notin D /\ 3 \notin D /\ 2 \in D
  BY <1>4 DEF Tags
<1>5. CASE 5 \notin D /\ 4 \notin D /\ 3 \notin D /\ 2 \notin D
  <2>1. \A y \in D : y = 1
    BY <1>5 DEF Tags
  <2> QED
    BY <2>1
<1> QED
  BY <1>1, <1>2, <1>3, <1>4, <1>5

\* The class that gives a slot is a class, and not the one that receives it.
LEMMA DonorType ==
  ASSUME NEW q, NEW i \in Tags, Donors(q, i) # {}
  PROVE  Max(Donors(q, i)) \in Tags \ {i}
<1>1. Donors(q, i) \subseteq Tags \ {i}
  BY DEF Donors
<1>2. \E x \in Donors(q, i) : \A y \in Donors(q, i) : y <= x
  BY <1>1, LargestClass
<1>3. \E x \in Donors(q, i) : \A y \in Donors(q, i) : x >= y
  BY <1>1, <1>2 DEF Tags
<1> QED
  BY <1>1, <1>3 DEF Max

\* A turn of the int loop for one class keeps the sum of the vector.
LEMMA RefillInt ==
  ASSUME NEW q \in [Tags -> Int], NEW i \in Tags
  PROVE  /\ Refill(q, i, FALSE) \in [Tags -> Int]
         /\ Total(Refill(q, i, FALSE)) = Total(q)
<1>1. CASE q[i] <= 0 /\ Donors(q, i) # {}
  <2> DEFINE j == Max(Donors(q, i))
             r == [q EXCEPT ![j] = @ - 1, ![i] = @ + 1]
  <2>1. j \in Tags \ {i}
    BY <1>1, DonorType
  <2>2. Refill(q, i, FALSE) = r
    <3>1. Refill(q, i, FALSE)
            = [q EXCEPT ![j] = Store(@ - 1, FALSE), ![i] = Store(@ + 1, FALSE)]
      BY <1>1, Zenon DEF Refill
    <3> QED
      BY <3>1, Zenon DEF Store
  <2> HIDE DEF j
  <2>3. r \in [Tags -> Int] /\ Total(r) = Total(q)
    BY SMTT(30), <2>1 DEF Total, Tags
  <2> QED
    BY <2>2, <2>3
<1>2. CASE ~(q[i] <= 0 /\ Donors(q, i) # {})
  BY <1>2 DEF Refill
<1> QED
  BY <1>1, <1>2

\* One iteration of the int loop keeps the sum of the vector.
LEMMA PassInt ==
  ASSUME NEW q \in [Tags -> Int]
  PROVE  Pass(q, FALSE) \in [Tags -> Int] /\ Total(Pass(q, FALSE)) = Total(q)
<1> DEFINE r1 == Refill(q,  1, FALSE)
           r2 == Refill(r1, 2, FALSE)
           r3 == Refill(r2, 3, FALSE)
           r4 == Refill(r3, 4, FALSE)
           r5 == Refill(r4, 5, FALSE)
<1>0. 1 \in Tags /\ 2 \in Tags /\ 3 \in Tags /\ 4 \in Tags /\ 5 \in Tags
  BY DEF Tags
<1>1. r1 \in [Tags -> Int] /\ Total(r1) = Total(q)
  BY <1>0, RefillInt
<1>2. r2 \in [Tags -> Int] /\ Total(r2) = Total(q)
  <2> HIDE DEF r1
  <2> QED BY <1>0, <1>1, RefillInt
<1>3. r3 \in [Tags -> Int] /\ Total(r3) = Total(q)
  <2> HIDE DEF r2
  <2> QED BY <1>0, <1>2, RefillInt
<1>4. r4 \in [Tags -> Int] /\ Total(r4) = Total(q)
  <2> HIDE DEF r3
  <2> QED BY <1>0, <1>3, RefillInt
<1>5. r5 \in [Tags -> Int] /\ Total(r5) = Total(q)
  <2> HIDE DEF r4
  <2> QED BY <1>0, <1>4, RefillInt
<1> QED
  BY <1>5 DEF Pass

\* What a uint32_t holds after an assignment.
LEMMA WordRange ==
  ASSUME NEW v \in Int
  PROVE  v % WordSize \in 0 .. WordSize - 1
BY WordAssumption

\* One turn of the uint32_t loop for one class stays within the word.
LEMMA RefillWord ==
  ASSUME NEW q \in [Tags -> 0 .. WordSize - 1], NEW i \in Tags
  PROVE  Refill(q, i, TRUE) \in [Tags -> 0 .. WordSize - 1]
<1>1. CASE q[i] <= 0 /\ Donors(q, i) # {}
  <2> DEFINE j == Max(Donors(q, i))
             r == [q EXCEPT ![j] = (@ - 1) % WordSize, ![i] = (@ + 1) % WordSize]
  <2>1. j \in Tags \ {i}
    BY <1>1, DonorType
  <2>2. Refill(q, i, TRUE) = r
    <3>1. Refill(q, i, TRUE)
            = [q EXCEPT ![j] = Store(@ - 1, TRUE), ![i] = Store(@ + 1, TRUE)]
      BY <1>1, Zenon DEF Refill
    <3> QED
      BY <3>1, Zenon DEF Store
  <2> HIDE DEF j
  <2>3. (q[j] - 1) % WordSize \in 0 .. WordSize - 1
    BY <2>1, WordRange, WordAssumption
  <2>4. (q[i] + 1) % WordSize \in 0 .. WordSize - 1
    BY WordRange, WordAssumption
  <2>5. r \in [Tags -> 0 .. WordSize - 1]
    BY <2>1, <2>3, <2>4
  <2> QED
    BY <2>2, <2>5
<1>2. CASE ~(q[i] <= 0 /\ Donors(q, i) # {})
  BY <1>2 DEF Refill
<1> QED
  BY <1>1, <1>2

\* One iteration of the uint32_t loop stays within the word.
LEMMA PassWord ==
  ASSUME NEW q \in [Tags -> 0 .. WordSize - 1]
  PROVE  Pass(q, TRUE) \in [Tags -> 0 .. WordSize - 1]
<1>0. 1 \in Tags /\ 2 \in Tags /\ 3 \in Tags /\ 4 \in Tags /\ 5 \in Tags
  BY DEF Tags
<1> QED
  BY <1>0, RefillWord DEF Pass

(***************************************************************************)
(* Sequences: the index of the policy.                                     *)
(***************************************************************************)

\* A position to insert at lies within the index or just after it.
LEMMA InsertPositionType ==
  ASSUME NEW S, NEW s \in Seq(S), NEW f
  PROVE  InsertPosition(s, f) \in 1 .. Len(s) + 1
<1> DEFINE B == {k \in DOMAIN s : frequency[s[k]] <= f}
<1>1. Len(s) \in Nat /\ DOMAIN s = 1 .. Len(s)
  BY LenProperties
<1>2. IsFiniteSet(1 .. Len(s)) /\ Cardinality(1 .. Len(s)) = Len(s)
  BY <1>1, FS_Interval
<1>3. IsFiniteSet(B) /\ Cardinality(B) <= Len(s)
  BY <1>1, <1>2, FS_Subset
<1>4. Cardinality(B) \in Nat
  BY <1>3, FS_CardinalityType
<1> QED
  BY <1>1, <1>3, <1>4 DEF InsertPosition

(***************************************************************************)
(* Type correctness, and the conservation of slots by the adjustments.     *)
(***************************************************************************)

\* The inductive invariant.  A share has to stay within max_size for RawQuota to
\* fit a uint32_t, and the shares stay there because the loop that computes them
\* keeps their total.
Inductive ==
    /\ TypeOK
    /\ share \in [Tags -> 0 .. max_size]
    /\ AdjustConserves

\* The initial quotas of the ratios in the source.
LEMMA DefaultShareType ==
  ASSUME NEW size \in Nat
  PROVE  /\ DefaultShare(size) \in [Tags -> 0 .. size]
         /\ TotalOfFirstFour(DefaultShare(size)) <= size
<1> DEFINE d == DefaultShare(size)
<1>1. d = [t \in Tags |-> d[t]]
  BY DEF DefaultShare
<1>2. /\ d[1] = (size * 4647) \div 10000
      /\ d[2] = (size * 2201) \div 10000
      /\ d[3] = (size * 2201) \div 10000
      /\ d[4] = (size * 661) \div 10000
      /\ d[5] = (size * 289) \div 10000
  BY DEF DefaultShare, Weight, Tags
<1> HIDE DEF d
<1>3. \A t \in Tags : d[t] \in 0 .. size
  BY <1>2 DEF Tags
<1>4. d \in [Tags -> 0 .. size] /\ TotalOfFirstFour(d) <= size
  BY <1>1, <1>2, <1>3 DEF TotalOfFirstFour
<1> QED
  BY <1>4 DEF d

\* The quotas fit a uint32_t before the repair.
LEMMA RawQuotaType ==
  ASSUME NEW size \in 0 .. WordSize - 1, NEW s \in [Tags -> 0 .. size]
  PROVE  RawQuota(size, s) \in [Tags -> 0 .. WordSize - 1]
<1>1. size - TotalOfFirstFour(s) \in Int
  BY WordAssumption DEF TotalOfFirstFour, Tags
<1>2. \A t \in Tags : s[t] \in 0 .. WordSize - 1
  BY WordAssumption
<1> QED
  BY <1>1, <1>2, WordRange DEF RawQuota

\* The vector an adjustment starts from has max_size slots.
LEMMA AdjustStart ==
  ASSUME NEW size \in Nat, NEW first \in [1 .. 4 -> Int], NEW d,
         d = [t \in Tags |-> IF t = 5 THEN size - TotalOfFirstFour(first) ELSE first[t]]
  PROVE  d \in [Tags -> Int] /\ Total(d) = size
<1>1. first[1] \in Int /\ first[2] \in Int /\ first[3] \in Int /\ first[4] \in Int
  OBVIOUS
<1>2. TotalOfFirstFour(first) \in Int
  BY <1>1 DEF TotalOfFirstFour
<1>3. d \in [Tags -> Int]
  BY <1>2 DEF Tags
<1>4. /\ d[1] = first[1] /\ d[2] = first[2] /\ d[3] = first[3] /\ d[4] = first[4]
      /\ d[5] = size - TotalOfFirstFour(first)
  BY DEF Tags
<1> QED
  BY <1>1, <1>3, <1>4 DEF Total, TotalOfFirstFour

\* Shares rounded down from a vector of positive numbers of total size.
LEMMA AdjustEnd ==
  ASSUME NEW size \in Nat, NEW d \in [Tags -> Int], AllPositive(d), Total(d) = size,
         NEW loss \in [Tags -> {0, 1}], NEW s, s = [t \in Tags |-> d[t] - loss[t]]
  PROVE  s \in [Tags -> 0 .. size] /\ TotalOfFirstFour(s) <= size
<1>1. /\ d[1] \in Int /\ d[2] \in Int /\ d[3] \in Int /\ d[4] \in Int /\ d[5] \in Int
      /\ d[1] > 0 /\ d[2] > 0 /\ d[3] > 0 /\ d[4] > 0 /\ d[5] > 0
  BY DEF AllPositive, Tags
<1>2. d[1] + d[2] + d[3] + d[4] + d[5] = size
  BY DEF Total
<1>3. \A t \in Tags : d[t] \in 1 .. size
  BY <1>1, <1>2 DEF Tags
<1>4. \A t \in Tags : loss[t] = 0 \/ loss[t] = 1
  OBVIOUS
<1>5. \A t \in Tags : d[t] - loss[t] \in 0 .. size
  BY <1>3, <1>4
<1>6. s \in [Tags -> 0 .. size]
  BY <1>5
<1>7. s[1] <= d[1] /\ s[2] <= d[2] /\ s[3] <= d[3] /\ s[4] <= d[4]
  BY <1>1, <1>4 DEF Tags
<1>8. s[1] \in Int /\ s[2] \in Int /\ s[3] \in Int /\ s[4] \in Int
  BY <1>6 DEF Tags
<1> QED
  BY <1>1, <1>2, <1>6, <1>7, <1>8 DEF TotalOfFirstFour

LEMMA InductiveInit == Init => Inductive
<1> SUFFICES ASSUME Init PROVE Inductive
  OBVIOUS
<1>1. max_size \in Sizes /\ max_size \in Nat
  BY SizeAssumption, WordAssumption DEF Init
<1>2. order \in Seq(Names)
  BY DEF Init
<1>3. share \in [Tags -> 0 .. max_size] /\ TotalOfFirstFour(share) <= max_size
  BY <1>1, DefaultShareType DEF Init
<1>4. share \in [Tags -> Int]
  BY <1>1, <1>3
<1>5. /\ quota \in [Tags -> 0 .. WordSize - 1]
      /\ delta \in [Tags -> Int]
      /\ frequency \in [Names -> 0 .. MaxFreq]
      /\ adjusted \in 0 .. MaxAdjust
  BY WordAssumption, BoundAssumption DEF Init
<1>6. pending \subseteq Names /\ hits \in BOOLEAN /\ pc = "idle"
  BY DEF Init
<1> QED
  BY <1>1, <1>2, <1>3, <1>4, <1>5, <1>6 DEF Inductive, TypeOK, AdjustConserves

LEMMA InductiveStep == Inductive /\ [Next]_vars => Inductive'
<1> SUFFICES ASSUME Inductive, [Next]_vars PROVE Inductive'
  OBVIOUS
<1> USE DEF Inductive
<1>0. /\ max_size \in 0 .. WordSize - 1 /\ max_size \in Nat
      /\ order \in Seq(Names)
      /\ share \in [Tags -> Int]
  BY SizeAssumption, WordAssumption DEF TypeOK
<1>1. ASSUME NEW n \in Names, StartInsert(n) PROVE Inductive'
  <2>1. quota' \in [Tags -> 0 .. WordSize - 1]
    BY <1>0, <1>1, RawQuotaType DEF StartInsert
  <2>2. frequency' \in [Names -> 0 .. MaxFreq]
    BY <1>1, BoundAssumption DEF StartInsert, TypeOK
  <2> QED
    BY <1>1, <2>1, <2>2 DEF StartInsert, TypeOK, AdjustConserves
<1>2. CASE InsertPass
  <2>1. quota' \in [Tags -> 0 .. WordSize - 1]
    BY <1>2, PassWord DEF InsertPass, TypeOK
  <2> QED
    BY <1>2, <2>1 DEF InsertPass, TypeOK, AdjustConserves
<1>3. CASE FinishInsert
  <2>0. PICK n \in pending : \E tag \in TagValue(n) :
          \/ \E k \in EvictedPosition(tag) : StoreIn(RemoveAt(order, k), n)
          \/ EvictedPosition(tag) = {} /\ StoreIn(order, n)
    BY <1>3 DEF FinishInsert
  <2>1. PICK tag \in TagValue(n) :
          \/ \E k \in EvictedPosition(tag) : StoreIn(RemoveAt(order, k), n)
          \/ EvictedPosition(tag) = {} /\ StoreIn(order, n)
    BY <2>0
  <2>2. n \in Names
    BY DEF TypeOK
  <2>3. \A s \in Seq(Names) : StoreIn(s, n) => order' \in Seq(Names)
    BY <2>2, InsertPositionType, InsertAtType DEF StoreIn
  <2>4. \A k \in EvictedPosition(tag) : RemoveAt(order, k) \in Seq(Names)
    <3>1. EvictedPosition(tag) \subseteq 1 .. Len(order)
      BY <1>0, LenProperties DEF EvictedPosition, VictimPosition, Positions
    <3> QED
      BY <1>0, <3>1, RemoveAtType
  <2>5. order' \in Seq(Names)
    BY <1>0, <2>1, <2>3, <2>4
  <2> QED
    BY <1>3, <2>5 DEF FinishInsert, TypeOK, AdjustConserves
<1>4. ASSUME NEW k \in DOMAIN order, Hit(k) PROVE Inductive'
  <2>1. k \in 1 .. Len(order) /\ order[k] \in Names
    BY <1>0, LenProperties, ElementOfSeq
  <2>2. RemoveAt(order, k) \in Seq(Names)
    BY <1>0, <2>1, RemoveAtType
  <2>3. order' \in Seq(Names)
    BY <1>4, <2>1, <2>2, InsertPositionType, InsertAtType DEF Hit
  <2>4. frequency' \in [Names -> 0 .. MaxFreq]
    BY <1>4, <2>1, BoundAssumption DEF Hit, TypeOK
  <2>5. hits' \in BOOLEAN
    BY <1>4 DEF Hit, TypeOK
  <2> QED
    BY <1>4, <2>3, <2>4, <2>5 DEF Hit, TypeOK, AdjustConserves
<1>5. CASE StartAdjust
  <2>1. PICK m_delta_tag \in [1 .. 4 -> -MaxDelta[max_size] .. MaxDelta[max_size]] :
          LET first == [t \in 1 .. 4 |-> share[t] + m_delta_tag[t]]
          IN  delta' = [t \in Tags |-> IF t = 5 THEN max_size - TotalOfFirstFour(first)
                                                ELSE first[t]]
    BY <1>5 DEF StartAdjust
  <2> DEFINE first == [t \in 1 .. 4 |-> share[t] + m_delta_tag[t]]
  <2>2. first \in [1 .. 4 -> Int]
    <3>1. \A t \in 1 .. 4 : m_delta_tag[t] \in Int /\ share[t] \in Int
      BY <1>0 DEF Tags
    <3> QED
      BY <3>1
  <2>3. delta' = [t \in Tags |-> IF t = 5 THEN max_size - TotalOfFirstFour(first) ELSE first[t]]
    BY <2>1
  <2> HIDE DEF first
  <2>4. delta' \in [Tags -> Int] /\ Total(delta') = max_size
    BY <1>0, <2>2, <2>3, AdjustStart
  <2>5. adjusted' \in 0 .. MaxAdjust
    BY <1>5, BoundAssumption DEF StartAdjust, TypeOK
  <2> QED
    BY <1>5, <2>4, <2>5 DEF StartAdjust, TypeOK, AdjustConserves
<1>6. CASE AdjustPass
  <2>1. delta' \in [Tags -> Int] /\ Total(delta') = max_size
    BY <1>6, PassInt DEF AdjustPass, TypeOK, AdjustConserves
  <2>2. CASE AllPositive(delta')
    <3>1. PICK loss \in [Tags -> {0, 1}] : share' = [t \in Tags |-> delta'[t] - loss[t]]
      BY <1>6, <2>2 DEF AdjustPass
    <3>2. share' \in [Tags -> 0 .. max_size] /\ TotalOfFirstFour(share') <= max_size
      BY <1>0, <2>1, <2>2, <3>1, AdjustEnd
    <3>3. share' \in [Tags -> Int]
      BY <1>0, <3>2
    <3> QED
      BY <1>6, <2>1, <2>2, <3>2, <3>3 DEF AdjustPass, TypeOK, AdjustConserves
  <2>3. CASE ~AllPositive(delta')
    BY <1>6, <2>1, <2>3 DEF AdjustPass, TypeOK, AdjustConserves
  <2> QED
    BY <2>2, <2>3
<1>7. CASE UNCHANGED vars
  BY <1>7 DEF vars, TypeOK, AdjustConserves
<1> QED
  BY <1>1, <1>2, <1>3, <1>4, <1>5, <1>6, <1>7 DEF Next

LEMMA InductiveInvariant == Spec => []Inductive
BY InductiveInit, InductiveStep, PTL DEF Spec

\* Every state of the store has the declared shape; in particular the quotas fit
\* a uint32_t and no hit count passes its bound.
THEOREM TypeCorrect == Spec => []TypeOK
<1>1. Inductive => TypeOK
  BY DEF Inductive
<1> QED
  BY <1>1, InductiveInvariant, PTL

\* For every hit history the adjustments of HitTraceTable keep the number of
\* slots, however long their repair loop runs, and leave the fifth class a
\* remainder that does not wrap round.
THEOREM SlotsConserved == Spec => []AdjustConserves
<1>1. Inductive => AdjustConserves
  BY DEF Inductive
<1> QED
  BY <1>1, InductiveInvariant, PTL

(***************************************************************************)
(* The size of the store.                                                  *)
(***************************************************************************)

\* Two sets without a common element.
LEMMA DisjointUnion ==
  ASSUME NEW A, NEW B, IsFiniteSet(A), IsFiniteSet(B), A \cap B = {}
  PROVE  IsFiniteSet(A \cup B) /\ Cardinality(A \cup B) = Cardinality(A) + Cardinality(B)
<1>1. Cardinality(A) \in Nat /\ Cardinality(B) \in Nat
  BY FS_CardinalityType
<1>2. Cardinality(A \cap B) = 0
  BY FS_EmptySet
<1>3. /\ IsFiniteSet(A \cup B)
      /\ Cardinality(A \cup B) = Cardinality(A) + Cardinality(B) - Cardinality(A \cap B)
  BY FS_Union, Zenon
<1> QED
  BY <1>1, <1>2, <1>3

\* Five sets of which no two have a common element.
LEMMA FiveDisjointSets ==
  ASSUME NEW A, NEW B, NEW C, NEW D, NEW E,
         IsFiniteSet(A), IsFiniteSet(B), IsFiniteSet(C), IsFiniteSet(D), IsFiniteSet(E),
         A \cap B = {}, (A \cup B) \cap C = {}, (A \cup B \cup C) \cap D = {},
         (A \cup B \cup C \cup D) \cap E = {}
  PROVE  Cardinality(A \cup B \cup C \cup D \cup E)
           = Cardinality(A) + Cardinality(B) + Cardinality(C) + Cardinality(D) + Cardinality(E)
<1> DEFINE S == A \cup B
           T == S \cup C
           U == T \cup D
<1>1. IsFiniteSet(S) /\ Cardinality(S) = Cardinality(A) + Cardinality(B)
  BY DisjointUnion, Zenon
<1>2. IsFiniteSet(T) /\ Cardinality(T) = Cardinality(S) + Cardinality(C)
  BY <1>1, DisjointUnion, Zenon
<1>3. IsFiniteSet(U) /\ Cardinality(U) = Cardinality(T) + Cardinality(D)
  BY <1>2, DisjointUnion, Zenon
<1>4. Cardinality(U \cup E) = Cardinality(U) + Cardinality(E)
  BY <1>3, DisjointUnion, Zenon
<1> QED
  BY <1>1, <1>2, <1>3, <1>4, Zenon

\* When every entry carries a tag the classes account for the whole store.
LEMMA ClassesCoverStore ==
  ASSUME order \in Seq(Names), TagOf \in [Names -> Tags]
  PROVE  /\ \A t \in Tags : Count(t) \in Nat
         /\ Len(order) = Count(1) + Count(2) + Count(3) + Count(4) + Count(5)
<1>1. Len(order) \in Nat /\ DOMAIN order = 1 .. Len(order)
  BY LenProperties
<1>2. \A k \in 1 .. Len(order) : TagOf[order[k]] \in Tags
  BY ElementOfSeq
<1>3. IsFiniteSet(1 .. Len(order)) /\ Cardinality(1 .. Len(order)) = Len(order)
  <2>1. \A n \in Nat : IsFiniteSet(1 .. n) /\ Cardinality(1 .. n) = n
    BY FS_Interval
  <2> QED
    BY <1>1, <2>1
<1>4. \A t \in Tags : IsFiniteSet(Positions(t)) /\ Count(t) \in Nat
  <2> SUFFICES ASSUME NEW t \in Tags
               PROVE  IsFiniteSet(Positions(t)) /\ Count(t) \in Nat
    OBVIOUS
  <2>1. Positions(t) \in SUBSET (1 .. Len(order))
    BY <1>1 DEF Positions
  <2> QED
    BY <1>3, <2>1, FS_Subset, FS_CardinalityType DEF Count
<1>5. 1 .. Len(order) = Positions(1) \cup Positions(2) \cup Positions(3)
                          \cup Positions(4) \cup Positions(5)
  BY <1>1, <1>2 DEF Positions, Tags
<1>6. Cardinality(Positions(1) \cup Positions(2) \cup Positions(3)
                     \cup Positions(4) \cup Positions(5))
        = Count(1) + Count(2) + Count(3) + Count(4) + Count(5)
  <2>1. 1 \in Tags /\ 2 \in Tags /\ 3 \in Tags /\ 4 \in Tags /\ 5 \in Tags
    BY DEF Tags
  <2>2. /\ Positions(1) \cap Positions(2) = {}
        /\ (Positions(1) \cup Positions(2)) \cap Positions(3) = {}
        /\ (Positions(1) \cup Positions(2) \cup Positions(3)) \cap Positions(4) = {}
        /\ (Positions(1) \cup Positions(2) \cup Positions(3) \cup Positions(4))
             \cap Positions(5) = {}
    BY DEF Positions
  <2>3. /\ IsFiniteSet(Positions(1)) /\ IsFiniteSet(Positions(2)) /\ IsFiniteSet(Positions(3))
        /\ IsFiniteSet(Positions(4)) /\ IsFiniteSet(Positions(5))
    BY <1>4, <2>1
  <2> DEFINE A == Positions(1)
             B == Positions(2)
             C == Positions(3)
             D == Positions(4)
             E == Positions(5)
  <2>4. Cardinality(A \cup B \cup C \cup D \cup E)
          = Cardinality(A) + Cardinality(B) + Cardinality(C) + Cardinality(D) + Cardinality(E)
    <3>1. /\ IsFiniteSet(A) /\ IsFiniteSet(B) /\ IsFiniteSet(C) /\ IsFiniteSet(D) /\ IsFiniteSet(E)
          /\ A \cap B = {} /\ (A \cup B) \cap C = {} /\ (A \cup B \cup C) \cap D = {}
          /\ (A \cup B \cup C \cup D) \cap E = {}
      BY <2>2, <2>3
    <3> HIDE DEF A, B, C, D, E
    <3> QED
      BY <3>1, FiveDisjointSets
  <2> QED
    BY <2>4, Zenon DEF Count
<1> QED
  BY <1>3, <1>4, <1>5, <1>6, Zenon

\* A class that has an entry has a first one to evict.
LEMMA VictimExists ==
  ASSUME order \in Seq(Names), NEW t \in Tags, Count(t) > 0
  PROVE  VictimPosition(t) # {}
<1>1. DOMAIN order = 1 .. Len(order)
  BY LenProperties
<1>2. Positions(t) \in SUBSET Nat
  BY <1>1 DEF Positions
<1>3. Positions(t) # {}
  <2> SUFFICES ASSUME Positions(t) = {} PROVE FALSE
    OBVIOUS
  <2>1. Count(t) = 0
    BY FS_EmptySet DEF Count
  <2> QED
    BY <2>1
<1> QED
  BY <1>2, <1>3, Least DEF VictimPosition

\* Counts that are all below their quotas do not add up to the quotas.
LEMMA SmallerTotal ==
  ASSUME NEW c \in [Tags -> Nat], NEW q \in [Tags -> Nat], \A t \in Tags : c[t] < q[t]
  PROVE  Total(c) < Total(q)
BY DEF Total, Tags

\* A full store whose quotas are exact can always make room: either the class of
\* the arrival fills its quota, or another class does.
LEMMA RoomCanBeMade ==
  ASSUME order \in Seq(Names), TagOf \in [Names -> Tags], quota \in [Tags -> Nat],
         AllPositive(quota), Total(quota) = Len(order), Len(order) = max_size,
         NEW tag \in Tags
  PROVE  EvictedPosition(tag) # {}
<1> DEFINE full == {t \in Tags \ {tag} : Count(t) >= quota[t]}
<1>0. /\ \A t \in Tags : Count(t) \in Nat /\ quota[t] \in Nat /\ quota[t] > 0
      /\ Len(order) = Count(1) + Count(2) + Count(3) + Count(4) + Count(5)
  BY ClassesCoverStore DEF AllPositive
<1>1. CASE Count(tag) >= quota[tag]
  <2>1. Count(tag) > 0
    BY <1>0, <1>1
  <2> QED
    BY <1>1, <2>1, VictimExists DEF EvictedPosition
<1>2. CASE ~(Count(tag) >= quota[tag])
  <2>1. full # {}
    <3>1. SUFFICES ASSUME \A t \in Tags : Count(t) < quota[t] PROVE FALSE
      BY <1>0, <1>2
    <3>2. Count(1) + Count(2) + Count(3) + Count(4) + Count(5) < Total(quota)
      <4> DEFINE c == [t \in Tags |-> Count(t)]
      <4>1. c \in [Tags -> Nat] /\ \A t \in Tags : c[t] < quota[t]
        BY <1>0, <3>1
      <4>2. /\ c[1] = Count(1) /\ c[2] = Count(2) /\ c[3] = Count(3)
            /\ c[4] = Count(4) /\ c[5] = Count(5)
        BY DEF Tags
      <4>3. Total(c) < Total(quota)
        <5> HIDE DEF c
        <5> QED BY <4>1, SmallerTotal
      <4> QED
        BY <4>2, <4>3, Zenon DEF Total
    <3> QED
      BY SMTT(30), <1>0, <3>2 DEF Total, Tags
  <2>2. PICK u \in full : \A v \in full : v <= u
    <3>1. full \subseteq Tags
      OBVIOUS
    <3> HIDE DEF full
    <3> QED
      BY <2>1, <3>1, LargestClass
  <2>3. VictimPosition(u) # {}
    BY <1>0, <2>2, VictimExists
  <2>4. EvictedPosition(tag) = UNION {VictimPosition(t) : t \in {w \in full : \A v \in full : v <= w}}
    BY <1>2 DEF EvictedPosition
  <2> QED
    BY <2>2, <2>3, <2>4
<1> QED
  BY <1>1, <1>2

\* The entry is stored and at most one other has gone.
LEMMA StoredLength ==
  ASSUME order \in Seq(Names), NEW n \in Names, NEW s \in Seq(Names), StoreIn(s, n)
  PROVE  Len(order') = Len(s) + 1
BY InsertPositionType, InsertAtType DEF StoreIn

LEMMA CapacityStep ==
  ASSUME TagOf \in [Names -> Tags], Inductive, QuotaExact, Capacity, [Next]_vars
  PROVE  Capacity'
<1>0. /\ max_size \in Nat
      /\ order \in Seq(Names) /\ Len(order) \in Nat /\ DOMAIN order = 1 .. Len(order)
      /\ quota \in [Tags -> Nat]
  BY SizeAssumption, WordAssumption, LenProperties DEF Inductive, TypeOK
<1>1. CASE UNCHANGED <<order, max_size>>
  BY <1>1 DEF Capacity
<1>2. CASE FinishInsert
  <2>1. PICK n \in pending : \E tag \in TagValue(n) :
          \/ \E k \in EvictedPosition(tag) : StoreIn(RemoveAt(order, k), n)
          \/ EvictedPosition(tag) = {} /\ StoreIn(order, n)
    BY <1>2 DEF FinishInsert
  <2>2. PICK tag \in TagValue(n) :
          \/ \E k \in EvictedPosition(tag) : StoreIn(RemoveAt(order, k), n)
          \/ EvictedPosition(tag) = {} /\ StoreIn(order, n)
    BY <2>1
  <2>3. n \in Names
    BY DEF Inductive, TypeOK
  <2>4. tag \in Tags
    BY <2>2, <2>3 DEF TagValue
  <2>5. ASSUME NEW k \in EvictedPosition(tag), StoreIn(RemoveAt(order, k), n)
        PROVE  Len(order') = Len(order)
    <3>1. k \in 1 .. Len(order)
      BY <1>0 DEF EvictedPosition, VictimPosition, Positions
    <3>2. RemoveAt(order, k) \in Seq(Names) /\ Len(RemoveAt(order, k)) = Len(order) - 1
      BY <1>0, <3>1, RemoveAtType
    <3> QED
      BY <1>0, <2>3, <2>5, <3>2, StoredLength
  <2>6. ASSUME EvictedPosition(tag) = {}, StoreIn(order, n)
        PROVE  Len(order') = Len(order) + 1 /\ Len(order) < max_size
    <3>1. Len(order') = Len(order) + 1
      BY <1>0, <2>3, <2>6, StoredLength
    <3>2. AllPositive(quota) /\ Total(quota) = max_size
      BY <1>2 DEF FinishInsert, QuotaExact
    <3>3. Len(order) # max_size
      BY <1>0, <2>4, <2>6, <3>2, RoomCanBeMade
    <3>4. Len(order) <= max_size
      BY DEF Capacity
    <3>5. \A a, b \in Nat : a <= b /\ a # b => a < b
      OBVIOUS
    <3>6. Len(order) < max_size
      BY <1>0, <3>3, <3>4, <3>5, Zenon
    <3> QED
      BY <3>1, <3>6
  <2>7. max_size' = max_size
    BY <1>2 DEF FinishInsert
  <2> QED
    BY <1>0, <2>2, <2>5, <2>6, <2>7 DEF Capacity
<1>3. ASSUME NEW k \in DOMAIN order, Hit(k) PROVE Capacity'
  <2>1. k \in 1 .. Len(order) /\ order[k] \in Names
    BY <1>0, ElementOfSeq
  <2>2. RemoveAt(order, k) \in Seq(Names) /\ Len(RemoveAt(order, k)) = Len(order) - 1
    BY <1>0, <2>1, RemoveAtType
  <2>3. Len(order') = Len(order)
    BY <1>0, <1>3, <2>1, <2>2, InsertPositionType, InsertAtType DEF Hit
  <2> QED
    BY <1>3, <2>3 DEF Hit, Capacity
<1> QED
  BY <1>1, <1>2, <1>3 DEF Next, vars, StartInsert, InsertPass, StartAdjust, AdjustPass

\* Whatever the adjustments do to the ratios: as long as the repair loop delivers
\* quotas that divide MaxSize exactly, and every Data carries a tag, the store
\* does not outgrow MaxSize.
THEOREM CapacityFromQuotas ==
  ASSUME TagOf \in [Names -> Tags]
  PROVE  Spec /\ []QuotaExact => []Capacity
<1>1. Init => Capacity
  <2> SUFFICES ASSUME Init PROVE Capacity
    OBVIOUS
  <2>1. Len(order) = 0 /\ max_size \in Nat
    BY SizeAssumption, WordAssumption DEF Init
  <2> QED
    BY <2>1 DEF Capacity
<1>2. Inductive /\ QuotaExact /\ Capacity /\ [Next]_vars => Capacity'
  BY CapacityStep
<1> QED
  BY <1>1, <1>2, InductiveInvariant, PTL DEF Spec

(***************************************************************************)
(* The quotas are exact, also after adjustments, if the store has room.    *)
(***************************************************************************)

\* The vector q after class j has given a slot to class i.
Moved(q, j, i) == [t \in Tags |-> IF t = j THEN q[t] - 1
                                  ELSE IF t = i THEN q[t] + 1 ELSE q[t]]

\* The slots that the two small classes lack.
Lack(q) == (IF q[4] <= 0 THEN 1 - q[4] ELSE 0) + (IF q[5] <= 0 THEN 1 - q[5] ELSE 0)

\* What a adjustments leave of the share of the third class, the least of the three
\* large ones.  Each takes from a class its own delta (m) and a slot to rounding, and
\* the repair makes it pay for the fourth class (at most m + 1) and the fifth, which
\* is left with what the other four did not take (at most 4m).
Floor(size, a) == DefaultShare(size)[3] - a * (6 * MaxDelta[size] + 2)

\* The store has slots for every class, and enough for all the adjustments.
Roomy(size) == size >= 6 /\ (MaxAdjust = 0 \/ Floor(size, MaxAdjust) >= 3)

\* One turn of the loop completes q: only the fourth class may lack a slot, and if
\* it does the class that gives it one can spare it.
Mendable(q) ==
    /\ q[1] > 0 /\ q[2] > 0 /\ q[3] > 0 /\ q[5] > 0
    /\ q[4] = 0 => /\ q[5] > 1
                   /\ q[5] = Limits => q[1] > 1 /\ q[2] > 1 /\ q[3] > 1

\* The inductive invariant: MaxSize is divided, or will be after one turn.  While an
\* adjustment is being repaired the large classes keep what the small ones lack on
\* top of their floor.
Divided ==
    /\ Mendable(RawQuota(max_size, share))
    /\ IF pc = "adjust"
       THEN /\ Floor(max_size, adjusted) >= 3
            /\ \A k \in 1 .. 3 : delta[k] - Lack(delta) > Floor(max_size, adjusted)
       ELSE \A k \in 1 .. 3 : share[k] >= Floor(max_size, adjusted)
    /\ pc = "insert" => Mendable(quota) /\ Total(quota) = max_size
    /\ pc = "evict" => AllPositive(quota) /\ Total(quota) = max_size

\* A turn for one class changes nothing or moves a slot to a class without one, from
\* the highest class that has not exactly the limit.
LEMMA RefillMoves ==
  ASSUME NEW q \in [Tags -> Int], NEW i \in Tags, NEW unsigned \in BOOLEAN,
         Refill(q, i, unsigned) # q
  PROVE  \E j \in Tags \ {i} :
            /\ q[i] <= 0 /\ q[j] # Limits
            /\ \A k \in Tags \ {i} : k > j => q[k] = Limits
            /\ Refill(q, i, unsigned)
                 = [q EXCEPT ![j] = Store(@ - 1, unsigned), ![i] = Store(@ + 1, unsigned)]
<1> DEFINE j == Max(Donors(q, i))
<1>1. q[i] <= 0 /\ Donors(q, i) # {}
  BY Zenon DEF Refill
<1>2. Donors(q, i) \in SUBSET Tags
  BY DEF Donors
<1>3. \E x \in Donors(q, i) : \A y \in Donors(q, i) : x >= y
  BY <1>1, <1>2, LargestClass DEF Tags
<1>4. j \in Donors(q, i) /\ \A y \in Donors(q, i) : j >= y
  BY <1>3 DEF Max
<1>5. Refill(q, i, unsigned)
        = [q EXCEPT ![j] = Store(@ - 1, unsigned), ![i] = Store(@ + 1, unsigned)]
  BY <1>1, Zenon DEF Refill
<1> HIDE DEF j
<1>6. j \in Tags \ {i} /\ q[j] # Limits
  BY <1>4 DEF Donors
<1>7. \A k \in Tags \ {i} : k > j => q[k] = Limits
  BY <1>4, <1>6 DEF Donors, Tags
<1> QED
  BY <1>1, <1>5, <1>6, <1>7

\* In a vector of ints the slot is moved.
LEMMA RefillIntMoves ==
  ASSUME NEW q \in [Tags -> Int], NEW i \in Tags, Refill(q, i, FALSE) # q
  PROVE  \E j \in Tags \ {i} : q[i] <= 0 /\ Refill(q, i, FALSE) = Moved(q, j, i)
<1>1. PICK j \in Tags \ {i} :
        /\ q[i] <= 0
        /\ Refill(q, i, FALSE)
             = [q EXCEPT ![j] = Store(@ - 1, FALSE), ![i] = Store(@ + 1, FALSE)]
  BY RefillMoves
<1>2. [q EXCEPT ![j] = Store(@ - 1, FALSE), ![i] = Store(@ + 1, FALSE)]
        = [q EXCEPT ![j] = @ - 1, ![i] = @ + 1]
  BY Zenon DEF Store
<1>3. [q EXCEPT ![j] = @ - 1, ![i] = @ + 1] = Moved(q, j, i)
  BY DEF Moved
<1> QED
  BY <1>1, <1>2, <1>3

\* A slot moved to a small class that lacks one costs a large class no more than the
\* small ones lack less.
LEMMA MovedKeeps ==
  ASSUME NEW q \in [Tags -> Int], NEW i \in {4, 5}, q[i] <= 0, NEW j \in Tags \ {i},
         NEW k \in 1 .. 3
  PROVE  Moved(q, j, i)[k] - Lack(Moved(q, j, i)) >= q[k] - Lack(q)
<1>1. \A t \in Tags : q[t] \in Int
  OBVIOUS
<1>2. \A t \in Tags : Moved(q, j, i)[t] = IF t = j THEN q[t] - 1
                                         ELSE IF t = i THEN q[t] + 1 ELSE q[t]
  BY DEF Moved
<1>3. 4 \in Tags /\ 5 \in Tags /\ k \in Tags /\ i \in Tags /\ k # 4 /\ k # 5
  BY DEF Tags
<1> QED
  BY SMTT(30), <1>1, <1>2, <1>3 DEF Lack

\* So does a turn of the int loop for any class, as the large ones lack none.
LEMMA RefillKeeps ==
  ASSUME NEW q \in [Tags -> Int], NEW F \in Nat, NEW i \in Tags,
         \A k \in 1 .. 3 : q[k] - Lack(q) > F
  PROVE  \A k \in 1 .. 3 : Refill(q, i, FALSE)[k] - Lack(Refill(q, i, FALSE)) > F
<1>1. CASE Refill(q, i, FALSE) = q
  BY <1>1, Zenon
<1>2. CASE Refill(q, i, FALSE) # q
  <2>1. PICK j \in Tags \ {i} : q[i] <= 0 /\ Refill(q, i, FALSE) = Moved(q, j, i)
    BY <1>2, RefillIntMoves
  <2>2. Lack(q) \in Nat
    BY DEF Lack, Tags
  <2>3. i \in {4, 5}
    <3>1. \A k \in 1 .. 3 : q[k] > 0
      BY <2>2 DEF Tags
    <3> QED
      BY <2>1, <3>1 DEF Tags
  <2> DEFINE r == Moved(q, j, i)
  <2>4. \A k \in 1 .. 3 : r[k] - Lack(r) >= q[k] - Lack(q)
    BY <2>1, <2>3, MovedKeeps
  <2>5. \A t \in Tags : r[t] \in Int
    BY DEF Moved
  <2> HIDE DEF r
  <2>6. Lack(r) \in Int
    BY <2>5 DEF Lack, Tags
  <2>7. \A k \in 1 .. 3 : r[k] - Lack(r) > F
    BY <2>2, <2>4, <2>5, <2>6 DEF Tags
  <2> QED
    BY <2>1, <2>7 DEF r
<1> QED
  BY <1>1, <1>2

\* One iteration of the int loop leaves the large classes above their floor.
LEMMA PassKeeps ==
  ASSUME NEW q \in [Tags -> Int], NEW F \in Nat, \A k \in 1 .. 3 : q[k] - Lack(q) > F
  PROVE  \A k \in 1 .. 3 : Pass(q, FALSE)[k] - Lack(Pass(q, FALSE)) > F
<1> DEFINE Above(r) == r \in [Tags -> Int] /\ \A k \in 1 .. 3 : r[k] - Lack(r) > F
<1>1. ASSUME NEW r, NEW i \in Tags, Above(r) PROVE Above(Refill(r, i, FALSE))
  BY <1>1, RefillInt, RefillKeeps
<1>2. Above(q)
  OBVIOUS
<1>3. 1 \in Tags /\ 2 \in Tags /\ 3 \in Tags /\ 4 \in Tags /\ 5 \in Tags
  BY DEF Tags
<1> HIDE DEF Above
<1>4. Above(Pass(q, FALSE))
  BY <1>1, <1>2, <1>3, Zenon DEF Pass
<1> QED
  BY <1>4 DEF Above

\* A word that fits is stored as it is.
LEMMA WordFits ==
  ASSUME NEW v \in 0 .. WordSize - 1
  PROVE  v % WordSize = v
BY WordAssumption

\* One iteration of the uint32_t loop completes a vector that can be mended, unless all
\* four classes that could give a slot have exactly the limit.
LEMMA PassMends ==
  ASSUME NEW q \in [Tags -> 0 .. WordSize - 1], Mendable(q)
  PROVE  LET r == Pass(q, TRUE)
         IN  \/ r = q /\ (AllPositive(q) \/ Total(q) = 4 * Limits)
             \/ r \in [Tags -> Nat] /\ AllPositive(r) /\ Total(r) = Total(q)
<1>1. ASSUME NEW r, NEW i \in Tags, ~ (r[i] <= 0) PROVE Refill(r, i, TRUE) = r
  BY <1>1, Zenon DEF Refill
<1>2. 1 \in Tags /\ 2 \in Tags /\ 3 \in Tags /\ 4 \in Tags /\ 5 \in Tags
  BY DEF Tags
<1>3. \A t \in Tags : q[t] \in Nat
  BY WordAssumption
<1>4. ~ (q[1] <= 0) /\ ~ (q[2] <= 0) /\ ~ (q[3] <= 0) /\ ~ (q[5] <= 0)
  BY <1>2, <1>3 DEF Mendable
<1>5. Pass(q, TRUE) = Refill(Refill(q, 4, TRUE), 5, TRUE)
  BY <1>1, <1>2, <1>4, Zenon DEF Pass
<1>6. CASE Refill(q, 4, TRUE) = q
  <2>1. Pass(q, TRUE) = q
    BY <1>1, <1>2, <1>4, <1>5, <1>6, Zenon
  <2>2. CASE q[4] # 0
    <3>1. AllPositive(q)
      BY <1>2, <1>3, <1>4, <2>2 DEF AllPositive, Tags
    <3> QED
      BY <2>1, <3>1, Zenon
  <2>3. CASE q[4] = 0
    <3> DEFINE j == Max(Donors(q, 4))
    <3>1. Donors(q, 4) = {}
      <4> SUFFICES ASSUME Donors(q, 4) # {} PROVE FALSE
        OBVIOUS
      <4>1. j \in Tags \ {4}
        BY <1>2, DonorType
      <4>2. q[4] <= 0
        BY <2>3
      <4>3. Refill(q, 4, TRUE)
              = [q EXCEPT ![j] = Store(@ - 1, TRUE), ![4] = Store(@ + 1, TRUE)]
        BY <4>2, Zenon DEF Refill
      <4> HIDE DEF j
      <4>4. Refill(q, 4, TRUE)[4] = Store(q[4] + 1, TRUE)
        BY <1>2, <4>1, <4>3
      <4>5. 1 % WordSize = 1
        BY WordFits, WordAssumption
      <4>6. Store(q[4] + 1, TRUE) = 1
        BY <2>3, <4>5 DEF Store
      <4>7. Refill(q, 4, TRUE)[4] = 0
        BY <1>6, <2>3, Zenon
      <4>8. 0 = 1
        BY <4>4, <4>6, <4>7, Zenon
      <4> QED
        BY <4>8
    <3>2. \A t \in Tags \ {4} : q[t] = Limits
      BY <3>1 DEF Donors
    <3>3. Total(q) = 4 * Limits
      BY <1>2, <2>3, <3>2 DEF Total, Limits
    <3> QED
      BY <2>1, <3>3, Zenon
  <2> QED
    BY <2>2, <2>3
<1>7. CASE Refill(q, 4, TRUE) # q
  <2>1. q \in [Tags -> Int]
    BY <1>3
  <2>2. PICK j \in Tags \ {4} :
          /\ q[4] <= 0 /\ q[j] # Limits
          /\ \A k \in Tags \ {4} : k > j => q[k] = Limits
          /\ Refill(q, 4, TRUE)
               = [q EXCEPT ![j] = Store(@ - 1, TRUE), ![4] = Store(@ + 1, TRUE)]
    BY <1>2, <1>7, <2>1, RefillMoves
  <2>3. q[4] = 0
    BY <1>2, <1>3, <2>2
  <2>4. q[j] > 1
    BY <1>2, <2>2, <2>3 DEF Mendable, Tags
  <2>5. (q[j] - 1) % WordSize = q[j] - 1 /\ (q[4] + 1) % WordSize = q[4] + 1
    <3>1. q[j] - 1 \in 0 .. WordSize - 1 /\ q[4] + 1 \in 0 .. WordSize - 1
      BY <1>2, <1>3, <2>3, <2>4, WordAssumption
    <3> QED
      BY <3>1, WordFits
  <2>6. [q EXCEPT ![j] = Store(@ - 1, TRUE), ![4] = Store(@ + 1, TRUE)]
          = [q EXCEPT ![j] = (@ - 1) % WordSize, ![4] = (@ + 1) % WordSize]
    BY Zenon DEF Store
  <2>7. [q EXCEPT ![j] = (@ - 1) % WordSize, ![4] = (@ + 1) % WordSize] = Moved(q, j, 4)
    BY <2>5 DEF Moved
  <2> DEFINE r == Moved(q, j, 4)
  <2>8. \A t \in Tags : r[t] = IF t = j THEN q[t] - 1 ELSE IF t = 4 THEN 1 ELSE q[t]
    BY <2>3 DEF Moved
  <2>9. r \in [Tags -> Nat] /\ AllPositive(r)
    <3>1. \A t \in Tags \ {4} : q[t] > 0
      BY <1>3, <1>4 DEF Tags
    <3>2. \A t \in Tags : r[t] \in Nat /\ r[t] > 0
      BY <1>3, <2>4, <2>8, <3>1
    <3> QED
      BY <3>2 DEF AllPositive, Moved
  <2>10. Total(r) = Total(q)
    BY SMTT(30), <1>2, <1>3, <2>3, <2>8 DEF Total, Tags
  <2>11. ~ (r[5] <= 0)
    BY <1>2, <2>9 DEF AllPositive
  <2>12. Pass(q, TRUE) = r
    <3>1. Refill(q, 4, TRUE) = r
      BY <2>2, <2>6, <2>7, Zenon
    <3> HIDE DEF r
    <3>2. Refill(r, 5, TRUE) = r
      BY <1>1, <1>2, <2>11, Zenon
    <3> QED
      BY <1>5, <3>1, <3>2, Zenon
  <2> QED
    BY <2>9, <2>10, <2>12, Zenon
<1> QED
  BY <1>6, <1>7

\* The quotas before the repair divide MaxSize, as the remainder does not wrap.
LEMMA RawQuotaTotal ==
  ASSUME NEW size \in 0 .. WordSize - 1, NEW s \in [Tags -> 0 .. size],
         TotalOfFirstFour(s) <= size
  PROVE  LET q == RawQuota(size, s)
         IN  /\ q[1] = s[1] /\ q[2] = s[2] /\ q[3] = s[3] /\ q[4] = s[4]
             /\ q[5] = size - TotalOfFirstFour(s)
             /\ Total(q) = size
<1> DEFINE q == RawQuota(size, s)
<1>1. s[1] \in Nat /\ s[2] \in Nat /\ s[3] \in Nat /\ s[4] \in Nat
  BY WordAssumption DEF Tags
<1>2. size - TotalOfFirstFour(s) \in 0 .. WordSize - 1
  BY <1>1, WordAssumption DEF TotalOfFirstFour
<1>3. /\ q[1] = s[1] /\ q[2] = s[2] /\ q[3] = s[3] /\ q[4] = s[4]
      /\ q[5] = (size - TotalOfFirstFour(s)) % WordSize
  BY DEF RawQuota, Tags
<1>4. q[5] = size - TotalOfFirstFour(s)
  BY <1>2, <1>3, WordFits
<1> HIDE DEF q
<1>5. Total(q) = size
  BY <1>1, <1>3, <1>4, WordAssumption DEF Total, TotalOfFirstFour
<1> QED
  BY <1>3, <1>4, <1>5 DEF q

\* With the ratios in the source, six slots are enough.
LEMMA DefaultMendable ==
  ASSUME NEW size \in 6 .. WordSize - 1
  PROVE  /\ Mendable(RawQuota(size, DefaultShare(size)))
         /\ \A k \in 1 .. 3 : DefaultShare(size)[k] >= DefaultShare(size)[3]
<1> DEFINE d == DefaultShare(size)
           q == RawQuota(size, d)
<1>1. /\ d[1] = (size * 4647) \div 10000
      /\ d[2] = (size * 2201) \div 10000
      /\ d[3] = (size * 2201) \div 10000
      /\ d[4] = (size * 661) \div 10000
  BY DEF DefaultShare, Weight, Tags
<1>2. size \in Nat /\ size >= 6 /\ size < WordSize /\ size \in 0 .. WordSize - 1
  BY WordAssumption
<1>3. d \in [Tags -> 0 .. size] /\ TotalOfFirstFour(d) <= size
  BY <1>2, DefaultShareType
<1> HIDE DEF d
<1>4. /\ q[1] = d[1] /\ q[2] = d[2] /\ q[3] = d[3] /\ q[4] = d[4]
      /\ q[5] = size - TotalOfFirstFour(d)
  BY <1>2, <1>3, RawQuotaTotal
<1> HIDE DEF q
<1>5. q[1] > 0 /\ q[2] > 0 /\ q[3] > 0 /\ q[5] > 0
  BY <1>1, <1>2, <1>4 DEF TotalOfFirstFour
<1>6. q[4] = 0 => q[5] > 1 /\ q[5] # Limits
  <2> SUFFICES ASSUME q[4] = 0 PROVE q[5] > 1 /\ q[5] # Limits
    OBVIOUS
  <2>1. size <= 15
    BY <1>1, <1>2, <1>4
  <2>2. q[5] = size - ((size * 4647) \div 10000 + (size * 2201) \div 10000
                        + (size * 2201) \div 10000)
    BY <1>1, <1>2, <1>4 DEF TotalOfFirstFour
  <2> QED
    BY <1>2, <2>1, <2>2 DEF Limits
<1>7. Mendable(q)
  BY <1>5, <1>6 DEF Mendable
<1>8. \A k \in 1 .. 3 : d[k] >= d[3]
  BY <1>1, <1>2
<1> QED
  BY <1>7, <1>8 DEF q, d

LEMMA TimesMonotone ==
  ASSUME NEW a \in Nat, NEW b \in Nat, NEW c \in Nat
  PROVE  b * c \in Int /\ (b >= a => b * c >= a * c)
<1>1. ASSUME b >= a PROVE b * c >= a * c
  <2>1. PICK e \in Nat : b = a + e
    <3>1. b - a \in Nat /\ b = a + (b - a)
      BY <1>1
    <3> QED
      BY <3>1
  <2>2. b * c = a * c + e * c /\ e * c \in Nat /\ a * c \in Int
    BY <2>1
  <2> QED
    BY <2>2
<1> QED
  BY <1>1

\* Each adjustment lowers the floor by the same amount.
LEMMA FloorStep ==
  ASSUME NEW size \in Sizes, NEW a \in Nat
  PROVE  /\ Floor(size, a) \in Int
         /\ Floor(size, a + 1) = Floor(size, a) - (6 * MaxDelta[size] + 2)
         /\ \A b \in Nat : b >= a => Floor(size, b) <= Floor(size, a)
<1> DEFINE c == 6 * MaxDelta[size] + 2
           d == DefaultShare(size)[3]
<1>1. c \in Nat
  BY BoundAssumption
<1>2. d \in Int
  BY SizeAssumption, WordAssumption, DefaultShareType DEF Tags
<1>3. \A b : Floor(size, b) = d - b * c
  BY DEF Floor
<1> HIDE DEF c, d
<1>4. a * c \in Int /\ (a + 1) * c = a * c + c
  BY <1>1
<1>6. \A b \in Nat : b * c \in Int /\ (b >= a => b * c >= a * c)
  BY <1>1, TimesMonotone
<1>7. \A b \in Nat : b >= a => Floor(size, b) <= Floor(size, a)
  BY <1>2, <1>3, <1>4, <1>6
<1>8. Floor(size, a) \in Int
  BY <1>2, <1>3, <1>4
<1>9. Floor(size, a + 1) = Floor(size, a) - c
  BY <1>1, <1>2, <1>3, <1>4
<1> QED
  BY <1>7, <1>8, <1>9 DEF c

\* Before the repair of an adjustment the large classes have their next floor and
\* what the small ones lack.
LEMMA AdjustFloor ==
  ASSUME NEW size \in 0 .. WordSize - 1, NEW s \in [Tags -> 0 .. size],
         TotalOfFirstFour(s) <= size, Mendable(RawQuota(size, s)),
         NEW F \in Int, \A k \in 1 .. 3 : s[k] >= F,
         NEW m \in Nat, NEW md \in [1 .. 4 -> -m .. m], NEW d,
         /\ d[1] = s[1] + md[1] /\ d[2] = s[2] + md[2]
         /\ d[3] = s[3] + md[3] /\ d[4] = s[4] + md[4]
         /\ d[5] = size - (d[1] + d[2] + d[3] + d[4])
  PROVE  \A k \in 1 .. 3 : d[k] - Lack(d) > F - (6 * m + 2)
<1>1. s[1] \in Nat /\ s[2] \in Nat /\ s[3] \in Nat /\ s[4] \in Nat /\ size \in Nat
  BY WordAssumption DEF Tags
<1>2. \A t \in 1 .. 4 : md[t] \in Int /\ -m <= md[t] /\ md[t] <= m
  OBVIOUS
<1>3. s[1] >= F /\ s[2] >= F /\ s[3] >= F
  OBVIOUS
<1>4. size - TotalOfFirstFour(s) > 0
  BY RawQuotaTotal DEF Mendable
<1>5. d[4] >= -m /\ d[4] \in Int
  BY <1>1, <1>2
<1>6. d[5] >= 1 - 4 * m /\ d[5] \in Int
  BY <1>1, <1>2, <1>4 DEF TotalOfFirstFour
<1>7. Lack(d) <= 5 * m + 1 /\ Lack(d) \in Int
  BY <1>5, <1>6 DEF Lack
<1>8. /\ d[1] \in Int /\ d[2] \in Int /\ d[3] \in Int
      /\ d[1] >= F - m /\ d[2] >= F - m /\ d[3] >= F - m
  BY <1>1, <1>2, <1>3
<1> QED
  BY <1>7, <1>8

\* After it the shares can be mended, although each may have lost a slot to rounding:
\* what the fourth lost is the fifth's.
LEMMA AdjustMendable ==
  ASSUME NEW size \in 0 .. WordSize - 1, NEW d \in [Tags -> Int], AllPositive(d),
         Total(d) = size, NEW F \in Int, F >= 3, \A k \in 1 .. 3 : d[k] - Lack(d) > F,
         NEW loss \in [Tags -> {0, 1}], NEW s, s = [t \in Tags |-> d[t] - loss[t]]
  PROVE  Mendable(RawQuota(size, s)) /\ \A k \in 1 .. 3 : s[k] >= F
<1>0. size \in Nat
  BY WordAssumption
<1>1. /\ d[1] \in Int /\ d[2] \in Int /\ d[3] \in Int /\ d[4] \in Int /\ d[5] \in Int
      /\ d[4] > 0 /\ d[5] > 0
  BY DEF AllPositive, Tags
<1>2. d[1] > F /\ d[2] > F /\ d[3] > F
  BY <1>1 DEF Lack
<1>3. \A t \in Tags : (loss[t] = 0 \/ loss[t] = 1) /\ s[t] = d[t] - loss[t]
  OBVIOUS
<1>4. s \in [Tags -> 0 .. size] /\ TotalOfFirstFour(s) <= size
  BY <1>0, AdjustEnd
<1> DEFINE q == RawQuota(size, s)
<1>5. /\ q[1] = s[1] /\ q[2] = s[2] /\ q[3] = s[3] /\ q[4] = s[4]
      /\ q[5] = size - TotalOfFirstFour(s)
  BY <1>4, RawQuotaTotal
<1> HIDE DEF q
<1>6. /\ s[1] = d[1] - loss[1] /\ s[2] = d[2] - loss[2] /\ s[3] = d[3] - loss[3]
      /\ s[4] = d[4] - loss[4]
      /\ loss[1] \in 0 .. 1 /\ loss[2] \in 0 .. 1 /\ loss[3] \in 0 .. 1 /\ loss[4] \in 0 .. 1
  BY <1>3 DEF Tags
<1>7. s[1] >= F /\ s[2] >= F /\ s[3] >= F
  BY <1>1, <1>2, <1>6
<1>8. q[5] = d[5] + loss[1] + loss[2] + loss[3] + loss[4]
  BY <1>1, <1>5, <1>6 DEF TotalOfFirstFour, Total
<1>9. Mendable(q)
  BY <1>1, <1>5, <1>6, <1>7, <1>8 DEF Mendable
<1> QED
  BY <1>7, <1>9 DEF q

LEMMA DividedInit ==
  ASSUME \A size \in Sizes : Roomy(size), Init
  PROVE  Divided
<1>1. max_size \in Sizes /\ max_size \in 6 .. WordSize - 1 /\ max_size \in Nat
  BY SizeAssumption, WordAssumption DEF Init, Roomy
<1>2. Floor(max_size, 0) = DefaultShare(max_size)[3]
  <2> DEFINE c == 6 * MaxDelta[max_size] + 2
             d == DefaultShare(max_size)[3]
  <2>1. c \in Nat
    BY <1>1, BoundAssumption
  <2>2. d \in Int
    BY <1>1, DefaultShareType DEF Tags
  <2>3. Floor(max_size, 0) = d - 0 * c
    BY DEF Floor
  <2> HIDE DEF c, d
  <2>4. d - 0 * c = d
    BY <2>1, <2>2
  <2> QED
    BY <2>3, <2>4 DEF d
<1> QED
  BY <1>1, <1>2, DefaultMendable DEF Init, Divided

LEMMA DividedStep ==
  ASSUME \A size \in Sizes : Roomy(size), Inductive, Divided, [Next]_vars
  PROVE  Divided'
<1>0. /\ max_size \in Sizes /\ max_size \in 0 .. WordSize - 1 /\ max_size \in Nat
      /\ share \in [Tags -> 0 .. max_size] /\ TotalOfFirstFour(share) <= max_size
      /\ adjusted \in Nat
  BY SizeAssumption, WordAssumption, BoundAssumption DEF Inductive, TypeOK, AdjustConserves
<1>1. ASSUME NEW n \in Names, StartInsert(n) PROVE Divided'
  <2>1. Total(RawQuota(max_size, share)) = max_size
    BY <1>0, RawQuotaTotal
  <2>2. /\ quota' = RawQuota(max_size, share) /\ pc = "idle" /\ pc' = "insert"
        /\ UNCHANGED <<max_size, share, adjusted>>
    BY <1>1 DEF StartInsert
  <2> QED
    BY <2>1, <2>2 DEF Divided
<1>2. CASE InsertPass
  <2>1. quota \in [Tags -> 0 .. WordSize - 1] /\ Mendable(quota) /\ Total(quota) = max_size
    BY <1>2 DEF InsertPass, Divided, Inductive, TypeOK
  <2>2. /\ quota' = Pass(quota, TRUE) /\ pc = "insert"
        /\ pc' = IF AllPositive(quota') THEN "evict" ELSE "insert"
        /\ UNCHANGED <<max_size, share, adjusted>>
    BY <1>2 DEF InsertPass
  <2>3. \/ quota' = quota
        \/ AllPositive(quota') /\ Total(quota') = Total(quota)
    BY <2>1, <2>2, PassMends
  <2>4. Total(quota') = max_size /\ (Mendable(quota') \/ AllPositive(quota'))
    BY <2>1, <2>3
  <2> QED
    BY <2>2, <2>4 DEF Divided
<1>3. CASE FinishInsert
  BY <1>3 DEF FinishInsert, Divided
<1>4. ASSUME NEW k \in DOMAIN order, Hit(k) PROVE Divided'
  BY <1>4 DEF Hit, Divided
<1>5. CASE StartAdjust
  <2> DEFINE m == MaxDelta[max_size]
             F == Floor(max_size, adjusted)
  <2>0. m \in Nat /\ F \in Int /\ adjusted' = adjusted + 1 /\ pc = "idle" /\ pc' = "adjust"
        /\ UNCHANGED <<max_size, share, quota>>
    BY <1>0, <1>5, BoundAssumption, FloorStep DEF StartAdjust
  <2>1. PICK md \in [1 .. 4 -> -m .. m] :
          LET first == [t \in 1 .. 4 |-> share[t] + md[t]]
          IN  delta' = [t \in Tags |-> IF t = 5 THEN max_size - TotalOfFirstFour(first)
                                                ELSE first[t]]
    BY <1>5 DEF StartAdjust
  <2>2. /\ delta'[1] = share[1] + md[1] /\ delta'[2] = share[2] + md[2]
        /\ delta'[3] = share[3] + md[3] /\ delta'[4] = share[4] + md[4]
        /\ delta'[5] = max_size - (delta'[1] + delta'[2] + delta'[3] + delta'[4])
    BY <2>1 DEF TotalOfFirstFour, Tags
  <2>3. Floor(max_size, adjusted') = F - (6 * m + 2) /\ Floor(max_size, adjusted') >= 3
    <3>1. MaxAdjust \in Nat /\ MaxAdjust >= adjusted + 1 /\ MaxAdjust # 0
      BY <1>0, <1>5, BoundAssumption DEF StartAdjust
    <3>2. Floor(max_size, MaxAdjust) >= 3 /\ Floor(max_size, MaxAdjust) \in Int
      BY <1>0, <3>1, FloorStep DEF Roomy
    <3>3. Floor(max_size, MaxAdjust) <= Floor(max_size, adjusted + 1)
          /\ Floor(max_size, adjusted + 1) \in Int
      BY <1>0, <3>1, FloorStep
    <3> QED
      BY <1>0, <2>0, <3>2, <3>3, FloorStep
  <2>4. Mendable(RawQuota(max_size, share)) /\ \A k \in 1 .. 3 : share[k] >= F
    BY <2>0 DEF Divided
  <2> HIDE DEF m, F
  <2>5. \A k \in 1 .. 3 : delta'[k] - Lack(delta') > F - (6 * m + 2)
    BY <1>0, <2>0, <2>2, <2>4, AdjustFloor
  <2> QED
    BY <2>0, <2>3, <2>4, <2>5 DEF Divided
<1>6. CASE AdjustPass
  <2> DEFINE F == Floor(max_size, adjusted)
  <2>0. F \in Int /\ F >= 3 /\ F \in Nat
    <3>1. F \in Int /\ F >= 3
      BY <1>0, <1>6, FloorStep DEF AdjustPass, Divided
    <3> QED
      BY <3>1
  <2>1. /\ delta \in [Tags -> Int] /\ Total(delta) = max_size
        /\ \A k \in 1 .. 3 : delta[k] - Lack(delta) > F
        /\ delta' = Pass(delta, FALSE)
        /\ pc = "adjust" /\ UNCHANGED <<max_size, adjusted, quota>>
    BY <1>6 DEF AdjustPass, Inductive, TypeOK, AdjustConserves, Divided
  <2> HIDE DEF F
  <2>2. /\ delta' \in [Tags -> Int] /\ Total(delta') = max_size
        /\ \A k \in 1 .. 3 : delta'[k] - Lack(delta') > F
    BY <2>0, <2>1, PassInt, PassKeeps
  <2>3. CASE AllPositive(delta')
    <3>1. PICK loss \in [Tags -> {0, 1}] : share' = [t \in Tags |-> delta'[t] - loss[t]]
      BY <1>6, <2>3 DEF AdjustPass
    <3>2. Mendable(RawQuota(max_size, share')) /\ \A k \in 1 .. 3 : share'[k] >= F
      BY <1>0, <2>0, <2>2, <2>3, <3>1, AdjustMendable
    <3>3. pc' = "idle"
      BY <1>6, <2>3 DEF AdjustPass
    <3> QED
      BY <2>1, <3>2, <3>3 DEF Divided, F
  <2>4. CASE ~ AllPositive(delta')
    <3>1. UNCHANGED <<pc, share>>
      BY <1>6, <2>4 DEF AdjustPass
    <3> QED
      BY <2>0, <2>1, <2>2, <3>1 DEF Divided, F
  <2> QED
    BY <2>3, <2>4
<1>7. CASE UNCHANGED vars
  BY <1>7 DEF vars, Divided
<1> QED
  BY <1>1, <1>2, <1>3, <1>4, <1>5, <1>6, <1>7 DEF Next

LEMMA DividedInvariant ==
  ASSUME \A size \in Sizes : Roomy(size)
  PROVE  Spec => []Divided
<1>1. Init => Divided
  BY DividedInit
<1>2. Inductive /\ Divided /\ [Next]_vars => Divided'
  BY DividedStep
<1> QED
  BY <1>1, <1>2, InductiveInvariant, PTL DEF Spec

\* As long as the large classes can pay for the adjustments, whatever the hits and the
\* rounding, the quotas by which an insertion evicts divide MaxSize exactly, although
\* both repair loops run.
THEOREM QuotasExact ==
  ASSUME \A size \in Sizes : Roomy(size)
  PROVE  Spec => []QuotaExact
<1>1. Divided => QuotaExact
  BY DEF Divided, QuotaExact
<1> QED
  BY <1>1, DividedInvariant, PTL

\* A store with that room, all of its Data tagged, never outgrows MaxSize.
THEOREM CapacityKept ==
  ASSUME TagOf \in [Names -> Tags], \A size \in Sizes : Roomy(size)
  PROVE  Spec => []Capacity
BY CapacityFromQuotas, QuotasExact, PTL

\* The loop of an insertion ends after one turn, except perhaps in a store of 40 slots:
\* four classes with exactly the limit give nothing to one that has none.
THEOREM InsertRepairsAtOnce ==
  ASSUME \A size \in Sizes : Roomy(size) /\ size # 4 * Limits
  PROVE  Spec => [][pc = "insert" => pc' = "evict"]_vars
<1> DEFINE Ends == pc = "insert" => pc' = "evict"
<1>1. ASSUME Inductive, Divided, [Next]_vars PROVE [Ends]_vars
  <2> SUFFICES ASSUME Next, pc = "insert" PROVE pc' = "evict"
    BY <1>1
  <2>1. InsertPass
    BY DEF Next, StartInsert, FinishInsert, Hit, StartAdjust, AdjustPass
  <2>2. /\ quota \in [Tags -> 0 .. WordSize - 1] /\ Mendable(quota)
        /\ Total(quota) = max_size /\ max_size # 4 * Limits
    BY <1>1 DEF Inductive, TypeOK, Divided
  <2>3. AllPositive(Pass(quota, TRUE))
    BY <2>2, PassMends
  <2> QED
    BY <2>1, <2>3 DEF InsertPass
<1>2. Spec => []Divided
  BY DividedInvariant
<1> QED
  BY <1>1, <1>2, InductiveInvariant, PTL DEF Spec

(***************************************************************************)
(* The loop of an adjustment ends.                                         *)
(***************************************************************************)

\* The most the large classes hold together after a adjustments.
Ceiling(size, a) ==
    LET d == DefaultShare(size)
    IN  d[1] + d[2] + d[3] + a * (3 * MaxDelta[size])

\* They always leave the two small classes a slot each.
Spare(size) == Ceiling(size, MaxAdjust) + 2 <= size

\* The large classes stay below their ceiling.
Ceiled ==
    LET s == IF pc = "adjust" THEN delta ELSE share
    IN  s[1] + s[2] + s[3] <= Ceiling(max_size, adjusted)

\* A class without a slot gets one, unless the other four have exactly the limit.
LEMMA RefillGives ==
  ASSUME NEW q \in [Tags -> Int], NEW i \in Tags, q[i] <= 0,
         Total(q) > 4 * Limits
  PROVE  \E j \in Tags \ {i} : Refill(q, i, FALSE) = Moved(q, j, i)
<1> DEFINE j == Max(Donors(q, i))
<1>1. \E k \in Tags \ {i} : q[k] # Limits
  <2> SUFFICES ASSUME \A k \in Tags \ {i} : q[k] = Limits PROVE FALSE
    OBVIOUS
  <2>1. Total(q) = 4 * Limits + q[i]
    BY DEF Total, Limits, Tags
  <2> QED
    BY <2>1 DEF Limits
<1>2. Donors(q, i) # {}
  BY <1>1 DEF Donors
<1>3. j \in Tags \ {i}
  BY <1>2, DonorType
<1>4. Refill(q, i, FALSE) = [q EXCEPT ![j] = Store(@ - 1, FALSE), ![i] = Store(@ + 1, FALSE)]
  BY <1>2, Zenon DEF Refill
<1> HIDE DEF j
<1>5. [q EXCEPT ![j] = Store(@ - 1, FALSE), ![i] = Store(@ + 1, FALSE)]
        = [q EXCEPT ![j] = @ - 1, ![i] = @ + 1]
  BY Zenon DEF Store
<1>6. [q EXCEPT ![j] = @ - 1, ![i] = @ + 1] = Moved(q, j, i)
  BY <1>3 DEF Moved
<1> QED
  BY <1>3, <1>4, <1>5, <1>6, Zenon

\* A turn gives the large classes nothing.  If a small one lacks a slot they lack one
\* less after it, and otherwise nothing changes.
LEMMA PassSettles ==
  ASSUME NEW q \in [Tags -> Int], q[1] > 0, q[2] > 0, q[3] > 0, q[4] + q[5] >= 2,
         Total(q) > 4 * Limits
  PROVE  LET r == Pass(q, FALSE)
         IN  /\ r[1] + r[2] + r[3] <= q[1] + q[2] + q[3]
             /\ (AllPositive(q) /\ r = q) \/ Lack(r) < Lack(q)
<1>1. ASSUME NEW r, NEW i \in Tags, ~ (r[i] <= 0) PROVE Refill(r, i, FALSE) = r
  BY <1>1, Zenon DEF Refill
<1>2. 1 \in Tags /\ 2 \in Tags /\ 3 \in Tags /\ 4 \in Tags /\ 5 \in Tags
  BY DEF Tags
<1>3. q[1] \in Int /\ q[2] \in Int /\ q[3] \in Int /\ q[4] \in Int /\ q[5] \in Int
  BY <1>2
<1>4. ~ (q[1] <= 0) /\ ~ (q[2] <= 0) /\ ~ (q[3] <= 0)
  BY <1>3
<1>5. Pass(q, FALSE) = Refill(Refill(q, 4, FALSE), 5, FALSE)
  BY <1>1, <1>2, <1>4, Zenon DEF Pass
<1> DEFINE Settled(r) == /\ r[1] + r[2] + r[3] <= q[1] + q[2] + q[3]
                         /\ (AllPositive(q) /\ r = q) \/ Lack(r) < Lack(q)
<1>6. ASSUME NEW i \in {4, 5}, NEW j \in Tags \ {i}, q[i] <= 0, q[9 - i] > 1
      PROVE  Settled(Moved(q, j, i)) /\ Moved(q, j, i)[9 - i] > 0
  <2> DEFINE r == Moved(q, j, i)
  <2>1. \A t \in Tags : r[t] = IF t = j THEN q[t] - 1 ELSE IF t = i THEN q[t] + 1 ELSE q[t]
    BY DEF Moved
  <2> HIDE DEF r
  <2>2. r[1] + r[2] + r[3] <= q[1] + q[2] + q[3]
    BY <1>2, <1>3, <1>6, <2>1
  <2>3. r[9 - i] > 0 /\ r[i] = q[i] + 1
    BY <1>2, <1>3, <1>6, <2>1
  <2>4. Lack(r) < Lack(q)
    BY <1>2, <1>3, <1>6, <2>1, <2>3 DEF Lack
  <2> QED
    BY <2>2, <2>3, <2>4 DEF r
<1>7. CASE q[4] <= 0
  <2>1. PICK j \in Tags \ {4} : Refill(q, 4, FALSE) = Moved(q, j, 4)
    BY <1>2, <1>7, RefillGives
  <2>2. q[5] > 1
    BY <1>3, <1>7
  <2> DEFINE r == Moved(q, j, 4)
  <2>3. Settled(r) /\ r[5] > 0
    <3>1. 4 \in {4, 5} /\ 9 - 4 = 5
      OBVIOUS
    <3> QED
      BY <1>6, <1>7, <2>2, <3>1
  <2>4. ~ (r[5] <= 0)
    BY <1>2, <1>3, <2>3 DEF Moved
  <2> HIDE DEF r, Settled
  <2>5. Pass(q, FALSE) = r
    <3>1. Refill(r, 5, FALSE) = r
      BY <1>1, <1>2, <2>4, Zenon
    <3> QED
      BY <1>5, <2>1, <3>1, Zenon DEF r
  <2>6. Settled(Pass(q, FALSE))
    BY <2>3, <2>5, Zenon
  <2> QED
    BY <2>6 DEF Settled
<1>8. CASE q[4] > 0 /\ q[5] <= 0
  <2>1. PICK j \in Tags \ {5} : Refill(q, 5, FALSE) = Moved(q, j, 5)
    BY <1>2, <1>8, RefillGives
  <2>2. q[4] > 1 /\ ~ (q[4] <= 0)
    BY <1>3, <1>8
  <2> DEFINE r == Moved(q, j, 5)
  <2>3. Settled(r)
    <3>1. 5 \in {4, 5} /\ 9 - 5 = 4
      OBVIOUS
    <3> QED
      BY <1>6, <1>8, <2>2, <3>1
  <2> HIDE DEF r, Settled
  <2>4. Pass(q, FALSE) = r
    <3>1. Refill(q, 4, FALSE) = q
      BY <1>1, <1>2, <2>2, Zenon
    <3> QED
      BY <1>5, <2>1, <3>1, Zenon DEF r
  <2>5. Settled(Pass(q, FALSE))
    BY <2>3, <2>4, Zenon
  <2> QED
    BY <2>5 DEF Settled
<1>9. CASE q[4] > 0 /\ q[5] > 0
  <2>1. AllPositive(q)
    BY <1>3, <1>9 DEF AllPositive, Tags
  <2>2. ~ (q[4] <= 0) /\ ~ (q[5] <= 0)
    BY <1>3, <1>9
  <2>3. Pass(q, FALSE) = q
    BY <1>1, <1>2, <1>5, <2>2, Zenon
  <2>4. q[1] + q[2] + q[3] <= q[1] + q[2] + q[3]
    BY <1>3
  <2> HIDE DEF Settled
  <2> QED
    BY <2>1, <2>3, <2>4, Zenon
<1>10. q[4] <= 0 \/ (q[4] > 0 /\ q[5] <= 0) \/ (q[4] > 0 /\ q[5] > 0)
  BY <1>3
<1> QED
  BY <1>7, <1>8, <1>9, <1>10, Zenon

\* The ceiling rises with each adjustment, and stays below what Spare allows.
LEMMA CeilingStep ==
  ASSUME NEW size \in Sizes, NEW a \in Nat
  PROVE  /\ Ceiling(size, a) \in Int
         /\ Ceiling(size, a + 1) = Ceiling(size, a) + 3 * MaxDelta[size]
         /\ \A b \in Nat : b >= a => Ceiling(size, b) >= Ceiling(size, a)
<1> DEFINE c == 3 * MaxDelta[size]
           d == DefaultShare(size)[1] + DefaultShare(size)[2] + DefaultShare(size)[3]
<1>1. c \in Nat
  BY BoundAssumption
<1>2. d \in Int
  BY SizeAssumption, WordAssumption, DefaultShareType DEF Tags
<1>3. \A b : Ceiling(size, b) = d + b * c
  BY DEF Ceiling
<1> HIDE DEF c, d
<1>4. a * c \in Int /\ (a + 1) * c = a * c + c
  BY <1>1
<1>5. \A b \in Nat : b * c \in Int /\ (b >= a => b * c >= a * c)
  BY <1>1, TimesMonotone
<1>6. \A b \in Nat : b >= a => Ceiling(size, b) >= Ceiling(size, a)
  BY <1>2, <1>3, <1>4, <1>5
<1>7. Ceiling(size, a) \in Int /\ Ceiling(size, a + 1) = Ceiling(size, a) + c
  BY <1>1, <1>2, <1>3, <1>4
<1> QED
  BY <1>6, <1>7 DEF c

LEMMA CeiledInit == Init => Ceiled
<1> SUFFICES ASSUME Init PROVE Ceiled
  OBVIOUS
<1>1. max_size \in Sizes /\ max_size \in Nat
  BY SizeAssumption, WordAssumption DEF Init
<1> DEFINE c == 3 * MaxDelta[max_size]
           d == DefaultShare(max_size)[1] + DefaultShare(max_size)[2]
                  + DefaultShare(max_size)[3]
<1>2. c \in Nat
  BY <1>1, BoundAssumption
<1>3. d \in Int
  BY <1>1, DefaultShareType DEF Tags
<1>4. Ceiling(max_size, 0) = d + 0 * c
  BY DEF Ceiling
<1> HIDE DEF c, d
<1>5. Ceiling(max_size, 0) = d /\ d <= d
  BY <1>2, <1>3, <1>4
<1> QED
  BY <1>5 DEF Init, Ceiled, d

LEMMA CeiledStep ==
  ASSUME \A size \in Sizes : Roomy(size) /\ Spare(size) /\ size > 4 * Limits,
         Inductive, Divided, Ceiled, [Next]_vars
  PROVE  /\ Ceiled'
         /\ pc = "adjust" /\ Next => pc' = "idle" \/ Lack(delta') < Lack(delta)
<1>0. /\ max_size \in Sizes /\ max_size \in Nat /\ max_size > 4 * Limits
      /\ share \in [Tags -> Int] /\ delta \in [Tags -> Int] /\ adjusted \in Nat
      /\ Spare(max_size)
  BY SizeAssumption, WordAssumption, BoundAssumption DEF Inductive, TypeOK
<1>1. ASSUME AdjustPass
      PROVE  Ceiled' /\ (pc' = "idle" \/ Lack(delta') < Lack(delta))
  <2>1. /\ delta' = Pass(delta, FALSE) /\ pc = "adjust" /\ Total(delta) = max_size
        /\ UNCHANGED <<max_size, adjusted>>
    BY <1>1 DEF AdjustPass, Inductive, AdjustConserves
  <2>2. delta[1] > 0 /\ delta[2] > 0 /\ delta[3] > 0
    <3>1. Lack(delta) \in Nat
      BY <1>0 DEF Lack, Tags
    <3>2. Floor(max_size, adjusted) \in Int /\ Floor(max_size, adjusted) >= 3
      BY <1>0, <2>1, FloorStep DEF Divided
    <3>3. \A k \in 1 .. 3 : delta[k] - Lack(delta) > Floor(max_size, adjusted)
      BY <2>1 DEF Divided
    <3> QED
      BY <1>0, <3>1, <3>2, <3>3 DEF Tags
  <2>3. delta[4] + delta[5] >= 2
    <3>1. MaxAdjust \in Nat /\ MaxAdjust >= adjusted
      BY <1>0, BoundAssumption DEF Inductive, TypeOK
    <3>2. Ceiling(max_size, adjusted) + 2 <= max_size /\ Ceiling(max_size, adjusted) \in Int
      <4>1. Ceiling(max_size, MaxAdjust) >= Ceiling(max_size, adjusted)
        BY <1>0, <3>1, CeilingStep
      <4>2. Ceiling(max_size, adjusted) \in Int /\ Ceiling(max_size, MaxAdjust) \in Int
        BY <1>0, <3>1, CeilingStep
      <4> QED
        BY <1>0, <4>1, <4>2 DEF Spare
    <3>3. delta[1] + delta[2] + delta[3] <= Ceiling(max_size, adjusted)
      BY <2>1 DEF Ceiled
    <3> QED
      BY <1>0, <2>1, <3>2, <3>3 DEF Total, Tags
  <2>4. /\ delta'[1] + delta'[2] + delta'[3] <= delta[1] + delta[2] + delta[3]
        /\ (AllPositive(delta) /\ delta' = delta) \/ Lack(delta') < Lack(delta)
    BY <1>0, <2>1, <2>2, <2>3, PassSettles
  <2>5. delta' \in [Tags -> Int]
    BY <1>0, <2>1, PassInt
  <2>6. delta'[1] + delta'[2] + delta'[3] <= Ceiling(max_size, adjusted)
    <3>1. Ceiling(max_size, adjusted) \in Int
      BY <1>0, CeilingStep
    <3>2. delta[1] + delta[2] + delta[3] <= Ceiling(max_size, adjusted)
      BY <2>1 DEF Ceiled
    <3>3. /\ delta[1] \in Int /\ delta[2] \in Int /\ delta[3] \in Int
          /\ delta'[1] \in Int /\ delta'[2] \in Int /\ delta'[3] \in Int
      BY <1>0, <2>5 DEF Tags
    <3> QED
      BY <2>4, <3>1, <3>2, <3>3
  <2>7. CASE AllPositive(delta')
    <3>1. PICK loss \in [Tags -> {0, 1}] : share' = [t \in Tags |-> delta'[t] - loss[t]]
      BY <1>1, <2>7 DEF AdjustPass
    <3>2. pc' = "idle"
      BY <1>1, <2>7 DEF AdjustPass
    <3>3. share'[1] + share'[2] + share'[3] <= delta'[1] + delta'[2] + delta'[3]
      BY <2>5, <3>1 DEF Tags
    <3>4. \A t \in Tags : share'[t] \in Int /\ delta'[t] \in Int
      BY <2>5, <3>1
    <3>5. Ceiling(max_size, adjusted) \in Int
      BY <1>0, CeilingStep
    <3>6. share'[1] + share'[2] + share'[3] <= Ceiling(max_size, adjusted)
      BY <2>6, <3>3, <3>4, <3>5 DEF Tags
    <3> QED
      BY <2>1, <3>2, <3>6 DEF Ceiled
  <2>8. CASE ~ AllPositive(delta')
    <3>1. pc' = "adjust" /\ Lack(delta') < Lack(delta)
      BY <1>1, <2>1, <2>4, <2>8 DEF AdjustPass
    <3> QED
      BY <2>1, <2>6, <3>1 DEF Ceiled
  <2> QED
    BY <2>7, <2>8
<1>2. ASSUME StartAdjust PROVE Ceiled'
  <2> DEFINE m == MaxDelta[max_size]
  <2>0. m \in Nat /\ adjusted' = adjusted + 1 /\ pc = "idle" /\ pc' = "adjust"
        /\ max_size' = max_size
    BY <1>0, <1>2, BoundAssumption DEF StartAdjust
  <2>1. PICK md \in [1 .. 4 -> -m .. m] :
          LET first == [t \in 1 .. 4 |-> share[t] + md[t]]
          IN  delta' = [t \in Tags |-> IF t = 5 THEN max_size - TotalOfFirstFour(first)
                                                ELSE first[t]]
    BY <1>2 DEF StartAdjust
  <2>2. /\ delta'[1] = share[1] + md[1] /\ delta'[2] = share[2] + md[2]
        /\ delta'[3] = share[3] + md[3]
    BY <2>1 DEF Tags
  <2>3. /\ Ceiling(max_size, adjusted') = Ceiling(max_size, adjusted) + 3 * m
        /\ Ceiling(max_size, adjusted) \in Int
    BY <1>0, <2>0, CeilingStep
  <2>4. share[1] + share[2] + share[3] <= Ceiling(max_size, adjusted)
    BY <2>0 DEF Ceiled
  <2> HIDE DEF m
  <2>5. \A t \in 1 .. 3 : md[t] \in Int /\ md[t] <= m
    BY <2>0
  <2>6. delta'[1] + delta'[2] + delta'[3] <= Ceiling(max_size, adjusted')
    BY <1>0, <2>0, <2>2, <2>3, <2>4, <2>5 DEF Tags
  <2> QED
    BY <2>0, <2>6 DEF Ceiled
<1>3. ASSUME pc # "adjust", pc' # "adjust", UNCHANGED <<share, max_size, adjusted>>
      PROVE  Ceiled'
  BY <1>3 DEF Ceiled
<1>4. ASSUME \/ \E n \in Names : StartInsert(n)
             \/ InsertPass
             \/ FinishInsert
             \/ \E k \in DOMAIN order : Hit(k)
      PROVE  pc # "adjust" /\ Ceiled'
  BY <1>3, <1>4 DEF StartInsert, InsertPass, FinishInsert, Hit
<1>5. CASE UNCHANGED vars
  <2>1. Ceiled'
    BY <1>5 DEF vars, Ceiled
  <2>2. pc = "adjust" /\ Next => AdjustPass
    BY <1>4 DEF Next, StartAdjust
  <2> QED
    BY <1>1, <2>1, <2>2
<1>6. CASE Next
  <2>1. StartAdjust => pc # "adjust"
    BY DEF StartAdjust
  <2> QED
    BY <1>1, <1>2, <1>4, <1>6, <2>1 DEF Next
<1> QED
  BY <1>5, <1>6

\* Nor does the loop of an adjustment run for ever: each turn that does not end it
\* lowers what the small classes lack, a natural number.
THEOREM AdjustmentsSettle ==
  ASSUME \A size \in Sizes : Roomy(size) /\ Spare(size) /\ size > 4 * Limits
  PROVE  Spec => [][pc = "adjust" => pc' = "idle" \/ Lack(delta') < Lack(delta)]_vars
<1> DEFINE Settles == pc = "adjust" => pc' = "idle" \/ Lack(delta') < Lack(delta)
<1>1. ASSUME Inductive, Divided, Ceiled, [Next]_vars PROVE Ceiled' /\ [Settles]_vars
  BY <1>1, CeiledStep
<1>2. Spec => []Divided
  BY DividedInvariant
<1> QED
  BY <1>1, <1>2, CeiledInit, InductiveInvariant, PTL DEF Spec

(***************************************************************************)
(* Ordered sequences of names.                                             *)
(***************************************************************************)

\* The names of a sequence by growing number of uses g, each once.
Ordered(s, g) == IsInjective(s) /\ \A n, m : Ahead(s, n, m) => g[n] <= g[m]

LEMMA OrderedByPosition ==
  ASSUME NEW s \in Seq(Names), NEW g
  PROVE  Ordered(s, g) <=>
           \A i, j \in DOMAIN s : i < j => s[i] # s[j] /\ g[s[i]] <= g[s[j]]
<1>0. DOMAIN s = 1 .. Len(s) /\ Len(s) \in Nat
  BY LenProperties
<1>1. \A i, j \in DOMAIN s : i < j \/ j < i \/ i = j
  BY <1>0
<1>2. \A i, j \in DOMAIN s : i < j => i # j
  BY <1>0
<1>3. \A i, j \in DOMAIN s : i < j => Ahead(s, s[i], s[j])
  BY DEF Ahead
<1> QED
  BY <1>1, <1>2, <1>3 DEF Ordered, IsInjective, Ahead

\* Without a position, order is kept and that name is gone.
LEMMA RemoveOrdered ==
  ASSUME NEW s \in Seq(Names), NEW g, NEW k \in 1 .. Len(s), Ordered(s, g)
  PROVE  /\ Ordered(RemoveAt(s, k), g)
         /\ ToSet(RemoveAt(s, k)) = ToSet(s) \ {s[k]}
BY RemoveAtKeeps DEF Ordered

\* In an ordered index the entries used no more than f come before the position.
LEMMA PositionSplits ==
  ASSUME frequency \in [Names -> Nat], NEW s \in Seq(Names), Ordered(s, frequency),
         NEW f \in Nat
  PROVE  \A i \in DOMAIN s : i < InsertPosition(s, f) <=> frequency[s[i]] <= f
<1> DEFINE B == {k \in DOMAIN s : frequency[s[k]] <= f}
<1>1. \A i \in DOMAIN s : frequency[s[i]] \in Nat
  BY LenProperties, ElementOfSeq
<1>2. \A i \in DOMAIN s, j \in B : i < j => i \in B
  BY <1>1 DEF Ordered, Ahead
<1>3. \A i \in DOMAIN s : i < 1 + Cardinality(B) <=> i \in B
  <2> HIDE DEF B
  <2>1. B \in SUBSET DOMAIN s
    BY DEF B
  <2> QED
    BY <1>2, <2>1, SplitAt
<1> QED
  BY <1>3 DEF InsertPosition

\* A new name put after those used no more than it keeps the order, of numbers
\* of uses g that differ from frequency for that name only.
LEMMA InsertOrdered ==
  ASSUME frequency \in [Names -> Nat], NEW s \in Seq(Names), Ordered(s, frequency),
         NEW n \in Names, n \notin ToSet(s), NEW f \in Nat,
         NEW g, g[n] = f, \A m \in ToSet(s) : g[m] = frequency[m]
  PROVE  LET r == InsertAt(s, InsertPosition(s, f), n)
         IN  Ordered(r, g) /\ ToSet(r) = ToSet(s) \cup {n}
<1> DEFINE k == InsertPosition(s, f)
           r == InsertAt(s, k, n)
<1>1. k \in 1 .. Len(s) + 1
  BY InsertPositionType
<1>2. \A i \in DOMAIN s : /\ i < k => g[s[i]] <= f
                          /\ ~ (i < k) => f <= g[s[i]]
  <2>1. \A i \in DOMAIN s : s[i] \in ToSet(s) /\ frequency[s[i]] \in Nat
    BY LenProperties, ElementOfSeq DEF ToSet
  <2>2. \A i \in DOMAIN s : i < k <=> frequency[s[i]] <= f
    BY PositionSplits
  <2> HIDE DEF k
  <2> QED
    BY <2>1, <2>2
<1>3. \A x, y : Ahead(s, x, y) => g[x] <= g[y]
  <2>1. \A x, y : Ahead(s, x, y) => x \in ToSet(s) /\ y \in ToSet(s)
    BY DEF Ahead, ToSet
  <2> QED
    BY <2>1 DEF Ordered
<1> HIDE DEF k
<1>4. /\ IsInjective(r) /\ ToSet(r) = ToSet(s) \cup {n}
      /\ \A x, y : Ahead(r, x, y) <=>
           \/ Ahead(s, x, y)
           \/ y = n /\ \E i \in DOMAIN s : i < k /\ s[i] = x
           \/ x = n /\ \E i \in DOMAIN s : ~ (i < k) /\ s[i] = y
  BY <1>1, InsertAtKeeps DEF Ordered
<1> HIDE DEF r
<1>5. Ordered(r, g) /\ ToSet(r) = ToSet(s) \cup {n}
  BY <1>2, <1>3, <1>4 DEF Ordered
<1> QED
  BY <1>5 DEF r, k

(***************************************************************************)
(* The order of the policy.                                                *)
(***************************************************************************)

\* The inductive invariant: while an insertion runs its name is not in the index
\* and has not been used.
OrderKept ==
    /\ PolicyOrder
    /\ pc \in {"insert", "evict"} => \A n \in pending : n \notin Cached /\ frequency[n] = 0

\* FinishInsert adds the new name to the index without one entry, that of the
\* evicted position, or without none.
LEMMA FinishOrdered ==
  ASSUME Inductive, OrderKept, FinishInsert
  PROVE  /\ PolicyOrder'
         /\ \E n \in pending \ Cached : \E tag \in TagValue(n) :
              \/ \E k \in EvictedPosition(tag) : Cached' = (Cached \ {order[k]}) \cup {n}
              \/ EvictedPosition(tag) = {} /\ Cached' = Cached \cup {n}
<1>0. /\ order \in Seq(Names) /\ DOMAIN order = 1 .. Len(order)
      /\ frequency \in [Names -> Nat] /\ pending \subseteq Names
  BY BoundAssumption, LenProperties DEF Inductive, TypeOK
<1>1. PICK n \in pending : \E tag \in TagValue(n) :
        \/ \E k \in EvictedPosition(tag) : StoreIn(RemoveAt(order, k), n)
        \/ EvictedPosition(tag) = {} /\ StoreIn(order, n)
  BY DEF FinishInsert
<1>2. PICK tag \in TagValue(n) :
        \/ \E k \in EvictedPosition(tag) : StoreIn(RemoveAt(order, k), n)
        \/ EvictedPosition(tag) = {} /\ StoreIn(order, n)
  BY <1>1
<1>3. n \in Names /\ n \notin Cached /\ frequency[n] = 0
  BY <1>0 DEF OrderKept, FinishInsert
<1>4. Ordered(order, frequency)
  BY <1>0, OrderedByPosition DEF OrderKept, PolicyOrder
<1>5. UNCHANGED frequency
  BY DEF FinishInsert
<1>6. ASSUME NEW s \in Seq(Names), Ordered(s, frequency), n \notin ToSet(s), StoreIn(s, n)
      PROVE  PolicyOrder' /\ Cached' = ToSet(s) \cup {n}
  <2>1. order' = InsertAt(s, InsertPosition(s, 0), n)
    BY <1>6 DEF StoreIn
  <2>2. Ordered(order', frequency) /\ ToSet(order') = ToSet(s) \cup {n}
    BY <1>0, <1>3, <1>6, <2>1, InsertOrdered
  <2>3. order' \in Seq(Names)
    BY <1>3, <1>6, <2>1, InsertAtType, InsertPositionType
  <2> QED
    BY <1>5, <2>1, <2>2, <2>3, OrderedByPosition DEF PolicyOrder, Cached
<1>7. ASSUME NEW k \in EvictedPosition(tag), StoreIn(RemoveAt(order, k), n)
      PROVE  PolicyOrder' /\ Cached' = (Cached \ {order[k]}) \cup {n}
  <2>1. k \in 1 .. Len(order)
    BY <1>0 DEF EvictedPosition, VictimPosition, Positions
  <2>2. RemoveAt(order, k) \in Seq(Names)
    BY <1>0, <2>1, RemoveAtType
  <2>3. /\ Ordered(RemoveAt(order, k), frequency)
        /\ ToSet(RemoveAt(order, k)) = Cached \ {order[k]}
    BY <1>0, <1>4, <2>1, RemoveOrdered DEF Cached
  <2> QED
    BY <1>3, <1>6, <1>7, <2>2, <2>3
<1>8. ASSUME StoreIn(order, n)
      PROVE  PolicyOrder' /\ Cached' = Cached \cup {n}
  BY <1>0, <1>3, <1>4, <1>6, <1>8 DEF Cached
<1>9. n \in pending \ Cached
  BY <1>3
<1> QED
  BY <1>2, <1>7, <1>8, <1>9

\* A hit moves an entry within the index.
LEMMA HitOrdered ==
  ASSUME Inductive, OrderKept, NEW k \in DOMAIN order, Hit(k)
  PROVE  PolicyOrder' /\ Cached' = Cached
<1> DEFINE n == order[k]
           others == RemoveAt(order, k)
<1>0. /\ order \in Seq(Names) /\ DOMAIN order = 1 .. Len(order)
      /\ frequency \in [Names -> Nat]
  BY BoundAssumption, LenProperties DEF Inductive, TypeOK
<1>1. k \in 1 .. Len(order) /\ n \in Names
  BY <1>0, ElementOfSeq
<1>2. Ordered(order, frequency)
  BY <1>0, OrderedByPosition DEF OrderKept, PolicyOrder
<1>3. /\ others \in Seq(Names) /\ Ordered(others, frequency)
      /\ ToSet(others) = Cached \ {n}
  BY <1>0, <1>1, <1>2, RemoveAtType, RemoveOrdered DEF Cached
<1>4. /\ order' = InsertAt(others, InsertPosition(others, frequency[n] + 1), n)
      /\ frequency' = [frequency EXCEPT ![n] = @ + 1]
  BY DEF Hit
<1>5. n \in Cached
  BY <1>1 DEF Cached, ToSet
<1>6. ToSet(others) \subseteq Names
  BY <1>3, ElementOfSeq, LenProperties DEF ToSet
<1> HIDE DEF n, others
<1>7. /\ frequency[n] + 1 \in Nat /\ frequency'[n] = frequency[n] + 1
      /\ \A m \in ToSet(others) : frequency'[m] = frequency[m]
  BY <1>0, <1>1, <1>3, <1>4, <1>6
<1>8. Ordered(order', frequency') /\ ToSet(order') = ToSet(others) \cup {n}
  <2>1. /\ others \in Seq(Names) /\ Ordered(others, frequency)
        /\ n \in Names /\ n \notin ToSet(others) /\ frequency \in [Names -> Nat]
    BY <1>0, <1>1, <1>3
  <2>2. LET r == InsertAt(others, InsertPosition(others, frequency[n] + 1), n)
        IN  Ordered(r, frequency') /\ ToSet(r) = ToSet(others) \cup {n}
    BY <1>7, <2>1, InsertOrdered
  <2> QED
    BY <1>4, <2>2
<1>9. order' \in Seq(Names)
  BY <1>1, <1>3, <1>4, InsertAtType, InsertPositionType
<1> QED
  BY <1>3, <1>5, <1>8, <1>9, OrderedByPosition DEF PolicyOrder, Cached

LEMMA OrderInit == Init => OrderKept
<1> SUFFICES ASSUME Init PROVE OrderKept
  OBVIOUS
<1>1. order = <<>> /\ pending = {}
  BY DEF Init
<1>2. DOMAIN order = {}
  BY <1>1
<1> QED
  BY <1>1, <1>2 DEF OrderKept, PolicyOrder

LEMMA OrderStep ==
  ASSUME Inductive, OrderKept, [Next]_vars
  PROVE  OrderKept'
<1>0. frequency \in [Names -> Nat] /\ order \in Seq(Names)
  BY BoundAssumption DEF Inductive, TypeOK
<1>1. ASSUME NEW n \in Names, StartInsert(n) PROVE OrderKept'
  <2>1. \A k \in DOMAIN order : order[k] # n
    BY <1>1 DEF StartInsert, Cached, ToSet
  <2>2. \A k \in DOMAIN order : order[k] \in Names
    BY <1>0, ElementOfSeq, LenProperties
  <2>3. /\ UNCHANGED order /\ pending' = {n}
        /\ frequency' = [frequency EXCEPT ![n] = 0]
    BY <1>1 DEF StartInsert
  <2>4. frequency'[n] = 0 /\ \A k \in DOMAIN order : frequency'[order[k]] = frequency[order[k]]
    BY <1>0, <2>1, <2>2, <2>3
  <2>5. PolicyOrder'
    BY <2>3, <2>4 DEF OrderKept, PolicyOrder
  <2>6. Cached' = Cached /\ n \notin Cached
    BY <1>1, <2>3 DEF StartInsert, Cached
  <2> QED
    BY <2>3, <2>4, <2>5, <2>6 DEF OrderKept
<1>2. CASE InsertPass
  BY <1>2 DEF InsertPass, OrderKept, PolicyOrder, Cached
<1>3. CASE FinishInsert
  <2>1. pc' = "idle"
    BY <1>3 DEF FinishInsert
  <2> QED
    BY <1>3, <2>1, FinishOrdered DEF OrderKept
<1>4. ASSUME NEW k \in DOMAIN order, Hit(k) PROVE OrderKept'
  <2>1. pc' = "idle"
    BY <1>4 DEF Hit
  <2> QED
    BY <1>4, <2>1, HitOrdered DEF OrderKept
<1>5. CASE StartAdjust
  BY <1>5 DEF StartAdjust, OrderKept, PolicyOrder, Cached
<1>6. CASE AdjustPass
  BY <1>6 DEF AdjustPass, OrderKept, PolicyOrder, Cached
<1>7. CASE UNCHANGED vars
  BY <1>7 DEF vars, OrderKept, PolicyOrder, Cached
<1> QED
  BY <1>1, <1>2, <1>3, <1>4, <1>5, <1>6, <1>7 DEF Next

LEMMA OrderInvariant == Spec => []OrderKept
BY OrderInit, OrderStep, InductiveInvariant, PTL DEF Spec

\* The index of the policy is ordered by the number of uses, each name once,
\* after any mix of insertions, evictions and hits.
THEOREM IndexOrdered == Spec => []PolicyOrder
<1>1. OrderKept => PolicyOrder
  BY DEF OrderKept
<1> QED
  BY <1>1, OrderInvariant, PTL

(***************************************************************************)
(* The victim.                                                             *)
(***************************************************************************)

\* What is evicted is the first entry of a class that fills its quota, and only
\* a full store evicts.
LEMMA EvictedFromFull ==
  ASSUME NEW tag \in Tags, NEW k \in EvictedPosition(tag)
  PROVE  /\ Len(order) = max_size
         /\ \E t \in Tags : Count(t) >= quota[t] /\ k \in VictimPosition(t)
<1>1. Len(order) = max_size
  BY DEF EvictedPosition
<1>2. CASE Count(tag) >= quota[tag]
  BY <1>1, <1>2 DEF EvictedPosition
<1>3. CASE ~(Count(tag) >= quota[tag])
  <2> DEFINE full == {t \in Tags \ {tag} : Count(t) >= quota[t]}
  <2>1. EvictedPosition(tag) = UNION {VictimPosition(t) : t \in {u \in full : \A v \in full : v <= u}}
    BY <1>1, <1>3 DEF EvictedPosition
  <2> QED
    BY <1>1, <2>1
<1> QED
  BY <1>2, <1>3

\* The first entry of a class is one of its least used.
LEMMA FirstIsLeastUsed ==
  ASSUME order \in Seq(Names), frequency \in [Names -> Nat], PolicyOrder,
         NEW t \in Tags, NEW k \in VictimPosition(t),
         NEW m \in Cached, TagOf[m] = t
  PROVE  frequency[order[k]] <= frequency[m]
<1>0. DOMAIN order = 1 .. Len(order) /\ Len(order) \in Nat
  BY LenProperties
<1>1. PICK j \in DOMAIN order : m = order[j]
  BY DEF Cached, ToSet
<1>2. j \in Positions(t) /\ k \in Positions(t) /\ k <= j
  BY <1>1 DEF Positions, VictimPosition
<1>3. j \in 1 .. Len(order) /\ k \in 1 .. Len(order)
  BY <1>0, <1>2 DEF Positions
<1>4. CASE k = j
  <2>1. frequency[m] \in Nat
    BY <1>1, <1>3, ElementOfSeq
  <2> QED
    BY <1>1, <1>4, <2>1
<1>5. CASE k # j
  <2>1. k < j
    BY <1>2, <1>3, <1>5
  <2> QED
    BY <1>0, <1>1, <1>3, <2>1 DEF PolicyOrder
<1> QED
  BY <1>4, <1>5

\* No step but the end of an insertion changes what is stored.
LEMMA OnlyInsertStores ==
  ASSUME Inductive, OrderKept, [Next]_vars
  PROVE  FinishInsert \/ UNCHANGED <<Cached, max_size>>
<1>1. ASSUME NEW k \in DOMAIN order, Hit(k) PROVE UNCHANGED <<Cached, max_size>>
  <2>1. UNCHANGED max_size
    BY <1>1 DEF Hit
  <2> QED
    BY <1>1, <2>1, HitOrdered
<1>2. CASE UNCHANGED <<order, max_size>>
  BY <1>2 DEF Cached
<1> QED
  BY <1>1, <1>2 DEF Next, vars, StartInsert, InsertPass, StartAdjust, AdjustPass

\* An entry is displaced only from a class that fills its quota, and is one of
\* the least used of its class, however insertions, hits and adjustments mix.
THEOREM VictimsJustified == Spec => VictimIsLeastUsed
<1> DEFINE Justified ==
             \A n \in Cached \ Cached' :
               /\ Count(TagOf[n]) >= quota[TagOf[n]]
               /\ \A m \in Cached : TagOf[m] = TagOf[n] => frequency[n] <= frequency[m]
<1>1. ASSUME Inductive, OrderKept, FinishInsert PROVE Justified
  <2>0. order \in Seq(Names) /\ frequency \in [Names -> Nat] /\ pending \subseteq Names
    BY <1>1, BoundAssumption DEF Inductive, TypeOK
  <2>1. PICK n \in pending \ Cached : \E tag \in TagValue(n) :
          \/ \E k \in EvictedPosition(tag) : Cached' = (Cached \ {order[k]}) \cup {n}
          \/ EvictedPosition(tag) = {} /\ Cached' = Cached \cup {n}
    BY <1>1, FinishOrdered
  <2>2. PICK tag \in TagValue(n) :
          \/ \E k \in EvictedPosition(tag) : Cached' = (Cached \ {order[k]}) \cup {n}
          \/ EvictedPosition(tag) = {} /\ Cached' = Cached \cup {n}
    BY <2>1
  <2>3. tag \in Tags
    BY <2>0, TagAssumption DEF TagValue
  <2>4. CASE Cached \subseteq Cached'
    BY <2>4
  <2>5. ASSUME NEW k \in EvictedPosition(tag), Cached' = (Cached \ {order[k]}) \cup {n}
        PROVE  Justified
    <3>1. PICK t \in Tags : Count(t) >= quota[t] /\ k \in VictimPosition(t)
      BY <2>3, <2>5, EvictedFromFull
    <3>2. TagOf[order[k]] = t
      BY <3>1 DEF VictimPosition, Positions
    <3>3. \A m \in Cached : TagOf[m] = t => frequency[order[k]] <= frequency[m]
      BY <1>1, <2>0, <3>1, FirstIsLeastUsed DEF OrderKept
    <3>4. \A v \in Cached \ Cached' : v = order[k]
      BY <2>5
    <3> QED
      BY <3>1, <3>2, <3>3, <3>4
  <2> QED
    BY <2>2, <2>4, <2>5
<1>2. ASSUME Inductive, OrderKept, [Next]_vars PROVE [Justified]_vars
  <2>1. CASE UNCHANGED Cached
    BY <2>1
  <2> QED
    BY <1>1, <1>2, <2>1, OnlyInsertStores
<1> QED
  BY <1>2, InductiveInvariant, OrderInvariant, PTL DEF Spec, VictimIsLeastUsed

(***************************************************************************)
(* The quotas.                                                             *)
(***************************************************************************)

\* A class has as many entries as it has positions.
LEMMA ClassCounted ==
  ASSUME NEW s \in Seq(Names), NEW g, Ordered(s, g), NEW t
  PROVE  LET V == {n \in ToSet(s) : TagOf[n] = t}
             P == {k \in DOMAIN s : TagOf[s[k]] = t}
         IN  IsFiniteSet(V) /\ Cardinality(P) \in Nat /\ Cardinality(P) = Cardinality(V)
<1> DEFINE V == {n \in ToSet(s) : TagOf[n] = t}
           P == {k \in DOMAIN s : TagOf[s[k]] = t}
<1>1. V = {s[i] : i \in P}
  BY DEF ToSet
<1>2. IsInjective(s)
  BY DEF Ordered
<1>3. IsFiniteSet(P) /\ IsFiniteSet(V) /\ Cardinality(V) = Cardinality(P)
  <2>1. P \in SUBSET DOMAIN s
    OBVIOUS
  <2> HIDE DEF P
  <2>2. /\ IsFiniteSet(P) /\ IsFiniteSet({s[i] : i \in P})
        /\ Cardinality({s[i] : i \in P}) = Cardinality(P)
    BY ZenonT(60), <1>2, <2>1, SelectedCounted
  <2> QED
    BY <1>1, <2>2
<1> QED
  BY <1>3, FS_CardinalityType

Members(t) == {n \in Cached : TagOf[n] = t}

LEMMA CountOfMembers ==
  ASSUME Inductive, OrderKept, NEW t
  PROVE  IsFiniteSet(Members(t)) /\ Count(t) \in Nat /\ Count(t) = Cardinality(Members(t))
<1>1. order \in Seq(Names) /\ Ordered(order, frequency)
  BY OrderedByPosition DEF Inductive, TypeOK, OrderKept, PolicyOrder
<1> QED
  BY <1>1, ClassCounted DEF Members, Count, Positions, Cached

LEMMA CountOfMembersNext ==
  ASSUME Inductive', OrderKept', NEW t
  PROVE  Count(t)' \in Nat /\ Count(t)' = Cardinality(Members(t)')
<1>1. order' \in Seq(Names) /\ Ordered(order', frequency')
  BY OrderedByPosition DEF Inductive, TypeOK, OrderKept, PolicyOrder
<1> QED
  BY <1>1, ClassCounted DEF Members, Count, Positions, Cached

\* The loop ends with a slot for every class: only then is room made.
Repaired == pc = "evict" => AllPositive(quota)

LEMMA RepairedInvariant == Spec => []Repaired
<1>1. Init => Repaired
  BY DEF Init, Repaired
<1>2. Repaired /\ [Next]_vars => Repaired'
  BY DEF Repaired, Next, vars, StartInsert, InsertPass, FinishInsert, Hit, StartAdjust,
         AdjustPass, AllPositive
<1> QED
  BY <1>1, <1>2, PTL DEF Spec

\* In a full store the arrival of class u in a class that fills its quota displaces
\* an entry of that class.
LEMMA FullClassReplaces ==
  ASSUME Inductive, Repaired, FinishInsert, Len(order) = max_size,
         NEW u \in Tags, Count(u) >= quota[u], Count(u) \in Nat
  PROVE  EvictedPosition(u) # {} /\ \A k \in EvictedPosition(u) : TagOf[order[k]] = u
<1>1. quota[u] \in Nat /\ quota[u] > 0 /\ order \in Seq(Names)
  BY WordAssumption DEF Inductive, TypeOK, Repaired, FinishInsert, AllPositive
<1>2. Count(u) > 0
  BY <1>1
<1>3. EvictedPosition(u) = VictimPosition(u)
  BY DEF EvictedPosition
<1>4. VictimPosition(u) # {}
  BY <1>1, <1>2, VictimExists
<1> QED
  BY <1>3, <1>4 DEF VictimPosition, Positions

\* In a full store only a class below its quota grows, whatever the quotas and
\* however they were adjusted: the others replace entries of their own.
THEOREM QuotasCap == Spec => QuotaCaps
<1> DEFINE Capped ==
      Len(order) = max_size =>
         \A t \in Tags : Count(t)' > Count(t) => Count(t) < quota[t]
<1>1. ASSUME Inductive, OrderKept, Repaired, [Next]_vars, Len(order) = max_size,
             NEW t \in Tags, Count(t)' > Count(t)
      PROVE  Count(t) < quota[t]
  <2>0. /\ order \in Seq(Names) /\ pending \subseteq Names /\ quota[t] \in Nat
        /\ DOMAIN order = 1 .. Len(order)
    BY <1>1, WordAssumption, LenProperties DEF Inductive, TypeOK
  <2>1. Inductive' /\ OrderKept'
    BY <1>1, InductiveStep, OrderStep
  <2>2. /\ IsFiniteSet(Members(t)) /\ Count(t) \in Nat /\ Count(t) = Cardinality(Members(t))
        /\ Count(t)' \in Nat /\ Count(t)' = Cardinality(Members(t)')
    BY <1>1, <2>1, CountOfMembers, CountOfMembersNext
  <2>3. ASSUME Members(t)' \subseteq Members(t) PROVE FALSE
    <3>1. Cardinality(Members(t)') <= Cardinality(Members(t))
      BY <2>2, <2>3, FS_Subset
    <3> QED
      BY <1>1, <2>2, <3>1
  <2>4. CASE UNCHANGED Cached
    BY <2>3, <2>4 DEF Members
  <2>5. CASE FinishInsert
    <3>1. PICK n \in pending \ Cached : \E tag \in TagValue(n) :
            \/ \E k \in EvictedPosition(tag) : Cached' = (Cached \ {order[k]}) \cup {n}
            \/ EvictedPosition(tag) = {} /\ Cached' = Cached \cup {n}
      BY <1>1, <2>5, FinishOrdered
    <3>2. CASE TagOf[n] # t
      BY <2>3, <3>1, <3>2 DEF Members
    <3>3. CASE TagOf[n] = t /\ Count(t) >= quota[t]
      <4>1. TagValue(n) = {t}
        BY <3>3, TagAssumption DEF TagValue
      <4>2. EvictedPosition(t) # {} /\ \A k \in EvictedPosition(t) : TagOf[order[k]] = t
        BY <1>1, <2>2, <2>5, <3>3, FullClassReplaces
      <4>3. PICK k \in EvictedPosition(t) : Cached' = (Cached \ {order[k]}) \cup {n}
        BY <3>1, <4>1, <4>2
      <4>4. k \in DOMAIN order
        BY <3>3, <4>3, <1>1 DEF EvictedPosition, VictimPosition, Positions
      <4>5. order[k] \in Members(t) /\ n \notin Members(t)
        BY <3>1, <4>2, <4>4 DEF Members, Cached, ToSet
      <4>6. Members(t)' = (Members(t) \ {order[k]}) \cup {n}
        BY <3>3, <4>2, <4>3 DEF Members
      <4>7. /\ IsFiniteSet(Members(t) \ {order[k]})
            /\ Cardinality(Members(t) \ {order[k]}) = Cardinality(Members(t)) - 1
        BY <2>2, <4>5, FS_RemoveElement
      <4>8. n \notin Members(t) \ {order[k]}
        BY <4>5
      <4>9. Cardinality(Members(t)') = Cardinality(Members(t) \ {order[k]}) + 1
        BY <4>6, <4>7, <4>8, FS_AddElement
      <4> QED
        BY <1>1, <2>2, <4>7, <4>9
    <3> QED
      BY <2>0, <2>2, <3>2, <3>3
  <2> QED
    BY <1>1, <2>4, <2>5, OnlyInsertStores
<1>2. Inductive /\ OrderKept /\ Repaired /\ [Next]_vars => [Capped]_vars
  BY <1>1
<1> QED
  BY <1>2, InductiveInvariant, OrderInvariant, RepairedInvariant, PTL DEF Spec, QuotaCaps

(***************************************************************************)
(* The refinement of BoundedCache.                                         *)
(***************************************************************************)

\* As no name is there twice, the length of the index is the number of entries.
LEMMA CachedSize ==
  ASSUME order \in Seq(Names), PolicyOrder
  PROVE  Cardinality(Cached) = Len(order)
<1>1. IsInjective(order)
  BY OrderedByPosition DEF PolicyOrder, Ordered
<1> QED
  BY <1>1, ElementsCounted DEF Cached

\* The abstract module counts as this one does.
LEMMA SameCardinality == \A S : Cache!Cardinality(S) = Cardinality(S)
BY Zenon DEF Cache!Cardinality, Cardinality

LEMMA CacheInit == Init => Cache!Init
<1> SUFFICES ASSUME Init PROVE Cache!Init
  OBVIOUS
<1>1. order = <<>> /\ max_size \in Nat
  BY SizeAssumption, WordAssumption DEF Init
<1>2. DOMAIN order = {}
  BY <1>1
<1> QED
  BY <1>1, <1>2 DEF Cache!Init, Cached, ToSet

LEMMA CacheStep ==
  ASSUME TagOf \in [Names -> Tags], Inductive, OrderKept, QuotaExact, Capacity, [Next]_vars
  PROVE  [Cache!Next]_(Cache!vars)
<1>0. /\ order \in Seq(Names) /\ DOMAIN order = 1 .. Len(order) /\ Len(order) \in Nat
      /\ max_size \in Nat /\ quota \in [Tags -> Nat] /\ pending \subseteq Names
  BY SizeAssumption, WordAssumption, LenProperties DEF Inductive, TypeOK
<1>1. CASE UNCHANGED <<Cached, max_size>>
  BY <1>1 DEF Cache!vars
<1>2. CASE FinishInsert
  <2>1. PICK n \in pending \ Cached : \E tag \in TagValue(n) :
          \/ \E k \in EvictedPosition(tag) : Cached' = (Cached \ {order[k]}) \cup {n}
          \/ EvictedPosition(tag) = {} /\ Cached' = Cached \cup {n}
    BY <1>2, FinishOrdered
  <2>2. PICK tag \in TagValue(n) :
          \/ \E k \in EvictedPosition(tag) : Cached' = (Cached \ {order[k]}) \cup {n}
          \/ EvictedPosition(tag) = {} /\ Cached' = Cached \cup {n}
    BY <2>1
  <2>3. tag \in Tags /\ n \in Names /\ n \notin Cached /\ max_size' = max_size
    BY <1>0, <1>2, TagAssumption DEF TagValue, FinishInsert
  <2>4. Cache!Cardinality(Cached) = Len(order)
    BY <1>0, CachedSize, SameCardinality DEF OrderKept
  <2>5. ASSUME NEW k \in EvictedPosition(tag), Cached' = (Cached \ {order[k]}) \cup {n}
        PROVE  Cache!Store(n)
    <3>1. Len(order) = max_size
      BY <2>3, EvictedFromFull
    <3>2. k \in 1 .. Len(order)
      BY <1>0 DEF EvictedPosition, VictimPosition, Positions
    <3>3. order[k] \in Cached /\ max_size # 0
      BY <1>0, <3>1, <3>2 DEF Cached, ToSet
    <3>4. {order[k]} \in Cache!Victims
      <4>1. Cache!Cardinality(Cached) >= max_size
        BY <1>0, <2>4, <3>1
      <4>2. Cache!Victims = {{v} : v \in Cached}
        BY <3>3, <4>1, Zenon DEF Cache!Victims
      <4> QED
        BY <3>3, <4>2, Zenon
    <3> QED
      BY <2>3, <2>5, <3>4 DEF Cache!Store
  <2>6. ASSUME EvictedPosition(tag) = {}, Cached' = Cached \cup {n}
        PROVE  Cache!Store(n)
    <3>1. AllPositive(quota) /\ Total(quota) = max_size
      BY <1>2 DEF FinishInsert, QuotaExact
    <3>2. Len(order) # max_size
      BY <1>0, <2>3, <2>6, <3>1, RoomCanBeMade
    <3>3. Len(order) <= max_size
      BY DEF Capacity
    <3>4. {} \in Cache!Victims
      <4>1. \A a, b \in Nat : a <= b /\ a # b => ~ (a >= b)
        OBVIOUS
      <4>2. ~ (Cache!Cardinality(Cached) >= max_size)
        BY <1>0, <2>4, <3>2, <3>3, <4>1, Zenon
      <4> QED
        BY <4>2 DEF Cache!Victims
    <3>5. Cached' = (Cached \ {}) \cup {n}
      BY <2>6
    <3> QED
      BY <2>3, <3>4, <3>5 DEF Cache!Store
  <2> QED
    BY <2>2, <2>3, <2>5, <2>6 DEF Cache!Next
<1> QED
  BY <1>1, <1>2, OnlyInsertStores

\* While its quotas divide MaxSize and all Data carries a tag, the store does what
\* any bounded cache promises: an arrival displaces exactly one entry of a full
\* store, none otherwise, and hits, loops and adjustments displace nothing.
THEOREM CacheFromQuotas ==
  ASSUME TagOf \in [Names -> Tags]
  PROVE  Spec /\ []QuotaExact => ImplementsBoundedCache
<1>1. Inductive /\ OrderKept /\ QuotaExact /\ Capacity /\ [Next]_vars => [Cache!Next]_(Cache!vars)
  BY CacheStep
<1> QED
  BY <1>1, CacheInit, CapacityFromQuotas, InductiveInvariant, OrderInvariant, PTL
  DEF Spec, ImplementsBoundedCache, Cache!Spec

\* A store that is large enough for its adjustments, all of its Data tagged, is a
\* bounded cache.
THEOREM CacheImplemented ==
  ASSUME TagOf \in [Names -> Tags], \A size \in Sizes : Roomy(size)
  PROVE  Spec => ImplementsBoundedCache
BY CacheFromQuotas, QuotasExact, PTL
=============================================================================
