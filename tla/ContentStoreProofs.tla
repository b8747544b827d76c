------------------------- MODULE ContentStoreProofs -------------------------
(***************************************************************************)
(* Theorems about ContentStore, for every set of names, kinds, policies,   *)
(* sizes and bounds: the order of each policy, its victims, the traces,    *)
(* and the refinement of BoundedCache.                                     *)
(***************************************************************************)
EXTENDS ContentStore, CollectionLemmas

(***************************************************************************)
(* The inductive invariant.  The history is what ages are read from, so    *)
(* every entry must be in it, once; the lists keep no rank, so that age    *)
(* alone orders them.                                                      *)
(***************************************************************************)
Shape ==
    /\ kind \in AllKinds /\ policy \in AllPolicies
    /\ max_size \in Nat
    /\ order \in Seq(Names)
    /\ recent \in Seq(Names)
    /\ rank \in [Names -> Nat]

History == IsInjective(recent) /\ Cached \subseteq ToSet(recent)

RanksOfLists == IsMultiset \/ \A n \in Cached : rank[n] = 0

Inductive == Shape /\ History /\ RanksOfLists /\ PolicyOrder

LEMMA OlderIsAhead == \A n, m : Older(n, m) <=> Ahead(recent, n, m)
BY DEF Older, Ahead

\* The order of the policy, said of names.
LEMMA OrderOfNames ==
  PolicyOrder <=> \A n, m : Ahead(order, n, m) => Precedes(n, m)
BY DEF PolicyOrder, Ahead

\* No name is there twice: none is older than itself.
LEMMA EntriesDistinct ==
  ASSUME Inductive
  PROVE  IsInjective(order) /\ \A n, m : Ahead(order, n, m) => rank[n] <= rank[m]
<1>0. /\ DOMAIN order = 1 .. Len(order) /\ Len(order) \in Nat
      /\ DOMAIN recent = 1 .. Len(recent) /\ Len(recent) \in Nat
      /\ \A j \in DOMAIN order : order[j] \in Names /\ rank[order[j]] \in Nat
  BY LenProperties, ElementOfSeq DEF Inductive, Shape
<1>1. \A n : ~ Older(n, n)
  BY <1>0 DEF Inductive, History, IsInjective, Older
<1>2. \A n, m : Ahead(order, n, m) => Precedes(n, m)
  BY OrderOfNames DEF Inductive
<1>3. \A n \in Names : rank[n] \in Nat
  BY DEF Inductive, Shape
<1>4. \A n \in Names : ~ Precedes(n, n)
  BY <1>1, <1>3 DEF Precedes
<1>5. \A j, k \in DOMAIN order : j < k => order[j] # order[k]
  BY <1>0, <1>2, <1>4 DEF Ahead
<1>6. \A j, k \in DOMAIN order : j < k \/ k < j \/ j = k
  BY <1>0
<1>7. \A n, m : Ahead(order, n, m) => n \in Names /\ m \in Names
  BY <1>0 DEF Ahead
<1> QED
  BY <1>2, <1>3, <1>5, <1>6, <1>7 DEF IsInjective, Precedes

(***************************************************************************)
(* The helpers.                                                            *)
(***************************************************************************)
\* A full store has a first entry, which goes; the others stay as they are.
LEMMA RemainingOrder ==
  ASSUME Inductive
  PROVE  /\ Remaining \in Seq(Names) /\ IsInjective(Remaining)
         /\ ToSet(Remaining) = Cached \ Evicted
         /\ \A n, m : Ahead(Remaining, n, m) => Ahead(order, n, m)
         /\ Full => /\ Head(order) \in Cached
                    /\ \A m \in Cached \ {Head(order)} : Precedes(Head(order), m)
<1>1. order \in Seq(Names) /\ IsInjective(order) /\ Len(order) \in Nat
  BY EntriesDistinct, LenProperties DEF Inductive, Shape
<1>2. CASE Full
  <2>1. order # <<>>
    BY <1>1, <1>2 DEF Full, Inductive, Shape
  <2>2. Remaining = Tail(order) /\ Evicted = {Head(order)}
    BY <1>2 DEF Remaining, Evicted
  <2>3. /\ Tail(order) \in Seq(Names) /\ IsInjective(Tail(order))
        /\ ToSet(Tail(order)) = Cached \ {Head(order)}
        /\ \A n, m : Ahead(Tail(order), n, m) => Ahead(order, n, m)
        /\ Head(order) \in Cached
        /\ \A m \in Cached \ {Head(order)} : Ahead(order, Head(order), m)
    BY <1>1, <2>1, TailKeeps DEF Cached
  <2> QED
    BY <2>2, <2>3, OrderOfNames DEF Inductive
<1>3. CASE ~ Full
  BY <1>1, <1>3 DEF Remaining, Evicted, Cached
<1> QED
  BY <1>2, <1>3

\* A name is placed after the names of no greater rank and before the others.
LEMMA PlacedOrder ==
  ASSUME rank \in [Names -> Nat], NEW s \in Seq(Names), IsInjective(s),
         \A x, y : Ahead(s, x, y) => rank[x] <= rank[y],
         NEW n \in Names, n \notin ToSet(s), NEW r \in Nat,
         IsMultiset \/ (r = 0 /\ \A m \in ToSet(s) : rank[m] = 0)
  PROVE  /\ Placed(s, n, r) \in Seq(Names)
         /\ ToSet(Placed(s, n, r)) = ToSet(s) \cup {n}
         /\ \A x, y : Ahead(Placed(s, n, r), x, y) =>
              \/ Ahead(s, x, y)
              \/ y = n /\ x \in ToSet(s) /\ rank[x] <= r
              \/ x = n /\ y \in ToSet(s) /\ r < rank[y]
<1>0. \A i \in DOMAIN s : s[i] \in ToSet(s) /\ rank[s[i]] \in Nat
  BY LenProperties, ElementOfSeq DEF ToSet
<1>1. CASE IsMultiset
  <2> DEFINE B == {k \in DOMAIN s : rank[s[k]] <= r}
             p == 1 + Cardinality(B)
  <2>1. Placed(s, n, r) = InsertAt(s, p, n)
    BY <1>1 DEF Placed
  <2>2. B \in SUBSET DOMAIN s /\ \A i \in DOMAIN s, j \in B : i < j => i \in B
    <3>1. ASSUME NEW i \in DOMAIN s, NEW j \in B, i < j PROVE i \in B
      <4>1. Ahead(s, s[i], s[j]) /\ j \in DOMAIN s /\ rank[s[j]] <= r
        BY <3>1 DEF Ahead
      <4>2. rank[s[i]] <= rank[s[j]]
        BY <4>1
      <4> QED
        BY <1>0, <4>1, <4>2
    <3> QED
      BY <3>1
  <2>3. \A i \in DOMAIN s : i \in B <=> rank[s[i]] <= r
    OBVIOUS
  <2> HIDE DEF B
  <2>4. p \in 1 .. Len(s) + 1 /\ \A i \in DOMAIN s : i < p <=> i \in B
    BY <2>2, SplitAt
  <2> HIDE DEF p
  <2>5. /\ InsertAt(s, p, n) \in Seq(Names)
        /\ ToSet(InsertAt(s, p, n)) = ToSet(s) \cup {n}
    BY <2>4, InsertAtKeeps
  <2>6. \A x, y : Ahead(InsertAt(s, p, n), x, y) =>
          \/ Ahead(s, x, y)
          \/ y = n /\ \E i \in DOMAIN s : i < p /\ s[i] = x
          \/ x = n /\ \E i \in DOMAIN s : ~ (i < p) /\ s[i] = y
    BY <2>4, InsertAtKeeps
  <2>7. \A i \in DOMAIN s : /\ i < p => rank[s[i]] <= r
                            /\ ~ (i < p) => r < rank[s[i]]
    BY <1>0, <2>3, <2>4
  <2> QED
    BY <1>0, <2>1, <2>5, <2>6, <2>7
<1>2. CASE ~ IsMultiset
  BY <1>2, AppendKeeps DEF Placed
<1> QED
  BY <1>1, <1>2

\* A name added or used becomes the youngest; the ages of the others stay.
LEMMA Youngest ==
  ASSUME Inductive, NEW n \in Names, recent' = Append(RemoveFirst(recent, n), n)
  PROVE  /\ recent' \in Seq(Names) /\ IsInjective(recent')
         /\ ToSet(recent') = ToSet(recent) \cup {n}
         /\ \A x, y : x # n /\ y # n => (Older(x, y)' <=> Older(x, y))
         /\ \A x \in ToSet(recent) \ {n} : Older(x, n)'
<1> DEFINE s == RemoveFirst(recent, n)
<1>1. /\ s \in Seq(Names) /\ IsInjective(s) /\ ToSet(s) = ToSet(recent) \ {n}
      /\ \A x, y : Ahead(s, x, y) <=> Ahead(recent, x, y) /\ x # n /\ y # n
  BY RemoveFirstKeeps DEF Inductive, Shape, History
<1> HIDE DEF s
<1>2. n \notin ToSet(s)
  BY <1>1
<1>3. /\ Append(s, n) \in Seq(Names) /\ IsInjective(Append(s, n))
      /\ ToSet(Append(s, n)) = ToSet(s) \cup {n}
      /\ \A x, y : Ahead(Append(s, n), x, y) <=> Ahead(s, x, y) \/ (y = n /\ x \in ToSet(s))
  BY <1>1, <1>2, AppendKeeps
<1>4. recent' = Append(s, n)
  BY DEF s
<1>5. \A x, y : Older(x, y)' <=> Ahead(recent', x, y)
  BY DEF Older, Ahead
<1> QED
  BY <1>1, <1>3, <1>4, <1>5, OlderIsAhead

\* What PolicyOrder takes after a name was placed among others that stay.
LEMMA PlacedAmong ==
  ASSUME Inductive, NEW s \in Seq(Names), IsInjective(s), ToSet(s) \subseteq Cached,
         \A x, y : Ahead(s, x, y) => Ahead(order, x, y),
         NEW n \in Names, n \notin ToSet(s), NEW r \in Nat, IsMultiset \/ r = 0,
         order' = Placed(s, n, r),
         rank' \in [Names -> Nat], rank'[n] = r, \A m \in ToSet(s) : rank'[m] = rank[m],
         recent' = Append(RemoveFirst(recent, n), n),
         UNCHANGED <<kind, policy>>, max_size' \in Nat
  PROVE  Inductive' /\ Cached' = ToSet(s) \cup {n}
<1>0. /\ rank \in [Names -> Nat] /\ Cached \subseteq ToSet(recent)
      /\ IsMultiset \/ \A m \in Cached : rank[m] = 0
      /\ ToSet(s) \subseteq Names
  BY LenProperties, ElementOfSeq
  DEF Inductive, Shape, History, RanksOfLists, ToSet
<1>1. \A x, y : Ahead(s, x, y) => rank[x] <= rank[y] /\ Precedes(x, y)
  BY EntriesDistinct, OrderOfNames DEF Inductive
<1>2. /\ Placed(s, n, r) \in Seq(Names)
      /\ ToSet(Placed(s, n, r)) = ToSet(s) \cup {n}
      /\ \A x, y : Ahead(Placed(s, n, r), x, y) =>
           \/ Ahead(s, x, y)
           \/ y = n /\ x \in ToSet(s) /\ rank[x] <= r
           \/ x = n /\ y \in ToSet(s) /\ r < rank[y]
  BY ZenonT(60), <1>0, <1>1, PlacedOrder
<1>3. /\ recent' \in Seq(Names) /\ IsInjective(recent')
      /\ ToSet(recent') = ToSet(recent) \cup {n}
      /\ \A x, y : x # n /\ y # n => (Older(x, y)' <=> Older(x, y))
      /\ \A x \in ToSet(recent) \ {n} : Older(x, n)'
  BY Youngest
<1>4. Cached' = ToSet(s) \cup {n}
  BY <1>2 DEF Cached
<1>5. ASSUME NEW x, NEW y, Ahead(order', x, y) PROVE Precedes(x, y)'
  <2>1. CASE Ahead(s, x, y)
    <3>1. x \in ToSet(s) /\ y \in ToSet(s)
      BY <2>1 DEF Ahead, ToSet
    <3>2. Precedes(x, y) /\ rank'[x] = rank[x] /\ rank'[y] = rank[y] /\ x # n /\ y # n
      BY <1>1, <2>1, <3>1
    <3> QED
      BY <1>3, <3>2 DEF Precedes
  <2>2. CASE y = n /\ x \in ToSet(s) /\ rank[x] <= r
    <3>0. x \in ToSet(recent) \ {n} /\ rank'[x] = rank[x]
      BY <1>0, <2>2
    <3>1. Older(x, n)'
      BY <1>3, <3>0
    <3>2. rank'[x] \in Nat /\ rank'[n] \in Nat
      BY <1>0, <2>2
    <3>3. rank'[x] < rank'[n] \/ rank'[x] = rank'[n]
      BY <2>2, <3>0, <3>2
    <3> QED
      BY <2>2, <3>1, <3>3 DEF Precedes
  <2>3. CASE x = n /\ y \in ToSet(s) /\ r < rank[y]
    BY <2>3 DEF Precedes
  <2> QED
    BY <1>2, <1>5, <2>1, <2>2, <2>3
<1>6. PolicyOrder'
  BY <1>5 DEF PolicyOrder, Ahead
<1>7. RanksOfLists'
  BY <1>0, <1>4 DEF RanksOfLists, IsMultiset
<1>8. Shape' /\ History'
  BY <1>0, <1>2, <1>3, <1>4 DEF Inductive, Shape, History
<1> QED
  BY <1>4, <1>6, <1>7, <1>8 DEF Inductive

(***************************************************************************)
(* Every step keeps the invariant; what it does to the entries.            *)
(***************************************************************************)
LEMMA InductiveInit == Init => Inductive
<1> SUFFICES ASSUME Init PROVE Inductive
  OBVIOUS
<1>1. /\ order = <<>> /\ recent = <<>> /\ DOMAIN <<>> = {}
      /\ rank = [n \in Names |-> 0] /\ max_size \in Nat
      /\ kind \in AllKinds /\ policy \in AllPolicies
  BY KindAssumption, SizeAssumption DEF Init
<1>2. Shape
  BY <1>1 DEF Shape
<1>3. Cached = {} /\ History
  BY <1>1 DEF History, IsInjective, Cached, ToSet
<1>4. PolicyOrder
  BY <1>1 DEF PolicyOrder
<1> QED
  BY <1>2, <1>3, <1>4 DEF Inductive, RanksOfLists

LEMMA NewRanksAre ==
  ASSUME Inductive, NEW r \in NewRanks
  PROVE  r \in Nat /\ (IsMultiset \/ r = 0)
BY BoundAssumption DEF NewRanks, IsMultiset

\* Add stores a name and makes room for it.
LEMMA StoreKeeps ==
  ASSUME Inductive, NEW n \in Names, Store(n)
  PROVE  /\ Inductive'
         /\ Cached' = (Cached \ Evicted) \cup {n}
         /\ policy = "Random" /\ Full => rank[Head(order)] <= rank'[n]
<1>1. PICK r \in NewRanks :
        /\ ~ Refused(r)
        /\ order' = Placed(Remaining, n, r)
        /\ rank' = [m \in Names |-> IF m = n THEN r ELSE IF m \in Evicted THEN 0 ELSE rank[m]]
  BY DEF Store
<1>2. r \in Nat /\ (IsMultiset \/ r = 0)
  BY NewRanksAre
<1>3. /\ n \notin Cached /\ UNCHANGED <<kind, policy, max_size>>
      /\ recent' = Append(RemoveFirst(recent, n), n)
  BY DEF Store
<1>4. /\ Remaining \in Seq(Names) /\ IsInjective(Remaining)
      /\ ToSet(Remaining) = Cached \ Evicted
      /\ \A x, y : Ahead(Remaining, x, y) => Ahead(order, x, y)
      /\ Full => Head(order) \in Cached
  BY RemainingOrder
<1>5. /\ rank \in [Names -> Nat] /\ max_size \in Nat /\ Cached \subseteq Names
  BY LenProperties, ElementOfSeq DEF Inductive, Shape, Cached, ToSet
<1>6. /\ rank' \in [Names -> Nat] /\ rank'[n] = r
      /\ \A m \in ToSet(Remaining) : rank'[m] = rank[m]
  BY <1>1, <1>2, <1>3, <1>4, <1>5
<1>7. Inductive' /\ Cached' = ToSet(Remaining) \cup {n}
  <2> DEFINE s == Remaining
  <2>1. /\ s \in Seq(Names) /\ IsInjective(s) /\ ToSet(s) \subseteq Cached
        /\ \A x, y : Ahead(s, x, y) => Ahead(order, x, y)
        /\ n \notin ToSet(s) /\ order' = Placed(s, n, r)
        /\ \A m \in ToSet(s) : rank'[m] = rank[m]
    BY <1>1, <1>3, <1>4, <1>6
  <2> HIDE DEF s
  <2>2. Inductive' /\ Cached' = ToSet(s) \cup {n}
    BY <1>2, <1>3, <1>5, <1>6, <2>1, PlacedAmong
  <2> QED
    BY <2>2 DEF s
<1>8. policy = "Random" /\ Full => rank[Head(order)] <= r
  BY <1>1, <1>2, <1>4, <1>5 DEF Refused
<1> QED
  BY <1>4, <1>6, <1>7, <1>8

\* A use moves an entry and evicts none.
LEMMA LookupKeeps ==
  ASSUME Inductive, NEW n \in Names, Lookup(n)
  PROVE  Inductive' /\ Cached' = Cached
<1> DEFINE s == RemoveFirst(order, n)
<1>0. /\ n \in Cached /\ policy \in {"Lru", "Lfu"} /\ UNCHANGED <<kind, policy, max_size>>
      /\ recent' = Append(RemoveFirst(recent, n), n)
  BY DEF Lookup
<1>1. /\ rank \in [Names -> Nat] /\ max_size' \in Nat
      /\ order \in Seq(Names) /\ IsInjective(order)
  BY <1>0, EntriesDistinct DEF Inductive, Shape
<1>2. /\ s \in Seq(Names) /\ IsInjective(s) /\ ToSet(s) = Cached \ {n}
      /\ \A x, y : Ahead(s, x, y) => Ahead(order, x, y)
  BY <1>1, RemoveFirstKeeps DEF Cached
<1> HIDE DEF s
<1>3. CASE policy = "Lfu"
  <2>1. /\ order' = Placed(s, n, rank[n] + 1) /\ rank' = [rank EXCEPT ![n] = @ + 1]
    BY <1>3 DEF Lookup, s
  <2>2. /\ rank[n] + 1 \in Nat /\ rank' \in [Names -> Nat] /\ rank'[n] = rank[n] + 1
        /\ \A m \in ToSet(s) : rank'[m] = rank[m]
    <3>1. ToSet(s) \subseteq Names
      BY <1>2, LenProperties, ElementOfSeq DEF ToSet
    <3> QED
      BY <1>1, <1>2, <2>1, <3>1
  <2>3. IsMultiset
    BY <1>3 DEF IsMultiset
  <2>4. Inductive' /\ Cached' = ToSet(s) \cup {n}
    BY <1>0, <1>1, <1>2, <2>1, <2>2, <2>3, PlacedAmong
  <2> QED
    BY <1>0, <1>2, <2>4
<1>4. CASE policy = "Lru"
  <2>1. ~ IsMultiset
    BY <1>4 DEF IsMultiset
  <2>2. order' = Placed(s, n, 0) /\ rank' = rank
    BY <1>4, <2>1 DEF Lookup, Placed, s
  <2>3. rank[n] = 0
    BY <1>0, <2>1 DEF Inductive, RanksOfLists
  <2>4. Inductive' /\ Cached' = ToSet(s) \cup {n}
    BY <1>0, <1>1, <1>2, <2>2, <2>3, PlacedAmong
  <2> QED
    BY <1>0, <1>2, <2>4
<1> QED
  BY <1>0, <1>3, <1>4

\* Data rejected after the policy took it costs the entry that made room.
LEMMA RejectKeeps ==
  ASSUME Inductive, NEW n \in Names, Reject(n)
  PROVE  Inductive' /\ Cached' = Cached \ Evicted
<1>1. /\ order' = Remaining /\ UNCHANGED <<kind, policy, max_size, recent>>
      /\ rank' = [m \in Names |-> IF m \in Evicted THEN 0 ELSE rank[m]]
  BY DEF Reject
<1>2. /\ Remaining \in Seq(Names) /\ ToSet(Remaining) = Cached \ Evicted
      /\ \A x, y : Ahead(Remaining, x, y) => Ahead(order, x, y)
  BY RemainingOrder
<1>3. Cached' = Cached \ Evicted
  BY <1>1, <1>2 DEF Cached
<1>4. /\ rank \in [Names -> Nat] /\ Cached \subseteq Names
  BY LenProperties, ElementOfSeq DEF Inductive, Shape, Cached, ToSet
<1>5. rank' \in [Names -> Nat] /\ \A m \in Cached' : rank'[m] = rank[m]
  BY <1>1, <1>3, <1>4
<1>6. Shape' /\ History'
  BY <1>1, <1>2, <1>3, <1>5 DEF Inductive, Shape, History
<1>7. RanksOfLists'
  BY <1>1, <1>3, <1>5 DEF Inductive, RanksOfLists, IsMultiset
<1>8. PolicyOrder'
  <2>1. ASSUME NEW x, NEW y, Ahead(order', x, y) PROVE Precedes(x, y)'
    <3>1. x \in Cached' /\ y \in Cached'
      BY <2>1 DEF Ahead, Cached, ToSet
    <3>2. Precedes(x, y)
      BY <1>1, <1>2, <2>1, OrderOfNames DEF Inductive
    <3>3. Older(x, y)' <=> Older(x, y)
      BY <1>1 DEF Older
    <3> QED
      BY <1>5, <3>1, <3>2, <3>3 DEF Precedes
  <2> QED
    BY <2>1 DEF PolicyOrder, Ahead
<1> QED
  BY <1>3, <1>6, <1>7, <1>8 DEF Inductive

\* The other steps leave the entries alone.
LEMMA OthersKeep ==
  ASSUME Inductive, UNCHANGED <<kind, policy, order, rank, recent>>, max_size' \in Nat
  PROVE  Inductive' /\ Cached' = Cached
BY DEF Inductive, Shape, History, RanksOfLists, IsMultiset, PolicyOrder, Precedes, Older, Cached

LEMMA InductiveStep ==
  ASSUME Inductive, [Next]_vars
  PROVE  Inductive'
<1>1. ASSUME NEW n \in Names, Add(n) PROVE Inductive'
  <2>1. CASE Refuse(n)
    <3>1. UNCHANGED <<kind, policy, order, rank, recent, max_size>>
      BY <2>1 DEF Refuse
    <3> QED
      BY <3>1, OthersKeep DEF Inductive, Shape
  <2> QED
    BY <1>1, <2>1, StoreKeeps, RejectKeeps DEF Add
<1>2. ASSUME NEW size \in Sizes, SetMaxSize(size) PROVE Inductive'
  BY <1>2, SizeAssumption, OthersKeep DEF SetMaxSize
<1>3. ASSUME NEW p, SetCacheProbability(p) PROVE Inductive'
  BY <1>3, OthersKeep DEF SetCacheProbability, Inductive, Shape
<1>4. CASE UNCHANGED vars
  BY <1>4, OthersKeep DEF vars, Inductive, Shape
<1> QED
  BY <1>1, <1>2, <1>3, <1>4, LookupKeeps DEF Next

LEMMA InductiveInvariant == Spec => []Inductive
<1>1. Inductive /\ [Next]_vars => Inductive'
  BY InductiveStep
<1> QED
  BY <1>1, InductiveInit, PTL DEF Spec

\* Every policy keeps its entries by rank and age, through evictions, uses,
\* changes of MaxSize and refused arrivals.
THEOREM OrderKept == Spec => []PolicyOrder
<1>1. Inductive => PolicyOrder
  BY DEF Inductive
<1> QED
  BY <1>1, InductiveInvariant, PTL

(***************************************************************************)
(* Victims, traces and the refinement.                                     *)
(***************************************************************************)
\* What a step does to the entries.
LEMMA StepEffect ==
  ASSUME Inductive, [Next]_vars
  PROVE  \/ Cached' = Cached
         \/ \E n \in Names : Reject(n) /\ Cached' = Cached \ Evicted
         \/ \E n \in Names \ Cached :
              /\ Store(n) /\ Cached' = (Cached \ Evicted) \cup {n}
              /\ policy = "Random" /\ Full => rank[Head(order)] <= rank'[n]
<1>1. ASSUME NEW n \in Names, Add(n)
      PROVE  \/ Cached' = Cached
             \/ Reject(n) /\ Cached' = Cached \ Evicted
             \/ /\ n \notin Cached
                /\ Store(n) /\ Cached' = (Cached \ Evicted) \cup {n}
                /\ policy = "Random" /\ Full => rank[Head(order)] <= rank'[n]
  <2>1. CASE Refuse(n)
    BY <2>1 DEF Refuse, Cached
  <2>2. CASE Store(n)
    <3>1. n \notin Cached
      BY <2>2 DEF Store
    <3> QED
      BY <2>2, <3>1, StoreKeeps
  <2> QED
    BY <1>1, <2>1, <2>2, RejectKeeps DEF Add
<1>2. ASSUME NEW n \in Names, Lookup(n) PROVE Cached' = Cached
  BY <1>2, LookupKeeps
<1>3. CASE UNCHANGED order
  BY <1>3 DEF Cached
<1> QED
  BY <1>1, <1>2, <1>3 DEF Next, vars, SetMaxSize, SetCacheProbability

\* What leaves a store, of any policy and however its limit changes, precedes all
\* that stays; Random takes no arrival in exchange for one of a higher number.
THEOREM VictimsFirst == Spec => VictimIsFirst
<1> DEFINE Justified ==
             \A n \in Cached \ Cached' :
               /\ \A m \in Cached \ {n} : Precedes(n, m)
               /\ \A m \in Cached' \ Cached : policy = "Random" => rank[n] <= rank'[m]
<1>1. ASSUME Inductive, [Next]_vars PROVE Justified
  <2> SUFFICES ASSUME NEW n \in Cached \ Cached'
               PROVE  /\ \A m \in Cached \ {n} : Precedes(n, m)
                      /\ \A m \in Cached' \ Cached : policy = "Random" => rank[n] <= rank'[m]
    OBVIOUS
  <2>1. /\ Full /\ n = Head(order)
        /\ \A m \in Cached' \ Cached : policy = "Random" => rank[n] <= rank'[m]
    BY <1>1, StepEffect DEF Evicted
  <2>2. \A m \in Cached \ {n} : Precedes(n, m)
    BY <1>1, <2>1, RemainingOrder
  <2> QED
    BY <2>1, <2>2
<1>2. Inductive /\ [Next]_vars => [Justified]_vars
  BY <1>1
<1> QED
  BY <1>2, InductiveInvariant, PTL DEF Spec, VictimIsFirst

\* A Stats store traces each entry that leaves it, however it leaves, and nothing
\* else but arrivals that Random refused.
THEOREM LossesTraced == Spec => RemovalsTraced
<1> DEFINE Told ==
             kind = "Stats" =>
               \/ removed' = Cached \ Cached'
               \/ policy = "Random" /\ Cached' = Cached /\ removed' \cap Cached = {}
<1>1. ASSUME Inductive, Next, kind = "Stats" PROVE Told
  <2>1. ASSUME NEW n \in Names, Refuse(n) PROVE Told
    <3>1. policy = "Random" /\ removed' = {n} /\ n \notin Cached /\ Cached' = Cached
      BY <1>1, <2>1 DEF Refuse, Refused, Traced, Cached
    <3> QED
      BY <3>1
  <2>2. ASSUME NEW n \in Names, Store(n) PROVE Told
    <3>1. /\ removed' = Evicted /\ n \notin Cached
          /\ Cached' = (Cached \ Evicted) \cup {n} /\ Evicted \subseteq Cached
      BY <1>1, <2>2, StoreKeeps, RemainingOrder DEF Store, Traced, Evicted
    <3> QED
      BY <3>1
  <2>3. ASSUME NEW n \in Names, Reject(n) PROVE Told
    BY <1>1, <2>3 DEF Reject, Draws
  <2>4. ASSUME NEW n \in Names, Lookup(n) PROVE Told
    <3>1. removed' = {} /\ Cached' = Cached
      BY <1>1, <2>4, LookupKeeps DEF Lookup
    <3> QED
      BY <3>1
  <2>5. CASE removed' = {} /\ order' = order
    BY <2>5 DEF Cached
  <2> QED
    BY <1>1, <2>1, <2>2, <2>3, <2>4, <2>5 DEF Next, Add, SetMaxSize, SetCacheProbability
<1>2. Inductive /\ [Next]_vars => [Told]_vars
  BY <1>1
<1> QED
  BY <1>2, InductiveInvariant, PTL DEF Spec, RemovalsTraced

\* The abstract module counts as this one does.
LEMMA SameCardinality == \A S : Cache!Cardinality(S) = Cardinality(S)
BY Zenon DEF Cache!Cardinality, Cardinality

LEMMA CacheInit == Init => Cache!Init
<1> SUFFICES ASSUME Init PROVE Cache!Init
  OBVIOUS
<1>1. order = <<>> /\ max_size \in Nat /\ DOMAIN <<>> = {}
  BY SizeAssumption DEF Init
<1> QED
  BY <1>1 DEF Cache!Init, Cached, ToSet

LEMMA CacheStep ==
  ASSUME Inductive, [Next]_vars
  PROVE  [Cache!Next]_(Cache!vars)
<1> DEFINE stored == IF kind = "Probability" THEN {} ELSE Cached
<1>0. Len(order) \in Nat /\ max_size \in Nat /\ kind' = kind
  BY LenProperties
  DEF Inductive, Shape, Next, vars, Add, Refuse, Reject, Store, Lookup, SetMaxSize,
      SetCacheProbability
<1>1. ASSUME NEW size \in Sizes, SetMaxSize(size) PROVE Cache!Next
  BY <1>0, <1>1, SizeAssumption DEF SetMaxSize, Cache!Next, Cache!SetMaxSize, Cached
<1>2. CASE max_size' = max_size /\ (kind = "Probability" \/ Cached' = Cached)
  BY <1>0, <1>2 DEF Cache!vars
<1>3. ASSUME NEW n \in Names \ Cached, Store(n), kind # "Probability",
             Cached' = (Cached \ Evicted) \cup {n}
      PROVE  Cache!Store(n)
  <2>1. IsInjective(order) /\ order \in Seq(Names)
    BY EntriesDistinct DEF Inductive, Shape
  <2>2. Cache!Cardinality(Cached) = Len(order)
    BY <2>1, ElementsCounted, SameCardinality DEF Cached
  <2>3. Evicted \in Cache!Victims
    <3>1. CASE Full
      <4>1. max_size # 0 /\ Cache!Cardinality(Cached) >= max_size
        BY <2>2, <3>1 DEF Full
      <4>2. Evicted = {Head(order)} /\ Head(order) \in Cached
        BY <3>1, RemainingOrder DEF Evicted
      <4> QED
        BY <1>3, <4>1, <4>2, Zenon DEF Cache!Victims
    <3>2. CASE ~ Full
      <4>1. ~ (max_size # 0 /\ Cache!Cardinality(Cached) >= max_size)
        BY <2>2, <3>2 DEF Full
      <4>2. Evicted = {}
        BY <3>2 DEF Evicted
      <4> QED
        BY <1>3, <4>1, <4>2, Zenon DEF Cache!Victims
    <3> QED
      BY <3>1, <3>2
  <2>4. max_size' = max_size
    BY <1>3 DEF Store
  <2> QED
    BY <1>0, <1>3, <2>3, <2>4 DEF Cache!Store
<1>4. ASSUME NEW n \in Names, Reject(n) PROVE kind = "Probability"
  BY <1>4 DEF Reject, Draws
<1>5. \/ UNCHANGED max_size
      \/ \E size \in Sizes : SetMaxSize(size)
  BY DEF Next, vars, Add, Refuse, Reject, Store, Lookup, SetMaxSize, SetCacheProbability
<1>6. CASE UNCHANGED max_size
  <2>1. CASE kind = "Probability" \/ Cached' = Cached
    BY <1>2, <1>6, <2>1
  <2>2. CASE kind # "Probability" /\ Cached' # Cached
    <3>1. PICK n \in Names \ Cached : Store(n) /\ Cached' = (Cached \ Evicted) \cup {n}
      BY <1>4, <2>2, StepEffect
    <3> QED
      BY <1>3, <2>2, <3>1 DEF Cache!Next
  <2> QED
    BY <2>1, <2>2
<1> QED
  BY <1>1, <1>5, <1>6

\* Every store without a probability is a bounded cache, whatever its policy and
\* however often MaxSize changes: an arrival costs one entry of a full store, and
\* nothing else costs any.
THEOREM CacheImplemented == Spec => ImplementsBoundedCache
<1>1. Inductive /\ [Next]_vars => [Cache!Next]_(Cache!vars)
  BY CacheStep
<1> QED
  BY <1>1, CacheInit, InductiveInvariant, PTL DEF Spec, ImplementsBoundedCache, Cache!Spec
=============================================================================
