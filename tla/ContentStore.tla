---------------------------- MODULE ContentStore ----------------------------
(***************************************************************************)
(* The content stores ns3::ndn::cs::<policy>, Stats::<policy> and          *)
(* Probability::<policy>, for the policies Lru, Fifo, Lfu and Random: a    *)
(* ContentStoreImpl over a trie_with_policy, whose policy is alone or in a *)
(* multi_policy_container with lifetime_stats_policy, which traces         *)
(* removals, or probability_policy, which refuses some arrivals.           *)
(***************************************************************************)
EXTENDS Integers, FiniteSets, SequencesExt

CONSTANTS
    Names,      \* the names of the Data packets
    Kinds,      \* the kinds of store: a subset of AllKinds
    Policies,   \* the policies: a subset of AllPolicies
    Sizes,      \* the values MaxSize is set to
    MaxFreq,    \* bound: hits counted per entry
    MaxOrder    \* bound: the random orders drawn are 1 .. MaxOrder

AllKinds == {"Plain", "Stats", "Probability"}
AllPolicies == {"Lru", "Fifo", "Lfu", "Random"}

ASSUME KindAssumption == Kinds \subseteq AllKinds /\ Policies \subseteq AllPolicies
ASSUME SizeAssumption == Sizes \subseteq Nat
ASSUME BoundAssumption == MaxFreq \in Nat /\ MaxOrder \in Nat \ {0}

VARIABLES
    kind,
    policy,
    max_size,       \* max_size_ of every policy in the container
    probability,    \* CacheProbability: 0, 1 or something in between
    order,          \* policy_container of the policy, from begin to end
    rank,           \* frequency (Lfu) or randomOrder (Random) of each entry
    removed,        \* entries the last call traced with WillRemoveEntry
    recent          \* history: names by their last insertion, or use if it counts

vars == <<kind, policy, max_size, probability, order, rank, removed, recent>>

Cached == ToSet(order)

\* The containers of Lru and Fifo are lists, those of Lfu and Random multisets.
IsMultiset == policy \in {"Lfu", "Random"}

Init ==
    /\ kind \in Kinds
    /\ policy \in Policies
    /\ max_size \in Sizes
    /\ probability = "one"
    /\ order = <<>>
    /\ rank = [n \in Names |-> 0]
    /\ removed = {}
    /\ recent = <<>>

\* A mutant of Full: room is made one entry too late.
FullBeyond == max_size # 0 /\ Len(order) > max_size

\* The test of every policy's insert.
Full == max_size # 0 /\ Len(order) >= max_size

\* get_order of a new entry; the lists keep none.
NewRanks == IF policy = "Random" THEN 1 .. MaxOrder ELSE {0}

\* A mutant of Refused: room is made for any arrival.
RefusedNever(r) == FALSE

\* Only Random refuses an arrival: one ordered before its first entry.
Refused(r) == policy = "Random" /\ Full /\ r < rank[Head(order)]

\* The policy makes room by erasing the first entry of its container.
Evicted == IF Full THEN {Head(order)} ELSE {}

Remaining == IF Full THEN Tail(order) ELSE order

\* A mutant of Placed: a new entry goes before those of its rank.
PlacedBefore(s, n, r) ==
    IF IsMultiset
    THEN InsertAt(s, 1 + Cardinality({k \in DOMAIN s : rank[s[k]] < r}), n)
    ELSE Append(s, n)

\* s with n added: at the end of a list, after the entries a multiset
\* compares as not greater.
Placed(s, n, r) ==
    IF IsMultiset
    THEN InsertAt(s, 1 + Cardinality({k \in DOMAIN s : rank[s[k]] <= r}), n)
    ELSE Append(s, n)

\* What ns3_rand_.GetValue () < probability_ may say.
Draws ==
    IF kind # "Probability" \/ probability = "one" THEN {TRUE}
    ELSE IF probability = "zero" THEN {FALSE} ELSE BOOLEAN

\* A mutant of Traced: an entry erased by the policy's own insert is forgotten
\* without a trace.
TracedOutside(names) == IF kind = "Stats" THEN names \ Cached ELSE {}

\* lifetime_stats_policy fires WillRemoveEntry for every node it forgets.
Traced(names) == IF kind = "Stats" THEN names ELSE {}

\* Add of Data the policy refuses.  lifetime_stats_policy, asked first, has
\* taken the entry and has to forget it.
Refuse(n) ==
    /\ n \notin Cached
    /\ \E r \in NewRanks : Refused(r)
    /\ removed' = Traced({n})
    /\ UNCHANGED <<kind, policy, max_size, probability, order, rank, recent>>

\* Add of Data the policy takes and probability_policy, asked after it,
\* refuses: the policy forgets the entry it has made room for.
Reject(n) ==
    /\ n \notin Cached
    /\ FALSE \in Draws
    /\ \E r \in NewRanks : ~Refused(r)
    /\ order' = Remaining
    /\ rank' = [m \in Names |-> IF m \in Evicted THEN 0 ELSE rank[m]]
    /\ removed' = Traced(Evicted)
    /\ UNCHANGED <<kind, policy, max_size, probability, recent>>

\* Add of Data that is stored.
Store(n) ==
    /\ n \notin Cached
    /\ TRUE \in Draws
    /\ \E r \in NewRanks :
         /\ ~Refused(r)
         /\ order' = Placed(Remaining, n, r)
         /\ rank' = [m \in Names |-> IF m = n THEN r ELSE IF m \in Evicted THEN 0 ELSE rank[m]]
    /\ removed' = Traced(Evicted)
    /\ recent' = Append(RemoveFirst(recent, n), n)
    /\ UNCHANGED <<kind, policy, max_size, probability>>

\* ContentStoreImpl::Add of a name that is not stored.  (Adding a stored name
\* does not reach the policy.)
Add(n) == Refuse(n) \/ Reject(n) \/ Store(n)

\* Lookup of a stored name: Lru and Lfu move its entry, the others do nothing.
Lookup(n) ==
    /\ n \in Cached
    /\ policy \in {"Lru", "Lfu"}
    /\ IF policy = "Lfu"
       THEN /\ rank[n] < MaxFreq
            /\ rank' = [rank EXCEPT ![n] = @ + 1]
            /\ order' = Placed(RemoveFirst(order, n), n, rank[n] + 1)
       ELSE /\ order' = Append(RemoveFirst(order, n), n)
            /\ UNCHANGED rank
    /\ removed' = {}
    /\ recent' = Append(RemoveFirst(recent, n), n)
    /\ UNCHANGED <<kind, policy, max_size, probability>>

\* The attribute MaxSize set while the store is in use: nothing is evicted.
SetMaxSize(size) ==
    /\ max_size' = size
    /\ removed' = {}
    /\ UNCHANGED <<kind, policy, probability, order, rank, recent>>

\* The attribute CacheProbability.
SetCacheProbability(p) ==
    /\ kind = "Probability"
    /\ probability' = p
    /\ removed' = {}
    /\ UNCHANGED <<kind, policy, max_size, order, rank, recent>>

Next ==
    \/ \E n \in Names : Add(n) \/ Lookup(n)
    \/ \E size \in Sizes : SetMaxSize(size)
    \/ \E p \in {"zero", "some", "one"} : SetCacheProbability(p)

Spec == Init /\ [][Next]_vars

(***************************************************************************)
(* Properties.                                                             *)
(***************************************************************************)

\* n goes before m: its rank is less, or the same and n is older.
Older(n, m) == \E j, k \in DOMAIN recent : j < k /\ recent[j] = n /\ recent[k] = m
Precedes(n, m) == rank[n] < rank[m] \/ (rank[n] = rank[m] /\ Older(n, m))

\* Every policy keeps its entries by rank and, where ranks are equal, by age:
\* Lru by the last use, Fifo by arrival, Lfu by frequency and then the last use,
\* Random by the number drawn and then arrival, through evictions, changes of
\* MaxSize and refused arrivals.
PolicyOrder ==
    \A j, k \in DOMAIN order : j < k => Precedes(order[j], order[k])

\* What leaves the store precedes all that stays, and the arrival, if the
\* policy is Random, whose order decides whether it may come in.
VictimIsFirst ==
    [][\A n \in Cached \ Cached' :
         /\ \A m \in Cached \ {n} : Precedes(n, m)
         /\ \A m \in Cached' \ Cached : policy = "Random" => rank[n] <= rank'[m]]_vars

\* WillRemoveEntry is fired for each entry that leaves a Stats store, and for
\* nothing else but Data that Random refused, which never was in the store.
RemovalsTraced ==
    [][kind = "Stats" =>
         \/ removed' = Cached \ Cached'
         \/ policy = "Random" /\ Cached' = Cached /\ removed' \cap Cached = {}]_vars

\* The stores without a probability keep the promise of BoundedCache.
Cache == INSTANCE BoundedCache WITH cached <- IF kind = "Probability" THEN {} ELSE Cached
ImplementsBoundedCache == Cache!Spec

=============================================================================
