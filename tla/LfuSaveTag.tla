----------------------------- MODULE LfuSaveTag -----------------------------
(***************************************************************************)
(* The content store ndn::cs::Statsinherit::Lfu_save_tag: the replacement  *)
(* policy lfu_policy_save_tag over the trie, and the HitTraceTable that    *)
(* changes the class ratios every five seconds.                            *)
(*                                                                         *)
(* Both handlers, insert and CalCsRatioByTag, contain the repair loop      *)
(* ToAllPositive.  The program is single threaded: while a loop runs (pc   *)
(* is not "idle") nothing else happens, and each turn is a step.           *)
(***************************************************************************)
EXTENDS TagQuota, SequencesExt

CONSTANTS
    Names,      \* the Data names a run can ask for
    TagOf,      \* the class each name's Data carries, or NoTag
    NoTag,      \* Data whose packet has no DataSaveTag
    Sizes,      \* the values of MaxSize to start from
    MaxFreq,    \* bound: hits counted per entry
    MaxDelta,   \* bound: slots a class gains or loses at once, for each size
    MaxAdjust   \* bound: adjustments in a behaviour

ASSUME SizeAssumption == Sizes \subseteq 0 .. WordSize - 1
ASSUME TagAssumption == TagOf \in [Names -> Tags \cup {NoTag}] /\ NoTag \notin Tags
ASSUME BoundAssumption == MaxFreq \in Nat /\ MaxDelta \in [Sizes -> Nat] /\ MaxAdjust \in Nat

VARIABLES
    max_size,   \* max_size_
    order,      \* policy_container: cached names by growing frequency
    frequency,  \* policy_hook_type::frequency of every name
    share,      \* int(max_size_ * ratio[i])
    quota,      \* max_vect_by_tag
    delta,      \* temp_vect of HitTraceTable::ChangeCsRatioByTag
    hits,       \* some m_cacheHits_vect counter is positive
    adjusted,   \* adjustments so far
    pending,    \* the name being inserted, as a set of at most one
    pc          \* "idle", or the loop being executed

vars == <<max_size, order, frequency, share, quota, delta, hits, adjusted, pending, pc>>

Cached == ToSet(order)

\* GetCountByTag: entries without a tag are counted nowhere.
Positions(t) == {k \in DOMAIN order : TagOf[order[k]] = t}
Count(t) == Cardinality(Positions(t))

\* boost::intrusive::multiset inserts after the entries that compare equal.
InsertPosition(s, f) == 1 + Cardinality({k \in DOMAIN s : frequency[s[k]] <= f})

\* A mutant of VictimPosition: the scan does not stop at the first match.
LastVictim(t) == {k \in Positions(t) : \A j \in Positions(t) : k >= j}

\* GetTrieIter: the first entry of the class in the order of the policy.
VictimPosition(t) == {k \in Positions(t) : \A j \in Positions(t) : k <= j}

(***************************************************************************)
(* The value tag_value may hold.  Without a DataSaveTag it is read         *)
(* uninitialised: the class left on the stack by an earlier call.          *)
(***************************************************************************)
TagValue(n) == IF TagOf[n] = NoTag THEN Tags ELSE {TagOf[n]}

\* Mutants of EvictedPosition: room is made one entry too late; the class quota
\* is enforced before the store is full; the commented-out global victim.
EvictLate(tag) ==
    IF Len(order) > max_size
    THEN UNION {VictimPosition(t) : t \in {u \in Tags : Count(u) >= quota[u]}} ELSE {}
EvictEarly(tag) ==
    IF Count(tag) >= quota[tag] THEN VictimPosition(tag)
    ELSE IF Len(order) # max_size THEN {}
    ELSE UNION {VictimPosition(t) : t \in {u \in Tags : Count(u) >= quota[u]}}
EvictFront(tag) == IF Len(order) = max_size THEN {1} ELSE {}

\* The position to evict for an arrival of class tag, as a set of at most one.
EvictedPosition(tag) ==
    LET full == {t \in Tags \ {tag} : Count(t) >= quota[t]}
    IN  IF Len(order) # max_size THEN {}
        ELSE IF Count(tag) >= quota[tag] THEN VictimPosition(tag)
        ELSE UNION {VictimPosition(t) : t \in {u \in full : \A v \in full : v <= u}}

Init ==
    /\ max_size \in Sizes
    /\ order = <<>>
    /\ frequency = [n \in Names |-> 0]
    /\ share = DefaultShare(max_size)
    /\ quota = [t \in Tags |-> 0]
    /\ delta = [t \in Tags |-> 0]
    /\ hits = FALSE
    /\ adjusted = 0
    /\ pending = {}
    /\ pc = "idle"

\* ContentStoreImpl::Add of a name that is not stored, up to the loop in
\* CalNewMaxValue.  (Adding a stored name changes nothing.)
StartInsert(n) ==
    /\ pc = "idle"
    /\ n \notin Cached
    /\ pending' = {n}
    /\ frequency' = [frequency EXCEPT ![n] = 0]
    /\ quota' = RawQuota(max_size, share)
    /\ pc' = "insert"
    /\ UNCHANGED <<max_size, order, share, delta, hits, adjusted>>

\* One turn of the loop in CalNewMaxValue.
InsertPass ==
    /\ pc = "insert"
    /\ quota' = Pass(quota, TRUE)
    /\ pc' = IF AllPositive(quota') THEN "evict" ELSE "insert"
    /\ UNCHANGED <<max_size, order, frequency, share, delta, hits, adjusted, pending>>

\* The store holds s and the new entry is put at the end of those with
\* frequency zero.
StoreIn(s, n) == order' = InsertAt(s, InsertPosition(s, 0), n)

\* The rest of insert: make room if the store is exactly full, then store.
FinishInsert ==
    /\ pc = "evict"
    /\ \E n \in pending : \E tag \in TagValue(n) :
         \/ \E k \in EvictedPosition(tag) : StoreIn(RemoveAt(order, k), n)
         \/ EvictedPosition(tag) = {} /\ StoreIn(order, n)
    /\ pending' = {}
    /\ pc' = "idle"
    /\ UNCHANGED <<max_size, frequency, share, quota, delta, hits, adjusted>>

\* Mutants of Hit: the hit is counted and the entry left where it is; the count
\* so far is added again.
HitInPlace(k) ==
    /\ pc = "idle"
    /\ frequency[order[k]] < MaxFreq
    /\ frequency' = [frequency EXCEPT ![order[k]] = @ + 1]
    /\ hits' = (hits \/ TagOf[order[k]] # NoTag)
    /\ UNCHANGED <<max_size, order, share, quota, delta, adjusted, pending, pc>>
HitAccumulates(k) ==
    /\ pc = "idle"
    /\ frequency[order[k]] < MaxFreq
    /\ frequency' = [frequency EXCEPT ![order[k]] = @ + @ + 1]
    /\ UNCHANGED <<max_size, order, share, quota, delta, hits, adjusted, pending, pc>>

\* Lookup finds the entry at position k: the policy's lookup moves it up, and
\* CacheHits counts the hit for the class of the Interest.
Hit(k) ==
    /\ pc = "idle"
    /\ frequency[order[k]] < MaxFreq
    /\ LET n == order[k]
           others == RemoveAt(order, k)
       IN  /\ order' = InsertAt(others, InsertPosition(others, frequency[n] + 1), n)
           /\ frequency' = [frequency EXCEPT ![n] = @ + 1]
           /\ hits' = (hits \/ TagOf[n] # NoTag)
    /\ UNCHANGED <<max_size, share, quota, delta, adjusted, pending, pc>>

\* A mutant of StartAdjust: the fifth class does not get the remainder.
AdjustWithoutRemainder ==
    /\ pc = "idle"
    /\ hits
    /\ adjusted < MaxAdjust
    /\ \E m_delta_tag \in [Tags -> -MaxDelta[max_size] .. MaxDelta[max_size]] :
         delta' = [t \in Tags |-> share[t] + m_delta_tag[t]]
    /\ adjusted' = adjusted + 1
    /\ pc' = "adjust"
    /\ UNCHANGED <<max_size, order, frequency, share, quota, hits, pending>>

(***************************************************************************)
(* CalCsRatioByTag up to the loop.  The gains depend on the hit counters   *)
(* through a low-pass filter in floating point: any gain within MaxDelta.  *)
(* The fifth class gets what the other four leave.                         *)
(***************************************************************************)
StartAdjust ==
    /\ pc = "idle"
    /\ hits
    /\ adjusted < MaxAdjust
    /\ \E m_delta_tag \in [1 .. 4 -> -MaxDelta[max_size] .. MaxDelta[max_size]] :
         LET first == [t \in 1 .. 4 |-> share[t] + m_delta_tag[t]]
         IN  delta' = [t \in Tags |-> IF t = 5 THEN max_size - TotalOfFirstFour(first)
                                               ELSE first[t]]
    /\ adjusted' = adjusted + 1
    /\ pc' = "adjust"
    /\ UNCHANGED <<max_size, order, frequency, share, quota, hits, pending>>

(***************************************************************************)
(* One turn of the loop in ChangeCsRatioByTag; when it ends, SetRatio.     *)
(* int(max_size_ * (float(n) / float(max_size_))) is n or n - 1, depending *)
(* on how the quotient rounds (13 of 22 becomes 12, 1 of 41 becomes 0).    *)
(***************************************************************************)
AdjustPass ==
    /\ pc = "adjust"
    /\ delta' = Pass(delta, FALSE)
    /\ IF AllPositive(delta')
       THEN /\ pc' = "idle"
            /\ \E loss \in [Tags -> {0, 1}] :
                 share' = [t \in Tags |-> delta'[t] - loss[t]]
       ELSE UNCHANGED <<pc, share>>
    /\ UNCHANGED <<max_size, order, frequency, quota, hits, adjusted, pending>>

Next ==
    \/ \E n \in Names : StartInsert(n)
    \/ InsertPass
    \/ FinishInsert
    \/ \E k \in DOMAIN order : Hit(k)
    \/ StartAdjust
    \/ AdjustPass

Spec == Init /\ [][Next]_vars

\* A call that has begun keeps executing; nothing forces a new call.
FairSpec == Spec /\ WF_vars(InsertPass) /\ WF_vars(FinishInsert) /\ WF_vars(AdjustPass)

(***************************************************************************)
(* Properties.                                                             *)
(***************************************************************************)

\* The shape of the state.
TypeOK ==
    /\ max_size \in Sizes
    /\ order \in Seq(Names)
    /\ frequency \in [Names -> 0 .. MaxFreq]
    /\ share \in [Tags -> Int]
    /\ quota \in [Tags -> 0 .. WordSize - 1]
    /\ delta \in [Tags -> Int]
    /\ hits \in BOOLEAN
    /\ adjusted \in 0 .. MaxAdjust
    /\ pending \subseteq Names
    /\ pc \in {"idle", "insert", "evict", "adjust"}

\* The store never holds more entries than MaxSize, although it makes room
\* only when its size equals MaxSize and only from a class over its quota.
Capacity == Len(order) <= max_size

\* The index of the policy is the list of distinct names by growing frequency
\* after any mix of insertions, hits and evictions: a victim found by scanning
\* it from the front is a least frequently used one.
PolicyOrder ==
    \A j, k \in DOMAIN order :
        j < k => order[j] # order[k] /\ frequency[order[j]] <= frequency[order[k]]

\* When the repair loop ends, the quotas divide MaxSize exactly: every class has
\* a slot and none was wrapped round to a number beyond the store.
QuotaExact == pc = "evict" => AllPositive(quota) /\ Total(quota) = max_size

\* Adjusting moves slots between classes and neither makes nor loses any; what
\* SetRatio stores leaves the fifth class a remainder that does not wrap.
AdjustConserves ==
    /\ pc = "adjust" => Total(delta) = max_size
    /\ TotalOfFirstFour(share) <= max_size

\* An entry is displaced only from a class that fills its quota, and only if no
\* entry of that class has been used less.
VictimIsLeastUsed ==
    [][\A n \in Cached \ Cached' :
         /\ Count(TagOf[n]) >= quota[TagOf[n]]
         /\ \A m \in Cached : TagOf[m] = TagOf[n] => frequency[n] <= frequency[m]]_vars

\* In a full store a class that fills its quota does not grow: it replaces its
\* own entries, and the other classes keep theirs.
QuotaCaps ==
    [][Len(order) = max_size =>
         \A t \in Tags : Count(t)' > Count(t) => Count(t) < quota[t]]_vars

\* The store does what BoundedCache promises of any replacement policy.
Cache == INSTANCE BoundedCache WITH cached <- Cached
ImplementsBoundedCache == Cache!Spec

\* Every insertion and every adjustment returns: their repair loops end.  (A turn
\* that gives a slot and takes it back changes nothing: a loop stuck there shows
\* as stuttering.)
RepairReturns == (pc # "idle") ~> (pc = "idle")
=============================================================================
