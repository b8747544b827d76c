# Verification of ndnSIM with class-aware caching

The repository is ndnSIM, an NDN network simulator on ns-3, extended with a
content store that divides its entries among five traffic classes and a
controller that re-divides them from the observed cache hits. This directory
holds TLA+ models of its core, the TLC configurations that check them, and
proofs checked by TLAPS.

ns-3 runs one event at a time, so there are no threads: a handler runs to its
end before the next begins. What is hard is the *order* of handlers (packets,
duplicates, NACKs, timers that fall on the same instant), state that outlives
the packet it was made for (limits, PIT entries kept after they are satisfied,
remembered event times), and arithmetic that mixes `uint32_t`, `int` and
`float`.

## Inventory

| Component | State | Operations | Hard | Correct when |
|---|---|---|---|---|
| Class-aware LFU store (`utils/trie/lfu-policy-save-tag.h`, `model/cs/content-store-impl.h`) | trie of entries, multiset ordered by frequency, ratios, quotas per class, `max_size_` | insert (with the loop `ToAllPositive`), lookup, erase, set_max_size | unsigned loop that may not end; room made only when the size is *equal to* the limit; an index keyed by a value it changes | holds at most MaxSize; evicts a least used entry of a class over its quota; insertion returns |
| Hit controller (`model/hit-trace-table.h`, `model/cs/content-store-with-stats-inherit.h`) | hit counters per class, filtered gains, ratios | CacheHits, CalCsRatioByTag every 5 s, SetRatio | float rounding, signed copy of the loop, negative shares | slots are conserved; an adjustment returns |
| Forwarding strategies (`model/fw/`) | none of their own | OnInterest, OnData, OnNack, propagation | duplicates, suppression, retransmissions, NACKs meet entries in any state | nobody waits for nothing; Data goes where it was asked for; retransmissions go out |
| PIT (`model/pit/`) | entries: faces in and out, nonces, expiry, retransmission counts | Lookup, Create, MarkErased, CleanExpired | several entries for one Data; entries that linger for `PitEntryPruningTimout` | every entry ends; lingering entries are harmless |
| Interest limits (`utils/ndn-limits*`, `model/fw/per-*-limits.h`) | outstanding Interests per face (window) or a token bucket (rate) | BorrowLimit, ReturnLimit, UpdateCurrentLimit, leak | every path that ends an entry must return exactly what it borrowed | outstanding = what the PIT waits for |
| Freshness store (`model/cs/content-store-with-freshness.h`) | LRU list, expiry index, cleaning event and the time remembered for it | Add, Lookup, CleanExpired | event and remembered time can diverge | no Data outlives its freshness; the event is never lost |
| FIB (`model/fib/`) | routes with cost, status and RTT in ordered and random-access indices | UpdateStatus, UpdateFibRtt, Invalidate, RemoveFace | secondary index not rearranged | FindBestCandidate returns the best route |
| Other policies and stores (`utils/trie/*-policy.h`, `model/cs/`) | containers per policy | insert, lookup, erase, set_max_size | composition: one policy evicts, the next rejects | each is a bounded cache |
| Name trie (`utils/trie/trie*.h`) | tree of nodes with payloads | insert, erase, longest/deepest match, find_if | pruning of empty nodes, payload of the root | lookups return what they name |
| Consumers, RTT (`apps/ndn-consumer*.cc`, `utils/ndn-rtt*`) | sequence numbers to resend, timeouts, window, in-flight count, RTT history | SendPacket, OnData, OnNack, OnTimeout, CheckRetxTimeout | late Data after a timeout; NACK after both | every sequence number is answered or asked again; in-flight counts what is in flight |
| Producers, application faces (`apps/ndn-producer.cc`, `model/ndn-app-face.cc`) | none | OnInterest answers inside SendInterest | re-entrancy: OnData runs inside the propagation loop | limits and entries survive the nested call |
| ApiFace (`ndn.cxx/ndn-api-face.cc`) | pending Interests with callbacks, registered prefixes | ExpressInterest, SendData, timeouts | callbacks that express the same name while it is being satisfied | each callback is called once |
| PyNDN (`PyNDN/`) | compiled patterns with their groups; wrappers of C++ objects | matchName, matchN, extract; Face | backtracking over groups that failed attempts have written | a name matches iff the pattern means it; groups hold the match |
| Stack and faces (`model/ndn-l3-protocol.cc`, `model/ndn-face.cc`) | face list | AddFace, RemoveFace, dispatch | a face disappears under entries that name it | nobody waits on behalf of it; limits are returned |
| Formats, helpers, tracers, plugins, examples | | encoding, set-up, output | | not modelled |

Interaction is by direct calls: a face hands a packet to the strategy; the
strategy asks PIT, content store and FIB, borrows and returns limits through
the hooks `WillSatisfyPendingInterest`, `WillEraseTimedOutPendingInterest` and
`TrySendOutInterest`, and sends on faces. Timers (PIT cleaning, freshness
cleaning, the five-second controller, retransmission checks) are simulator
events. The controller is called by the content store (hits) and calls its
policy (`SetRatio`).

## Modules

Every module has an `MC` module that gives its constants values for TLC; the
`.cfg` files are named after the runs. Operators commented "a mutant of ..." are
plausible mistakes, kept beside what they mistake: substituted for it, they make
a run fail, which shows that its properties can.

### TagQuota, LfuSaveTag: the class-aware store and its controller

`TagQuota` holds the arithmetic: the ratios (in ten-thousandths), the quotas
before repair (`RawQuota`, `CalNewMaxValue`) and one turn `Pass` of
`ToAllPositive`. The loop exists twice in the code, over `uint32_t` in the
policy and over `int` in the controller; the parameter `unsigned` of `Pass`
says which. Both compare with `(v - 10) > 0` in unsigned arithmetic, which is
`v # 10`. `WordSize` is 2^32 in the code; the runs use 2^16 so that TLC can
compute with it, and every quantity of the runs is far below it or wraps the
same way.

`LfuSaveTag` is the state machine. The loops do not always end, so a turn is a
step and `pc` says which loop runs; in between nothing else can happen, as in
the program.

| Action | Code |
|---|---|
| `StartInsert` | `ContentStoreImpl::Add` of a new name, `insert`, `CalNewMaxValue` up to the loop |
| `InsertPass` | a turn of `ToAllPositive` in the policy |
| `FinishInsert` | the rest of `insert`: own class over quota, else the first other class over quota, else nobody gives way; then the entry goes after those with frequency 0 |
| `Hit` | `lookup`: erase, count, reinsert; `CacheHits` |
| `StartAdjust`, `AdjustPass` | `CalCsRatioByTag`, `ChangeCsRatioByTag`, `SetRatio` |

`order` is the multiset; `boost::intrusive::multiset` inserts after equal keys.
`TagOf[n] = NoTag` is Data without a `DataSaveTag`: its `tag_value` is
uninitialised, so any class is a possible value. The gain of a class is any
number within `MaxDelta`: the filter behind it is floating point over hit
counts. `int(max_size * (float(n) / float(max_size)))` is `n` or `n - 1`.
A tag of value 0 (index -1) is left out; no code in `src/` sends one.

`BoundedCache` is the abstract specification: storing Data drops exactly one
other entry if the store is full and none otherwise, and refused Data changes
nothing. `LfuSaveTag` and `ContentStore` implement it with `cached <- Cached`:
hits, loops and adjustments stutter. The stores with a probability do not (see
below), and are mapped to an empty cache.

### ContentStore: the other policies and stores

`Lru`, `Fifo`, `Lfu` and `Random`, alone (`Plain`; `AggregateStats` only counts
calls), with `lifetime_stats_policy` (`Stats`) or with `probability_policy`
(`Probability`). `order` is the container of the policy from `begin` to `end`,
`rank` the key of the two multisets. `multi_policy_container::insert` asks the
*last* policy of the vector first, which decides who has acted when another
refuses: `lifetime_stats_policy` has recorded Data that Random refuses
(`Refuse` traces a removal that is none), and a replacement policy has made
room for Data that the probability refuses (`Reject`). `Store`, `Lookup`,
`SetMaxSize` and `SetCacheProbability` are the other operations; `SetMaxSize`
may happen at any time and evicts nothing, and after it is lowered each
insertion replaces one entry. `recent` is a history variable, read by the
properties only. `Persistent` is a policy of PITs and left out; a random number
is one of 1 .. `MaxOrder`, and a probability is 0, 1 or in between, where both
outcomes are possible.

### FreshStore: the freshness store

`order` is the LRU list, `expires` the expiry of each name's Data, `scheduled`
is `m_scheduledCleaningTime` and `event` the pending `m_cleanEvent`. They are
distinct because the code lets them diverge: `RescheduleCleaning` removes the
event without forgetting its time. `Add`, `Lookup` and `CleanExpired` are the
code's; `Tick` is ns-3's clock, which does not pass a due event. All times are
kept relative to now; a past time is `Past`. MaxSize 0 (no limit) is left out.

### NameTrie, NameMap: the tree under every table

Content stores, PIT, FIB and the tables of ApiFace are all a `trie` of name
components with a `trie_with_policy` around it. A node is known by its name;
`Prefixes` gives the names on the path to it, so a trie of any depth and
fan-out is a set of names under the facts of `TreeAssumption`.

| Action or operator | Code |
|---|---|
| `Insert` | `trie_with_policy::insert` of a new name: the nodes of its path, the policy's `insert`, which may first erase one other entry, the payload |
| `Refuse` | the policy refuses (and may have erased another entry by then): the payload is taken back and its branch pruned |
| `Modify`, `Erase`, `Clear` | `modify`/`insert` of a stored name; `erase` with `trie::erase` and the recursive `prune`; `clear` |
| `Pruned` | `trie::prune`: up the path, as long as a node has no payload and no child |
| `FindExact`, `LongestPrefixMatch`, `LongestPrefixMatchIf`, `DeepestPrefixMatch`, `NextLevelMatch`, `FindBelow` | the lookups and the `find`, `find_if` they call, a node at a time over the nodes (not over the names) |

Children hang in a hash table, so a search of them may come to any first: a
lookup is the set of nodes it may return. A lookup of `/` by `deepest_prefix_match`
in an empty trie hands a null node to the policy: its result is `Undefined`, and
`LookupsAgree` says that no other lookup of any reachable trie is. `find_if` takes
the root's payload whether the predicate accepts it or not, so the reference of
`LongestPrefixMatchIf` counts the root in. `NameMap` is the abstract
specification: a map from names to entries that loses one only by `erase`,
`clear`, or by the displacement of at most one for an arrival. `Clear` is what an
owner does when it is disposed of: the root keeps its payload, and `live` says
that nothing follows.

### Forwarder: a node

One action per path through a handler of `ForwardingStrategy`/`Nacks`:

| Action | Code |
|---|---|
| `DuplicateInterest` | `OnInterest` of a nonce the entry has seen, and `DidReceiveDuplicateInterest` |
| `CacheHit` | `OnInterest`, Data found: satisfied from the store, limits returned |
| `Suppress` | `OnInterest`, `ShouldSuppressIncomingInterest`: only the lifetime is extended |
| `PropagateInterest` | `OnInterest`, `PropagateInterest` with the strategy's `DoPropagateInterest`; `DidExhaustForwardingOptions` when it sends nothing and nothing is awaited |
| `UnsolicitedData`, `SatisfyPendingInterests` | `OnData`; the latter loops over all entries the Data answers |
| `OnNack` | `Nacks::OnNack`: the route waits in vain, its status changes, the next route is tried or the entry given up |
| `CleanExpired`, `Tick` | `PitImpl::CleanExpired` and the clock |
| `RemoveFace` | `L3Protocol::RemoveFace` of an application's face, `ForwardingStrategy::RemoveFace`: it leaves the entries it waits in; the entries stay |

`pit` maps names to entries as the code has them (`incoming`, `outgoing` with
its retransmission count and `waitingInVain`, `nonces`, allowed
retransmissions, remaining lifetime); `outstanding` is
`LimitsWindow::m_outstanding`; `status` the colour of the routes; `cs` the
content store; `sent` the packets of the last handler, which is what the
properties about answers read. `Strategy`, `EnableNACKs`,
`DetectRetransmissions` and `Pruning` are the attributes of the code.

The environment is unrestricted: any Interest, Data or NACK may come from any
face at any time, which covers loss, duplication, delay and reordering in the
links and what neighbours and applications may send. Abstractions:

- Time is in ticks of at least 100 ms, the throttle of retransmissions, so one
  tick makes `IncreaseAllowedRetxCount` ready again; the first 100 ms of a
  simulation, in which a new entry is not ready, are left out.
- All names share one FIB entry, with distinct costs, as under a default route;
  RED is an initial status only (no strategy here sets it).
- Local applications send and answer later; a producer that answers *inside*
  `SendInterest` is not modelled here (see "Not modelled").
- The content store is a set with any victim; `Lookup` is what
  `deepest_prefix_match` returns.
- Window limits per outgoing face, constant. Applications' faces go; routes do
  not.

### Consumer: the four consumers

The fields the handlers change are one record, `c`, and each handler is a
function on it, because handlers nest: a content store or local producer answers,
or the strategy rejects, while `SendPacket` is still in `ReceiveInterest`.

| Action or operator | Code |
|---|---|
| `SendPacket(s, answer)` | `SendPacket`: the first of `m_retxSeqs` or the next segment (for Zipf any content), `WillSendOutInterest`, then what the node did before returning (`kept`, `data`, `nack`, `dropped`), then `ScheduleNextPacket` |
| `SendNothing` | `SendPacket` with nothing left, or of a stopped consumer |
| `ReceiveData`, `ReceiveNack`, `InterestExpires` | `OnData`, `OnNack` of an Interest in the node's PIT; the entry ends with neither |
| `CheckRetxTimeout` | the loop over all timeouts that have expired, `OnTimeout` of each included |
| `AddBatch`, `StopApplication` | `ConsumerBatches::AddBatch` with `ClearSent`; `StopApplication` |
| `SentSeq`, `ConsumerOnData`, `OnTimeouts` | also what `RttMeanDeviation` keeps of each sending: fresh, timed out, or sent again |

The times of events are left out: a pending event may run, and any number of
the oldest timeouts may expire, at any moment. `pending` is the node's PIT as
far as the consumer's face is in it, so Data or a NACK comes at most once per
entry, and may come after the timeout.

### ApiFace: the application interface

`pending` is `m_pendingInterests` with the callbacks of each entry, `order` the
multiset of `timeouts_policy_traits` and `timer` its one event. A loop over
callbacks is a step for each, and between two of them the application may call
the face again, which is what a callback does; nothing else may run then. Only
`Shutdown` asks whether the face is up: the application may call a face that is
down too, and fills its tables, its timer and the FIB as before; what it puts off
is then dropped by `ReceiveInterest`.

| Action | Code |
|---|---|
| `ExpressInterest` | joins the entry of the name, or makes one and puts its Interest off with `ScheduleNow` |
| `SetInterestFilter`, `ClearInterestFilter`, `Put` | the calls of those names |
| `SendData`, `NextCallback`, `EndEntry` | `ApiFace::SendData`: the loop over the longest pending prefix, all its callbacks, its erasure, and the next one |
| `ProcessTimeoutEntry`, `NextCallback`, `EndEntry` | the timer's event and `ProcessOnTimeout` |
| `Shutdown` | the calls that wait are cleared, their callbacks never called; with the node's `RemoveFace` |
| `RunQueue`, `NodeForgets`, `Tick` | the events put off, the node's PIT entry for the face, the clock |
| `Insert`, `Erase` | the trie's, with the rescheduling of the policy |

### NameRegex: patterns over names

`PyNDN/nre.py` matches names against compiled patterns by backtracking, lazily
(`matchName`) or greedily (`matchN`), and keeps the groups of all attempts in the
compiled pattern. `Match`, `MatchList`, `MatchTimes`, `MatchRepeat`, `MatchGroup`
and `MatchSet` are the matchers' `match`/`aggressiveMatch` and
`_recursiveMatch`/`_aRecursiveMatch`, returning the answer with the groups as
written so far; `Call` is a call of `matchName` or `matchN`, which tries the
pattern and then, unanchored, the one with a leading `.*`. Patterns are given as
trees: the parsing of their text is left out. The properties compare with a
reference definition, `Matches` and `HeldBy`, which knows nothing of the search.

- `AnswerIsRight`: the answer is that of `Matches`; "never" is allowed only where a
  repetition without limit may take nothing (`MayNotEnd`). In the reference a
  repetition with a minimum does not match nothing, even if what it repeats does:
  so `_recursiveMatch` counts, and `(<a>*)+` does not match the empty name.
- `GroupsAreOfTheMatch`: every group that takes part in the match, nested or not,
  holds its piece of the first cut in the search's order. It says nothing of a group
  repeated no time, or missing from the last repetition around it: such a group
  keeps what a failed attempt or an earlier call wrote (see below).

## Runs

Passing runs:

| Run | Question | Bounds, and why they are enough |
|---|---|---|
| `LfuMixed` | Does the store keep to MaxSize, in order, evicting fairly, and implement `BoundedCache`? | 6 slots (quotas 2,1,1,1,1), 8 names of classes 1, 4, 5, so that each class can be below, at and above its quota when the store is full; frequencies to 2, so that equal and different frequencies meet; symmetric names |
| `LfuQuota` | Do the loops end with quotas that divide MaxSize? | one name of class 1 and one without a tag; all sizes 6..60 and 100, 1000, 2500, with an adjustment of each under every rounding; gains of up to 2 slots per class at 100 |
| `CsPolicies` | Does each policy keep its order and evict from its front, and is each store a bounded cache, while MaxSize changes? | 4 names, sizes 0 (no limit) to 3, so that the limit is set below, at and above what is stored; frequencies and random orders to 2, so that they tie |
| `FreshAll` | Does Data leave the store in time when all Data expires? | 4 names, periods 1, 2, 2, 3, room for 2: expiry before, with and after other entries; evictions of the entry the event waits for |
| `NameTries` | Does pruning leave exactly the living branches, do the lookups find what a search would, is the trie a map? | 7 names: a branch of three, one that leaves it half way, and a third; two payloads; every subset of the names as predicate |
| `FwPrefixes` | Are limits exact and does Data go where it is wanted, when one Data satisfies several entries and entries linger? | SmartFlooding without retransmission detection, a name and its extension, limit 2, pruning timeout 1, content store 1; 2 applications, 2 routes |
| `FwNacks` | Does anybody wait for nothing, get no answer, or have a retransmission swallowed, under any NACKs? | BestRoute, all codes at any time, 2 nonces, limit 2, lifetime 2: an Interest is retransmitted until a limit is exhausted, routes fail one after the other |
| `Consumers` | Is every segment answered or asked again, with clean samples, and no window stalled? | the 4 consumers, 3 segments, windows 0 (no limit), 1, 2 |
| `ApiFaces` | Are callbacks called once, whatever callbacks do, and is the timer always the first entry's? | 2 names, one a prefix of the other; lifetimes 1, 2; 3 calls of ExpressInterest, so that one joins, one precedes and one is expressed from a callback; each of them before or after Shutdown |
| `NameRegexes` | Do both searches answer what the pattern means and leave its groups? | 14 patterns with nested, repeated and optional groups and all anchors, four of them with repetitions, limited and not, of what may take nothing; all names of up to 3 of 2 components, two calls on one compiled pattern |

`LfuQuota`, `Consumers`, `ApiFaces`, `NameTries` and `NameRegexes` do not check
deadlock: their systems stop when the bounds on names, hits, calls or segments
are used up, the consumer is stopped, or the trie is cleared. The others do.

Runs that show a disagreement between the code and what the repository says of it:

| Run | What happens |
|---|---|
| `FwLookup` | The store holds `/a` and `/a/b/c`: an Interest for `/a/b` is answered with `/a`, although the lookup's comment promises a node with at least the key. |
| `ConsInFlight` | `ConsumerWindow` takes a segment out of `m_inFlight` at its timeout and again when its Data or NACK comes late: the "Current number of outstanding interests" is then too low and the window too wide. |

Other things seen in the code while modelling:

- Class-aware store. MaxSize 5: quotas 2,1,1,0,1; classes 4 and 5 pass a slot
  back and forth, the first insertion never returns (the guard meant to keep
  donors above 10 slots is unsigned, `lfu-policy-save-tag.h:180`). With one to
  three slots the quota of a class wraps to 2^32 - 1 and the store outgrows
  MaxSize. Data without a `DataSaveTag` is counted in no class: a full store of
  such Data finds nobody to evict and, because it makes room only at exactly
  MaxSize, grows for ever. For the same reason a store whose MaxSize is lowered
  below what it holds evicts nothing any more. After gains of three slots at
  MaxSize 100 the controller's loop can run for ever.
- Other stores. CacheProbability below 1 and a full store: the policy evicts for
  Data the probability then refuses, which drains the store
  (`multi-policy-container.h:65`). `Stats::Random` traces the removal of Data it
  never stored. Data without freshness that displaces the last entry with one:
  the cleaning event is gone, its time is not, and later Data that would expire
  before that time is over is never erased (`content-store-with-freshness.h:147`).
  `cs.rst` gives 100 as the default of MaxSize, the attribute has 1000.
- Forwarding. An entry given up clears its outgoing faces before anything returns
  their limits (`nacks.cc:139`); `LostByGivingUp` says that nothing else loses
  any. With a pruning timeout a duplicate adds a face to an entry that waits for
  nothing and the next Interest is suppressed on it; Data that satisfies a
  lingering entry again restarts its timeout, so that `EntryWaits` and
  `EntryEnds` are checked without one; and lingering entries are traced as timed
  out when they are removed. A local producer answers inside the loop of
  `DoPropagateInterest` (`ndn-forwarding-strategy.cc:565`): the limits of the
  routes that follow are borrowed on an erased entry and never returned. Removing
  a face that is a route deletes its outgoing records without returning limits.
- Trie. `find_if` starts with the root's payload without asking the predicate
  (`trie.h:360`), so with a pruning timeout a satisfied entry for `/` is found
  for ever; `clear` leaves the payload of the root. `deepest_prefix_match` of `/` in
  an empty trie calls the policy with the null result of `find`: the comment there
  says "should be something" (`trie-with-policy.h:210`), and the guard above it
  never fires, as `lastItem` is at least the root. An Interest for `/` at a node
  with an empty content store does this (`content-store-impl.h:256`).
- Consumers and interfaces. `ConsumerBatches` takes retransmissions for samples
  after `ClearSent`. An Interest that joins a pending entry of `ApiFace` times out
  with that entry, whatever its own lifetime (`ndn-interest.h:117`). A callback
  that always expresses its own name again joins the list being walked, and the
  loop never ends. `Shutdown` leaves the timer with a freed entry, and no call
  asks whether the face is up (`ndn-api-face.cc:101-172`): after PyNDN's `disconnect`
  an `expressInterest` is accepted and can only time out, and a filter puts a face
  the node has removed into its FIB. `ClearInterestFilter` leaves the FIB entry.
- Patterns. A repetition without limit of something that can match nothing may
  never end (`nre.py:482`), and `(<a>*)+` does not match nothing. A group that is
  repeated no time is not emptied (`nre.py:447-453`, `494-496`): after
  `^(<a>)*<a>$` has matched `/a` with `matchN`, the group `\1` is `a`, left by the
  attempt in which the repetition took everything; it should be empty.

## Fairness

- `LfuSaveTag!FairSpec`: weak fairness of `InsertPass`, `FinishInsert` and
  `AdjustPass`. A call that has begun keeps executing; nothing forces a call.
- `Forwarder!FairSpec`: weak fairness of `Tick` and `CleanExpired`: the simulator
  reaches the time of every event it has scheduled, and both stay enabled until
  taken. No packet is assumed to arrive.
- `Consumer!FairSpec`: weak fairness of sending and of `CheckRetxTimeout`, which are
  scheduled events (`MaxRTO` bounds every timeout), and strong fairness of the
  answer to each segment: one that is asked for again and again is answered in the
  end. `EventuallyAnswered` is about the consumer, not about the network: that it
  does keep asking, and that its window lets it.
- `ApiFace!FairSpec`: weak fairness of the loop over callbacks, of the timer, of
  the events put off and of the clock. Neither Data nor any call of the
  application is assumed.

## Proofs

TLC checks the instances above; the theorems hold for all values of the constants
under the named assumptions of the modules, and their own.

**`LfuSaveTagProofs`**, about the slots of the class-aware store:

- `TypeCorrect`: `Spec => []TypeOK`.
- `SlotsConserved`: `Spec => []AdjustConserves`. However long the controller's
  loop runs, the slots add up to MaxSize, and the four stored shares never exceed it.
- `CapacityFromQuotas`: with tagged Data, `Spec /\ []QuotaExact => []Capacity`.
- `QuotasExact`, `CapacityKept`: if every size is `Roomy`, `Spec => []QuotaExact`,
  hence, with tagged Data, `[]Capacity`. Without adjustments six slots are room
  enough; with them the third class's share must pay for `MaxAdjust` of the largest
  adjustments. Both repair loops do run in such stores: TLC's store of 100 slots,
  where an adjustment can leave the fifth class with less than nothing, is one.
- `InsertRepairsAtOnce`: in such a store, unless it has 40 slots, the loop of an
  insertion ends after one turn. `AdjustmentsSettle`: from 41 slots up, if the large
  classes also leave the small ones a slot each (`Spare`), every turn of the loop of
  an adjustment that does not end it lowers `Lack`, a natural number. What is left
  for `RepairReturns` to assume there is that the turns are taken.

`TypeOK` alone is not inductive: `quota` stays in its word only because the shares
lie in `0 .. max_size`, and these do only because slots are conserved while the
loop runs. `Inductive` is the conjunction of the three; `PassInt`/`PassWord` carry
it through a turn of the loop, `RefillInt`/`RefillWord` through one class.
`Capacity` is a counting argument: the classes partition the entries
(`ClassesCoverStore`), so if every class were below its quota the store would hold
fewer than the quotas' total, which is `max_size`; hence in a full store some class
is at its quota, has an entry, and `EvictedPosition` finds it (`RoomCanBeMade`). It
needs tagged Data and exact quotas, and is false without either.

`QuotaExact` is not inductive, as nothing it says holds while a loop runs. `Divided`
says what the loops start from. An insertion's vector is `Mendable`: at most the
fourth class has no slot, and its donor has one to spare, so that no element is
decremented below zero and wraps (`PassMends`). An adjustment's vector may be negative
in the two small classes; what those lack (`Lack`) is a debt of the large ones, and
a turn that takes a slot from a large class lowers the debt by one (`MovedKeeps`),
so that share minus debt never falls while the loop runs, however long. At its end
the debt is zero, and a slot the fourth class loses to rounding is in the remainder,
the fifth's (`AdjustMendable`). `Floor` counts what one adjustment can cost a large
class at most; when it runs out (`Roomy` is false) a large class can need repair, and
an element can wrap: with 14 slots, two adjustments by one slot and unlucky rounding
lead to the vector `4, 0, 0, 0, 10`, whose second and third class take slots that the
fourth does not have. In a store without `Spare` the small classes can have less than
two slots together, which they then pass to each other for ever.

The second part of the module is about the policy's multiset:

- `IndexOrdered`: `Spec => []PolicyOrder`. `VictimsJustified`: `Spec =>
  VictimIsLeastUsed`. `QuotasCap`: `Spec => QuotaCaps`. None of them assumes anything
  of the Data or of the adjustments.
- `CacheFromQuotas`: with tagged Data, `Spec /\ []QuotaExact =>
  ImplementsBoundedCache`. `CacheImplemented`: if every size is `Roomy` too, `Spec =>
  ImplementsBoundedCache`.

`OrderKept` adds to `PolicyOrder` that the name being inserted is not in the index
and has not been used. `InsertOrdered` and `RemoveOrdered` say what a reinsertion
after equal keys and an eviction do to an ordered list. `CachedSize` ties the length
of the list to the number of names, for the refinement. `QuotasCap` counts: the
repair loop only ends with a slot for every class (`Repaired`), so a class that is
at its quota has an entry to give up (`Members`), and an arrival of it in a full
store displaces one.

**`FreshStoreProofs`**, about any periods and any size.

- `TypeCorrect`, `PendingOnTime`; and, when all Data expires (`AllExpire`),
  `NothingStale` (`[]NoStaleData`) and `EventKept` (`[]CleaningScheduled`).

`Timed` says that the remembered time is not after any expiry and that a pending
event runs at it. It is inductive in every store, so Data that expires is never
stale beside a pending event (`PendingOnTime`): the code can only go wrong by losing
the event. `Inductive` adds that an empty store remembers no time and that otherwise
the event is pending. Without `AllExpire` that is false: with no entry left to
expire `RescheduleCleaning` removes the event, but not the time it remembers.
`Typed` needs a lower bound on the times, for `RescheduleCleaning` to find a first
one. `Keep`, the selection of the names that stay, is a recursive function, because
nothing is known to the prover of `SelectSeq`; what it returns is proved by an
induction written with sets (`SetInduction`).

**`NameTrieProofs`**, about any tree of names.

- `TypeCorrect`, `TreeKept` (`[]TreeOfEntries`), `LookupsRight` (`[]LookupsAgree`) and
  `MapImplemented` (`Spec => ImplementsNameMap`).

The invariant is `TypeOK` and that the nodes are the paths to the stored names
(`Tree`); a lookup that walks nodes then ends where a search of the stored names
ends, and each operation changes the map as `NameMap` allows. Paths
are finite: every part of one has a first and a last name (`EndsOfPath`). A lookup
that reaches the node it names finds a payload above or below it unless that node is
the root of an empty trie (`DeepestMatch`), which is why that lookup alone is
undefined.

**`ForwarderProofs`**, about a node with any faces, names, strategy and limits.

- `NobodyStranded`: without a pruning timeout, `Spec => []EntryWaits`.
- `TypeCorrect`: `Spec => []TypeOK`, with the limits within their window.
- `LossesTraced`: `Spec => LostByGivingUp`. Credit of a limit is lost by giving an
  entry up and in no other way.
- `LimitsExact`: if no neighbour sends NACKs, `Spec => []LimitAccounting`.
- `RetransmissionsGoOut`: with `DetectRetransmissions`, `Spec =>
  RetransmissionGoesOut`.
- `OnlyWantedData`, `NobodyDropped`: `Spec => DataIsWanted`, and with NACKs `Spec =>
  FaceAnswered`, if `CacheExact`: there is no content store, or no name lies strictly
  between two others. Without it both are false, because the store's lookup returns
  Data of a shorter name (`FwLookup`).

`Table` is what is known of every entry's record, `AllWait` that each waits for a
route that has not refused. For the limits the invariant is `Sound`: `Fits` (finitely
many well-formed entries), `Window` (no counter above its limit), `Covered` (no counter
below what the table waits for on its face) and `Typed`. `TypeOK` needs `Covered`,
because `ReturnLimit` subtracts without asking: that a counter never goes below zero
is a fact about the whole table. The argument is one of balance: every handler
either changes the counter of a face and what the table waits for there by the same
amount (`Balanced`), or is one of the two that give an entry up (`GivesUp`), whose
loss is what that entry still waited for. `LostByGivingUp` reads this off a step,
and `LimitAccounting` follows when no route can refuse, as then no entry is given up
that was sent anywhere (`AllPlain`). The sums over the table are
`SumFunctionOnSet` of the community modules, whose laws `CollectionLemmas` proves.

**`ContentStoreProofs`**, about any names, policies, sizes and bounds.

- `OrderKept` (`[]PolicyOrder`), `VictimsFirst` (`VictimIsFirst`), `LossesTraced`
  (`RemovalsTraced`) and `CacheImplemented` (`Spec => ImplementsBoundedCache`).

`PolicyOrder` compares ages, which are read from the history; it is inductive
together with `History` (every entry is in the history, once) and `RanksOfLists` (the
two list policies give no ranks). MaxSize may be lowered below what is stored: a
full store is one with *at least* MaxSize entries here, so that an arrival still
costs exactly one.

**`ConsumerProofs`**, about the four consumers, any number of segments, any windows.

- `TypeCorrect`, `NothingLostInFlight` (`[]InFlightTimed`), `NoSegmentForgotten`
  (`[]SegmentsTracked`) and `SamplesClean` (`[]CleanSamples`).

The invariant speaks of a record `d`, not of the variable, because handlers nest in
`SendPacket`: `Good(d)` must hold between the sending and the answer that comes before
it returns. It adds to the properties what they silently rest on: no segment is timed
twice; a segment whose turn is to come was never sent (`Unsent`), so that the next one
is not timed already; and the history has an entry for every segment sent and not
answered, fresh only if it was sent once (`Sampled`). `Expected(d, p)` says that an
answer can only come for a segment that is still asked for. That is what makes a late
NACK harmless, and it is why the PIT (`pending`) is part of the model.

**`ApiFaceProofs`**, about any names, lifetimes and number of calls.

- `TypeCorrect`, `TimerRight` (`[]TimerIsFirst`), `NoCallForgotten`
  (`[]RequestsTracked`) and `DataAnswered` (`Spec => DataAnswersAll`).

`TimerIsFirst` speaks of the moments between events, and is not inductive: a callback
may express an Interest while its entry is timing out. `Timed` says what holds
meanwhile: the entry timing out is still the first, its time is 0, so that no insert
displaces it, and no event is set. `Booked` gives each callback its place, an entry and
a position there; those that do not wait are just those the loop has called
(`Called`), so that a callback appended behind the loop's position is still reached.
`Kept`, that every waiting call has a place, survives Shutdown because the calls that
wait end there (`CallsCleared`), and the calls made on a face that is down keep it as
any others do; the timer that Shutdown leaves is the one exception in `TimerIsFirst`,
until the next entry replaces it. The lemmas on `Inserted` and `RemoveFirst` say when
the first of the order changes, on which the rescheduling depends.

**`CollectionLemmas`** holds what these proofs share and the library lacks: sums of
a function over a finite set, and what removing, inserting, appending and dropping do
to the elements and the order (`Ahead`) of a list without repetitions. Inductions are
written with sets (`SetInduction`), since the library's induction theorems take an
operator as their parameter.

Only model-checked:

- Every liveness property (`RepairReturns`, `EntryEnds`, `EventuallyAnswered`,
  `EventuallyEnds`): liveness under fairness is beyond the prover.
- `NameRegex`, whose search is recursive in operators.
- `QuotaExact` of stores that are not `Roomy`: whether the loops end on exact quotas
  depends on the numbers there. TLC checks the adjusted stores of 6 to 22 slots.

## Not modelled, and why

- No protocol state: packet encodings and the text form of names, helpers, tracers,
  plugins, topology readers, examples; generated bindings and vendored code
  (`bindings/modulegen__*`, `docs/sphinx-contrib`, the ccnb decoder).
- Numbers that are real: rate limits leak in real time, the RTT estimate smooths
  samples, the controller filters hit counts. The last is replaced by any bounded
  gain, and of the estimator only which samples it takes is kept.
- Limits per FIB entry call the same hooks with another owner.
- A local producer that answers inside the loop of `DoPropagateInterest`: the
  handler would have to be cut into a step per route. Its effect on the limits is
  described above.
- `set_max_size` of a running `LfuSaveTag`: its ratios are not rescaled. What it
  does to a full store is described above; the other policies' is modelled.
- Adding and removing routes, and `Invalidate` of FIB entries: done when routes are
  computed, before packets flow; the index it leaves stale is read only by an
  example.
- Bounded PITs (persistent, serialized size): configurations of the PIT with the
  policies of `ContentStore`; the random and LRU ones evict as there.
- `PyNDN` outside the regular expressions: wrappers of C++ objects. The parsing of
  patterns is left out, and so are functions that nothing calls.
