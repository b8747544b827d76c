----------------------------- MODULE FreshStore -----------------------------
(***************************************************************************)
(* The content store ndn::cs::Freshness::Lru: least recently used entries  *)
(* make room, and Data with a freshness period is erased when the period   *)
(* ends, by a simulator event the store reschedules as entries come and    *)
(* go.  Times are kept as the ticks left from now.                         *)
(***************************************************************************)
EXTENDS Integers, SequencesExt

CONSTANTS
    Names,          \* the Data names
    FreshnessOf,    \* the freshness period of each name's Data, 0 for none
    MaxSize         \* the entries the store may hold

ASSUME FreshAssumption == FreshnessOf \in [Names -> Nat] /\ MaxSize \in Nat \ {0}

VARIABLES
    order,      \* the policy container: cached names, least recently used first
    expires,    \* ticks until the Data of each name expires; Past when overdue
    scheduled,  \* ticks until m_scheduledCleaningTime; None when it is zero
    event       \* ticks until m_cleanEvent runs; None when none is pending

vars == <<order, expires, scheduled, event>>

Past == -1      \* a time already gone by
None == -2      \* no time

Cached == ToSet(order)

\* The names of s in T, in their order.  (SelectSeq, written out as a function
\* so that FreshStoreProofs can say what it holds.)
Keep(s, T) ==
    LET kept[i \in 0 .. Len(s)] ==
          IF i = 0 THEN <<>>
          ELSE IF s[i] \in T THEN Append(kept[i - 1], s[i]) ELSE kept[i - 1]
    IN  kept[Len(s)]

\* The freshness policy holds only the entries with a freshness period.
Fresh(s) == {n \in ToSet(s) : FreshnessOf[n] # 0}

\* The expiry time of the first entry of the freshness policy.
NextStateTime(s, times) == Min({times[n] : n \in Fresh(s)})

\* A mutant of RescheduleCleaning: an entry that expires sooner is not noticed.
KeepSchedule(s, times, was, pending) ==
    IF Fresh(s) # {} /\ was = None
    THEN scheduled' = NextStateTime(s, times) /\ event' = scheduled'
    ELSE scheduled' = was /\ event' = pending

(***************************************************************************)
(* RescheduleCleaning for the entries s, when m_scheduledCleaningTime is   *)
(* was and the event is pending.  With no entry left to expire the event   *)
(* is removed, but m_scheduledCleaningTime keeps its value.                *)
(***************************************************************************)
RescheduleCleaning(s, times, was, pending) ==
    IF Fresh(s) = {} THEN scheduled' = was /\ event' = None
    ELSE IF was = None \/ was > NextStateTime(s, times)
    THEN scheduled' = NextStateTime(s, times) /\ event' = scheduled'
    ELSE scheduled' = was /\ event' = pending

Init ==
    /\ order = <<>>
    /\ expires = [n \in Names |-> Past]
    /\ scheduled = None
    /\ event = None

\* A mutant of Add: room is made one entry too late.
AddLate(n) ==
    /\ n \notin Cached
    /\ order' = Append(IF Len(order) > MaxSize THEN Tail(order) ELSE order, n)
    /\ expires' = [expires EXCEPT ![n] = FreshnessOf[n]]
    /\ RescheduleCleaning(order', expires', scheduled, event)

\* Add of a name that is not stored: the least recently used entry makes room.
Add(n) ==
    /\ n \notin Cached
    /\ order' = Append(IF Len(order) >= MaxSize THEN Tail(order) ELSE order, n)
    /\ expires' = [expires EXCEPT ![n] = FreshnessOf[n]]
    /\ RescheduleCleaning(order', expires', scheduled, event)

\* Lookup finds n: it becomes the most recently used entry.
Lookup(n) ==
    /\ n \in Cached
    /\ order' = Append(Keep(order, Names \ {n}), n)
    /\ UNCHANGED <<expires, scheduled, event>>

\* The names whose Data may stay.
Unexpired == {n \in Names : FreshnessOf[n] = 0 \/ expires[n] > 0}

\* A mutant of CleanExpired: m_scheduledCleaningTime is not reset.
CleanWithoutReset ==
    /\ event = 0
    /\ order' = Keep(order, Unexpired)
    /\ RescheduleCleaning(order', expires, scheduled, None)
    /\ UNCHANGED expires

\* The event runs: everything whose time has come is erased.
CleanExpired ==
    /\ event = 0
    /\ order' = Keep(order, Unexpired)
    /\ RescheduleCleaning(order', expires, None, None)
    /\ UNCHANGED expires

\* A tick earlier, for times that stay in the past once they are there.
Sooner(time) == IF time = None \/ time = Past THEN time ELSE time - 1

\* Time passes, but not beyond an event that is due.
Tick ==
    /\ event # 0
    /\ expires' = [n \in Names |-> Sooner(expires[n])]
    /\ scheduled' = Sooner(scheduled)
    /\ event' = Sooner(event)
    /\ UNCHANGED order

Next == CleanExpired \/ Tick \/ \E n \in Names : Add(n) \/ Lookup(n)

Spec == Init /\ [][Next]_vars

(***************************************************************************)
(* Properties.                                                             *)
(***************************************************************************)

\* The shape of the state; the store keeps to its size and holds nothing twice.
TypeOK ==
    /\ order \in Seq(Names) /\ Len(order) <= MaxSize
    /\ \A j, k \in DOMAIN order : j # k => order[j] # order[k]
    /\ expires \in [Names -> Int]
    /\ scheduled \in Int /\ event \in Int

\* No Data stays in the store beyond its freshness period, whatever is added,
\* evicted and looked up in between.
NoStaleData == \A n \in Fresh(order) : expires[n] >= 0

\* While an entry can expire, the cleaning event is pending and not later than
\* the first expiry; the time remembered for it is the time it runs.
CleaningScheduled ==
    Fresh(order) # {} => event = scheduled /\ event <= NextStateTime(order, expires)
=============================================================================
