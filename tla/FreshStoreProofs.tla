-------------------------- MODULE FreshStoreProofs --------------------------
(***************************************************************************)
(* Theorems about FreshStore for every set of names, every period and      *)
(* every size; those about expiry, when all Data has a freshness period.   *)
(***************************************************************************)
EXTENDS FreshStore, CollectionLemmas

(***************************************************************************)
(* What Keep holds.                                                        *)
(***************************************************************************)

\* One turn of the function inside Keep, and a function that takes n turns.
Turn(f, s, T, i) ==
    IF i = 0 THEN <<>>
    ELSE IF s[i] \in T THEN Append(f[i - 1], s[i]) ELSE f[i - 1]
Turns(f, s, T, n) == f = [i \in 0 .. n |-> Turn(f, s, T, i)]

LEMMA TurnsExist ==
  ASSUME NEW S, NEW s \in Seq(S), NEW T
  PROVE  \A n \in Nat : n <= Len(s) => \E f : Turns(f, s, T, n)
<1> DEFINE P == {n \in Nat : n <= Len(s) => \E f : Turns(f, s, T, n)}
<1>1. 0 \in P
  <2>1. Turns([i \in 0 .. 0 |-> <<>>], s, T, 0)
    BY DEF Turns, Turn
  <2> QED
    BY <2>1
<1>2. ASSUME NEW n \in P PROVE n + 1 \in P
  <2> SUFFICES ASSUME n + 1 <= Len(s) PROVE \E f : Turns(f, s, T, n + 1)
    OBVIOUS
  <2>1. PICK f : Turns(f, s, T, n)
    BY LenProperties
  <2> DEFINE g == [i \in 0 .. n + 1 |-> IF i <= n THEN f[i] ELSE Turn(f, s, T, i)]
  <2>2. \A i \in 0 .. n : f[i] = Turn(f, s, T, i)
    BY <2>1 DEF Turns
  <2>3. \A i \in 0 .. n + 1 : Turn(g, s, T, i) = Turn(f, s, T, i)
    BY DEF Turn
  <2>4. \A i \in 0 .. n + 1 : g[i] = Turn(g, s, T, i)
    BY <2>2, <2>3
  <2>5. g = [i \in 0 .. n + 1 |-> g[i]]
    OBVIOUS
  <2> HIDE DEF g
  <2> QED
    BY <2>4, <2>5 DEF Turns
<1> HIDE DEF P
<1>3. P = Nat
  <2>1. P \in SUBSET Nat
    BY DEF P
  <2> QED
    BY <1>1, <1>2, <2>1, SetInduction
<1> QED
  BY <1>3 DEF P

LEMMA KeepTurns ==
  ASSUME NEW S, NEW s \in Seq(S), NEW T
  PROVE  \E f : Turns(f, s, T, Len(s)) /\ Keep(s, T) = f[Len(s)]
<1> DEFINE kept == CHOOSE f : Turns(f, s, T, Len(s))
<1>1. Keep(s, T) = kept[Len(s)]
  BY Zenon DEF Keep, Turns, Turn
<1>2. Turns(kept, s, T, Len(s))
  BY TurnsExist, LenProperties
<1> QED
  BY <1>1, <1>2

\* Keep leaves the names outside T out, and none other; it repeats no name the
\* sequence does not repeat, and is shorter if it leaves one out.
Good(r, s, T, i) ==
    /\ Len(r) <= i
    /\ \A x : (\E k \in 1 .. Len(r) : r[k] = x) <=> x \in T /\ \E k \in 1 .. i : s[k] = x
    /\ (\A j, k \in 1 .. Len(s) : j # k => s[j] # s[k])
         => \A j, k \in 1 .. Len(r) : j # k => r[j] # r[k]
    /\ (\E k \in 1 .. i : s[k] \notin T) => Len(r) < i

LEMMA GoodTurn ==
  ASSUME NEW S, NEW s \in Seq(S), NEW T, NEW i \in Nat, i + 1 <= Len(s),
         NEW r \in Seq(S), Good(r, s, T, i)
  PROVE  LET t == IF s[i + 1] \in T THEN Append(r, s[i + 1]) ELSE r
         IN  t \in Seq(S) /\ Good(t, s, T, i + 1)
<1>0. Len(s) \in Nat /\ Len(r) \in Nat /\ i + 1 \in 1 .. Len(s) /\ s[i + 1] \in S
  BY LenProperties, ElementOfSeq
<1>1. CASE s[i + 1] \notin T
  <2>1. \A x : x \in T => ((\E k \in 1 .. i + 1 : s[k] = x) <=> \E k \in 1 .. i : s[k] = x)
    BY <1>0, <1>1
  <2>2. Len(r) <= i
    BY DEF Good
  <2> QED
    BY <1>0, <1>1, <2>1, <2>2 DEF Good
<1>2. CASE s[i + 1] \in T
  <2> DEFINE t == Append(r, s[i + 1])
  <2>1. /\ t \in Seq(S) /\ Len(t) = Len(r) + 1
        /\ \A k \in 1 .. Len(r) : t[k] = r[k]
        /\ t[Len(r) + 1] = s[i + 1]
    BY <1>0, AppendProperties
  <2> HIDE DEF t
  <2>2. \A x : (\E k \in 1 .. Len(t) : t[k] = x) <=> x = s[i + 1] \/ \E k \in 1 .. Len(r) : r[k] = x
    <3>1. 1 .. Len(t) = 1 .. Len(r) \cup {Len(r) + 1}
      BY <1>0, <2>1
    <3> QED
      BY <2>1, <3>1, Zenon
  <2>3. \A x : (\E k \in 1 .. i + 1 : s[k] = x) <=> x = s[i + 1] \/ \E k \in 1 .. i : s[k] = x
    <3>1. 1 .. i + 1 = 1 .. i \cup {i + 1}
      OBVIOUS
    <3> QED
      BY <3>1, Zenon
  <2>4. \A x : (\E k \in 1 .. Len(t) : t[k] = x) <=> x \in T /\ \E k \in 1 .. i + 1 : s[k] = x
    BY <1>2, <2>2, <2>3 DEF Good
  <2>5. ASSUME \A j, k \in 1 .. Len(s) : j # k => s[j] # s[k]
        PROVE  \A j, k \in 1 .. Len(t) : j # k => t[j] # t[k]
    <3>1. \A k \in 1 .. Len(r) : r[k] # s[i + 1]
      <4>1. \A k \in 1 .. i : s[k] # s[i + 1]
        BY <1>0, <2>5
      <4> QED
        BY <4>1 DEF Good
    <3>2. \A j, k \in 1 .. Len(r) : j # k => r[j] # r[k]
      BY <2>5 DEF Good
    <3> QED
      BY <1>0, <2>1, <3>1, <3>2
  <2>6. Len(t) <= i + 1 /\ ((\E k \in 1 .. i + 1 : s[k] \notin T) => Len(t) < i + 1)
    <3>1. (\E k \in 1 .. i + 1 : s[k] \notin T) => \E k \in 1 .. i : s[k] \notin T
      BY <1>0, <1>2
    <3>2. Len(r) <= i /\ ((\E k \in 1 .. i : s[k] \notin T) => Len(r) < i)
      BY DEF Good
    <3> QED
      BY <1>0, <2>1, <3>1, <3>2
  <2>7. Good(t, s, T, i + 1)
    BY <2>4, <2>5, <2>6 DEF Good
  <2> QED
    BY <1>2, <2>1, <2>7 DEF t
<1> QED
  BY <1>1, <1>2

LEMMA KeepGood ==
  ASSUME NEW S, NEW s \in Seq(S), NEW T
  PROVE  Keep(s, T) \in Seq(S) /\ Good(Keep(s, T), s, T, Len(s))
<1>0. Len(s) \in Nat
  BY LenProperties
<1>1. PICK f : Turns(f, s, T, Len(s)) /\ Keep(s, T) = f[Len(s)]
  BY KeepTurns
<1> DEFINE P == {i \in Nat : i <= Len(s) => f[i] \in Seq(S) /\ Good(f[i], s, T, i)}
<1>2. \A i \in 0 .. Len(s) : f[i] = Turn(f, s, T, i)
  BY <1>1 DEF Turns
<1>3. 0 \in P
  <2>1. f[0] = <<>>
    BY <1>0, <1>2 DEF Turn
  <2>2. <<>> \in Seq(S) /\ Good(<<>>, s, T, 0)
    BY DEF Good
  <2> QED
    BY <2>1, <2>2
<1>4. ASSUME NEW i \in P PROVE i + 1 \in P
  <2> SUFFICES ASSUME i + 1 <= Len(s)
               PROVE  f[i + 1] \in Seq(S) /\ Good(f[i + 1], s, T, i + 1)
    OBVIOUS
  <2>1. i \in Nat /\ f[i] \in Seq(S) /\ Good(f[i], s, T, i)
    BY <1>0
  <2>2. f[i + 1] = IF s[i + 1] \in T THEN Append(f[i], s[i + 1]) ELSE f[i]
    <3>1. i + 1 \in 0 .. Len(s) /\ i + 1 # 0 /\ (i + 1) - 1 = i
      BY <1>0, <2>1
    <3> QED
      BY <1>2, <3>1 DEF Turn
  <2> QED
    BY <2>1, <2>2, GoodTurn
<1> HIDE DEF P
<1>5. P = Nat
  <2>1. P \in SUBSET Nat
    BY DEF P
  <2> QED
    BY <1>3, <1>4, <2>1, SetInduction
<1> QED
  BY <1>0, <1>1, <1>5 DEF P
(***************************************************************************)
(* The names a sequence holds when it changes.                             *)
(***************************************************************************)

Distinct(s) == \A j, k \in DOMAIN s : j # k => s[j] # s[k]

LEMMA KeepNames ==
  ASSUME NEW s \in Seq(Names), NEW T
  PROVE  /\ Keep(s, T) \in Seq(Names)
         /\ ToSet(Keep(s, T)) = ToSet(s) \cap T
         /\ Len(Keep(s, T)) <= Len(s)
         /\ ~ (ToSet(s) \subseteq T) => Len(Keep(s, T)) < Len(s)
         /\ Distinct(s) => Distinct(Keep(s, T))
<1> DEFINE r == Keep(s, T)
<1>1. r \in Seq(Names) /\ Good(r, s, T, Len(s))
  BY KeepGood
<1> HIDE DEF r
<1>2. /\ Len(s) \in Nat /\ DOMAIN s = 1 .. Len(s)
      /\ Len(r) \in Nat /\ DOMAIN r = 1 .. Len(r)
  BY <1>1, LenProperties
<1>3. \A x : x \in ToSet(s) <=> \E k \in 1 .. Len(s) : s[k] = x
  BY <1>2 DEF ToSet
<1>4. \A x : x \in ToSet(r) <=> \E k \in 1 .. Len(r) : r[k] = x
  BY <1>2 DEF ToSet
<1>5. ToSet(r) = ToSet(s) \cap T
  BY <1>1, <1>3, <1>4 DEF Good
<1>6. Len(r) <= Len(s) /\ (~ (ToSet(s) \subseteq T) => Len(r) < Len(s))
  BY <1>1, <1>3 DEF Good
<1>7. Distinct(s) => Distinct(r)
  BY <1>1, <1>2 DEF Good, Distinct
<1> QED
  BY <1>1, <1>5, <1>6, <1>7 DEF r

LEMMA DistinctInjective == \A s : Distinct(s) <=> IsInjective(s)
BY DEF Distinct, IsInjective

LEMMA AppendNames ==
  ASSUME NEW s \in Seq(Names), NEW n \in Names, Distinct(s), n \notin ToSet(s)
  PROVE  /\ Append(s, n) \in Seq(Names) /\ Distinct(Append(s, n))
         /\ ToSet(Append(s, n)) = ToSet(s) \cup {n}
         /\ Len(Append(s, n)) = Len(s) + 1
BY AppendKeeps, DistinctInjective

LEMMA TailNames ==
  ASSUME NEW s \in Seq(Names), Len(s) > 0, Distinct(s)
  PROVE  /\ Tail(s) \in Seq(Names) /\ Distinct(Tail(s))
         /\ ToSet(Tail(s)) \subseteq ToSet(s)
         /\ Len(Tail(s)) = Len(s) - 1
<1>1. s # <<>>
  OBVIOUS
<1> QED
  BY <1>1, TailKeeps, DistinctInjective

(***************************************************************************)
(* The shape of the state, whether the Data expires or not.                *)
(***************************************************************************)

\* TypeOK is inductive with this: a time in the past does not move further away,
\* so that RescheduleCleaning finds a first one.
Typed == TypeOK /\ \A n \in Names : expires[n] >= Past

\* The names that can expire are names.
LEMMA FreshNames ==
  ASSUME NEW s \in Seq(Names)
  PROVE  Fresh(s) \subseteq ToSet(s) /\ Fresh(s) \subseteq Names
BY ElementOfSeq, LenProperties DEF Fresh, ToSet

\* The first expiry is one of the expiries, and no other comes before it.
LEMMA FirstExpiry ==
  ASSUME NEW s \in Seq(Names), NEW times \in [Names -> Int],
         \A n \in Names : times[n] >= Past, Fresh(s) # {}
  PROVE  /\ NextStateTime(s, times) \in Int
         /\ \E n \in Fresh(s) : NextStateTime(s, times) = times[n]
         /\ \A n \in Fresh(s) : NextStateTime(s, times) <= times[n]
<1> DEFINE P == {times[n] : n \in Fresh(s)}
           Q == {p + 1 : p \in P}
<1>1. P # {} /\ \A p \in P : p \in Int /\ p >= -1
  BY FreshNames DEF Past
<1>2. Min(P) \in P /\ \A y \in P : Min(P) <= y
  <2> HIDE DEF P
  <2>1. Q \in SUBSET Nat /\ Q # {}
    BY <1>1
  <2>2. PICK x \in Q : \A y \in Q : x <= y
    BY <2>1, Least
  <2>3. PICK p \in P : x = p + 1
    OBVIOUS
  <2>4. \A y \in P : p + 1 <= y + 1
    BY <2>2, <2>3
  <2>5. \A y \in P : p <= y
    BY <1>1, <2>4
  <2> QED
    BY <2>5 DEF Min
<1> QED
  BY <1>1, <1>2 DEF NextStateTime

\* RescheduleCleaning leaves two times.
LEMMA RescheduledTimes ==
  ASSUME NEW s \in Seq(Names), NEW times \in [Names -> Int],
         \A n \in Names : times[n] >= Past,
         NEW was \in Int, NEW pending \in Int, RescheduleCleaning(s, times, was, pending)
  PROVE  scheduled' \in Int /\ event' \in Int
<1>1. None \in Int
  BY DEF None
<1> QED
  BY <1>1, FirstExpiry DEF RescheduleCleaning

LEMMA TypedInit == Init => Typed
<1> SUFFICES ASSUME Init PROVE Typed
  OBVIOUS
<1>1. order = <<>> /\ DOMAIN order = {} /\ Len(order) = 0 /\ order \in Seq(Names)
  BY DEF Init
<1>2. /\ expires = [n \in Names |-> Past] /\ Past \in Int /\ Past >= Past
      /\ scheduled = None /\ event = None /\ None \in Int
  BY DEF Init, Past, None
<1> QED
  BY <1>1, <1>2, FreshAssumption DEF Typed, TypeOK

\* The new name is stored, beside names that were.
LEMMA AddTyped ==
  ASSUME Typed, NEW n \in Names, Add(n)
  PROVE  Typed' /\ n \in Cached' /\ Cached' \subseteq Cached \cup {n}
<1> DEFINE rest == IF Len(order) >= MaxSize THEN Tail(order) ELSE order
<1>0. /\ order \in Seq(Names) /\ Len(order) \in Nat /\ Len(order) <= MaxSize
      /\ Distinct(order) /\ expires \in [Names -> Int]
      /\ scheduled \in Int /\ event \in Int
      /\ MaxSize \in Nat /\ MaxSize # 0 /\ FreshnessOf \in [Names -> Nat]
  BY LenProperties, FreshAssumption DEF Typed, TypeOK, Distinct
<1>1. /\ rest \in Seq(Names) /\ Len(rest) < MaxSize /\ Distinct(rest)
      /\ ToSet(rest) \subseteq Cached
  <2>1. CASE Len(order) >= MaxSize
    BY <1>0, <2>1, TailNames DEF Cached
  <2>2. CASE ~ (Len(order) >= MaxSize)
    BY <1>0, <2>2 DEF Cached
  <2> QED
    BY <2>1, <2>2
<1>2. /\ n \notin Cached /\ order' = Append(rest, n)
      /\ expires' = [expires EXCEPT ![n] = FreshnessOf[n]]
      /\ RescheduleCleaning(order', expires', scheduled, event)
  BY DEF Add
<1> HIDE DEF rest
<1>3. /\ order' \in Seq(Names) /\ Len(order') <= MaxSize /\ Distinct(order')
      /\ Cached' = ToSet(rest) \cup {n}
  <2>1. Len(rest) \in Nat
    BY <1>1, LenProperties
  <2> QED
    BY <1>0, <1>1, <1>2, <2>1, AppendNames DEF Cached
<1>4. expires' \in [Names -> Int] /\ \A m \in Names : expires'[m] >= Past
  BY <1>0, <1>2 DEF Typed, Past
<1>5. scheduled' \in Int /\ event' \in Int
  BY <1>0, <1>2, <1>3, <1>4, RescheduledTimes
<1> QED
  BY <1>1, <1>3, <1>4, <1>5 DEF Typed, TypeOK, Distinct

LEMMA LookupTyped ==
  ASSUME Typed, NEW n \in Names, Lookup(n)
  PROVE  Typed' /\ Cached' = Cached
<1> DEFINE rest == Keep(order, Names \ {n})
<1>0. /\ order \in Seq(Names) /\ Len(order) \in Nat /\ Len(order) <= MaxSize /\ Distinct(order)
      /\ Cached \subseteq Names /\ MaxSize \in Nat
  BY ElementOfSeq, LenProperties, FreshAssumption DEF Typed, TypeOK, Distinct, Cached, ToSet
<1>1. n \in Cached /\ order' = Append(rest, n) /\ UNCHANGED <<expires, scheduled, event>>
  BY DEF Lookup
<1>2. /\ rest \in Seq(Names) /\ Len(rest) < Len(order) /\ Distinct(rest)
      /\ ToSet(rest) = Cached \ {n}
  <2>1. ~ (ToSet(order) \subseteq Names \ {n})
    BY <1>1 DEF Cached
  <2>2. ToSet(rest) = ToSet(order) \cap (Names \ {n})
    BY <1>0, KeepNames
  <2> QED
    BY <1>0, <2>1, <2>2, KeepNames DEF Cached
<1> HIDE DEF rest
<1>3. /\ order' \in Seq(Names) /\ Len(order') <= MaxSize /\ Distinct(order')
      /\ Cached' = Cached
  <2>1. Len(rest) \in Nat
    BY <1>2, LenProperties
  <2>2. Cached' = (Cached \ {n}) \cup {n}
    BY <1>1, <1>2, AppendNames DEF Cached
  <2> QED
    BY <1>0, <1>1, <1>2, <2>1, <2>2, AppendNames
<1> QED
  BY <1>1, <1>3 DEF Typed, TypeOK, Distinct

LEMMA CleanTyped ==
  ASSUME Typed, CleanExpired
  PROVE  Typed' /\ Cached' = Cached \cap Unexpired
<1>0. /\ order \in Seq(Names) /\ Len(order) \in Nat /\ Len(order) <= MaxSize /\ Distinct(order)
      /\ MaxSize \in Nat /\ expires \in [Names -> Int] /\ None \in Int
  BY LenProperties, FreshAssumption DEF Typed, TypeOK, Distinct, None
<1>1. /\ order' = Keep(order, Unexpired) /\ UNCHANGED expires
      /\ RescheduleCleaning(order', expires, None, None)
  BY DEF CleanExpired
<1>2. /\ order' \in Seq(Names) /\ Len(order') <= Len(order) /\ Distinct(order')
      /\ Cached' = Cached \cap Unexpired
  BY <1>0, <1>1, KeepNames DEF Cached
<1>3. Len(order') <= MaxSize
  <2>1. Len(order') \in Nat
    BY <1>2, LenProperties
  <2> QED
    BY <1>0, <1>2, <2>1
<1>4. \A n \in Names : expires[n] >= Past
  BY DEF Typed
<1>5. scheduled' \in Int /\ event' \in Int
  BY <1>0, <1>1, <1>2, <1>4, RescheduledTimes
<1> QED
  BY <1>0, <1>1, <1>2, <1>3, <1>4, <1>5 DEF Typed, TypeOK, Distinct

LEMMA TickTyped ==
  ASSUME Typed, Tick
  PROVE  Typed' /\ Cached' = Cached
<1>1. /\ UNCHANGED order /\ Cached' = Cached
      /\ expires' = [n \in Names |-> Sooner(expires[n])]
      /\ scheduled' = Sooner(scheduled) /\ event' = Sooner(event)
  BY DEF Tick, Cached
<1>2. \A t \in Int : Sooner(t) \in Int /\ (t >= Past => Sooner(t) >= Past)
  BY DEF Sooner, None, Past
<1> QED
  BY <1>1, <1>2 DEF Typed, TypeOK

LEMMA TypedStep ==
  ASSUME Typed, [Next]_vars
  PROVE  Typed'
<1>1. CASE UNCHANGED vars
  BY <1>1 DEF vars, Typed, TypeOK
<1> QED
  BY <1>1, AddTyped, LookupTyped, CleanTyped, TickTyped DEF Next

\* The store keeps to MaxSize and holds no name twice, also when some Data expires and
\* some does not.
THEOREM TypeCorrect == Spec => []TypeOK
<1>1. Typed /\ [Next]_vars => Typed'
  BY TypedStep
<1>2. Typed => TypeOK
  BY DEF Typed
<1> QED
  BY <1>1, <1>2, TypedInit, PTL DEF Spec

(***************************************************************************)
(* The cleaning event, whether the Data expires or not.                    *)
(***************************************************************************)

\* The remembered time is not after any expiry, and a pending event runs at it.
Timed ==
    /\ event # None => event = scheduled /\ event >= 0
    /\ \A n \in Fresh(order) : scheduled # None /\ scheduled <= expires[n]

\* An entry that has not expired, or for which the time was is not too late.
InTime(n, times, was) == times[n] >= 0 \/ (was # None /\ was <= times[n])

\* RescheduleCleaning keeps the two times right, and leaves no event only if there is
\* nothing to wait for or the event was lost before.
LEMMA Rescheduled ==
  ASSUME NEW s \in Seq(Names), NEW times \in [Names -> Int],
         \A n \in Names : times[n] >= Past,
         NEW was \in Int, NEW pending \in Int,
         pending # None => pending = was /\ pending >= 0,
         \A n \in Fresh(s) : InTime(n, times, was),
         RescheduleCleaning(s, times, was, pending)
  PROVE  /\ event' # None => event' = scheduled' /\ event' >= 0
         /\ \A n \in Fresh(s) : scheduled' # None /\ scheduled' <= times[n]
         /\ Fresh(s) = {} => event' = None /\ scheduled' = was
         /\ Fresh(s) # {} /\ (was = None \/ pending # None) => event' # None
<1>1. CASE Fresh(s) = {}
  BY <1>1 DEF RescheduleCleaning
<1>2. CASE Fresh(s) # {}
  <2> DEFINE first == NextStateTime(s, times)
  <2>1. /\ first \in Int /\ \A n \in Fresh(s) : first <= times[n]
        /\ \E n \in Fresh(s) : first = times[n]
    BY <1>2, FirstExpiry
  <2>2. IF was = None \/ was > first
        THEN scheduled' = first /\ event' = scheduled'
        ELSE scheduled' = was /\ event' = pending
    BY <1>2 DEF RescheduleCleaning
  <2> HIDE DEF first
  <2>3. CASE was = None \/ was > first
    <3>1. first >= 0
      BY <2>1, <2>3 DEF None, InTime
    <3>2. first # None
      BY <2>1, <3>1 DEF None
    <3>3. scheduled' = first /\ event' = first
      BY <2>2, <2>3
    <3> QED
      BY <1>2, <2>1, <3>1, <3>2, <3>3
  <2>4. CASE ~ (was = None \/ was > first)
    <3>1. scheduled' = was /\ event' = pending /\ was # None /\ was <= first
      BY <2>1, <2>2, <2>4
    <3>2. ASSUME NEW n \in Fresh(s) PROVE was <= times[n]
      <4>1. times[n] \in Int /\ first <= times[n]
        BY <2>1, FreshNames
      <4> QED
        BY <2>1, <3>1, <4>1
    <3> QED
      BY <1>2, <3>1, <3>2
  <2> QED
    BY <2>3, <2>4
<1> QED
  BY <1>1, <1>2

LEMMA TimedInit == Init => Timed
BY DEF Init, Timed, Fresh, ToSet

\* A new entry is waited for, unless the event was lost before.
LEMMA AddTimed ==
  ASSUME Typed, Timed, NEW n \in Names, Add(n)
  PROVE  /\ Timed'
         /\ Fresh(order') # {} /\ (scheduled = None \/ event # None) => event' # None
<1>0. /\ order \in Seq(Names) /\ expires \in [Names -> Int]
      /\ scheduled \in Int /\ event \in Int /\ FreshnessOf \in [Names -> Nat]
  BY FreshAssumption DEF Typed, TypeOK
<1>1. Typed' /\ Cached' \subseteq Cached \cup {n}
  BY AddTyped
<1>2. /\ order' \in Seq(Names) /\ expires' \in [Names -> Int]
      /\ \A m \in Names : expires'[m] >= Past
  BY <1>1 DEF Typed, TypeOK
<1>3. /\ expires' = [expires EXCEPT ![n] = FreshnessOf[n]]
      /\ RescheduleCleaning(order', expires', scheduled, event)
  BY DEF Add
<1>4. ASSUME NEW m \in Fresh(order')
      PROVE  InTime(m, expires', scheduled)
  <2>1. CASE m = n
    BY <1>0, <1>3, <2>1 DEF InTime
  <2>2. CASE m # n
    <3>1. m \in Fresh(order) /\ m \in Names
      BY <1>1, <1>2, <2>2, FreshNames DEF Fresh, Cached
    <3> QED
      BY <1>0, <1>3, <2>2, <3>1 DEF Timed, InTime
  <2> QED
    BY <2>1, <2>2
<1>5. event # None => event = scheduled /\ event >= 0
  BY DEF Timed
<1>6. /\ event' # None => event' = scheduled' /\ event' >= 0
      /\ \A m \in Fresh(order') : scheduled' # None /\ scheduled' <= expires'[m]
      /\ Fresh(order') # {} /\ (scheduled = None \/ event # None) => event' # None
  BY <1>0, <1>2, <1>3, <1>4, <1>5, Rescheduled
<1>7. Timed'
  BY <1>6 DEF Timed
<1> QED
  BY <1>6, <1>7

LEMMA LookupTimed ==
  ASSUME Typed, Timed, NEW n \in Names, Lookup(n)
  PROVE  Timed'
<1>1. Cached' = Cached /\ UNCHANGED <<expires, scheduled, event>>
  BY LookupTyped DEF Lookup
<1>2. Fresh(order') = Fresh(order)
  BY <1>1 DEF Fresh, Cached
<1> QED
  BY <1>1, <1>2 DEF Timed

\* Cleaning waits for what is left.
LEMMA CleanTimed ==
  ASSUME Typed, Timed, CleanExpired
  PROVE  /\ Timed'
         /\ Fresh(order') # {} => event' # None
         /\ Fresh(order') = {} => event' = None /\ scheduled' = None
<1>0. expires \in [Names -> Int] /\ (\A n \in Names : expires[n] >= Past) /\ None \in Int
  BY DEF Typed, TypeOK, None
<1>1. Typed' /\ order' \in Seq(Names) /\ Cached' = Cached \cap Unexpired
  BY CleanTyped DEF Typed, TypeOK
<1>2. UNCHANGED expires /\ RescheduleCleaning(order', expires, None, None)
  BY DEF CleanExpired
<1>3. \A n \in Fresh(order') : InTime(n, expires, None)
  <2> SUFFICES ASSUME NEW n \in Fresh(order') PROVE expires[n] >= 0
    BY DEF InTime
  <2>1. n \in Names /\ n \in Unexpired /\ FreshnessOf[n] # 0
    BY <1>1, FreshNames DEF Fresh, Cached
  <2> QED
    BY <1>0, <2>1 DEF Unexpired
<1> QED
  BY <1>0, <1>1, <1>2, <1>3, Rescheduled DEF Timed

LEMMA TickTimed ==
  ASSUME Typed, Timed, Tick
  PROVE  Timed' /\ (event # None => event' # None)
                /\ (scheduled = None => scheduled' = None)
                /\ (event = None => event' = None)
<1>0. order \in Seq(Names) /\ expires \in [Names -> Int] /\ scheduled \in Int /\ event \in Int
  BY DEF Typed, TypeOK
<1>1. /\ event # 0 /\ UNCHANGED order
      /\ expires' = [n \in Names |-> Sooner(expires[n])]
      /\ scheduled' = Sooner(scheduled) /\ event' = Sooner(event)
  BY DEF Tick
<1>2. /\ Sooner(None) = None
      /\ \A t \in Int : t # None => Sooner(t) \in Int /\ Sooner(t) # None
      /\ \A t \in Int : t > 0 => Sooner(t) = t - 1
  BY DEF Sooner, None, Past
<1>3. \A t, u \in Int : t # None /\ u >= Past /\ t <= u => Sooner(t) <= Sooner(u)
  BY DEF Sooner, None, Past
<1>4. event # None => event' = scheduled' /\ event' >= 0
  BY <1>0, <1>1, <1>2 DEF Timed
<1>5. ASSUME NEW n \in Fresh(order) PROVE scheduled' # None /\ scheduled' <= expires'[n]
  <2>1. n \in Names /\ scheduled # None /\ scheduled <= expires[n] /\ expires[n] >= Past
    BY <1>0, FreshNames DEF Timed, Typed
  <2> QED
    BY <1>0, <1>1, <1>2, <1>3, <2>1
<1>6. Fresh(order') = Fresh(order)
  BY <1>1
<1>7. Timed'
  BY <1>4, <1>5, <1>6, <1>1, <1>2, <1>0 DEF Timed
<1> QED
  BY <1>0, <1>1, <1>2, <1>7

LEMMA TimedStep ==
  ASSUME Typed, Timed, [Next]_vars
  PROVE  Timed'
<1>1. CASE UNCHANGED vars
  BY <1>1 DEF vars, Timed
<1> QED
  BY <1>1, AddTimed, LookupTimed, CleanTimed, TickTimed DEF Next

\* In any store, whatever of its Data expires: a pending cleaning event runs at the
\* remembered time, nothing expires before it, and nothing in the store is stale.  Data
\* overstays only when the event is lost.
PendingInTime ==
    event # None => /\ event = scheduled
                    /\ \A n \in Fresh(order) : event <= expires[n] /\ expires[n] >= 0

THEOREM PendingOnTime == Spec => []PendingInTime
<1>1. Typed /\ Timed /\ [Next]_vars => Typed' /\ Timed'
  BY TypedStep, TimedStep
<1>2. Typed /\ Timed => PendingInTime
  <2> SUFFICES ASSUME Typed, Timed, event # None, NEW n \in Fresh(order)
               PROVE  event <= expires[n] /\ expires[n] >= 0
    BY DEF PendingInTime, Timed
  <2>1. expires[n] \in Int /\ event \in Int
    BY FreshNames DEF Typed, TypeOK
  <2>2. 0 <= event /\ event <= expires[n]
    BY DEF Timed
  <2> QED
    BY <2>1, <2>2
<1> QED
  BY <1>1, <1>2, TypedInit, TimedInit, PTL DEF Spec

(***************************************************************************)
(* The cleaning event, when all Data expires.                              *)
(***************************************************************************)

AllExpire == \A n \in Names : FreshnessOf[n] # 0

\* The inductive invariant: an empty store remembers no time, which is what
\* RescheduleCleaning relies on and what an entry without a freshness period
\* breaks; otherwise the event is pending.
Inductive ==
    /\ Typed /\ Timed
    /\ IF Cached = {} THEN scheduled = None /\ event = None ELSE event # None

LEMMA AllFresh ==
  ASSUME AllExpire, NEW s \in Seq(Names)
  PROVE  Fresh(s) = ToSet(s)
<1>1. ToSet(s) \subseteq Names
  BY ElementOfSeq, LenProperties DEF ToSet
<1> QED
  BY <1>1 DEF AllExpire, Fresh

LEMMA InductiveInit == Init => Inductive
<1>1. Init => Typed /\ Timed /\ Cached = {} /\ scheduled = None /\ event = None
  BY TypedInit, TimedInit DEF Init, Cached, ToSet
<1> QED
  BY <1>1 DEF Inductive

LEMMA InductiveStep ==
  ASSUME AllExpire, Inductive, [Next]_vars
  PROVE  Inductive'
<1>1. Typed' /\ Timed'
  BY TypedStep, TimedStep DEF Inductive
<1>2. Typed /\ Timed /\ order' \in Seq(Names)
  BY <1>1 DEF Inductive, Typed, TypeOK
<1>3. Fresh(order') = Cached'
  BY <1>2, AllFresh DEF Cached
<1>4. IF Cached' = {} THEN scheduled' = None /\ event' = None ELSE event' # None
  <2>1. CASE UNCHANGED vars
    BY <2>1 DEF vars, Inductive, Cached
  <2>2. ASSUME NEW n \in Names, Add(n) PROVE Cached' # {} /\ event' # None
    <3>1. Cached' # {}
      BY <1>2, <2>2, AddTyped
    <3> QED
      BY <1>2, <1>3, <2>2, <3>1, AddTimed DEF Inductive
  <2>3. CASE \E n \in Names : Lookup(n)
    BY <1>2, <2>3, LookupTyped DEF Inductive, Lookup
  <2>4. CASE CleanExpired
    BY <1>2, <1>3, <2>4, CleanTimed
  <2>5. CASE Tick
    BY <1>2, <2>5, TickTyped, TickTimed DEF Inductive
  <2> QED
    BY <2>1, <2>2, <2>3, <2>4, <2>5 DEF Next
<1> QED
  BY <1>1, <1>4 DEF Inductive

LEMMA InductiveInvariant == AllExpire => (Spec => []Inductive)
<1> SUFFICES ASSUME AllExpire PROVE Spec => []Inductive
  OBVIOUS
<1>1. Inductive /\ [Next]_vars => Inductive'
  BY InductiveStep
<1> QED
  BY <1>1, InductiveInit, PTL DEF Spec

\* If all Data has a freshness period, none stays beyond it, in whatever order
\* Data is added, evicted, looked up and cleaned.
THEOREM NothingStale ==
  ASSUME AllExpire
  PROVE  Spec => []NoStaleData
<1>1. Inductive => NoStaleData
  <2> SUFFICES ASSUME Inductive, NEW n \in Fresh(order) PROVE expires[n] >= 0
    BY DEF NoStaleData
  <2>1. /\ order \in Seq(Names) /\ expires \in [Names -> Int] /\ event \in Int
        /\ Typed /\ Timed
    BY DEF Inductive, Typed, TypeOK
  <2>2. n \in Cached /\ n \in Names
    BY <2>1, FreshNames DEF Cached
  <2>3. event # None
    BY <2>2 DEF Inductive
  <2> QED
    BY <2>1, <2>2, <2>3 DEF Timed
<1> QED
  BY <1>1, InductiveInvariant, PTL

\* If all Data has a freshness period, the cleaning event is never lost: it is
\* pending at the remembered time, not later than the first expiry.
THEOREM EventKept ==
  ASSUME AllExpire
  PROVE  Spec => []CleaningScheduled
<1>1. Inductive => CleaningScheduled
  <2> SUFFICES ASSUME Inductive, Fresh(order) # {}
               PROVE  event = scheduled /\ event <= NextStateTime(order, expires)
    BY DEF CleaningScheduled
  <2>1. /\ order \in Seq(Names) /\ expires \in [Names -> Int]
        /\ \A n \in Names : expires[n] >= Past
    BY DEF Inductive, Typed, TypeOK
  <2>2. Cached # {}
    BY <2>1, FreshNames DEF Cached
  <2>3. event = scheduled /\ \A n \in Fresh(order) : event <= expires[n]
    BY <2>2 DEF Inductive, Timed
  <2>4. \E n \in Fresh(order) : NextStateTime(order, expires) = expires[n]
    BY <2>1, FirstExpiry
  <2> QED
    BY <2>3, <2>4
<1> QED
  BY <1>1, InductiveInvariant, PTL
=============================================================================
