--------------------------- MODULE ApiFaceProofs ----------------------------
(***************************************************************************)
(* Theorems about ApiFace, for every set of names and lifetimes and any    *)
(* number of calls.                                                        *)
(***************************************************************************)
EXTENDS ApiFace, CollectionLemmas

(***************************************************************************)
(* The inductive invariant.                                                *)
(***************************************************************************)
Entries == [callbacks : Seq(Nat), left : Nat]
Calls == [own : Nat, outcome : Outcomes]
Loops == [event : {"none", "data", "timeout"}, entry : Seq(Nat), data : Seq(Nat),
          next : Nat]

\* The shape of the state.
Shape ==
    /\ up \in BOOLEAN
    /\ pending \in [DOMAIN pending -> Entries] /\ DOMAIN pending \subseteq Names
    /\ order \in Seq(Names)
    /\ loop \in Loops
    /\ Running => loop.entry \in DOMAIN pending
    /\ filters \subseteq routes /\ routes \subseteq Filters
    /\ queue \in Seq([packet : {"Interest", "Data"}, name : Names])
    /\ asked \subseteq Names
    /\ puts \in 0 .. MaxPuts
    /\ requests \in Seq(Calls) /\ Len(requests) <= MaxCalls
    /\ ~up => asked = {}

\* The policy's container: the pending names by time.
Sorted(p, o) ==
    /\ IsInjective(o) /\ ToSet(o) = DOMAIN p
    /\ \A n, m : Ahead(o, n, m) => p[n].left <= p[m].left

\* A timeout has taken its event, and is that of the first entry until it is over.
\* Shutdown leaves its event, until there is an entry again.
Timed ==
    /\ Sorted(pending, order)
    /\ loop.event = "timeout" =>
          timer = NoTimer /\ Head(order) = loop.entry /\ pending[loop.entry].left = 0
    /\ loop.event # "timeout" =>
          timer = Rescheduled(pending, order) \/ (~up /\ order = <<>>)
    /\ timer = NoTimer \/ timer \in [item : Names, left : Nat]

\* The callback of a call is at a place: its entry's name, and a position there.
Place(p, n, i) == n \in DOMAIN p /\ i \in 1 .. Len(p[n].callbacks)

Called(l, n, i) == l.event # "none" /\ n = l.entry /\ i < l.next

\* The entries p hold calls of r, at one place each; of these do not wait just
\* those that the loop l has called.
Listed(p, r, l) ==
    /\ \A n, i : Place(p, n, i) =>
          /\ p[n].callbacks[i] \in DOMAIN r
          /\ r[p[n].callbacks[i]].outcome = "waiting" <=> ~ Called(l, n, i)
    /\ \A n, i, m, j : Place(p, n, i) /\ Place(p, m, j) =>
              (p[n].callbacks[i] = p[m].callbacks[j] => n = m /\ i = j)

\* No entry is empty, and each but the loop's has the time of its first call.
Booked(p, r, l) ==
    /\ Listed(p, r, l)
    /\ \A n \in DOMAIN p : Place(p, n, 1)
    /\ l.event # "none" => l.next \in 2 .. Len(p[l.entry].callbacks) + 1
    /\ \A n \in DOMAIN p : (l.event # "none" => n # l.entry) =>
          p[n].left = r[p[n].callbacks[1]].own

\* No call that waits is forgotten.
Kept(p, r) ==
    \A id \in DOMAIN r : r[id].outcome = "waiting" =>
        \E n, i : Place(p, n, i) /\ p[n].callbacks[i] = id

\* All that the invariant says of the entries and the calls while they wait.
Sound(p, r, l) ==
    /\ p \in [DOMAIN p -> Entries] /\ r \in Seq(Calls) /\ l \in Loops
    /\ l.event # "none" => l.entry \in DOMAIN p
    /\ Booked(p, r, l)

Inductive ==
    /\ Shape /\ Timed
    /\ Booked(pending, requests, loop)
    /\ Kept(pending, requests)

(***************************************************************************)
(* The order of the policy.                                                *)
(***************************************************************************)
\* The first of a list of distinct names stays first while it is in it.
LEMMA HeadKept ==
  ASSUME NEW S, NEW s \in Seq(S), NEW r \in Seq(S), IsInjective(s), s # <<>>,
         \A x, y : Ahead(r, x, y) => Ahead(s, x, y), Head(s) \in ToSet(r)
  PROVE  r # <<>> /\ Head(r) = Head(s)
PROOF
  <1>1. /\ DOMAIN s = 1 .. Len(s) /\ Len(s) \in Nat \ {0} /\ Head(s) = s[1]
        /\ DOMAIN r = 1 .. Len(r) /\ Len(r) \in Nat
    BY LenProperties, EmptySeq
  <1>2. PICK j \in 1 .. Len(r) : r[j] = s[1]
    BY <1>1 DEF ToSet
  <1>3. r # <<>> /\ Head(r) = r[1]
    BY <1>1, <1>2, EmptySeq
  <1>4. CASE j = 1
    BY <1>1, <1>2, <1>3, <1>4
  <1>5. CASE j # 1
    <2>1. Ahead(r, r[1], s[1])
      <3>1. 1 \in DOMAIN r /\ j \in DOMAIN r /\ 1 < j
        BY <1>1, <1>5
      <3> QED
        BY <1>2, <3>1, Zenon DEF Ahead
    <2>2. PICK a, b \in 1 .. Len(s) : a < b /\ s[b] = s[1]
      <3>1. Ahead(s, r[1], s[1])
        BY <2>1, Zenon
      <3> QED
        BY <1>1, <3>1, Zenon DEF Ahead
    <2>3. b = 1
      BY <1>1, <2>2 DEF IsInjective
    <2> QED
      BY <2>2, <2>3
  <1> QED
    BY <1>4, <1>5

\* Nobody is before the first.
LEMMA FirstExpires ==
  ASSUME NEW p, p \in [DOMAIN p -> Entries], NEW o \in Seq(Names), Sorted(p, o),
         NEW n \in DOMAIN p
  PROVE  o # <<>> /\ Head(o) \in DOMAIN p /\ p[Head(o)].left <= p[n].left
PROOF
  <1>1. /\ DOMAIN o = 1 .. Len(o) /\ Len(o) \in Nat
        /\ \A i \in 1 .. Len(o) : o[i] \in DOMAIN p
    BY LenProperties DEF Sorted, ToSet
  <1>2. PICK i \in 1 .. Len(o) : o[i] = n
    BY <1>1 DEF Sorted, ToSet
  <1>3. o # <<>> /\ Head(o) = o[1]
    BY <1>1, <1>2, EmptySeq
  <1>4. p[n].left \in Nat
    BY DEF Entries
  <1>5. CASE i = 1
    BY <1>1, <1>2, <1>3, <1>4, <1>5
  <1>6. CASE i # 1
    <2>1. Ahead(o, o[1], n)
      BY <1>1, <1>2, <1>6 DEF Ahead
    <2> QED
      BY <1>1, <1>2, <1>3, <2>1 DEF Sorted
  <1> QED
    BY <1>5, <1>6

\* A new entry goes after those that expire no later.
With(p, n, e) == [m \in DOMAIN p \cup {n} |-> IF m = n THEN e ELSE p[m]]

LEMMA WithElements ==
  ASSUME NEW p, NEW n, NEW e
  PROVE  LET q == With(p, n, e)
         IN  /\ DOMAIN q = DOMAIN p \cup {n} /\ q[n] = e
             /\ \A m \in DOMAIN p : m # n => q[m] = p[m]
             /\ p \in [DOMAIN p -> Entries] /\ e \in Entries => q \in [DOMAIN q -> Entries]
PROOF
  BY DEF With

LEMMA InsertedSorted ==
  ASSUME NEW p, p \in [DOMAIN p -> Entries], NEW o \in Seq(Names), Sorted(p, o),
         NEW n \in Names, n \notin DOMAIN p, NEW e \in Entries
  PROVE  LET q == With(p, n, e)
             r == Inserted(q, o, n)
         IN  /\ r \in Seq(Names) /\ Sorted(q, r) /\ r # <<>>
             /\ Head(r) # n => o # <<>> /\ Head(r) = Head(o)
             /\ (\E m \in DOMAIN p : p[m].left <= e.left) => Head(r) # n
PROOF
  <1> DEFINE q == With(p, n, e)
             B == {i \in DOMAIN o : q[o[i]].left <= q[n].left}
             k == 1 + Cardinality(B)
             r == InsertAt(o, k, n)
  <1>0. q = [m \in DOMAIN p \cup {n} |-> IF m = n THEN e ELSE p[m]]
    BY DEF With
  <1> HIDE DEF q
  <1>1. /\ DOMAIN o = 1 .. Len(o) /\ Len(o) \in Nat
        /\ \A i \in DOMAIN o : o[i] \in DOMAIN p /\ o[i] # n /\ q[o[i]] = p[o[i]]
        /\ \A i \in DOMAIN o : p[o[i]].left \in Nat
    BY <1>0, LenProperties DEF Sorted, ToSet, Entries
  <1>2. q[n] = e /\ DOMAIN q = DOMAIN p \cup {n} /\ e.left \in Nat
        /\ \A m \in DOMAIN p : q[m] = p[m]
    BY <1>0 DEF Entries
  <1>3. Inserted(q, o, n) = r
    BY Zenon DEF Inserted
  <1>4. \A i \in DOMAIN o : i \in B <=> p[o[i]].left <= e.left
    BY <1>1, <1>2
  <1>5. \A i \in DOMAIN o, j \in B : i < j => i \in B
    <2>1. \A i, j \in DOMAIN o : i < j => p[o[i]].left <= p[o[j]].left
      BY <1>1 DEF Sorted, Ahead
    <2>2. ASSUME NEW i \in DOMAIN o, NEW j \in B, i < j PROVE i \in B
      <3>1. j \in DOMAIN o /\ p[o[j]].left <= e.left /\ p[o[i]].left <= p[o[j]].left
        BY <1>4, <2>1, <2>2
      <3>2. p[o[i]].left <= e.left
        BY <1>1, <1>2, <3>1
      <3> QED
        BY <1>4, <3>2
    <2> QED
      BY <2>2, Zenon
  <1>6. B \in SUBSET DOMAIN o
    OBVIOUS
  <1> HIDE DEF B
  <1>7. k \in 1 .. Len(o) + 1 /\ \A i \in DOMAIN o : i < k <=> i \in B
    BY <1>5, <1>6, SplitAt
  <1> HIDE DEF k
  <1>8. n \notin ToSet(o) /\ IsInjective(o)
    BY DEF Sorted
  <1>9. /\ r \in Seq(Names) /\ Len(r) = Len(o) + 1 /\ IsInjective(r)
        /\ ToSet(r) = ToSet(o) \cup {n}
        /\ \A x, y : Ahead(r, x, y) <=>
             \/ Ahead(o, x, y)
             \/ y = n /\ \E i \in DOMAIN o : i < k /\ o[i] = x
             \/ x = n /\ \E i \in DOMAIN o : ~ (i < k) /\ o[i] = y
    BY <1>7, <1>8, InsertAtKeeps
  <1>10. \A i \in 1 .. Len(o) + 1 :
           r[i] = IF i < k THEN o[i] ELSE IF i = k THEN n ELSE o[i - 1]
    BY <1>7, InsertAtElements
  <1> HIDE DEF r
  <1>11. r # <<>> /\ Head(r) = r[1]
    BY <1>1, <1>9, EmptySeq
  <1>12. r[1] = IF 1 < k THEN o[1] ELSE n
    BY <1>1, <1>7, <1>10
  <1>13. Sorted(q, r)
    <2>1. \A x, y : Ahead(o, x, y) => /\ x \in DOMAIN p /\ y \in DOMAIN p
                                      /\ p[x].left <= p[y].left
      BY <1>1 DEF Sorted, Ahead
    <2>2. \A i \in DOMAIN o : /\ i < k => p[o[i]].left <= e.left
                              /\ ~ (i < k) => e.left <= p[o[i]].left
      BY <1>1, <1>2, <1>4, <1>7
    <2>3. ASSUME NEW x, NEW y, Ahead(r, x, y) PROVE q[x].left <= q[y].left
      <3>1. CASE Ahead(o, x, y)
        BY <1>2, <2>1, <3>1
      <3>2. CASE y = n /\ \E i \in DOMAIN o : i < k /\ o[i] = x
        BY <1>1, <1>2, <2>2, <3>2
      <3>3. CASE x = n /\ \E i \in DOMAIN o : ~ (i < k) /\ o[i] = y
        BY <1>1, <1>2, <2>2, <3>3
      <3> QED
        BY <1>9, <2>3, <3>1, <3>2, <3>3, Zenon
    <2>4. ToSet(r) = DOMAIN q
      BY <1>2, <1>9 DEF Sorted
    <2> QED
      BY <1>9, <2>3, <2>4 DEF Sorted
  <1>14. r[1] # n => o # <<>> /\ r[1] = Head(o)
    <2>1. 1 < k => Len(o) # 0
      BY <1>1, <1>7
    <2>2. Len(o) # 0 => o # <<>> /\ Head(o) = o[1]
      BY EmptySeq
    <2> QED
      BY <1>12, <2>1, <2>2
  <1>15. ASSUME NEW m \in DOMAIN p, p[m].left <= e.left PROVE r[1] # n
    <2>1. o # <<>> /\ Head(o) \in DOMAIN p /\ p[Head(o)].left <= p[m].left
      BY FirstExpires
    <2>2. 1 \in DOMAIN o /\ Head(o) = o[1]
      BY <1>1, <2>1, EmptySeq
    <2>3. p[m].left \in Nat
      BY DEF Entries
    <2>4. p[o[1]].left <= e.left
      BY <1>1, <1>2, <1>15, <2>1, <2>2, <2>3
    <2>5. 1 < k
      BY <1>4, <1>7, <2>2, <2>4
    <2> QED
      BY <1>1, <1>12, <2>2, <2>5
  <1> QED
    BY <1>3, <1>9, <1>11, <1>13, <1>14, <1>15 DEF r, q

\* What is left keeps its order, and its first if that is left.
LEMMA ErasedSorted ==
  ASSUME NEW p, p \in [DOMAIN p -> Entries], NEW o \in Seq(Names), Sorted(p, o),
         NEW n \in DOMAIN p, NEW q, q = [m \in DOMAIN p \ {n} |-> p[m]]
  PROVE  LET r == RemoveFirst(o, n)
         IN  /\ r \in Seq(Names) /\ Sorted(q, r)
             /\ Head(o) # n => r # <<>> /\ Head(r) = Head(o)
PROOF
  <1> DEFINE r == RemoveFirst(o, n)
  <1>1. /\ r \in Seq(Names) /\ IsInjective(r) /\ ToSet(r) = ToSet(o) \ {n}
        /\ \A x, y : Ahead(r, x, y) <=> Ahead(o, x, y) /\ x # n /\ y # n
    BY RemoveFirstKeeps DEF Sorted
  <1> HIDE DEF r
  <1>2. \A x, y : Ahead(o, x, y) => x \in DOMAIN p /\ y \in DOMAIN p
    BY DEF Sorted, Ahead, ToSet
  <1>3. Sorted(q, r)
    BY <1>1, <1>2 DEF Sorted
  <1>4. ASSUME Head(o) # n PROVE r # <<>> /\ Head(r) = Head(o)
    <2>1. o # <<>> /\ Head(o) \in ToSet(r)
      BY <1>1, <1>4, FirstExpires DEF Sorted
    <2> QED
      BY <1>1, <2>1, HeadKept DEF Sorted
  <1> QED
    BY <1>1, <1>3, <1>4 DEF r

(***************************************************************************)
(* The places of the callbacks.                                            *)
(***************************************************************************)
\* A call id that is new has the place k of n, which is new.
Adds(p, r, q, s, n, k, id) ==
    /\ id \notin DOMAIN r /\ DOMAIN s = DOMAIN r \cup {id}
    /\ \A x \in DOMAIN r : s[x] = r[x]
    /\ s[id].outcome = "waiting"
    /\ \A m, i : Place(q, m, i) <=> Place(p, m, i) \/ (m = n /\ i = k)
    /\ \A m, i : Place(p, m, i) => q[m].callbacks[i] = p[m].callbacks[i]
    /\ q[n].callbacks[k] = id

LEMMA PlaceAdded ==
  ASSUME NEW p, NEW r, NEW q, NEW s, NEW l, Listed(p, r, l),
         NEW n, NEW k, NEW id, Adds(p, r, q, s, n, k, id), ~ Called(l, n, k)
  PROVE  Listed(q, s, l) /\ (Kept(p, r) => Kept(q, s))
PROOF
  <1>0. /\ \A m, i : Place(p, m, i) =>
              /\ p[m].callbacks[i] \in DOMAIN r
              /\ r[p[m].callbacks[i]].outcome = "waiting" <=> ~ Called(l, m, i)
        /\ \A m, i, h, j : Place(p, m, i) /\ Place(p, h, j) =>
              (p[m].callbacks[i] = p[h].callbacks[j] => m = h /\ i = j)
    BY Zenon DEF Listed
  <1>a. /\ id \notin DOMAIN r /\ DOMAIN s = DOMAIN r \cup {id}
        /\ \A x \in DOMAIN r : s[x] = r[x]
        /\ s[id].outcome = "waiting"
        /\ \A m, i : Place(q, m, i) <=> Place(p, m, i) \/ (m = n /\ i = k)
        /\ \A m, i : Place(p, m, i) => q[m].callbacks[i] = p[m].callbacks[i]
        /\ q[n].callbacks[k] = id
    BY Zenon DEF Adds
  <1>1. ASSUME NEW m, NEW i, Place(q, m, i)
        PROVE  /\ q[m].callbacks[i] \in DOMAIN s
               /\ s[q[m].callbacks[i]].outcome = "waiting" <=> ~ Called(l, m, i)
    <2>1. CASE Place(p, m, i)
      <3>1. /\ q[m].callbacks[i] = p[m].callbacks[i]
            /\ p[m].callbacks[i] \in DOMAIN r /\ p[m].callbacks[i] \in DOMAIN s
            /\ r[p[m].callbacks[i]].outcome = "waiting" <=> ~ Called(l, m, i)
        BY <1>0, <1>a, <2>1
      <3>2. s[p[m].callbacks[i]] = r[p[m].callbacks[i]]
        BY <1>a, <3>1
      <3> QED
        BY <3>1, <3>2
    <2>2. CASE ~ Place(p, m, i)
      <3>1. m = n /\ i = k
        BY <1>1, <1>a, <2>2
      <3> QED
        BY <1>a, <3>1
    <2> QED
      BY <2>1, <2>2
  <1>2. \A m, i : Place(p, m, i) =>
          q[m].callbacks[i] = p[m].callbacks[i] /\ q[m].callbacks[i] # id
    BY <1>0, <1>a
  <1>3. ASSUME NEW m, NEW i, NEW h, NEW j, Place(q, m, i), Place(q, h, j),
               q[m].callbacks[i] = q[h].callbacks[j]
        PROVE  m = h /\ i = j
    <2>1. CASE Place(p, m, i) /\ Place(p, h, j)
      BY <1>0, <1>2, <1>3, <2>1
    <2>2. CASE ~ Place(p, m, i)
      <3>1. m = n /\ i = k /\ q[h].callbacks[j] = id
        BY <1>3, <1>a, <2>2
      <3> QED
        BY <1>2, <1>3, <1>a, <3>1
    <2>3. CASE ~ Place(p, h, j)
      <3>1. h = n /\ j = k /\ q[m].callbacks[i] = id
        BY <1>3, <1>a, <2>3
      <3> QED
        BY <1>2, <1>3, <1>a, <3>1
    <2> QED
      BY <2>1, <2>2, <2>3
  <1>4. ASSUME Kept(p, r) PROVE Kept(q, s)
    <2> SUFFICES ASSUME NEW x \in DOMAIN s, s[x].outcome = "waiting"
                 PROVE  \E m, i : Place(q, m, i) /\ q[m].callbacks[i] = x
      BY Zenon DEF Kept
    <2>1. CASE x = id
      <3>1. Place(q, n, k) /\ q[n].callbacks[k] = x
        BY <1>a, <2>1
      <3> QED
        BY <3>1, Zenon
    <2>2. CASE x \in DOMAIN r
      <3>1. r[x].outcome = "waiting"
        BY <1>a, <2>2
      <3>2. PICK m, i : Place(p, m, i) /\ p[m].callbacks[i] = x
        BY <1>4, <2>2, <3>1, Zenon DEF Kept
      <3>3. Place(q, m, i) /\ q[m].callbacks[i] = x
        BY <1>a, <3>2
      <3> QED
        BY <3>3, Zenon
    <2> QED
      BY <1>a, <2>1, <2>2
  <1>5. Listed(q, s, l)
    BY <1>1, <1>3 DEF Listed
  <1> QED
    BY <1>4, <1>5, Zenon

\* What is called keeps its time, and what has ended is as it was.
Follows(r, s) ==
    /\ \A x \in DOMAIN r : s[x].own = r[x].own
    /\ \A x \in DOMAIN r : r[x].outcome # "waiting" => s[x] = r[x]

Made(p, r, n, i, event) == [r EXCEPT ![p[n].callbacks[i]].outcome = event]

\* From l to h a loop makes the call at place i of n.
Makes(p, r, s, l, h, n, i) ==
    /\ Listed(p, r, l)
    /\ Place(p, n, i) /\ ~ Called(l, n, i)
    /\ \A m, j : Place(p, m, j) =>
          (Called(h, m, j) <=> Called(l, m, j) \/ (m = n /\ j = i))
    /\ h.event \in {"data", "timeout"}
    /\ s = Made(p, r, n, i, h.event)

LEMMA CallMade ==
  ASSUME NEW p, NEW r \in Seq(Calls), NEW l, NEW h, NEW n, NEW i, NEW s,
         Makes(p, r, s, l, h, n, i)
  PROVE  /\ s \in Seq(Calls) /\ Len(s) = Len(r)
         /\ Listed(p, s, h) /\ (Kept(p, r) => Kept(p, s)) /\ Follows(r, s)
PROOF
  <1> DEFINE id == p[n].callbacks[i]
             c == [r[id] EXCEPT !.outcome = h.event]
  <1>a. /\ Place(p, n, i) /\ ~ Called(l, n, i)
        /\ \A m, j : Place(p, m, j) =>
              (Called(h, m, j) <=> Called(l, m, j) \/ (m = n /\ j = i))
        /\ h.event \in {"data", "timeout"} /\ s = Made(p, r, n, i, h.event)
    BY Zenon DEF Makes
  <1>0. /\ \A m, j : Place(p, m, j) =>
              /\ p[m].callbacks[j] \in DOMAIN r
              /\ r[p[m].callbacks[j]].outcome = "waiting" <=> ~ Called(l, m, j)
        /\ \A m, j, x, y : Place(p, m, j) /\ Place(p, x, y) =>
              (p[m].callbacks[j] = p[x].callbacks[y] => m = x /\ j = y)
    BY Zenon DEF Listed, Makes
  <1>1. id \in DOMAIN r /\ r[id].outcome = "waiting"
    BY <1>0, <1>a
  <1>2. DOMAIN r = 1 .. Len(r) /\ \A x \in DOMAIN r : r[x] \in Calls
    BY LenProperties, ElementOfSeq
  <1>3. c \in Calls /\ c.own = r[id].own /\ c.outcome = h.event /\ h.event # "waiting"
    BY <1>1, <1>2, <1>a DEF Calls, Outcomes
  <1>4. s = [r EXCEPT ![id] = c]
    BY <1>a, Zenon DEF Made
  <1>5. \A m, j : Place(p, m, j) /\ ~ (m = n /\ j = i) => p[m].callbacks[j] # id
    BY <1>0, <1>a
  <1> HIDE DEF c, id
  <1>6. s \in Seq(Calls) /\ Len(s) = Len(r) /\ DOMAIN s = DOMAIN r
    BY <1>1, <1>2, <1>3, <1>4, ExceptSeq
  <1>7. \A x \in DOMAIN r : s[x] = IF x = id THEN c ELSE r[x]
    BY <1>4, Zenon
  <1>8. \A m, j : Place(p, m, j) =>
          /\ p[m].callbacks[j] \in DOMAIN s
          /\ s[p[m].callbacks[j]].outcome = "waiting" <=> ~ Called(h, m, j)
    <2> SUFFICES ASSUME NEW m, NEW j, Place(p, m, j)
                 PROVE  /\ p[m].callbacks[j] \in DOMAIN s
                        /\ s[p[m].callbacks[j]].outcome = "waiting" <=> ~ Called(h, m, j)
      BY Zenon
    <2>1. CASE m = n /\ j = i
      BY <1>1, <1>3, <1>6, <1>7, <1>a, <2>1, Zenon DEF id
    <2>2. CASE ~ (m = n /\ j = i)
      <3> DEFINE x == p[m].callbacks[j]
      <3>1. /\ x # id /\ x \in DOMAIN r
            /\ r[x].outcome = "waiting" <=> ~ Called(l, m, j)
        BY <1>0, <1>5, <2>2
      <3>2. Called(h, m, j) <=> Called(l, m, j)
        BY <1>a, <2>2
      <3> HIDE DEF x
      <3>3. x \in DOMAIN s /\ s[x] = r[x]
        BY <1>6, <1>7, <3>1
      <3> QED
        BY <3>1, <3>2, <3>3 DEF x
    <2> QED
      BY <2>1, <2>2, Zenon
  <1>9. Listed(p, s, h)
    BY <1>0, <1>8, Zenon DEF Listed
  <1>10. Kept(p, r) => Kept(p, s)
    BY <1>3, <1>6, <1>7, Zenon DEF Kept
  <1>11. Follows(r, s)
    BY <1>1, <1>3, <1>7, Zenon DEF Follows
  <1> QED
    BY <1>6, <1>9, <1>10, <1>11

\* What Erase makes of the trie.
Without(p, n) == [m \in DOMAIN p \ {n} |-> p[m]]

\* The entry of a loop that has called all of it goes.
LEMMA EntryGone ==
  ASSUME NEW p, NEW r, NEW l, Sound(p, r, l), l.event # "none",
         l.next > Len(p[l.entry].callbacks)
  PROVE  LET q == Without(p, l.entry)
         IN  Sound(q, r, Idle) /\ (Kept(p, r) => Kept(q, r))
PROOF
  <1> DEFINE q == Without(p, l.entry)
  <1>s. /\ p \in [DOMAIN p -> Entries] /\ r \in Seq(Calls) /\ l \in Loops
        /\ l.event # "none" => l.entry \in DOMAIN p
        /\ Booked(p, r, l)
    BY DEF Sound
  <1> USE <1>s
  <1>q. q = [n \in DOMAIN p \ {l.entry} |-> p[n]]
    BY DEF Without
  <1> HIDE DEF q
  <1> USE <1>q
  <1>0. /\ \A m, j : Place(p, m, j) =>
              /\ p[m].callbacks[j] \in DOMAIN r
              /\ r[p[m].callbacks[j]].outcome = "waiting" <=> ~ Called(l, m, j)
        /\ \A m, j, x, y : Place(p, m, j) /\ Place(p, x, y) =>
              (p[m].callbacks[j] = p[x].callbacks[y] => m = x /\ j = y)
    BY Zenon DEF Listed, Booked
  <1>1. \A n, i : Place(q, n, i) <=> Place(p, n, i) /\ n # l.entry
    BY DEF Place
  <1>2. \A n \in DOMAIN q : q[n] = p[n] /\ n \in DOMAIN p /\ n # l.entry
    OBVIOUS
  <1>3. \A n, i : ~ Called(Idle, n, i)
    BY DEF Called, Idle
  <1>4. \A n, i : n # l.entry => ~ Called(l, n, i)
    BY DEF Called
  <1>5. \A i : Place(p, l.entry, i) => Called(l, l.entry, i)
    <2>1. p[l.entry].callbacks \in Seq(Nat) /\ l.next \in Nat
      BY DEF Entries, Loops
    <2>2. Len(p[l.entry].callbacks) \in Nat
      BY <2>1, LenProperties
    <2> QED
      BY <2>1, <2>2 DEF Place, Called
  <1>6. \A n, i : Place(q, n, i) => n \in DOMAIN q
    BY DEF Place
  <1>7. Listed(q, r, Idle)
    <2>1. \A n, i : Place(q, n, i) =>
            /\ q[n].callbacks[i] \in DOMAIN r
            /\ r[q[n].callbacks[i]].outcome = "waiting" <=> ~ Called(Idle, n, i)
      <3> TAKE n, i
      <3> HAVE Place(q, n, i)
      <3>1. q[n] = p[n] /\ Place(p, n, i) /\ ~ Called(l, n, i) /\ ~ Called(Idle, n, i)
        BY <1>1, <1>2, <1>3, <1>4, <1>6
      <3> QED
        BY <1>0, <3>1
    <2>2. \A n, i, m, j : Place(q, n, i) /\ Place(q, m, j) =>
              (q[n].callbacks[i] = q[m].callbacks[j] => n = m /\ i = j)
      <3> TAKE n, i, m, j
      <3> HAVE Place(q, n, i) /\ Place(q, m, j)
      <3> HAVE q[n].callbacks[i] = q[m].callbacks[j]
      <3>1. q[n] = p[n] /\ q[m] = p[m] /\ Place(p, n, i) /\ Place(p, m, j)
        BY <1>1, <1>2, <1>6
      <3> QED
        BY <1>0, <3>1
    <2> QED
      BY <2>1, <2>2, Zenon DEF Listed
  <1>8. Booked(q, r, Idle)
    <2>1. \A n \in DOMAIN q : Place(q, n, 1) /\ q[n].left = r[q[n].callbacks[1]].own
      <3>1. ASSUME NEW n \in DOMAIN q
            PROVE  Place(q, n, 1) /\ q[n].left = r[q[n].callbacks[1]].own
        <4>1. q[n] = p[n] /\ n \in DOMAIN p /\ n # l.entry
          BY <1>2
        <4>2. Place(p, n, 1) /\ p[n].left = r[p[n].callbacks[1]].own
          BY <4>1, Zenon DEF Booked
        <4> QED
          BY <1>1, <4>1, <4>2
      <3> QED
        BY <3>1, Zenon
    <2>2. Idle.event = "none"
      BY DEF Idle
    <2> QED
      BY <1>7, <2>1, <2>2, Zenon DEF Booked
  <1>9. ASSUME Kept(p, r) PROVE Kept(q, r)
    <2> SUFFICES ASSUME NEW id \in DOMAIN r, r[id].outcome = "waiting"
                 PROVE  \E n, i : Place(q, n, i) /\ q[n].callbacks[i] = id
      BY Zenon DEF Kept
    <2>1. PICK n, i : Place(p, n, i) /\ p[n].callbacks[i] = id
      BY <1>9, Zenon DEF Kept
    <2>2. n # l.entry
      <3>1. ~ Called(l, n, i)
        BY <1>0, <2>1
      <3> QED
        BY <1>5, <2>1, <3>1
    <2>3. Place(q, n, i) /\ q[n].callbacks[i] = id
      BY <1>1, <1>2, <1>6, <2>1, <2>2
    <2> QED
      BY <2>3, Zenon
  <1>10. Sound(q, r, Idle)
    <2>1. q \in [DOMAIN q -> Entries]
      OBVIOUS
    <2>2. Idle \in Loops /\ Idle.event = "none"
      BY DEF Idle, Loops
    <2> QED
      BY <1>8, <2>1, <2>2 DEF Sound
  <1> QED
    BY <1>9, <1>10 DEF q

\* What ExpressInterest adds to the calls.
LEMMA CallAppended ==
  ASSUME NEW r \in Seq(Calls), NEW life \in Nat
  PROVE  LET c == [own |-> life, outcome |-> "waiting"]
             s == Append(r, c)
         IN  /\ s \in Seq(Calls) /\ Len(s) = Len(r) + 1
             /\ Len(r) + 1 \notin DOMAIN r /\ DOMAIN s = DOMAIN r \cup {Len(r) + 1}
             /\ \A x \in DOMAIN r : s[x] = r[x]
             /\ s[Len(r) + 1] = c
PROOF
  <1> DEFINE c == [own |-> life, outcome |-> "waiting"]
             s == Append(r, c)
  <1>1. c \in Calls
    BY DEF Calls, Outcomes
  <1> HIDE DEF c
  <1>2. /\ s \in Seq(Calls) /\ Len(s) = Len(r) + 1
        /\ \A x \in 1 .. Len(r) : s[x] = r[x]
        /\ s[Len(r) + 1] = c
    BY <1>1, AppendProperties
  <1> HIDE DEF s
  <1>3. /\ DOMAIN r = 1 .. Len(r) /\ Len(r) \in Nat
        /\ DOMAIN s = 1 .. Len(r) + 1
    BY <1>2, LenProperties
  <1>4. Len(r) + 1 \notin DOMAIN r /\ DOMAIN s = DOMAIN r \cup {Len(r) + 1}
    BY <1>3
  <1> QED
    BY <1>2, <1>3, <1>4 DEF s, c

\* What ExpressInterest makes of the trie and of the calls.
Joined(p, n, id) == [p EXCEPT ![n].callbacks = Append(@, id)]
NewEntry(id, life) == [callbacks |-> <<id>>, left |-> life]
Asking(r, life) == Append(r, [own |-> life, outcome |-> "waiting"])

\* A call joins the entry of its name.
LEMMA CallJoined ==
  ASSUME NEW p, NEW r, NEW l, Sound(p, r, l), NEW n \in DOMAIN p, NEW life \in Nat
  PROVE  LET q == Joined(p, n, Len(r) + 1)
             s == Asking(r, life)
         IN  /\ Sound(q, s, l) /\ (Kept(p, r) => Kept(q, s))
             /\ DOMAIN q = DOMAIN p /\ \A m \in DOMAIN p : q[m].left = p[m].left
PROOF
  <1> DEFINE q == Joined(p, n, Len(r) + 1)
             s == Asking(r, life)
  <1>s. /\ p \in [DOMAIN p -> Entries] /\ r \in Seq(Calls) /\ l \in Loops
        /\ l.event # "none" => l.entry \in DOMAIN p
        /\ Booked(p, r, l)
    BY DEF Sound
  <1> USE <1>s
  <1>q. q = Joined(p, n, Len(r) + 1) /\ s = Asking(r, life)
    OBVIOUS
  <1> HIDE DEF q, s
  <1> USE <1>q
  <1> DEFINE id == Len(r) + 1
             c == p[n].callbacks
             k == Len(c) + 1
             e == [p[n] EXCEPT !.callbacks = Append(@, id)]
  <1>0. p[n] \in Entries /\ c \in Seq(Nat) /\ id \in Nat
    BY LenProperties DEF Entries
  <1>1. /\ Append(c, id) \in Seq(Nat) /\ Len(Append(c, id)) = k /\ Len(c) \in Nat
        /\ \A i \in 1 .. Len(c) : Append(c, id)[i] = c[i]
        /\ Append(c, id)[k] = id
    BY <1>0, AppendProperties, LenProperties
  <1>2. e \in Entries /\ e.callbacks = Append(c, id) /\ e.left = p[n].left
    BY <1>0, <1>1 DEF Entries
  <1>3. q = [p EXCEPT ![n] = e]
    BY Zenon DEF Joined
  <1>4. DOMAIN q = DOMAIN p /\ \A m \in DOMAIN p : q[m] = IF m = n THEN e ELSE p[m]
    BY <1>3, Zenon
  <1> HIDE DEF e
  <1>5. q \in [DOMAIN q -> Entries] /\ \A m \in DOMAIN p : q[m].left = p[m].left
    BY <1>2, <1>3, <1>4
  <1>6. \A m, i : Place(q, m, i) <=> Place(p, m, i) \/ (m = n /\ i = k)
    <2>1. \A m \in DOMAIN p : Len(q[m].callbacks) = IF m = n THEN k ELSE Len(p[m].callbacks)
      BY <1>1, <1>2, <1>4
    <2>2. \A i : i \in 1 .. k <=> i \in 1 .. Len(c) \/ i = k
      BY <1>1
    <2> HIDE DEF k
    <2> QED
      BY <1>4, <2>1, <2>2 DEF Place
  <1>7. \A m, i : Place(p, m, i) => q[m].callbacks[i] = p[m].callbacks[i]
    BY <1>1, <1>2, <1>4 DEF Place
  <1>8. q[n].callbacks[k] = id
    BY <1>1, <1>2, <1>4
  <1>9. /\ id \notin DOMAIN r /\ DOMAIN s = DOMAIN r \cup {id}
        /\ \A x \in DOMAIN r : s[x] = r[x]
        /\ s[id] = [own |-> life, outcome |-> "waiting"]
    BY CallAppended DEF Asking
  <1>10. l.event # "none" => l.next \in 2 .. Len(p[l.entry].callbacks) + 1
    BY Zenon DEF Booked
  <1>11. ~ Called(l, n, k)
    BY <1>1, <1>10 DEF Called
  <1>12. s[id].outcome = "waiting"
    BY <1>9
  <1>13. \A m \in DOMAIN p : Place(p, m, 1) /\ p[m].callbacks[1] \in DOMAIN r
    BY Zenon DEF Booked, Listed
  <1> HIDE DEF id, c, k
  <1>14. Listed(q, s, l) /\ (Kept(p, r) => Kept(q, s))
    <2>1. Listed(p, r, l)
      BY Zenon DEF Booked
    <2>2. Adds(p, r, q, s, n, k, id)
      BY <1>6, <1>7, <1>8, <1>9, <1>12, Zenon DEF Adds
    <2> QED
      BY <1>11, <2>1, <2>2, PlaceAdded
  <1>15. \A m \in DOMAIN q : Place(q, m, 1)
    BY <1>4, <1>6, <1>13, Zenon
  <1>16. l.event # "none" => l.next \in 2 .. Len(q[l.entry].callbacks) + 1
    <2> SUFFICES ASSUME l.event # "none"
                 PROVE  l.next \in 2 .. Len(q[l.entry].callbacks) + 1
      OBVIOUS
    <2>1. CASE l.entry = n
      BY <1>1, <1>2, <1>4, <1>10, <2>1 DEF k, c
    <2>2. CASE l.entry # n
      BY <1>4, <1>10, <2>2
    <2> QED
      BY <2>1, <2>2
  <1>17. \A m \in DOMAIN q : (l.event # "none" => m # l.entry) =>
           q[m].left = s[q[m].callbacks[1]].own
    <2> SUFFICES ASSUME NEW m \in DOMAIN p, l.event # "none" => m # l.entry
                 PROVE  q[m].left = s[q[m].callbacks[1]].own
      BY <1>4
    <2>1. p[m].left = r[p[m].callbacks[1]].own
      BY Zenon DEF Booked
    <2>2. q[m].callbacks[1] = p[m].callbacks[1] /\ q[m].left = p[m].left
      BY <1>5, <1>7, <1>13
    <2>3. s[p[m].callbacks[1]] = r[p[m].callbacks[1]]
      BY <1>9, <1>13
    <2> QED
      BY <2>1, <2>2, <2>3
  <1>18. Booked(q, s, l)
    BY <1>14, <1>15, <1>16, <1>17, Zenon DEF Booked
  <1>19. Sound(q, s, l)
    <2>1. s \in Seq(Calls)
      BY CallAppended DEF Asking
    <2> QED
      BY <1>4, <1>5, <1>18, <2>1 DEF Sound
  <1> QED
    BY <1>4, <1>5, <1>14, <1>19 DEF q, s

\* A call makes an entry.
Enters(p, r, l, n, life, e) ==
    /\ Sound(p, r, l) /\ n \notin DOMAIN p /\ life \in Nat
    /\ e = NewEntry(Len(r) + 1, life)

LEMMA EntryMade ==
  ASSUME NEW p, NEW r, NEW l, NEW n, NEW life, NEW e, Enters(p, r, l, n, life, e)
  PROVE  LET q == With(p, n, e)
             s == Asking(r, life)
         IN  /\ Sound(q, s, l) /\ (Kept(p, r) => Kept(q, s))
             /\ e \in Entries /\ DOMAIN q = DOMAIN p \cup {n}
PROOF
  <1> DEFINE q == With(p, n, e)
             s == Asking(r, life)
  <1>w. /\ DOMAIN q = DOMAIN p \cup {n} /\ q[n] = e
        /\ \A m \in DOMAIN p : m # n => q[m] = p[m]
        /\ p \in [DOMAIN p -> Entries] /\ e \in Entries => q \in [DOMAIN q -> Entries]
    BY WithElements
  <1>s. /\ p \in [DOMAIN p -> Entries] /\ r \in Seq(Calls) /\ l \in Loops
        /\ l.event # "none" => l.entry \in DOMAIN p
        /\ Booked(p, r, l) /\ n \notin DOMAIN p /\ life \in Nat
    BY DEF Enters, Sound
  <1> USE <1>s
  <1>q. e = NewEntry(Len(r) + 1, life) /\ q = With(p, n, e) /\ s = Asking(r, life)
    BY DEF Enters
  <1> HIDE DEF q, s
  <1> USE <1>q
  <1> DEFINE id == Len(r) + 1
             c == <<id>>
  <1>1. id \in Nat
    BY LenProperties
  <1>2. c \in Seq(Nat) /\ Len(c) = 1 /\ c[1] = id
    BY <1>1
  <1> HIDE DEF c
  <1>3. e \in Entries /\ e.callbacks = c /\ e.left = life
    BY <1>2 DEF Entries, c, NewEntry
  <1>4. /\ DOMAIN q = DOMAIN p \cup {n} /\ q[n] = e
        /\ \A m \in DOMAIN p : q[m] = p[m] /\ m # n
    <2>1. \A m \in DOMAIN p : m # n
      OBVIOUS
    <2> QED
      BY <1>w, <2>1
  <1>5. q \in [DOMAIN q -> Entries]
    BY <1>w, <1>3
  <1>6. \A m, i : Place(q, m, i) <=> Place(p, m, i) \/ (m = n /\ i = 1)
    <2>1. \A i : i \in 1 .. Len(q[n].callbacks) <=> i = 1
      <3>1. Len(q[n].callbacks) = 1
        BY <1>2, <1>3, <1>4
      <3>2. \A i : i \in 1 .. 1 <=> i = 1
        OBVIOUS
      <3> QED
        BY <3>1, <3>2, Zenon
    <2> QED
      BY <1>4, <2>1 DEF Place
  <1>7. \A m, i : Place(p, m, i) => q[m].callbacks[i] = p[m].callbacks[i]
    BY <1>4 DEF Place
  <1>8. q[n].callbacks[1] = id /\ q[n].left = life
    BY <1>2, <1>3, <1>4
  <1>9. /\ id \notin DOMAIN r /\ DOMAIN s = DOMAIN r \cup {id}
        /\ \A x \in DOMAIN r : s[x] = r[x]
        /\ s[id] = [own |-> life, outcome |-> "waiting"]
    BY CallAppended DEF Asking
  <1>10. s[id].outcome = "waiting" /\ s[id].own = life
    BY <1>9
  <1>11. ~ Called(l, n, 1)
    BY DEF Called
  <1>12. \A m \in DOMAIN p : Place(p, m, 1) /\ p[m].callbacks[1] \in DOMAIN r
    BY Zenon DEF Booked, Listed
  <1> HIDE DEF id
  <1>13. Listed(q, s, l) /\ (Kept(p, r) => Kept(q, s))
    <2>1. Listed(p, r, l)
      BY Zenon DEF Booked
    <2>2. Adds(p, r, q, s, n, 1, id)
      BY <1>6, <1>7, <1>8, <1>9, <1>10, Zenon DEF Adds
    <2> QED
      BY <1>11, <2>1, <2>2, PlaceAdded
  <1>14. \A m \in DOMAIN q : Place(q, m, 1)
    BY <1>4, <1>6, <1>12
  <1>15. l.event # "none" => l.next \in 2 .. Len(q[l.entry].callbacks) + 1
    <2>1. l.event # "none" => l.next \in 2 .. Len(p[l.entry].callbacks) + 1
      BY Zenon DEF Booked
    <2> QED
      BY <1>4, <2>1
  <1>16. \A m \in DOMAIN q : (l.event # "none" => m # l.entry) =>
           q[m].left = s[q[m].callbacks[1]].own
    <2> SUFFICES ASSUME NEW m \in DOMAIN q, l.event # "none" => m # l.entry
                 PROVE  q[m].left = s[q[m].callbacks[1]].own
      OBVIOUS
    <2>1. CASE m = n
      BY <1>8, <1>10, <2>1
    <2>2. CASE m \in DOMAIN p
      <3>1. p[m].left = r[p[m].callbacks[1]].own
        BY <2>2, Zenon DEF Booked
      <3> QED
        BY <1>4, <1>9, <1>12, <2>2, <3>1
    <2> QED
      BY <1>4, <2>1, <2>2
  <1>17. Booked(q, s, l)
    BY <1>13, <1>14, <1>15, <1>16, Zenon DEF Booked
  <1>18. Sound(q, s, l)
    <2>1. s \in Seq(Calls)
      BY CallAppended DEF Asking
    <2> QED
      BY <1>4, <1>5, <1>17, <2>1 DEF Sound
  <1> QED
    BY <1>3, <1>4, <1>13, <1>18 DEF q, s

\* A loop comes to its next callback, from l to h: the first of an entry, or the
\* one after those it has called.
Comes(p, l, h) ==
    /\ h \in Loops /\ h.event # "none" /\ h.entry \in DOMAIN p
    /\ \/ l.event = "none" /\ h.next = 2
       \/ /\ l.event = h.event /\ l.entry = h.entry /\ h.next = l.next + 1
          /\ l.next <= Len(p[l.entry].callbacks)

LEMMA LoopComes ==
  ASSUME NEW p, NEW r, NEW l, Sound(p, r, l), NEW h, Comes(p, l, h)
  PROVE  LET s == Made(p, r, h.entry, h.next - 1, h.event)
         IN  /\ Sound(p, s, h) /\ (Kept(p, r) => Kept(p, s))
             /\ Len(s) = Len(r) /\ Follows(r, s)
PROOF
  <1> DEFINE s == Made(p, r, h.entry, h.next - 1, h.event)
  <1>s. /\ p \in [DOMAIN p -> Entries] /\ r \in Seq(Calls) /\ l \in Loops
        /\ l.event # "none" => l.entry \in DOMAIN p
        /\ Booked(p, r, l)
    BY DEF Sound
  <1> USE <1>s
  <1>q. s = Made(p, r, h.entry, h.next - 1, h.event)
    OBVIOUS
  <1> HIDE DEF s
  <1> USE <1>q
  <1> DEFINE n == h.entry
             i == h.next - 1
  <1>1. /\ h \in Loops /\ h.event \in {"data", "timeout"} /\ n \in DOMAIN p
        /\ \/ l.event = "none" /\ h.next = 2
           \/ /\ l.event # "none" /\ l.entry = n /\ h.next = l.next + 1
              /\ l.next <= Len(p[n].callbacks) /\ l.next \in Nat
    BY DEF Comes, Loops
  <1>2. p[n].callbacks \in Seq(Nat) /\ Len(p[n].callbacks) \in Nat
    BY <1>1, LenProperties DEF Entries
  <1>3. \A m \in DOMAIN p : Place(p, m, 1) /\ p[m].callbacks[1] \in DOMAIN r
    BY Zenon DEF Booked, Listed
  <1>4. l.event # "none" => l.next \in 2 .. Len(p[l.entry].callbacks) + 1
    BY Zenon DEF Booked
  <1>5. Place(p, n, i) /\ i \in Nat
    BY <1>1, <1>2, <1>3, <1>4 DEF Place
  <1>6. ~ Called(l, n, i)
    BY <1>1, <1>5 DEF Called
  <1>7. \A m, j : Place(p, m, j) => (Called(h, m, j) <=> Called(l, m, j) \/ (m = n /\ j = i))
    BY <1>1, <1>5 DEF Called, Place
  <1>8. Listed(p, r, l)
    BY Zenon DEF Booked
  <1>9. s = Made(p, r, n, i, h.event)
    OBVIOUS
  <1> HIDE DEF n, i
  <1>10. Makes(p, r, s, l, h, n, i)
    <2>1. \A m, j : Place(p, m, j) =>
            (Called(h, m, j) <=> Called(l, m, j) \/ (m = n /\ j = i))
      BY <1>7, Zenon
    <2>2. h.event \in {"data", "timeout"}
      BY <1>1
    <2> QED
      BY <1>5, <1>6, <1>8, <1>9, <2>1, <2>2, Zenon DEF Makes
  <1>11. /\ s \in Seq(Calls) /\ Len(s) = Len(r)
         /\ Listed(p, s, h) /\ (Kept(p, r) => Kept(p, s)) /\ Follows(r, s)
    BY <1>10, CallMade
  <1>12. h.next \in 2 .. Len(p[h.entry].callbacks) + 1
    <2>1. h.next \in Nat /\ i \in 1 .. Len(p[n].callbacks) /\ i = h.next - 1
      BY <1>1, <1>5 DEF Loops, Place, i
    <2> QED
      BY <1>2, <2>1 DEF n
  <1>13. \A m \in DOMAIN p : m # h.entry => p[m].left = s[p[m].callbacks[1]].own
    <2> SUFFICES ASSUME NEW m \in DOMAIN p, m # n
                 PROVE  p[m].left = s[p[m].callbacks[1]].own
      BY DEF n
    <2>1. l.event # "none" => m # l.entry
      BY <1>1
    <2>2. p[m].left = r[p[m].callbacks[1]].own
      BY <2>1, Zenon DEF Booked
    <2>3. s[p[m].callbacks[1]].own = r[p[m].callbacks[1]].own
      BY <1>3, <1>11, Zenon DEF Follows
    <2> QED
      BY <2>2, <2>3
  <1>14. h.event # "none"
    BY <1>1
  <1>15. Booked(p, s, h)
    BY <1>3, <1>11, <1>12, <1>13, <1>14, Zenon DEF Booked
  <1>16. Sound(p, s, h)
    BY <1>1, <1>11, <1>15 DEF Sound, n
  <1> QED
    BY <1>11, <1>16 DEF s

\* The clock takes the time off the entries and off the calls that wait.
Later(p) == [n \in DOMAIN p |-> [p[n] EXCEPT !.left = Less(@)]]
CalledLater(r) == [x \in DOMAIN r |-> IF r[x].outcome = "waiting"
                                     THEN [r[x] EXCEPT !.own = Less(@)] ELSE r[x]]

LEMMA ClockTicks ==
  ASSUME NEW p, NEW r, NEW l, Sound(p, r, l), l.event = "none"
  PROVE  LET q == Later(p)
             s == CalledLater(r)
         IN  /\ Sound(q, s, l) /\ (Kept(p, r) => Kept(q, s))
             /\ DOMAIN q = DOMAIN p /\ \A n \in DOMAIN p : q[n].left = Less(p[n].left)
             /\ Len(s) = Len(r)
             /\ \A x \in DOMAIN r : r[x].outcome # "waiting" => s[x] = r[x]
PROOF
  <1> DEFINE q == Later(p)
             s == CalledLater(r)
  <1>s. /\ p \in [DOMAIN p -> Entries] /\ r \in Seq(Calls) /\ l \in Loops
        /\ l.event # "none" => l.entry \in DOMAIN p
        /\ Booked(p, r, l)
    BY DEF Sound
  <1> USE <1>s
  <1>q. /\ q = [n \in DOMAIN p |-> [p[n] EXCEPT !.left = Less(@)]]
        /\ s = [x \in DOMAIN r |-> IF r[x].outcome = "waiting"
                                   THEN [r[x] EXCEPT !.own = Less(@)] ELSE r[x]]
    BY Zenon DEF Later, CalledLater
  <1> HIDE DEF q, s
  <1> USE <1>q
  <1>0. \A n \in Nat : Less(n) \in Nat
    BY DEF Less
  <1>1. \A n \in DOMAIN p : p[n].callbacks \in Seq(Nat) /\ p[n].left \in Nat
    BY DEF Entries
  <1>2. DOMAIN r = 1 .. Len(r) /\ Len(r) \in Nat /\ \A x \in DOMAIN r : r[x] \in Calls
    BY LenProperties, ElementOfSeq
  <1>3. /\ DOMAIN q = DOMAIN p
        /\ \A n \in DOMAIN p : /\ q[n] \in Entries
                               /\ q[n].callbacks = p[n].callbacks
                               /\ q[n].left = Less(p[n].left)
    <2> SUFFICES ASSUME NEW n \in DOMAIN p
                 PROVE  /\ q[n] \in Entries
                        /\ q[n].callbacks = p[n].callbacks
                        /\ q[n].left = Less(p[n].left)
      OBVIOUS
    <2> DEFINE t == Less(p[n].left)
    <2>1. q[n] = [p[n] EXCEPT !.left = t]
      OBVIOUS
    <2>2. t \in Nat /\ p[n] \in Entries
      BY <1>0, <1>1
    <2> HIDE DEF t
    <2> QED
      BY <2>1, <2>2 DEF Entries, t
  <1>4. q \in [DOMAIN q -> Entries]
    <2>1. q \in [DOMAIN p -> Entries]
      BY <1>3
    <2> QED
      BY <1>3, <2>1
  <1>5. /\ DOMAIN s = DOMAIN r
        /\ \A x \in DOMAIN r :
             /\ s[x] \in Calls /\ s[x].outcome = r[x].outcome
             /\ r[x].outcome = "waiting" => s[x].own = Less(r[x].own)
             /\ r[x].outcome # "waiting" => s[x] = r[x]
    <2> SUFFICES ASSUME NEW x \in DOMAIN r
                 PROVE  /\ s[x] \in Calls /\ s[x].outcome = r[x].outcome
                        /\ r[x].outcome = "waiting" => s[x].own = Less(r[x].own)
                        /\ r[x].outcome # "waiting" => s[x] = r[x]
      OBVIOUS
    <2> DEFINE t == Less(r[x].own)
    <2>1. s[x] = IF r[x].outcome = "waiting" THEN [r[x] EXCEPT !.own = t] ELSE r[x]
      OBVIOUS
    <2>2. t \in Nat
      BY <1>0, <1>2 DEF Calls
    <2>3. r[x] \in Calls
      BY <1>2
    <2> HIDE DEF t
    <2> QED
      BY <2>1, <2>2, <2>3 DEF Calls, t
  <1>6. s \in Seq(Calls) /\ Len(s) = Len(r)
    <2>1. s \in [1 .. Len(r) -> Calls]
      BY <1>2, <1>5
    <2>2. s \in Seq(Calls)
      BY <1>2, <2>1, SeqDef
    <2> QED
      BY <1>2, <2>1, <2>2, LenProperties
  <1>7. \A n, i : Place(q, n, i) <=> Place(p, n, i)
    BY <1>3 DEF Place
  <1>8. \A n, i : Place(p, n, i) => q[n].callbacks = p[n].callbacks
    BY <1>3 DEF Place
  <1>9. /\ \A n, i : Place(p, n, i) =>
              /\ p[n].callbacks[i] \in DOMAIN r
              /\ r[p[n].callbacks[i]].outcome = "waiting" <=> ~ Called(l, n, i)
        /\ \A n, i, m, j : Place(p, n, i) /\ Place(p, m, j) =>
              (p[n].callbacks[i] = p[m].callbacks[j] => n = m /\ i = j)
        /\ \A n \in DOMAIN p : Place(p, n, 1) /\ p[n].left = r[p[n].callbacks[1]].own
    BY Zenon DEF Booked, Listed
  <1>10. Listed(q, s, l)
    <2>1. \A n, i : Place(q, n, i) =>
            /\ q[n].callbacks[i] \in DOMAIN s
            /\ s[q[n].callbacks[i]].outcome = "waiting" <=> ~ Called(l, n, i)
      <3> TAKE n, i
      <3> HAVE Place(q, n, i)
      <3> DEFINE x == p[n].callbacks[i]
      <3>1. /\ x \in DOMAIN r /\ q[n].callbacks[i] = x
            /\ r[x].outcome = "waiting" <=> ~ Called(l, n, i)
        BY <1>7, <1>8, <1>9
      <3> HIDE DEF x
      <3> QED
        BY <1>5, <3>1
    <2>2. \A n, i, m, j : Place(q, n, i) /\ Place(q, m, j) =>
            (q[n].callbacks[i] = q[m].callbacks[j] => n = m /\ i = j)
      <3> TAKE n, i, m, j
      <3> HAVE Place(q, n, i) /\ Place(q, m, j)
      <3>1. /\ Place(p, n, i) /\ Place(p, m, j)
            /\ q[n].callbacks = p[n].callbacks /\ q[m].callbacks = p[m].callbacks
        BY <1>7, <1>8
      <3> QED
        BY <1>9, <3>1
    <2> QED
      BY <2>1, <2>2, Zenon DEF Listed
  <1>11. \A n \in DOMAIN q : Place(q, n, 1) /\ q[n].left = s[q[n].callbacks[1]].own
    <2> SUFFICES ASSUME NEW n \in DOMAIN p
                 PROVE  Place(q, n, 1) /\ q[n].left = s[q[n].callbacks[1]].own
      BY <1>3
    <2> DEFINE x == p[n].callbacks[1]
    <2>1. x \in DOMAIN r /\ p[n].left = r[x].own
      BY <1>9
    <2>2. r[x].outcome = "waiting"
      <3>1. ~ Called(l, n, 1)
        BY DEF Called
      <3> QED
        BY <1>9, <3>1
    <2>3. q[n].callbacks[1] = x /\ Place(q, n, 1)
      BY <1>7, <1>8, <1>9
    <2> HIDE DEF x
    <2> QED
      BY <1>3, <1>5, <2>1, <2>2, <2>3
  <1>12. Booked(q, s, l)
    BY <1>10, <1>11, Zenon DEF Booked
  <1>13. ASSUME Kept(p, r) PROVE Kept(q, s)
    <2> SUFFICES ASSUME NEW x \in DOMAIN s, s[x].outcome = "waiting"
                 PROVE  \E n, i : Place(q, n, i) /\ q[n].callbacks[i] = x
      BY Zenon DEF Kept
    <2>1. x \in DOMAIN r /\ r[x].outcome = "waiting"
      BY <1>5
    <2>2. PICK n, i : Place(p, n, i) /\ p[n].callbacks[i] = x
      BY <1>13, <2>1, Zenon DEF Kept
    <2>3. Place(q, n, i) /\ q[n].callbacks[i] = x
      BY <1>7, <1>8, <2>2
    <2> QED
      BY <2>3, Zenon
  <1>14. Sound(q, s, l)
    BY <1>4, <1>6, <1>12 DEF Sound
  <1> QED
    BY <1>3, <1>5, <1>6, <1>13, <1>14 DEF q, s

\* Times that fall together keep their order.
LEMMA ClockSorted ==
  ASSUME NEW p, p \in [DOMAIN p -> Entries], NEW o \in Seq(Names), Sorted(p, o),
         NEW q, DOMAIN q = DOMAIN p, \A n \in DOMAIN p : q[n].left = Less(p[n].left)
  PROVE  Sorted(q, o)
PROOF
  <1>1. ASSUME NEW n, NEW m, Ahead(o, n, m) PROVE q[n].left <= q[m].left
    <2>1. n \in DOMAIN p /\ m \in DOMAIN p /\ p[n].left <= p[m].left
      BY <1>1 DEF Sorted, Ahead, ToSet
    <2>2. p[n].left \in Nat /\ p[m].left \in Nat
      BY <2>1 DEF Entries
    <2>3. Less(p[n].left) <= Less(p[m].left)
      BY <2>1, <2>2 DEF Less
    <2> QED
      BY <2>1, <2>3
  <1> QED
    BY <1>1 DEF Sorted

\* Of the pending prefixes of some Data there is a longest.
LEMMA LongestExists ==
  ASSUME NEW p, DOMAIN p \subseteq Names, NEW d \in Seq(Nat), Matching(p, d) # {}
  PROVE  Longest(Matching(p, d)) \in Matching(p, d)
PROOF
  <1> DEFINE M == Matching(p, d)
             L == {Len(d) - Len(n) : n \in M}
  <1>1. \A n \in M : n \in Seq(Nat) /\ Len(n) <= Len(d)
    BY NameAssumption DEF Matching, IsPrefix
  <1>2. /\ \A n \in M : Len(n) \in Nat /\ Len(n) <= Len(d)
        /\ Len(d) \in Nat
    BY <1>1, LenProperties
  <1> HIDE DEF M
  <1>3. L \in SUBSET Nat /\ L # {}
    BY <1>2 DEF M
  <1>4. PICK k \in L : \A j \in L : k <= j
    <2> HIDE DEF L
    <2> QED
      BY <1>3, Least
  <1>5. PICK n \in M : k = Len(d) - Len(n)
    OBVIOUS
  <1>6. \A m \in M : Len(m) <= Len(n)
    <2> SUFFICES ASSUME NEW m \in M PROVE Len(m) <= Len(n)
      OBVIOUS
    <2>1. Len(d) - Len(n) <= Len(d) - Len(m)
      BY <1>4, <1>5
    <2> QED
      BY <1>2, <2>1
  <1>7. Longest(M) \in M
    BY <1>6, Zenon DEF Longest
  <1> QED
    BY <1>7 DEF M

(***************************************************************************)
(* The timer.                                                              *)
(***************************************************************************)
\* The empty trie and container.
LEMMA EmptyTable ==
  /\ <<>> \in [DOMAIN <<>> -> Entries] /\ DOMAIN <<>> = {}
  /\ \A S : <<>> \in Seq(S)
  /\ Sorted(<<>>, <<>>)
PROOF
  <1>1. <<>> \in Seq(Entries) /\ Len(<<>>) = 0
    OBVIOUS
  <1>2. <<>> \in [1 .. 0 -> Entries] /\ DOMAIN <<>> = 1 .. 0
    BY <1>1, LenProperties
  <1>3. <<>> \in [DOMAIN <<>> -> Entries] /\ DOMAIN <<>> = {}
    BY <1>2
  <1>4. \A S : <<>> \in Seq(S)
    OBVIOUS
  <1>5. Sorted(<<>>, <<>>)
    BY <1>3 DEF Sorted, IsInjective, ToSet, Ahead
  <1> QED
    BY <1>3, <1>4, <1>5

LEMMA RescheduledType ==
  ASSUME NEW p, p \in [DOMAIN p -> Entries], NEW o \in Seq(Names), Sorted(p, o)
  PROVE  /\ Rescheduled(p, o) = NoTimer \/ Rescheduled(p, o) \in [item : Names, left : Nat]
         /\ o # <<>> => Head(o) \in DOMAIN p
PROOF
  <1>1. CASE o = <<>>
    BY <1>1 DEF Rescheduled
  <1>2. CASE o # <<>>
    <2>1. Head(o) \in Names /\ Head(o) = o[1] /\ 1 \in DOMAIN o
      BY <1>2, HeadTailProperties, EmptySeq, LenProperties
    <2>2. Head(o) \in DOMAIN p
      BY <2>1 DEF Sorted, ToSet
    <2>3. p[Head(o)].left \in Nat
      BY <2>2 DEF Entries
    <2> QED
      BY <1>2, <2>1, <2>2, <2>3 DEF Rescheduled
  <1> QED
    BY <1>1, <1>2

LEMMA InsertTimed ==
  ASSUME Shape, Timed, NEW n \in Names, n \notin DOMAIN pending, NEW e \in Entries,
         Insert(n, e), UNCHANGED <<up, loop>>
  PROVE  /\ pending' = With(pending, n, e)
         /\ order' \in Seq(Names) /\ Timed'
PROOF
  <1> DEFINE q == [m \in DOMAIN pending \cup {n} |-> IF m = n THEN e ELSE pending[m]]
             r == Inserted(q, order, n)
  <1>1. pending' = q /\ order' = r
    BY Zenon DEF Insert
  <1>2. timer' = IF Head(r) = n THEN Rescheduled(q, r) ELSE timer
    BY <1>1, Zenon DEF Insert
  <1>3. /\ pending \in [DOMAIN pending -> Entries] /\ order \in Seq(Names)
        /\ Sorted(pending, order)
    BY DEF Shape, Timed
  <1>4. /\ r \in Seq(Names) /\ Sorted(q, r) /\ r # <<>>
        /\ Head(r) # n => order # <<>> /\ Head(r) = Head(order)
        /\ (\E m \in DOMAIN pending : pending[m].left <= e.left) => Head(r) # n
    <2>1. q = With(pending, n, e)
      BY DEF With
    <2> HIDE DEF q
    <2> QED
      BY <1>3, <2>1, InsertedSorted
  <1>5. /\ DOMAIN q = DOMAIN pending \cup {n} /\ q[n] = e
        /\ \A m \in DOMAIN pending : q[m] = pending[m]
    OBVIOUS
  <1>6. q \in [DOMAIN q -> Entries]
    BY <1>3, <1>5
  <1> HIDE DEF q, r
  <1>7. /\ order # <<>> => Head(order) \in DOMAIN pending
        /\ Rescheduled(q, r) = NoTimer \/ Rescheduled(q, r) \in [item : Names, left : Nat]
    BY <1>3, <1>4, <1>6, RescheduledType
  <1>8. loop.event = "timeout" =>
          timer' = NoTimer /\ Head(r) = loop.entry /\ q[loop.entry].left = 0
    <2> SUFFICES ASSUME loop.event = "timeout"
                 PROVE  timer' = NoTimer /\ Head(r) = loop.entry /\ q[loop.entry].left = 0
      OBVIOUS
    <2>1. /\ timer = NoTimer /\ Head(order) = loop.entry
          /\ loop.entry \in DOMAIN pending /\ pending[loop.entry].left = 0
      BY DEF Timed, Shape, Running
    <2>2. pending[loop.entry].left <= e.left
      BY <2>1 DEF Entries
    <2>3. Head(r) # n
      BY <1>4, <2>1, <2>2
    <2> QED
      BY <1>2, <1>4, <1>5, <2>1, <2>3
  <1>9. loop.event # "timeout" => timer' = Rescheduled(q, r)
    <2> SUFFICES ASSUME loop.event # "timeout", Head(r) # n PROVE timer = Rescheduled(q, r)
      BY <1>2
    <2>1. /\ order # <<>> /\ r # <<>> /\ Head(r) = Head(order)
          /\ q[Head(order)] = pending[Head(order)]
      BY <1>4, <1>5, <1>7
    <2>2. timer = Rescheduled(pending, order)
      BY <2>1 DEF Timed
    <2> QED
      BY <2>1, <2>2 DEF Rescheduled
  <1>10. timer' = NoTimer \/ timer' \in [item : Names, left : Nat]
    BY <1>7, <1>8, <1>9
  <1>11. Timed'
    BY <1>1, <1>4, <1>8, <1>9, <1>10 DEF Timed
  <1> QED
    BY <1>1, <1>4, <1>11, Zenon DEF q, With

LEMMA EraseTimed ==
  ASSUME Shape, Timed, Running, Erase(loop.entry)
  PROVE  /\ pending' = Without(pending, loop.entry)
         /\ order' \in Seq(Names) /\ Sorted(pending', order')
         /\ timer' = Rescheduled(pending', order')
PROOF
  <1> DEFINE n == loop.entry
             q == [m \in DOMAIN pending \ {n} |-> pending[m]]
             r == RemoveFirst(order, n)
  <1>1. pending' = q /\ order' = r
    BY Zenon DEF Erase
  <1>2. timer' = IF Head(order) = n THEN Rescheduled(q, r) ELSE timer
    BY <1>1, Zenon DEF Erase
  <1>3. /\ pending \in [DOMAIN pending -> Entries] /\ order \in Seq(Names)
        /\ Sorted(pending, order) /\ n \in DOMAIN pending
    BY DEF Shape, Timed
  <1>4. /\ r \in Seq(Names) /\ Sorted(q, r)
        /\ Head(order) # n => r # <<>> /\ Head(r) = Head(order)
    <2> HIDE DEF q, n
    <2> QED
      BY <1>3, ErasedSorted DEF q
  <1>5. \A m \in DOMAIN pending : m # n => q[m] = pending[m]
    OBVIOUS
  <1>6. order # <<>> /\ Head(order) \in DOMAIN pending
    BY <1>3, FirstExpires
  <1> HIDE DEF q, r, n
  <1>7. ASSUME Head(order) # n PROVE timer = Rescheduled(q, r)
    <2>1. timer = Rescheduled(pending, order)
      BY <1>3, <1>6, <1>7 DEF Timed, n
    <2>2. /\ r # <<>> /\ Head(r) = Head(order)
          /\ q[Head(order)] = pending[Head(order)]
      BY <1>4, <1>5, <1>6, <1>7
    <2> QED
      BY <1>6, <2>1, <2>2 DEF Rescheduled
  <1> QED
    BY <1>1, <1>2, <1>4, <1>7 DEF q, n, Without

(***************************************************************************)
(* The steps.                                                              *)
(***************************************************************************)
\* What ended a request stays.
Stays == \A id \in DOMAIN requests :
            requests[id].outcome # "waiting" => requests'[id] = requests[id]

LEMMA InitInductive == Init => Inductive
PROOF
  <1> SUFFICES ASSUME Init PROVE Inductive
    OBVIOUS
  <1>1. /\ pending = <<>> /\ order = <<>> /\ requests = <<>> /\ queue = <<>>
        /\ loop = Idle /\ timer = NoTimer /\ up = TRUE /\ puts = 0
        /\ filters = {} /\ routes = {} /\ asked = {}
    BY Zenon DEF Init
  <1>2. /\ pending \in [DOMAIN pending -> Entries] /\ DOMAIN pending = {}
        /\ Sorted(pending, order) /\ order \in Seq(Names)
    BY <1>1, EmptyTable, Zenon
  <1>3. /\ queue \in Seq([packet : {"Interest", "Data"}, name : Names])
        /\ requests \in Seq(Calls) /\ Len(requests) = 0 /\ DOMAIN requests = {}
    BY <1>1, EmptyTable, EmptySeq
  <1>4. loop \in Loops /\ ~ Running
    BY <1>1 DEF Loops, Idle, Running
  <1>5. MaxCalls \in Nat /\ MaxPuts \in Nat
    BY BoundAssumption
  <1>6. Shape
    BY <1>1, <1>2, <1>3, <1>4, <1>5 DEF Shape
  <1>7. Timed
    BY <1>1, <1>2, Zenon DEF Timed, Rescheduled, Idle
  <1>8. Booked(pending, requests, loop) /\ Kept(pending, requests)
    BY <1>2, <1>3, <1>4 DEF Booked, Listed, Kept, Place, Running
  <1> QED
    BY <1>6, <1>7, <1>8 DEF Inductive

LEMMA ExpressInterestSafe ==
  ASSUME Inductive, NEW n \in Names, NEW life \in Lifetimes, ExpressInterest(n, life)
  PROVE  Inductive' /\ Stays
PROOF
  <1> DEFINE e == NewEntry(Len(requests) + 1, life)
             k == [packet |-> "Interest", name |-> n]
  <1>1. /\ Len(requests) < MaxCalls
        /\ requests' = Asking(requests, life)
        /\ UNCHANGED <<up, filters, routes, asked, loop, puts>>
    BY Zenon DEF ExpressInterest, Asking
  <1>2. /\ n \in DOMAIN pending =>
              /\ pending' = Joined(pending, n, Len(requests) + 1)
              /\ UNCHANGED <<order, timer, queue>>
        /\ n \notin DOMAIN pending => Insert(n, e) /\ queue' = Append(queue, k)
    BY Zenon DEF ExpressInterest, Joined, NewEntry
  <1>3. /\ pending \in [DOMAIN pending -> Entries] /\ DOMAIN pending \subseteq Names
        /\ order \in Seq(Names) /\ requests \in Seq(Calls) /\ loop \in Loops
        /\ loop.event # "none" => loop.entry \in DOMAIN pending
        /\ Sound(pending, requests, loop)
        /\ queue \in Seq([packet : {"Interest", "Data"}, name : Names])
        /\ Shape /\ Timed /\ Booked(pending, requests, loop) /\ Kept(pending, requests)
    BY <1>1 DEF Inductive, Shape, Running, Sound
  <1>4. life \in Nat /\ MaxCalls \in Nat
    BY BoundAssumption
  <1>5. /\ requests' \in Seq(Calls) /\ Len(requests') = Len(requests) + 1
        /\ \A x \in DOMAIN requests : requests'[x] = requests[x]
    BY <1>1, <1>3, <1>4, CallAppended DEF Asking
  <1>6. queue' \in Seq([packet : {"Interest", "Data"}, name : Names])
    <2>1. k \in [packet : {"Interest", "Data"}, name : Names]
      OBVIOUS
    <2> HIDE DEF k
    <2>2. Append(queue, k) \in Seq([packet : {"Interest", "Data"}, name : Names])
      BY <1>3, <2>1, AppendProperties
    <2> QED
      BY <1>2, <1>3, <2>2, Zenon
  <1>7. /\ pending' \in [DOMAIN pending' -> Entries]
        /\ DOMAIN pending' = DOMAIN pending \cup {n}
        /\ Booked(pending', requests', loop) /\ Kept(pending', requests')
        /\ order' \in Seq(Names) /\ Timed'
    <2>1. CASE n \in DOMAIN pending
      <3>1. /\ Sound(pending', requests', loop)
            /\ Kept(pending, requests) => Kept(pending', requests')
            /\ DOMAIN pending' = DOMAIN pending
            /\ \A m \in DOMAIN pending : pending'[m].left = pending[m].left
        BY <1>1, <1>2, <1>3, <1>4, <2>1, CallJoined
      <3>2. Sorted(pending', order)
        <4>1. Sorted(pending, order)
          BY <1>3 DEF Timed
        <4>2. \A x, y : Ahead(order, x, y) => x \in DOMAIN pending /\ y \in DOMAIN pending
          BY <4>1 DEF Sorted, Ahead, ToSet
        <4> QED
          BY <3>1, <4>1, <4>2 DEF Sorted
      <3>3. Rescheduled(pending', order) = Rescheduled(pending, order)
        <4>1. order # <<>> => Head(order) \in DOMAIN pending
          BY <1>3, RescheduledType DEF Timed
        <4> QED
          BY <3>1, <4>1 DEF Rescheduled
      <3>4. Timed'
        <4>1. loop.event # "none" => pending'[loop.entry].left = pending[loop.entry].left
          BY <1>3, <3>1
        <4> QED
          BY <1>1, <1>2, <1>3, <2>1, <3>2, <3>3, <4>1 DEF Timed
      <3> QED
        BY <1>2, <1>3, <2>1, <3>1, <3>4 DEF Sound
    <2>2. CASE n \notin DOMAIN pending
      <3> DEFINE q == With(pending, n, e)
                 t == Asking(requests, life)
      <3>1. /\ Sound(q, t, loop) /\ (Kept(pending, requests) => Kept(q, t))
            /\ e \in Entries /\ DOMAIN q = DOMAIN pending \cup {n}
        <4>1. Enters(pending, requests, loop, n, life, e)
          BY <1>3, <1>4, <2>2, Zenon DEF Enters
        <4> HIDE DEF e
        <4>2. /\ Sound(q, t, loop) /\ (Kept(pending, requests) => Kept(q, t))
              /\ e \in Entries
          BY <4>1, EntryMade
        <4>3. DOMAIN q = DOMAIN pending \cup {n}
          BY DEF With
        <4> QED
          BY <4>2, <4>3
      <3>a. Insert(n, e)
        BY <1>2, <2>2
      <3> HIDE DEF e
      <3>2. /\ pending' = With(pending, n, e)
            /\ order' \in Seq(Names) /\ Timed'
        BY <1>1, <1>3, <2>2, <3>1, <3>a, InsertTimed
      <3>3. /\ Sound(pending', requests', loop)
            /\ DOMAIN pending' = DOMAIN pending \cup {n}
            /\ Kept(pending, requests) => Kept(pending', requests')
        BY <1>1, <3>1, <3>2, Zenon
      <3> QED
        BY <1>3, <3>2, <3>3 DEF Sound
    <2> QED
      BY <2>1, <2>2
  <1>8. Shape'
    <2>1. Len(requests') <= MaxCalls
      <3>1. Len(requests) \in Nat
        BY <1>3, LenProperties
      <3> QED
        BY <1>1, <1>4, <1>5, <3>1
    <2>2. DOMAIN pending' \subseteq Names /\ (Running' => loop.entry \in DOMAIN pending')
      BY <1>1, <1>3, <1>7 DEF Running
    <2> QED
      BY <1>1, <1>3, <1>5, <1>6, <1>7, <2>1, <2>2 DEF Shape
  <1>9. Stays
    BY <1>5 DEF Stays
  <1> QED
    BY <1>1, <1>7, <1>8, <1>9 DEF Inductive
Packets == [packet : {"Interest", "Data"}, name : Names]

\* What the invariant says, where it is needed.
LEMMA Known ==
  ASSUME Inductive
  PROVE  /\ pending \in [DOMAIN pending -> Entries] /\ DOMAIN pending \subseteq Names
         /\ order \in Seq(Names) /\ requests \in Seq(Calls) /\ loop \in Loops
         /\ loop.event # "none" => loop.entry \in DOMAIN pending
         /\ Sound(pending, requests, loop) /\ Kept(pending, requests)
         /\ queue \in Seq(Packets)
         /\ Shape /\ Timed /\ Sorted(pending, order)
PROOF
  BY DEF Inductive, Shape, Timed, Running, Sound, Packets

\* A step that leaves the Interests as they are.
LEMMA QuietSafe ==
  ASSUME Inductive, UNCHANGED <<up, pending, order, timer, loop, requests>>,
         filters' \subseteq routes' /\ routes' \subseteq Filters,
         queue' \in Seq(Packets), asked' \subseteq Names, puts' \in 0 .. MaxPuts,
         ~ up => asked' = {}
  PROVE  Inductive' /\ Stays
PROOF
  <1>1. Timed'
    BY DEF Inductive, Timed, Sorted
  <1>2. Booked(pending, requests, loop)' /\ Kept(pending, requests)'
    BY DEF Inductive
  <1>3. Shape'
    BY DEF Inductive, Shape, Running, Packets
  <1>4. Stays
    BY DEF Stays
  <1> QED
    BY <1>1, <1>2, <1>3, <1>4 DEF Inductive

LEMMA FiltersSafe ==
  ASSUME Inductive, NEW p \in Filters, SetInterestFilter(p) \/ ClearInterestFilter(p)
  PROVE  Inductive' /\ Stays
PROOF
  <1>1. /\ UNCHANGED <<up, pending, order, timer, loop, requests>>
        /\ UNCHANGED <<queue, asked, puts>>
        /\ \/ filters' = filters \cup {p} /\ routes' = routes \cup {p}
           \/ filters' = filters \ {p} /\ routes' = routes
    BY DEF SetInterestFilter, ClearInterestFilter
  <1>2. /\ filters \subseteq routes /\ routes \subseteq Filters /\ asked \subseteq Names
        /\ queue \in Seq(Packets) /\ puts \in 0 .. MaxPuts
        /\ ~ up => asked = {}
    BY DEF Inductive, Shape, Packets
  <1> QED
    BY <1>1, <1>2, QuietSafe

LEMMA PutSafe ==
  ASSUME Inductive, NEW n \in Names, Put(n)
  PROVE  Inductive' /\ Stays
PROOF
  <1> DEFINE k == [packet |-> "Data", name |-> n]
  <1>1. /\ UNCHANGED <<up, pending, order, timer, loop, requests>>
        /\ UNCHANGED <<filters, routes, asked>>
        /\ puts < MaxPuts /\ puts' = puts + 1 /\ queue' = Append(queue, k)
    BY DEF Put
  <1>2. /\ filters \subseteq routes /\ routes \subseteq Filters /\ asked \subseteq Names
        /\ queue \in Seq(Packets) /\ puts \in 0 .. MaxPuts
        /\ ~ up => asked = {}
    BY DEF Inductive, Shape, Packets
  <1>3. k \in Packets
    BY DEF Packets
  <1> HIDE DEF k
  <1>4. queue' \in Seq(Packets)
    BY <1>1, <1>2, <1>3, AppendProperties
  <1>5. puts' \in 0 .. MaxPuts
    BY <1>1, <1>2, BoundAssumption
  <1> QED
    BY <1>1, <1>2, <1>4, <1>5, QuietSafe

LEMMA QueueSafe ==
  ASSUME Inductive, RunQueue
  PROVE  Inductive' /\ Stays
PROOF
  <1>1. /\ UNCHANGED <<up, pending, order, timer, loop, requests>>
        /\ UNCHANGED <<filters, routes, puts>>
        /\ queue # <<>> /\ queue' = Tail(queue)
        /\ asked' = asked \/ (up /\ asked' = asked \cup {Head(queue).name})
    BY DEF RunQueue
  <1>2. /\ filters \subseteq routes /\ routes \subseteq Filters /\ asked \subseteq Names
        /\ queue \in Seq(Packets) /\ puts \in 0 .. MaxPuts
        /\ ~ up => asked = {}
    BY DEF Inductive, Shape, Packets
  <1>3. Head(queue) \in Packets /\ Tail(queue) \in Seq(Packets)
    BY <1>1, <1>2, HeadTailProperties
  <1>4. Head(queue).name \in Names
    BY <1>3 DEF Packets
  <1>5. asked' \subseteq Names /\ (~ up => asked' = {})
    BY <1>1, <1>2, <1>4
  <1> QED
    BY <1>1, <1>2, <1>3, <1>5, QuietSafe

LEMMA ForgetSafe ==
  ASSUME Inductive, NEW n, NodeForgets(n)
  PROVE  Inductive' /\ Stays
PROOF
  <1>1. /\ UNCHANGED <<up, pending, order, timer, loop, requests>>
        /\ UNCHANGED <<filters, routes, queue, puts>> /\ asked' = asked \ {n}
    BY DEF NodeForgets
  <1>2. /\ filters \subseteq routes /\ routes \subseteq Filters /\ asked \subseteq Names
        /\ queue \in Seq(Packets) /\ puts \in 0 .. MaxPuts
        /\ ~ up => asked = {}
    BY DEF Inductive, Shape, Packets
  <1> QED
    BY <1>1, <1>2, QuietSafe

\* The calls that wait end when the tables are emptied.
LEMMA CallsCleared ==
  ASSUME NEW r \in Seq(Calls)
  PROVE  LET s == Cleared(r)
         IN  /\ s \in Seq(Calls) /\ Len(s) = Len(r)
             /\ \A x \in DOMAIN s : s[x].outcome # "waiting"
             /\ \A x \in DOMAIN r : r[x].outcome # "waiting" => s[x] = r[x]
PROOF
  <1> DEFINE s == Cleared(r)
  <1>1. DOMAIN r = 1 .. Len(r) /\ Len(r) \in Nat /\ \A x \in DOMAIN r : r[x] \in Calls
    BY LenProperties, ElementOfSeq
  <1>2. /\ DOMAIN s = DOMAIN r
        /\ \A x \in DOMAIN r :
              s[x] = IF r[x].outcome = "waiting"
                     THEN [r[x] EXCEPT !.outcome = "cleared"] ELSE r[x]
    BY DEF Cleared
  <1> HIDE DEF s
  <1>3. ASSUME NEW x \in DOMAIN r
        PROVE  s[x] \in Calls /\ s[x].outcome # "waiting"
    <2>1. r[x] \in Calls /\ "cleared" \in Outcomes
      BY <1>1 DEF Outcomes
    <2> QED
      BY <1>2, <2>1 DEF Calls
  <1>4. s \in [1 .. Len(r) -> Calls]
    <2>1. s = [x \in DOMAIN s |-> s[x]]
      BY DEF s, Cleared
    <2> QED
      BY <1>1, <1>2, <1>3, <2>1
  <1>5. s \in Seq(Calls) /\ Len(s) = Len(r)
    BY <1>1, <1>4, SeqDef, LenProperties
  <1> QED
    BY <1>2, <1>3, <1>5 DEF s

\* The tables are emptied, and the calls that wait are over.
LEMMA ShutdownSafe ==
  ASSUME Inductive, Shutdown
  PROVE  Inductive' /\ Stays
PROOF
  <1>1. /\ loop.event = "none" /\ up' = FALSE
        /\ pending' = <<>> /\ order' = <<>> /\ requests' = Cleared(requests)
        /\ filters' = {} /\ routes' = {} /\ asked' = {}
        /\ UNCHANGED <<timer, queue, loop, puts>>
    BY DEF Shutdown, Running
  <1>2. /\ pending' \in [DOMAIN pending' -> Entries] /\ DOMAIN pending' = {}
        /\ order' \in Seq(Names) /\ Sorted(pending', order')
    BY <1>1, EmptyTable, Zenon
  <1>3. /\ requests' \in Seq(Calls) /\ Len(requests') = Len(requests)
        /\ \A x \in DOMAIN requests' : requests'[x].outcome # "waiting"
        /\ \A x \in DOMAIN requests :
              requests[x].outcome # "waiting" => requests'[x] = requests[x]
    <2>1. requests \in Seq(Calls)
      BY Known
    <2> QED
      BY <1>1, <2>1, CallsCleared
  <1>4. Timed'
    BY <1>1, <1>2 DEF Inductive, Timed
  <1>5. Booked(pending', requests', loop')
    BY <1>1, <1>2 DEF Booked, Listed, Place
  <1>6. Kept(pending', requests')
    BY <1>3, Zenon DEF Kept
  <1>7. Shape'
    BY <1>1, <1>2, <1>3 DEF Inductive, Shape, Running
  <1>8. Stays
    BY <1>3 DEF Stays
  <1> QED
    BY <1>4, <1>5, <1>6, <1>7, <1>8 DEF Inductive

\* A loop comes to its next callback.
LEMMA CallbackSafe ==
  ASSUME Inductive, Comes(pending, loop, loop'), UNCHANGED <<up, pending, order>>,
         requests' = Made(pending, requests, loop'.entry, loop'.next - 1, loop'.event),
         UNCHANGED <<filters, routes, queue, puts>>, asked' \subseteq asked, Timed'
  PROVE  Inductive' /\ Stays
PROOF
  <1>1. /\ Sound(pending, requests', loop') /\ Kept(pending, requests')
        /\ Len(requests') = Len(requests) /\ Follows(requests, requests')
    <2>1. Sound(pending, requests, loop) /\ Kept(pending, requests)
      BY Known
    <2> QED
      BY <2>1, LoopComes
  <1>2. requests' \in Seq(Calls) /\ Booked(pending, requests', loop')
    BY <1>1 DEF Sound
  <1>3. loop' \in Loops /\ loop'.entry \in DOMAIN pending
    BY DEF Comes
  <1>4. Shape'
    BY <1>1, <1>2, <1>3 DEF Inductive, Shape, Running
  <1>5. Stays
    BY <1>1 DEF Stays, Follows
  <1> QED
    BY <1>1, <1>2, <1>4, <1>5 DEF Inductive

\* What Begin makes of the loop and of the calls.
LEMMA Begins ==
  ASSUME NEW event \in {"data", "timeout"}, NEW n \in Seq(Nat), NEW d \in Seq(Nat),
         Begin(event, n, d)
  PROVE  /\ loop' \in Loops /\ loop'.event = event /\ loop'.entry = n /\ loop'.next = 2
         /\ requests' = Made(pending, requests, n, loop'.next - 1, event)
PROOF
  <1>1. /\ loop' = [event |-> event, entry |-> n, data |-> d, next |-> 2]
        /\ requests' = Made(pending, requests, loop'.entry, 1, event)
    BY Zenon DEF Begin, Outcome, Made
  <1>2. /\ loop'.event = event /\ loop'.entry = n /\ loop'.next = 2
        /\ loop' \in Loops
    BY <1>1 DEF Loops
  <1>3. loop'.next - 1 = 1
    BY <1>2
  <1> QED
    BY <1>1, <1>2, <1>3

LEMMA SendDataSafe ==
  ASSUME Inductive, NEW d \in Names, SendData(d)
  PROVE  Inductive' /\ Stays
PROOF
  <1>1. /\ up /\ loop.event = "none" /\ asked' \subseteq asked
        /\ UNCHANGED <<up, pending, order, timer, filters, routes, queue, puts>>
    BY DEF SendData, Running
  <1>2. d \in Seq(Nat) /\ \A n \in DOMAIN pending : n \in Seq(Nat)
    BY NameAssumption, Known
  <1>3. CASE Matching(pending, d) = {}
    <2>1. UNCHANGED <<loop, requests>>
      BY <1>3 DEF SendData
    <2>2. /\ filters \subseteq routes /\ routes \subseteq Filters /\ asked \subseteq Names
          /\ queue \in Seq(Packets) /\ puts \in 0 .. MaxPuts
      BY DEF Inductive, Shape, Packets
    <2> QED
      BY <1>1, <2>1, <2>2, QuietSafe
  <1>4. CASE Matching(pending, d) # {}
    <2> DEFINE n == Longest(Matching(pending, d))
    <2>1. Begin("data", n, d)
      BY <1>4 DEF SendData
    <2>2. n \in Matching(pending, d)
      BY <1>2, <1>4, LongestExists, Known
    <2>3. n \in DOMAIN pending
      BY <2>2 DEF Matching
    <2> HIDE DEF n
    <2>4. /\ Comes(pending, loop, loop') /\ loop'.event = "data"
          /\ requests' = Made(pending, requests, loop'.entry, loop'.next - 1, loop'.event)
      <3>1. n \in Seq(Nat)
        BY <1>2, <2>3
      <3>2. /\ loop' \in Loops /\ loop'.event = "data" /\ loop'.entry = n /\ loop'.next = 2
            /\ requests' = Made(pending, requests, n, loop'.next - 1, "data")
        BY <1>2, <2>1, <3>1, Begins
      <3> QED
        BY <1>1, <2>3, <3>2 DEF Comes
    <2>5. Timed'
      BY <1>1, <2>4 DEF Inductive, Timed
    <2> QED
      BY <1>1, <2>4, <2>5, CallbackSafe
  <1> QED
    BY <1>3, <1>4

\* The event that is due is that of the first entry, whose time is over.
LEMMA TimeoutSafe ==
  ASSUME Inductive, ProcessTimeoutEntry
  PROVE  Inductive' /\ Stays
PROOF
  <1>1. /\ loop.event = "none" /\ timer.left = 0 /\ timer.item \in DOMAIN pending
        /\ timer' = NoTimer /\ Begin("timeout", timer.item, <<>>)
        /\ UNCHANGED <<up, pending, order, filters, routes, queue, asked, puts>>
    BY DEF ProcessTimeoutEntry, Running
  <1>2. order # <<>>
    <2>1. order \in Seq(Names) /\ ToSet(order) = DOMAIN pending
      BY Known DEF Sorted
    <2> QED
      BY <1>1, <2>1, FirstExpires, Known
  <1>3. timer = Rescheduled(pending, order)
    BY <1>1, <1>2 DEF Inductive, Timed
  <1>5. timer.item = Head(order) /\ pending[Head(order)].left = 0
    BY <1>1, <1>2, <1>3 DEF Rescheduled
  <1>6. timer.item \in Seq(Nat) /\ <<>> \in Seq(Nat)
    BY <1>1, NameAssumption, Known
  <1>7. /\ Comes(pending, loop, loop') /\ loop'.event = "timeout"
        /\ loop'.entry = timer.item
        /\ requests' = Made(pending, requests, loop'.entry, loop'.next - 1, loop'.event)
    <2>1. /\ loop' \in Loops /\ loop'.event = "timeout" /\ loop'.entry = timer.item
          /\ loop'.next = 2
          /\ requests' = Made(pending, requests, timer.item, loop'.next - 1, "timeout")
      BY <1>1, <1>6, Begins
    <2> QED
      BY <1>1, <2>1 DEF Comes
  <1>8. Timed'
    BY <1>1, <1>5, <1>7 DEF Inductive, Timed
  <1> QED
    BY <1>1, <1>7, <1>8, CallbackSafe

LEMMA NextCallbackSafe ==
  ASSUME Inductive, NextCallback
  PROVE  Inductive' /\ Stays
PROOF
  <1>1. /\ loop.event # "none" /\ loop.next <= Len(pending[loop.entry].callbacks)
        /\ loop' = [loop EXCEPT !.next = @ + 1]
        /\ UNCHANGED <<up, pending, order, timer, filters, routes, queue, asked, puts>>
        /\ requests' = Made(pending, requests, loop'.entry, loop.next, loop.event)
    BY Zenon DEF NextCallback, Outcome, Made, Running
  <1>2. loop \in Loops /\ loop.entry \in DOMAIN pending
    BY <1>1, Known
  <1>3. /\ loop' \in Loops /\ loop'.event = loop.event /\ loop'.entry = loop.entry
        /\ loop'.next = loop.next + 1 /\ loop'.next - 1 = loop.next
    <2> DEFINE k == loop.next + 1
    <2>1. k \in Nat /\ k - 1 = loop.next
      BY <1>2 DEF Loops
    <2>2. loop' = [loop EXCEPT !.next = k]
      BY <1>1
    <2> HIDE DEF k
    <2>3. /\ loop' \in Loops /\ loop'.event = loop.event /\ loop'.entry = loop.entry
          /\ loop'.next = k
      BY <1>2, <2>1, <2>2 DEF Loops
    <2> QED
      BY <2>1, <2>3 DEF k
  <1>4. Comes(pending, loop, loop')
    BY <1>1, <1>2, <1>3 DEF Comes
  <1>5. Timed'
    BY <1>1, <1>3 DEF Inductive, Timed
  <1>6. requests' = Made(pending, requests, loop'.entry, loop'.next - 1, loop'.event)
    BY <1>1, <1>3
  <1> QED
    BY <1>1, <1>4, <1>5, <1>6, CallbackSafe

\* The entry goes, and the Data comes to another or its event is over.
LEMMA EndEntrySafe ==
  ASSUME Inductive, EndEntry
  PROVE  Inductive' /\ Stays
PROOF
  <1> DEFINE rest == Matching(pending', loop.data)
  <1>1. /\ loop.event # "none" /\ loop.next > Len(pending[loop.entry].callbacks)
        /\ Erase(loop.entry)
        /\ UNCHANGED <<up, filters, routes, queue, asked, puts>>
    BY DEF EndEntry, Running
  <1>2. /\ loop \in Loops /\ loop.entry \in DOMAIN pending
        /\ Sound(pending, requests, loop) /\ Kept(pending, requests)
        /\ DOMAIN pending \subseteq Names /\ Shape /\ Timed
    BY <1>1, Known
  <1>3. /\ pending' = Without(pending, loop.entry)
        /\ order' \in Seq(Names) /\ Sorted(pending', order')
        /\ timer' = Rescheduled(pending', order')
    BY <1>1, <1>2, EraseTimed DEF Running
  <1>4. Sound(pending', requests, Idle) /\ Kept(pending', requests)
    BY <1>1, <1>2, <1>3, EntryGone
  <1>5. /\ DOMAIN pending' \subseteq DOMAIN pending
        /\ \A n \in DOMAIN pending' : pending'[n] = pending[n]
    BY <1>3 DEF Without
  <1>6. pending' \in [DOMAIN pending' -> Entries] /\ requests \in Seq(Calls)
    BY <1>4 DEF Sound
  <1>7. /\ timer' = NoTimer \/ timer' \in [item : Names, left : Nat]
    BY <1>3, <1>6, RescheduledType
  <1>8. CASE loop.event = "data" /\ rest # {}
    <2> DEFINE n == Longest(rest)
    <2>1. Begin("data", n, loop.data)
      BY <1>8, Zenon DEF EndEntry
    <2>2. n \in rest
      <3>1. loop.data \in Seq(Nat) /\ DOMAIN pending' \subseteq Names
        BY <1>2, <1>5 DEF Loops
      <3> QED
        BY <1>8, <3>1, LongestExists
    <2>3. n \in DOMAIN pending' /\ n \in Seq(Nat) /\ pending'[n] = pending[n]
      <3>1. n \in DOMAIN pending'
        BY <2>2 DEF Matching
      <3> HIDE DEF n
      <3> QED
        BY <1>2, <1>5, <3>1, NameAssumption
    <2> HIDE DEF n, rest
    <2>4. /\ loop' \in Loops /\ loop'.event = "data" /\ loop'.entry = n /\ loop'.next = 2
          /\ requests' = Made(pending, requests, n, loop'.next - 1, "data")
      <3>1. loop.data \in Seq(Nat)
        BY <1>2 DEF Loops
      <3> QED
        BY <2>1, <2>3, <3>1, Begins
    <2>5. requests' = Made(pending', requests, loop'.entry, loop'.next - 1, loop'.event)
      <3>1. \A i : Made(pending, requests, n, i, "data") = Made(pending', requests, n, i, "data")
        BY <2>3, Zenon DEF Made
      <3> QED
        BY <2>4, <3>1
    <2>6. Comes(pending', Idle, loop')
      BY <2>3, <2>4 DEF Comes, Idle
    <2>7. /\ Sound(pending', requests', loop') /\ Kept(pending', requests')
          /\ Len(requests') = Len(requests) /\ Follows(requests, requests')
      BY <1>4, <2>5, <2>6, LoopComes
    <2>8. requests' \in Seq(Calls) /\ Booked(pending', requests', loop')
      BY <2>7 DEF Sound
    <2>9. Timed'
      BY <1>3, <1>7, <2>4 DEF Timed
    <2>10. Shape'
      BY <1>1, <1>2, <1>3, <1>5, <1>6, <2>3, <2>4, <2>7, <2>8 DEF Shape, Running
    <2>11. Stays
      BY <2>7 DEF Stays, Follows
    <2> QED
      BY <2>7, <2>8, <2>9, <2>10, <2>11 DEF Inductive
  <1>9. CASE ~ (loop.event = "data" /\ rest # {})
    <2>1. loop' = Idle /\ requests' = requests
      BY <1>9, Zenon DEF EndEntry
    <2>2. loop' \in Loops /\ loop'.event = "none"
      BY <2>1 DEF Loops, Idle
    <2>3. Timed'
      BY <1>3, <1>7, <2>2 DEF Timed
    <2>4. Booked(pending', requests', loop') /\ Kept(pending', requests')
      BY <1>4, <2>1 DEF Sound
    <2>5. Shape'
      BY <1>1, <1>2, <1>3, <1>5, <1>6, <2>1, <2>2 DEF Shape, Running
    <2>6. Stays
      BY <2>1 DEF Stays
    <2> QED
      BY <2>3, <2>4, <2>5, <2>6 DEF Inductive
  <1> QED
    BY <1>8, <1>9

LEMMA TickSafe ==
  ASSUME Inductive, Tick
  PROVE  Inductive' /\ Stays
PROOF
  <1>1. /\ loop.event = "none" /\ timer.left > 0
        /\ timer' = [timer EXCEPT !.left = timer.left - 1]
        /\ pending' = Later(pending) /\ requests' = CalledLater(requests)
        /\ UNCHANGED <<up, order, filters, routes, queue, asked, loop, puts>>
    BY Zenon DEF Tick, Later, CalledLater, Running
  <1>2. /\ pending \in [DOMAIN pending -> Entries] /\ order \in Seq(Names)
        /\ Sound(pending, requests, loop) /\ Kept(pending, requests)
        /\ Sorted(pending, order) /\ Shape /\ Timed
    BY Known
  <1>3. /\ Sound(pending', requests', loop)
        /\ Kept(pending, requests) => Kept(pending', requests')
        /\ DOMAIN pending' = DOMAIN pending
        /\ \A n \in DOMAIN pending : pending'[n].left = Less(pending[n].left)
        /\ Len(requests') = Len(requests)
        /\ \A x \in DOMAIN requests :
              requests[x].outcome # "waiting" => requests'[x] = requests[x]
    BY <1>1, <1>2, ClockTicks
  <1>4. Sorted(pending', order)
    BY <1>2, <1>3, ClockSorted
  <1>5. /\ pending' \in [DOMAIN pending' -> Entries] /\ requests' \in Seq(Calls)
        /\ Booked(pending', requests', loop)
    BY <1>3 DEF Sound
  <1>6. timer \in [item : Names, left : Nat]
    <2>1. timer # NoTimer
      BY <1>1 DEF NoTimer
    <2> QED
      BY <1>2, <2>1 DEF Timed
  <1>7. timer' \in [item : Names, left : Nat]
    BY <1>1, <1>6
  <1>8. Timed'
    <2>1. ASSUME order # <<>> PROVE timer' = Rescheduled(pending', order)
      <3>1. timer = [item |-> Head(order), left |-> pending[Head(order)].left]
        BY <1>1, <1>2, <2>1 DEF Timed, Rescheduled
      <3>2. Head(order) \in DOMAIN pending
        BY <1>2, <2>1, RescheduledType
      <3>3. pending'[Head(order)].left = timer.left - 1
        BY <1>1, <1>3, <3>1, <3>2 DEF Less
      <3> QED
        BY <1>1, <1>6, <2>1, <3>1, <3>3 DEF Rescheduled
    <2>2. ASSUME order = <<>> PROVE ~ up
      BY <1>1, <1>2, <2>2 DEF Timed, Rescheduled, NoTimer
    <2>3. Sorted(pending', order') /\ loop'.event # "timeout"
      BY <1>1, <1>4
    <2>4. timer' = Rescheduled(pending', order') \/ (~ up' /\ order' = <<>>)
      BY <1>1, <2>1, <2>2, Zenon
    <2> QED
      BY <1>7, <2>3, <2>4, Zenon DEF Timed
  <1>9. Shape'
    BY <1>1, <1>2, <1>3, <1>5 DEF Shape, Running
  <1>10. Stays
    BY <1>3 DEF Stays
  <1> QED
    BY <1>1, <1>2, <1>3, <1>5, <1>8, <1>9, <1>10 DEF Inductive

LEMMA NextSafe ==
  ASSUME Inductive, [Next]_vars
  PROVE  Inductive' /\ Stays
PROOF
  <1>1. ASSUME NEW n \in Names, NEW life \in Lifetimes, ExpressInterest(n, life)
        PROVE  Inductive' /\ Stays
    BY <1>1, ExpressInterestSafe
  <1>2. ASSUME NEW p \in Filters, SetInterestFilter(p) \/ ClearInterestFilter(p)
        PROVE  Inductive' /\ Stays
    BY <1>2, FiltersSafe
  <1>3. ASSUME NEW n \in Names, Put(n) PROVE Inductive' /\ Stays
    BY <1>3, PutSafe
  <1>4. CASE Shutdown
    BY <1>4, ShutdownSafe
  <1>5. CASE NextCallback
    BY <1>5, NextCallbackSafe
  <1>6. CASE EndEntry
    BY <1>6, EndEntrySafe
  <1>7. ASSUME NEW n \in Names, SendData(n) PROVE Inductive' /\ Stays
    BY <1>7, SendDataSafe
  <1>8. ASSUME NEW n \in Names, NodeForgets(n) PROVE Inductive' /\ Stays
    BY <1>8, ForgetSafe
  <1>9. CASE ProcessTimeoutEntry
    BY <1>9, TimeoutSafe
  <1>10. CASE RunQueue
    BY <1>10, QueueSafe
  <1>11. CASE Tick
    BY <1>11, TickSafe
  <1>12. CASE UNCHANGED vars
    <2>1. /\ UNCHANGED <<up, pending, order, timer, loop, requests>>
          /\ UNCHANGED <<filters, routes, queue, asked, puts>>
      BY <1>12 DEF vars
    <2>2. /\ filters \subseteq routes /\ routes \subseteq Filters /\ asked \subseteq Names
          /\ queue \in Seq(Packets) /\ puts \in 0 .. MaxPuts
          /\ ~ up => asked = {}
      BY DEF Inductive, Shape, Packets
    <2> QED
      BY <2>1, <2>2, QuietSafe
  <1> QED
    BY <1>1, <1>2, <1>3, <1>4, <1>5, <1>6, <1>7, <1>8, <1>9, <1>10, <1>11, <1>12, Zenon
       DEF Next, Application, Loop

LEMMA InductiveHolds == Spec => []Inductive
PROOF
  <1>1. Init => Inductive
    BY InitInductive
  <1>2. Inductive /\ [Next]_vars => Inductive'
    BY NextSafe
  <1> QED
    BY <1>1, <1>2, PTL DEF Spec

(***************************************************************************)
(* The theorems.                                                           *)
(***************************************************************************)
\* The state is well formed: what is set for a filter is in the FIB, an entry
\* holds calls that were made, and the node waits for nothing on behalf of a face
\* that is down.
THEOREM TypeCorrect == Spec => []TypeOK
PROOF
  <1>1. Inductive => TypeOK
    <2> SUFFICES ASSUME Inductive PROVE TypeOK
      OBVIOUS
    <2>1. ASSUME NEW n \in DOMAIN pending
          PROVE  pending[n].left \in Nat /\ pending[n].callbacks \in Seq(DOMAIN requests)
      <3> DEFINE c == pending[n].callbacks
      <3>1. pending[n] \in Entries
        BY Known
      <3>2. c \in Seq(Nat) /\ pending[n].left \in Nat
        BY <3>1 DEF Entries
      <3>3. \A i : Place(pending, n, i) => c[i] \in DOMAIN requests
        BY Zenon DEF Inductive, Booked, Listed
      <3>4. \A i \in 1 .. Len(c) : Place(pending, n, i)
        BY DEF Place
      <3> HIDE DEF c
      <3>5. c \in [1 .. Len(c) -> Nat] /\ Len(c) \in Nat
        BY <3>2, LenProperties
      <3>6. c \in [1 .. Len(c) -> DOMAIN requests]
        BY <3>3, <3>4, <3>5
      <3>7. c \in Seq(DOMAIN requests)
        BY <3>5, <3>6, SeqDef
      <3> QED
        BY <3>2, <3>7 DEF c
    <2>2. requests \in Seq([own : Nat, outcome : Outcomes])
      BY DEF Inductive, Shape, Calls
    <2>3. loop.event \in {"none", "data", "timeout"}
      BY DEF Inductive, Shape, Loops
    <2> QED
      BY <2>1, <2>2, <2>3 DEF Inductive, Shape, Timed, TypeOK
  <1> QED
    BY <1>1, InductiveHolds, PTL

\* Between events the policy holds just the pending names, in order of time, and
\* the one timeout event is that of the first, also after Shutdown.
THEOREM TimerRight == Spec => []TimerIsFirst
PROOF
  <1>1. Inductive => TimerIsFirst
    <2> SUFFICES ASSUME Inductive, ~ Running
                 PROVE  /\ ToSet(order) = DOMAIN pending
                        /\ Len(order) = Cardinality(DOMAIN pending)
                        /\ \A i \in 1 .. Len(order) - 1 :
                              pending[order[i]].left <= pending[order[i + 1]].left
                        /\ timer = Rescheduled(pending, order) \/ (~ up /\ order = <<>>)
      BY DEF TimerIsFirst
    <2>1. /\ order \in Seq(Names) /\ IsInjective(order) /\ ToSet(order) = DOMAIN pending
          /\ \A n, m : Ahead(order, n, m) => pending[n].left <= pending[m].left
      BY Known DEF Sorted
    <2>2. Cardinality(ToSet(order)) = Len(order)
      BY <2>1, ElementsCounted
    <2>3. ASSUME NEW i \in 1 .. Len(order) - 1
          PROVE  pending[order[i]].left <= pending[order[i + 1]].left
      <3>1. /\ i \in DOMAIN order /\ i + 1 \in DOMAIN order /\ i < i + 1
        BY <2>1, LenProperties
      <3>2. Ahead(order, order[i], order[i + 1])
        BY <3>1, Zenon DEF Ahead
      <3> QED
        BY <2>1, <3>2, Zenon
    <2>4. timer = Rescheduled(pending, order) \/ (~ up /\ order = <<>>)
      BY DEF Inductive, Timed, Running
    <2> QED
      BY <2>1, <2>2, <2>3, <2>4
  <1> QED
    BY <1>1, InductiveHolds, PTL

\* A callback that waits is at one place in one pending entry, and one that was
\* called or cleared is at none, but for the entry whose loop is running.
THEOREM NoCallForgotten == Spec => []RequestsTracked
PROOF
  <1> DEFINE At(n, id) == {i \in DOMAIN pending[n].callbacks : pending[n].callbacks[i] = id}
             Places(id) == UNION {{n} \X At(n, id) : n \in DOMAIN pending}
  <1>1. Inductive => RequestsTracked
    <2> SUFFICES ASSUME Inductive PROVE RequestsTracked
      OBVIOUS
    <2>1. /\ \A n, i : Place(pending, n, i) =>
                /\ pending[n].callbacks[i] \in DOMAIN requests
                /\ requests[pending[n].callbacks[i]].outcome = "waiting"
                      <=> ~ Called(loop, n, i)
          /\ \A n, i, m, j : Place(pending, n, i) /\ Place(pending, m, j) =>
                (pending[n].callbacks[i] = pending[m].callbacks[j] => n = m /\ i = j)
          /\ \A n \in DOMAIN pending : Place(pending, n, 1)
          /\ \A n \in DOMAIN pending : (loop.event # "none" => n # loop.entry) =>
                pending[n].left = requests[pending[n].callbacks[1]].own
          /\ Kept(pending, requests)
      BY Zenon DEF Inductive, Booked, Listed
    <2>2. \A n \in DOMAIN pending :
            /\ pending[n].callbacks \in Seq(Nat)
            /\ DOMAIN pending[n].callbacks = 1 .. Len(pending[n].callbacks)
      <3>1. \A n \in DOMAIN pending : pending[n].callbacks \in Seq(Nat)
        BY Known DEF Entries
      <3> QED
        BY <3>1, LenProperties
    <2>3. ASSUME NEW id, NEW z
          PROVE  z \in Places(id) <=>
                   \E n, i : /\ z = <<n, i>> /\ Place(pending, n, i)
                             /\ pending[n].callbacks[i] = id
      <3>1. ASSUME z \in Places(id)
            PROVE  \E n, i : /\ z = <<n, i>> /\ Place(pending, n, i)
                             /\ pending[n].callbacks[i] = id
        <4>1. PICK n \in DOMAIN pending : z \in {n} \X At(n, id)
          BY <3>1
        <4>2. PICK i \in At(n, id) : z = <<n, i>>
          BY <4>1
        <4>3. Place(pending, n, i) /\ pending[n].callbacks[i] = id
          BY <2>2, <4>2 DEF Place
        <4> QED
          BY <4>2, <4>3
      <3>2. ASSUME NEW n, NEW i, z = <<n, i>>, Place(pending, n, i),
                   pending[n].callbacks[i] = id
            PROVE  z \in Places(id)
        <4>1. n \in DOMAIN pending /\ i \in At(n, id)
          BY <2>2, <3>2 DEF Place
        <4> QED
          BY <3>2, <4>1
      <3> QED
        BY <3>1, <3>2
    <2>4. ASSUME NEW id \in DOMAIN requests, Waiting(id) PROVE Cardinality(Places(id)) = 1
      <3>1. PICK n, i : Place(pending, n, i) /\ pending[n].callbacks[i] = id
        BY <2>1, <2>4, Zenon DEF Kept, Waiting
      <3>2. \A m, j : Place(pending, m, j) /\ pending[m].callbacks[j] = id => m = n /\ j = i
        BY <2>1, <3>1
      <3> HIDE DEF Places
      <3>4. ASSUME NEW z \in Places(id) PROVE z = <<n, i>>
        <4>1. PICK m, j : /\ z = <<m, j>> /\ Place(pending, m, j)
                          /\ pending[m].callbacks[j] = id
          BY <2>3, Zenon
        <4>2. m = n /\ j = i
          BY <3>2, <4>1, Zenon
        <4> QED
          BY <4>1, <4>2
      <3>5. <<n, i>> \in Places(id)
        BY <2>3, <3>1, Zenon
      <3>3. Places(id) = {<<n, i>>}
        BY <3>4, <3>5
      <3> QED
        BY <3>3, FS_Singleton
    <2>5. ASSUME NEW id \in DOMAIN requests, ~ Waiting(id), NEW place \in Places(id)
          PROVE  Running /\ place[1] = loop.entry /\ place[2] < loop.next
      <3>1. PICK n, i : /\ place = <<n, i>> /\ Place(pending, n, i)
                        /\ pending[n].callbacks[i] = id
        BY <2>3, <2>5
      <3>2. Called(loop, n, i)
        BY <2>1, <2>5, <3>1 DEF Waiting
      <3> QED
        BY <3>1, <3>2 DEF Called, Running
    <2>6. ASSUME NEW n \in DOMAIN pending, Running => n # loop.entry
          PROVE  pending[n].left = requests[Head(pending[n].callbacks)].own
      <3>1. Head(pending[n].callbacks) = pending[n].callbacks[1]
        <4>1. Place(pending, n, 1)
          BY <2>1
        <4>2. pending[n].callbacks # <<>>
          BY <2>2, <4>1, EmptySeq DEF Place
        <4> QED
          BY <2>2, <4>2, HeadTailProperties
      <3> QED
        BY <2>1, <2>6, <3>1 DEF Running
    <2> HIDE DEF At, Places
    <2> QED
      BY <2>4, <2>5, <2>6, Zenon DEF RequestsTracked, Places, At
  <1> QED
    BY <1>1, InductiveHolds, PTL

\* A callback is called once; when the event of some Data is over, nothing is
\* pending that the Data answers.
THEOREM DataAnswered == Spec => DataAnswersAll
PROOF
  <1> DEFINE Told ==
               /\ \A id \in DOMAIN requests :
                     ~Waiting(id) => requests'[id] = requests[id]
               /\ (loop.event = "data" /\ ~Running') =>
                     \A n \in DOMAIN pending' : ~IsPrefix(n, loop.data)
  <1>1. ASSUME Inductive, [Next]_vars PROVE [Told]_vars
    <2> SUFFICES ASSUME Next PROVE Told
      BY <1>1
    <2>1. \A id \in DOMAIN requests : ~Waiting(id) => requests'[id] = requests[id]
      BY <1>1, NextSafe DEF Stays, Waiting
    <2>2. ASSUME loop.event = "data", loop'.event = "none"
          PROVE  \A n \in DOMAIN pending' : ~ IsPrefix(n, loop.data)
      <3>1. EndEntry
        <4>1. Running /\ loop' # loop
          BY <2>2 DEF Running
        <4>2. NextCallback => loop'.event = loop.event
          <5> SUFFICES ASSUME NextCallback PROVE loop'.event = loop.event
            OBVIOUS
          <5>1. loop' = [loop EXCEPT !.next = loop.next + 1] /\ loop \in Loops
            BY <1>1, Known DEF NextCallback
          <5> QED
            BY <5>1 DEF Loops
        <4>3. \A n \in Names, life \in Lifetimes : ~ ExpressInterest(n, life)
          BY <4>1 DEF ExpressInterest
        <4>4. \A p \in Filters : ~ SetInterestFilter(p) /\ ~ ClearInterestFilter(p)
          BY <4>1 DEF SetInterestFilter, ClearInterestFilter
        <4>5. \A n \in Names : ~ Put(n) /\ ~ SendData(n) /\ ~ NodeForgets(n)
          BY <4>1 DEF Put, SendData, NodeForgets
        <4>6. ~ Shutdown /\ ~ ProcessTimeoutEntry /\ ~ RunQueue /\ ~ Tick
          BY <4>1 DEF Shutdown, ProcessTimeoutEntry, RunQueue, Tick
        <4> QED
          BY <2>2, <4>2, <4>3, <4>4, <4>5, <4>6, Zenon DEF Next, Application, Loop
      <3>2. Matching(pending', loop.data) = {}
        <4> SUFFICES ASSUME Matching(pending', loop.data) # {} PROVE FALSE
          OBVIOUS
        <4> DEFINE n == Longest(Matching(pending', loop.data))
        <4>1. Begin("data", n, loop.data)
          BY <2>2, <3>1, Zenon DEF EndEntry
        <4> HIDE DEF n
        <4>3. loop'.event = "data"
          BY <4>1 DEF Begin
        <4> QED
          BY <2>2, <4>3
      <3> QED
        BY <3>2 DEF Matching
    <2> QED
      BY <2>1, <2>2 DEF Running
  <1>2. Inductive /\ [Next]_vars => [Told]_vars
    BY <1>1
  <1> QED
    BY <1>2, InductiveHolds, PTL DEF Spec, DataAnswersAll
=============================================================================
