-------------------------- MODULE ForwarderProofs ---------------------------
(***************************************************************************)
(* Theorems about Forwarder, for all faces, routes, names, nonces, limits, *)
(* strategies and NACK codes.                                              *)
(***************************************************************************)
EXTENDS Forwarder, CollectionLemmas

(***************************************************************************)
(* The parts of an entry that the handlers change.                         *)
(***************************************************************************)
Fields == {"incoming", "outgoing", "nonces", "maxRetx", "ttl", "retxReady"}

\* An entry is a record whose outgoing faces are records.
Shaped(e) ==
    /\ e = [x \in Fields |-> e[x]]
    /\ e.outgoing = [f \in SentTo(e) |-> e.outgoing[f]]
    /\ \A f \in SentTo(e) :
          e.outgoing[f] = [x \in {"retx", "vain"} |-> e.outgoing[f][x]]

Waits(e) == ~ AreAllOutgoingInVain(e)

\* The helpers that leave the outgoing faces alone.
LEMMA OutgoingKept ==
  ASSUME NEW e, Shaped(e), NEW x, NEW f
  PROVE  /\ Shaped(AddSeenNonce(e, x)) /\ AddSeenNonce(e, x).outgoing = e.outgoing
         /\ Shaped(AddIncoming(e, f)) /\ AddIncoming(e, f).outgoing = e.outgoing
         /\ Shaped(RemoveIncoming(e, f)) /\ RemoveIncoming(e, f).outgoing = e.outgoing
         /\ Shaped(UpdateLifetime(e)) /\ UpdateLifetime(e).outgoing = e.outgoing
         /\ Shaped(IncreaseAllowedRetxCount(e))
         /\ IncreaseAllowedRetxCount(e).outgoing = e.outgoing
BY ZenonT(60) DEF Shaped, Fields, SentTo, AddSeenNonce, AddIncoming, RemoveIncoming,
       UpdateLifetime, IncreaseAllowedRetxCount

\* The helpers that leave the incoming faces alone, or add to them.
LEMMA IncomingKept ==
  ASSUME NEW e, Shaped(e), NEW x, NEW f, NEW F
  PROVE  /\ AddSeenNonce(e, x).incoming = e.incoming
         /\ AddIncoming(e, f).incoming = e.incoming \cup {f}
         /\ UpdateLifetime(e).incoming = e.incoming
         /\ IncreaseAllowedRetxCount(e).incoming = e.incoming
         /\ AddOutgoing(e, F).incoming = e.incoming
         /\ SetWaitingInVain(e, f).incoming = e.incoming
BY DEF Shaped, Fields, SentTo, AddSeenNonce, AddIncoming, UpdateLifetime,
       IncreaseAllowedRetxCount, AddOutgoing, SetWaitingInVain

LEMMA NewShaped == Shaped(NewEntry) /\ NewEntry.incoming = {}
BY DEF Shaped, Fields, SentTo, NewEntry, NoFaces

LEMMA VainShaped ==
  ASSUME NEW e, Shaped(e), NEW f
  PROVE  Shaped(SetWaitingInVain(e, f))
BY DEF Shaped, Fields, SentTo, SetWaitingInVain

\* Sending to another route makes an entry wait for it.
LEMMA SentWaits ==
  ASSUME NEW e, Shaped(e), NEW F, F # {} \/ Waits(e)
  PROVE  Shaped(AddOutgoing(e, F)) /\ Waits(AddOutgoing(e, F))
<1> DEFINE g == [f \in SentTo(e) \cup F |->
                    IF f \notin SentTo(e) THEN [retx |-> 0, vain |-> FALSE]
                    ELSE IF f \in F
                    THEN [retx |-> e.outgoing[f].retx + 1, vain |-> FALSE]
                    ELSE e.outgoing[f]]
           s == AddOutgoing(e, F)
<1>0. DOMAIN g = SentTo(e) \cup F
  OBVIOUS
<1>1. s = [x \in Fields |-> s[x]] /\ s.outgoing = g /\ SentTo(s) = SentTo(e) \cup F
  <2>1. s = [e EXCEPT !.outgoing = g]
    BY DEF AddOutgoing
  <2> HIDE DEF g, s
  <2>2. s = [x \in Fields |-> s[x]] /\ s.outgoing = g
    BY <2>1 DEF Shaped, Fields
  <2> QED
    BY <1>0, <2>2 DEF SentTo
<1>2. Shaped(s)
  <2>1. ASSUME NEW f \in SentTo(s)
        PROVE  s.outgoing[f] = [x \in {"retx", "vain"} |-> s.outgoing[f][x]]
    BY <1>1, <2>1 DEF Shaped
  <2> QED
    BY <1>1, <2>1 DEF Shaped
<1>3. CASE F # {}
  <2>1. PICK f : f \in F
    BY <1>3
  <2>2. f \in SentTo(s) /\ s.outgoing[f].vain = FALSE
    BY <1>1, <2>1
  <2> QED
    BY <1>2, <2>2 DEF Waits, AreAllOutgoingInVain
<1>4. CASE F = {} /\ Waits(e)
  <2>1. PICK f \in SentTo(e) : ~ e.outgoing[f].vain
    BY <1>4 DEF Waits, AreAllOutgoingInVain
  <2>2. f \in SentTo(s) /\ s.outgoing[f] = e.outgoing[f]
    BY <1>1, <1>4, <2>1
  <2> QED
    BY <1>2, <2>1, <2>2 DEF Waits, AreAllOutgoingInVain
<1> QED
  BY <1>3, <1>4

(***************************************************************************)
(* The table.                                                              *)
(***************************************************************************)
Table(p) == p = [n \in DOMAIN p |-> p[n]] /\ \A n \in DOMAIN p : Shaped(p[n])
AllWait(p) == \A n \in DOMAIN p : Waits(p[n])

LEMMA EntryTable ==
  ASSUME Table(pit), NEW n
  PROVE  /\ Shaped(EntryOf(n))
         /\ n \in DOMAIN pit => EntryOf(n) = pit[n]
         /\ n \notin DOMAIN pit => EntryOf(n) = NewEntry
BY NewShaped DEF Table, EntryOf

\* The table p is that of the PIT, with entry e for n.
Placed(p, n, e) ==
    /\ Table(p)
    /\ DOMAIN p = DOMAIN pit \cup {n}
    /\ p[n] = e
    /\ \A m \in DOMAIN pit \ {n} : p[m] = pit[m]

LEMMA PutTable ==
  ASSUME Table(pit), NEW n, NEW e, Shaped(e)
  PROVE  Placed(Put(n, e), n, e)
BY DEF Table, Put, Placed

LEMMA PutWaits ==
  ASSUME AllWait(pit), NEW n, NEW e, Waits(e)
  PROVE  AllWait(Put(n, e))
BY DEF Put, AllWait

\* MarkErased leaves the other entries alone, and without a pruning time-out
\* nothing of the erased ones.
LEMMA ErasedTable ==
  ASSUME NEW p, Table(p), NEW N
  PROVE  /\ Table(MarkErased(p, N))
         /\ \A m \in DOMAIN p \ N :
               m \in DOMAIN MarkErased(p, N) /\ MarkErased(p, N)[m] = p[m]
         /\ (Pruning = 0 /\ \A m \in DOMAIN p \ N : Waits(p[m]))
               => AllWait(MarkErased(p, N))
<1> DEFINE q == MarkErased(p, N)
           D == IF Pruning = 0 THEN DOMAIN p \ N ELSE DOMAIN p
           gone(n) == [p[n] EXCEPT !.incoming = {}, !.outgoing = NoFaces,
                                   !.ttl = Pruning]
<1>1. DOMAIN q = D /\ \A n \in D : q[n] = IF n \in N THEN gone(n) ELSE p[n]
  BY DEF MarkErased
<1>2. ASSUME NEW n \in DOMAIN p PROVE Shaped(gone(n))
  BY ZenonT(60) DEF Table, Shaped, Fields, SentTo, NoFaces
<1>3. Table(q)
  <2>1. \A n \in DOMAIN q : Shaped(q[n])
    BY <1>1, <1>2 DEF Table
  <2>2. q = [n \in DOMAIN q |-> q[n]]
    BY DEF MarkErased
  <2> QED
    BY <2>1, <2>2 DEF Table
<1>4. \A m \in DOMAIN p \ N : m \in DOMAIN q /\ q[m] = p[m]
  BY <1>1
<1>5. (Pruning = 0 /\ \A m \in DOMAIN p \ N : Waits(p[m])) => AllWait(q)
  BY <1>1 DEF AllWait
<1> QED
  BY <1>3, <1>4, <1>5

LEMMA RestrictedTable ==
  ASSUME Table(pit), NEW N
  PROVE  /\ Table([n \in DOMAIN pit \ N |-> pit[n]])
         /\ AllWait(pit) => AllWait([n \in DOMAIN pit \ N |-> pit[n]])
BY DEF Table, AllWait

\* The entry an Interest of f makes or updates.
Updated(f, n, x) == UpdateLifetime(AddIncoming(AddSeenNonce(EntryOf(n), x), f))

LEMMA UpdatedEntry ==
  ASSUME Table(pit), NEW f, NEW n, NEW x
  PROVE  /\ Shaped(Updated(f, n, x))
         /\ Updated(f, n, x).outgoing = EntryOf(n).outgoing
         /\ Updated(f, n, x).incoming = EntryOf(n).incoming \cup {f}
<1>1. Shaped(EntryOf(n))
  BY EntryTable
<1>2. /\ Shaped(AddSeenNonce(EntryOf(n), x))
      /\ AddSeenNonce(EntryOf(n), x).outgoing = EntryOf(n).outgoing
      /\ AddSeenNonce(EntryOf(n), x).incoming = EntryOf(n).incoming
  BY <1>1, OutgoingKept, IncomingKept
<1> DEFINE e == AddSeenNonce(EntryOf(n), x)
<1> HIDE DEF e
<1>3. Shaped(AddIncoming(e, f)) /\ AddIncoming(e, f).outgoing = e.outgoing
      /\ AddIncoming(e, f).incoming = e.incoming \cup {f}
  BY <1>2, OutgoingKept, IncomingKept DEF e
<1> DEFINE d == AddIncoming(e, f)
<1> HIDE DEF d
<1>4. /\ Shaped(UpdateLifetime(d)) /\ UpdateLifetime(d).outgoing = d.outgoing
      /\ UpdateLifetime(d).incoming = d.incoming
  BY <1>3, OutgoingKept, IncomingKept DEF d
<1> QED
  BY <1>2, <1>3, <1>4 DEF d, e, Updated

LEMMA SameWaits ==
  ASSUME NEW d, NEW e, d.outgoing = e.outgoing
  PROVE  Waits(d) <=> Waits(e)
BY DEF Waits, AreAllOutgoingInVain, SentTo

(***************************************************************************)
(* Ends of the handlers that propagate an Interest of entry e.             *)
(***************************************************************************)
LEMMA SendOutTable ==
  ASSUME Table(pit), NEW n, NEW e, Shaped(e), NEW x, NEW F,
         F # {} \/ Waits(e), SendOut(n, e, x, F)
  PROVE  /\ Table(pit') /\ (AllWait(pit) => AllWait(pit'))
         /\ n \in DOMAIN pit' /\ pit'[n].incoming = e.incoming
         /\ \A m \in DOMAIN pit \ {n} : m \in DOMAIN pit' /\ pit'[m] = pit[m]
<1> DEFINE s == AddOutgoing(e, F)
<1>1. Shaped(s) /\ Waits(s)
  BY SentWaits
<1>2. s.incoming = e.incoming
  BY IncomingKept
<1>3. pit' = Put(n, s)
  BY DEF SendOut
<1> HIDE DEF s
<1>4. Placed(Put(n, s), n, s)
  BY <1>1, PutTable
<1> QED
  BY <1>1, <1>2, <1>3, <1>4, PutWaits DEF Placed

LEMMA ExhaustTable ==
  ASSUME Table(pit), NEW n, NEW e, Shaped(e), NEW x, Exhaust(n, e, x)
  PROVE  /\ Table(pit')
         /\ Pruning = 0 /\ AllWait(pit) => AllWait(pit')
         /\ \A m \in DOMAIN pit \ {n} : m \in DOMAIN pit' /\ pit'[m] = pit[m]
<1> DEFINE q == Put(n, e)
<1>1. Placed(q, n, e)
  BY PutTable
<1>2. pit' = MarkErased(q, {n})
  BY DEF Exhaust
<1> HIDE DEF q
<1> QED
  BY <1>1, <1>2, ErasedTable DEF AllWait, Placed

(***************************************************************************)
(* The handlers.  Kept (n) says of each step that no face that waited for  *)
(* n is dropped by it.                                                     *)
(***************************************************************************)
Kept(n) == n \in DOMAIN pit' /\ pit[n].incoming \subseteq pit'[n].incoming

Refused(n, x) == \A f \in pit[n].incoming : Nack(f, n, x, "GIVEUP_PIT") \in sent'

Good == Table(pit') /\ (Pruning = 0 /\ AllWait(pit) => AllWait(pit'))

LEMMA DuplicateStep ==
  ASSUME Table(pit), NEW f, NEW n, NEW x, DuplicateInterest(f, n, x)
  PROVE  Good /\ \A m \in DOMAIN pit : Kept(m)
<1> DEFINE e == AddIncoming(pit[n], f)
<1>1. n \in DOMAIN pit /\ pit' = Put(n, e)
  BY DEF DuplicateInterest, IsDuplicate
<1>a. Shaped(pit[n])
  BY <1>1 DEF Table
<1>2. /\ Shaped(e) /\ e.outgoing = pit[n].outgoing
      /\ e.incoming = pit[n].incoming \cup {f}
  BY <1>a, OutgoingKept, IncomingKept
<1> HIDE DEF e
<1>b. Shaped(e)
  BY <1>2
<1>3. AllWait(pit) => Waits(e)
  BY <1>1, <1>2, SameWaits DEF AllWait
<1>4. Placed(Put(n, e), n, e)
  BY <1>b, PutTable
<1> QED
  BY <1>1, <1>2, <1>3, <1>4, PutWaits DEF Good, Kept, Placed

LEMMA SuppressStep ==
  ASSUME Table(pit), NEW f, NEW n, NEW x, Suppress(f, n, x)
  PROVE  Good /\ \A m \in DOMAIN pit : Kept(m)
<1> DEFINE e == Updated(f, n, x)
<1>1. pit' = Put(n, e)
  BY DEF Suppress, Updated
<1>2. /\ Shaped(e) /\ e.outgoing = EntryOf(n).outgoing
      /\ e.incoming = EntryOf(n).incoming \cup {f}
  BY UpdatedEntry
<1>3. n \in DOMAIN pit /\ EntryOf(n) = pit[n]
  BY EntryTable DEF Suppress, ShouldSuppressIncomingInterest, NewEntry, NoFaces,
                    SentTo
<1> HIDE DEF e
<1>4. AllWait(pit) => Waits(e)
  BY <1>2, <1>3, SameWaits DEF AllWait
<1>b. Shaped(e)
  BY <1>2
<1>5. Placed(Put(n, e), n, e)
  BY <1>b, PutTable
<1> QED
  BY <1>1, <1>2, <1>3, <1>4, <1>5, PutWaits DEF Good, Kept, Placed

LEMMA CacheHitStep ==
  ASSUME Table(pit), NEW f, NEW n, NEW x, CacheHit(f, n, x)
  PROVE  Good
<1> DEFINE e == AddSeenNonce(EntryOf(n), x)
           q == Put(n, e)
<1>1. pit' = MarkErased(q, {n})
  BY DEF CacheHit
<1>2. Shaped(e)
  BY EntryTable, OutgoingKept
<1> HIDE DEF e
<1>3. Placed(q, n, e)
  BY <1>2, PutTable
<1> HIDE DEF q
<1> QED
  BY <1>1, <1>3, ErasedTable DEF Good, AllWait, Placed

\* An Interest is sent out, or everyone who waits is told.
LEMMA PropagateStep ==
  ASSUME Table(pit), NEW f, NEW n, NEW x, PropagateInterest(f, n, x)
  PROVE  /\ Good
         /\ EnableNACKs => \A m \in DOMAIN pit : Kept(m) \/ (m = n /\ Refused(n, x))
<1> DEFINE first == Updated(f, n, x)
           again == DetectRetransmissions /\ f \in EntryOf(n).incoming
           e == IF again /\ Targets(f, first) = {}
                THEN IncreaseAllowedRetxCount(first) ELSE first
           F == Targets(f, e)
<1>1. IF F = {} /\ AreAllOutgoingInVain(e) THEN Exhaust(n, e, x)
      ELSE SendOut(n, e, x, F)
  BY DEF PropagateInterest, Updated
<1>2. /\ Shaped(first) /\ first.incoming = EntryOf(n).incoming \cup {f}
  BY UpdatedEntry
<1> HIDE DEF first
<1>3. Shaped(e) /\ e.incoming = EntryOf(n).incoming \cup {f}
  BY <1>2, OutgoingKept, IncomingKept
<1> HIDE DEF e, F
<1>4. n \in DOMAIN pit => pit[n].incoming \subseteq e.incoming
  BY <1>3, EntryTable
<1>5. CASE F = {} /\ AreAllOutgoingInVain(e)
  <2>1. Exhaust(n, e, x)
    BY <1>1, <1>5
  <2>2. /\ Table(pit')
        /\ Pruning = 0 /\ AllWait(pit) => AllWait(pit')
        /\ \A m \in DOMAIN pit \ {n} : m \in DOMAIN pit' /\ pit'[m] = pit[m]
    BY <1>3, <2>1, ExhaustTable
  <2>3. EnableNACKs /\ n \in DOMAIN pit => Refused(n, x)
    BY <1>4, <2>1 DEF Exhaust, Refused
  <2> QED
    BY <2>2, <2>3 DEF Good, Kept
<1>6. CASE ~ (F = {} /\ AreAllOutgoingInVain(e))
  <2>1. SendOut(n, e, x, F) /\ (F # {} \/ Waits(e))
    BY <1>1, <1>6 DEF Waits
  <2>2. /\ Table(pit') /\ (AllWait(pit) => AllWait(pit'))
        /\ n \in DOMAIN pit' /\ pit'[n].incoming = e.incoming
        /\ \A m \in DOMAIN pit \ {n} : m \in DOMAIN pit' /\ pit'[m] = pit[m]
    BY <1>3, <2>1, SendOutTable
  <2> QED
    BY <1>4, <2>2 DEF Good, Kept
<1> QED
  BY <1>5, <1>6

LEMMA DataStep ==
  ASSUME Table(pit), NEW f, NEW d, OnData(f, d)
  PROVE  Good
<1>1. CASE UnsolicitedData(f, d)
  BY <1>1 DEF UnsolicitedData, Good
<1>2. CASE SatisfyPendingInterests(f, d)
  <2>1. pit' = MarkErased(pit, Waiting(d))
    BY <1>2 DEF SatisfyPendingInterests
  <2> QED
    BY <2>1, ErasedTable DEF Good, AllWait
<1> QED
  BY <1>1, <1>2 DEF OnData

\* A NACK drops its sender if it has given up, and the others only with a NACK.
Told(h, m, n, x) ==
    \/ m \in DOMAIN pit' /\ h \in pit'[m].incoming
    \/ m = n /\ Nack(h, n, x, "GIVEUP_PIT") \in sent'

LEMMA NackStep ==
  ASSUME Table(pit), NEW f, NEW n, NEW x, NEW code, OnNack(f, n, x, code)
  PROVE  /\ Good
         /\ EnableNACKs => \A m \in DOMAIN pit : \A h \in pit[m].incoming :
               Told(h, m, n, x) \/ (code = "GIVEUP_PIT" /\ m = n /\ h = f)
<1> DEFINE d == IF code = "GIVEUP_PIT" THEN RemoveIncoming(pit[n], f) ELSE pit[n]
           e == SetWaitingInVain(d, f)
           F == Targets(f, e)
<1>1. /\ n \in DOMAIN pit
      /\ IF ~ AreAllOutgoingInVain(e)
         THEN pit' = Put(n, e) /\ sent' = {} /\ UNCHANGED outstanding
         ELSE IF F = {} THEN Exhaust(n, e, x)
         ELSE SendOut(n, e, x, F)
  BY DEF OnNack
<1>a. Shaped(pit[n])
  BY <1>1 DEF Table
<1>2. Shaped(d)
  BY <1>a, OutgoingKept
<1>3. \A h \in pit[n].incoming : h \in d.incoming \/ (code = "GIVEUP_PIT" /\ h = f)
  BY <1>a DEF RemoveIncoming, Shaped, Fields
<1> HIDE DEF d
<1>b. Shaped(e)
  BY <1>2, VainShaped
<1>c. e.incoming = d.incoming
  BY <1>2, IncomingKept
<1> HIDE DEF e, F
<1>4. CASE ~ AreAllOutgoingInVain(e)
  <2>1. pit' = Put(n, e) /\ Waits(e)
    BY <1>1, <1>4 DEF Waits
  <2>2. Placed(Put(n, e), n, e)
    BY <1>b, PutTable
  <2> QED
    BY <1>1, <1>3, <1>c, <2>1, <2>2, PutWaits DEF Good, Told, Placed
<1>5. CASE AreAllOutgoingInVain(e) /\ F = {}
  <2>1. Exhaust(n, e, x)
    BY <1>1, <1>5
  <2>2. /\ Table(pit')
        /\ Pruning = 0 /\ AllWait(pit) => AllWait(pit')
        /\ \A m \in DOMAIN pit \ {n} : m \in DOMAIN pit' /\ pit'[m] = pit[m]
    BY <1>b, <2>1, ExhaustTable
  <2>3. EnableNACKs => \A h \in d.incoming : Nack(h, n, x, "GIVEUP_PIT") \in sent'
    BY <1>c, <2>1 DEF Exhaust
  <2> QED
    BY <1>3, <2>2, <2>3 DEF Good, Told
<1>6. CASE AreAllOutgoingInVain(e) /\ F # {}
  <2>1. SendOut(n, e, x, F)
    BY <1>1, <1>6
  <2>2. /\ Table(pit') /\ (AllWait(pit) => AllWait(pit'))
        /\ n \in DOMAIN pit' /\ pit'[n].incoming = e.incoming
        /\ \A m \in DOMAIN pit \ {n} : m \in DOMAIN pit' /\ pit'[m] = pit[m]
    BY <1>b, <1>6, <2>1, SendOutTable
  <2> QED
    BY <1>3, <1>c, <2>2 DEF Good, Told
<1> QED
  BY <1>4, <1>5, <1>6

LEMMA TickStep ==
  ASSUME Table(pit), Tick
  PROVE  Good /\ \A m \in DOMAIN pit : Kept(m)
<1>1. pit' = [n \in DOMAIN pit |->
                 [pit[n] EXCEPT !.ttl = @ - 1, !.retxReady = TRUE]]
  BY DEF Tick
<1>2. ASSUME NEW n \in DOMAIN pit
      PROVE  /\ Shaped(pit'[n]) /\ pit'[n].outgoing = pit[n].outgoing
             /\ pit'[n].incoming = pit[n].incoming
  <2>1. Shaped(pit[n])
    BY DEF Table
  <2>2. pit'[n] = [pit[n] EXCEPT !.ttl = @ - 1, !.retxReady = TRUE]
    BY <1>1
  <2>3. /\ pit'[n] = [x \in Fields |-> pit'[n][x]]
        /\ pit'[n].outgoing = pit[n].outgoing
        /\ pit'[n].incoming = pit[n].incoming
    BY <2>1, <2>2 DEF Shaped, Fields
  <2> QED
    BY <2>1, <2>3 DEF Shaped, SentTo
<1>3. DOMAIN pit' = DOMAIN pit /\ Table(pit')
  BY <1>1, <1>2 DEF Table
<1>4. AllWait(pit) => AllWait(pit')
  BY <1>2, <1>3, SameWaits DEF AllWait
<1> QED
  BY <1>2, <1>3, <1>4 DEF Good, Kept

LEMMA ExpiryStep ==
  ASSUME Table(pit), CleanExpired
  PROVE  Good
BY RestrictedTable DEF CleanExpired, Good

LEMMA RemovalStep ==
  ASSUME Table(pit), NEW f, RemoveFace(f)
  PROVE  /\ Good
         /\ \A m \in DOMAIN pit : \A h \in pit[m].incoming :
               h = f \/ (m \in DOMAIN pit' /\ h \in pit'[m].incoming)
<1>1. pit' = [n \in DOMAIN pit |-> RemoveIncoming(pit[n], f)]
  BY DEF RemoveFace
<1>2. ASSUME NEW n \in DOMAIN pit
      PROVE  /\ Shaped(pit'[n]) /\ pit'[n].outgoing = pit[n].outgoing
             /\ \A h \in pit[n].incoming : h = f \/ h \in pit'[n].incoming
  <2>1. Shaped(pit[n]) /\ pit'[n] = RemoveIncoming(pit[n], f)
    BY <1>1 DEF Table
  <2>2. \A h \in pit[n].incoming : h = f \/ h \in RemoveIncoming(pit[n], f).incoming
    BY <2>1 DEF RemoveIncoming, Shaped, Fields
  <2> QED
    BY <2>1, <2>2, OutgoingKept
<1>3. DOMAIN pit' = DOMAIN pit /\ Table(pit')
  BY <1>1, <1>2 DEF Table
<1>4. AllWait(pit) => AllWait(pit')
  BY <1>2, <1>3, SameWaits DEF AllWait
<1> QED
  BY <1>2, <1>3, <1>4 DEF Good

(***************************************************************************)
(* The theorems.                                                           *)
(***************************************************************************)
LEMMA InitGood == Init => Table(pit) /\ AllWait(pit)
BY DEF Init, Table, AllWait, NoFaces

LEMMA NextGood ==
  ASSUME Table(pit), [Next]_vars
  PROVE  Good
<1>1. CASE Next
  <2>1. ASSUME NEW f \in Faces, NEW n \in Names, NEW x \in Nonces, OnInterest(f, n, x)
        PROVE  Good
    BY <2>1, DuplicateStep, CacheHitStep, SuppressStep, PropagateStep DEF OnInterest
  <2>2. ASSUME NEW f \in Faces, NEW d \in Names, OnData(f, d)
        PROVE  Good
    BY <2>2, DataStep
  <2>3. ASSUME NEW f \in Routes, NEW n \in Names, NEW x \in Nonces,
               NEW code \in NackCodes, OnNack(f, n, x, code)
        PROVE  Good
    BY <2>3, NackStep
  <2>4. ASSUME NEW f \in Apps, RemoveFace(f)
        PROVE  Good
    BY <2>4, RemovalStep
  <2> QED
    BY <1>1, <2>1, <2>2, <2>3, <2>4, ExpiryStep, TickStep DEF Next
<1>2. CASE UNCHANGED vars
  BY <1>2 DEF vars, Good, Table, AllWait
<1> QED
  BY <1>1, <1>2

\* Without a pruning time-out whoever is made to wait waits for something: every
\* entry of the table (ndn-forwarding-strategy.cc, ndn-nacks.cc) has been sent to
\* a face that has not refused it.
THEOREM NobodyStranded == Pruning = 0 /\ Spec => []EntryWaits
<1>1. Init => Table(pit) /\ AllWait(pit)
  BY InitGood
<1>2. ASSUME Pruning = 0
      PROVE  Table(pit) /\ AllWait(pit) /\ [Next]_vars => Table(pit)' /\ AllWait(pit)'
  BY <1>2, NextGood DEF Good
<1>3. AllWait(pit) => EntryWaits
  BY DEF AllWait, Waits, EntryWaits
<1>4. CASE Pruning = 0
  <2>1. Table(pit) /\ AllWait(pit) /\ [Next]_vars => Table(pit)' /\ AllWait(pit)'
    BY <1>2, <1>4
  <2> QED
    BY <1>1, <2>1, <1>3, PTL DEF Spec
<1>5. CASE ~ (Pruning = 0)
  BY <1>5
<1> QED
  BY <1>4, <1>5

\* A node without a content store: Lookup finds nothing.
LEMMA NothingCached ==
  ASSUME CsSize = 0, cs = {}, [Next]_vars
  PROVE  cs' = {}
<1>1. ASSUME NEW d PROVE Add(d) = {{}}
  BY DEF Add
<1>2. ASSUME NEW f, NEW n, NEW x, OnInterest(f, n, x) PROVE cs' = cs
  BY <1>2 DEF OnInterest, DuplicateInterest, CacheHit, Suppress, PropagateInterest
<1>3. ASSUME NEW f, NEW d, OnData(f, d) PROVE cs' = {}
  BY <1>1, <1>3 DEF OnData, UnsolicitedData, SatisfyPendingInterests
<1>4. ASSUME NEW f, NEW n, NEW x, NEW code, OnNack(f, n, x, code) PROVE cs' = cs
  BY <1>4 DEF OnNack
<1>5. CleanExpired \/ Tick \/ (\E f \in Apps : RemoveFace(f)) => cs' = cs
  BY DEF CleanExpired, Tick, RemoveFace
<1> QED
  BY <1>2, <1>3, <1>4, <1>5 DEF Next, vars

(***************************************************************************)
(* What the entries of a table hold.                                       *)
(***************************************************************************)

\* A table whose retransmissions are counted.
Counted(p) ==
    /\ IsFiniteSet(DOMAIN p)
    /\ \A n \in DOMAIN p : \A f \in SentTo(p[n]) : p[n].outgoing[f].retx \in Nat

LEMMA HeldNat ==
  ASSUME NEW p, Counted(p), NEW f
  PROVE  /\ \A n \in DOMAIN p : Held(p[n], f) \in Nat
         /\ \A N \in SUBSET DOMAIN p : IsFiniteSet(N) /\ HeldBy(p, N, f) \in Nat
<1>1. \A n \in DOMAIN p : Held(p[n], f) \in Nat
  BY DEF Counted, Held
<1>2. ASSUME NEW N \in SUBSET DOMAIN p
      PROVE  IsFiniteSet(N) /\ HeldBy(p, N, f) \in Nat
  <2> DEFINE h == [n \in N |-> Held(p[n], f)]
  <2>1. IsFiniteSet(N)
    BY FS_Subset DEF Counted
  <2>2. \A n \in N : h[n] \in Nat
    BY <1>1
  <2> HIDE DEF h
  <2>3. SumFunctionOnSet(h, N) \in Nat
    BY <2>1, <2>2, SumNat
  <2> QED
    BY <2>1, <2>3 DEF HeldBy, h
<1> QED
  BY <1>1, <1>2

LEMMA HeldNothing ==
  ASSUME NEW p, NEW f
  PROVE  HeldBy(p, {}, f) = 0
<1> DEFINE h == [n \in {} |-> Held(p[n], f)]
<1>1. SumFunctionOnSet(h, {}) = 0
  BY SumStep, FS_EmptySet
<1> QED
  BY <1>1 DEF HeldBy

LEMMA HeldSame ==
  ASSUME NEW N, IsFiniteSet(N), NEW p, NEW q, NEW f,
         \A n \in N : Held(p[n], f) = Held(q[n], f)
  PROVE  HeldBy(p, N, f) = HeldBy(q, N, f)
<1> DEFINE h == [n \in N |-> Held(p[n], f)]
           g == [n \in N |-> Held(q[n], f)]
<1>1. \A n \in N : h[n] = g[n]
  OBVIOUS
<1> HIDE DEF h, g
<1>2. SumFunctionOnSet(h, N) = SumFunctionOnSet(g, N)
  BY <1>1, SumSame
<1> QED
  BY <1>2 DEF HeldBy, h, g

LEMMA HeldSplit ==
  ASSUME NEW p, Counted(p), NEW D \in SUBSET DOMAIN p, NEW N \in SUBSET D, NEW f
  PROVE  HeldBy(p, D, f) = HeldBy(p, N, f) + HeldBy(p, D \ N, f)
<1> DEFINE h == [n \in D |-> Held(p[n], f)]
           g == [n \in N |-> Held(p[n], f)]
           k == [n \in D \ N |-> Held(p[n], f)]
<1>1. IsFiniteSet(D) /\ IsFiniteSet(N) /\ IsFiniteSet(D \ N)
  BY HeldNat
<1>2. \A n \in D : h[n] \in Nat
  BY HeldNat
<1>3. (\A n \in N : h[n] = g[n]) /\ (\A n \in D \ N : h[n] = k[n])
  OBVIOUS
<1> HIDE DEF h, g, k
<1>4. SumFunctionOnSet(h, D) = SumFunctionOnSet(h, N) + SumFunctionOnSet(h, D \ N)
  BY <1>1, <1>2, SumSplit
<1>5. SumFunctionOnSet(h, N) = SumFunctionOnSet(g, N)
  BY <1>1, <1>3, SumSame
<1>6. SumFunctionOnSet(h, D \ N) = SumFunctionOnSet(k, D \ N)
  BY <1>1, <1>3, SumSame
<1> QED
  BY <1>4, <1>5, <1>6 DEF HeldBy, h, g, k

LEMMA HeldOne ==
  ASSUME NEW p, Counted(p), NEW n \in DOMAIN p, NEW f
  PROVE  HeldBy(p, {n}, f) = Held(p[n], f)
<1> DEFINE h == [m \in {n} |-> Held(p[m], f)]
<1>1. IsFiniteSet({n}) /\ {n} \ {n} = {}
  BY FS_Singleton
<1>2. h[n] = Held(p[n], f) /\ h[n] \in Nat
  BY HeldNat
<1> HIDE DEF h
<1>3. SumFunctionOnSet(h, {n}) = h[n] + SumFunctionOnSet(h, {})
  BY <1>1, <1>2, SumTakeOut
<1>4. SumFunctionOnSet(h, {}) = 0
  BY SumStep, FS_EmptySet
<1> QED
  BY <1>2, <1>3, <1>4 DEF HeldBy, h

\* An entry that is put into the table changes what is held by its difference.
LEMMA HeldPut ==
  ASSUME Table(pit), Counted(pit), NEW n, NEW e, Shaped(e), NEW f,
         \A g \in SentTo(e) : e.outgoing[g].retx \in Nat
  PROVE  /\ Counted(Put(n, e))
         /\ Held(EntryOf(n), f) \in Nat /\ Held(e, f) \in Nat
         /\ HeldBy(Put(n, e), DOMAIN Put(n, e), f)
              = HeldBy(pit, DOMAIN pit, f) - Held(EntryOf(n), f) + Held(e, f)
<1> DEFINE q == Put(n, e)
           R == DOMAIN pit \ {n}
<1>0. Placed(q, n, e)
  BY PutTable
<1> HIDE DEF q
<1>1. DOMAIN q = DOMAIN pit \cup {n} /\ q[n] = e /\ \A m \in R : q[m] = pit[m]
  BY <1>0 DEF Placed
<1>2. Counted(q)
  BY <1>1, FS_AddElement DEF Counted
<1>3. HeldBy(q, DOMAIN q, f) = Held(e, f) + HeldBy(q, R, f)
  <2>1. HeldBy(q, DOMAIN q, f) = HeldBy(q, {n}, f) + HeldBy(q, DOMAIN q \ {n}, f)
    BY <1>1, <1>2, HeldSplit
  <2>2. HeldBy(q, {n}, f) = Held(e, f)
    BY <1>1, <1>2, HeldOne
  <2> QED
    BY <1>1, <2>1, <2>2
<1>4. HeldBy(pit, DOMAIN pit, f) = Held(EntryOf(n), f) + HeldBy(pit, R, f)
  <2>1. CASE n \in DOMAIN pit
    <3>1. HeldBy(pit, DOMAIN pit, f) = HeldBy(pit, {n}, f) + HeldBy(pit, R, f)
      BY <2>1, HeldSplit
    <3> QED
      BY <2>1, <3>1, HeldOne DEF EntryOf
  <2>2. CASE n \notin DOMAIN pit
    <3>1. Held(EntryOf(n), f) = 0 /\ R = DOMAIN pit
      BY <2>2 DEF EntryOf, NewEntry, NoFaces, Held, SentTo
    <3> QED
      BY <3>1, HeldNat
  <2> QED
    BY <2>1, <2>2
<1>5. HeldBy(q, R, f) = HeldBy(pit, R, f)
  <2>1. IsFiniteSet(R)
    BY HeldNat
  <2> QED
    BY <1>1, <2>1, HeldSame
<1>6. Held(EntryOf(n), f) \in Nat /\ Held(e, f) \in Nat
  <2>1. Held(e, f) \in Nat
    BY DEF Held
  <2>2. n \in DOMAIN pit => Held(EntryOf(n), f) \in Nat
    BY HeldNat DEF EntryOf
  <2>3. n \notin DOMAIN pit => Held(EntryOf(n), f) = 0
    BY DEF EntryOf, NewEntry, NoFaces, Held, SentTo
  <2> QED
    BY <2>1, <2>2, <2>3
<1>7. HeldBy(pit, R, f) \in Nat
  BY HeldNat
<1> QED
  BY <1>2, <1>3, <1>4, <1>5, <1>6, <1>7 DEF q

\* Entries that are erased, or only emptied, hold nothing any more.
LEMMA HeldErased ==
  ASSUME NEW p, Counted(p), NEW N \in SUBSET DOMAIN p, NEW f,
         \A n \in N : p[n] = [x \in Fields |-> p[n][x]]
  PROVE  /\ Counted(MarkErased(p, N))
         /\ HeldBy(MarkErased(p, N), DOMAIN MarkErased(p, N), f)
              = HeldBy(p, DOMAIN p, f) - HeldBy(p, N, f)
<1> DEFINE q == MarkErased(p, N)
           R == DOMAIN p \ N
<1>1. /\ DOMAIN q = IF Pruning = 0 THEN R ELSE DOMAIN p
      /\ \A m \in R : q[m] = p[m]
      /\ \A m \in N \cap DOMAIN q : SentTo(q[m]) = {}
  BY DEF MarkErased, NoFaces, SentTo, Fields
<1> HIDE DEF q
<1>2. Counted(q)
  BY <1>1, HeldNat DEF Counted
<1>3. HeldBy(q, DOMAIN q, f) = HeldBy(q, R, f)
  <2>1. CASE Pruning = 0
    BY <1>1, <2>1
  <2>2. CASE Pruning # 0
    <3>1. DOMAIN q = DOMAIN p
      BY <1>1, <2>2
    <3>2. HeldBy(q, DOMAIN q, f) = HeldBy(q, N, f) + HeldBy(q, R, f)
      BY <1>2, <3>1, HeldSplit
    <3>3. HeldBy(q, N, f) = 0
      <4> DEFINE h == [n \in N |-> Held(q[n], f)]
      <4>1. IsFiniteSet(N)
        BY HeldNat
      <4>2. \A n \in N : h[n] = 0
        BY <1>1, <3>1 DEF Held
      <4> HIDE DEF h
      <4>3. SumFunctionOnSet(h, N) = 0
        BY <4>1, <4>2, SumZero
      <4> QED
        BY <4>3 DEF HeldBy, h
    <3>4. HeldBy(q, R, f) \in Nat
      BY <1>2, <3>1, HeldNat
    <3> QED
      BY <3>2, <3>3, <3>4
  <2> QED
    BY <2>1, <2>2
<1>4. HeldBy(q, R, f) = HeldBy(p, R, f)
  <2>1. IsFiniteSet(R)
    BY HeldNat
  <2> QED
    BY <1>1, <2>1, HeldSame
<1>5. HeldBy(p, DOMAIN p, f) = HeldBy(p, N, f) + HeldBy(p, R, f)
  BY HeldSplit
<1>6. HeldBy(p, N, f) \in Nat /\ HeldBy(p, R, f) \in Nat
  BY HeldNat
<1> QED
  BY <1>2, <1>3, <1>4, <1>5, <1>6 DEF q

(***************************************************************************)
(* Entries, and what their helpers keep.                                   *)
(***************************************************************************)

\* No route is sent more retransmissions than the entry allows.
Fit(e) ==
    /\ Shaped(e) /\ IsEntry(e)
    /\ \A f \in SentTo(e) : e.outgoing[f].retx <= e.maxRetx

LEMMA MaxOfTwo ==
  ASSUME NEW j \in Nat, NEW k \in Nat
  PROVE  Max({j, k}) \in Nat
<1>1. \E x \in {j, k} : \A y \in {j, k} : x >= y
  <2>1. CASE j >= k
    BY <2>1
  <2>2. CASE k >= j
    BY <2>2
  <2> QED
    BY <2>1, <2>2
<1>2. Max({j, k}) \in {j, k}
  BY <1>1 DEF Max
<1> QED
  BY <1>2

LEMMA FitNew == Fit(NewEntry)
BY NewShaped, SizeAssumption DEF Fit, IsEntry, NewEntry, NoFaces, SentTo

LEMMA FitSeen ==
  ASSUME NEW e, Fit(e), NEW x \in Nonces
  PROVE  Fit(AddSeenNonce(e, x))
<1>1. Shaped(AddSeenNonce(e, x))
  BY OutgoingKept DEF Fit
<1> QED
  BY <1>1 DEF Fit, Shaped, IsEntry, Fields, SentTo, AddSeenNonce

LEMMA FitIncoming ==
  ASSUME NEW e, Fit(e), NEW f \in Faces
  PROVE  Fit(AddIncoming(e, f)) /\ Fit(RemoveIncoming(e, f))
<1>1. Shaped(AddIncoming(e, f)) /\ Shaped(RemoveIncoming(e, f))
  BY OutgoingKept DEF Fit
<1> QED
  BY <1>1 DEF Fit, Shaped, IsEntry, Fields, SentTo, AddIncoming, RemoveIncoming

LEMMA FitLifetime ==
  ASSUME NEW e, Fit(e)
  PROVE  Fit(UpdateLifetime(e))
<1>1. Shaped(UpdateLifetime(e))
  BY OutgoingKept DEF Fit
<1>2. Max({e.ttl, Lifetime}) \in Nat
  BY MaxOfTwo, SizeAssumption DEF Fit, IsEntry
<1> DEFINE k == Max({e.ttl, Lifetime})
<1>3. UpdateLifetime(e) = [e EXCEPT !.ttl = k]
  BY DEF UpdateLifetime
<1> HIDE DEF k
<1> QED
  BY <1>1, <1>2, <1>3 DEF Fit, Shaped, IsEntry, Fields, SentTo, k

LEMMA FitRetx ==
  ASSUME NEW e, Fit(e)
  PROVE  Fit(IncreaseAllowedRetxCount(e))
<1> DEFINE d == IncreaseAllowedRetxCount(e)
<1>1. Shaped(d) /\ d.outgoing = e.outgoing
  BY OutgoingKept DEF Fit
<1>2. /\ d.maxRetx \in Nat /\ e.maxRetx <= d.maxRetx
      /\ d.incoming = e.incoming /\ d.nonces = e.nonces /\ d.ttl = e.ttl
      /\ d.retxReady \in BOOLEAN
  <2>1. e.maxRetx \in Nat /\ e.retxReady \in BOOLEAN
    BY DEF Fit, IsEntry
  <2>2. CASE e.retxReady
    <3>1. d = [e EXCEPT !.maxRetx = e.maxRetx + 1, !.retxReady = FALSE]
      BY <2>2 DEF IncreaseAllowedRetxCount
    <3>2. e = [x \in Fields |-> e[x]]
      BY DEF Fit, Shaped
    <3> HIDE DEF d
    <3> QED
      BY <2>1, <3>1, <3>2 DEF Fields
  <2>3. CASE ~ e.retxReady
    <3>1. d = e
      BY <2>3 DEF IncreaseAllowedRetxCount
    <3> QED
      BY <2>1, <3>1
  <2> QED
    BY <2>2, <2>3
<1> HIDE DEF d
<1>3. Fit(d)
  <2>1. SentTo(d) = SentTo(e)
    BY <1>1 DEF SentTo
  <2>2. DOMAIN d = Fields
    BY <1>1 DEF Shaped
  <2>3. IsEntry(d)
    BY <1>1, <1>2, <2>1, <2>2 DEF Fit, IsEntry, Fields
  <2>4. \A f \in SentTo(d) : d.outgoing[f].retx <= d.maxRetx
    <3>1. \A f \in SentTo(e) : e.outgoing[f].retx \in Nat /\ e.outgoing[f].retx <= e.maxRetx
      BY DEF Fit, IsEntry
    <3>2. e.maxRetx \in Nat
      BY DEF Fit, IsEntry
    <3> QED
      BY <1>1, <1>2, <2>1, <3>1, <3>2
  <2> QED
    BY <1>1, <2>3, <2>4 DEF Fit
<1> QED
  BY <1>3 DEF d

LEMMA FitVain ==
  ASSUME NEW e, Fit(e), NEW f
  PROVE  Fit(SetWaitingInVain(e, f))
<1> DEFINE d == SetWaitingInVain(e, f)
<1>1. Shaped(d)
  BY VainShaped DEF Fit
<1>2. /\ SentTo(d) = SentTo(e)
      /\ \A g \in SentTo(e) :
           /\ d.outgoing[g].retx = e.outgoing[g].retx
           /\ d.outgoing[g].vain \in BOOLEAN
      /\ d.incoming = e.incoming /\ d.nonces = e.nonces /\ d.ttl = e.ttl
      /\ d.maxRetx = e.maxRetx /\ d.retxReady = e.retxReady
  BY DEF Fit, Shaped, IsEntry, Fields, SentTo, SetWaitingInVain
<1> HIDE DEF d
<1>3. \A g \in SentTo(d) : d.outgoing[g] \in [retx : Nat, vain : BOOLEAN]
  BY <1>1, <1>2 DEF Fit, Shaped, IsEntry
<1> QED
  BY <1>1, <1>2, <1>3 DEF Fit, Shaped, IsEntry, Fields, d

LEMMA CountRecord ==
  ASSUME NEW k \in Nat, NEW r, r = [retx |-> k, vain |-> FALSE]
  PROVE  /\ r \in [retx : Nat, vain : BOOLEAN] /\ r.retx = k
         /\ r = [x \in {"retx", "vain"} |-> r[x]]
OBVIOUS

\* An Interest sent to the routes F, none of which has had all its
\* retransmissions.
LEMMA FitSent ==
  ASSUME NEW e, Fit(e), NEW F \in SUBSET Routes,
         \A f \in F \cap SentTo(e) : e.outgoing[f].retx < e.maxRetx
  PROVE  /\ Fit(AddOutgoing(e, F))
         /\ \A f : Held(AddOutgoing(e, F), f) = IF f \in F THEN Held(e, f) + 1 ELSE Held(e, f)
<1> DEFINE d == AddOutgoing(e, F)
           g == [f \in SentTo(e) \cup F |->
                    IF f \notin SentTo(e) THEN [retx |-> 0, vain |-> FALSE]
                    ELSE IF f \in F
                    THEN [retx |-> e.outgoing[f].retx + 1, vain |-> FALSE]
                    ELSE e.outgoing[f]]
<1>1. d = [e EXCEPT !.outgoing = g]
  BY DEF AddOutgoing
<1>2. /\ DOMAIN g = SentTo(e) \cup F
      /\ \A f \in F \ SentTo(e) : g[f] = [retx |-> 0, vain |-> FALSE]
      /\ \A f \in F \cap SentTo(e) : g[f] = [retx |-> e.outgoing[f].retx + 1, vain |-> FALSE]
      /\ \A f \in SentTo(e) \ F : g[f] = e.outgoing[f]
  OBVIOUS
<1>3. g = [f \in SentTo(e) \cup F |-> g[f]]
  OBVIOUS
<1> HIDE DEF g, d
<1>4. /\ d = [x \in Fields |-> d[x]] /\ d.outgoing = g /\ SentTo(d) = SentTo(e) \cup F
      /\ d.incoming = e.incoming /\ d.nonces = e.nonces /\ d.ttl = e.ttl
      /\ d.maxRetx = e.maxRetx /\ d.retxReady = e.retxReady
  BY <1>1, <1>2 DEF Fit, Shaped, Fields, SentTo
<1>5. ASSUME NEW f \in SentTo(d)
      PROVE  /\ g[f] \in [retx : Nat, vain : BOOLEAN]
             /\ g[f].retx <= e.maxRetx
             /\ g[f] = [x \in {"retx", "vain"} |-> g[f][x]]
  <2>1. f \in SentTo(e) => /\ e.outgoing[f] \in [retx : Nat, vain : BOOLEAN]
                           /\ e.outgoing[f].retx <= e.maxRetx
                           /\ e.outgoing[f] = [x \in {"retx", "vain"} |-> e.outgoing[f][x]]
    BY DEF Fit, Shaped, IsEntry
  <2>2. e.maxRetx \in Nat
    BY DEF Fit, IsEntry
  <2>3. CASE f \in F \ SentTo(e)
    <3>1. g[f] = [retx |-> 0, vain |-> FALSE]
      BY <1>2, <2>3
    <3> QED
      BY <2>2, <3>1, CountRecord
  <2>4. CASE f \in F \cap SentTo(e)
    <3>1. g[f] = [retx |-> e.outgoing[f].retx + 1, vain |-> FALSE]
      BY <1>2, <2>4
    <3>2. e.outgoing[f].retx \in Nat /\ e.outgoing[f].retx < e.maxRetx
      BY <2>1, <2>4
    <3>3. e.outgoing[f].retx + 1 \in Nat /\ e.outgoing[f].retx + 1 <= e.maxRetx
      BY <2>2, <3>2
    <3> QED
      BY <3>1, <3>3, CountRecord
  <2>5. CASE f \in SentTo(e) \ F
    BY <1>2, <2>1, <2>5
  <2> QED
    BY <1>4, <2>3, <2>4, <2>5
<1>6. Shaped(d)
  BY <1>3, <1>4, <1>5 DEF Shaped
<1>7. IsEntry(d)
  BY <1>4, <1>5 DEF IsEntry, Fields, Fit
<1>8. ASSUME NEW f PROVE Held(d, f) = IF f \in F THEN Held(e, f) + 1 ELSE Held(e, f)
  <2>1. f \in SentTo(e) => e.outgoing[f].retx \in Nat
    BY DEF Fit, IsEntry
  <2> QED
    BY <1>2, <1>4, <2>1 DEF Held
<1> QED
  BY <1>4, <1>5, <1>6, <1>7, <1>8 DEF Fit, d

\* An entry that is kept for the pruning time-out.
LEMMA FitErased ==
  ASSUME NEW e, Fit(e)
  PROVE  Fit([e EXCEPT !.incoming = {}, !.outgoing = NoFaces, !.ttl = Pruning])
<1> DEFINE d == [e EXCEPT !.incoming = {}, !.outgoing = NoFaces, !.ttl = Pruning]
<1>1. /\ d = [x \in Fields |-> d[x]]
      /\ d.incoming = {} /\ d.outgoing = NoFaces /\ d.ttl = Pruning
      /\ d.nonces = e.nonces /\ d.maxRetx = e.maxRetx /\ d.retxReady = e.retxReady
  BY DEF Fit, Shaped, Fields
<1> HIDE DEF d
<1>2. DOMAIN d = Fields /\ SentTo(d) = {} /\ NoFaces = [f \in {} |-> NoFaces[f]]
  BY <1>1 DEF SentTo, NoFaces
<1> QED
  BY <1>1, <1>2, SizeAssumption DEF Fit, Shaped, IsEntry, Fields, d

(***************************************************************************)
(* The table.                                                              *)
(***************************************************************************)
Fits(p) ==
    /\ Table(p) /\ DOMAIN p \subseteq Names /\ IsFiniteSet(DOMAIN p)
    /\ \A n \in DOMAIN p : Fit(p[n])

LEMMA FitsCounted ==
  ASSUME NEW p, Fits(p)
  PROVE  Counted(p)
BY DEF Fits, Fit, IsEntry, Counted

LEMMA FitsEntry ==
  ASSUME Fits(pit), NEW n
  PROVE  Fit(EntryOf(n))
BY FitNew DEF Fits, EntryOf

LEMMA FitsPut ==
  ASSUME Fits(pit), NEW n \in Names, NEW e, Fit(e), NEW f
  PROVE  /\ Fits(Put(n, e))
         /\ Held(EntryOf(n), f) \in Nat /\ Held(e, f) \in Nat
         /\ HeldBy(Put(n, e), DOMAIN Put(n, e), f)
              = HeldBy(pit, DOMAIN pit, f) - Held(EntryOf(n), f) + Held(e, f)
<1>1. Placed(Put(n, e), n, e)
  BY PutTable DEF Fits, Fit
<1>2. \A g \in SentTo(e) : e.outgoing[g].retx \in Nat
  BY DEF Fit, IsEntry
<1>3. /\ Held(EntryOf(n), f) \in Nat /\ Held(e, f) \in Nat
      /\ HeldBy(Put(n, e), DOMAIN Put(n, e), f)
              = HeldBy(pit, DOMAIN pit, f) - Held(EntryOf(n), f) + Held(e, f)
  BY <1>2, FitsCounted, HeldPut DEF Fits, Fit
<1>4. IsFiniteSet(DOMAIN pit \cup {n})
  BY FS_AddElement DEF Fits
<1>5. \A m \in DOMAIN Put(n, e) : Fit(Put(n, e)[m])
  BY <1>1 DEF Fits, Placed
<1> QED
  BY <1>1, <1>3, <1>4, <1>5 DEF Fits, Placed

LEMMA FitsErased ==
  ASSUME NEW p, Fits(p), NEW N \in SUBSET DOMAIN p, NEW f
  PROVE  /\ Fits(MarkErased(p, N))
         /\ HeldBy(MarkErased(p, N), DOMAIN MarkErased(p, N), f)
              = HeldBy(p, DOMAIN p, f) - HeldBy(p, N, f)
         /\ HeldBy(p, N, f) \in Nat /\ HeldBy(p, DOMAIN p, f) \in Nat
<1> DEFINE q == MarkErased(p, N)
           D == IF Pruning = 0 THEN DOMAIN p \ N ELSE DOMAIN p
<1>1. Table(q)
  BY ErasedTable DEF Fits
<1>2. /\ DOMAIN q = D
      /\ \A n \in D : q[n] = IF n \in N
           THEN [p[n] EXCEPT !.incoming = {}, !.outgoing = NoFaces, !.ttl = Pruning]
           ELSE p[n]
  BY DEF MarkErased
<1>3. \A n \in DOMAIN q : Fit(q[n])
  BY <1>2, FitErased DEF Fits
<1>4. IsFiniteSet(DOMAIN q) /\ DOMAIN q \subseteq Names
  BY <1>2, FS_Subset DEF Fits
<1>5. /\ HeldBy(MarkErased(p, N), DOMAIN MarkErased(p, N), f)
              = HeldBy(p, DOMAIN p, f) - HeldBy(p, N, f)
      /\ HeldBy(p, N, f) \in Nat /\ HeldBy(p, DOMAIN p, f) \in Nat
  <2>1. \A n \in N : p[n] = [x \in Fields |-> p[n][x]]
    BY DEF Fits, Fit, Shaped
  <2> QED
    BY <2>1, FitsCounted, HeldErased, HeldNat
<1> QED
  BY <1>1, <1>3, <1>4, <1>5 DEF Fits

(***************************************************************************)
(* Credit.  A step is balanced if the limits change with what the table    *)
(* holds.                                                                  *)
(***************************************************************************)
InTable(f) == HeldBy(pit, DOMAIN pit, f)

Window ==
    outstanding \in [Routes -> Int] /\ \A f \in Routes : outstanding[f] <= Limit

Balanced == \A f \in Routes : outstanding'[f] - InTable(f)' = outstanding[f] - InTable(f)

\* The entry of n is given up and its credit is not returned.
GivenUp(n) ==
    \A f \in Routes : /\ outstanding'[f] = outstanding[f]
                      /\ InTable(f)' = InTable(f) - Held(EntryOf(n), f)

LEMMA InTableNat == Fits(pit) => \A f : InTable(f) \in Nat
BY FitsCounted, HeldNat DEF InTable

\* An entry made of the one in the table without sending anything.
Like(e, n) == Fit(e) /\ \A f : Held(e, f) = Held(EntryOf(n), f)

LEMMA SameHeld ==
  ASSUME NEW d, NEW e, d.outgoing = e.outgoing
  PROVE  \A f : Held(d, f) = Held(e, f)
BY DEF Held, SentTo

LEMMA VainHeld ==
  ASSUME NEW e, Fit(e), NEW f
  PROVE  \A g : Held(SetWaitingInVain(e, f), g) = Held(e, g)
<1> DEFINE d == SetWaitingInVain(e, f)
<1>1. /\ SentTo(d) = SentTo(e)
      /\ \A g \in SentTo(e) : d.outgoing[g].retx = e.outgoing[g].retx
  BY DEF Fit, Shaped, IsEntry, Fields, SentTo, SetWaitingInVain
<1> HIDE DEF d
<1> QED
  BY <1>1 DEF Held, d

LEMMA UpdatedLike ==
  ASSUME Fits(pit), NEW f \in Faces, NEW n, NEW x \in Nonces
  PROVE  Like(Updated(f, n, x), n)
<1> DEFINE c == AddSeenNonce(EntryOf(n), x)
           d == AddIncoming(c, f)
<1>1. Fit(EntryOf(n))
  BY FitsEntry
<1>2. Fit(c)
  BY <1>1, FitSeen
<1>3. Fit(d)
  <2> HIDE DEF c
  <2> QED
    BY <1>2, FitIncoming
<1>4. Fit(UpdateLifetime(d))
  <2> HIDE DEF d
  <2> QED
    BY <1>3, FitLifetime
<1>5. Updated(f, n, x) = UpdateLifetime(d)
  BY DEF Updated
<1>6. Updated(f, n, x).outgoing = EntryOf(n).outgoing
  BY UpdatedEntry DEF Fits
<1> HIDE DEF d
<1> QED
  BY <1>4, <1>5, <1>6, SameHeld DEF Like

LEMMA PutLike ==
  ASSUME Fits(pit), NEW n \in Names, NEW e, Like(e, n)
  PROVE  /\ Fits(Put(n, e))
         /\ \A f : HeldBy(Put(n, e), DOMAIN Put(n, e), f) = InTable(f)
<1>1. Fits(Put(n, e))
  BY FitsPut DEF Like
<1>2. ASSUME NEW f
      PROVE  HeldBy(Put(n, e), DOMAIN Put(n, e), f) = InTable(f)
  <2>1. /\ Held(EntryOf(n), f) \in Nat
        /\ HeldBy(Put(n, e), DOMAIN Put(n, e), f)
              = InTable(f) - Held(EntryOf(n), f) + Held(e, f)
    BY FitsPut DEF Like, InTable
  <2>2. Held(e, f) = Held(EntryOf(n), f)
    BY DEF Like
  <2>3. InTable(f) \in Nat
    BY InTableNat
  <2> QED
    BY <2>1, <2>2, <2>3
<1> QED
  BY <1>1, <1>2

LEMMA ErasedLike ==
  ASSUME Fits(pit), NEW n \in Names, NEW e, Like(e, n),
         pit' = MarkErased(Put(n, e), {n})
  PROVE  /\ Fits(pit')
         /\ \A f : InTable(f)' = InTable(f) - Held(EntryOf(n), f)
<1> DEFINE q == Put(n, e)
<1>1. Fits(q) /\ \A f : HeldBy(q, DOMAIN q, f) = InTable(f)
  BY PutLike
<1>2. Placed(q, n, e)
  BY PutTable DEF Fits, Like, Fit
<1>3. pit' = MarkErased(q, {n})
  OBVIOUS
<1> HIDE DEF q
<1>4. n \in DOMAIN q /\ q[n] = e
  BY <1>2 DEF Placed
<1>5. ASSUME NEW f
      PROVE  InTable(f)' = InTable(f) - Held(EntryOf(n), f)
  <2>1. HeldBy(pit', DOMAIN pit', f) = HeldBy(q, DOMAIN q, f) - HeldBy(q, {n}, f)
    BY <1>1, <1>4, <1>3, FitsErased
  <2>2. HeldBy(q, {n}, f) = Held(e, f)
    BY <1>1, <1>4, FitsCounted, HeldOne
  <2> QED
    BY <1>1, <2>1, <2>2 DEF InTable, Like
<1>6. Fits(pit')
  BY <1>1, <1>4, <1>3, FitsErased
<1> QED
  BY <1>5, <1>6

\* What a step that only returns credit keeps.
LEMMA ReturnedWindow ==
  ASSUME Fits(pit), Window, NEW N \in SUBSET DOMAIN pit, outstanding' = Returned(N)
  PROVE  /\ Window'
         /\ \A f \in Routes : outstanding'[f] = outstanding[f] - HeldBy(pit, N, f)
<1>1. \A f : HeldBy(pit, N, f) \in Nat
  BY FitsCounted, HeldNat
<1>2. \A f \in Routes : outstanding'[f] = outstanding[f] - HeldBy(pit, N, f)
  BY DEF Returned
<1>3. outstanding' = [f \in Routes |-> outstanding'[f]]
  BY DEF Returned
<1>4. \A f \in Routes : outstanding'[f] \in Int /\ outstanding'[f] <= Limit
  BY <1>1, <1>2, SizeAssumption DEF Window
<1> QED
  BY <1>2, <1>3, <1>4 DEF Window

(***************************************************************************)
(* Ends of the handlers.                                                   *)
(***************************************************************************)
\* Credit is spent only where it is left, and only on routes that may be tried.
LEMMA TargetsUsable ==
  ASSUME NEW f, NEW e, NEW g \in Targets(f, e)
  PROVE  g \in Routes /\ status[g] # "RED" /\ CanSendOutInterest(f, g, e)
BY StrategyAssumption DEF Targets, BestOf

LEMMA SendOutCredit ==
  ASSUME Fits(pit), Window, NEW n \in Names, NEW e, Like(e, n), NEW x, NEW f,
         SendOut(n, e, x, Targets(f, e))
  PROVE  Fits(pit') /\ Window' /\ Balanced
<1> DEFINE F == Targets(f, e)
           s == AddOutgoing(e, F)
<1>1. /\ F \in SUBSET Routes /\ \A g \in F : outstanding[g] < Limit
      /\ \A g \in F \cap SentTo(e) : e.outgoing[g].retx < e.maxRetx
  BY TargetsUsable DEF CanSendOutInterest
<1>2. pit' = Put(n, s) /\ outstanding' = Borrowed(F)
  BY DEF SendOut
<1> HIDE DEF F
<1>3. /\ Fit(s)
      /\ \A g : Held(s, g) = IF g \in F THEN Held(e, g) + 1 ELSE Held(e, g)
  BY <1>1, FitSent DEF Like
<1> HIDE DEF s
<1>4. Fits(pit')
  BY <1>2, <1>3, FitsPut
<1>5. /\ outstanding' = [g \in Routes |-> outstanding'[g]]
      /\ \A g \in Routes : outstanding'[g] = IF g \in F THEN outstanding[g] + 1 ELSE outstanding[g]
  BY <1>2 DEF Borrowed
<1>6. Window'
  <2>1. ASSUME NEW g \in Routes
        PROVE  outstanding'[g] \in Int /\ outstanding'[g] <= Limit
    <3>1. outstanding[g] \in Int /\ outstanding[g] <= Limit
      BY DEF Window
    <3> QED
      BY <1>1, <1>5, <3>1, SizeAssumption
  <2> QED
    BY <1>5, <2>1 DEF Window
<1>7. Balanced
  <2>1. ASSUME NEW g \in Routes
        PROVE  outstanding'[g] - InTable(g)' = outstanding[g] - InTable(g)
    <3>1. /\ Held(EntryOf(n), g) \in Nat
          /\ InTable(g)' = InTable(g) - Held(EntryOf(n), g) + Held(s, g)
      BY <1>2, <1>3, FitsPut DEF InTable
    <3>2. Held(e, g) = Held(EntryOf(n), g)
      BY DEF Like
    <3>3. outstanding[g] \in Int /\ InTable(g) \in Nat
      BY InTableNat DEF Window
    <3> QED
      BY <1>3, <1>5, <3>1, <3>2, <3>3
  <2> QED
    BY <2>1 DEF Balanced
<1> QED
  BY <1>4, <1>6, <1>7

LEMMA ExhaustCredit ==
  ASSUME Fits(pit), Window, NEW n \in Names, NEW e, Like(e, n), NEW x,
         Exhaust(n, e, x)
  PROVE  Fits(pit') /\ Window' /\ GivenUp(n)
<1>1. pit' = MarkErased(Put(n, e), {n}) /\ outstanding' = outstanding
  BY DEF Exhaust
<1>2. Fits(pit') /\ \A f : InTable(f)' = InTable(f) - Held(EntryOf(n), f)
  BY <1>1, ErasedLike
<1> QED
  BY <1>1, <1>2 DEF Window, GivenUp

LEMMA PutCredit ==
  ASSUME Fits(pit), Window, NEW n \in Names, NEW e, Like(e, n),
         pit' = Put(n, e), UNCHANGED outstanding
  PROVE  Fits(pit') /\ Window' /\ Balanced
<1>1. Fits(pit') /\ \A f : InTable(f)' = InTable(f)
  BY PutLike DEF InTable
<1> QED
  BY <1>1 DEF Window, Balanced

(***************************************************************************)
(* The handlers.                                                           *)
(***************************************************************************)
Credit == Fits(pit') /\ Window' /\ Balanced

\* The routes an entry still waits for.
Open(e) == {g \in SentTo(e) : ~ e.outgoing[g].vain}

LEMMA DuplicateCredit ==
  ASSUME Fits(pit), Window, NEW f \in Faces, NEW n \in Names, NEW x,
         DuplicateInterest(f, n, x)
  PROVE  Credit
<1> DEFINE e == AddIncoming(pit[n], f)
<1>1. n \in DOMAIN pit /\ pit' = Put(n, e) /\ UNCHANGED outstanding
  BY DEF DuplicateInterest, IsDuplicate
<1>2. Fit(pit[n]) /\ EntryOf(n) = pit[n]
  BY <1>1 DEF Fits, EntryOf
<1>3. Fit(e) /\ e.outgoing = pit[n].outgoing
  BY <1>2, FitIncoming, OutgoingKept DEF Fit
<1> HIDE DEF e
<1>4. Like(e, n)
  BY <1>2, <1>3, SameHeld DEF Like
<1> QED
  BY <1>1, <1>4, PutCredit DEF Credit

LEMMA SuppressCredit ==
  ASSUME Fits(pit), Window, NEW f \in Faces, NEW n \in Names, NEW x \in Nonces,
         Suppress(f, n, x)
  PROVE  Credit
<1>1. pit' = Put(n, Updated(f, n, x)) /\ UNCHANGED outstanding
  BY DEF Suppress, Updated
<1>2. Like(Updated(f, n, x), n)
  BY UpdatedLike
<1> QED
  BY <1>1, <1>2, PutCredit DEF Credit

LEMMA CacheHitCredit ==
  ASSUME Fits(pit), Window, NEW f, NEW n \in Names, NEW x \in Nonces,
         CacheHit(f, n, x)
  PROVE  Credit
<1> DEFINE e == AddSeenNonce(EntryOf(n), x)
           N == {n} \cap DOMAIN pit
<1>1. pit' = MarkErased(Put(n, e), {n}) /\ outstanding' = Returned(N)
  BY DEF CacheHit
<1>2. Fit(EntryOf(n))
  BY FitsEntry
<1>3. Fit(e) /\ e.outgoing = EntryOf(n).outgoing
  BY <1>2, FitSeen, OutgoingKept DEF Fit
<1> HIDE DEF e
<1>4. Like(e, n)
  BY <1>3, SameHeld DEF Like
<1>5. Fits(pit') /\ \A g : InTable(g)' = InTable(g) - Held(EntryOf(n), g)
  BY <1>1, <1>4, ErasedLike
<1>6. ASSUME NEW g PROVE HeldBy(pit, N, g) = Held(EntryOf(n), g)
  <2>1. CASE n \in DOMAIN pit
    <3>1. N = {n}
      BY <2>1
    <3> QED
      BY <2>1, <3>1, FitsCounted, HeldOne DEF EntryOf
  <2>2. CASE n \notin DOMAIN pit
    <3>1. N = {}
      BY <2>2
    <3>2. Held(EntryOf(n), g) = 0
      BY <2>2 DEF EntryOf, NewEntry, NoFaces, Held, SentTo
    <3> QED
      BY <3>1, <3>2, HeldNothing
  <2> QED
    BY <2>1, <2>2
<1>7. /\ Window'
      /\ \A g \in Routes : outstanding'[g] = outstanding[g] - HeldBy(pit, N, g)
  <2>1. N \in SUBSET DOMAIN pit
    OBVIOUS
  <2> HIDE DEF N
  <2> QED
    BY <1>1, <2>1, ReturnedWindow
<1>8. ASSUME NEW g \in Routes
      PROVE  outstanding'[g] - InTable(g)' = outstanding[g] - InTable(g)
  <2>1. Held(EntryOf(n), g) \in Nat
    BY <1>4, FitsPut DEF Like
  <2>2. outstanding[g] \in Int /\ InTable(g) \in Nat
    BY InTableNat DEF Window
  <2>3. outstanding'[g] = outstanding[g] - Held(EntryOf(n), g)
    BY <1>6, <1>7
  <2>4. InTable(g)' = InTable(g) - Held(EntryOf(n), g)
    BY <1>5
  <2> QED
    BY <2>1, <2>2, <2>3, <2>4
<1> QED
  BY <1>5, <1>7, <1>8 DEF Credit, Balanced

\* An Interest that finds every route refused gives its entry up.
LEMMA PropagateCredit ==
  ASSUME Fits(pit), Window, NEW f \in Faces, NEW n \in Names, NEW x \in Nonces,
         PropagateInterest(f, n, x)
  PROVE  /\ Fits(pit') /\ Window'
         /\ Balanced \/ (GivenUp(n) /\ Open(EntryOf(n)) = {})
<1> DEFINE first == Updated(f, n, x)
           again == DetectRetransmissions /\ f \in EntryOf(n).incoming
           e == IF again /\ Targets(f, first) = {}
                THEN IncreaseAllowedRetxCount(first) ELSE first
           F == Targets(f, e)
<1>1. IF F = {} /\ AreAllOutgoingInVain(e) THEN Exhaust(n, e, x)
      ELSE SendOut(n, e, x, F)
  BY DEF PropagateInterest, Updated
<1>2. Like(first, n) /\ first.outgoing = EntryOf(n).outgoing
  BY UpdatedLike, UpdatedEntry DEF Fits
<1> HIDE DEF first
<1>3. Like(e, n) /\ e.outgoing = EntryOf(n).outgoing
  <2>1. /\ Fit(IncreaseAllowedRetxCount(first))
        /\ IncreaseAllowedRetxCount(first).outgoing = first.outgoing
    BY <1>2, FitRetx, OutgoingKept DEF Like, Fit
  <2>2. \A g : Held(IncreaseAllowedRetxCount(first), g) = Held(first, g)
    BY <2>1, SameHeld
  <2>3. Like(IncreaseAllowedRetxCount(first), n)
    BY <1>2, <2>1, <2>2 DEF Like
  <2> QED
    BY <1>2, <2>1, <2>3
<1> HIDE DEF e
<1>4. CASE F = {} /\ AreAllOutgoingInVain(e)
  <2>1. Exhaust(n, e, x)
    BY <1>1, <1>4
  <2>2. Open(EntryOf(n)) = {}
    BY <1>3, <1>4 DEF Open, AreAllOutgoingInVain, SentTo
  <2> QED
    BY <1>3, <2>1, <2>2, ExhaustCredit
<1>5. CASE ~ (F = {} /\ AreAllOutgoingInVain(e))
  <2>1. SendOut(n, e, x, Targets(f, e))
    BY <1>1, <1>5
  <2> QED
    BY <1>3, <2>1, SendOutCredit
<1> QED
  BY <1>4, <1>5

LEMMA DataCredit ==
  ASSUME Fits(pit), Window, NEW f, NEW d, OnData(f, d)
  PROVE  Credit
<1>1. CASE UnsolicitedData(f, d)
  BY <1>1 DEF UnsolicitedData, Credit, Window, Balanced, InTable
<1>2. CASE SatisfyPendingInterests(f, d)
  <2> DEFINE N == Waiting(d)
  <2>1. N \in SUBSET DOMAIN pit
    BY DEF Waiting
  <2>2. pit' = MarkErased(pit, N) /\ outstanding' = Returned(N)
    BY <1>2 DEF SatisfyPendingInterests
  <2> HIDE DEF N
  <2>3. /\ Window'
        /\ \A g \in Routes : outstanding'[g] = outstanding[g] - HeldBy(pit, N, g)
    BY <2>1, <2>2, ReturnedWindow
  <2>4. Fits(pit')
    BY <2>1, <2>2, FitsErased
  <2>5. ASSUME NEW g \in Routes
        PROVE  outstanding'[g] - InTable(g)' = outstanding[g] - InTable(g)
    <3>1. InTable(g)' = InTable(g) - HeldBy(pit, N, g) /\ HeldBy(pit, N, g) \in Nat
      BY <2>1, <2>2, FitsErased DEF InTable
    <3>2. outstanding[g] \in Int /\ InTable(g) \in Nat
      BY InTableNat DEF Window
    <3> QED
      BY <2>3, <3>1, <3>2
  <2> QED
    BY <2>3, <2>4, <2>5 DEF Credit, Balanced
<1> QED
  BY <1>1, <1>2 DEF OnData

\* A NACK from the last open route gives the entry up.
LEMMA NackCredit ==
  ASSUME Fits(pit), Window, NEW f \in Routes, NEW n \in Names, NEW x, NEW code,
         OnNack(f, n, x, code)
  PROVE  /\ n \in DOMAIN pit /\ Fits(pit') /\ Window'
         /\ Balanced \/ (GivenUp(n) /\ Open(pit[n]) \subseteq {f})
<1> DEFINE d == IF code = "GIVEUP_PIT" THEN RemoveIncoming(pit[n], f) ELSE pit[n]
           e == SetWaitingInVain(d, f)
           F == Targets(f, e)
<1>1. /\ n \in DOMAIN pit
      /\ IF ~ AreAllOutgoingInVain(e)
         THEN pit' = Put(n, e) /\ sent' = {} /\ UNCHANGED outstanding
         ELSE IF F = {} THEN Exhaust(n, e, x)
         ELSE SendOut(n, e, x, F)
  BY DEF OnNack
<1>2. Fit(pit[n]) /\ EntryOf(n) = pit[n]
  BY <1>1 DEF Fits, EntryOf
<1>3. Fit(d) /\ d.outgoing = pit[n].outgoing
  BY <1>2, FaceAssumption, FitIncoming, OutgoingKept DEF Fit
<1> HIDE DEF d
<1>4. Fit(e)
  BY <1>3, FitVain
<1>5. Like(e, n)
  <2>1. \A g : Held(e, g) = Held(d, g)
    BY <1>3, VainHeld
  <2>2. \A g : Held(d, g) = Held(pit[n], g)
    BY <1>3, SameHeld
  <2> QED
    BY <1>2, <1>4, <2>1, <2>2 DEF Like
<1>6. AreAllOutgoingInVain(e) => Open(pit[n]) \subseteq {f}
  <2>1. Open(pit[n]) = Open(d)
    BY <1>3 DEF Open, SentTo
  <2>2. AreAllOutgoingInVain(e) => Open(d) \subseteq {f}
    BY <1>3 DEF Open, AreAllOutgoingInVain, SetWaitingInVain, SentTo, Fit, Shaped, Fields
  <2> QED
    BY <2>1, <2>2
<1> HIDE DEF e
<1>7. CASE ~ AreAllOutgoingInVain(e)
  <2>1. pit' = Put(n, e) /\ UNCHANGED outstanding
    BY <1>1, <1>7
  <2> QED
    BY <1>1, <1>5, <2>1, PutCredit
<1>8. CASE AreAllOutgoingInVain(e) /\ F = {}
  <2>1. Exhaust(n, e, x)
    BY <1>1, <1>8
  <2> QED
    BY <1>1, <1>5, <1>6, <1>8, <2>1, ExhaustCredit
<1>9. CASE AreAllOutgoingInVain(e) /\ F # {}
  <2>1. SendOut(n, e, x, Targets(f, e))
    BY <1>1, <1>9
  <2> QED
    BY <1>1, <1>5, <2>1, SendOutCredit
<1> QED
  BY <1>7, <1>8, <1>9

LEMMA ExpiryCredit ==
  ASSUME Fits(pit), Window, CleanExpired
  PROVE  Credit
<1> DEFINE N == Expired
           p == [n \in DOMAIN pit \ N |-> pit[n]]
           R == DOMAIN pit \ N
<1>1. pit' = p /\ outstanding' = Returned(N)
  BY DEF CleanExpired
<1>2. N \in SUBSET DOMAIN pit
  BY DEF Expired
<1> HIDE DEF N
<1>3. /\ Window'
      /\ \A g \in Routes : outstanding'[g] = outstanding[g] - HeldBy(pit, N, g)
  BY <1>1, <1>2, ReturnedWindow
<1>4. /\ DOMAIN p = R /\ \A n \in R : p[n] = pit[n]
      /\ Table(p)
  BY RestrictedTable DEF Fits
<1> HIDE DEF p
<1>5. IsFiniteSet(R) /\ \A g : HeldBy(p, R, g) = HeldBy(pit, R, g)
  <2>1. IsFiniteSet(R)
    BY FitsCounted, HeldNat
  <2> QED
    BY <1>4, <2>1, HeldSame
<1>6. Fits(pit')
  BY <1>1, <1>4, <1>5 DEF Fits
<1>7. ASSUME NEW g \in Routes
      PROVE  outstanding'[g] - InTable(g)' = outstanding[g] - InTable(g)
  <2>1. InTable(g) = HeldBy(pit, N, g) + HeldBy(pit, R, g)
    BY <1>2, FitsCounted, HeldSplit DEF InTable
  <2>2. InTable(g)' = HeldBy(pit, R, g)
    BY <1>1, <1>4, <1>5 DEF InTable
  <2>3. HeldBy(pit, N, g) \in Nat /\ HeldBy(pit, R, g) \in Nat
    BY <1>2, FitsCounted, HeldNat
  <2>4. outstanding[g] \in Int
    BY DEF Window
  <2> QED
    BY <1>3, <2>1, <2>2, <2>3, <2>4
<1> QED
  BY <1>3, <1>6, <1>7 DEF Credit, Balanced

\* A step that changes every entry without touching what it was sent to.
LEMMA SameCredit ==
  ASSUME Fits(pit), Window, UNCHANGED outstanding,
         Table(pit'), DOMAIN pit' = DOMAIN pit,
         \A n \in DOMAIN pit : Fit(pit'[n]) /\ pit'[n].outgoing = pit[n].outgoing
  PROVE  Credit
<1>1. Fits(pit')
  BY DEF Fits
<1>2. ASSUME NEW g PROVE InTable(g)' = InTable(g)
  <2>1. \A n \in DOMAIN pit : Held(pit[n], g) = Held(pit'[n], g)
    BY SameHeld
  <2>2. HeldBy(pit, DOMAIN pit, g) = HeldBy(pit', DOMAIN pit, g)
    BY <2>1, HeldSame DEF Fits
  <2> QED
    BY <2>2 DEF InTable
<1> QED
  BY <1>1, <1>2 DEF Credit, Balanced, Window

LEMMA TickCredit ==
  ASSUME Fits(pit), Window, Tick
  PROVE  Credit
<1>1. /\ pit' = [n \in DOMAIN pit |-> [pit[n] EXCEPT !.ttl = @ - 1, !.retxReady = TRUE]]
      /\ UNCHANGED outstanding /\ Expired = {}
  BY DEF Tick
<1>2. Table(pit')
  BY TickStep DEF Fits, Good
<1>3. ASSUME NEW n \in DOMAIN pit
      PROVE  Fit(pit'[n]) /\ pit'[n].outgoing = pit[n].outgoing
  <2> DEFINE e == pit[n]
             d == pit'[n]
  <2>1. Fit(e) /\ e.ttl # 0
    BY <1>1 DEF Fits, Expired
  <2>2. d = [e EXCEPT !.ttl = @ - 1, !.retxReady = TRUE]
    BY <1>1
  <2> HIDE DEF e, d
  <2>3. /\ d = [x \in Fields |-> d[x]] /\ d.outgoing = e.outgoing
        /\ d.ttl = e.ttl - 1 /\ d.retxReady = TRUE
        /\ d.incoming = e.incoming /\ d.nonces = e.nonces /\ d.maxRetx = e.maxRetx
    BY <2>1, <2>2 DEF Fit, Shaped, Fields
  <2>4. DOMAIN d = Fields /\ SentTo(d) = SentTo(e)
    BY <2>3 DEF SentTo
  <2>5. d.ttl \in Nat
    <3>1. e.ttl \in Nat
      BY <2>1 DEF Fit, IsEntry
    <3> QED
      BY <2>1, <2>3, <3>1
  <2>6. Shaped(d)
    BY <2>1, <2>3, <2>4 DEF Fit, Shaped
  <2>7. IsEntry(d)
    BY <2>1, <2>3, <2>4, <2>5 DEF Fit, IsEntry, Fields
  <2>8. Fit(d)
    BY <2>1, <2>3, <2>4, <2>6, <2>7 DEF Fit
  <2> QED
    BY <2>3, <2>8 DEF d, e
<1> QED
  BY <1>1, <1>2, <1>3, SameCredit

LEMMA RemovalCredit ==
  ASSUME Fits(pit), Window, NEW f \in Faces, RemoveFace(f)
  PROVE  Credit
<1>1. pit' = [n \in DOMAIN pit |-> RemoveIncoming(pit[n], f)] /\ UNCHANGED outstanding
  BY DEF RemoveFace
<1>2. Table(pit')
  BY RemovalStep DEF Fits, Good
<1>3. ASSUME NEW n \in DOMAIN pit
      PROVE  Fit(pit'[n]) /\ pit'[n].outgoing = pit[n].outgoing
  <2>1. Fit(pit[n]) /\ pit'[n] = RemoveIncoming(pit[n], f)
    BY <1>1 DEF Fits
  <2>2. Fit(RemoveIncoming(pit[n], f))
    BY <2>1, FitIncoming
  <2>3. RemoveIncoming(pit[n], f).outgoing = pit[n].outgoing
    BY <2>1, OutgoingKept DEF Fit
  <2> QED
    BY <2>1, <2>2, <2>3
<1>4. DOMAIN pit' = DOMAIN pit
  BY <1>1
<1> QED
  BY <1>1, <1>2, <1>3, <1>4, SameCredit

(***************************************************************************)
(* Every step.                                                             *)
(***************************************************************************)
LEMMA NothingHeld ==
  ASSUME Fits(pit), NEW n, n \notin DOMAIN pit \/ SentTo(EntryOf(n)) = {}
  PROVE  \A f : Held(EntryOf(n), f) = 0
BY DEF EntryOf, NewEntry, NoFaces, Held, SentTo

\* Without credit to return there is nothing to lose.
LEMMA NothingLost ==
  ASSUME Fits(pit), Window, NEW n, GivenUp(n), \A f : Held(EntryOf(n), f) = 0
  PROVE  Balanced
<1>1. ASSUME NEW f \in Routes
      PROVE  outstanding'[f] - InTable(f)' = outstanding[f] - InTable(f)
  <2>1. outstanding'[f] = outstanding[f] /\ InTable(f)' = InTable(f) - 0
    BY DEF GivenUp
  <2>2. InTable(f) \in Nat /\ outstanding[f] \in Int
    BY InTableNat DEF Window
  <2> QED
    BY <2>1, <2>2
<1> QED
  BY <1>1 DEF Balanced

\* The handler that gives entry n up, and what the entry still waited for.
GivesUp(n) ==
    /\ n \in DOMAIN pit /\ GivenUp(n)
    /\ Cardinality(Open(pit[n])) <= 1
    /\ \E x \in Nonces :
         \/ \E g \in Routes, code \in NackCodes : OnNack(g, n, x, code)
         \/ \E g \in Faces : PropagateInterest(g, n, x)

LEMMA NextCredit ==
  ASSUME Fits(pit), Window, [Next]_vars
  PROVE  /\ Fits(pit') /\ Window'
         /\ Balanced \/ \E n : GivesUp(n)
<1> DEFINE Goal == /\ Fits(pit') /\ Window'
                   /\ Balanced \/ \E n : GivesUp(n)
<1>1. ASSUME NEW f \in Faces, NEW n \in Names, NEW x \in Nonces, OnInterest(f, n, x)
      PROVE  Goal
  <2>1. CASE PropagateInterest(f, n, x)
    <3>1. /\ Fits(pit') /\ Window'
          /\ Balanced \/ (GivenUp(n) /\ Open(EntryOf(n)) = {})
      BY <2>1, PropagateCredit
    <3>2. CASE GivenUp(n) /\ Open(EntryOf(n)) = {} /\ n \in DOMAIN pit
      <4>1. Open(pit[n]) = {}
        BY <3>2 DEF EntryOf
      <4>2. Cardinality(Open(pit[n])) <= 1
        BY <4>1, FS_EmptySet
      <4>3. GivesUp(n)
        BY <2>1, <3>2, <4>2 DEF GivesUp
      <4> QED
        BY <3>1, <4>3
    <3>3. CASE GivenUp(n) /\ n \notin DOMAIN pit
      BY <3>1, <3>3, NothingHeld, NothingLost
    <3> QED
      BY <3>1, <3>2, <3>3
  <2> QED
    BY <1>1, <2>1, DuplicateCredit, CacheHitCredit, SuppressCredit DEF OnInterest, Credit
<1>2. ASSUME NEW f \in Faces, NEW d \in Names, OnData(f, d)
      PROVE  Goal
  BY <1>2, DataCredit DEF Credit
<1>3. ASSUME NEW f \in Routes, NEW n \in Names, NEW x \in Nonces,
             NEW code \in NackCodes, OnNack(f, n, x, code)
      PROVE  Goal
  <2>1. /\ n \in DOMAIN pit /\ Fits(pit') /\ Window'
        /\ Balanced \/ (GivenUp(n) /\ Open(pit[n]) \subseteq {f})
    BY <1>3, NackCredit
  <2>2. CASE GivenUp(n) /\ Open(pit[n]) \subseteq {f}
    <3>1. IsFiniteSet({f}) /\ Cardinality({f}) = 1
      BY FS_Singleton
    <3>2. Cardinality(Open(pit[n])) <= 1
      BY <2>2, <3>1, FS_Subset
    <3>3. GivesUp(n)
      BY <1>3, <2>1, <2>2, <3>2 DEF GivesUp
    <3> QED
      BY <2>1, <3>3
  <2> QED
    BY <2>1, <2>2
<1>4. ASSUME NEW f \in Apps, RemoveFace(f)
      PROVE  Goal
  BY <1>4, FaceAssumption, RemovalCredit DEF Credit
<1>5. CASE CleanExpired
  BY <1>5, ExpiryCredit DEF Credit
<1>6. CASE Tick
  BY <1>6, TickCredit DEF Credit
<1>7. CASE UNCHANGED vars
  BY <1>7 DEF vars, Window, Balanced, InTable
<1> QED
  BY <1>1, <1>2, <1>3, <1>4, <1>5, <1>6, <1>7 DEF Next

\* Nothing is given back that was not spent.
Covered == \A f \in Routes : InTable(f) <= outstanding[f]

LEMMA InitCredit == Init => Fits(pit) /\ Window /\ Covered /\ LimitAccounting
<1> SUFFICES ASSUME Init PROVE Fits(pit) /\ Window /\ Covered /\ LimitAccounting
  OBVIOUS
<1>1. pit = NoFaces /\ DOMAIN pit = {} /\ outstanding = [f \in Routes |-> 0]
  BY DEF Init, NoFaces
<1>2. Fits(pit)
  BY <1>1, InitGood, FS_EmptySet DEF Fits
<1>3. Window
  BY <1>1, SizeAssumption DEF Window
<1>4. \A f \in Routes : InTable(f) = 0 /\ outstanding[f] = 0
  BY <1>1, HeldNothing DEF InTable
<1>5. Covered
  BY <1>4 DEF Covered
<1>6. LimitAccounting
  BY <1>4 DEF LimitAccounting, InTable
<1> QED
  BY <1>2, <1>3, <1>5, <1>6

LEMMA CoveredStep ==
  ASSUME Fits(pit), Window, Covered, [Next]_vars
  PROVE  Covered'
<1>1. Fits(pit') /\ Window' /\ (Balanced \/ \E n : GivesUp(n))
  BY NextCredit
<1>2. ASSUME NEW f \in Routes
      PROVE  InTable(f)' <= outstanding'[f]
  <2>1. /\ outstanding[f] \in Int /\ outstanding'[f] \in Int
        /\ InTable(f) \in Nat /\ InTable(f) <= outstanding[f]
    BY <1>1, InTableNat DEF Window, Covered
  <2>2. InTable(f)' \in Nat
    BY <1>1, FitsCounted, HeldNat DEF InTable
  <2>3. CASE Balanced
    <3>1. outstanding'[f] - InTable(f)' = outstanding[f] - InTable(f)
      BY <2>3 DEF Balanced
    <3> QED
      BY <2>1, <2>2, <3>1
  <2>4. ASSUME NEW n, GivesUp(n)
        PROVE  InTable(f)' <= outstanding'[f]
    <3>1. /\ outstanding'[f] = outstanding[f]
          /\ InTable(f)' = InTable(f) - Held(EntryOf(n), f)
      BY <2>4 DEF GivesUp, GivenUp
    <3>2. Held(EntryOf(n), f) \in Nat
      BY <2>4, FitsCounted, HeldNat DEF GivesUp, EntryOf
    <3> QED
      BY <2>1, <3>1, <3>2
  <2> QED
    BY <1>1, <2>3, <2>4
<1> QED
  BY <1>2 DEF Covered

(***************************************************************************)
(* Types of the rest of the state.                                         *)
(***************************************************************************)
Packets == {Interest(f, n, x) : f \in Faces, n \in Names, x \in Nonces}
           \cup {Nack(f, n, x, code) : f \in Faces, n \in Names, x \in Nonces,
                                       code \in {"LOOP", "CONGESTION", "GIVEUP_PIT"}}
           \cup {Data(f, n) : f \in Faces, n \in Names}

Typed ==
    /\ status \in [Routes -> {"GREEN", "YELLOW", "RED"}]
    /\ cs \subseteq Names
    /\ sent \subseteq Packets

LEMMA MarkedStatus ==
  ASSUME Typed, NEW F, NEW c \in {"GREEN", "YELLOW"}
  PROVE  Marked(F, c) \in [Routes -> {"GREEN", "YELLOW", "RED"}]
BY DEF Typed, Marked

LEMMA AddedNames ==
  ASSUME Typed, NEW d \in Names, NEW C \in Add(d)
  PROVE  C \subseteq Names
BY DEF Typed, Add

LEMMA LookedUp == Typed => \A n : Lookup(n) \subseteq Names
BY DEF Typed, Lookup

LEMMA SendOutTyped ==
  ASSUME NEW n \in Names, NEW e, NEW x \in Nonces, NEW f, SendOut(n, e, x, Targets(f, e))
  PROVE  sent' \subseteq Packets
<1>1. Targets(f, e) \subseteq Faces
  BY TargetsUsable, FaceAssumption
<1> QED
  BY <1>1 DEF SendOut, Packets

LEMMA ExhaustTyped ==
  ASSUME NEW n \in Names, NEW e, Fit(e), NEW x \in Nonces, Exhaust(n, e, x)
  PROVE  sent' \subseteq Packets
<1>1. e.incoming \subseteq Faces
  BY DEF Fit, IsEntry
<1> QED
  BY <1>1 DEF Exhaust, Packets

LEMMA InterestTyped ==
  ASSUME Fits(pit), Window, Typed, NEW f \in Faces, NEW n \in Names, NEW x \in Nonces,
         OnInterest(f, n, x)
  PROVE  Typed'
<1>1. UNCHANGED <<status, cs>>
  BY DEF OnInterest, DuplicateInterest, CacheHit, Suppress, PropagateInterest
<1>2. CASE DuplicateInterest(f, n, x)
  BY <1>1, <1>2 DEF DuplicateInterest, Typed, Packets
<1>3. CASE CacheHit(f, n, x)
  <2>1. EntryOf(n).incoming \subseteq Faces
    BY FitsEntry DEF Fit, IsEntry
  <2>2. PICK d \in Lookup(n) : sent' = {Data(g, d) : g \in EntryOf(n).incoming \cup {f}}
    BY <1>3 DEF CacheHit
  <2>3. sent' \subseteq Packets
    BY <2>1, <2>2, LookedUp DEF Packets
  <2> QED
    BY <1>1, <2>3 DEF Typed
<1>4. CASE Suppress(f, n, x)
  BY <1>1, <1>4 DEF Suppress, Typed
<1>5. CASE PropagateInterest(f, n, x)
  <2> DEFINE first == Updated(f, n, x)
             again == DetectRetransmissions /\ f \in EntryOf(n).incoming
             e == IF again /\ Targets(f, first) = {}
                  THEN IncreaseAllowedRetxCount(first) ELSE first
  <2>1. IF Targets(f, e) = {} /\ AreAllOutgoingInVain(e) THEN Exhaust(n, e, x)
        ELSE SendOut(n, e, x, Targets(f, e))
    BY <1>5 DEF PropagateInterest, Updated
  <2>2. Fit(first)
    BY UpdatedLike DEF Like
  <2> HIDE DEF first
  <2>3. Fit(e)
    BY <2>2, FitRetx
  <2> HIDE DEF e
  <2>4. sent' \subseteq Packets
    BY <2>1, <2>3, ExhaustTyped, SendOutTyped
  <2> QED
    BY <1>1, <2>4 DEF Typed
<1> QED
  BY <1>2, <1>3, <1>4, <1>5 DEF OnInterest

LEMMA DataTyped ==
  ASSUME Fits(pit), Typed, NEW f \in Faces, NEW d \in Names, OnData(f, d)
  PROVE  Typed'
<1>1. CASE UnsolicitedData(f, d)
  <2>1. cs' \subseteq Names
    BY <1>1, AddedNames DEF UnsolicitedData, Typed
  <2> QED
    BY <1>1, <2>1 DEF UnsolicitedData, Typed
<1>2. CASE SatisfyPendingInterests(f, d)
  <2>1. cs' \subseteq Names
    BY <1>2, AddedNames DEF SatisfyPendingInterests
  <2>2. status' \in [Routes -> {"GREEN", "YELLOW", "RED"}]
    BY <1>2, MarkedStatus DEF SatisfyPendingInterests
  <2>3. \A n \in Waiting(d) : pit[n].incoming \subseteq Faces
    BY DEF Waiting, Fits, Fit, IsEntry
  <2>4. sent' \subseteq Packets
    BY <1>2, <2>3 DEF SatisfyPendingInterests, Packets
  <2> QED
    BY <2>1, <2>2, <2>4 DEF Typed
<1> QED
  BY <1>1, <1>2 DEF OnData

LEMMA NackTyped ==
  ASSUME Fits(pit), Typed, NEW f \in Routes, NEW n \in Names, NEW x \in Nonces,
         NEW code, OnNack(f, n, x, code)
  PROVE  Typed'
<1> DEFINE d == IF code = "GIVEUP_PIT" THEN RemoveIncoming(pit[n], f) ELSE pit[n]
           e == SetWaitingInVain(d, f)
<1>1. /\ n \in DOMAIN pit
      /\ IF ~ AreAllOutgoingInVain(e)
         THEN pit' = Put(n, e) /\ sent' = {} /\ UNCHANGED outstanding
         ELSE IF Targets(f, e) = {} THEN Exhaust(n, e, x)
         ELSE SendOut(n, e, x, Targets(f, e))
      /\ status' = IF code = "LOOP" THEN status ELSE Marked({f}, "YELLOW")
      /\ UNCHANGED cs
  BY DEF OnNack
<1>2. Fit(pit[n])
  BY <1>1 DEF Fits
<1>3. Fit(d)
  BY <1>2, FaceAssumption, FitIncoming
<1> HIDE DEF d
<1>4. Fit(e)
  BY <1>3, FitVain
<1> HIDE DEF e
<1>5. sent' \subseteq Packets
  <2>1. CASE Exhaust(n, e, x)
    BY <1>4, <2>1, ExhaustTyped
  <2>2. CASE SendOut(n, e, x, Targets(f, e))
    BY <2>2, SendOutTyped
  <2> QED
    BY <1>1, <2>1, <2>2
<1>6. status' \in [Routes -> {"GREEN", "YELLOW", "RED"}]
  BY <1>1, MarkedStatus DEF Typed
<1> QED
  BY <1>1, <1>5, <1>6 DEF Typed

LEMMA NextTyped ==
  ASSUME Fits(pit), Window, Typed, [Next]_vars
  PROVE  Typed'
<1>1. CASE CleanExpired
  BY <1>1, MarkedStatus DEF CleanExpired, Typed
<1>2. CASE Tick
  BY <1>2 DEF Tick, Typed
<1>3. ASSUME NEW f \in Apps, RemoveFace(f)
      PROVE  Typed'
  BY <1>3 DEF RemoveFace, Typed
<1>4. CASE UNCHANGED vars
  BY <1>4 DEF vars, Typed
<1> QED
  BY <1>1, <1>2, <1>3, <1>4, InterestTyped, DataTyped, NackTyped DEF Next

(***************************************************************************)
(* The theorems.                                                           *)
(***************************************************************************)
Sound == Fits(pit) /\ Window /\ Covered /\ Typed

LEMMA SoundInit == Init => Sound
BY InitCredit DEF Init, Sound, Typed

LEMMA SoundStep == Sound /\ [Next]_vars => Sound'
BY NextCredit, CoveredStep, NextTyped DEF Sound

LEMMA SoundTypes == Sound => TypeOK
<1> SUFFICES ASSUME Sound PROVE TypeOK
  OBVIOUS
<1>1. DOMAIN pit \subseteq Names /\ \A n \in DOMAIN pit : IsEntry(pit[n])
  BY DEF Sound, Fits, Fit
<1>2. ASSUME NEW f \in Routes
      PROVE  outstanding[f] \in 0 .. Limit
  <2>1. InTable(f) \in Nat
    BY InTableNat DEF Sound
  <2>2. outstanding[f] \in Int /\ outstanding[f] <= Limit /\ InTable(f) <= outstanding[f]
    BY DEF Sound, Window, Covered
  <2> QED
    BY <2>1, <2>2, SizeAssumption
<1>3. outstanding \in [Routes -> 0 .. Limit]
  BY <1>2 DEF Sound, Window
<1>4. Typed
  BY DEF Sound
<1> QED
  BY <1>1, <1>3, <1>4 DEF TypeOK, Typed, Packets

\* The entries of the table and the packets keep their types, and the window of
\* a route (Limits::Window in ndn-limits-window.cc) is never exceeded nor given
\* back more than was taken of it, by any handler of the strategies.
THEOREM TypeCorrect == Spec => []TypeOK
BY SoundInit, SoundStep, SoundTypes, PTL DEF Spec

\* The credit that PerOutFaceLimits does not get back is what was held by the
\* entries that OnNack, or an Interest that found every route refused, gave up:
\* no other handler loses any.
THEOREM LossesTraced == Spec => LostByGivingUp
<1> DEFINE Traced ==
      \A f \in Routes :
         \/ Unreturned(f)' = Unreturned(f)
         \/ \E n \in DOMAIN pit, x \in Nonces :
              /\ Unreturned(f)' = Unreturned(f) + Held(pit[n], f)
              /\ Cardinality({g \in SentTo(pit[n]) : ~ pit[n].outgoing[g].vain}) <= 1
              /\ \/ \E g \in Routes, code \in NackCodes : OnNack(g, n, x, code)
                 \/ \E g \in Faces : PropagateInterest(g, n, x)
<1>1. ASSUME Sound, Next
      PROVE  Traced
  <2>1. Fits(pit) /\ Window /\ (Balanced \/ \E n : GivesUp(n))
    BY <1>1, NextCredit DEF Sound
  <2>2. \A f : /\ Unreturned(f) = outstanding[f] - InTable(f)
               /\ Unreturned(f)' = outstanding'[f] - InTable(f)'
    BY DEF Unreturned, InTable
  <2>3. CASE Balanced
    BY <2>2, <2>3 DEF Balanced
  <2>4. ASSUME NEW n, GivesUp(n)
        PROVE  Traced
    <3>1. PICK x \in Nonces :
             \/ \E g \in Routes, code \in NackCodes : OnNack(g, n, x, code)
             \/ \E g \in Faces : PropagateInterest(g, n, x)
      BY <2>4 DEF GivesUp
    <3>2. /\ n \in DOMAIN pit /\ EntryOf(n) = pit[n]
          /\ Cardinality({g \in SentTo(pit[n]) : ~ pit[n].outgoing[g].vain}) <= 1
      BY <2>4 DEF GivesUp, Open, EntryOf
    <3>3. ASSUME NEW f \in Routes
          PROVE  Unreturned(f)' = Unreturned(f) + Held(pit[n], f)
      <4>1. /\ outstanding'[f] = outstanding[f]
            /\ InTable(f)' = InTable(f) - Held(pit[n], f)
        BY <2>4, <3>2 DEF GivesUp, GivenUp
      <4>2. InTable(f) \in Nat /\ Held(pit[n], f) \in Nat /\ outstanding[f] \in Int
        BY <2>1, <3>2, InTableNat, FitsCounted, HeldNat DEF Window
      <4> QED
        BY <2>2, <4>1, <4>2
    <3> QED
      BY <3>1, <3>2, <3>3
  <2> QED
    BY <2>1, <2>3, <2>4
<1>2. Sound /\ [Next]_vars => [Traced]_vars
  BY <1>1
<1> QED
  BY SoundInit, SoundStep, <1>2, PTL DEF Spec, LostByGivingUp

(***************************************************************************)
(* Without NACKs no route is in vain.                                      *)
(***************************************************************************)
Plain(e) == \A f \in SentTo(e) : ~ e.outgoing[f].vain
AllPlain(p) == \A n \in DOMAIN p : Plain(p[n])

LEMMA SamePlain ==
  ASSUME NEW d, NEW e, d.outgoing = e.outgoing, Plain(e)
  PROVE  Plain(d)
BY DEF Plain, SentTo

LEMMA EntryPlain ==
  ASSUME AllPlain(pit), NEW n
  PROVE  Plain(EntryOf(n))
BY DEF AllPlain, Plain, EntryOf, NewEntry, NoFaces, SentTo

LEMMA PutPlain ==
  ASSUME AllPlain(pit), NEW n, NEW e, Plain(e)
  PROVE  AllPlain(Put(n, e))
BY DEF AllPlain, Put

LEMMA SentPlain ==
  ASSUME NEW e, Shaped(e), Plain(e), NEW F
  PROVE  Plain(AddOutgoing(e, F))
<1> DEFINE g == [f \in SentTo(e) \cup F |->
                    IF f \notin SentTo(e) THEN [retx |-> 0, vain |-> FALSE]
                    ELSE IF f \in F
                    THEN [retx |-> e.outgoing[f].retx + 1, vain |-> FALSE]
                    ELSE e.outgoing[f]]
<1>1. AddOutgoing(e, F).outgoing = g
  BY DEF AddOutgoing, Shaped, Fields
<1>2. \A f \in DOMAIN g : ~ g[f].vain
  BY DEF Plain
<1> QED
  BY <1>1, <1>2 DEF Plain, SentTo

LEMMA ErasedPlain ==
  ASSUME NEW p, Table(p), AllPlain(p), NEW N
  PROVE  AllPlain(MarkErased(p, N))
<1> DEFINE q == MarkErased(p, N)
<1>1. /\ DOMAIN q \subseteq DOMAIN p
      /\ \A n \in DOMAIN q : n \notin N => q[n] = p[n]
      /\ \A n \in DOMAIN q \cap N :
            q[n] = [p[n] EXCEPT !.incoming = {}, !.outgoing = NoFaces, !.ttl = Pruning]
  BY DEF MarkErased
<1> HIDE DEF q
<1>2. \A n \in DOMAIN q \cap N : SentTo(q[n]) = {}
  <2> SUFFICES ASSUME NEW n \in DOMAIN q \cap N PROVE SentTo(q[n]) = {}
    OBVIOUS
  <2>1. p[n] = [x \in Fields |-> p[n][x]]
    BY <1>1 DEF Table, Shaped
  <2>2. q[n].outgoing = NoFaces
    BY <1>1, <2>1 DEF Fields
  <2> QED
    BY <2>2 DEF SentTo, NoFaces
<1>3. \A n \in DOMAIN q : Plain(q[n])
  BY <1>1, <1>2 DEF AllPlain, Plain
<1> QED
  BY <1>3 DEF AllPlain, q

LEMMA PropagatePlain ==
  ASSUME Fits(pit), AllPlain(pit), NEW f \in Faces, NEW n \in Names, NEW x \in Nonces,
         PropagateInterest(f, n, x)
  PROVE  AllPlain(pit')
<1> DEFINE first == Updated(f, n, x)
           again == DetectRetransmissions /\ f \in EntryOf(n).incoming
           e == IF again /\ Targets(f, first) = {}
                THEN IncreaseAllowedRetxCount(first) ELSE first
           F == Targets(f, e)
<1>1. IF F = {} /\ AreAllOutgoingInVain(e) THEN Exhaust(n, e, x)
      ELSE SendOut(n, e, x, F)
  BY DEF PropagateInterest, Updated
<1>2. Shaped(first) /\ first.outgoing = EntryOf(n).outgoing
  BY UpdatedEntry DEF Fits
<1> HIDE DEF first
<1>3. Shaped(e) /\ e.outgoing = EntryOf(n).outgoing
  BY <1>2, OutgoingKept
<1> HIDE DEF e, F
<1>4. Plain(e)
  BY <1>3, EntryPlain, SamePlain
<1>5. CASE Exhaust(n, e, x)
  <2>1. AllPlain(Put(n, e)) /\ Table(Put(n, e))
    BY <1>3, <1>4, PutPlain, PutTable DEF Fits, Placed
  <2> QED
    BY <1>5, <2>1, ErasedPlain DEF Exhaust
<1>6. CASE SendOut(n, e, x, F)
  <2>1. Plain(AddOutgoing(e, F))
    BY <1>3, <1>4, SentPlain
  <2> QED
    BY <1>6, <2>1, PutPlain DEF SendOut
<1> QED
  BY <1>1, <1>5, <1>6

LEMMA PlainStep ==
  ASSUME Fits(pit), Window, AllPlain(pit), NackCodes = {}, [Next]_vars
  PROVE  AllPlain(pit') /\ Balanced
<1>1. ASSUME NEW f \in Faces, NEW n \in Names, NEW x \in Nonces, OnInterest(f, n, x)
      PROVE  AllPlain(pit')
  <2>1. CASE DuplicateInterest(f, n, x)
    <3>1. n \in DOMAIN pit /\ pit' = Put(n, AddIncoming(pit[n], f))
      BY <2>1 DEF DuplicateInterest, IsDuplicate
    <3>2. AddIncoming(pit[n], f).outgoing = pit[n].outgoing
      BY <3>1, OutgoingKept DEF Fits, Table
    <3>3. Plain(AddIncoming(pit[n], f))
      BY <3>1, <3>2, SamePlain DEF AllPlain
    <3> QED
      BY <3>1, <3>3, PutPlain
  <2>2. CASE CacheHit(f, n, x)
    <3> DEFINE e == AddSeenNonce(EntryOf(n), x)
    <3>1. Shaped(e) /\ e.outgoing = EntryOf(n).outgoing
      BY EntryTable, OutgoingKept DEF Fits
    <3>2. pit' = MarkErased(Put(n, e), {n})
      BY <2>2 DEF CacheHit
    <3> HIDE DEF e
    <3>3. AllPlain(Put(n, e)) /\ Table(Put(n, e))
      BY <3>1, EntryPlain, SamePlain, PutPlain, PutTable DEF Fits, Placed
    <3> QED
      BY <3>2, <3>3, ErasedPlain
  <2>3. CASE Suppress(f, n, x)
    <3>1. pit' = Put(n, Updated(f, n, x))
      BY <2>3 DEF Suppress, Updated
    <3>2. Plain(Updated(f, n, x))
      BY UpdatedEntry, EntryPlain, SamePlain DEF Fits
    <3> QED
      BY <3>1, <3>2, PutPlain
  <2> QED
    BY <1>1, <2>1, <2>2, <2>3, PropagatePlain DEF OnInterest
<1>2. ASSUME NEW f \in Faces, NEW d \in Names, OnData(f, d)
      PROVE  AllPlain(pit')
  BY <1>2, ErasedPlain DEF Fits, OnData, UnsolicitedData, SatisfyPendingInterests
<1>3. ASSUME NEW f \in Routes, NEW n \in Names, NEW x \in Nonces,
             NEW code \in NackCodes, OnNack(f, n, x, code)
      PROVE  FALSE
  BY <1>3
<1>4. ASSUME NEW f \in Apps, RemoveFace(f)
      PROVE  AllPlain(pit')
  <2>1. /\ DOMAIN pit' = DOMAIN pit
        /\ \A n \in DOMAIN pit : pit'[n] = RemoveIncoming(pit[n], f)
    BY <1>4 DEF RemoveFace
  <2>2. ASSUME NEW n \in DOMAIN pit PROVE Plain(pit'[n])
    <3>1. Shaped(pit[n]) /\ Plain(pit[n])
      BY DEF Fits, Table, AllPlain
    <3>2. pit'[n].outgoing = pit[n].outgoing
      BY <2>1, <3>1, OutgoingKept
    <3> QED
      BY <3>1, <3>2, SamePlain
  <2> QED
    BY <2>1, <2>2 DEF AllPlain
<1>5. ASSUME CleanExpired
      PROVE  AllPlain(pit')
  BY <1>5 DEF CleanExpired, AllPlain
<1>6. ASSUME Tick
      PROVE  AllPlain(pit')
  <2>1. /\ DOMAIN pit' = DOMAIN pit
        /\ \A n \in DOMAIN pit :
             pit'[n] = [pit[n] EXCEPT !.ttl = @ - 1, !.retxReady = TRUE]
    BY <1>6 DEF Tick
  <2>2. ASSUME NEW n \in DOMAIN pit PROVE Plain(pit'[n])
    <3>1. Shaped(pit[n]) /\ Plain(pit[n])
      BY DEF Fits, Table, AllPlain
    <3>2. pit'[n].outgoing = pit[n].outgoing
      BY <2>1, <3>1 DEF Shaped, Fields
    <3> QED
      BY <3>1, <3>2, SamePlain
  <2> QED
    BY <2>1, <2>2 DEF AllPlain
<1>7. ASSUME UNCHANGED vars
      PROVE  AllPlain(pit')
  BY <1>7 DEF vars, AllPlain
<1>8. AllPlain(pit')
  BY <1>1, <1>2, <1>3, <1>4, <1>5, <1>6, <1>7 DEF Next
<1>9. Balanced
  <2>1. ASSUME NEW f \in Faces, NEW n \in Names, NEW x \in Nonces, PropagateInterest(f, n, x)
        PROVE  Balanced
    <3>1. Balanced \/ (GivenUp(n) /\ Open(EntryOf(n)) = {})
      BY <2>1, PropagateCredit
    <3>2. CASE GivenUp(n) /\ Open(EntryOf(n)) = {}
      <4>1. Plain(EntryOf(n))
        BY EntryPlain
      <4>2. SentTo(EntryOf(n)) = {}
        BY <3>2, <4>1 DEF Open, Plain
      <4> QED
        BY <3>2, <4>2, NothingHeld, NothingLost
    <3> QED
      BY <3>1, <3>2
  <2>2. CASE CleanExpired \/ Tick
    BY <2>2, ExpiryCredit, TickCredit DEF Credit
  <2>3. ASSUME NEW f \in Apps, RemoveFace(f) PROVE Balanced
    BY <2>3, RemovalCredit, FaceAssumption DEF Credit
  <2>4. CASE UNCHANGED vars
    BY <2>4 DEF vars, Balanced, InTable
  <2>5. ASSUME NEW f \in Faces, NEW n \in Names, NEW x \in Nonces, OnInterest(f, n, x)
        PROVE  Balanced
    BY <2>1, <2>5, DuplicateCredit, CacheHitCredit, SuppressCredit DEF OnInterest, Credit
  <2>6. ASSUME NEW f \in Faces, NEW d \in Names, OnData(f, d) PROVE Balanced
    BY <2>6, DataCredit DEF Credit
  <2> QED
    BY <1>3, <2>2, <2>3, <2>4, <2>5, <2>6 DEF Next
<1> QED
  BY <1>8, <1>9

\* Where no neighbour sends NACKs (neither kind of strategy then has a reason to
\* give an entry up that was sent out) the windows of PerOutFaceLimits count
\* exactly what the table waits for.
THEOREM LimitsExact == NackCodes = {} /\ Spec => []LimitAccounting
<1> DEFINE Inv == Sound /\ AllPlain(pit) /\ LimitAccounting
<1>1. Init => Inv
  BY SoundInit, InitCredit DEF Init, AllPlain, NoFaces
<1>2. ASSUME NackCodes = {}
      PROVE  Inv /\ [Next]_vars => Inv'
  <2> SUFFICES ASSUME Inv, [Next]_vars PROVE Inv'
    OBVIOUS
  <2>1. Sound' /\ AllPlain(pit') /\ Balanced
    BY <1>2, SoundStep, PlainStep DEF Sound
  <2>2. ASSUME NEW f \in Routes
        PROVE  outstanding'[f] = InTable(f)'
    <3>1. outstanding'[f] - InTable(f)' = outstanding[f] - InTable(f)
      BY <2>1 DEF Balanced
    <3>2. outstanding[f] = InTable(f)
      BY DEF LimitAccounting, InTable
    <3>3. outstanding[f] \in Int /\ outstanding'[f] \in Int
      BY <2>1 DEF Sound, Window
    <3>4. InTable(f)' \in Nat
      BY <2>1, FitsCounted, HeldNat DEF InTable, Sound
    <3> QED
      BY <3>1, <3>2, <3>3, <3>4
  <2> QED
    BY <2>1, <2>2 DEF LimitAccounting, InTable
<1>3. CASE NackCodes = {}
  <2>1. Inv /\ [Next]_vars => Inv'
    BY <1>2, <1>3
  <2>2. Inv => LimitAccounting
    OBVIOUS
  <2> QED
    BY <1>1, <2>1, <2>2, PTL DEF Spec
<1>4. CASE ~ (NackCodes = {})
  BY <1>4
<1> QED
  BY <1>3, <1>4

(***************************************************************************)
(* The best of some routes.                                                *)
(***************************************************************************)
LEMMA BestExists ==
  ASSUME NEW F \in SUBSET Routes, F # {}
  PROVE  BestOf(F) # {}
<1>1. \A f : Colour(f) \in 1 .. 3
  BY DEF Colour
<1> DEFINE C == {Colour(f) : f \in F}
<1>2. PICK c \in C : \A j \in C : c <= j
  BY <1>1, Least
<1> DEFINE K == {Cost[f] : f \in {g \in F : Colour(g) = c}}
<1>3. K \in SUBSET Nat /\ K # {}
  BY FaceAssumption
<1>4. PICK k \in K : \A j \in K : k <= j
  <2> HIDE DEF K
  <2> QED
    BY <1>3, Least
<1>5. PICK f \in F : Colour(f) = c /\ Cost[f] = k
  BY <1>4
<1>6. ASSUME NEW g \in F \ {f}
      PROVE  Before(f, g)
  <2>1. c \in 1 .. 3 /\ Colour(g) \in 1 .. 3 /\ c <= Colour(g)
    BY <1>1, <1>2
  <2>2. CASE c < Colour(g)
    BY <1>5, <2>2 DEF Before
  <2>3. CASE Colour(g) = c
    <3>1. Cost[g] \in K
      BY <2>3
    <3>2. Cost[f] <= Cost[g]
      BY <1>4, <1>5, <3>1
    <3>3. Cost[f] # Cost[g] /\ Cost[f] \in Nat /\ Cost[g] \in Nat
      BY FaceAssumption
    <3> QED
      BY <1>5, <2>3, <3>2, <3>3 DEF Before
  <2> QED
    BY <2>1, <2>2, <2>3
<1> QED
  BY <1>5, <1>6 DEF BestOf

\* A route that may be used is enough for the strategy to use one.
LEMMA TargetsExist ==
  ASSUME NEW f, NEW e, NEW g \in Routes, status[g] # "RED", CanSendOutInterest(f, g, e)
  PROVE  Targets(f, e) # {}
<1> DEFINE usable == {h \in Routes : status[h] # "RED" /\ CanSendOutInterest(f, h, e)}
           green == {h \in usable : status[h] = "GREEN"}
<1>1. /\ usable \in SUBSET Routes /\ usable # {}
      /\ green \in SUBSET Routes
  OBVIOUS
<1>2. Targets(f, e) = CASE Strategy = "Flooding" -> usable
                        [] Strategy = "BestRoute" -> BestOf(usable)
                        [] OTHER -> IF green # {} THEN BestOf(green) ELSE usable
  BY DEF Targets
<1> HIDE DEF usable, green
<1>3. BestOf(usable) # {} /\ (green # {} => BestOf(green) # {})
  BY <1>1, BestExists
<1> QED
  BY <1>1, <1>2, <1>3, StrategyAssumption

(***************************************************************************)
(* A retransmission.                                                       *)
(***************************************************************************)
LEMMA RetransmissionSent ==
  ASSUME Fits(pit), DetectRetransmissions,
         NEW n \in DOMAIN pit, NEW x \in Nonces, NEW f \in pit[n].incoming,
         pit[n].retxReady,
         NEW g \in Routes \ {f}, status[g] # "RED", outstanding[g] < Limit,
         PropagateInterest(f, n, x)
  PROVE  \E m \in sent' : m.kind = "Interest"
<1> DEFINE first == Updated(f, n, x)
           again == DetectRetransmissions /\ f \in EntryOf(n).incoming
           e == IF again /\ Targets(f, first) = {}
                THEN IncreaseAllowedRetxCount(first) ELSE first
           F == Targets(f, e)
<1>1. IF F = {} /\ AreAllOutgoingInVain(e) THEN Exhaust(n, e, x)
      ELSE SendOut(n, e, x, F)
  BY DEF PropagateInterest, Updated
<1>2. Fit(pit[n]) /\ EntryOf(n) = pit[n] /\ f \in Faces /\ n \in Names
  BY DEF Fits, Fit, IsEntry, EntryOf
<1>3. Fit(first) /\ first.retxReady
  <2>1. Like(first, n)
    BY <1>2, UpdatedLike
  <2>2. Updated(f, n, x).retxReady = pit[n].retxReady
    BY <1>2 DEF Updated, UpdateLifetime, AddIncoming, AddSeenNonce, Fit, Shaped, Fields
  <2> QED
    BY <2>1, <2>2 DEF Like
<1>4. again
  BY <1>2
<1> HIDE DEF first, again
<1>5. F # {}
  <2>1. CASE Targets(f, first) # {}
    BY <2>1
  <2>2. CASE Targets(f, first) = {}
    <3>1. e = [first EXCEPT !.maxRetx = @ + 1, !.retxReady = FALSE]
      BY <1>3, <1>4, <2>2 DEF IncreaseAllowedRetxCount
    <3>2. /\ first = [y \in Fields |-> first[y]] /\ first.maxRetx \in Nat
          /\ \A h \in SentTo(first) : /\ first.outgoing[h].retx \in Nat
                                      /\ first.outgoing[h].retx <= first.maxRetx
      BY <1>3 DEF Fit, Shaped, IsEntry
    <3> HIDE DEF e
    <3>3. e.outgoing = first.outgoing /\ e.maxRetx = first.maxRetx + 1
      BY <3>1, <3>2 DEF Fields
    <3>4. g \in SentTo(e) => e.outgoing[g].retx < e.maxRetx
      <4>1. SentTo(e) = SentTo(first)
        BY <3>3 DEF SentTo
      <4>2. g \in SentTo(e) => /\ e.outgoing[g].retx \in Nat
                               /\ e.outgoing[g].retx <= first.maxRetx
        BY <3>2, <3>3, <4>1
      <4> QED
        BY <3>2, <3>3, <4>2
    <3>5. CanSendOutInterest(f, g, e)
      BY <3>4 DEF CanSendOutInterest
    <3> QED
      BY <3>5, TargetsExist
  <2> QED
    BY <2>1, <2>2
<1> HIDE DEF F
<1>6. sent' = {Interest(h, n, x) : h \in F}
  BY <1>1, <1>5 DEF SendOut
<1>7. PICK h : h \in F
  BY <1>5
<1>8. Interest(h, n, x) \in sent' /\ Interest(h, n, x).kind = "Interest"
  BY <1>6, <1>7 DEF Interest
<1> QED
  BY <1>8

\* With DetectRetransmissions (the default) an Interest that asks again, 100 ms
\* after the last time this was allowed, is sent out if another route has
\* credit: ndn-forwarding-strategy.cc tries a second time after
\* IncreaseAllowedRetxCount, and every strategy then finds a route.
THEOREM RetransmissionsGoOut ==
  DetectRetransmissions /\ Spec => RetransmissionGoesOut
<1> DEFINE GoesOut ==
      \A n \in DOMAIN pit, x \in Nonces : \A f \in pit[n].incoming :
         ( /\ pit[n].retxReady
           /\ \E g \in Routes \ {f} : status[g] # "RED" /\ outstanding[g] < Limit
           /\ PropagateInterest(f, n, x) )
         => \E m \in sent' : m.kind = "Interest"
<1>1. ASSUME DetectRetransmissions, Sound
      PROVE  GoesOut
  BY <1>1, RetransmissionSent DEF Sound
<1>2. CASE DetectRetransmissions
  <2>1. Sound /\ [Next]_vars => [GoesOut]_vars
    BY <1>1, <1>2
  <2> QED
    BY SoundInit, SoundStep, <2>1, PTL DEF Spec, RetransmissionGoesOut
<1>3. CASE ~ DetectRetransmissions
  BY <1>3
<1> QED
  BY <1>2, <1>3

(***************************************************************************)
(* Data.                                                                   *)
(***************************************************************************)
\* No name lies strictly between two others.
TwoLevels ==
    \A n, l \in Names : n \in PrefixesOf[l] => \A d \in PrefixesOf[n] : d = n \/ n = l

\* The content store is not used, or cannot answer with a name the Interest's
\* name extends.
CacheExact == CsSize = 0 \/ TwoLevels

NotCached == CsSize = 0 => cs = {}

LEMMA LookupExtends ==
  ASSUME CacheExact, NotCached, Typed, NEW n \in Names, NEW d \in Lookup(n)
  PROVE  d \in Names /\ n \in PrefixesOf[d]
<1> DEFINE longer == {b \in cs : n \in PrefixesOf[b]}
           shorter == cs \cap PrefixesOf[n]
<1>1. /\ Lookup(n) = IF longer = {} \/ shorter = {} THEN longer
                     ELSE {b \in shorter : shorter \subseteq PrefixesOf[b]}
      /\ d \in cs /\ cs \subseteq Names
  BY DEF Lookup, Typed
<1>2. TwoLevels
  BY <1>1 DEF CacheExact, NotCached
<1>3. CASE longer = {} \/ shorter = {}
  BY <1>1, <1>3
<1>4. CASE longer # {} /\ shorter # {} /\ n \in cs
  <2>1. n \in shorter
    BY <1>4, NameAssumption
  <2> QED
    BY <1>1, <1>4, <2>1
<1>5. CASE longer # {} /\ shorter # {} /\ n \notin cs
  <2>1. PICK l \in cs : n \in PrefixesOf[l]
    BY <1>5
  <2>2. d \in PrefixesOf[n] /\ d # n /\ n # l /\ l \in Names
    BY <1>1, <1>5, <2>1
  <2> QED
    BY <1>2, <2>1, <2>2 DEF TwoLevels
<1> QED
  BY <1>1, <1>3, <1>4, <1>5

LEMMA CacheInit == Init => NotCached
BY DEF Init, NotCached

LEMMA CacheStep == NotCached /\ [Next]_vars => NotCached'
BY NothingCached DEF NotCached

LEMMA OnlyData ==
  ASSUME NEW f, NEW n, NEW x, NEW c
  PROVE  /\ Interest(f, n, x).kind = "Interest" /\ Nack(f, n, x, c).kind = "Nack"
         /\ Data(f, n).kind = "Data" /\ Data(f, n).to = f /\ Data(f, n).name = n
BY DEF Interest, Nack, Data

Wanted(m) ==
    \E n \in PrefixesOf[m.name] :
       \/ n \in DOMAIN pit /\ m.to \in pit[n].incoming
       \/ \E x \in Nonces : CacheHit(m.to, n, x)

LEMMA DataWanted ==
  ASSUME CacheExact, NotCached, Typed, Next, NEW m \in sent', m.kind = "Data"
  PROVE  Wanted(m)
<1>1. ASSUME NEW f \in Faces, NEW n \in Names, NEW x \in Nonces, OnInterest(f, n, x)
      PROVE  Wanted(m)
  <2>1. CASE CacheHit(f, n, x)
    <3>1. PICK d \in Lookup(n) : sent' = {Data(g, d) : g \in EntryOf(n).incoming \cup {f}}
      BY <2>1 DEF CacheHit
    <3>2. PICK g \in EntryOf(n).incoming \cup {f} : m = Data(g, d)
      BY <3>1
    <3>3. m.to = g /\ m.name = d /\ n \in PrefixesOf[d]
      BY <3>2, OnlyData, LookupExtends
    <3>4. g \in EntryOf(n).incoming => n \in DOMAIN pit /\ g \in pit[n].incoming
      BY DEF EntryOf, NewEntry
    <3> QED
      BY <2>1, <3>2, <3>3, <3>4 DEF Wanted
  <2>2. CASE DuplicateInterest(f, n, x) \/ Suppress(f, n, x)
    BY <2>2, OnlyData DEF DuplicateInterest, Suppress
  <2>3. CASE PropagateInterest(f, n, x)
    <3>1. \A h \in sent' : h.kind # "Data"
      BY <2>3, OnlyData DEF PropagateInterest, Exhaust, SendOut
    <3> QED
      BY <3>1
  <2> QED
    BY <1>1, <2>1, <2>2, <2>3 DEF OnInterest
<1>2. ASSUME NEW f \in Faces, NEW d \in Names, OnData(f, d)
      PROVE  Wanted(m)
  <2>1. SatisfyPendingInterests(f, d)
    BY <1>2 DEF OnData, UnsolicitedData
  <2>2. PICK g \in UNION {pit[n].incoming : n \in Waiting(d)} : m = Data(g, d)
    BY <2>1 DEF SatisfyPendingInterests
  <2>3. PICK n \in Waiting(d) : g \in pit[n].incoming
    BY <2>2
  <2> QED
    BY <2>2, <2>3, OnlyData DEF Wanted, Waiting
<1>3. ASSUME NEW f \in Routes, NEW n \in Names, NEW x \in Nonces,
             NEW code \in NackCodes, OnNack(f, n, x, code)
      PROVE  Wanted(m)
  <2>1. \A h \in sent' : h.kind # "Data"
    BY <1>3, OnlyData DEF OnNack, Exhaust, SendOut
  <2> QED
    BY <2>1
<1>4. ASSUME NEW f \in Apps, RemoveFace(f)
      PROVE  Wanted(m)
  BY <1>4 DEF RemoveFace
<1> QED
  BY <1>1, <1>2, <1>3, <1>4 DEF Next, CleanExpired, Tick

LEMMA NotBack ==
  ASSUME NEW m \in sent', m.kind = "Data"
  PROVE  ~ OnData(m.to, m.name)
<1>1. ASSUME OnData(m.to, m.name) PROVE FALSE
  <2>1. SatisfyPendingInterests(m.to, m.name)
    BY <1>1 DEF OnData, UnsolicitedData
  <2>2. PICK g : g # m.to /\ m = Data(g, m.name)
    BY <2>1 DEF SatisfyPendingInterests
  <2> QED
    BY <2>2, OnlyData
<1> QED
  BY <1>1

\* Nobody gets Data it did not ask for, nor what it has itself sent, on a node
\* without a content store, or with one when no name lies strictly between two
\* others: Lookup of the content store (the run FwLookup) is the one exception.
THEOREM OnlyWantedData == CacheExact /\ Spec => DataIsWanted
<1> DEFINE Right == \A m \in sent' : m.kind = "Data" =>
         /\ \E n \in PrefixesOf[m.name] :
              \/ n \in DOMAIN pit /\ m.to \in pit[n].incoming
              \/ \E x \in Nonces : CacheHit(m.to, n, x)
         /\ ~ OnData(m.to, m.name)
<1>1. ASSUME CacheExact, NotCached, Sound, Next
      PROVE  Right
  BY <1>1, DataWanted, NotBack DEF Wanted, Sound
<1>2. CASE CacheExact
  <2>1. Sound /\ NotCached /\ [Next]_vars => [Right]_vars
    BY <1>1, <1>2
  <2> QED
    BY SoundInit, SoundStep, CacheInit, CacheStep, <2>1, PTL DEF Spec, DataIsWanted
<1>3. CASE ~ CacheExact
  BY <1>3
<1> QED
  BY <1>2, <1>3

(***************************************************************************)
(* Nobody is dropped.                                                      *)
(***************************************************************************)
\* A hit leaves the other entries alone and answers all that waited in its own.
LEMMA CacheHitAnswers ==
  ASSUME CacheExact, NotCached, Sound, NEW f, NEW n \in Names, NEW x,
         CacheHit(f, n, x), NEW m \in DOMAIN pit, NEW h \in pit[m].incoming
  PROVE  \/ m \in DOMAIN pit' /\ h \in pit'[m].incoming
         \/ \E d \in Names : m \in PrefixesOf[d] /\ Data(h, d) \in sent'
<1>1. CASE m = n
  <2>1. PICK d \in Lookup(n) : sent' = {Data(g, d) : g \in EntryOf(n).incoming \cup {f}}
    BY DEF CacheHit
  <2>2. d \in Names /\ n \in PrefixesOf[d]
    BY LookupExtends DEF Sound
  <2>3. EntryOf(n).incoming = pit[n].incoming
    BY <1>1 DEF EntryOf
  <2> QED
    BY <1>1, <2>1, <2>2, <2>3
<1>2. CASE m # n
  <2> DEFINE e == AddSeenNonce(EntryOf(n), x)
             q == Put(n, e)
  <2>1. Table(pit) /\ Shaped(e)
    BY EntryTable, OutgoingKept DEF Sound, Fits
  <2>2. pit' = MarkErased(q, {n})
    BY DEF CacheHit
  <2> HIDE DEF e
  <2>3. Placed(q, n, e)
    BY <2>1, PutTable
  <2> HIDE DEF q
  <2> QED
    BY <1>2, <2>2, <2>3, ErasedTable DEF Placed
<1> QED
  BY <1>1, <1>2

\* On a node that sends NACKs a face leaves an entry only with the Data, with a
\* NACK_GIVEUP_PIT, because the entry expired or the face was removed, or as the
\* sender of the Data or of a NACK_GIVEUP_PIT; Lookup of the content store is
\* the one exception, as for OnlyWantedData.
THEOREM NobodyDropped == CacheExact /\ EnableNACKs /\ Spec => FaceAnswered
<1> DEFINE Answered == \A n \in DOMAIN pit : \A f \in pit[n].incoming :
              \/ n \in DOMAIN pit' /\ f \in pit'[n].incoming
              \/ \E d \in Names : n \in PrefixesOf[d] /\ Data(f, d) \in sent'
              \/ \E x \in Nonces : Nack(f, n, x, "GIVEUP_PIT") \in sent'
              \/ CleanExpired
              \/ \E d \in Names : OnData(f, d)
              \/ \E x \in Nonces : OnNack(f, n, x, "GIVEUP_PIT")
              \/ RemoveFace(f)
<1>1. ASSUME CacheExact, NotCached, EnableNACKs, Sound, Next
      PROVE  Answered
  <2>0. Table(pit)
    BY <1>1 DEF Sound, Fits
  <2>1. ASSUME NEW f \in Faces, NEW n \in Names, NEW x \in Nonces, OnInterest(f, n, x)
        PROVE  Answered
    <3>1. CASE CacheHit(f, n, x)
      BY <1>1, <3>1, CacheHitAnswers
    <3>2. CASE DuplicateInterest(f, n, x) \/ Suppress(f, n, x)
      BY <2>0, <3>2, DuplicateStep, SuppressStep DEF Kept
    <3>3. CASE PropagateInterest(f, n, x)
      BY <1>1, <2>0, <3>3, PropagateStep DEF Kept, Refused
    <3> QED
      BY <2>1, <3>1, <3>2, <3>3 DEF OnInterest
  <2>2. ASSUME NEW g \in Faces, NEW d \in Names, OnData(g, d)
        PROVE  Answered
    <3>1. CASE UnsolicitedData(g, d)
      BY <3>1 DEF UnsolicitedData
    <3>2. CASE SatisfyPendingInterests(g, d)
      <4>1. ASSUME NEW n \in Waiting(d), NEW f \in pit[n].incoming, f # g
            PROVE  n \in PrefixesOf[d] /\ Data(f, d) \in sent'
        BY <3>2, <4>1 DEF SatisfyPendingInterests, Waiting
      <4>2. ASSUME NEW n \in DOMAIN pit \ Waiting(d)
            PROVE  n \in DOMAIN pit' /\ pit'[n] = pit[n]
        BY <2>0, <3>2, ErasedTable DEF SatisfyPendingInterests
      <4> QED
        BY <2>2, <4>1, <4>2
    <3> QED
      BY <2>2, <3>1, <3>2 DEF OnData
  <2>3. ASSUME NEW g \in Routes, NEW n \in Names, NEW x \in Nonces,
               NEW code \in NackCodes, OnNack(g, n, x, code)
        PROVE  Answered
    BY <1>1, <2>0, <2>3, NackStep DEF Told
  <2>4. CASE Tick
    BY <2>0, <2>4, TickStep DEF Kept
  <2>5. ASSUME NEW g \in Apps, RemoveFace(g)
        PROVE  Answered
    BY <2>0, <2>5, RemovalStep
  <2> QED
    BY <1>1, <2>1, <2>2, <2>3, <2>4, <2>5 DEF Next
<1>2. CASE CacheExact /\ EnableNACKs
  <2>1. Sound /\ NotCached /\ [Next]_vars => [Answered]_vars
    BY <1>1, <1>2
  <2> QED
    BY SoundInit, SoundStep, CacheInit, CacheStep, <2>1, PTL DEF Spec, FaceAnswered
<1>3. CASE ~ (CacheExact /\ EnableNACKs)
  BY <1>3
<1> QED
  BY <1>2, <1>3
=============================================================================
