----------------------------- MODULE Forwarder -----------------------------
(***************************************************************************)
(* One NDN node: the forwarding strategies over the pending Interest       *)
(* table, the per-face Interest limits and the status of the routes.       *)
(*                                                                         *)
(* The simulator runs one handler at a time: each action is a whole        *)
(* handler (OnInterest, OnData, OnNack, CleanExpired) on one of its paths. *)
(* Every name has the same FIB entry, as with a default route.             *)
(***************************************************************************)
EXTENDS Integers, FiniteSets, FiniteSetsExt, Functions

CONSTANTS
    Faces,      \* the faces of the node
    Apps,       \* those that lead to a local application
    Cost,       \* the routing cost of each face of the FIB entry
    Names,      \* the names of Interests and Data
    PrefixesOf,   \* the names each name extends, itself included
    Nonces,     \* the nonces an Interest can carry
    Strategy,   \* "Flooding", "SmartFlooding" or "BestRoute"
    EnableNACKs,            \* the attribute of Nacks
    DetectRetransmissions,  \* the attribute of ForwardingStrategy
    NackCodes,  \* the codes neighbours send
    Limit,      \* m_curMaxLimit of Limits::Window, on every route
    CsSize,     \* entries the content store holds; 0 stands for Nocache
    Pruning,    \* PitEntryPruningTimout, in ticks
    Lifetime    \* the lifetime of an Interest, in ticks of at least 100 ms

Routes == DOMAIN Cost

ASSUME FaceAssumption ==
    /\ Apps \subseteq Faces
    /\ Routes \subseteq Faces \ Apps
    /\ Cost \in [Routes -> Nat]
    /\ \A f, g \in Routes : f # g => Cost[f] # Cost[g]
ASSUME NameAssumption ==
    /\ PrefixesOf \in [Names -> SUBSET Names]
    /\ \A n \in Names : n \in PrefixesOf[n]
ASSUME StrategyAssumption ==
    /\ Strategy \in {"Flooding", "SmartFlooding", "BestRoute"}
    /\ EnableNACKs \in BOOLEAN /\ DetectRetransmissions \in BOOLEAN
    /\ NackCodes \subseteq {"LOOP", "CONGESTION", "GIVEUP_PIT"}
ASSUME SizeAssumption ==
    Limit \in Nat /\ CsSize \in Nat /\ Pruning \in Nat /\ Lifetime \in Nat \ {0}

VARIABLES
    pit,          \* name -> entry, for the names that have one
    outstanding,  \* m_outstanding of the limits of each route
    status,       \* fib::FaceMetric::m_status of each route
    cs,           \* the names whose Data is in the content store
    sent          \* the packets the last handler sent

vars == <<pit, outstanding, status, cs, sent>>

Interest(f, n, x) == [kind |-> "Interest", to |-> f, name |-> n, nonce |-> x]
Nack(f, n, x, code) == [kind |-> "Nack", to |-> f, name |-> n, nonce |-> x, code |-> code]
Data(f, d) == [kind |-> "Data", to |-> f, name |-> d]

(***************************************************************************)
(* PIT entries.  The expiry time is kept as the ticks left.                *)
(***************************************************************************)
NoFaces == [f \in {} |-> {}]

\* The first 100 ms of a simulation aside, a new entry may be retransmitted.
NewEntry == [incoming |-> {}, outgoing |-> NoFaces, nonces |-> {}, maxRetx |-> 0,
             ttl |-> Lifetime, retxReady |-> TRUE]

EntryOf(n) == IF n \in DOMAIN pit THEN pit[n] ELSE NewEntry

\* The table with entry e for n.
Put(n, e) == [m \in DOMAIN pit \cup {n} |-> IF m = n THEN e ELSE pit[m]]

SentTo(e) == DOMAIN e.outgoing

AddSeenNonce(e, x) == [e EXCEPT !.nonces = @ \cup {x}]
AddIncoming(e, f) == [e EXCEPT !.incoming = @ \cup {f}]
RemoveIncoming(e, f) == [e EXCEPT !.incoming = @ \ {f}]

\* UpdateLifetime: an entry never expires earlier than the new Interest.
UpdateLifetime(e) == [e EXCEPT !.ttl = Max({@, Lifetime})]

\* At most one more retransmission is allowed every 100 ms.
IncreaseAllowedRetxCount(e) ==
    IF e.retxReady THEN [e EXCEPT !.maxRetx = @ + 1, !.retxReady = FALSE] ELSE e

AddOutgoing(e, F) ==
    [e EXCEPT !.outgoing = [f \in SentTo(e) \cup F |->
        IF f \notin SentTo(e) THEN [retx |-> 0, vain |-> FALSE]
        ELSE IF f \in F THEN [retx |-> e.outgoing[f].retx + 1, vain |-> FALSE]
        ELSE e.outgoing[f]]]

SetWaitingInVain(e, f) ==
    IF f \in SentTo(e) THEN [e EXCEPT !.outgoing[f].vain = TRUE] ELSE e

AreAllOutgoingInVain(e) == \A f \in SentTo(e) : e.outgoing[f].vain

\* ClearIncoming, ClearOutgoing and MarkErased of the entries N of the table p.
MarkErased(p, N) ==
    [n \in (IF Pruning = 0 THEN DOMAIN p \ N ELSE DOMAIN p) |->
        IF n \in N THEN [p[n] EXCEPT !.incoming = {}, !.outgoing = NoFaces, !.ttl = Pruning]
        ELSE p[n]]

(***************************************************************************)
(* Interest limits: what entry e holds of route f, what the entries N of   *)
(* table p hold of it, and the outstanding Interests once they have        *)
(* returned that.                                                          *)
(***************************************************************************)
Held(e, f) == IF f \in SentTo(e) THEN e.outgoing[f].retx + 1 ELSE 0

HeldBy(p, N, f) == SumFunctionOnSet([n \in N |-> Held(p[n], f)], N)

\* A mutant of Returned: a retransmission is not given back.
ReturnedOnce(N) ==
    [f \in Routes |-> outstanding[f] - Cardinality({n \in N : f \in SentTo(pit[n])})]

Returned(N) == [f \in Routes |-> outstanding[f] - HeldBy(pit, N, f)]

\* A limit is borrowed for every Interest sent to the routes F.
Borrowed(F) == [f \in Routes |-> IF f \in F THEN outstanding[f] + 1 ELSE outstanding[f]]

(***************************************************************************)
(* Choice of routes.                                                       *)
(***************************************************************************)
Colour(f) == CASE status[f] = "GREEN" -> 1 [] status[f] = "YELLOW" -> 2 [] OTHER -> 3

\* The order of the index i_metric.
Before(f, g) == Colour(f) < Colour(g) \/ (Colour(f) = Colour(g) /\ Cost[f] < Cost[g])

BestOf(F) == {f \in F : \A g \in F \ {f} : Before(f, g)}

\* A mutant of CanSendOutInterest: the limit is not checked.
CanSendUnlimited(inFace, f, e) ==
    /\ f # inFace
    /\ f \in SentTo(e) => DetectRetransmissions /\ e.outgoing[f].retx < e.maxRetx

CanSendOutInterest(inFace, f, e) ==
    /\ outstanding[f] < Limit
    /\ f # inFace
    /\ f \in SentTo(e) => DetectRetransmissions /\ e.outgoing[f].retx < e.maxRetx

\* The routes DoPropagateInterest of the strategy sends the Interest to.
Targets(inFace, e) ==
    LET usable == {f \in Routes : status[f] # "RED" /\ CanSendOutInterest(inFace, f, e)}
        green  == {f \in usable : status[f] = "GREEN"}
    IN  CASE Strategy = "Flooding" -> usable
          [] Strategy = "BestRoute" -> BestOf(usable)
          [] OTHER -> IF green # {} THEN BestOf(green) ELSE usable

\* GreenYellowRed and the strategies built on it mark the routes F.
Marked(F, colour) ==
    IF Strategy = "Flooding" THEN status
    ELSE [f \in Routes |-> IF f \in F THEN colour ELSE status[f]]

(***************************************************************************)
(* The content store: Add makes room only in a full store; Lookup needs an *)
(* entry that extends the name, but prefers the longest one the name       *)
(* itself extends.                                                         *)
(***************************************************************************)
Add(d) ==
    IF CsSize = 0 \/ d \in cs THEN {cs}
    ELSE IF Cardinality(cs) < CsSize THEN {cs \cup {d}}
    ELSE {(cs \ {v}) \cup {d} : v \in cs}

Lookup(n) ==
    LET longer  == {d \in cs : n \in PrefixesOf[d]}
        shorter == cs \cap PrefixesOf[n]
    IN  IF longer = {} \/ shorter = {} THEN longer
        ELSE {d \in shorter : shorter \subseteq PrefixesOf[d]}

Init ==
    /\ pit = NoFaces
    /\ outstanding = [f \in Routes |-> 0]
    /\ status \in [Routes -> {"YELLOW", "RED"}]
    /\ cs = {}
    /\ sent = {}

(***************************************************************************)
(* OnInterest.                                                             *)
(***************************************************************************)
IsDuplicate(n, x) == n \in DOMAIN pit /\ x \in pit[n].nonces

\* A mutant of DuplicateInterest: it extends the lifetime.
RefreshDuplicate(f, n, x) ==
    /\ IsDuplicate(n, x)
    /\ pit' = Put(n, UpdateLifetime(AddIncoming(pit[n], f)))
    /\ sent' = IF EnableNACKs THEN {Nack(f, n, x, "LOOP")} ELSE {}
    /\ UNCHANGED <<outstanding, status, cs>>

\* The nonce was seen: a loop, or the same Interest over two paths.
DuplicateInterest(f, n, x) ==
    /\ IsDuplicate(n, x)
    /\ pit' = Put(n, AddIncoming(pit[n], f))
    /\ sent' = IF EnableNACKs THEN {Nack(f, n, x, "LOOP")} ELSE {}
    /\ UNCHANGED <<outstanding, status, cs>>

\* The content store has the Data.
CacheHit(f, n, x) ==
    /\ ~ IsDuplicate(n, x)
    /\ \E d \in Lookup(n) :
         sent' = {Data(g, d) : g \in EntryOf(n).incoming \cup {f}}
    /\ pit' = MarkErased(Put(n, AddSeenNonce(EntryOf(n), x)), {n})
    /\ outstanding' = Returned({n} \cap DOMAIN pit)
    /\ UNCHANGED <<status, cs>>

\* The entry already waits for the Data, and f is not asking again.
ShouldSuppressIncomingInterest(f, e) ==
    /\ e.incoming # {} \/ SentTo(e) # {}
    /\ f \notin SentTo(e)
    /\ ~ (DetectRetransmissions /\ f \in e.incoming)

Suppress(f, n, x) ==
    /\ ~ IsDuplicate(n, x)
    /\ Lookup(n) = {}
    /\ ShouldSuppressIncomingInterest(f, EntryOf(n))
    /\ pit' = Put(n, UpdateLifetime(AddIncoming(AddSeenNonce(EntryOf(n), x), f)))
    /\ sent' = {}
    /\ UNCHANGED <<outstanding, status, cs>>

\* A mutant of Exhaust: no NACK is sent.
ExhaustSilently(n, e, x) ==
    /\ pit' = MarkErased(Put(n, e), {n})
    /\ sent' = {}
    /\ UNCHANGED outstanding

\* DidExhaustForwardingOptions for the entry e of n.  (Both callers have found
\* that all outgoing faces are in vain.)  No limit is returned.
Exhaust(n, e, x) ==
    /\ pit' = MarkErased(Put(n, e), {n})
    /\ sent' = IF EnableNACKs THEN {Nack(g, n, x, "GIVEUP_PIT") : g \in e.incoming} ELSE {}
    /\ UNCHANGED outstanding

\* TrySendOutInterest of the entry e of n for each of the routes F.
SendOut(n, e, x, F) ==
    /\ pit' = Put(n, AddOutgoing(e, F))
    /\ sent' = {Interest(g, n, x) : g \in F}
    /\ outstanding' = Borrowed(F)

\* A mutant of PropagateInterest: a retransmission gets no second try.
PropagateOnce(f, n, x) ==
    /\ ~ IsDuplicate(n, x)
    /\ Lookup(n) = {}
    /\ ~ ShouldSuppressIncomingInterest(f, EntryOf(n))
    /\ LET e == UpdateLifetime(AddIncoming(AddSeenNonce(EntryOf(n), x), f))
           F == Targets(f, e)
       IN  IF F = {} /\ AreAllOutgoingInVain(e) THEN Exhaust(n, e, x) ELSE SendOut(n, e, x, F)
    /\ UNCHANGED <<status, cs>>

\* A mutant of PropagateInterest: an entry that was sent nowhere is kept.
KeepUnsent(f, n, x) ==
    /\ ~ IsDuplicate(n, x)
    /\ Lookup(n) = {}
    /\ ~ ShouldSuppressIncomingInterest(f, EntryOf(n))
    /\ LET e == UpdateLifetime(AddIncoming(AddSeenNonce(EntryOf(n), x), f))
       IN  SendOut(n, e, x, Targets(f, e))
    /\ UNCHANGED <<status, cs>>

\* A new Interest, a retransmission, or an Interest from a face it was sent to.
PropagateInterest(f, n, x) ==
    /\ ~ IsDuplicate(n, x)
    /\ Lookup(n) = {}
    /\ ~ ShouldSuppressIncomingInterest(f, EntryOf(n))
    /\ LET isRetransmitted == DetectRetransmissions /\ f \in EntryOf(n).incoming
           first == UpdateLifetime(AddIncoming(AddSeenNonce(EntryOf(n), x), f))
           e == IF isRetransmitted /\ Targets(f, first) = {}
                THEN IncreaseAllowedRetxCount(first) ELSE first
           F == Targets(f, e)
       IN  IF F = {} /\ AreAllOutgoingInVain(e) THEN Exhaust(n, e, x) ELSE SendOut(n, e, x, F)
    /\ UNCHANGED <<status, cs>>

(***************************************************************************)
(* OnData.                                                                 *)
(***************************************************************************)
\* A mutant of Waiting: the names that extend d, not those it extends.
WaitingBelow(d) == {n \in DOMAIN pit : d \in PrefixesOf[n] /\ pit[n].incoming # {}}

\* The entries PIT lookups for d find, one after the other.
Waiting(d) == {n \in PrefixesOf[d] \cap DOMAIN pit : pit[n].incoming # {}}

\* Data nobody waits for; stored only if an application pushes it.
UnsolicitedData(f, d) ==
    /\ Waiting(d) = {}
    /\ cs' \in IF f \in Apps THEN Add(d) ELSE {cs}
    /\ sent' = {}
    /\ UNCHANGED <<pit, outstanding, status>>

\* Data that satisfies every pending entry whose name it extends.
SatisfyPendingInterests(f, d) ==
    /\ Waiting(d) # {}
    /\ cs' \in Add(d)
    /\ pit' = MarkErased(pit, Waiting(d))
    /\ outstanding' = Returned(Waiting(d))
    /\ status' = Marked({f}, "GREEN")
    /\ sent' = {Data(g, d) : g \in (UNION {pit[n].incoming : n \in Waiting(d)}) \ {f}}

(***************************************************************************)
(* OnNack (whether or not EnableNACKs is set) for an entry of the table.   *)
(***************************************************************************)
OnNack(f, n, x, code) ==
    /\ n \in DOMAIN pit
    /\ LET e == SetWaitingInVain(IF code = "GIVEUP_PIT" THEN RemoveIncoming(pit[n], f)
                                 ELSE pit[n], f)
           F == Targets(f, e)
       IN  IF ~ AreAllOutgoingInVain(e)
           THEN pit' = Put(n, e) /\ sent' = {} /\ UNCHANGED outstanding
           ELSE IF F = {} THEN Exhaust(n, e, x)
           ELSE SendOut(n, e, x, F)
    /\ status' = IF code = "LOOP" THEN status ELSE Marked({f}, "YELLOW")
    /\ UNCHANGED cs

(***************************************************************************)
(* Time.  An entry is erased at the instant it expires, after or before    *)
(* the other events of that instant.                                       *)
(***************************************************************************)
Expired == {n \in DOMAIN pit : pit[n].ttl = 0}

\* A mutant of CleanExpired: the limits are not returned.
ForgetExpired ==
    /\ Expired # {}
    /\ pit' = [n \in DOMAIN pit \ Expired |-> pit[n]]
    /\ status' = Marked(UNION {SentTo(pit[n]) : n \in Expired}, "YELLOW")
    /\ sent' = {}
    /\ UNCHANGED <<outstanding, cs>>

CleanExpired ==
    /\ Expired # {}
    /\ pit' = [n \in DOMAIN pit \ Expired |-> pit[n]]
    /\ outstanding' = Returned(Expired)
    /\ status' = Marked(UNION {SentTo(pit[n]) : n \in Expired}, "YELLOW")
    /\ sent' = {}
    /\ UNCHANGED cs

Tick ==
    /\ DOMAIN pit # {}
    /\ Expired = {}
    /\ pit' = [n \in DOMAIN pit |-> [pit[n] EXCEPT !.ttl = @ - 1, !.retxReady = TRUE]]
    /\ sent' = {}
    /\ UNCHANGED <<outstanding, status, cs>>

(***************************************************************************)
(* L3Protocol::RemoveFace of an application that stops: the entries it     *)
(* waited in stay, and what answers them then is unsolicited.  (No route   *)
(* leads to an application.)                                               *)
(***************************************************************************)
RemoveFace(f) ==
    /\ pit' = [n \in DOMAIN pit |-> RemoveIncoming(pit[n], f)]
    /\ sent' = {}
    /\ UNCHANGED <<outstanding, status, cs>>

OnInterest(f, n, x) ==
    \/ DuplicateInterest(f, n, x)
    \/ CacheHit(f, n, x)
    \/ Suppress(f, n, x)
    \/ PropagateInterest(f, n, x)

OnData(f, d) == UnsolicitedData(f, d) \/ SatisfyPendingInterests(f, d)

Next ==
    \/ \E f \in Faces, n \in Names, x \in Nonces : OnInterest(f, n, x)
    \/ \E f \in Faces, d \in Names : OnData(f, d)
    \/ \E f \in Routes, n \in Names, x \in Nonces, code \in NackCodes : OnNack(f, n, x, code)
    \/ \E f \in Apps : RemoveFace(f)
    \/ CleanExpired
    \/ Tick

Spec == Init /\ [][Next]_vars

\* The simulator reaches the time of every event it has scheduled.
FairSpec == Spec /\ WF_vars(CleanExpired) /\ WF_vars(Tick)

(***************************************************************************)
(* Properties.                                                             *)
(***************************************************************************)
IsEntry(e) ==
    /\ DOMAIN e = {"incoming", "outgoing", "nonces", "maxRetx", "ttl", "retxReady"}
    /\ e.incoming \subseteq Faces /\ e.nonces \subseteq Nonces
    /\ SentTo(e) \subseteq Routes
    /\ \A f \in SentTo(e) : e.outgoing[f] \in [retx: Nat, vain: BOOLEAN]
    /\ e.maxRetx \in Nat /\ e.ttl \in Nat /\ e.retxReady \in BOOLEAN

\* The shape of the state; the limits are never exceeded nor given back twice.
TypeOK ==
    /\ DOMAIN pit \subseteq Names
    /\ \A n \in DOMAIN pit : IsEntry(pit[n])
    /\ outstanding \in [Routes -> 0 .. Limit]
    /\ status \in [Routes -> {"GREEN", "YELLOW", "RED"}]
    /\ cs \subseteq Names
    /\ sent \subseteq {Interest(f, n, x) : f \in Faces, n \in Names, x \in Nonces}
               \cup {Nack(f, n, x, code) : f \in Faces, n \in Names, x \in Nonces,
                                           code \in {"LOOP", "CONGESTION", "GIVEUP_PIT"}}
               \cup {Data(f, n) : f \in Faces, n \in Names}

\* Limits::Window counts exactly the Interests the table still waits for, each
\* retransmission included: none is lost when an entry is satisfied or expires.
LimitAccounting == \A f \in Routes : outstanding[f] = HeldBy(pit, DOMAIN pit, f)

\* What is counted and not waited for, of a retransmission too, is what was held
\* by entries given up: by a handler of a NACK, or of an Interest, when the last
\* route has refused.  Data and expiry give back what their entries hold.
Unreturned(f) == outstanding[f] - HeldBy(pit, DOMAIN pit, f)
LostByGivingUp ==
    [][\A f \in Routes :
         \/ Unreturned(f)' = Unreturned(f)
         \/ \E n \in DOMAIN pit, x \in Nonces :
              /\ Unreturned(f)' = Unreturned(f) + Held(pit[n], f)
              /\ Cardinality({g \in SentTo(pit[n]) : ~ pit[n].outgoing[g].vain}) <= 1
              /\ \/ \E g \in Routes, code \in NackCodes : OnNack(g, n, x, code)
                 \/ \E g \in Faces : PropagateInterest(g, n, x)]_vars

\* Whoever is made to wait waits for something: every entry has been sent to a
\* face that has not answered with a NACK, whatever NACKs, retransmissions and
\* duplicates it went through.
EntryWaits == \A n \in DOMAIN pit : ~ AreAllOutgoingInVain(pit[n])

\* With EnableNACKs nobody is dropped without an answer: a face leaves an entry
\* when it gets Data for the name or a NACK_GIVEUP_PIT, when the entry expires,
\* when it is removed, or because it has itself sent the Data or given up.
FaceAnswered ==
    [][\A n \in DOMAIN pit : \A f \in pit[n].incoming :
         \/ n \in DOMAIN pit' /\ f \in pit'[n].incoming
         \/ \E d \in Names : n \in PrefixesOf[d] /\ Data(f, d) \in sent'
         \/ \E x \in Nonces : Nack(f, n, x, "GIVEUP_PIT") \in sent'
         \/ CleanExpired
         \/ \E d \in Names : OnData(f, d)
         \/ \E x \in Nonces : OnNack(f, n, x, "GIVEUP_PIT")
         \/ RemoveFace(f)]_vars

\* A face that asks again (with a new nonce, 100 ms after the last such time)
\* gets the Interest sent out if any other route has credit left.
RetransmissionGoesOut ==
    [][\A n \in DOMAIN pit, x \in Nonces : \A f \in pit[n].incoming :
         ( /\ pit[n].retxReady
           /\ \E g \in Routes \ {f} : status[g] # "RED" /\ outstanding[g] < Limit
           /\ PropagateInterest(f, n, x) )
         => \E m \in sent' : m.kind = "Interest"]_vars

\* Data goes only to faces that asked for a name it extends, and never back to
\* the face it came from.
DataIsWanted ==
    [][\A m \in sent' : m.kind = "Data" =>
         /\ \E n \in PrefixesOf[m.name] :
              \/ n \in DOMAIN pit /\ m.to \in pit[n].incoming
              \/ \E x \in Nonces : CacheHit(m.to, n, x)
         /\ ~ OnData(m.to, m.name)]_vars

\* Every entry ends: by Data, NACKs or its lifetime.  (An Interest extends the
\* lifetime only with a nonce the entry has not seen.)
EntryEnds == \A n \in Names : n \in DOMAIN pit ~> n \notin DOMAIN pit
=============================================================================
