------------------------------ MODULE ApiFace -------------------------------
(***************************************************************************)
(* The application face of the NDN.cxx interface, ApiFace, which PyNDN's   *)
(* Face wraps: the Interests an application has expressed, held in a trie  *)
(* with the policy timeouts_policy_traits, and the filters it has set.     *)
(*                                                                         *)
(* The simulator runs one event at a time, but an event may be a loop over *)
(* the callbacks of an entry, and a callback may call the face again.  The *)
(* loop has a step for each callback, and the application may act between  *)
(* two of them; nothing else may.  A callback that is null counts as one   *)
(* that does nothing.                                                      *)
(***************************************************************************)
EXTENDS Integers, Sequences, FiniteSets, SequencesExt

CONSTANTS
    Names,          \* names of Interests and Data, sequences of components
    Filters,        \* names for which a filter is set
    Lifetimes,      \* the lifetimes of Interests, in ticks of the clock
    MaxCalls,       \* bound: calls of ExpressInterest
    MaxPuts         \* bound: calls of Put

ASSUME NameAssumption == \A n \in Names \cup Filters : n \in Seq(Nat)
ASSUME BoundAssumption == /\ Lifetimes \subseteq Nat \ {0}
                          /\ MaxCalls \in Nat /\ MaxPuts \in Nat

VARIABLES
    up,         \* whether the face is up
    pending,    \* m_pendingInterests: the name and entry of each payload
    order,      \* the policy's multiset: the names by time of expiry
    timer,      \* m_timeoutEvent
    filters,    \* m_expectedInterests
    routes,     \* the FIB entries that lead to the face
    queue,      \* what ScheduleNow has put off: Interests and Data
    asked,      \* the node's PIT: the names the face waits for
    loop,       \* the callbacks being run
    requests,   \* the calls of ExpressInterest: when each ends, and how
    puts        \* the number of calls of Put

vars == <<up, pending, order, timer, filters, routes, queue, asked, loop,
          requests, puts>>

(***************************************************************************)
(* Helpers.                                                                *)
(***************************************************************************)
NoTimer == [item |-> <<>>, left |-> -1]
Idle == [event |-> "none", entry |-> <<>>, data |-> <<>>, next |-> 0]
Running == loop.event # "none"

\* longest_prefix_match: the pending names that are prefixes of d, longest.
Matching(p, d) == {n \in DOMAIN p : IsPrefix(n, d)}
Longest(S) == CHOOSE n \in S : \A m \in S : Len(m) <= Len(n)

\* The event for the first entry of the policy, if there is one.
Rescheduled(p, o) ==
    IF o = <<>> THEN NoTimer
    ELSE [item |-> Head(o), left |-> p[Head(o)].left]

\* The multiset keeps equal times in order of insertion.
Inserted(p, o, n) ==
    InsertAt(o, 1 + Cardinality({i \in DOMAIN o : p[o[i]].left <= p[n].left}), n)

\* A mutant of Insert: the event of the entry that was first is kept.
InsertQuietly(n, entry) ==
    /\ pending' = [m \in DOMAIN pending \cup {n} |->
                      IF m = n THEN entry ELSE pending[m]]
    /\ order' = Inserted(pending', order, n)
    /\ timer' = IF order = <<>> THEN Rescheduled(pending', order') ELSE timer

\* trie_with_policy::insert, with the policy's insert.
Insert(n, entry) ==
    /\ pending' = [m \in DOMAIN pending \cup {n} |->
                      IF m = n THEN entry ELSE pending[m]]
    /\ order' = Inserted(pending', order, n)
    /\ timer' = IF Head(order') = n THEN Rescheduled(pending', order')
                ELSE timer

\* A mutant of Erase: the event goes with the entry it was set for.
EraseQuietly(n) ==
    /\ pending' = [m \in DOMAIN pending \ {n} |-> pending[m]]
    /\ order' = RemoveFirst(order, n)
    /\ timer' = IF Head(order) = n THEN NoTimer ELSE timer

\* trie_with_policy::erase, with the policy's erase.
Erase(n) ==
    /\ pending' = [m \in DOMAIN pending \ {n} |-> pending[m]]
    /\ order' = RemoveFirst(order, n)
    /\ timer' = IF Head(order) = n THEN Rescheduled(pending', order')
                ELSE timer

\* Callback i of the entry is called.
Outcome(i, event) ==
    requests' = [requests EXCEPT ![pending[loop'.entry].callbacks[i]].outcome
                     = event]

(***************************************************************************)
(* What the application calls, in an event of its own or in a callback.    *)
(* Only Shutdown asks whether the face is up: the other calls act on the   *)
(* tables, on the FIB and on the timer of a face that is down as well.     *)
(***************************************************************************)
\* A mutant of ExpressInterest: each call makes an entry.
ExpressAnew(n, life) ==
    /\ Len(requests) < MaxCalls
    /\ LET id == Len(requests) + 1 IN
       /\ requests' = Append(requests, [own |-> life, outcome |-> "waiting"])
       /\ Insert(n, [callbacks |-> <<id>>, left |-> life])
       /\ queue' = Append(queue, [packet |-> "Interest", name |-> n])
    /\ UNCHANGED <<up, filters, routes, asked, loop, puts>>

ExpressInterest(n, life) ==
    /\ Len(requests) < MaxCalls
    /\ LET id == Len(requests) + 1 IN
       /\ requests' = Append(requests, [own |-> life, outcome |-> "waiting"])
       /\ IF n \in DOMAIN pending
          THEN /\ pending' = [pending EXCEPT ![n].callbacks = Append(@, id)]
               /\ UNCHANGED <<order, timer, queue>>
          ELSE /\ Insert(n, [callbacks |-> <<id>>, left |-> life])
               /\ queue' = Append(queue, [packet |-> "Interest", name |-> n])
    /\ UNCHANGED <<up, filters, routes, asked, loop, puts>>

SetInterestFilter(p) ==
    /\ filters' = filters \cup {p}
    /\ routes' = routes \cup {p}
    /\ UNCHANGED <<up, pending, order, timer, queue, asked, loop, requests,
                   puts>>

\* The FIB keeps the entry.
ClearInterestFilter(p) ==
    /\ p \in filters
    /\ filters' = filters \ {p}
    /\ UNCHANGED <<up, pending, order, timer, routes, queue, asked, loop,
                   requests, puts>>

Put(n) ==
    /\ puts < MaxPuts
    /\ puts' = puts + 1
    /\ queue' = Append(queue, [packet |-> "Data", name |-> n])
    /\ UNCHANGED <<up, pending, order, timer, filters, routes, asked, loop,
                   requests>>

\* The callbacks of the entries go with them: they are not called.
Cleared(r) ==
    [i \in DOMAIN r |-> IF r[i].outcome = "waiting"
                        THEN [r[i] EXCEPT !.outcome = "cleared"] ELSE r[i]]

\* A mutant of Shutdown: the node keeps its entries for the face.
ShutdownAlone ==
    /\ up /\ ~Running
    /\ up' = FALSE
    /\ pending' = <<>>
    /\ order' = <<>>
    /\ requests' = Cleared(requests)
    /\ filters' = {}
    /\ UNCHANGED <<routes, asked, timer, queue, loop, puts>>

\* Shutdown, with the node's RemoveFace.  The policy's clear does not cancel
\* its event, which stays with an entry that is gone until a call of
\* ExpressInterest replaces it: what the event does is undefined, and the model
\* goes no further than the moment it is due.  Nor is a Shutdown from a callback
\* modelled, whose loop goes on in a cleared trie.
Shutdown ==
    /\ up /\ ~Running
    /\ up' = FALSE
    /\ pending' = <<>>
    /\ order' = <<>>
    /\ requests' = Cleared(requests)
    /\ filters' = {}
    /\ routes' = {}
    /\ asked' = {}
    /\ UNCHANGED <<timer, queue, loop, puts>>

(***************************************************************************)
(* Data for the face, and its timeouts.                                    *)
(***************************************************************************)
\* The loop comes to the first callback of entry n.
Begin(event, n, d) ==
    /\ loop' = [event |-> event, entry |-> n, data |-> d, next |-> 2]
    /\ Outcome(1, event)

\* The node answers an Interest of the face: SendData, up to the first call.
SendData(d) ==
    /\ up /\ ~Running
    /\ \E n \in asked : IsPrefix(n, d)
    /\ asked' = {n \in asked : ~IsPrefix(n, d)}
    /\ IF Matching(pending, d) = {} THEN UNCHANGED <<loop, requests>>
       ELSE Begin("data", Longest(Matching(pending, d)), d)
    /\ UNCHANGED <<up, pending, order, timer, filters, routes, queue, puts>>

\* ProcessTimeoutEntry, up to the first call.
ProcessTimeoutEntry ==
    /\ ~Running
    /\ timer.left = 0 /\ timer.item \in DOMAIN pending
    /\ timer' = NoTimer
    /\ Begin("timeout", timer.item, <<>>)
    /\ UNCHANGED <<up, pending, order, filters, routes, queue, asked, puts>>

\* ProcessOnData and ProcessOnTimeout: the callback after.
NextCallback ==
    /\ Running
    /\ loop.next <= Len(pending[loop.entry].callbacks)
    /\ loop' = [loop EXCEPT !.next = @ + 1]
    /\ Outcome(loop.next, loop.event)
    /\ UNCHANGED <<up, pending, order, timer, filters, routes, queue, asked,
                   puts>>

\* A mutant of EndEntry: Data answers one pending Interest.
EndFirstEntry ==
    /\ Running
    /\ loop.next > Len(pending[loop.entry].callbacks)
    /\ Erase(loop.entry)
    /\ loop' = Idle
    /\ UNCHANGED <<up, filters, routes, queue, asked, requests, puts>>

\* The entry is erased when all its callbacks have run; SendData then goes on
\* with the next pending Interest that the Data answers.
EndEntry ==
    /\ Running
    /\ loop.next > Len(pending[loop.entry].callbacks)
    /\ Erase(loop.entry)
    /\ LET rest == Matching(pending', loop.data) IN
       IF loop.event = "data" /\ rest # {}
       THEN Begin("data", Longest(rest), loop.data)
       ELSE loop' = Idle /\ UNCHANGED requests
    /\ UNCHANGED <<up, filters, routes, queue, asked, puts>>

(***************************************************************************)
(* The simulator and the node.                                             *)
(***************************************************************************)
\* Face::ReceiveInterest and ReceiveData run, and drop the packet of a face
\* that is down.
RunQueue ==
    /\ ~Running /\ queue # <<>>
    /\ queue' = Tail(queue)
    /\ asked' = IF up /\ Head(queue).packet = "Interest"
                THEN asked \cup {Head(queue).name} ELSE asked
    /\ UNCHANGED <<up, pending, order, timer, filters, routes, loop, requests,
                   puts>>

\* The node's entry ends without Data.
NodeForgets(n) ==
    /\ ~Running /\ n \in asked
    /\ asked' = asked \ {n}
    /\ UNCHANGED <<up, pending, order, timer, filters, routes, queue, loop,
                   requests, puts>>

Less(n) == IF n > 0 THEN n - 1 ELSE 0

\* The clock moves on to an event that is set for later, when nothing is left
\* to do at the present instant.
Tick ==
    /\ ~Running /\ queue = <<>> /\ timer.left > 0
    /\ timer' = [timer EXCEPT !.left = @ - 1]
    /\ pending' = [n \in DOMAIN pending |->
                      [pending[n] EXCEPT !.left = Less(@)]]
    /\ requests' = [i \in DOMAIN requests |->
                      IF requests[i].outcome = "waiting"
                      THEN [requests[i] EXCEPT !.own = Less(@)]
                      ELSE requests[i]]
    /\ UNCHANGED <<up, order, filters, routes, queue, asked, loop, puts>>

Init ==
    /\ up = TRUE
    /\ pending = <<>> /\ order = <<>> /\ timer = NoTimer
    /\ filters = {} /\ routes = {}
    /\ queue = <<>> /\ asked = {}
    /\ loop = Idle
    /\ requests = <<>> /\ puts = 0

Application ==
    \/ \E n \in Names, life \in Lifetimes : ExpressInterest(n, life)
    \/ \E p \in Filters : SetInterestFilter(p) \/ ClearInterestFilter(p)
    \/ \E n \in Names : Put(n)
    \/ Shutdown

Loop == NextCallback \/ EndEntry

Next ==
    \/ Application
    \/ Loop
    \/ \E n \in Names : SendData(n) \/ NodeForgets(n)
    \/ ProcessTimeoutEntry
    \/ RunQueue
    \/ Tick

Spec == Init /\ [][Next]_vars

\* The simulator runs what is due, and then moves its clock on.
FairSpec ==
    Spec /\ WF_vars(Loop) /\ WF_vars(ProcessTimeoutEntry)
         /\ WF_vars(RunQueue) /\ WF_vars(Tick)

(***************************************************************************)
(* Properties.                                                             *)
(***************************************************************************)
Outcomes == {"waiting", "data", "timeout", "cleared"}

Waiting(id) == id \in DOMAIN requests /\ requests[id].outcome = "waiting"

\* The variables have their types; a filter that is set has its FIB entry, and
\* the node waits for nothing on behalf of a face that is down, whatever the
\* application has expressed since.
TypeOK ==
    /\ up \in BOOLEAN
    /\ DOMAIN pending \subseteq Names
    /\ \A n \in DOMAIN pending :
          /\ pending[n].left \in Nat
          /\ pending[n].callbacks \in Seq(DOMAIN requests)
    /\ order \in Seq(Names)
    /\ timer = NoTimer \/ timer \in [item : Names, left : Nat]
    /\ filters \subseteq routes /\ routes \subseteq Filters
    /\ queue \in Seq([packet : {"Interest", "Data"}, name : Names])
    /\ asked \subseteq Names
    /\ loop.event \in {"none", "data", "timeout"}
    /\ puts \in 0 .. MaxPuts
    /\ requests \in Seq([own : Nat, outcome : Outcomes])
    /\ ~up => asked = {}

\* Between events the policy holds exactly the pending names, by time of
\* expiry, and the one timeout event is that of the first of them, also of a face
\* that is down: an insert or erase that forgot to reschedule would leave it with
\* another.  Only the event that Shutdown leaves may be there with no entry.
TimerIsFirst ==
    ~Running =>
        /\ ToSet(order) = DOMAIN pending
        /\ Len(order) = Cardinality(DOMAIN pending)
        /\ \A i \in 1 .. Len(order) - 1 :
              pending[order[i]].left <= pending[order[i + 1]].left
        /\ \/ timer = Rescheduled(pending, order)
           \/ ~up /\ order = <<>>

\* A callback that waits is in the list of exactly one pending entry, at one
\* place, and one that was called or cleared is in none, but for the entry whose
\* loop is running.  An entry has the time of the call that made it.
RequestsTracked ==
    LET At(n, id) == {i \in DOMAIN pending[n].callbacks :
                         pending[n].callbacks[i] = id}
        Places(id) == UNION {{n} \X At(n, id) : n \in DOMAIN pending}
    IN /\ \A id \in DOMAIN requests :
             /\ Waiting(id) => Cardinality(Places(id)) = 1
             /\ ~Waiting(id) =>
                   \A place \in Places(id) :
                       /\ Running /\ place[1] = loop.entry
                       /\ place[2] < loop.next
       /\ \A n \in DOMAIN pending :
             (Running => n # loop.entry) =>
                pending[n].left = requests[Head(pending[n].callbacks)].own

\* A callback is called once: what ended a request stays, and when the Data's
\* event is over no pending Interest is left that the Data answers, those
\* expressed from the callbacks included.
DataAnswersAll ==
    [][ /\ \A id \in DOMAIN requests :
              ~Waiting(id) => requests'[id] = requests[id]
        /\ (loop.event = "data" /\ ~Running') =>
              \A n \in DOMAIN pending' : ~IsPrefix(n, loop.data) ]_vars

\* Every request ends, with Data, with a timeout or by Shutdown, those made on a
\* face that is down included.
EventuallyEnds ==
    \A id \in 1 .. MaxCalls : Waiting(id) ~> ~Waiting(id)

=============================================================================
