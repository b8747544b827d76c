------------------------------ MODULE Consumer ------------------------------
(***************************************************************************)
(* A consumer application: Consumer and its subclasses ConsumerWindow,     *)
(* ConsumerCbr, ConsumerBatches and ConsumerZipfMandelbrot, with the       *)
(* samples of its round-trip estimator (RttMeanDeviation).                 *)
(*                                                                         *)
(* The consumer's state is one record, c, and each handler a function on   *)
(* it: the forwarder may answer an Interest before ReceiveInterest         *)
(* returns, so that OnData and OnNack run in the middle of SendPacket.     *)
(* Sending and retransmission times are left out: a pending event may run  *)
(* and an Interest may time out at any moment, the oldest first.           *)
(***************************************************************************)
EXTENDS Integers, Sequences, SequencesExt

CONSTANTS
    Kinds,          \* the consumers checked, of the four subclasses
    MaxSeq,         \* bound: sequence numbers are below it
    Windows         \* the values of the attribute Window (m_initialWindow)

ASSUME KindAssumption == Kinds \subseteq {"Window", "Cbr", "Batches", "Zipf"}
ASSUME BoundAssumption == MaxSeq \in Nat /\ Windows \subseteq Nat

Seqs == 0 .. MaxSeq - 1

VARIABLES
    kind,       \* the subclass
    initial,    \* m_initialWindow
    reset,      \* m_setInitialWindowOnTimeout
    c,          \* the fields the handlers change
    pending     \* the names the node's PIT has the consumer's face waiting for

vars == <<kind, initial, reset, c, pending>>

(***************************************************************************)
(* Helpers.                                                                *)
(***************************************************************************)
\* A count of sendings matters up to "more than once".
OneMore(n) == IF n = 0 THEN 1 ELSE 2

\* A mutant of Less: not guarded against zero.
Unguarded(n, by) == n - by

\* The unsigned m_inFlight goes down, but not below zero.
Less(n, by) == IF n > by THEN n - by ELSE 0

\* SeqTimeoutsContainer is unique by sequence number and read in order of time.
InsertTimeout(T, s) == IF Contains(T, s) THEN T ELSE Append(T, s)
EraseTimeout(T, s) == RemoveFirst(T, s)

\* A mutant of SentSeq: a retransmission starts a new sample.
SentSeqAnew(history, s, instant) == [history EXCEPT ![s] = instant]

\* RttMeanDeviation::SentSeq: a history entry is made at the given instant
\* ("sent" or "timeout") or, if there is one, marked as retransmitted.
SentSeq(history, s, instant) ==
    [history EXCEPT ![s] = IF @ = "none" THEN instant ELSE "retx"]

\* ScheduleNextPacket of the subclass: whether a send event is pending then.
ScheduleNextPacket(d) ==
    [d EXCEPT !.sendEvent =
        @ \/ (kind = "Window" => d.window = 0 \/ d.inFlight < d.window)]

(***************************************************************************)
(* The handlers.                                                           *)
(***************************************************************************)
WillSendOutInterest(d, s) ==
    [d EXCEPT !.seqTimeouts = InsertTimeout(@, s),
              !.retxCounts[s] = OneMore(@),
              !.history = SentSeq(@, s, "sent"),
              !.inFlight = IF kind = "Window" THEN @ + 1 ELSE @]

\* Consumer::OnData, with AckSeq, and what ConsumerWindow adds.
ConsumerOnData(d, s) ==
    [d EXCEPT !.retxCounts[s] = 0,
              !.seqTimeouts = EraseTimeout(@, s),
              !.retxSeqs = @ \ {s},
              !.history[s] = "none"]

OnData(d, s) ==
    IF kind = "Window"
    THEN ScheduleNextPacket([ConsumerOnData(d, s) EXCEPT !.window = @ + 1,
                                                         !.inFlight = Less(@, 1)])
    ELSE ConsumerOnData(d, s)

\* Mutants of ConsumerOnNack: the segment is not queued again; the sending is not
\* scheduled.
NackNotQueued(d, s) ==
    ScheduleNextPacket([d EXCEPT !.seqTimeouts = EraseTimeout(@, s)])
NackNotScheduled(d, s) ==
    [d EXCEPT !.retxSeqs = @ \cup {s}, !.seqTimeouts = EraseTimeout(@, s)]

\* Consumer::OnNack and what ConsumerWindow adds.  A NACK for a segment that was
\* answered would queue it again.
ConsumerOnNack(d, s) ==
    ScheduleNextPacket([d EXCEPT !.retxSeqs = @ \cup {s},
                                 !.seqTimeouts = EraseTimeout(@, s)])

OnNack(d, s) ==
    IF kind = "Window"
    THEN ScheduleNextPacket([ConsumerOnNack(d, s) EXCEPT !.window = Less(@, 1),
                                                         !.inFlight = Less(@, 1)])
    ELSE ConsumerOnNack(d, s)

\* A mutant of OnTimeouts: the segments stay in flight.
TimeoutsInFlight(d, k) ==
    LET late == {d.seqTimeouts[i] : i \in 1 .. k}
    IN  ScheduleNextPacket(
          [d EXCEPT !.seqTimeouts = SubSeq(@, k + 1, Len(@)),
                    !.window = IF kind = "Window" /\ reset THEN initial ELSE @,
                    !.retxSeqs = @ \cup late])

\* The loop of CheckRetxTimeout when the first k timeouts have expired, OnTimeout
\* of each included: the segments are not in flight any more, their samples do
\* not count, and they are queued again.
OnTimeouts(d, k) ==
    LET late == {d.seqTimeouts[i] : i \in 1 .. k}
    IN  ScheduleNextPacket(
          [d EXCEPT !.seqTimeouts = SubSeq(@, k + 1, Len(@)),
                    !.inFlight = Less(@, k),
                    !.window = IF kind = "Window" /\ reset THEN initial ELSE @,
                    !.history = [s \in Seqs |->
                        IF s \in late THEN SentSeq(@, s, "timeout")[s] ELSE @[s]],
                    !.retxSeqs = @ \cup late])

(***************************************************************************)
(* Actions.  Init is the state after StartApplication.                     *)
(***************************************************************************)
Init ==
    /\ kind \in Kinds
    /\ initial \in IF kind = "Window" THEN Windows ELSE {0}
    /\ reset \in IF kind = "Window" THEN BOOLEAN ELSE {FALSE}
    /\ c = [active |-> TRUE, sendEvent |-> TRUE, seq |-> 0,
            seqMax |-> IF kind = "Batches" THEN 0 ELSE MaxSeq,
            retxSeqs |-> {}, seqTimeouts |-> <<>>,
            retxCounts |-> [s \in Seqs |-> 0], history |-> [s \in Seqs |-> "none"],
            window |-> initial, inFlight |-> 0]
    /\ pending = {}

\* SendPacket has nothing to send: the consumer is stopped or done.
SendNothing ==
    /\ c.sendEvent
    /\ ~ c.active \/ (c.retxSeqs = {} /\ c.seq >= c.seqMax)
    /\ c' = [c EXCEPT !.sendEvent = FALSE]
    /\ UNCHANGED <<kind, initial, reset, pending>>

\* The first of m_retxSeqs, or else the next segment: in order, or for Zipf any
\* content.
NextSeq(s) ==
    IF c.retxSeqs # {} THEN s \in c.retxSeqs /\ \A t \in c.retxSeqs : s <= t
    ELSE c.seq < c.seqMax /\ (kind = "Zipf" \/ s = c.seq)

\* The fields once segment s has been taken and WillSendOutInterest has run.
Sending(s) ==
    WillSendOutInterest([c EXCEPT !.sendEvent = FALSE,
                                  !.retxSeqs = @ \ {s},
                                  !.seq = IF c.retxSeqs = {} THEN @ + 1 ELSE @], s)

(***************************************************************************)
(* SendPacket, with what the forwarder does before ReceiveInterest         *)
(* returns: it keeps the Interest, has the Data cached or gets it from a   *)
(* local producer, rejects the Interest with a NACK, or drops it.          *)
(***************************************************************************)
SendPacket(s, answer) ==
    /\ c.sendEvent
    /\ c.active
    /\ NextSeq(s)
    /\ c' = ScheduleNextPacket(CASE answer = "data" -> OnData(Sending(s), s)
                                 [] answer = "nack" -> OnNack(Sending(s), s)
                                 [] OTHER -> Sending(s))
    /\ pending' = CASE answer = "kept" -> pending \cup {s}
                    [] answer = "dropped" -> pending
                    [] OTHER -> pending \ {s}
    /\ UNCHANGED <<kind, initial, reset>>

\* The PIT entry is satisfied, given up, or expires.
ReceiveData(s) ==
    /\ s \in pending
    /\ c' = OnData(c, s)
    /\ pending' = pending \ {s}
    /\ UNCHANGED <<kind, initial, reset>>

ReceiveNack(s) ==
    /\ s \in pending
    /\ c' = OnNack(c, s)
    /\ pending' = pending \ {s}
    /\ UNCHANGED <<kind, initial, reset>>

InterestExpires(s) ==
    /\ s \in pending
    /\ pending' = pending \ {s}
    /\ UNCHANGED <<kind, initial, reset, c>>

CheckRetxTimeout ==
    /\ \E k \in DOMAIN c.seqTimeouts : c' = OnTimeouts(c, k)
    /\ UNCHANGED <<kind, initial, reset, pending>>

\* ConsumerBatches: more segments to request, and a fresh history (ClearSent).
AddBatch(amount) ==
    /\ kind = "Batches"
    /\ c.seqMax + amount <= MaxSeq
    /\ c' = ScheduleNextPacket([c EXCEPT !.seqMax = @ + amount,
                                         !.history = [s \in Seqs |-> "none"]])
    /\ UNCHANGED <<kind, initial, reset, pending>>

\* The face is removed with the application, and with it what the PIT knew of it;
\* the retransmission timer keeps running.
StopApplication ==
    /\ c.active
    /\ c' = [c EXCEPT !.active = FALSE, !.sendEvent = FALSE]
    /\ pending' = {}
    /\ UNCHANGED <<kind, initial, reset>>

Next ==
    \/ SendNothing
    \/ \E s \in Seqs, answer \in {"kept", "data", "nack", "dropped"} : SendPacket(s, answer)
    \/ \E s \in Seqs : ReceiveData(s) \/ ReceiveNack(s) \/ InterestExpires(s)
    \/ CheckRetxTimeout
    \/ \E amount \in 1 .. MaxSeq : AddBatch(amount)
    \/ StopApplication

Spec == Init /\ [][Next]_vars

Answer(s) == ReceiveData(s) \/ SendPacket(s, "data")

\* Scheduled events run and the retransmission timeout is finite (MaxRTO); a
\* segment that is requested again and again is answered in the end.
FairSpec ==
    /\ Spec
    /\ WF_vars(SendNothing \/ \E s \in Seqs, a \in {"kept", "data", "nack", "dropped"} :
                                SendPacket(s, a))
    /\ WF_vars(CheckRetxTimeout)
    /\ \A s \in Seqs : SF_vars(Answer(s))

(***************************************************************************)
(* Properties.                                                             *)
(***************************************************************************)
Timers == ToSet(c.seqTimeouts)

\* The shape of the state.
TypeOK ==
    /\ kind \in Kinds
    /\ initial \in Nat
    /\ reset \in BOOLEAN
    /\ c \in [active: BOOLEAN, sendEvent: BOOLEAN, seq: 0 .. MaxSeq, seqMax: 0 .. MaxSeq,
              retxSeqs: SUBSET Seqs, seqTimeouts: Seq(Seqs),
              retxCounts: [Seqs -> {0, 1, 2}],
              history: [Seqs -> {"none", "sent", "timeout", "retx"}],
              window: Nat, inFlight: Nat]
    /\ pending \subseteq Seqs

\* The window never waits for an Interest that nothing can take out of flight:
\* late Data, NACKs and timeouts may each decrement m_inFlight for one sending,
\* but it never counts more than the Interests whose timeout is still running.
InFlightTimed == c.inFlight <= Len(c.seqTimeouts)

\* Every segment requested and not answered is queued or timed, whatever comes
\* late, twice or in the middle of SendPacket; one that was answered is neither,
\* so that no NACK or timeout brings it back.  Only Zipf, which may draw a
\* content again, has segments that are both.
SegmentsTracked ==
    /\ \A s \in Seqs : c.retxCounts[s] > 0 <=> s \in c.retxSeqs \cup Timers
    /\ kind # "Zipf" => c.retxSeqs \cap Timers = {}

\* Data of a segment that was sent twice, or has timed out, never becomes a
\* round-trip sample.  (Not so for ConsumerBatches.)
CleanSamples ==
    kind # "Batches" =>
        \A s \in pending : c.history[s] \in {"sent", "timeout"} =>
            c.history[s] = "sent" /\ c.retxCounts[s] = 1 /\ s \in Timers

\* m_inFlight is the number of outstanding Interests.
InFlightIsOutstanding == kind = "Window" => c.inFlight = Len(c.seqTimeouts)

Wanted(s) == c.retxCounts[s] > 0 \/ (kind # "Zipf" /\ s \in c.seq .. c.seqMax - 1)

\* Unless the consumer is stopped it gets every segment: neither the window, nor
\* the limits of the send event, nor losses and NACKs in any order stall it.
EventuallyAnswered == \A s \in Seqs : Wanted(s) ~> (~ Wanted(s) \/ ~ c.active)
=============================================================================
