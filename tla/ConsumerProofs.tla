--------------------------- MODULE ConsumerProofs ---------------------------
(***************************************************************************)
(* Theorems about Consumer, for each of the four subclasses, every number  *)
(* of segments and every window.                                           *)
(***************************************************************************)
EXTENDS Consumer, CollectionLemmas

(***************************************************************************)
(* The inductive invariant, of the consumer's fields d and the names p for *)
(* which an answer may still come.                                         *)
(***************************************************************************)
Records ==
    [active: BOOLEAN, sendEvent: BOOLEAN, seq: 0 .. MaxSeq, seqMax: 0 .. MaxSeq,
     retxSeqs: SUBSET Seqs, seqTimeouts: Seq(Seqs),
     retxCounts: [Seqs -> {0, 1, 2}],
     history: [Seqs -> {"none", "sent", "timeout", "retx"}],
     window: Nat, inFlight: Nat]

TimersOf(d) == ToSet(d.seqTimeouts)

\* Only ConsumerWindow counts, and never more than is timed.
Counted(d) ==
    /\ d.inFlight <= Len(d.seqTimeouts)
    /\ kind # "Window" => d.inFlight = 0

Tracked(d) ==
    /\ \A s \in Seqs : d.retxCounts[s] > 0 <=> s \in d.retxSeqs \cup TimersOf(d)
    /\ kind # "Zipf" => d.retxSeqs \cap TimersOf(d) = {}

\* A segment whose turn is still to come has never been sent.
Unsent(d) == kind # "Zipf" => \A s \in Seqs : s >= d.seq => d.retxCounts[s] = 0

\* The history has an entry for each segment sent and not answered, which is a
\* sample while that was sent once.
Sampled(d) ==
    kind # "Batches" =>
        \A s \in Seqs : /\ d.history[s] = "none" <=> d.retxCounts[s] = 0
                        /\ d.history[s] # "timeout"
                        /\ d.history[s] = "sent" => d.retxCounts[s] = 1

Good(d) ==
    /\ d \in Records /\ IsInjective(d.seqTimeouts)
    /\ Counted(d) /\ Tracked(d) /\ Unsent(d) /\ Sampled(d)

\* An answer can only come for a segment that is not answered, nor timed out if
\* it is a sample.
Expected(d, p) ==
    \A s \in p : /\ d.retxCounts[s] > 0
                 /\ kind # "Batches" /\ d.history[s] = "sent" => s \in TimersOf(d)

Inductive ==
    /\ kind \in Kinds /\ initial \in Nat /\ reset \in BOOLEAN
    /\ pending \subseteq Seqs
    /\ Good(c) /\ Expected(c, pending)

(***************************************************************************)
(* What the handlers do to each field.                                     *)
(***************************************************************************)
\* All that the invariant reads, with what no handler but SendPacket changes.
Alike(d, e) ==
    /\ e.seq = d.seq /\ e.retxSeqs = d.retxSeqs /\ e.seqTimeouts = d.seqTimeouts
    /\ e.retxCounts = d.retxCounts /\ e.history = d.history /\ e.inFlight = d.inFlight

LEMMA AlikeGood ==
  ASSUME NEW d, NEW e \in Records, Good(d), Alike(d, e)
  PROVE  Good(e) /\ \A p : Expected(d, p) => Expected(e, p)
PROOF
  <1>1. Counted(e) /\ Tracked(e) /\ IsInjective(e.seqTimeouts)
    BY Zenon DEF Good, Alike, Counted, Tracked, TimersOf
  <1>2. Unsent(e)
    BY Zenon DEF Good, Alike, Unsent
  <1>3. Sampled(e)
    BY Zenon DEF Good, Alike, Sampled
  <1>4. \A p : Expected(d, p) => Expected(e, p)
    BY Zenon DEF Alike, Expected, TimersOf
  <1> QED
    BY <1>1, <1>2, <1>3, <1>4, Zenon DEF Good

\* ScheduleNextPacket changes nothing but the send event.
LEMMA ScheduleAlike ==
  ASSUME NEW d \in Records
  PROVE  ScheduleNextPacket(d) \in Records /\ Alike(d, ScheduleNextPacket(d))
PROOF
  <1> DEFINE a == d.sendEvent
                    \/ (kind = "Window" => d.window = 0 \/ d.inFlight < d.window)
             e == [d EXCEPT !.sendEvent = a]
  <1>1. ScheduleNextPacket(d) = e
    BY Zenon DEF ScheduleNextPacket
  <1>2. a \in BOOLEAN
    BY Zenon
  <1> HIDE DEF a
  <1>3. e \in Records /\ Alike(d, e)
    BY <1>2 DEF Alike, Records
  <1> QED
    BY <1>1, <1>3, Zenon

LEMMA ScheduleGood ==
  ASSUME NEW d, Good(d)
  PROVE  /\ Good(ScheduleNextPacket(d))
         /\ \A p : Expected(d, p) => Expected(ScheduleNextPacket(d), p)
  BY ScheduleAlike, AlikeGood, Zenon DEF Good

LEMMA LessType ==
  ASSUME NEW n \in Nat, NEW by \in Nat
  PROVE  Less(n, by) \in Nat /\ Less(n, by) <= n /\ (n >= by => Less(n, by) = n - by)
                             /\ (n < by => Less(n, by) = 0)
  BY DEF Less

\* ConsumerWindow's part of an answer: it changes the window and counts one less.
LEMMA WindowFields ==
  ASSUME NEW e \in Records, NEW w, w \in Nat
  PROVE  LET f == ScheduleNextPacket([e EXCEPT !.window = w, !.inFlight = Less(@, 1)])
         IN  /\ f \in Records
             /\ f.seq = e.seq /\ f.retxSeqs = e.retxSeqs /\ f.seqTimeouts = e.seqTimeouts
             /\ f.retxCounts = e.retxCounts /\ f.history = e.history
             /\ f.inFlight = Less(e.inFlight, 1)
PROOF
  <1> DEFINE n == Less(e.inFlight, 1)
             f == [e EXCEPT !.window = w, !.inFlight = n]
  <1>1. n \in Nat
    <2>1. e.inFlight \in Nat
      BY DEF Records
    <2> QED
      BY <2>1 DEF Less
  <1> HIDE DEF n
  <1>2. /\ f \in Records
        /\ f.seq = e.seq /\ f.retxSeqs = e.retxSeqs /\ f.seqTimeouts = e.seqTimeouts
        /\ f.retxCounts = e.retxCounts /\ f.history = e.history /\ f.inFlight = n
    BY <1>1 DEF Records
  <1>3. [e EXCEPT !.window = w, !.inFlight = Less(@, 1)] = f
    BY Zenon DEF n
  <1> HIDE DEF f
  <1>4. ScheduleNextPacket(f) \in Records /\ Alike(f, ScheduleNextPacket(f))
    BY <1>2, ScheduleAlike, Zenon
  <1> QED
    BY <1>2, <1>3, <1>4, Zenon DEF Alike, n

\* Data takes the segment out of everything.
LEMMA OnDataFields ==
  ASSUME NEW d, Good(d), NEW s \in Seqs
  PROVE  LET e == OnData(d, s)
         IN  /\ e \in Records
             /\ e.seq = d.seq
             /\ e.retxSeqs = d.retxSeqs \ {s}
             /\ e.seqTimeouts = EraseTimeout(d.seqTimeouts, s)
             /\ e.retxCounts = [d.retxCounts EXCEPT ![s] = 0]
             /\ e.history = [d.history EXCEPT ![s] = "none"]
             /\ e.inFlight = IF kind = "Window" THEN Less(d.inFlight, 1) ELSE d.inFlight
PROOF
  <1> DEFINE t == EraseTimeout(d.seqTimeouts, s)
             q == d.retxSeqs \ {s}
             r == [d.retxCounts EXCEPT ![s] = 0]
             h == [d.history EXCEPT ![s] = "none"]
             e == [d EXCEPT !.retxCounts = r, !.seqTimeouts = t, !.retxSeqs = q, !.history = h]
             w == e.window + 1
  <1>1. d \in Records
    BY Zenon DEF Good
  <1>2. ConsumerOnData(d, s) = e
    BY <1>1, Zenon DEF ConsumerOnData
  <1>3. t \in Seq(Seqs)
    BY <1>1, RemoveFirstKeeps DEF EraseTimeout, Good, Records
  <1>4. q \in SUBSET Seqs /\ r \in [Seqs -> {0, 1, 2}]
        /\ h \in [Seqs -> {"none", "sent", "timeout", "retx"}]
    BY <1>1 DEF Records
  <1> HIDE DEF t, q, r, h
  <1>5. /\ e \in Records
        /\ e.seq = d.seq /\ e.retxSeqs = q /\ e.seqTimeouts = t /\ e.retxCounts = r
        /\ e.history = h /\ e.inFlight = d.inFlight
    BY <1>1, <1>3, <1>4 DEF Records
  <1> HIDE DEF e
  <1>6. CASE kind = "Window"
    <2>1. OnData(d, s) = ScheduleNextPacket([e EXCEPT !.window = w, !.inFlight = Less(@, 1)])
      BY <1>2, <1>6, Zenon DEF OnData
    <2>2. w \in Nat
      BY <1>5 DEF Records
    <2> HIDE DEF w
    <2> DEFINE g == ScheduleNextPacket([e EXCEPT !.window = w, !.inFlight = Less(@, 1)])
    <2>3. /\ g \in Records
          /\ g.seq = e.seq /\ g.retxSeqs = e.retxSeqs /\ g.seqTimeouts = e.seqTimeouts
          /\ g.retxCounts = e.retxCounts /\ g.history = e.history
          /\ g.inFlight = Less(e.inFlight, 1)
      BY <1>5, <2>2, WindowFields, Zenon
    <2> HIDE DEF g
    <2>4. OnData(d, s) = g
      BY <2>1, Zenon DEF g
    <2> QED
      BY <1>5, <1>6, <2>3, <2>4, Zenon DEF t, q, r, h
  <1>7. CASE kind # "Window"
    BY <1>2, <1>5, <1>7, Zenon DEF OnData, t, q, r, h
  <1> QED
    BY <1>6, <1>7, Zenon

\* A NACK takes the segment's timeout away and queues it.
LEMMA OnNackFields ==
  ASSUME NEW d, Good(d), NEW s \in Seqs
  PROVE  LET e == OnNack(d, s)
         IN  /\ e \in Records
             /\ e.seq = d.seq
             /\ e.retxSeqs = d.retxSeqs \cup {s}
             /\ e.seqTimeouts = EraseTimeout(d.seqTimeouts, s)
             /\ e.retxCounts = d.retxCounts
             /\ e.history = d.history
             /\ e.inFlight = IF kind = "Window" THEN Less(d.inFlight, 1) ELSE d.inFlight
PROOF
  <1> DEFINE t == EraseTimeout(d.seqTimeouts, s)
             q == d.retxSeqs \cup {s}
             f == [d EXCEPT !.retxSeqs = q, !.seqTimeouts = t]
             e == ConsumerOnNack(d, s)
             w == Less(e.window, 1)
  <1>1. d \in Records
    BY Zenon DEF Good
  <1>2. e = ScheduleNextPacket(f)
    BY <1>1, Zenon DEF ConsumerOnNack
  <1>3. t \in Seq(Seqs)
    BY <1>1, RemoveFirstKeeps DEF EraseTimeout, Good, Records
  <1>4. q \in SUBSET Seqs
    BY <1>1 DEF Records
  <1> HIDE DEF t, q, e
  <1>5. /\ f \in Records
        /\ f.seq = d.seq /\ f.retxSeqs = q /\ f.seqTimeouts = t
        /\ f.retxCounts = d.retxCounts /\ f.history = d.history /\ f.inFlight = d.inFlight
    BY <1>1, <1>3, <1>4 DEF Records
  <1> HIDE DEF f
  <1>6. /\ e \in Records
        /\ e.seq = d.seq /\ e.retxSeqs = q /\ e.seqTimeouts = t
        /\ e.retxCounts = d.retxCounts /\ e.history = d.history /\ e.inFlight = d.inFlight
    BY <1>2, <1>5, ScheduleAlike, Zenon DEF Alike
  <1>7. CASE kind = "Window"
    <2>1. OnNack(d, s) = ScheduleNextPacket([e EXCEPT !.window = w, !.inFlight = Less(@, 1)])
      BY <1>7, Zenon DEF OnNack, e
    <2>2. e.window \in Nat
      BY <1>6 DEF Records
    <2>3. w \in Nat
      BY <2>2 DEF Less
    <2> HIDE DEF w
    <2> DEFINE g == ScheduleNextPacket([e EXCEPT !.window = w, !.inFlight = Less(@, 1)])
    <2>4. /\ g \in Records
          /\ g.seq = e.seq /\ g.retxSeqs = e.retxSeqs /\ g.seqTimeouts = e.seqTimeouts
          /\ g.retxCounts = e.retxCounts /\ g.history = e.history
          /\ g.inFlight = Less(e.inFlight, 1)
      BY <1>6, <2>3, WindowFields, Zenon
    <2> HIDE DEF g
    <2>5. OnNack(d, s) = g
      BY <2>1, Zenon DEF g
    <2> QED
      BY <1>6, <1>7, <2>4, <2>5, Zenon DEF t, q
  <1>8. CASE kind # "Window"
    BY <1>6, <1>8, Zenon DEF OnNack, e, t, q
  <1> QED
    BY <1>7, <1>8, Zenon

\* The first k timeouts go, and their segments are queued.
LEMMA OnTimeoutsFields ==
  ASSUME NEW d, Good(d), NEW k \in DOMAIN d.seqTimeouts, initial \in Nat
  PROVE  LET e == OnTimeouts(d, k)
             late == {d.seqTimeouts[i] : i \in 1 .. k}
         IN  /\ e \in Records
             /\ e.seq = d.seq
             /\ e.retxSeqs = d.retxSeqs \cup late
             /\ e.seqTimeouts = SubSeq(d.seqTimeouts, k + 1, Len(d.seqTimeouts))
             /\ e.retxCounts = d.retxCounts
             /\ \A s \in Seqs : e.history[s] =
                  IF s \in late THEN IF d.history[s] = "none" THEN "timeout" ELSE "retx"
                  ELSE d.history[s]
             /\ e.inFlight = Less(d.inFlight, k)
PROOF
  <1> DEFINE late == {d.seqTimeouts[i] : i \in 1 .. k}
             t == SubSeq(d.seqTimeouts, k + 1, Len(d.seqTimeouts))
             n == Less(d.inFlight, k)
             w == IF kind = "Window" /\ reset THEN initial ELSE d.window
             Mark(s) == SentSeq(d.history, s, "timeout")[s]
             h == [s \in Seqs |-> IF s \in late THEN Mark(s) ELSE d.history[s]]
             q == d.retxSeqs \cup late
             f == [d EXCEPT !.seqTimeouts = t, !.inFlight = n, !.window = w,
                            !.history = h, !.retxSeqs = q]
  <1>1. d \in Records /\ IsInjective(d.seqTimeouts)
    BY Zenon DEF Good
  <1>2. /\ d.seqTimeouts \in Seq(Seqs) /\ d.inFlight \in Nat /\ d.window \in Nat
        /\ d.retxSeqs \in SUBSET Seqs
        /\ d.history \in [Seqs -> {"none", "sent", "timeout", "retx"}]
    BY <1>1 DEF Records
  <1>3. k \in 1 .. Len(d.seqTimeouts)
    BY <1>2, LenProperties
  <1>4. OnTimeouts(d, k) = ScheduleNextPacket(f)
    BY Zenon DEF OnTimeouts
  <1>5. t \in Seq(Seqs)
    BY <1>1, <1>2, <1>3, DropKeeps
  <1>6. n \in Nat /\ w \in Nat
    BY <1>2, <1>3 DEF Less
  <1>7. late \subseteq Seqs
    BY <1>2, <1>3, ElementOfSeq
  <1>8. \A s \in Seqs : Mark(s) = IF d.history[s] = "none" THEN "timeout" ELSE "retx"
    BY <1>2 DEF SentSeq
  <1> HIDE DEF Mark, late
  <1>9. h \in [Seqs -> {"none", "sent", "timeout", "retx"}]
    BY <1>2, <1>8
  <1>10. q \in SUBSET Seqs
    BY <1>2, <1>7
  <1>11. \A s \in Seqs : h[s] =
           IF s \in late THEN IF d.history[s] = "none" THEN "timeout" ELSE "retx"
           ELSE d.history[s]
    BY <1>8
  <1> HIDE DEF t, n, w, h, q
  <1>12. /\ f \in Records
         /\ f.seq = d.seq /\ f.retxSeqs = q /\ f.seqTimeouts = t
         /\ f.retxCounts = d.retxCounts /\ f.history = h /\ f.inFlight = n
    BY <1>1, <1>5, <1>6, <1>9, <1>10 DEF Records
  <1> HIDE DEF f
  <1>13. ScheduleNextPacket(f) \in Records /\ Alike(f, ScheduleNextPacket(f))
    BY <1>12, ScheduleAlike, Zenon
  <1> QED
    BY <1>4, <1>11, <1>12, <1>13, ZenonT(60) DEF Alike, t, n, q, late

\* A segment is timed at most once.
LEMMA InsertTimeoutKeeps ==
  ASSUME NEW T \in Seq(Seqs), IsInjective(T), NEW s \in Seqs
  PROVE  LET r == InsertTimeout(T, s)
         IN  /\ r \in Seq(Seqs) /\ IsInjective(r)
             /\ ToSet(r) = ToSet(T) \cup {s}
             /\ Len(r) = IF s \in ToSet(T) THEN Len(T) ELSE Len(T) + 1
PROOF
  <1>1. Contains(T, s) <=> s \in ToSet(T)
    BY LenProperties DEF Contains, ToSet
  <1>2. CASE s \in ToSet(T)
    BY <1>1, <1>2, Zenon DEF InsertTimeout
  <1>3. CASE s \notin ToSet(T)
    <2>1. InsertTimeout(T, s) = Append(T, s)
      BY <1>1, <1>3, Zenon DEF InsertTimeout
    <2> DEFINE r == Append(T, s)
    <2>2. r \in Seq(Seqs) /\ Len(r) = Len(T) + 1 /\ IsInjective(r) /\ ToSet(r) = ToSet(T) \cup {s}
      BY <1>3, AppendKeeps, Zenon
    <2> HIDE DEF r
    <2>3. InsertTimeout(T, s) = r
      BY <2>1, Zenon DEF r
    <2> QED
      BY <1>3, <2>2, <2>3, Zenon
  <1> QED
    BY <1>2, <1>3, Zenon

LEMMA EraseTimeoutKeeps ==
  ASSUME NEW T \in Seq(Seqs), IsInjective(T), NEW s \in Seqs
  PROVE  LET r == EraseTimeout(T, s)
         IN  /\ r \in Seq(Seqs) /\ IsInjective(r)
             /\ ToSet(r) = ToSet(T) \ {s}
             /\ Len(r) = IF s \in ToSet(T) THEN Len(T) - 1 ELSE Len(T)
  BY RemoveFirstKeeps, Zenon DEF EraseTimeout

\* WillSendOutInterest times the segment, counts its sending and notes its sample.
LEMMA WillSendFields ==
  ASSUME NEW d \in Records, IsInjective(d.seqTimeouts), NEW s \in Seqs
  PROVE  LET e == WillSendOutInterest(d, s)
         IN  /\ e \in Records
             /\ e.seq = d.seq
             /\ e.retxSeqs = d.retxSeqs
             /\ e.seqTimeouts = InsertTimeout(d.seqTimeouts, s)
             /\ e.retxCounts = [d.retxCounts EXCEPT ![s] = OneMore(@)]
             /\ e.history = SentSeq(d.history, s, "sent")
             /\ e.inFlight = IF kind = "Window" THEN d.inFlight + 1 ELSE d.inFlight
PROOF
  <1> DEFINE t == InsertTimeout(d.seqTimeouts, s)
             r == [d.retxCounts EXCEPT ![s] = OneMore(@)]
             h == SentSeq(d.history, s, "sent")
             n == IF kind = "Window" THEN d.inFlight + 1 ELSE d.inFlight
             e == [d EXCEPT !.seqTimeouts = t, !.retxCounts = r, !.history = h, !.inFlight = n]
  <1>1. WillSendOutInterest(d, s) = e
    BY Zenon DEF WillSendOutInterest
  <1>2. t \in Seq(Seqs)
    <2>1. d.seqTimeouts \in Seq(Seqs)
      BY DEF Records
    <2> QED
      BY <2>1, InsertTimeoutKeeps, Zenon
  <1>3. r \in [Seqs -> {0, 1, 2}]
    BY DEF Records, OneMore
  <1>4. h \in [Seqs -> {"none", "sent", "timeout", "retx"}]
    BY DEF Records, SentSeq
  <1>5. n \in Nat
    BY DEF Records
  <1> HIDE DEF t, r, h, n
  <1>6. /\ e \in Records
        /\ e.seq = d.seq /\ e.retxSeqs = d.retxSeqs /\ e.seqTimeouts = t
        /\ e.retxCounts = r /\ e.history = h /\ e.inFlight = n
    BY <1>2, <1>3, <1>4, <1>5 DEF Records
  <1> QED
    BY <1>1, <1>6, Zenon DEF t, r, h, n

LEMMA SendingFields ==
  ASSUME Good(c), NEW s \in Seqs, NextSeq(s)
  PROVE  LET e == Sending(s)
         IN  /\ e \in Records
             /\ e.seq = IF c.retxSeqs = {} THEN c.seq + 1 ELSE c.seq
             /\ e.retxSeqs = c.retxSeqs \ {s}
             /\ e.seqTimeouts = InsertTimeout(c.seqTimeouts, s)
             /\ e.retxCounts = [c.retxCounts EXCEPT ![s] = OneMore(@)]
             /\ e.history = SentSeq(c.history, s, "sent")
             /\ e.inFlight = IF kind = "Window" THEN c.inFlight + 1 ELSE c.inFlight
PROOF
  <1> DEFINE q == c.retxSeqs \ {s}
             n == IF c.retxSeqs = {} THEN c.seq + 1 ELSE c.seq
             d == [c EXCEPT !.sendEvent = FALSE, !.retxSeqs = q, !.seq = n]
  <1>1. c \in Records /\ IsInjective(c.seqTimeouts)
    BY Zenon DEF Good
  <1>2. Sending(s) = WillSendOutInterest(d, s)
    BY Zenon DEF Sending
  <1>3. q \in SUBSET Seqs
    BY <1>1 DEF Records
  <1>4. n \in 0 .. MaxSeq
    BY <1>1, BoundAssumption DEF Records, NextSeq
  <1> HIDE DEF q, n
  <1>5. /\ d \in Records
        /\ d.seq = n /\ d.retxSeqs = q /\ d.seqTimeouts = c.seqTimeouts
        /\ d.retxCounts = c.retxCounts /\ d.history = c.history /\ d.inFlight = c.inFlight
    BY <1>1, <1>3, <1>4 DEF Records
  <1> HIDE DEF d
  <1> DEFINE e == WillSendOutInterest(d, s)
  <1>6. /\ e \in Records
        /\ e.seq = d.seq
        /\ e.retxSeqs = d.retxSeqs
        /\ e.seqTimeouts = InsertTimeout(d.seqTimeouts, s)
        /\ e.retxCounts = [d.retxCounts EXCEPT ![s] = OneMore(@)]
        /\ e.history = SentSeq(d.history, s, "sent")
        /\ e.inFlight = IF kind = "Window" THEN d.inFlight + 1 ELSE d.inFlight
    BY <1>1, <1>5, WillSendFields, Zenon
  <1> HIDE DEF e
  <1>7. Sending(s) = e
    BY <1>2, Zenon DEF e
  <1> QED
    BY <1>5, <1>6, <1>7, Zenon DEF q, n

(***************************************************************************)
(* The handlers keep the invariant.                                        *)
(***************************************************************************)
\* What Good says of the fields' types.
LEMMA GoodTypes ==
  ASSUME NEW d, Good(d)
  PROVE  /\ d.seq \in Nat /\ d.retxSeqs \subseteq Seqs /\ d.seqTimeouts \in Seq(Seqs)
         /\ d.retxCounts \in [Seqs -> {0, 1, 2}]
         /\ d.history \in [Seqs -> {"none", "sent", "timeout", "retx"}]
         /\ d.inFlight \in Nat
         /\ Len(d.seqTimeouts) \in Nat /\ TimersOf(d) \subseteq Seqs
PROOF
  <1>1. d \in Records
    BY Zenon DEF Good
  <1>2. /\ d.seq \in Nat /\ d.retxSeqs \subseteq Seqs /\ d.seqTimeouts \in Seq(Seqs)
        /\ d.retxCounts \in [Seqs -> {0, 1, 2}]
        /\ d.history \in [Seqs -> {"none", "sent", "timeout", "retx"}]
        /\ d.inFlight \in Nat
    BY <1>1, BoundAssumption DEF Records
  <1>3. Len(d.seqTimeouts) \in Nat
    BY <1>2, LenProperties
  <1>4. TimersOf(d) \subseteq Seqs
    BY <1>2, ElementOfSeq DEF TimersOf, ToSet
  <1> QED
    BY <1>2, <1>3, <1>4, Zenon

\* What is left of the timers when one is erased.
LEMMA TimersErased ==
  ASSUME NEW d, NEW e, Good(d), NEW s \in Seqs,
         e.seqTimeouts = EraseTimeout(d.seqTimeouts, s)
  PROVE  /\ IsInjective(e.seqTimeouts)
         /\ TimersOf(e) = TimersOf(d) \ {s}
         /\ Len(e.seqTimeouts) =
              IF s \in TimersOf(d) THEN Len(d.seqTimeouts) - 1 ELSE Len(d.seqTimeouts)
         /\ s \in TimersOf(d) => Len(d.seqTimeouts) >= 1
PROOF
  <1> DEFINE T == d.seqTimeouts
             r == EraseTimeout(T, s)
  <1>1. T \in Seq(Seqs) /\ IsInjective(T)
    BY GoodTypes, Zenon DEF Good
  <1>2. s \in ToSet(T) => Len(T) >= 1
    BY <1>1, LenProperties DEF ToSet
  <1> HIDE DEF T
  <1>3. /\ IsInjective(r) /\ ToSet(r) = ToSet(T) \ {s}
        /\ Len(r) = IF s \in ToSet(T) THEN Len(T) - 1 ELSE Len(T)
    BY <1>1, EraseTimeoutKeeps, Zenon
  <1>4. e.seqTimeouts = r
    BY Zenon DEF T
  <1> HIDE DEF r
  <1> QED
    BY <1>2, <1>3, <1>4, Zenon DEF TimersOf, T

LEMMA OnDataGood ==
  ASSUME NEW d, Good(d), NEW s \in Seqs
  PROVE  /\ Good(OnData(d, s))
         /\ \A p \in SUBSET Seqs : Expected(d, p) => Expected(OnData(d, s), p \ {s})
PROOF
  <1> DEFINE e == OnData(d, s)
  <1>1. /\ e \in Records
        /\ e.seq = d.seq
        /\ e.retxSeqs = d.retxSeqs \ {s}
        /\ e.seqTimeouts = EraseTimeout(d.seqTimeouts, s)
        /\ e.retxCounts = [d.retxCounts EXCEPT ![s] = 0]
        /\ e.history = [d.history EXCEPT ![s] = "none"]
        /\ e.inFlight = IF kind = "Window" THEN Less(d.inFlight, 1) ELSE d.inFlight
    BY OnDataFields, Zenon
  <1> HIDE DEF e
  <1>2. /\ d.seq \in Nat /\ d.retxSeqs \subseteq Seqs /\ d.seqTimeouts \in Seq(Seqs)
        /\ d.retxCounts \in [Seqs -> {0, 1, 2}]
        /\ d.history \in [Seqs -> {"none", "sent", "timeout", "retx"}]
        /\ d.inFlight \in Nat
        /\ Len(d.seqTimeouts) \in Nat /\ TimersOf(d) \subseteq Seqs
    BY GoodTypes, Zenon
  <1>3. /\ IsInjective(d.seqTimeouts)
        /\ Counted(d) /\ Tracked(d) /\ Unsent(d) /\ Sampled(d)
    BY Zenon DEF Good
  <1>4. /\ IsInjective(e.seqTimeouts)
        /\ TimersOf(e) = TimersOf(d) \ {s}
        /\ Len(e.seqTimeouts) =
             IF s \in TimersOf(d) THEN Len(d.seqTimeouts) - 1 ELSE Len(d.seqTimeouts)
        /\ s \in TimersOf(d) => Len(d.seqTimeouts) >= 1
    BY <1>1, TimersErased, ZenonT(60)
  <1>5. \A x \in Seqs : /\ e.retxCounts[x] = IF x = s THEN 0 ELSE d.retxCounts[x]
                        /\ e.history[x] = IF x = s THEN "none" ELSE d.history[x]
    BY <1>1, <1>2
  <1>6. Counted(e)
    BY <1>1, <1>2, <1>3, <1>4 DEF Counted, Less
  <1>7. Tracked(e)
    BY <1>1, <1>2, <1>3, <1>4, <1>5 DEF Tracked
  <1>8. Unsent(e)
    BY <1>1, <1>2, <1>3, <1>5 DEF Unsent
  <1>9. Sampled(e)
    BY <1>1, <1>2, <1>3, <1>5 DEF Sampled
  <1>10. \A p \in SUBSET Seqs : Expected(d, p) => Expected(e, p \ {s})
    BY <1>1, <1>2, <1>4, <1>5 DEF Expected
  <1>11. Good(e)
    BY <1>1, <1>4, <1>6, <1>7, <1>8, <1>9, Zenon DEF Good
  <1> QED
    BY <1>10, <1>11, Zenon DEF e

\* A NACK comes for a segment that is not answered.
LEMMA OnNackGood ==
  ASSUME NEW d, Good(d), NEW s \in Seqs, d.retxCounts[s] > 0
  PROVE  /\ Good(OnNack(d, s))
         /\ \A p \in SUBSET Seqs : Expected(d, p) => Expected(OnNack(d, s), p \ {s})
PROOF
  <1> DEFINE e == OnNack(d, s)
  <1>1. /\ e \in Records
        /\ e.seq = d.seq
        /\ e.retxSeqs = d.retxSeqs \cup {s}
        /\ e.seqTimeouts = EraseTimeout(d.seqTimeouts, s)
        /\ e.retxCounts = d.retxCounts
        /\ e.history = d.history
        /\ e.inFlight = IF kind = "Window" THEN Less(d.inFlight, 1) ELSE d.inFlight
    BY OnNackFields, Zenon
  <1> HIDE DEF e
  <1>2. /\ d.seq \in Nat /\ d.retxSeqs \subseteq Seqs /\ d.seqTimeouts \in Seq(Seqs)
        /\ d.retxCounts \in [Seqs -> {0, 1, 2}]
        /\ d.history \in [Seqs -> {"none", "sent", "timeout", "retx"}]
        /\ d.inFlight \in Nat
        /\ Len(d.seqTimeouts) \in Nat /\ TimersOf(d) \subseteq Seqs
    BY GoodTypes, Zenon
  <1>3. /\ IsInjective(d.seqTimeouts)
        /\ Counted(d) /\ Tracked(d) /\ Unsent(d) /\ Sampled(d)
    BY Zenon DEF Good
  <1>4. /\ IsInjective(e.seqTimeouts)
        /\ TimersOf(e) = TimersOf(d) \ {s}
        /\ Len(e.seqTimeouts) =
             IF s \in TimersOf(d) THEN Len(d.seqTimeouts) - 1 ELSE Len(d.seqTimeouts)
        /\ s \in TimersOf(d) => Len(d.seqTimeouts) >= 1
    BY <1>1, TimersErased, Zenon
  <1>5. Counted(e)
    BY <1>1, <1>2, <1>3, <1>4 DEF Counted, Less
  <1>6. Tracked(e)
    BY <1>1, <1>2, <1>3, <1>4 DEF Tracked
  <1>7. Unsent(e) /\ Sampled(e)
    BY <1>1, <1>3, Zenon DEF Unsent, Sampled
  <1>8. \A p \in SUBSET Seqs : Expected(d, p) => Expected(e, p \ {s})
    BY <1>1, <1>2, <1>4 DEF Expected
  <1>9. Good(e)
    BY <1>1, <1>4, <1>5, <1>6, <1>7, Zenon DEF Good
  <1> QED
    BY <1>8, <1>9, Zenon DEF e

LEMMA OnTimeoutsGood ==
  ASSUME NEW d, Good(d), NEW k \in DOMAIN d.seqTimeouts, initial \in Nat
  PROVE  /\ Good(OnTimeouts(d, k))
         /\ \A p \in SUBSET Seqs : Expected(d, p) => Expected(OnTimeouts(d, k), p)
PROOF
  <1> DEFINE e == OnTimeouts(d, k)
             late == {d.seqTimeouts[i] : i \in 1 .. k}
  <1>1. /\ e \in Records
        /\ e.seq = d.seq
        /\ e.retxSeqs = d.retxSeqs \cup late
        /\ e.seqTimeouts = SubSeq(d.seqTimeouts, k + 1, Len(d.seqTimeouts))
        /\ e.retxCounts = d.retxCounts
        /\ \A s \in Seqs : e.history[s] =
             IF s \in late THEN IF d.history[s] = "none" THEN "timeout" ELSE "retx"
             ELSE d.history[s]
        /\ e.inFlight = Less(d.inFlight, k)
    BY OnTimeoutsFields, Zenon
  <1> HIDE DEF e
  <1>2. /\ d.seq \in Nat /\ d.retxSeqs \subseteq Seqs /\ d.seqTimeouts \in Seq(Seqs)
        /\ d.retxCounts \in [Seqs -> {0, 1, 2}]
        /\ d.history \in [Seqs -> {"none", "sent", "timeout", "retx"}]
        /\ d.inFlight \in Nat
        /\ Len(d.seqTimeouts) \in Nat /\ TimersOf(d) \subseteq Seqs
    BY GoodTypes, Zenon
  <1>3. /\ IsInjective(d.seqTimeouts)
        /\ Counted(d) /\ Tracked(d) /\ Unsent(d) /\ Sampled(d)
    BY Zenon DEF Good
  <1>4. k \in 1 .. Len(d.seqTimeouts)
    BY <1>2, LenProperties
  <1>5. /\ IsInjective(e.seqTimeouts)
        /\ TimersOf(e) = TimersOf(d) \ late
        /\ Len(e.seqTimeouts) = Len(d.seqTimeouts) - k
    <2> DEFINE T == d.seqTimeouts
               r == SubSeq(T, k + 1, Len(T))
    <2> HIDE DEF T
    <2>1. /\ IsInjective(r) /\ ToSet(r) = ToSet(T) \ {T[i] : i \in 1 .. k}
          /\ Len(r) = Len(T) - k
      BY <1>2, <1>3, <1>4, DropKeeps, ZenonT(60) DEF T
    <2> HIDE DEF r
    <2>2. e.seqTimeouts = r
      BY <1>1, Zenon DEF r, T
    <2> QED
      BY <2>1, <2>2, Zenon DEF TimersOf, T
  <1>6. late \subseteq TimersOf(d)
    BY <1>2, <1>4, LenProperties DEF TimersOf, ToSet
  <1> HIDE DEF late
  <1>7. Counted(e)
    BY <1>1, <1>2, <1>3, <1>4, <1>5 DEF Counted, Less
  <1>8. Tracked(e)
    BY <1>1, <1>2, <1>3, <1>5, <1>6 DEF Tracked
  <1>9. Unsent(e)
    BY <1>1, <1>3, Zenon DEF Unsent
  <1>10. Sampled(e)
    BY <1>1, <1>2, <1>3, <1>6 DEF Sampled, Tracked
  <1>11. \A p \in SUBSET Seqs : Expected(d, p) => Expected(e, p)
    BY <1>1, <1>2, <1>5 DEF Expected
  <1>12. Good(e)
    BY <1>1, <1>5, <1>7, <1>8, <1>9, <1>10, Zenon DEF Good
  <1> QED
    BY <1>11, <1>12, Zenon DEF e

\* SendPacket takes a segment that is not timed, or draws one for Zipf.
LEMMA SendingGood ==
  ASSUME Good(c), NEW s \in Seqs, NextSeq(s)
  PROVE  /\ Good(Sending(s))
         /\ Sending(s).retxCounts[s] > 0
         /\ \A p \in SUBSET Seqs :
              Expected(c, p) => Expected(Sending(s), p) /\ Expected(Sending(s), p \cup {s})
PROOF
  <1> DEFINE e == Sending(s)
  <1>1. /\ e \in Records
        /\ e.seq = IF c.retxSeqs = {} THEN c.seq + 1 ELSE c.seq
        /\ e.retxSeqs = c.retxSeqs \ {s}
        /\ e.seqTimeouts = InsertTimeout(c.seqTimeouts, s)
        /\ e.retxCounts = [c.retxCounts EXCEPT ![s] = OneMore(@)]
        /\ e.history = SentSeq(c.history, s, "sent")
        /\ e.inFlight = IF kind = "Window" THEN c.inFlight + 1 ELSE c.inFlight
    BY SendingFields, Zenon
  <1> HIDE DEF e
  <1>2. /\ c.seq \in Nat /\ c.retxSeqs \subseteq Seqs /\ c.seqTimeouts \in Seq(Seqs)
        /\ c.retxCounts \in [Seqs -> {0, 1, 2}]
        /\ c.history \in [Seqs -> {"none", "sent", "timeout", "retx"}]
        /\ c.inFlight \in Nat
        /\ Len(c.seqTimeouts) \in Nat /\ TimersOf(c) \subseteq Seqs
    BY GoodTypes, Zenon
  <1>3. /\ IsInjective(c.seqTimeouts)
        /\ Counted(c) /\ Tracked(c) /\ Unsent(c) /\ Sampled(c)
    BY Zenon DEF Good
  <1>4. /\ IsInjective(e.seqTimeouts)
        /\ TimersOf(e) = TimersOf(c) \cup {s}
        /\ Len(e.seqTimeouts) =
             IF s \in TimersOf(c) THEN Len(c.seqTimeouts) ELSE Len(c.seqTimeouts) + 1
    <2> DEFINE T == c.seqTimeouts
               r == InsertTimeout(T, s)
    <2> HIDE DEF T
    <2>1. /\ IsInjective(r) /\ ToSet(r) = ToSet(T) \cup {s}
          /\ Len(r) = IF s \in ToSet(T) THEN Len(T) ELSE Len(T) + 1
      BY <1>2, <1>3, InsertTimeoutKeeps, Zenon DEF T
    <2> HIDE DEF r
    <2>2. e.seqTimeouts = r
      BY <1>1, Zenon DEF r, T
    <2> QED
      BY <2>1, <2>2, Zenon DEF TimersOf, T
  <1>5. \A x \in Seqs : e.retxCounts[x] = IF x = s THEN IF c.retxCounts[s] = 0 THEN 1 ELSE 2
                                          ELSE c.retxCounts[x]
    BY <1>1, <1>2 DEF OneMore
  <1>6. \A x \in Seqs :
          e.history[x] = IF x = s THEN IF c.history[s] = "none" THEN "sent" ELSE "retx"
                         ELSE c.history[x]
    BY <1>1, <1>2 DEF SentSeq
  <1>7. kind # "Zipf" => /\ s \notin TimersOf(c)
                         /\ IF c.retxSeqs = {} THEN s = c.seq ELSE s < c.seq
    <2>1. CASE c.retxSeqs = {}
      BY <1>2, <1>3, <2>1 DEF NextSeq, Tracked, Unsent, Seqs
    <2>2. CASE c.retxSeqs # {}
      BY <1>2, <1>3, <2>2 DEF NextSeq, Tracked, Unsent, Seqs
    <2> QED
      BY <2>1, <2>2, Zenon
  <1>8. Counted(e)
    <2>1. kind = "Window" => s \notin TimersOf(c)
      BY <1>7
    <2> QED
      BY <1>1, <1>2, <1>3, <1>4, <2>1 DEF Counted
  <1>9. Tracked(e)
    BY <1>1, <1>2, <1>3, <1>4, <1>5, <1>7 DEF Tracked
  <1>10. Unsent(e)
    BY <1>1, <1>2, <1>3, <1>5, <1>7 DEF Unsent, Seqs
  <1>11. Sampled(e)
    BY <1>1, <1>2, <1>3, <1>5, <1>6 DEF Sampled
  <1>12. \A p \in SUBSET Seqs :
           Expected(c, p) => Expected(e, p) /\ Expected(e, p \cup {s})
    BY <1>2, <1>4, <1>5, <1>6 DEF Expected
  <1>13. Good(e)
    BY <1>1, <1>4, <1>8, <1>9, <1>10, <1>11, Zenon DEF Good
  <1>14. e.retxCounts[s] > 0
    BY <1>2, <1>5
  <1> QED
    BY <1>12, <1>13, <1>14, Zenon DEF e

\* A batch, for ConsumerBatches, forgets the samples.
LEMMA BatchGood ==
  ASSUME Good(c), kind = "Batches", NEW amount \in 1 .. MaxSeq, c.seqMax + amount <= MaxSeq
  PROVE  LET e == ScheduleNextPacket([c EXCEPT !.seqMax = @ + amount,
                                               !.history = [s \in Seqs |-> "none"]])
         IN  Good(e) /\ \A p : Expected(c, p) => Expected(e, p)
PROOF
  <1> DEFINE m == c.seqMax + amount
             h == [s \in Seqs |-> "none"]
             e == [c EXCEPT !.seqMax = m, !.history = h]
  <1>1. c \in Records
    BY Zenon DEF Good
  <1>2. m \in 0 .. MaxSeq
    BY <1>1, BoundAssumption DEF Records
  <1>3. h \in [Seqs -> {"none", "sent", "timeout", "retx"}]
    OBVIOUS
  <1> HIDE DEF m, h
  <1>4. /\ e \in Records
        /\ e.seq = c.seq /\ e.retxSeqs = c.retxSeqs /\ e.seqTimeouts = c.seqTimeouts
        /\ e.retxCounts = c.retxCounts /\ e.inFlight = c.inFlight
    BY <1>1, <1>2, <1>3 DEF Records
  <1> HIDE DEF e
  <1>5. Counted(e) /\ Tracked(e) /\ IsInjective(e.seqTimeouts)
    BY <1>4, Zenon DEF Good, Counted, Tracked, TimersOf
  <1>6. Unsent(e)
    BY <1>4, Zenon DEF Good, Unsent
  <1>7. Sampled(e)
    BY Zenon DEF Sampled
  <1>8. Good(e)
    BY <1>4, <1>5, <1>6, <1>7, Zenon DEF Good
  <1>9. \A p : Expected(c, p) => Expected(e, p)
    BY <1>4, Zenon DEF Expected
  <1>10. /\ Good(ScheduleNextPacket(e))
         /\ \A p : Expected(e, p) => Expected(ScheduleNextPacket(e), p)
    BY <1>8, ScheduleGood, Zenon
  <1> QED
    BY <1>9, <1>10, Zenon DEF e, m, h

(***************************************************************************)
(* The steps.                                                              *)
(***************************************************************************)
LEMMA InitInductive == Init => Inductive
PROOF
  <1> SUFFICES ASSUME Init PROVE Inductive
    OBVIOUS
  <1> DEFINE r == [s \in Seqs |-> 0]
             h == [s \in Seqs |-> "none"]
             m == IF kind = "Batches" THEN 0 ELSE MaxSeq
  <1>1. kind \in Kinds /\ initial \in Nat /\ reset \in BOOLEAN /\ pending = {}
    <2>1. /\ kind \in Kinds /\ pending = {}
          /\ initial \in IF kind = "Window" THEN Windows ELSE {0}
          /\ reset \in IF kind = "Window" THEN BOOLEAN ELSE {FALSE}
      BY Zenon DEF Init
    <2>2. 0 \in Nat /\ Windows \subseteq Nat
      BY BoundAssumption
    <2> QED
      BY <2>1, <2>2, Zenon
  <1>2. r \in [Seqs -> {0, 1, 2}] /\ h \in [Seqs -> {"none", "sent", "timeout", "retx"}]
        /\ m \in 0 .. MaxSeq
    BY BoundAssumption
  <1>3. \A s \in Seqs : r[s] = 0 /\ h[s] = "none"
    OBVIOUS
  <1>4. c = [active |-> TRUE, sendEvent |-> TRUE, seq |-> 0, seqMax |-> m,
             retxSeqs |-> {}, seqTimeouts |-> <<>>, retxCounts |-> r, history |-> h,
             window |-> initial, inFlight |-> 0]
    BY Zenon DEF Init
  <1> HIDE DEF r, h, m
  <1>5. c \in Records
    BY <1>1, <1>2, <1>4, BoundAssumption DEF Records
  <1>6. /\ c.retxSeqs = {} /\ c.seqTimeouts = <<>> /\ c.retxCounts = r /\ c.history = h
        /\ c.inFlight = 0
    BY <1>4
  <1>7. IsInjective(c.seqTimeouts) /\ TimersOf(c) = {} /\ Counted(c)
    BY <1>6 DEF IsInjective, TimersOf, ToSet, Counted
  <1>8. Tracked(c)
    BY <1>3, <1>6, <1>7 DEF Tracked
  <1>9. Unsent(c) /\ Sampled(c)
    BY <1>3, <1>6 DEF Unsent, Sampled
  <1>10. Expected(c, pending)
    BY <1>1 DEF Expected
  <1> QED
    BY <1>1, <1>5, <1>7, <1>8, <1>9, <1>10, Zenon DEF Inductive, Good

\* The invariant after a step that keeps it of the fields and the names.
LEMMA StepInductive ==
  ASSUME Inductive, UNCHANGED <<kind, initial, reset>>, Good(c'), Expected(c', pending'),
         pending' \subseteq Seqs
  PROVE  Inductive'
PROOF
  <1>1. kind' = kind /\ initial' = initial /\ reset' = reset
    OBVIOUS
  <1>2. (Counted(c))' /\ (Tracked(c))' /\ (IsInjective(c.seqTimeouts))' /\ (c \in Records)'
    BY <1>1, Zenon DEF Good, Counted, Tracked, TimersOf, Records
  <1>3. (Unsent(c))' /\ (Sampled(c))'
    BY <1>1, Zenon DEF Good, Unsent, Sampled
  <1>4. (Expected(c, pending))'
    BY <1>1, Zenon DEF Expected, TimersOf
  <1> QED
    BY <1>1, <1>2, <1>3, <1>4, Zenon DEF Inductive, Good

LEMMA SendPacketStep ==
  ASSUME Inductive, NEW s \in Seqs, NEW answer \in {"kept", "data", "nack", "dropped"},
         SendPacket(s, answer)
  PROVE  Inductive'
PROOF
  <1> DEFINE e == Sending(s)
             d == CASE answer = "data" -> OnData(e, s)
                    [] answer = "nack" -> OnNack(e, s)
                    [] OTHER -> e
  <1>1. /\ NextSeq(s) /\ UNCHANGED <<kind, initial, reset>>
        /\ c' = ScheduleNextPacket(d)
        /\ pending' = CASE answer = "kept" -> pending \cup {s}
                        [] answer = "dropped" -> pending
                        [] OTHER -> pending \ {s}
    BY Zenon DEF SendPacket
  <1>2. Good(c) /\ Expected(c, pending) /\ pending \in SUBSET Seqs
    BY Zenon DEF Inductive
  <1>3. /\ Good(e) /\ e.retxCounts[s] > 0
        /\ Expected(e, pending) /\ Expected(e, pending \cup {s})
    BY <1>1, <1>2, SendingGood, Zenon
  <1> HIDE DEF e
  <1>4. Good(d) /\ Expected(d, pending') /\ pending' \subseteq Seqs
    <2>1. CASE answer = "kept"
      <3>1. d = e /\ pending' = pending \cup {s}
        BY <1>1, <2>1
      <3> QED
        BY <1>2, <1>3, <3>1, Zenon
    <2>2. CASE answer = "data"
      <3>1. d = OnData(e, s) /\ pending' = pending \ {s}
        BY <1>1, <2>2
      <3>2. Good(OnData(e, s)) /\ Expected(OnData(e, s), pending \ {s})
        BY <1>2, <1>3, OnDataGood, Zenon
      <3> HIDE DEF d
      <3> QED
        BY <1>2, <3>1, <3>2
    <2>3. CASE answer = "nack"
      <3>1. d = OnNack(e, s) /\ pending' = pending \ {s}
        BY <1>1, <2>3
      <3>2. Good(OnNack(e, s)) /\ Expected(OnNack(e, s), pending \ {s})
        BY <1>2, <1>3, OnNackGood, Zenon
      <3> HIDE DEF d
      <3> QED
        BY <1>2, <3>1, <3>2
    <2>4. CASE answer = "dropped"
      <3>1. d = e /\ pending' = pending
        BY <1>1, <2>4
      <3> QED
        BY <1>2, <1>3, <3>1, Zenon
    <2> QED
      BY <2>1, <2>2, <2>3, <2>4
  <1> HIDE DEF d
  <1> QED
    BY <1>1, <1>4, ScheduleGood, StepInductive, Zenon

\* An answer for a name that is pending.
LEMMA ReceiveStep ==
  ASSUME Inductive, NEW s \in Seqs, ReceiveData(s) \/ ReceiveNack(s) \/ InterestExpires(s)
  PROVE  Inductive'
PROOF
  <1>1. /\ s \in pending /\ pending' = pending \ {s} /\ UNCHANGED <<kind, initial, reset>>
        /\ c' = OnData(c, s) \/ c' = OnNack(c, s) \/ c' = c
    BY Zenon DEF ReceiveData, ReceiveNack, InterestExpires
  <1>2. Good(c) /\ Expected(c, pending) /\ pending \in SUBSET Seqs
    BY Zenon DEF Inductive
  <1>3. c.retxCounts[s] > 0
    BY <1>1, <1>2, Zenon DEF Expected
  <1>4. Expected(c, pending \ {s}) /\ pending' \subseteq Seqs
    BY <1>1, <1>2, Zenon DEF Expected
  <1>5. Good(c') /\ Expected(c', pending')
    <2>1. Good(OnData(c, s)) /\ Expected(OnData(c, s), pending \ {s})
      BY <1>2, OnDataGood, Zenon
    <2>2. Good(OnNack(c, s)) /\ Expected(OnNack(c, s), pending \ {s})
      BY <1>2, <1>3, OnNackGood, Zenon
    <2> QED
      BY <1>1, <1>2, <1>4, <2>1, <2>2
  <1> QED
    BY <1>1, <1>4, <1>5, StepInductive, Zenon

LEMMA TimeoutStep == Inductive /\ CheckRetxTimeout => Inductive'
PROOF
  <1> SUFFICES ASSUME Inductive, CheckRetxTimeout PROVE Inductive'
    OBVIOUS
  <1>1. PICK k \in DOMAIN c.seqTimeouts : c' = OnTimeouts(c, k)
    BY Zenon DEF CheckRetxTimeout
  <1>2. UNCHANGED <<kind, initial, reset>> /\ pending' = pending
    BY Zenon DEF CheckRetxTimeout
  <1>3. Good(c) /\ Expected(c, pending) /\ pending \in SUBSET Seqs /\ initial \in Nat
    BY Zenon DEF Inductive
  <1>4. Good(c') /\ Expected(c', pending')
    BY <1>1, <1>2, <1>3, OnTimeoutsGood, Zenon
  <1> QED
    BY <1>2, <1>3, <1>4, StepInductive, Zenon

LEMMA BatchStep ==
  ASSUME Inductive, NEW amount \in 1 .. MaxSeq, AddBatch(amount)
  PROVE  Inductive'
PROOF
  <1>1. UNCHANGED <<kind, initial, reset>> /\ pending' = pending
        /\ kind = "Batches" /\ c.seqMax + amount <= MaxSeq
    BY Zenon DEF AddBatch
  <1>2. Good(c) /\ Expected(c, pending) /\ pending \in SUBSET Seqs
    BY Zenon DEF Inductive
  <1> DEFINE e == ScheduleNextPacket([c EXCEPT !.seqMax = @ + amount,
                                               !.history = [s \in Seqs |-> "none"]])
  <1>3. Good(e) /\ \A p : Expected(c, p) => Expected(e, p)
    BY <1>1, <1>2, BatchGood, Zenon
  <1>4. c' = e
    BY Zenon DEF AddBatch
  <1> HIDE DEF e
  <1> QED
    BY <1>1, <1>2, <1>3, <1>4, StepInductive, Zenon

\* Steps that change no field the invariant reads.
LEMMA IdleStep ==
  ASSUME Inductive, SendNothing \/ StopApplication \/ UNCHANGED vars
  PROVE  Inductive'
PROOF
  <1>1. Good(c) /\ Expected(c, pending) /\ pending \in SUBSET Seqs
    BY Zenon DEF Inductive
  <1>2. c \in Records
    BY <1>1, Zenon DEF Good
  <1>3. UNCHANGED <<kind, initial, reset>> /\ pending' \subseteq pending
    BY Zenon DEF SendNothing, StopApplication, vars
  <1>4. c' \in Records /\ Alike(c, c')
    <2>1. CASE SendNothing
      <3>1. c' = [c EXCEPT !.sendEvent = FALSE]
        BY <2>1, Zenon DEF SendNothing
      <3> QED
        BY <1>2, <3>1 DEF Records, Alike
    <2>2. CASE StopApplication
      <3>1. c' = [c EXCEPT !.active = FALSE, !.sendEvent = FALSE]
        BY <2>2, Zenon DEF StopApplication
      <3> QED
        BY <1>2, <3>1 DEF Records, Alike
    <2>3. CASE UNCHANGED vars
      BY <1>2, <2>3, Zenon DEF vars, Alike
    <2> QED
      BY <2>1, <2>2, <2>3, Zenon
  <1>5. Good(c') /\ Expected(c', pending)
    BY <1>1, <1>4, AlikeGood, Zenon
  <1>6. Expected(c', pending') /\ pending' \subseteq Seqs
    BY <1>1, <1>3, <1>5, Zenon DEF Expected
  <1> QED
    BY <1>3, <1>5, <1>6, StepInductive, Zenon

LEMMA NextInductive == Inductive /\ [Next]_vars => Inductive'
PROOF
  <1> SUFFICES ASSUME Inductive, [Next]_vars PROVE Inductive'
    OBVIOUS
  <1>1. CASE SendNothing \/ StopApplication \/ UNCHANGED vars
    BY <1>1, IdleStep, Zenon
  <1>2. ASSUME NEW s \in Seqs, NEW answer \in {"kept", "data", "nack", "dropped"},
               SendPacket(s, answer)
        PROVE  Inductive'
    BY <1>2, SendPacketStep, Zenon
  <1>3. ASSUME NEW s \in Seqs, ReceiveData(s) \/ ReceiveNack(s) \/ InterestExpires(s)
        PROVE  Inductive'
    BY <1>3, ReceiveStep, Zenon
  <1>4. CASE CheckRetxTimeout
    BY <1>4, TimeoutStep, Zenon
  <1>5. ASSUME NEW amount \in 1 .. MaxSeq, AddBatch(amount) PROVE Inductive'
    BY <1>5, BatchStep, Zenon
  <1> QED
    BY <1>1, <1>2, <1>3, <1>4, <1>5, Zenon DEF Next

LEMMA Invariance == Spec => []Inductive
PROOF
  <1> QED
    BY InitInductive, NextInductive, PTL DEF Spec

(***************************************************************************)
(* The theorems.                                                           *)
(***************************************************************************)
\* The shape of the consumer's state, whatever its subclass: no handler writes a
\* value of another type or asks for a segment beyond the last.
THEOREM TypeCorrect == Spec => []TypeOK
PROOF
  <1>1. Inductive => TypeOK
    BY Zenon DEF Inductive, Good, TypeOK, Records
  <1> QED
    BY <1>1, Invariance, PTL

\* ConsumerWindow never counts more Interests in flight than have a timeout still
\* running, so that a full window always has something to wait for.
THEOREM NothingLostInFlight == Spec => []InFlightTimed
PROOF
  <1>1. Inductive => InFlightTimed
    BY Zenon DEF Inductive, Good, Counted, InFlightTimed
  <1> QED
    BY <1>1, Invariance, PTL

\* However Data, NACKs and timeouts interleave with SendPacket, a segment requested
\* and not answered is queued or timed, and one that was answered is neither.
THEOREM NoSegmentForgotten == Spec => []SegmentsTracked
PROOF
  <1>1. Inductive => SegmentsTracked
    BY Zenon DEF Inductive, Good, Tracked, TimersOf, SegmentsTracked, Timers
  <1> QED
    BY <1>1, Invariance, PTL

\* Except with ConsumerBatches, no Data of a segment that was sent twice or has
\* timed out becomes a round-trip sample (Karn's rule).
THEOREM SamplesClean == Spec => []CleanSamples
PROOF
  <1>1. Inductive => CleanSamples
    BY DEF Inductive, Good, Sampled, Expected, TimersOf, CleanSamples, Timers
  <1> QED
    BY <1>1, Invariance, PTL
=============================================================================
