-------------------------- MODULE EventStream_proof --------------------------
(***************************************************************************)
(* Safety of the event stream, for every queue, page and batch size and any *)
(* number of events and incidents.                                          *)
(***************************************************************************)
EXTENDS EventStream, SequenceTheorems, TLAPS

\* The log starts with the two events of the creation; nothing is handed over,
\* queued or read that was not written before.
Written ==
  /\ Len(log) >= 2
  /\ \A b \in unpublished : b.last <= LastSeq
  /\ Range(conn.queue) \subseteq 0..LastSeq
  /\ cursor <= LastSeq

\* The replay window: pages are read behind what is delivered, up to the high
\* watermark; the reader stands right before the next event of the window.
Window ==
  conn.phase \in {"checking", "open"} =>
    /\ conn.watermark >= 0 /\ conn.watermark <= LastSeq
    /\ conn.loaded <= conn.watermark /\ conn.next <= conn.loaded + 1
    /\ conn.next >= 0
    /\ ~conn.calibrated => /\ cursor # NoEvent => cursor = conn.next - 1
                           /\ cursor = NoEvent => conn.next = conn.watermark + 1

\* What counts as delivered is the watermark until the reader has got there.
Delivered ==
  conn.phase = "open" =>
    /\ conn.delivered >= 0 /\ conn.delivered <= LastSeq
    /\ ~conn.calibrated => conn.delivered = conn.watermark
    /\ conn.calibrated => conn.next = conn.watermark + 1 /\ cursor = conn.delivered

\* A connection is calibrated only once it is open.
Fresh == conn.phase # "open" => ~conn.calibrated

StreamInv == StreamTypeOK /\ Written /\ Window /\ Delivered /\ Fresh

-----------------------------------------------------------------------------
(* Connections *)

LEMMA ClosedType ==
  ASSUME NEW reason \in Reasons
  PROVE  /\ Closed(reason) \in Connections
         /\ Closed(reason).phase = "closed" /\ Closed(reason).queue = <<>>
         /\ Closed(reason).calibrated = FALSE
  BY EmptySeq DEF Closed, Connections, Seqs, NoEvent

LEMMA ClosedReason ==
  ASSUME NEW reason PROVE Closed(reason).reason = reason
  BY DEF Closed

\* A batch as the sequence of its numbers.
LEMMA SeqsOfBatch ==
  ASSUME NEW b \in Batches
  PROVE  /\ SeqsOf(b) \in Seq(Nat)
         /\ \A i \in 1..Len(SeqsOf(b)) : SeqsOf(b)[i] \in b.first..b.last
         /\ \A s \in b.first..b.last : \E i \in 1..Len(SeqsOf(b)) : SeqsOf(b)[i] = s
<1> DEFINE n == IF b.last - b.first + 1 >= 0 THEN b.last - b.first + 1 ELSE 0
<1>1. b.first \in Nat /\ b.last \in Nat
  BY DEF Batches
<1>2. n \in Nat /\ 1..(b.last - b.first + 1) = 1..n
  BY <1>1
<1>3. SeqsOf(b) = [i \in 1..n |-> b.first + i - 1]
  BY <1>2 DEF SeqsOf
<1>4. \A i \in 1..n : b.first + i - 1 \in Nat
  BY <1>1, <1>2
<1>5. SeqsOf(b) \in Seq(Nat) /\ Len(SeqsOf(b)) = n
  BY <1>2, <1>3, <1>4
<1>6. \A i \in 1..n : SeqsOf(b)[i] = b.first + i - 1
  BY <1>3
<1>7. \A i \in 1..n : b.first + i - 1 \in b.first..b.last
  BY <1>1, <1>2
<1>8. \A s \in b.first..b.last : s - b.first + 1 \in 1..n
  BY <1>1, <1>2
<1>9. \A s \in b.first..b.last : SeqsOf(b)[s - b.first + 1] = s
  BY <1>1, <1>6, <1>8
<1> QED
  BY <1>5, <1>6, <1>7, <1>8, <1>9

\* Queueing a batch adds its numbers, taking an event removes the head.
LEMMA QueueBatch ==
  ASSUME NEW q \in Seq(Nat), NEW b \in Batches
  PROVE  /\ q \o SeqsOf(b) \in Seq(Nat)
         /\ Range(q \o SeqsOf(b)) = Range(q) \cup b.first..b.last
<1>1. SeqsOf(b) \in Seq(Nat)
  BY SeqsOfBatch
<1>2. Range(SeqsOf(b)) = {SeqsOf(b)[i] : i \in 1..Len(SeqsOf(b))}
  BY <1>1, RangeEquality
<1>3. Range(SeqsOf(b)) = b.first..b.last
  BY <1>2, SeqsOfBatch
<1>4. Range(q \o SeqsOf(b)) = Range(q) \cup Range(SeqsOf(b))
  BY <1>1, RangeConcatenation
<1> QED
  BY <1>1, <1>3, <1>4, ConcatProperties

LEMMA QueueHead ==
  ASSUME NEW q \in Seq(Nat), q # <<>>
  PROVE  /\ Head(q) \in Nat /\ Tail(q) \in Seq(Nat)
         /\ Len(q) \in Nat /\ Len(Tail(q)) \in Nat /\ Len(Tail(q)) = Len(q) - 1
         /\ Range(q) = {Head(q)} \cup Range(Tail(q))
<1>1. /\ Head(q) \in Nat /\ Tail(q) \in Seq(Nat) /\ Len(Tail(q)) = Len(q) - 1
      /\ \A i \in 1..Len(Tail(q)) : Tail(q)[i] = q[i + 1]
  BY HeadTailProperties
<1>2. Head(q) = q[1] /\ Len(q) \in Nat \ {0}
  BY EmptySeq
<1>3. /\ Range(q) = {q[i] : i \in 1..Len(q)}
      /\ Range(Tail(q)) = {Tail(q)[i] : i \in 1..Len(Tail(q))}
  BY <1>1, RangeEquality
<1>4. \A i \in 1..Len(q) : i = 1 \/ (i - 1 \in 1..Len(Tail(q)) /\ q[i] = Tail(q)[i - 1])
  BY <1>1, <1>2
<1>5. \A i \in 1..Len(Tail(q)) : i + 1 \in 1..Len(q)
  BY <1>1, <1>2
<1>6. ASSUME NEW s \in Range(q) PROVE s \in {Head(q)} \cup Range(Tail(q))
  <2>1. PICK i \in 1..Len(q) : s = q[i]
    BY <1>3
  <2> QED
    BY <1>2, <1>3, <1>4, <2>1
<1>7. ASSUME NEW s \in Range(Tail(q)) PROVE s \in Range(q)
  BY <1>1, <1>3, <1>5
<1>8. Head(q) \in Range(q)
  BY <1>2, <1>3
<1> QED
  BY <1>1, <1>2, <1>6, <1>7, <1>8

LEMMA EmptyQueue == <<>> \in Seq(Nat) /\ Len(<<>>) = 0 /\ Range(<<>>) = {}
<1>1. <<>> \in Seq(Nat) /\ Len(<<>>) = 0
  BY EmptySeq
<1>2. Range(<<>>) = {<<>>[i] : i \in 1..0}
  BY <1>1, RangeEquality
<1> QED
  BY <1>1, <1>2

-----------------------------------------------------------------------------
(* The writers *)

LogOK == log \in Seq(LogEvents) /\ Len(log) >= 2

LEMMA LastEvent ==
  ASSUME LogOK
  PROVE  /\ Len(log) \in Nat /\ LastSeq \in Nat
         /\ Last(log).version \in Nat /\ Last(log).ended \in BOOLEAN
<1>1. Len(log) \in Nat /\ Len(log) \in 1..Len(log)
  BY LenProperties DEF LogOK
<1>2. log[Len(log)] \in LogEvents
  BY <1>1, ElementOfSeq DEF LogOK
<1> QED
  BY <1>1, <1>2 DEF Last, LogEvents, LastSeq, LogOK

\* A batch is appended behind everything that was written.
LEMMA AppendBatchGrows ==
  ASSUME LogOK, NEW size \in Nat, NEW version \in Nat, NEW ends \in BOOLEAN,
         AppendBatch(size, version, ends)
  PROVE  log' \in Seq(LogEvents) /\ Len(log') = Len(log) + size
<1> DEFINE batch == [i \in 1..size |-> [version |-> version, ended |-> ends]]
<1>1. [version |-> version, ended |-> ends] \in LogEvents
  BY DEF LogEvents
<1>2. batch \in Seq(LogEvents) /\ Len(batch) = size
  BY <1>1
<1>3. log' = log \o batch
  BY DEF AppendBatch
<1> HIDE DEF batch
<1> QED
  BY <1>2, <1>3, ConcatProperties DEF LogOK

\* What a write does, whoever writes.
WriteEffects ==
  /\ log' \in Seq(LogEvents) /\ Len(log') > Len(log)
  /\ \A b \in unpublished' : \/ b \in unpublished
                             \/ b \in Batches /\ b.first = Len(log) /\ b.last = Len(log') - 1

LEMMA HandOverEffects ==
  ASSUME LogOK, NEW size \in Nat \ {0}, NEW ordered \in BOOLEAN,
         UNCHANGED unpublished \/ HandOver(size, ordered),
         log' \in Seq(LogEvents), Len(log') = Len(log) + size
  PROVE  WriteEffects
<1>1. Len(log) \in Nat /\ Len(log) >= 2
  BY LenProperties DEF LogOK
<1>2. CASE UNCHANGED unpublished
  BY <1>1, <1>2 DEF WriteEffects
<1>3. CASE HandOver(size, ordered)
  <2> DEFINE batch == [first |-> LastSeq + 1, last |-> LastSeq + size, ordered |-> ordered]
  <2>1. unpublished' = unpublished \cup {batch}
    BY <1>3 DEF HandOver
  <2>2. batch \in Batches
    BY <1>1 DEF Batches, LastSeq
  <2>3. batch.first = Len(log) /\ batch.last = Len(log) + size - 1
    BY <1>1 DEF LastSeq
  <2> HIDE DEF batch
  <2> QED
    BY <1>1, <2>1, <2>2, <2>3 DEF WriteEffects
<1> QED
  BY <1>2, <1>3

LEMMA CommitEffects ==
  ASSUME LogOK, Commit, StreamAssumption
  PROVE  WriteEffects
<1> USE DEF Commit
<1>1. Last(log).version \in Nat /\ Last(log).version + 1 \in Nat
  BY LastEvent
<1>2. ASSUME NEW size \in 1..MaxBatch, CommandBatch(size)
      PROVE  log' \in Seq(LogEvents) /\ Len(log') = Len(log) + size /\ size \in Nat \ {0}
  BY <1>1, <1>2, AppendBatchGrows DEF CommandBatch, StreamAssumption
<1>3. ASSUME CoordinatorBatch
      PROVE  log' \in Seq(LogEvents) /\ Len(log') = Len(log) + 1
  BY <1>1, <1>3, AppendBatchGrows DEF CoordinatorBatch
<1>4. CASE CommandCommits
  <2>1. PICK size \in 1..MaxBatch : HandOver(size, TRUE) /\ CommandBatch(size)
    BY <1>4 DEF CommandCommits
  <2> QED
    BY <1>2, <2>1, HandOverEffects
<1>5. CASE CoordinatorCommits
  <2>1. HandOver(1, FALSE) /\ CoordinatorBatch
    BY <1>5 DEF CoordinatorCommits
  <2>2. 1 \in Nat \ {0} /\ FALSE \in BOOLEAN
    OBVIOUS
  <2> QED
    BY <1>3, <2>1, <2>2, HandOverEffects
<1>6. CASE CorrectionStarts
  <2>1. UNCHANGED unpublished /\ CoordinatorBatch
    BY <1>6 DEF CorrectionStarts
  <2>2. 1 \in Nat \ {0} /\ FALSE \in BOOLEAN
    OBVIOUS
  <2> QED
    BY <1>3, <2>1, <2>2, HandOverEffects
<1>7. CASE CommitUnlearnt
  <2>1. UNCHANGED unpublished
    BY <1>7 DEF CommitUnlearnt
  <2>2. PICK size \in 1..MaxBatch : CommandBatch(size)
    BY <1>7 DEF CommitUnlearnt
  <2> QED
    BY <1>2, <2>1, <2>2, HandOverEffects
<1> QED
  BY <1>4, <1>5, <1>6, <1>7

-----------------------------------------------------------------------------
(* The shape of a connection after each kind of step *)

LEMMA Subscribing ==
  ASSUME NEW c \in Connections
  PROVE  LET d == [c EXCEPT !.phase = "subscribed"] IN
         /\ d \in Connections
         /\ d.phase = "subscribed"
         /\ d.queue = c.queue /\ d.next = c.next /\ d.loaded = c.loaded
         /\ d.watermark = c.watermark /\ d.delivered = c.delivered /\ d.ended = c.ended
         /\ d.calibrated = c.calibrated /\ d.closing = c.closing /\ d.reason = c.reason
  BY DEF Connections

LEMMA Opening ==
  ASSUME NEW c \in Connections, NEW w \in Seqs
  PROVE  LET d == [c EXCEPT !.phase = "open", !.delivered = w] IN
         /\ d \in Connections
         /\ d.phase = "open" /\ d.delivered = w
         /\ d.queue = c.queue /\ d.next = c.next /\ d.loaded = c.loaded
         /\ d.watermark = c.watermark /\ d.ended = c.ended /\ d.calibrated = c.calibrated
         /\ d.closing = c.closing /\ d.reason = c.reason
  BY DEF Connections

LEMMA Loading ==
  ASSUME NEW c \in Connections, NEW l \in Seqs
  PROVE  LET d == [c EXCEPT !.loaded = l] IN
         /\ d \in Connections
         /\ d.loaded = l
         /\ d.phase = c.phase /\ d.queue = c.queue /\ d.next = c.next
         /\ d.watermark = c.watermark /\ d.delivered = c.delivered /\ d.ended = c.ended
         /\ d.calibrated = c.calibrated /\ d.closing = c.closing /\ d.reason = c.reason
  BY DEF Connections

LEMMA Replaying ==
  ASSUME NEW c \in Connections, NEW n \in Seqs
  PROVE  LET d == [c EXCEPT !.next = n] IN
         /\ d \in Connections
         /\ d.next = n
         /\ d.phase = c.phase /\ d.queue = c.queue /\ d.loaded = c.loaded
         /\ d.watermark = c.watermark /\ d.delivered = c.delivered /\ d.ended = c.ended
         /\ d.calibrated = c.calibrated /\ d.closing = c.closing /\ d.reason = c.reason
  BY DEF Connections

LEMMA Calibrating ==
  ASSUME NEW c \in Connections, NEW e \in BOOLEAN
  PROVE  LET d == [c EXCEPT !.calibrated = TRUE, !.closing = e] IN
         /\ d \in Connections
         /\ d.calibrated = TRUE /\ d.closing = e
         /\ d.phase = c.phase /\ d.queue = c.queue /\ d.next = c.next
         /\ d.loaded = c.loaded /\ d.watermark = c.watermark /\ d.delivered = c.delivered
         /\ d.ended = c.ended /\ d.reason = c.reason
  BY DEF Connections

LEMMA Queueing ==
  ASSUME NEW c \in Connections, NEW q \in Seq(Nat)
  PROVE  LET d == [c EXCEPT !.queue = q] IN
         /\ d \in Connections
         /\ d.queue = q
         /\ d.phase = c.phase /\ d.next = c.next /\ d.loaded = c.loaded
         /\ d.watermark = c.watermark /\ d.delivered = c.delivered /\ d.ended = c.ended
         /\ d.calibrated = c.calibrated /\ d.closing = c.closing /\ d.reason = c.reason
  BY DEF Connections

LEMMA Delivering ==
  ASSUME NEW c \in Connections, NEW q \in Seq(Nat), NEW n \in Seqs, NEW e \in BOOLEAN
  PROVE  LET d == [c EXCEPT !.queue = q, !.delivered = n, !.closing = e] IN
         /\ d \in Connections
         /\ d.queue = q /\ d.delivered = n /\ d.closing = e
         /\ d.phase = c.phase /\ d.next = c.next /\ d.loaded = c.loaded
         /\ d.watermark = c.watermark /\ d.ended = c.ended /\ d.calibrated = c.calibrated
         /\ d.reason = c.reason
  BY DEF Connections

LEMMA ConnectionFields ==
  ASSUME NEW c \in Connections
  PROVE  /\ c.phase \in {"closed", "subscribed", "checking", "open"}
         /\ c.queue \in Seq(Nat)
         /\ c.next \in Int /\ c.loaded \in Int /\ c.watermark \in Int /\ c.delivered \in Int
         /\ c.ended \in BOOLEAN /\ c.calibrated \in BOOLEAN /\ c.closing \in BOOLEAN
         /\ c.reason \in Reasons
  BY DEF Connections, Seqs, NoEvent

-----------------------------------------------------------------------------
(* Every action keeps the invariant *)

LEMMA InitStream == StreamInit => StreamInv
<1> SUFFICES ASSUME StreamInit PROVE StreamInv
  OBVIOUS
<1> USE DEF StreamInit, LogInit
<1>1. [version |-> 1, ended |-> FALSE] \in LogEvents
  BY DEF LogEvents
<1>2. log \in Seq(LogEvents) /\ Len(log) = 2
  BY <1>1
<1>3. LastSeq = 1
  BY <1>2 DEF LastSeq
<1>4. conn \in Connections /\ conn.phase = "closed" /\ conn.queue = <<>>
      /\ conn.calibrated = FALSE
  BY ClosedType DEF Reasons
<1>5. cursor = -1 /\ cursor \in Seqs
  BY DEF NoEvent, Seqs
<1>6. incidents \in 0..MaxIncidents /\ Capacity \in Nat
  BY StreamAssumption DEF StreamAssumption
<1>7. Len(conn.queue) <= Capacity /\ Range(conn.queue) = {}
  BY <1>4, <1>6, EmptyQueue
<1>8. unpublished = {} /\ sawEnd \in BOOLEAN
  OBVIOUS
<1>9. published = {0, 1} /\ published \subseteq 0..LastSeq
  BY <1>3
<1>10. Window /\ Delivered /\ Fresh
  BY <1>4 DEF Window, Delivered, Fresh
<1> HIDE DEF StreamInit, LogInit
<1>11. StreamTypeOK
  BY <1>2, <1>4, <1>5, <1>6, <1>7, <1>8, <1>9 DEF StreamTypeOK
<1>12. Written
  BY <1>2, <1>3, <1>5, <1>7, <1>8 DEF Written
<1> QED
  BY <1>10, <1>11, <1>12 DEF StreamInv

\* What the invariant says of the numbers, with their types.
LEMMA StreamFacts ==
  ASSUME StreamInv
  PROVE  /\ LogOK /\ Len(log) \in Nat /\ LastSeq \in Nat /\ LastSeq = Len(log) - 1
         /\ cursor \in Int /\ cursor >= -1 /\ cursor <= LastSeq
         /\ conn \in Connections
<1>1. LogOK
  BY DEF StreamInv, StreamTypeOK, Written, LogOK
<1>2. Len(log) \in Nat /\ LastSeq \in Nat /\ LastSeq = Len(log) - 1
  BY <1>1, LastEvent DEF LastSeq
<1> QED
  BY <1>1, <1>2 DEF StreamInv, StreamTypeOK, Written, Seqs, NoEvent

\* A closed connection has no obligations.
LEMMA CloseStream ==
  ASSUME StreamInv, NEW reason \in Reasons, conn' = Closed(reason),
         UNCHANGED <<log, cursor, sawEnd>>,
         unpublished' \subseteq unpublished, published' \subseteq 0..LastSeq,
         incidents' \in 0..MaxIncidents
  PROVE  StreamInv'
<1>1. conn' \in Connections /\ conn'.phase = "closed" /\ conn'.queue = <<>>
      /\ conn'.calibrated = FALSE
  BY ClosedType
<1>2. LastSeq' = LastSeq /\ Capacity \in Nat
  BY StreamAssumption DEF LastSeq, StreamAssumption
<1>3. StreamTypeOK'
  BY <1>1, <1>2, EmptyQueue DEF StreamInv, StreamTypeOK
<1>4. Written'
  BY <1>1, <1>2, EmptyQueue DEF StreamInv, Written
<1>5. Window' /\ Delivered' /\ Fresh'
  BY <1>1 DEF Window, Delivered, Fresh
<1> QED
  BY <1>3, <1>4, <1>5 DEF StreamInv

LEMMA WriteStream == ASSUME StreamInv, Write PROVE StreamInv'
<1>1. Commit /\ UNCHANGED <<conn, cursor, sawEnd, published>>
  BY DEF Write, Commit
<1>2. incidents' \in 0..MaxIncidents
  BY StreamAssumption DEF Write, Incident, StreamAssumption, StreamInv, StreamTypeOK
<1>3. WriteEffects
  BY CommitEffects, StreamFacts, StreamAssumption, <1>1
<1>4. Len(log) \in Nat /\ Len(log') \in Nat
  BY <1>3, StreamFacts, LenProperties DEF WriteEffects
<1>5. LastSeq' > LastSeq /\ LastSeq' \in Nat /\ LastSeq \in Nat /\ LastSeq' = Len(log') - 1
  BY <1>3, <1>4, StreamFacts DEF WriteEffects, LastSeq
<1>6. ASSUME NEW b \in unpublished' PROVE b \in Batches /\ b.last <= LastSeq'
  <2>1. CASE b \in unpublished
    BY <1>5, <2>1 DEF StreamInv, StreamTypeOK, Written, Batches
  <2>2. CASE b \in Batches /\ b.last = Len(log') - 1
    BY <1>5, <2>2
  <2> QED
    BY <1>3, <2>1, <2>2 DEF WriteEffects
<1>7. StreamTypeOK'
  BY <1>1, <1>2, <1>3, <1>5, <1>6 DEF StreamInv, StreamTypeOK, WriteEffects
<1>8. Written'
  BY <1>1, <1>3, <1>4, <1>5, <1>6, StreamFacts DEF StreamInv, Written, WriteEffects
<1>9. Window' /\ Delivered' /\ Fresh'
  BY <1>1, <1>5, StreamFacts, ConnectionFields DEF StreamInv, Window, Delivered, Fresh
<1> QED
  BY <1>7, <1>8, <1>9 DEF StreamInv

\* Steps that leave the log and the hand-over alone.
LEMMA ReaderStep ==
  ASSUME StreamInv, UNCHANGED <<log, unpublished, published, incidents>>,
         conn' \in Connections, Len(conn'.queue) <= Capacity,
         Range(conn'.queue) \subseteq Range(conn.queue),
         cursor' \in Seqs, cursor' <= LastSeq, sawEnd' \in BOOLEAN
  PROVE  StreamTypeOK' /\ Written' /\ LastSeq' = LastSeq
<1>1. LastSeq' = LastSeq
  BY DEF LastSeq
<1>2. StreamTypeOK'
  BY <1>1 DEF StreamInv, StreamTypeOK
<1>3. Written'
  BY <1>1 DEF StreamInv, Written
<1> QED
  BY <1>1, <1>2, <1>3

LEMMA HubPublishStream == ASSUME StreamInv, HubPublish PROVE StreamInv'
<1>1. PICK b \in unpublished : /\ Publish(b) /\ Listen(b)
                               /\ published' = published \cup b.first..b.last
                               /\ UNCHANGED <<cursor, sawEnd, incidents>>
  BY DEF HubPublish
<1>2. unpublished' \subseteq unpublished /\ log' = log
  BY <1>1 DEF Publish
<1>3. b \in Batches /\ b.first \in Nat /\ b.last \in Nat /\ b.last <= LastSeq
  BY DEF StreamInv, StreamTypeOK, Written, Batches
<1>4. b.first..b.last \subseteq 0..LastSeq
  BY <1>3, StreamFacts
<1>5. published' \subseteq 0..LastSeq /\ LastSeq' = LastSeq
  BY <1>1, <1>2, <1>4 DEF StreamInv, StreamTypeOK, LastSeq
<1>6. incidents' \in 0..MaxIncidents
  BY <1>1 DEF StreamInv, StreamTypeOK
<1>7. CASE conn.phase # "closed" /\ Len(conn.queue \o SeqsOf(b)) > Capacity
  <2>1. conn' = Closed("overflow")
    <3>1. /\ conn.queue \o SeqsOf(b) \in Seq(Nat) /\ Capacity \in Nat
      BY <1>3, QueueBatch, StreamFacts, ConnectionFields, StreamAssumption DEF StreamAssumption
    <3>2. ~(Len(conn.queue \o SeqsOf(b)) <= Capacity)
      BY <1>7, <3>1, LenProperties
    <3> QED
      BY <1>1, <1>7, <3>2 DEF Listen
  <2> QED
    BY <1>1, <1>2, <1>5, <1>6, <2>1, CloseStream DEF Reasons
<1>8. CASE ~(conn.phase # "closed" /\ Len(conn.queue \o SeqsOf(b)) > Capacity)
  <2>1. conn.queue \o SeqsOf(b) \in Seq(Nat) /\ Capacity \in Nat
    BY <1>3, QueueBatch, StreamFacts, ConnectionFields, StreamAssumption DEF StreamAssumption
  <2>2. \/ conn' = conn
        \/ /\ conn' = [conn EXCEPT !.queue = @ \o SeqsOf(b)]
           /\ Len(conn.queue \o SeqsOf(b)) <= Capacity
    BY <1>1, <1>8, <2>1, LenProperties DEF Listen
  <2>3. CASE conn' = conn
    BY <1>1, <1>2, <1>5, <1>6, <2>3 DEF StreamInv, StreamTypeOK, Written, Window, Delivered, Fresh
  <2>4. CASE /\ conn' = [conn EXCEPT !.queue = @ \o SeqsOf(b)]
             /\ Len(conn.queue \o SeqsOf(b)) <= Capacity
    <3>1. /\ conn' \in Connections /\ conn'.queue = conn.queue \o SeqsOf(b)
          /\ conn'.phase = conn.phase /\ conn'.watermark = conn.watermark
          /\ conn'.loaded = conn.loaded /\ conn'.next = conn.next
          /\ conn'.calibrated = conn.calibrated /\ conn'.delivered = conn.delivered
      BY <2>1, <2>4, StreamFacts, Queueing
    <3>2. Range(conn'.queue) \subseteq 0..LastSeq
      BY <1>3, <1>4, <3>1, QueueBatch, StreamFacts, ConnectionFields DEF StreamInv, Written
    <3>3. StreamTypeOK'
      BY <1>1, <1>2, <1>5, <1>6, <2>4, <3>1 DEF StreamInv, StreamTypeOK
    <3>4. Written'
      BY <1>1, <1>2, <1>5, <3>2 DEF StreamInv, Written
    <3>5. Window' /\ Delivered' /\ Fresh'
      BY <1>1, <1>5, <3>1 DEF StreamInv, Window, Delivered, Fresh
    <3> QED
      BY <3>3, <3>4, <3>5 DEF StreamInv
  <2> QED
    BY <2>2, <2>3, <2>4
<1> QED
  BY <1>7, <1>8

LEMMA OpenStream == ASSUME StreamInv, Open PROVE StreamInv'
<1> USE DEF Open
<1>1. Closed("none") \in Connections /\ Closed("none").queue = <<>>
      /\ Closed("none").calibrated = FALSE
  BY ClosedType DEF Reasons
<1>2. conn' \in Connections
  BY <1>1, Subscribing
<1>3. conn'.phase = "subscribed" /\ conn'.queue = <<>> /\ conn'.calibrated = FALSE
  BY <1>1, Subscribing
<1>4. Range(conn'.queue) = {} /\ Len(conn'.queue) <= Capacity
  BY <1>3, EmptyQueue, StreamAssumption DEF StreamAssumption
<1>5. cursor' \in Seqs /\ cursor' <= LastSeq
  BY StreamFacts DEF Seqs, NoEvent
<1>6. StreamTypeOK' /\ Written'
  BY <1>2, <1>4, <1>5, ReaderStep DEF StreamInv, StreamTypeOK
<1>7. Window' /\ Delivered' /\ Fresh'
  BY <1>3 DEF Window, Delivered, Fresh
<1> QED
  BY <1>6, <1>7 DEF StreamInv

LEMMA BootstrapStream == ASSUME StreamInv, ReadBootstrap PROVE StreamInv'
<1> DEFINE first == IF cursor = NoEvent THEN LastSeq + 1 ELSE cursor + 1
           before == first - 1
           over == Last(log).ended
<1>1. /\ LastSeq \in Nat /\ cursor \in Int /\ cursor >= -1 /\ cursor <= LastSeq
      /\ conn \in Connections /\ over \in BOOLEAN
  BY StreamFacts, LastEvent
<1>2. /\ LastSeq \in Seqs /\ first \in Seqs /\ before \in Seqs
      /\ first \in Nat /\ first <= LastSeq + 1 /\ before <= LastSeq /\ before = first - 1
      /\ cursor # NoEvent => cursor = first - 1
      /\ cursor = NoEvent => first = LastSeq + 1
  BY <1>1 DEF Seqs, NoEvent
<1>3. /\ conn' = [conn EXCEPT !.phase = "checking", !.watermark = LastSeq,
                              !.ended = over, !.next = first, !.loaded = before]
      /\ conn.phase = "subscribed"
      /\ UNCHANGED <<log, unpublished, cursor, sawEnd, published, incidents>>
  BY DEF ReadBootstrap
<1> HIDE DEF first, before, over
<1>4. /\ conn' \in Connections /\ conn'.phase = "checking" /\ conn'.watermark = LastSeq
      /\ conn'.next = first /\ conn'.loaded = before /\ conn'.queue = conn.queue
      /\ conn'.calibrated = conn.calibrated
  BY <1>1, <1>2, <1>3 DEF Connections
<1>5. StreamTypeOK' /\ Written' /\ LastSeq' = LastSeq
  BY <1>1, <1>3, <1>4, ReaderStep DEF StreamInv, StreamTypeOK
<1>6. ~conn.calibrated
  BY <1>3 DEF StreamInv, Fresh
<1>7. Window' /\ Delivered' /\ Fresh'
  BY <1>1, <1>2, <1>3, <1>4, <1>5, <1>6 DEF Window, Delivered, Fresh
<1> QED
  BY <1>5, <1>7 DEF StreamInv

LEMMA ActivateStream == ASSUME StreamInv, Activate PROVE StreamInv'
<1>1. /\ conn.phase = "checking" /\ ~conn.calibrated
      /\ UNCHANGED <<log, unpublished, cursor, sawEnd, published, incidents>>
  BY DEF Activate, StreamInv, Fresh
<1>2. conn \in Connections /\ conn.watermark \in Seqs
  BY StreamFacts DEF Connections
<1>3. /\ conn' \in Connections /\ conn'.phase = "open" /\ conn'.delivered = conn.watermark
      /\ conn'.watermark = conn.watermark /\ conn'.queue = conn.queue
      /\ conn'.next = conn.next /\ conn'.loaded = conn.loaded
      /\ conn'.calibrated = conn.calibrated
  BY <1>2, Opening DEF Activate
<1>4. StreamTypeOK' /\ Written' /\ LastSeq' = LastSeq
  BY <1>1, <1>3, StreamFacts, ReaderStep DEF StreamInv, StreamTypeOK
<1>5. Window' /\ Delivered' /\ Fresh'
  BY <1>1, <1>3, <1>4 DEF StreamInv, Window, Delivered, Fresh
<1> QED
  BY <1>4, <1>5 DEF StreamInv

LEMMA LoadPageStream == ASSUME StreamInv, LoadPage PROVE StreamInv'
<1> DEFINE last == IF conn.loaded + PageSize <= conn.watermark
                     THEN conn.loaded + PageSize ELSE conn.watermark
<1>1. /\ conn' = [conn EXCEPT !.loaded = last] /\ conn.phase = "open"
      /\ conn.next = conn.loaded + 1 /\ conn.next <= conn.watermark
      /\ UNCHANGED <<log, unpublished, cursor, sawEnd, published, incidents>>
  BY DEF LoadPage, Ready
<1>2. /\ conn \in Connections /\ conn.next \in Int /\ conn.loaded \in Int
      /\ conn.watermark \in Int /\ conn.loaded >= -1 /\ PageSize \in Nat \ {0}
  BY StreamFacts, StreamAssumption DEF Connections, Seqs, NoEvent, StreamAssumption
<1>3. last \in Seqs /\ last \in Int /\ last >= conn.next /\ last <= conn.watermark
  BY <1>1, <1>2 DEF Seqs
<1> HIDE DEF last
<1>4. /\ conn' \in Connections /\ conn'.phase = conn.phase /\ conn'.loaded = last
      /\ conn'.watermark = conn.watermark /\ conn'.queue = conn.queue
      /\ conn'.next = conn.next /\ conn'.delivered = conn.delivered
      /\ conn'.calibrated = conn.calibrated
  BY <1>1, <1>2, <1>3, Loading
<1>5. StreamTypeOK' /\ Written' /\ LastSeq' = LastSeq
  BY <1>1, <1>4, StreamFacts, ReaderStep DEF StreamInv, StreamTypeOK
<1>6. Window'
  BY <1>1, <1>2, <1>3, <1>4, <1>5 DEF StreamInv, Window
<1>7. Delivered' /\ Fresh'
  BY <1>1, <1>4, <1>5 DEF StreamInv, Delivered, Fresh
<1> QED
  BY <1>5, <1>6, <1>7 DEF StreamInv

\* The log has an event at every number up to the last.
LEMMA EventType ==
  ASSUME StreamInv, NEW seq \in 0..LastSeq
  PROVE  log[seq + 1].ended \in BOOLEAN
<1>1. seq + 1 \in 1..Len(log)
  BY StreamFacts
<1>2. log[seq + 1] \in LogEvents
  BY <1>1, StreamFacts, ElementOfSeq DEF LogOK
<1> QED
  BY <1>2 DEF LogEvents

LEMMA ReplayStream == ASSUME StreamInv, DeliverReplayed PROVE StreamInv'
<1>1. /\ conn' = [conn EXCEPT !.next = @ + 1] /\ conn.phase = "open"
      /\ conn.next <= conn.loaded
      /\ cursor' = conn.next /\ sawEnd' = (sawEnd \/ log[conn.next + 1].ended)
      /\ UNCHANGED <<log, unpublished, published, incidents>>
  BY DEF DeliverReplayed, Ready, Deliver
<1>2. /\ conn \in Connections /\ conn.next \in Int /\ conn.loaded \in Int
      /\ conn.watermark \in Int /\ LastSeq \in Nat
  BY StreamFacts, ConnectionFields
<1>3. conn.next \in 0..LastSeq /\ conn.next <= conn.watermark /\ ~conn.calibrated
  BY <1>1, <1>2 DEF StreamInv, Window, Delivered
<1>4. conn.next \in Seqs /\ conn.next + 1 \in Seqs /\ conn.next # NoEvent
  BY <1>2, <1>3 DEF Seqs, NoEvent
<1>5. /\ conn' \in Connections /\ conn'.phase = conn.phase /\ conn'.loaded = conn.loaded
      /\ conn'.watermark = conn.watermark /\ conn'.queue = conn.queue
      /\ conn'.next = conn.next + 1 /\ conn'.delivered = conn.delivered
      /\ conn'.calibrated = conn.calibrated
  BY <1>1, <1>2, <1>4, Replaying
<1>6. sawEnd' \in BOOLEAN
  BY <1>1
<1>7. StreamTypeOK' /\ Written' /\ LastSeq' = LastSeq
  BY <1>1, <1>2, <1>3, <1>4, <1>5, <1>6, ReaderStep DEF StreamInv, StreamTypeOK
<1>8. Window' /\ Delivered' /\ Fresh'
  BY <1>1, <1>2, <1>3, <1>4, <1>5, <1>7 DEF StreamInv, Window, Delivered, Fresh
<1> QED
  BY <1>7, <1>8 DEF StreamInv

LEMMA CalibrateStream == ASSUME StreamInv, Calibrate PROVE StreamInv'
<1>1. /\ conn' = [conn EXCEPT !.calibrated = TRUE, !.closing = conn.ended]
      /\ conn.phase = "open" /\ conn.next > conn.watermark /\ ~conn.calibrated
      /\ cursor' = conn.watermark /\ sawEnd' = (sawEnd \/ conn.ended)
      /\ UNCHANGED <<log, unpublished, published, incidents>>
  BY DEF Calibrate, Ready, Deliver
<1>2. /\ conn \in Connections /\ conn.next \in Int /\ conn.loaded \in Int
      /\ conn.watermark \in Int /\ conn.watermark \in Seqs /\ LastSeq \in Nat
      /\ conn.ended \in BOOLEAN
  BY StreamFacts, ConnectionFields DEF Connections
<1>3. /\ conn.watermark <= LastSeq /\ conn.next = conn.watermark + 1
      /\ conn.delivered = conn.watermark
  BY <1>1, <1>2 DEF StreamInv, Window, Delivered
<1>4. /\ conn' \in Connections /\ conn'.phase = conn.phase /\ conn'.loaded = conn.loaded
      /\ conn'.watermark = conn.watermark /\ conn'.queue = conn.queue
      /\ conn'.next = conn.next /\ conn'.delivered = conn.delivered
      /\ conn'.calibrated = TRUE
  BY <1>1, <1>2, Calibrating
<1>5. sawEnd' \in BOOLEAN
  BY <1>1
<1>6. StreamTypeOK' /\ Written' /\ LastSeq' = LastSeq
  BY <1>1, <1>2, <1>3, <1>4, <1>5, ReaderStep DEF StreamInv, StreamTypeOK
<1>7. Window' /\ Delivered' /\ Fresh'
  BY <1>1, <1>2, <1>3, <1>4, <1>6 DEF StreamInv, Window, Delivered, Fresh
<1> QED
  BY <1>6, <1>7 DEF StreamInv

LEMMA LiveHead ==
  ASSUME StreamInv, Live
  PROVE  /\ conn.queue \in Seq(Nat) /\ conn.queue # <<>>
         /\ Head(conn.queue) \in 0..LastSeq /\ Head(conn.queue) \in Range(conn.queue)
         /\ Tail(conn.queue) \in Seq(Nat) /\ Len(Tail(conn.queue)) <= Capacity
         /\ Range(conn.queue) = {Head(conn.queue)} \cup Range(Tail(conn.queue))
         /\ conn.phase = "open" /\ ~conn.closing /\ conn.calibrated
<1>1. conn.queue \in Seq(Nat) /\ conn.queue # <<>>
  BY StreamFacts, ConnectionFields DEF Live
<1>2. Len(conn.queue) <= Capacity /\ Capacity \in Nat
  BY StreamAssumption DEF StreamInv, StreamTypeOK, StreamAssumption
<1>3. Range(conn.queue) \subseteq 0..LastSeq
  BY DEF StreamInv, Written
<1> QED
  BY <1>1, <1>2, <1>3, QueueHead DEF Live, Ready

LEMMA SkipStream == ASSUME StreamInv, SkipDuplicate PROVE StreamInv'
<1>1. Live /\ conn' = [conn EXCEPT !.queue = Tail(conn.queue)]
      /\ UNCHANGED <<log, unpublished, cursor, sawEnd, published, incidents>>
  BY DEF SkipDuplicate
<1>2. /\ conn' \in Connections /\ conn'.queue = Tail(conn.queue) /\ conn'.phase = conn.phase
      /\ conn'.watermark = conn.watermark /\ conn'.loaded = conn.loaded
      /\ conn'.next = conn.next /\ conn'.delivered = conn.delivered
      /\ conn'.calibrated = conn.calibrated
  BY <1>1, LiveHead, StreamFacts, Queueing
<1>3. StreamTypeOK' /\ Written' /\ LastSeq' = LastSeq
  BY <1>1, <1>2, LiveHead, StreamFacts, ReaderStep DEF StreamInv, StreamTypeOK
<1>4. Window' /\ Delivered' /\ Fresh'
  BY <1>1, <1>2, <1>3 DEF StreamInv, Window, Delivered, Fresh
<1> QED
  BY <1>3, <1>4 DEF StreamInv

LEMMA DeliverStream == ASSUME StreamInv, DeliverLive PROVE StreamInv'
<1> DEFINE seq == Head(conn.queue)
           ends == log[seq + 1].ended
           rest == Tail(conn.queue)
<1>1. /\ Live /\ seq = conn.delivered + 1
      /\ conn' = [conn EXCEPT !.queue = rest, !.delivered = seq, !.closing = ends]
      /\ cursor' = seq /\ sawEnd' = (sawEnd \/ ends)
      /\ UNCHANGED <<log, unpublished, published, incidents>>
  BY DEF DeliverLive, Deliver, Follows
<1>2. /\ seq \in 0..LastSeq /\ rest \in Seq(Nat) /\ Len(rest) <= Capacity
      /\ Range(rest) \subseteq Range(conn.queue) /\ conn.phase = "open" /\ conn.calibrated
  BY <1>1, LiveHead
<1>3. ends \in BOOLEAN
  BY <1>2, EventType
<1>4. conn \in Connections /\ LastSeq \in Nat /\ seq \in Seqs
  BY <1>2, StreamFacts DEF Seqs
<1> HIDE DEF seq, ends, rest
<1>5. /\ conn' \in Connections /\ conn'.queue = rest /\ conn'.phase = conn.phase
      /\ conn'.watermark = conn.watermark /\ conn'.loaded = conn.loaded
      /\ conn'.next = conn.next /\ conn'.delivered = seq
      /\ conn'.calibrated = conn.calibrated
  BY <1>1, <1>2, <1>3, <1>4 DEF Connections
<1>6. cursor' \in Seqs /\ cursor' <= LastSeq /\ sawEnd' \in BOOLEAN
  BY <1>1, <1>2, <1>4
<1>7. StreamTypeOK' /\ Written' /\ LastSeq' = LastSeq
  BY <1>1, <1>2, <1>5, <1>6, ReaderStep
<1>8. Window'
  BY <1>1, <1>2, <1>5, <1>7 DEF StreamInv, Window
<1>9. Delivered' /\ Fresh'
  BY <1>1, <1>2, <1>4, <1>5, <1>7 DEF StreamInv, Delivered, Fresh
<1> QED
  BY <1>7, <1>8, <1>9 DEF StreamInv

\* The steps that end a connection.
LEMMA EndStream ==
  ASSUME StreamInv, LiveGap \/ CloseAfterEnd \/ PageChanged \/ Cut \/ Crash
  PROVE  StreamInv'
<1>1. /\ UNCHANGED <<log, cursor, sawEnd, published>> /\ unpublished' \subseteq unpublished
      /\ incidents' \in 0..MaxIncidents
  BY StreamAssumption DEF LiveGap, CloseAfterEnd, PageChanged, Cut, Crash, Incident,
     LoseUnpublished, StreamInv, StreamTypeOK, StreamAssumption
<1>2. PICK reason \in Reasons : conn' = Closed(reason)
  BY Zenon DEF LiveGap, CloseAfterEnd, PageChanged, Cut, Crash, Reasons
<1>3. published' \subseteq 0..LastSeq
  BY <1>1 DEF StreamInv, StreamTypeOK
<1> QED
  BY <1>1, <1>2, <1>3, CloseStream

LEMMA NextStream == StreamInv /\ [StreamNext]_streamVars => StreamInv'
<1> SUFFICES ASSUME StreamInv, [StreamNext]_streamVars PROVE StreamInv'
  OBVIOUS
<1>1. CASE UNCHANGED streamVars
  BY <1>1 DEF streamVars, StreamInv, StreamTypeOK, Written, Window, Delivered, Fresh, LastSeq
<1>2. CASE Write
  BY <1>2, WriteStream
<1>3. CASE HubPublish
  BY <1>3, HubPublishStream
<1>4. CASE Open \/ ReadBootstrap \/ Activate
  BY <1>4, OpenStream, BootstrapStream, ActivateStream
<1>5. CASE LoadPage \/ DeliverReplayed \/ Calibrate
  BY <1>5, LoadPageStream, ReplayStream, CalibrateStream
<1>6. CASE SkipDuplicate \/ DeliverLive
  BY <1>6, SkipStream, DeliverStream
<1>7. CASE LiveGap \/ CloseAfterEnd \/ PageChanged \/ Cut \/ Crash
  BY <1>7, EndStream
<1> QED
  BY <1>1, <1>2, <1>3, <1>4, <1>5, <1>6, <1>7 DEF StreamNext, Serve

\* Type correctness, with the bounded queue: whatever is published, and however
\* slowly the reader takes it, the connection holds at most Capacity events.
THEOREM TypeCorrect == StreamSpec => []StreamTypeOK
<1>1. StreamInv => StreamTypeOK
  BY DEF StreamInv
<1> QED
  BY <1>1, InitStream, NextStream, PTL DEF StreamSpec

\* The reader that resumes skips nothing and goes nowhere back, on any one
\* connection, across replay, calibration and live events.
THEOREM NothingSkipped == StreamSpec => ReaderSkipsNothing
<1> DEFINE OneByOne == conn.phase = "open" /\ cursor # NoEvent => cursor' \in {cursor, cursor + 1}
<1>1. ASSUME StreamInv, [StreamNext]_streamVars PROVE OneByOne
  <2> SUFFICES ASSUME conn.phase = "open", cursor # NoEvent
               PROVE  cursor' \in {cursor, cursor + 1}
    OBVIOUS
  <2>1. /\ cursor \in Int /\ conn.next \in Int /\ conn.loaded \in Int
        /\ conn.watermark \in Int /\ conn.delivered \in Int
    BY <1>1, StreamFacts, ConnectionFields
  <2>2. CASE cursor' = cursor
    BY <2>2
  <2>3. CASE DeliverReplayed
    <3>1. cursor' = conn.next /\ conn.next <= conn.loaded
      BY <2>3 DEF DeliverReplayed, Deliver
    <3> QED
      BY <1>1, <2>1, <3>1 DEF StreamInv, Window, Delivered
  <2>4. CASE Calibrate
    <3>1. cursor' = conn.watermark /\ conn.next > conn.watermark /\ ~conn.calibrated
      BY <2>4 DEF Calibrate, Deliver
    <3> QED
      BY <1>1, <2>1, <3>1 DEF StreamInv, Window
  <2>5. CASE DeliverLive
    <3>1. cursor' = Head(conn.queue) /\ Head(conn.queue) = conn.delivered + 1 /\ conn.calibrated
      BY <2>5 DEF DeliverLive, Deliver, Follows, Live
    <3> QED
      BY <1>1, <2>1, <3>1 DEF StreamInv, Delivered
  <2>6. ~Open
    BY DEF Open
  <2>7. cursor' = cursor \/ DeliverReplayed \/ Calibrate \/ DeliverLive
    BY <1>1, <2>6 DEF StreamNext, Serve, Write, HubPublish, ReadBootstrap, Activate, LoadPage,
       SkipDuplicate, LiveGap, CloseAfterEnd, PageChanged, Cut, Crash, streamVars
  <2> QED
    BY <2>2, <2>3, <2>4, <2>5, <2>7
<1>2. StreamInv /\ [StreamNext]_streamVars => [OneByOne]_streamVars
  BY <1>1
<1> QED
  BY <1>2, InitStream, NextStream, PTL DEF StreamSpec, ReaderSkipsNothing

-----------------------------------------------------------------------------
(* Nothing published falls between the database and the hub *)

\* Whatever was published is behind a connection's number, or in its queue.
Covered(seqs, number, queue) == \A seq \in seqs : seq <= number \/ seq \in Range(queue)

CoveredInv == /\ StreamInv
              /\ conn.phase = "checking" => Covered(published, conn.watermark, conn.queue)
              /\ conn.phase = "open" /\ ~conn.closing =>
                   Covered(published, conn.delivered, conn.queue)

LEMMA CoveredIsNothingDropped == ASSUME CoveredInv PROVE NothingDropped
<1> SUFFICES ASSUME NEW seq \in published
             PROVE  CASE conn.phase = "checking" ->
                           seq <= conn.watermark \/ seq \in Range(conn.queue)
                      [] conn.phase = "open" /\ ~conn.closing ->
                           seq <= conn.delivered \/ seq \in Range(conn.queue)
                      [] OTHER -> TRUE
  BY DEF NothingDropped
<1> QED
  BY DEF CoveredInv, Covered

\* Steps after which the number is no smaller and the queue has lost nothing.
LEMMA CoveredKept ==
  ASSUME CoveredInv, StreamInv', published' = published,
         conn'.phase = conn.phase, conn'.queue = conn.queue,
         conn'.watermark = conn.watermark, conn'.delivered = conn.delivered,
         ~conn'.closing => ~conn.closing
  PROVE  CoveredInv'
  BY DEF CoveredInv, Covered

LEMMA HubPublishCovered == ASSUME CoveredInv, HubPublish PROVE CoveredInv'
<1>1. StreamInv /\ StreamInv'
  BY HubPublishStream DEF CoveredInv
<1>2. PICK b \in unpublished : Listen(b) /\ published' = published \cup b.first..b.last
  BY DEF HubPublish
<1>3. b \in Batches /\ conn.queue \in Seq(Nat) /\ conn \in Connections
  BY <1>1, StreamFacts, ConnectionFields DEF StreamInv, StreamTypeOK
<1>4. conn.queue \o SeqsOf(b) \in Seq(Nat)
      /\ Range(conn.queue \o SeqsOf(b)) = Range(conn.queue) \cup b.first..b.last
  BY <1>3, QueueBatch
<1>5. \/ conn.phase = "closed" /\ conn' = conn
      \/ conn' = [conn EXCEPT !.queue = @ \o SeqsOf(b)]
      \/ conn' = Closed("overflow")
  BY <1>2 DEF Listen
<1>6. CASE conn.phase = "closed" /\ conn' = conn
  BY <1>1, <1>6 DEF CoveredInv
<1>7. CASE conn' = Closed("overflow")
  <2>1. conn'.phase = "closed"
    BY <1>7, ClosedType DEF Reasons
  <2> QED
    BY <1>1, <2>1 DEF CoveredInv
<1>8. CASE conn' = [conn EXCEPT !.queue = @ \o SeqsOf(b)]
  <2>1. /\ conn'.queue = conn.queue \o SeqsOf(b) /\ conn'.phase = conn.phase
        /\ conn'.watermark = conn.watermark /\ conn'.delivered = conn.delivered
        /\ conn'.closing = conn.closing
    BY <1>3, <1>4, <1>8, Queueing
  <2>2. ASSUME NEW number, Covered(published, number, conn.queue)
        PROVE  Covered(published', number, conn'.queue)
    BY <1>2, <1>4, <2>1, <2>2 DEF Covered
  <2> QED
    BY <1>1, <2>1, <2>2 DEF CoveredInv
<1> QED
  BY <1>5, <1>6, <1>7, <1>8

LEMMA NextCovered == CoveredInv /\ [StreamNext]_streamVars => CoveredInv'
<1> SUFFICES ASSUME CoveredInv, [StreamNext]_streamVars PROVE CoveredInv'
  OBVIOUS
<1>1. StreamInv /\ StreamInv'
  BY NextStream DEF CoveredInv
<1>2. conn \in Connections /\ published \subseteq 0..LastSeq /\ LastSeq \in Nat
  BY <1>1, StreamFacts DEF StreamInv, StreamTypeOK
<1>3. CASE UNCHANGED streamVars \/ Write
  BY <1>1, <1>3, CoveredKept DEF Write, streamVars
<1>4. CASE HubPublish
  BY <1>4, HubPublishCovered
<1>5. CASE Open
  <2>1. conn'.phase = "subscribed"
    BY <1>5, ClosedType, Subscribing DEF Open, Reasons
  <2> QED
    BY <1>1, <2>1 DEF CoveredInv
<1>6. CASE ReadBootstrap
  <2>1. conn'.phase = "checking" /\ conn'.watermark = LastSeq /\ published' = published
    BY <1>2, <1>6 DEF ReadBootstrap, Connections
  <2>2. \A seq \in published' : seq <= LastSeq
    BY <1>2, <2>1
  <2> QED
    BY <1>1, <2>1, <2>2 DEF CoveredInv, Covered
<1>7. CASE Activate
  <2>1. conn.watermark \in Seqs
    BY <1>2 DEF Connections
  <2>2. /\ conn'.phase = "open" /\ conn'.delivered = conn.watermark
        /\ conn'.queue = conn.queue /\ published' = published /\ conn.phase = "checking"
    BY <1>2, <1>7, <2>1, Opening DEF Activate
  <2> QED
    BY <1>1, <2>2 DEF CoveredInv, Covered
<1>8. CASE LoadPage \/ DeliverReplayed \/ Calibrate
  <2>1. /\ conn'.phase = conn.phase /\ conn'.queue = conn.queue /\ published' = published
        /\ conn'.watermark = conn.watermark /\ conn'.delivered = conn.delivered
        /\ ~conn.closing
    BY <1>2, <1>8 DEF LoadPage, DeliverReplayed, Calibrate, Ready, Connections
  <2> QED
    BY <1>1, <2>1, CoveredKept
<1>9. CASE SkipDuplicate
  <2>1. /\ conn'.phase = "open" /\ conn'.queue = Tail(conn.queue) /\ published' = published
        /\ conn'.delivered = conn.delivered /\ conn.phase = "open" /\ ~conn.closing
        /\ Head(conn.queue) <= conn.delivered
        /\ Range(conn.queue) = {Head(conn.queue)} \cup Range(Tail(conn.queue))
    BY <1>1, <1>2, <1>9, LiveHead, Queueing DEF SkipDuplicate, Duplicate, Live
  <2> QED
    BY <1>1, <2>1 DEF CoveredInv, Covered
<1>10. CASE DeliverLive
  <2>1. /\ conn'.phase = "open" /\ conn'.queue = Tail(conn.queue) /\ published' = published
        /\ conn'.delivered = Head(conn.queue) /\ conn.phase = "open"
        /\ Head(conn.queue) = conn.delivered + 1 /\ ~conn.closing
    BY <1>2, <1>10 DEF DeliverLive, Follows, Live, Ready, Connections
  <2>2. Range(conn.queue) = {Head(conn.queue)} \cup Range(Tail(conn.queue))
    BY <1>1, <1>10, LiveHead DEF DeliverLive
  <2>3. conn.delivered \in Int /\ \A seq \in published : seq \in Int
    BY <1>2, ConnectionFields
  <2>4. ASSUME NEW seq \in published
        PROVE  seq <= conn'.delivered \/ seq \in Range(conn'.queue)
    <3>1. seq <= conn.delivered \/ seq \in Range(conn.queue)
      BY <2>1 DEF CoveredInv, Covered
    <3> QED
      BY <2>1, <2>2, <2>3, <3>1
  <2> QED
    BY <1>1, <2>1, <2>4 DEF CoveredInv, Covered
<1>11. CASE LiveGap \/ CloseAfterEnd \/ PageChanged \/ Cut \/ Crash
  <2>1. PICK reason \in Reasons : conn' = Closed(reason)
    BY <1>11, Zenon DEF LiveGap, CloseAfterEnd, PageChanged, Cut, Crash, Reasons
  <2>2. conn'.phase = "closed"
    BY <2>1, ClosedType
  <2> QED
    BY <1>1, <2>2 DEF CoveredInv
<1> QED
  BY <1>3, <1>4, <1>5, <1>6, <1>7, <1>8, <1>9, <1>10, <1>11 DEF StreamNext, Serve

LEMMA InitCovered == StreamInit => CoveredInv
<1> SUFFICES ASSUME StreamInit PROVE CoveredInv
  OBVIOUS
<1>1. conn.phase = "closed"
  BY ClosedType DEF StreamInit, Reasons
<1> QED
  BY <1>1, InitStream DEF CoveredInv

\* The race between reading the database and subscribing to the hub loses
\* nothing, however publications and the steps of opening interleave.
THEOREM NothingFallsBetween == StreamSpec => []NothingDropped
<1>1. CoveredInv => NothingDropped
  BY CoveredIsNothingDropped
<1> QED
  BY <1>1, InitCovered, NextCovered, PTL DEF StreamSpec

-----------------------------------------------------------------------------
(* A missing event is lost *)

\* Written, but neither published nor on its way.
Lost(seq) == /\ seq \in 0..LastSeq /\ seq \notin published
             /\ \A b \in unpublished : seq \notin b.first..b.last

LossInv == CoveredInv /\ MissingIsLost

\* What is lost stays lost: a batch handed over later starts behind it.
LEMMA LostStays ==
  ASSUME StreamInv, [StreamNext]_streamVars, NEW seq, Lost(seq)
  PROVE  Lost(seq)'
<1>0. LastSeq \in Nat /\ LogOK /\ Len(log) \in Nat /\ LastSeq = Len(log) - 1
  BY StreamFacts
<1>1. CASE Write
  <2>1. WriteEffects /\ published' = published
    BY <1>0, <1>1, CommitEffects, StreamAssumption DEF Write, Commit
  <2>2. Len(log') \in Nat /\ Len(log') > Len(log)
    BY <2>1, LenProperties DEF WriteEffects
  <2>3. seq \in 0..LastSeq' /\ seq \notin published'
    BY <1>0, <2>1, <2>2 DEF Lost, LastSeq
  <2>4. ASSUME NEW b \in unpublished' PROVE seq \notin b.first..b.last
    <3>1. CASE b \in unpublished
      BY <3>1 DEF Lost
    <3>2. CASE b \in Batches /\ b.first = Len(log)
      BY <1>0, <3>2 DEF Lost, Batches
    <3> QED
      BY <2>1, <3>1, <3>2 DEF WriteEffects
  <2> QED
    BY <2>3, <2>4 DEF Lost
<1>2. CASE HubPublish
  BY <1>2 DEF HubPublish, Publish, Lost, LastSeq
<1>3. CASE UNCHANGED log /\ unpublished' \subseteq unpublished /\ UNCHANGED published
  BY <1>3 DEF Lost, LastSeq
<1>4. ~Write /\ ~HubPublish =>
        UNCHANGED log /\ unpublished' \subseteq unpublished /\ UNCHANGED published
  BY DEF StreamNext, Serve, Open, ReadBootstrap, Activate, LoadPage, DeliverReplayed, Calibrate,
     SkipDuplicate, DeliverLive, LiveGap, CloseAfterEnd, PageChanged, Cut, Crash,
     LoseUnpublished, streamVars
<1> QED
  BY <1>1, <1>2, <1>3, <1>4

LEMMA LiveGapLost ==
  ASSUME CoveredInv, LiveGap, conn'.reason = "missing"
  PROVE  Lost(conn.delivered + 1)
<1> DEFINE h == Head(conn.queue)
           missed == conn.delivered + 1
<1>1. StreamInv /\ Live /\ ~Duplicate(h) /\ ~Follows(h)
      /\ conn' = Closed(IF OnItsWay(missed) THEN "overtaken" ELSE "missing")
  BY DEF LiveGap, CoveredInv
<1>2. ~OnItsWay(missed)
  BY <1>1, ClosedReason
<1>3. /\ h \in 0..LastSeq /\ conn.delivered \in Int /\ conn.delivered >= 0 /\ LastSeq \in Nat
      /\ conn.phase = "open" /\ ~conn.closing
  BY <1>1, LiveHead, StreamFacts, ConnectionFields DEF StreamInv, Delivered
<1>4. missed \in 0..LastSeq /\ ~(missed <= conn.delivered)
  BY <1>1, <1>3 DEF Duplicate
<1>5. missed \notin Range(conn.queue)
      /\ \A b \in unpublished : missed \notin b.first..b.last
  BY <1>2 DEF OnItsWay
<1>6. missed \notin published
  BY <1>3, <1>4, <1>5 DEF CoveredInv, Covered
<1> QED
  BY <1>4, <1>5, <1>6 DEF Lost

LEMMA MissingMeansLost == MissingIsLost <=> (conn.reason = "missing" => \E seq : Lost(seq))
  BY DEF MissingIsLost, Lost

LEMMA NextLoss == LossInv /\ [StreamNext]_streamVars => LossInv'
<1> SUFFICES ASSUME LossInv, [StreamNext]_streamVars PROVE LossInv'
  OBVIOUS
<1>1. CoveredInv /\ CoveredInv' /\ StreamInv /\ conn \in Connections
  BY NextCovered, StreamFacts DEF LossInv, CoveredInv
<1>2. conn'.reason = "missing" => conn.reason = "missing" \/ LiveGap
  <2>1. CASE UNCHANGED conn
    BY <2>1
  <2>2. CASE PageChanged \/ Cut \/ Crash \/ CloseAfterEnd
    BY <2>2, ClosedReason DEF PageChanged, Cut, Crash, CloseAfterEnd
  <2>3. CASE HubPublish
    BY <1>1, <2>3, ClosedReason DEF HubPublish, Listen, Connections
  <2>4. CASE Open
    BY <2>4, ClosedType, ClosedReason, Subscribing DEF Open, Reasons
  <2>5. CASE ReadBootstrap \/ Activate
    BY <1>1, <2>5 DEF ReadBootstrap, Activate, Connections
  <2>6. CASE LoadPage \/ DeliverReplayed \/ Calibrate \/ SkipDuplicate \/ DeliverLive
    BY <1>1, <2>6 DEF LoadPage, DeliverReplayed, Calibrate, SkipDuplicate, DeliverLive, Connections
  <2> QED
    BY <2>1, <2>2, <2>3, <2>4, <2>5, <2>6 DEF StreamNext, Serve, Write, streamVars
<1>3. conn'.reason = "missing" => \E seq : Lost(seq)
  BY <1>1, <1>2, LiveGapLost, MissingMeansLost DEF LossInv
<1>4. (conn.reason = "missing" => \E seq : Lost(seq))'
  <2> SUFFICES ASSUME conn'.reason = "missing" PROVE (\E seq : Lost(seq))'
    OBVIOUS
  <2>1. PICK seq : Lost(seq)
    BY <1>3
  <2>2. Lost(seq)'
    BY <1>1, <2>1, LostStays
  <2> QED
    BY <2>2
<1>5. MissingIsLost'
  BY <1>4, MissingMeansLost DEF MissingIsLost, Lost
<1> QED
  BY <1>1, <1>5 DEF LossInv

\* A connection that ends on a missing event is right about it: no duplicate, no
\* delayed batch and no batch that was overtaken is ever taken for a loss.
THEOREM MissingIsReallyLost == StreamSpec => []MissingIsLost
<1>1. StreamInit => LossInv
  <2> SUFFICES ASSUME StreamInit PROVE LossInv
    OBVIOUS
  <2>1. conn.reason = "none"
    BY ClosedReason DEF StreamInit
  <2> QED
    BY <2>1, InitCovered DEF LossInv, MissingIsLost
<1>2. LossInv => MissingIsLost
  BY DEF LossInv
<1> QED
  BY <1>1, <1>2, NextLoss, PTL DEF StreamSpec

=============================================================================
