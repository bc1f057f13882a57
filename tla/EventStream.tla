---------------------------- MODULE EventStream ----------------------------
(***************************************************************************)
(* One reader of a session's event stream: the hub, the server's connection *)
(* with its live queue, bootstrap, replay and calibration, and the sequence *)
(* number the reader resumes from.                                          *)
(*                                                                         *)
(* Events are written by the actions of CommittedLog and are known here by  *)
(* their sequence numbers.  A delivery that the network loses is a delivery  *)
(* that did not happen before the connection was cut.                       *)
(***************************************************************************)
EXTENDS CommittedLog, Integers, FiniteSets

CONSTANTS
  Capacity,      \* LIVE_QUEUE_CAPACITY
  PageSize,      \* REPLAY_PAGE_SIZE
  MaxIncidents   \* bound: unlearnt commits, failed reads, cuts, crashes

\* A batch fits into an empty queue (64 places).
ASSUME StreamAssumption ==
  /\ MaxBatch \in Nat \ {0} /\ MaxSafeInteger \in Nat /\ MaxSafeInteger >= 2
  /\ Capacity \in Nat /\ Capacity >= MaxBatch /\ PageSize \in Nat \ {0}
  /\ MaxIncidents \in Nat

VARIABLES
  conn,        \* the server's side of the connection
  cursor,      \* the last sequence number the reader has, -1 for none
  sawEnd,      \* has the reader seen the session ended?
  published,   \* the sequence numbers handed to the hub, over the whole history
  incidents

streamVars == <<log, unpublished, conn, cursor, sawEnd, published, incidents>>

NoEvent == -1
Seqs == Nat \cup {NoEvent}

Reasons == {"none", "missing", "overtaken", "overflow", "page", "cut", "ended"}

Connections == [phase: {"closed", "subscribed", "checking", "open"}, queue: Seq(Nat),
                next: Seqs, loaded: Seqs, watermark: Seqs, delivered: Seqs,
                ended: BOOLEAN, calibrated: BOOLEAN, closing: BOOLEAN, reason: Reasons]

Closed(reason) ==
  [phase |-> "closed", queue |-> <<>>, next |-> NoEvent, loaded |-> NoEvent,
   watermark |-> NoEvent, delivered |-> NoEvent, ended |-> FALSE, calibrated |-> FALSE,
   closing |-> FALSE, reason |-> reason]

StreamInit ==
  /\ LogInit
  /\ conn = Closed("none") /\ cursor = NoEvent /\ sawEnd = FALSE
  /\ published = {0, 1} /\ incidents = 0

Incident == incidents < MaxIncidents /\ incidents' = incidents + 1

-----------------------------------------------------------------------------
(* The writers *)

Write ==
  /\ \/ (CommandCommits \/ CoordinatorCommits \/ CorrectionStarts) /\ UNCHANGED incidents
     \/ CommitUnlearnt /\ Incident
  /\ UNCHANGED <<conn, cursor, sawEnd, published>>

SeqsOf(batch) == [i \in 1..(batch.last - batch.first + 1) |-> batch.first + i - 1]

\* Broken: a full queue loses the batch silently.
ListenDropping(batch) ==
  conn' = IF conn.phase = "closed" \/ Len(conn.queue \o SeqsOf(batch)) > Capacity THEN conn
          ELSE [conn EXCEPT !.queue = @ \o SeqsOf(batch)]

\* The listener: everything is queued, and a full queue ends the connection.
Listen(batch) ==
  conn' = CASE conn.phase = "closed" -> conn
            [] conn.phase # "closed" /\ Len(conn.queue \o SeqsOf(batch)) <= Capacity ->
                 [conn EXCEPT !.queue = @ \o SeqsOf(batch)]
            [] OTHER -> Closed("overflow")

HubPublish ==
  \E batch \in unpublished :
    /\ Publish(batch) /\ Listen(batch)
    /\ published' = published \cup batch.first..batch.last
    /\ UNCHANGED <<cursor, sawEnd, incidents>>

-----------------------------------------------------------------------------
(* Opening a connection *)

\* The reader asks for what follows its snapshot, which a command's response
\* may have moved on; the server subscribes before it reads anything it uses.
Open ==
  /\ conn.phase = "closed" /\ ~sawEnd
  /\ cursor' \in cursor..LastSeq
  /\ cursor = NoEvent => cursor' = NoEvent
  /\ conn' = [Closed("none") EXCEPT !.phase = "subscribed"]
  /\ UNCHANGED <<log, unpublished, sawEnd, published, incidents>>

\* One statement reads the session, its events and its high watermark.  Without
\* a cursor nothing is replayed.
ReadBootstrap ==
  LET first == IF cursor = NoEvent THEN LastSeq + 1 ELSE cursor + 1 IN
  /\ conn.phase = "subscribed"
  /\ conn' = [conn EXCEPT !.phase = "checking", !.watermark = LastSeq,
                          !.ended = Last(log).ended, !.next = first, !.loaded = first - 1]
  /\ UNCHANGED <<log, unpublished, cursor, sawEnd, published, incidents>>

\* Every page of the window was read and found valid.
Activate ==
  /\ conn.phase = "checking"
  /\ conn' = [conn EXCEPT !.phase = "open", !.delivered = conn.watermark]
  /\ UNCHANGED <<log, unpublished, cursor, sawEnd, published, incidents>>

-----------------------------------------------------------------------------
(* nextEvent: replay, then calibration, then the live queue *)

Ready == conn.phase = "open" /\ ~conn.closing

Deliver(seq, ends) == cursor' = seq /\ sawEnd' = (sawEnd \/ ends)

\* The next page is read when the last one is used up.
LoadPage ==
  /\ Ready /\ conn.next = conn.loaded + 1 /\ conn.next <= conn.watermark
  /\ conn' = [conn EXCEPT !.loaded =
       IF conn.loaded + PageSize <= conn.watermark THEN conn.loaded + PageSize
                                                   ELSE conn.watermark]
  /\ UNCHANGED <<log, unpublished, cursor, sawEnd, published, incidents>>

\* The second reading of a page fails, or differs from the first.
PageChanged ==
  /\ Ready /\ conn.next = conn.loaded + 1 /\ conn.next <= conn.watermark /\ Incident
  /\ conn' = Closed("page")
  /\ UNCHANGED <<log, unpublished, cursor, sawEnd, published>>

DeliverReplayed ==
  /\ Ready /\ conn.next <= conn.loaded
  /\ Deliver(conn.next, log[conn.next + 1].ended)
  /\ conn' = [conn EXCEPT !.next = @ + 1]
  /\ UNCHANGED <<log, unpublished, published, incidents>>

\* Broken: the calibration does not wait for the pages that follow.
CalibrateBetweenPages ==
  /\ Ready /\ conn.next > conn.loaded /\ ~conn.calibrated
  /\ Deliver(conn.watermark, conn.ended)
  /\ conn' = [conn EXCEPT !.calibrated = TRUE, !.closing = conn.ended]
  /\ UNCHANGED <<log, unpublished, published, incidents>>

\* The snapshot of the bootstrap, at its high watermark.
Calibrate ==
  /\ Ready /\ conn.next > conn.watermark /\ ~conn.calibrated
  /\ Deliver(conn.watermark, conn.ended)
  /\ conn' = [conn EXCEPT !.calibrated = TRUE, !.closing = conn.ended]
  /\ UNCHANGED <<log, unpublished, published, incidents>>

Live == Ready /\ conn.calibrated /\ conn.queue # <<>>

Duplicate(seq) == seq <= conn.delivered

Follows(seq) == /\ seq = conn.delivered + 1
                /\ log[seq + 1].version >= log[conn.delivered + 1].version

SkipDuplicate ==
  /\ Live /\ Duplicate(Head(conn.queue))
  /\ conn' = [conn EXCEPT !.queue = Tail(@)]
  /\ UNCHANGED <<log, unpublished, cursor, sawEnd, published, incidents>>

DeliverLive ==
  LET seq == Head(conn.queue) IN
  /\ Live /\ ~Duplicate(seq) /\ Follows(seq)
  /\ Deliver(seq, log[seq + 1].ended)
  /\ conn' = [conn EXCEPT !.queue = Tail(@), !.delivered = seq, !.closing = log[seq + 1].ended]
  /\ UNCHANGED <<log, unpublished, published, incidents>>

\* Is the event still coming, behind the one that overtook it?
OnItsWay(seq) == \/ seq \in Range(conn.queue)
                 \/ \E b \in unpublished : seq \in b.first..b.last

LiveGap ==
  LET seq == Head(conn.queue) IN
  /\ Live /\ ~Duplicate(seq) /\ ~Follows(seq)
  /\ conn' = Closed(IF OnItsWay(conn.delivered + 1) THEN "overtaken" ELSE "missing")
  /\ UNCHANGED <<log, unpublished, cursor, sawEnd, published, incidents>>

CloseAfterEnd ==
  /\ conn.phase = "open" /\ conn.closing
  /\ conn' = Closed("ended")
  /\ UNCHANGED <<log, unpublished, cursor, sawEnd, published, incidents>>

-----------------------------------------------------------------------------
(* Incidents *)

\* The request is aborted, a read fails while opening, or a write is still
\* pending at the heartbeat's deadline.
Cut ==
  /\ conn.phase # "closed" /\ Incident /\ conn' = Closed("cut")
  /\ UNCHANGED <<log, unpublished, cursor, sawEnd, published>>

Crash ==
  /\ Incident /\ LoseUnpublished /\ conn' = Closed("cut")
  /\ UNCHANGED <<cursor, sawEnd, published>>

Serve == Open \/ ReadBootstrap \/ Activate \/ LoadPage \/ DeliverReplayed \/ Calibrate
         \/ SkipDuplicate \/ DeliverLive \/ LiveGap \/ CloseAfterEnd

StreamNext == Write \/ HubPublish \/ Serve \/ PageChanged \/ Cut \/ Crash

StreamSpec == StreamInit /\ [][StreamNext]_streamVars

\* The publication that follows a commit runs; the server answers and writes;
\* a reader that lost its connection opens another.
FairStream == StreamSpec /\ WF_streamVars(HubPublish) /\ WF_streamVars(Serve)

-----------------------------------------------------------------------------
(* Properties *)

\* The stream's state keeps its shape; the queue is bounded.
StreamTypeOK ==
  /\ log \in Seq(LogEvents) /\ unpublished \subseteq Batches
  /\ conn \in Connections /\ Len(conn.queue) <= Capacity
  /\ cursor \in Seqs /\ sawEnd \in BOOLEAN
  /\ published \subseteq 0..LastSeq /\ incidents \in 0..MaxIncidents

\* The race of reading the database and subscribing to the hub loses nothing:
\* whatever was handed to the hub is covered by the replay window, already
\* delivered, or in this connection's queue.
NothingDropped ==
  \A seq \in published :
    CASE conn.phase = "checking" -> seq <= conn.watermark \/ seq \in Range(conn.queue)
      [] conn.phase = "open" /\ ~conn.closing ->
           seq <= conn.delivered \/ seq \in Range(conn.queue)
      [] OTHER -> TRUE

\* A connection gives a reader that resumes every event after its cursor, one
\* by one, across replay pages, calibration and live events: only a reader
\* without a cursor jumps, and none goes back.
ReaderSkipsNothing ==
  [][conn.phase = "open" /\ cursor # NoEvent => cursor' \in {cursor, cursor + 1}]_streamVars

\* A connection that ends on a missing event misses one that is on no way to
\* it: duplicates and delayed batches are never mistaken for a loss.
MissingIsLost ==
  conn.reason = "missing" =>
    \E seq \in 0..LastSeq : /\ seq \notin published
                           /\ \A b \in unpublished : seq \notin b.first..b.last

\* Whatever was handed to the hub reaches the reader, through this connection
\* or the next, unless it has seen the end of the session before.
PublishedIsSeen ==
  \A seq \in 0..(MaxSafeInteger - 1) : seq \in published ~> cursor >= seq \/ sawEnd

=============================================================================
