-------------------------- MODULE SessionSync_proof --------------------------
(***************************************************************************)
(* The browser's side of a session, for every number of commands, events,  *)
(* faults and moves of the player.  Every handler takes a sound client to   *)
(* a sound client; what it may do to the snapshot shown and to the requests *)
(* under way is said by one relation, from which the properties follow.     *)
(***************************************************************************)
EXTENDS SessionSync, SequenceTheorems, TLAPS

RequestContexts == [valid: BOOLEAN, advanced: BOOLEAN, baseline: Nat]

Streams == [phase: {"none", "asked", "open"}, next: Nat, watermark: Nat, stalled: BOOLEAN,
            snapshotSeen: BOOLEAN, gapCursor: Nat, barrier: Nat, ctx: RequestContexts]

Reads == [active: BOOLEAN, since: Nat, waiters: SUBSET Waiters, ctx: RequestContexts]

Clients == [shown: Nat, status: Statuses, mounted: BOOLEAN, hidden: BOOLEAN,
            frozen: BOOLEAN, unavailable: BOOLEAN, protocolAttempted: BOOLEAN,
            stream: Streams, read: Reads, cut: SUBSET Waiters,
            busy: Commands \cup {NoCommand}, pending: SUBSET Commands,
            ctx: [Commands -> RequestContexts]]

\* A request still wanted began no later than what is shown, and knows it when
\* something newer is.
ContextOK(x, shown) ==
  x.valid => x.baseline <= shown /\ (x.baseline # shown => x.advanced)

\* What is shown and what the commands were formed on; `last' is the length of
\* the history and `over' whether the session is deleted.
Kept(c, last, over) ==
  /\ c.shown <= last
  /\ \A id \in Commands : ContextOK(c.ctx[id], c.shown)
  /\ c.frozen => \A id \in Commands : ~c.ctx[id].valid
  /\ c.unavailable => over /\ c.shown = NoSnapshot /\ \A id \in Commands : ~c.ctx[id].valid

\* The stream continues what is shown, or is about to bring its own snapshot.
OpenOK(s, shown, last) ==
  /\ s.next >= 1
  /\ s.watermark >= 1 /\ s.ctx.baseline <= s.watermark
  /\ s.next <= shown + 1 \/ (s.next = s.watermark + 1 /\ ~s.snapshotSeen)

StreamOK(c, last) ==
  /\ c.status = "ready" => c.stream.snapshotSeen /\ c.shown >= c.stream.barrier
  /\ c.stream.snapshotSeen => c.stream.phase = "open"
  /\ c.stream.barrier <= last /\ c.stream.gapCursor <= last
  /\ c.stream.watermark <= last /\ c.stream.next <= last + 1
  /\ ContextOK(c.stream.ctx, c.shown) /\ c.stream.ctx.baseline <= last
  /\ c.stream.phase = "asked" => c.stream.next <= c.shown /\ c.stream.ctx.baseline <= c.shown
  /\ c.stream.phase = "open" => ~c.unavailable /\ OpenOK(c.stream, c.shown, last)

\* A read is wanted, and no answer it may get is older than what it began on
\* or than the snapshot of the stream.
ReadOK(c, last) ==
  /\ c.read.active => /\ c.read.ctx.valid /\ ~c.frozen
                      /\ c.read.since >= 1 /\ c.read.since >= c.read.ctx.baseline
                      /\ c.stream.snapshotSeen => c.read.since >= c.stream.barrier
                      /\ c.unavailable => c.read.since > last
  /\ ~c.read.active => c.read.waiters = {}
  /\ c.read.since <= last + 1
  /\ ContextOK(c.read.ctx, c.shown) /\ c.read.ctx.baseline <= last
  /\ "diagnosis" \in c.read.waiters => ~c.stream.snapshotSeen

Sound(c, last, over) ==
  /\ c \in Clients
  /\ Kept(c, last, over) /\ StreamOK(c, last) /\ ReadOK(c, last)

Good(c) == Sound(c, Len(log), gone)

\* The history: versions never decrease, and nothing follows the end.
Events == [version: Nat, ended: BOOLEAN, state: {"committed", "published", "silent"}]
LogInv ==
  /\ log \in Seq(Events) /\ Len(log) \in 1..MaxEvents
  /\ \A i \in 1..Len(log) : /\ log[i].version \in 1..i
                            /\ log[i].ended => i = Len(log)
  /\ \A i, j \in 1..Len(log) : i <= j => log[i].version <= log[j].version

\* A command is used once, and decided after the snapshot it was formed on.
CommandInv ==
  \A id \in Commands :
    /\ client.ctx[id].baseline <= Len(log)
    /\ client.ctx[id].baseline = NoSnapshot =>
         ~client.ctx[id].valid /\ id \notin requests /\ ledger[id] = Undecided
    /\ ledger[id] # Undecided => /\ ledger[id].seq \in 1..Len(log)
                                 /\ ledger[id].seq >= client.ctx[id].baseline

SyncTypes ==
  /\ gone \in BOOLEAN /\ requests \subseteq Commands /\ told \subseteq Commands
  /\ ledger \in [Commands -> [kind: {"none", "applied", "refused"}, seq: Nat]]
  /\ faults \in 0..MaxFaults /\ moves \in 0..MaxMoves

StateInv ==
  /\ LogInv /\ CommandInv /\ UnansweredIsPending
  /\ Good(client) /\ client.cut = {}

SyncInv == SyncTypes /\ StateInv

-----------------------------------------------------------------------------
(* One field of the client at a time *)

\* The handlers that only change the connection leave all this alone.
Same(c, d) ==
  /\ d.shown = c.shown /\ d.frozen = c.frozen /\ d.unavailable = c.unavailable
  /\ d.busy = c.busy /\ d.pending = c.pending /\ d.ctx = c.ctx
  /\ d.mounted = c.mounted /\ d.hidden = c.hidden

LEMMA NothingTyped == /\ NoContext \in RequestContexts /\ NoStream \in Streams /\ NoRead \in Reads
                      /\ InitialClient \in Clients
BY DEF NoContext, NoStream, NoRead, RequestContexts, Streams, Reads, InitialClient, Clients,
       Statuses, Waiters, NoSnapshot

LEMMA NothingKnown ==
  /\ ~NoContext.valid /\ ~NoContext.advanced /\ NoContext.baseline = 0
  /\ NoStream.phase = "none" /\ NoStream.next = 0 /\ NoStream.watermark = 0
  /\ ~NoStream.stalled /\ ~NoStream.snapshotSeen /\ NoStream.gapCursor = 0
  /\ NoStream.barrier = 0 /\ NoStream.ctx = NoContext
  /\ ~NoRead.active /\ NoRead.since = 0 /\ NoRead.waiters = {} /\ NoRead.ctx = NoContext
BY DEF NoContext, NoStream, NoRead, NoSnapshot

WithStatus(c, st) == [c EXCEPT !.status = st]
WithAttempt(c, b) == [c EXCEPT !.protocolAttempted = b]
WithRead(c, r) == [c EXCEPT !.read = r]
WithStream(c, s) == [c EXCEPT !.stream = s]
WithCut(c, w) == [c EXCEPT !.cut = w]
WithWaiters(c, w) == [c EXCEPT !.read.waiters = w]

LEMMA StatusSet ==
  ASSUME NEW c \in Clients, NEW st \in Statuses, NEW d, d = WithStatus(c, st)
  PROVE  /\ d \in Clients /\ Same(c, d)
         /\ d.status = st /\ d.stream = c.stream /\ d.read = c.read /\ d.cut = c.cut
BY DEF Clients, Same, WithStatus

LEMMA AttemptSet ==
  ASSUME NEW c \in Clients, NEW b \in BOOLEAN, NEW d, d = WithAttempt(c, b)
  PROVE  /\ d \in Clients /\ Same(c, d)
         /\ d.status = c.status /\ d.stream = c.stream /\ d.read = c.read /\ d.cut = c.cut
BY DEF Clients, Same, WithAttempt

LEMMA ReadSet ==
  ASSUME NEW c \in Clients, NEW r \in Reads, NEW d, d = WithRead(c, r)
  PROVE  /\ d \in Clients /\ Same(c, d)
         /\ d.status = c.status /\ d.stream = c.stream /\ d.read = r /\ d.cut = c.cut
BY DEF Clients, Same, WithRead

LEMMA StreamSet ==
  ASSUME NEW c \in Clients, NEW s \in Streams, NEW d, d = WithStream(c, s)
  PROVE  /\ d \in Clients /\ Same(c, d)
         /\ d.status = c.status /\ d.stream = s /\ d.read = c.read /\ d.cut = c.cut
BY DEF Clients, Same, WithStream

LEMMA CutSet ==
  ASSUME NEW c \in Clients, NEW w \in SUBSET Waiters, NEW d, d = WithCut(c, w)
  PROVE  /\ d \in Clients /\ Same(c, d)
         /\ d.status = c.status /\ d.stream = c.stream /\ d.read = c.read /\ d.cut = w
BY DEF Clients, Same, WithCut

LEMMA FieldTypes ==
  ASSUME NEW c \in Clients
  PROVE  /\ c.shown \in Nat /\ c.status \in Statuses /\ c.stream \in Streams /\ c.read \in Reads
         /\ c.cut \in SUBSET Waiters /\ c.busy \in Commands \cup {NoCommand}
         /\ c.pending \in SUBSET Commands /\ c.ctx \in [Commands -> RequestContexts]
         /\ c.frozen \in BOOLEAN /\ c.unavailable \in BOOLEAN /\ c.mounted \in BOOLEAN
         /\ c.hidden \in BOOLEAN /\ c.protocolAttempted \in BOOLEAN
BY DEF Clients

LEMMA InnerTypes ==
  ASSUME NEW s \in Streams, NEW r \in Reads
  PROVE  /\ s.next \in Nat /\ s.watermark \in Nat /\ s.gapCursor \in Nat /\ s.barrier \in Nat
         /\ s.phase \in {"none", "asked", "open"} /\ s.snapshotSeen \in BOOLEAN
         /\ s.ctx \in RequestContexts /\ s.ctx.baseline \in Nat
         /\ r.since \in Nat /\ r.waiters \in SUBSET Waiters /\ r.active \in BOOLEAN
         /\ r.ctx \in RequestContexts /\ r.ctx.baseline \in Nat
BY DEF Streams, Reads, RequestContexts

LEMMA WaitersSet ==
  ASSUME NEW c \in Clients, NEW w \in SUBSET Waiters, NEW d, d = WithWaiters(c, w)
  PROVE  /\ d \in Clients /\ Same(c, d) /\ d.status = c.status /\ d.stream = c.stream
         /\ d.cut = c.cut /\ d.read.waiters = w
         /\ d.read.active = c.read.active /\ d.read.since = c.read.since
         /\ d.read.ctx = c.read.ctx
<1>1. c.read \in Reads
  BY FieldTypes
<1>2. PICK r : r = [c.read EXCEPT !.waiters = w]
  OBVIOUS
<1>3. /\ r \in Reads /\ r.waiters = w /\ r.active = c.read.active /\ r.since = c.read.since
      /\ r.ctx = c.read.ctx
  BY <1>1, <1>2 DEF Reads
<1>4. d = WithRead(c, r)
  BY <1>2 DEF WithRead, WithWaiters
<1> QED  BY <1>3, <1>4, ReadSet

LEMMA SameIsTransitive ==
  ASSUME NEW c, NEW d, NEW e, Same(c, d), Same(d, e)
  PROVE  Same(c, e)
BY DEF Same

LEMMA CancelReadFacts ==
  ASSUME NEW c \in Clients, NEW d, d = CancelRead(c)
  PROVE  /\ d \in Clients /\ Same(c, d) /\ d.status = c.status /\ d.stream = c.stream
         /\ d.read = NoRead
<1>1. c.cut \cup c.read.waiters \in SUBSET Waiters
  BY FieldTypes, InnerTypes
<1>2. PICK x : x = WithCut(c, c.cut \cup c.read.waiters)
  OBVIOUS
<1>3. d = WithRead(x, NoRead)
  BY <1>2 DEF CancelRead, WithCut, WithRead
<1>4. /\ x \in Clients /\ Same(c, x) /\ x.status = c.status /\ x.stream = c.stream
  BY <1>1, <1>2, CutSet
<1>5. /\ d \in Clients /\ Same(x, d) /\ d.status = x.status /\ d.stream = x.stream
      /\ d.read = NoRead
  BY <1>3, <1>4, ReadSet, NothingTyped
<1> QED  BY <1>4, <1>5, SameIsTransitive

LEMMA StopFacts ==
  ASSUME NEW c \in Clients, NEW b \in BOOLEAN, NEW d, d = Stop(c, b)
  PROVE  /\ d \in Clients /\ Same(c, d) /\ d.status = c.status /\ d.stream = NoStream
         /\ b => d.read = NoRead
         /\ ~b => /\ d.read.active = c.read.active /\ d.read.since = c.read.since
                  /\ d.read.ctx = c.read.ctx
                  /\ d.read.waiters = c.read.waiters \ RoundWaiters
<1>1. c.cut \ RoundWaiters \in SUBSET Waiters /\ c.read.waiters \ RoundWaiters \in SUBSET Waiters
  BY FieldTypes, InnerTypes
<1>2. PICK x : x = WithStream(c, NoStream)
  OBVIOUS
<1>3. /\ x \in Clients /\ Same(c, x) /\ x.status = c.status /\ x.stream = NoStream
      /\ x.read = c.read /\ x.cut = c.cut
  BY <1>2, StreamSet, NothingTyped
<1>4. PICK y : y = WithCut(x, c.cut \ RoundWaiters)
  OBVIOUS
<1>5. /\ y \in Clients /\ Same(x, y) /\ y.status = x.status /\ y.stream = NoStream
      /\ y.read = c.read
  BY <1>1, <1>3, <1>4, CutSet
<1>6. PICK z : z = WithWaiters(y, c.read.waiters \ RoundWaiters)
  OBVIOUS
<1>7. /\ z \in Clients /\ Same(y, z) /\ z.status = y.status /\ z.stream = NoStream
      /\ z.read.active = c.read.active /\ z.read.since = c.read.since
      /\ z.read.ctx = c.read.ctx /\ z.read.waiters = c.read.waiters \ RoundWaiters
  BY <1>1, <1>5, <1>6, WaitersSet
<1>8. Same(c, z)
  BY <1>3, <1>5, <1>7 DEF Same
<1>9. d = IF b THEN CancelRead(z) ELSE z
  <2>1. z = [c EXCEPT !.stream = NoStream, !.cut = @ \ RoundWaiters,
                      !.read.waiters = @ \ RoundWaiters]
    BY <1>2, <1>4, <1>6, <1>3, <1>5 DEF WithStream, WithCut, WithWaiters
  <2> QED  BY <2>1 DEF Stop
<1>10. CASE b
  BY <1>3, <1>5, <1>7, <1>8, <1>9, <1>10, CancelReadFacts, SameIsTransitive
<1>11. CASE ~b
  BY <1>3, <1>5, <1>7, <1>8, <1>9, <1>11
<1> QED  BY <1>10, <1>11

LEMMA FinishFacts ==
  ASSUME NEW c \in Clients, NEW st \in Statuses, NEW d, d = Finish(c, st)
  PROVE  /\ d \in Clients /\ Same(c, d) /\ d.status = st /\ d.stream = NoStream
         /\ d.read = NoRead
<1>1. PICK x : x = Stop(c, TRUE)
  OBVIOUS
<1>2. d = WithStatus(x, st)
  BY <1>1 DEF Finish, WithStatus
<1>3. x \in Clients /\ Same(c, x) /\ x.stream = NoStream /\ x.read = NoRead
  BY <1>1, StopFacts
<1> QED  BY <1>2, <1>3, StatusSet, SameIsTransitive

LEMMA PreservingFacts ==
  ASSUME NEW c \in Clients, NEW st \in Statuses, NEW d, d = FinishPreservingRead(c, st)
  PROVE  /\ d \in Clients /\ Same(c, d) /\ d.status = st /\ d.stream = NoStream
         /\ d.read.active = c.read.active /\ d.read.since = c.read.since
         /\ d.read.ctx = c.read.ctx /\ d.read.waiters = c.read.waiters \ RoundWaiters
<1>1. PICK x : x = Stop(c, FALSE)
  OBVIOUS
<1>2. d = WithStatus(x, st)
  BY <1>1 DEF FinishPreservingRead, WithStatus
<1>3. /\ x \in Clients /\ Same(c, x) /\ x.stream = NoStream
      /\ x.read.active = c.read.active /\ x.read.since = c.read.since
      /\ x.read.ctx = c.read.ctx /\ x.read.waiters = c.read.waiters \ RoundWaiters
  BY <1>1, StopFacts
<1> QED  BY <1>2, <1>3, StatusSet, SameIsTransitive

-----------------------------------------------------------------------------
(* Sound clients *)

LEMMA KeptSame ==
  ASSUME NEW c, NEW d, NEW last, NEW over, Same(c, d), Kept(c, last, over)
  PROVE  Kept(d, last, over)
BY DEF Same, Kept

\* A client without stream and read is sound when what it shows is.
Bare(c) == c.stream = NoStream /\ c.read = NoRead /\ c.status # "ready"

LEMMA BareIsSound ==
  ASSUME NEW c \in Clients, NEW last \in Nat, NEW over, Kept(c, last, over), Bare(c)
  PROVE  Sound(c, last, over)
<1>1. StreamOK(c, last)
  BY NothingKnown DEF StreamOK, ContextOK, Bare
<1>2. ReadOK(c, last)
  BY NothingKnown DEF ReadOK, ContextOK, Bare
<1> QED  BY <1>1, <1>2 DEF Sound

\* A change of status, other than to ready, and of what is not mentioned.
LEMMA StatusSound ==
  ASSUME NEW c, NEW d \in Clients, NEW last \in Nat, NEW over, Sound(c, last, over), Same(c, d),
         d.stream = c.stream, d.read = c.read, d.status \in {c.status} \cup (Statuses \ {"ready"})
  PROVE  Sound(d, last, over)
<1>1. Kept(d, last, over)
  BY KeptSame DEF Sound
<1>2. StreamOK(d, last)
  BY DEF Sound, StreamOK, OpenOK, Same
<1>3. ReadOK(d, last)
  BY DEF Sound, ReadOK, Same
<1> QED  BY <1>1, <1>2, <1>3 DEF Sound

LEMMA ReadDropped ==
  ASSUME NEW c, NEW d \in Clients, NEW last \in Nat, NEW over, Sound(c, last, over), Same(c, d),
         d.stream = c.stream, d.status = c.status, d.read = NoRead
  PROVE  Sound(d, last, over)
<1>1. Kept(d, last, over)
  BY KeptSame DEF Sound
<1>2. StreamOK(d, last)
  BY DEF Sound, StreamOK, OpenOK, Same
<1>3. ReadOK(d, last)
  BY NothingKnown DEF ReadOK, ContextOK
<1> QED  BY <1>1, <1>2, <1>3 DEF Sound

LEMMA FinishSound ==
  ASSUME NEW c \in Clients, NEW st \in Statuses \ {"ready"}, NEW last \in Nat, NEW over,
         Kept(c, last, over), NEW d, d = Finish(c, st)
  PROVE  Sound(d, last, over) /\ Same(c, d) /\ Bare(d) /\ d.status = st
<1>1. /\ d \in Clients /\ Same(c, d) /\ d.status = st /\ d.stream = NoStream
      /\ d.read = NoRead
  BY FinishFacts
<1>2. Bare(d)
  BY <1>1 DEF Bare
<1> QED  BY <1>1, <1>2, KeptSame, BareIsSound

LEMMA PreservingSound ==
  ASSUME NEW c \in Clients, NEW st \in Statuses \ {"ready"}, NEW last \in Nat, NEW over,
         Sound(c, last, over), NEW d, d = FinishPreservingRead(c, st)
  PROVE  Sound(d, last, over) /\ Same(c, d) /\ d.status = st /\ d.stream = NoStream
<1>1. /\ d \in Clients /\ Same(c, d) /\ d.status = st /\ d.stream = NoStream
      /\ d.read.active = c.read.active /\ d.read.since = c.read.since
      /\ d.read.ctx = c.read.ctx /\ d.read.waiters = c.read.waiters \ RoundWaiters
  BY PreservingFacts
<1>2. Kept(d, last, over)
  BY <1>1, KeptSame DEF Sound
<1>3. StreamOK(d, last)
  BY <1>1, NothingKnown DEF StreamOK, ContextOK
<1>4. ReadOK(d, last)
  BY <1>1, NothingKnown DEF Sound, ReadOK, Same
<1> QED  BY <1>1, <1>2, <1>3, <1>4 DEF Sound

LEMMA HistoryNotEmpty ==
  ASSUME LogInv
  PROVE  Len(log) \in Nat \ {0}
BY SyncAssumption DEF LogInv

LEMMA GoodTyped ==
  ASSUME NEW c, Good(c)
  PROVE  c \in Clients /\ Kept(c, Len(log), gone)
BY DEF Good, Sound

\* The stream a connection asks for.
Asked(c) == [NoStream EXCEPT !.phase = "asked", !.next = c.shown, !.ctx = Begin(c)]

LEMMA BeginFacts ==
  ASSUME NEW c \in Clients, NEW x, x = Begin(c)
  PROVE  /\ x \in RequestContexts /\ x.valid /\ x.baseline = c.shown
         /\ ContextOK(x, c.shown)
<1>1. c.shown \in Nat
  BY FieldTypes
<1> QED  BY <1>1 DEF Begin, RequestContexts, ContextOK

LEMMA AskedFacts ==
  ASSUME NEW c \in Clients, NEW s, s = Asked(c)
  PROVE  /\ s \in Streams /\ s.phase = "asked" /\ s.next = c.shown /\ s.ctx.baseline = c.shown
         /\ s.watermark = 0 /\ s.gapCursor = 0 /\ s.barrier = 0 /\ ~s.snapshotSeen
         /\ ContextOK(s.ctx, c.shown)
<1>1. PICK x : x = Begin(c)
  OBVIOUS
<1>2. c.shown \in Nat
  BY FieldTypes
<1>3. s = [NoStream EXCEPT !.phase = "asked", !.next = c.shown, !.ctx = x]
  BY <1>1 DEF Asked
<1>4. x \in RequestContexts /\ x.baseline = c.shown /\ ContextOK(x, c.shown)
  BY <1>1, BeginFacts
<1>5. s = [phase |-> "asked", next |-> c.shown, watermark |-> 0, stalled |-> FALSE,
           snapshotSeen |-> FALSE, gapCursor |-> 0, barrier |-> 0, ctx |-> x]
  BY <1>3 DEF NoStream
<1> QED  BY <1>2, <1>4, <1>5 DEF Streams

\* connect: a new stream, asked for after what is shown.
LEMMA ConnectGood ==
  ASSUME LogInv, NEW c \in Clients, Kept(c, Len(log), gone), NEW d, d = Connect(c),
         Visible(c) \/ c.status # "ready"
  PROVE  Good(d) /\ Same(c, d) /\ ~d.stream.snapshotSeen
<1>0. Len(log) \in Nat
  BY HistoryNotEmpty
<1>1. PICK s : s = Stop(c, TRUE)
  OBVIOUS
<1>2. /\ s \in Clients /\ Same(c, s) /\ s.status = c.status /\ s.stream = NoStream
      /\ s.read = NoRead
  BY <1>1, StopFacts
<1>3. Visible(s) <=> Visible(c)
  BY <1>2 DEF Same, Visible
<1>4. Kept(s, Len(log), gone)
  BY <1>2, KeptSame
<1>5. CASE ~Visible(s)
  <2>1. d = s
    BY <1>1, <1>5 DEF Connect
  <2>2. Bare(s)
    BY <1>2, <1>3, <1>5 DEF Bare
  <2> QED  BY <1>0, <1>2, <1>4, <2>1, <2>2, BareIsSound, NothingKnown DEF Good
<1>6. CASE Visible(s)
  <2>1. PICK y : y = WithStatus(s, "connecting")
    OBVIOUS
  <2>2. d = WithStream(y, Asked(s))
    BY <1>1, <1>6, <2>1 DEF Connect, WithStatus, WithStream, Asked
  <2>3. y \in Clients /\ Same(s, y) /\ y.status = "connecting" /\ y.read = NoRead
    <3>1. "connecting" \in Statuses
      BY DEF Statuses
    <3> QED  BY <1>2, <2>1, <3>1, StatusSet
  <2>4. PICK t : t = Asked(s)
    OBVIOUS
  <2>5. /\ t \in Streams /\ t.phase = "asked" /\ t.next = s.shown /\ t.ctx.baseline = s.shown
        /\ t.watermark = 0 /\ t.gapCursor = 0 /\ t.barrier = 0 /\ ~t.snapshotSeen
        /\ ContextOK(t.ctx, s.shown)
    BY <1>2, <2>4, AskedFacts
  <2>6. /\ d \in Clients /\ Same(y, d) /\ d.status = "connecting" /\ d.stream = t
        /\ d.read = NoRead
    BY <2>2, <2>3, <2>4, <2>5, StreamSet
  <2>7. Same(s, d) /\ Same(c, d)
    BY <1>2, <2>3, <2>6, SameIsTransitive
  <2>8. Kept(d, Len(log), gone)
    BY <1>4, <2>7, KeptSame
  <2>9. d.shown = s.shown /\ d.shown \in Nat /\ d.shown <= Len(log)
    BY <2>6, <2>7, <2>8, FieldTypes DEF Same, Kept
  <2>10. StreamOK(d, Len(log))
    BY <1>0, <2>5, <2>6, <2>9 DEF StreamOK
  <2>11. ReadOK(d, Len(log))
    BY <1>0, <2>6, NothingKnown DEF ReadOK, ContextOK
  <2> QED  BY <2>5, <2>6, <2>7, <2>8, <2>10, <2>11 DEF Good, Sound
<1> QED  BY <1>5, <1>6

LEMMA RestartGood ==
  ASSUME LogInv, NEW c, Good(c), NEW d, d = Restart(c)
  PROVE  Good(d) /\ Same(c, d)
<1>0. Len(log) \in Nat
  BY HistoryNotEmpty
<1>1. PICK r : r = WithAttempt(c, FALSE)
  OBVIOUS
<1>2. d = IF Visible(c) THEN Connect(r) ELSE IF c.mounted THEN Finish(r, "suspended") ELSE r
  BY <1>1 DEF Restart, WithAttempt
<1>3. /\ r \in Clients /\ Same(c, r) /\ r.status = c.status /\ r.stream = c.stream
      /\ r.read = c.read
  BY <1>1, GoodTyped, AttemptSet
<1>4. Kept(r, Len(log), gone) /\ Good(r)
  BY <1>0, <1>3, KeptSame, StatusSound, GoodTyped DEF Good
<1>5. CASE Visible(c)
  <2>1. Visible(r)
    BY <1>3, <1>5 DEF Visible, Same
  <2> QED  BY <1>2, <1>3, <1>4, <1>5, <2>1, ConnectGood, SameIsTransitive
<1>6. CASE ~Visible(c) /\ c.mounted
  <2>1. "suspended" \in Statuses \ {"ready"}
    BY DEF Statuses
  <2> QED  BY <1>0, <1>2, <1>3, <1>4, <1>6, <2>1, FinishSound, SameIsTransitive DEF Good
<1>7. CASE ~Visible(c) /\ ~c.mounted
  BY <1>2, <1>3, <1>4, <1>7
<1> QED  BY <1>5, <1>6, <1>7

\* read: a read begun now is answered by nothing older than the history, or,
\* when the session is deleted, by no snapshot at all.
LEMMA StartReadGood ==
  ASSUME LogInv, NEW c, Good(c), NEW w \in SUBSET Waiters,
         "diagnosis" \in w => ~c.stream.snapshotSeen,
         NEW d, d = StartRead(c, w)
  PROVE  /\ Good(d) /\ Same(c, d) /\ d.status = c.status /\ d.stream = c.stream
         /\ d.cut = c.cut
<1>0. Len(log) \in Nat \ {0} /\ c \in Clients /\ Kept(c, Len(log), gone)
  BY HistoryNotEmpty, GoodTyped
<1>1. c.read \in Reads /\ c.stream \in Streams /\ c.shown \in Nat /\ c.shown <= Len(log)
  BY <1>0, FieldTypes DEF Kept
<1>2. CASE c.frozen
  BY <1>0, <1>2 DEF StartRead, Same
<1>3. CASE ~c.frozen /\ c.read.active
  <2>1. d = WithWaiters(c, c.read.waiters \cup w)
    BY <1>3 DEF StartRead, WithWaiters
  <2>2. c.read.waiters \cup w \in SUBSET Waiters
    BY <1>1, InnerTypes
  <2>3. /\ d \in Clients /\ Same(c, d) /\ d.status = c.status /\ d.stream = c.stream
        /\ d.cut = c.cut /\ d.read.waiters = c.read.waiters \cup w
        /\ d.read.active = c.read.active /\ d.read.since = c.read.since
        /\ d.read.ctx = c.read.ctx
    BY <1>0, <2>1, <2>2, WaitersSet
  <2>4. Kept(d, Len(log), gone)
    BY <1>0, <2>3, KeptSame
  <2>5. StreamOK(d, Len(log))
    BY <2>3 DEF Good, Sound, StreamOK, OpenOK, Same
  <2>6. ReadOK(d, Len(log))
    BY <1>3, <2>3 DEF Good, Sound, ReadOK, Same
  <2> QED  BY <2>3, <2>4, <2>5, <2>6 DEF Good, Sound
<1>4. CASE ~c.frozen /\ ~c.read.active
  <2>1. PICK x : x = Begin(c)
    OBVIOUS
  <2>2. PICK n \in Nat : n = IF gone THEN Len(log) + 1 ELSE Len(log)
    BY <1>0
  <2>3. PICK r : r = [active |-> TRUE, waiters |-> w, ctx |-> x, since |-> n]
    OBVIOUS
  <2>4. d = WithRead(c, r)
    BY <1>4, <2>1, <2>2, <2>3 DEF StartRead, WithRead
  <2>5. x \in RequestContexts /\ x.valid /\ x.baseline = c.shown /\ ContextOK(x, c.shown)
    BY <1>0, <2>1, BeginFacts
  <2>6. r \in Reads /\ r.active /\ r.waiters = w /\ r.ctx = x /\ r.since = n
    BY <2>3, <2>5 DEF Reads
  <2>7. /\ d \in Clients /\ Same(c, d) /\ d.status = c.status /\ d.stream = c.stream
        /\ d.cut = c.cut /\ d.read = r
    BY <1>0, <2>4, <2>6, ReadSet
  <2>8. Kept(d, Len(log), gone)
    BY <1>0, <2>7, KeptSame
  <2>9. StreamOK(d, Len(log))
    BY <2>7 DEF Good, Sound, StreamOK, OpenOK, Same
  <2>10. d.stream.barrier <= Len(log) /\ d.stream.barrier \in Nat
    BY <1>1, <2>7, <2>9, InnerTypes DEF StreamOK
  <2>11. /\ n >= 1 /\ n >= c.shown /\ n <= Len(log) + 1 /\ n >= Len(log)
         /\ gone => n > Len(log)
    BY <1>0, <1>1, <2>2
  <2>12. d.unavailable => gone
    BY <2>8 DEF Kept
  <2>13. d.shown = c.shown /\ ~d.frozen
    BY <1>4, <2>7 DEF Same
  <2>14. n >= d.stream.barrier
    BY <1>0, <2>10, <2>11
  <2>15. ReadOK(d, Len(log))
    BY <1>1, <2>5, <2>6, <2>7, <2>11, <2>12, <2>13, <2>14 DEF ReadOK
  <2> QED  BY <2>7, <2>8, <2>9, <2>15 DEF Good, Sound
<1> QED  BY <1>2, <1>3, <1>4

LEMMA StatusGood ==
  ASSUME LogInv, NEW c, Good(c), NEW st \in Statuses \ {"ready"}, NEW d, d = WithStatus(c, st)
  PROVE  Good(d) /\ Same(c, d) /\ d.status = st /\ d.stream = c.stream /\ d.read = c.read
<1>1. /\ d \in Clients /\ Same(c, d) /\ d.status = st /\ d.stream = c.stream
      /\ d.read = c.read
  BY GoodTyped, StatusSet
<1> QED  BY <1>1, HistoryNotEmpty, StatusSound DEF Good

LEMMA CalibrateGood ==
  ASSUME LogInv, NEW c, Good(c), NEW d, d = Calibrate(c)
  PROVE  Good(d) /\ Same(c, d)
<1>1. {} \in SUBSET Waiters /\ {"calibration"} \in SUBSET Waiters
  BY DEF Waiters
<1>2. PICK x : x = WithStatus(c, "calibrating")
  OBVIOUS
<1>3. "calibrating" \in Statuses \ {"ready"}
  BY DEF Statuses
<1>4. Good(x) /\ Same(c, x)
  BY <1>2, <1>3, StatusGood
<1>5. d = IF Terminal(c.status) THEN c
          ELSE IF c.stream.phase = "none" THEN StartRead(c, {})
          ELSE IF "calibration" \in c.read.waiters THEN c
          ELSE StartRead(x, {"calibration"})
  BY <1>2 DEF Calibrate, WithStatus
<1>6. CASE d = c
  BY <1>6 DEF Same
<1>7. CASE d = StartRead(c, {})
  BY <1>1, <1>7, StartReadGood
<1>8. CASE d = StartRead(x, {"calibration"})
  <2>1. "diagnosis" \notin {"calibration"}
    OBVIOUS
  <2> QED  BY <1>1, <1>4, <1>8, <2>1, StartReadGood, SameIsTransitive
<1> QED  BY <1>5, <1>6, <1>7, <1>8

\* A confirmed 404: what was shown is dropped and nothing asked before may
\* still arrive.
Forgets(c, d) ==
  /\ d.shown = NoSnapshot /\ d.busy = c.busy /\ d.pending = c.pending
  /\ d.mounted = c.mounted /\ d.hidden = c.hidden /\ d.frozen = c.frozen
  /\ \A id \in Commands : ~d.ctx[id].valid /\ d.ctx[id].baseline = c.ctx[id].baseline

LEMMA UnwantedFacts ==
  ASSUME NEW x \in RequestContexts, NEW y, y = Unwanted(x)
  PROVE  y \in RequestContexts /\ ~y.valid /\ ~y.advanced /\ y.baseline = x.baseline
BY DEF RequestContexts, Unwanted

LEMMA PassedFacts ==
  ASSUME NEW x \in RequestContexts, NEW y, y = Passed(x)
  PROVE  /\ y \in RequestContexts /\ y.valid = x.valid /\ y.baseline = x.baseline
         /\ y.advanced = x.valid
BY DEF RequestContexts, Passed

WithContexts(c, f) == [c EXCEPT !.ctx = f]
WithStreamContext(s, x) == [s EXCEPT !.ctx = x]
WithReadContext(r, x) == [r EXCEPT !.ctx = x]
WithShown(c, n) == [c EXCEPT !.shown = n]
WithUnavailable(c, b) == [c EXCEPT !.unavailable = b]

\* Everything but what is shown, the requests and whether the session is there.
SameAround(c, d) ==
  /\ d.frozen = c.frozen /\ d.busy = c.busy /\ d.pending = c.pending
  /\ d.mounted = c.mounted /\ d.hidden = c.hidden /\ d.status = c.status

LEMMA ContextsSet ==
  ASSUME NEW c \in Clients, NEW f \in [Commands -> RequestContexts], NEW d, d = WithContexts(c, f)
  PROVE  /\ d \in Clients /\ SameAround(c, d) /\ d.shown = c.shown
         /\ d.unavailable = c.unavailable /\ d.ctx = f /\ d.stream = c.stream /\ d.read = c.read
BY DEF Clients, SameAround, WithContexts

LEMMA ShownSet ==
  ASSUME NEW c \in Clients, NEW n \in Nat, NEW d, d = WithShown(c, n)
  PROVE  /\ d \in Clients /\ SameAround(c, d) /\ d.shown = n
         /\ d.unavailable = c.unavailable /\ d.ctx = c.ctx /\ d.stream = c.stream
         /\ d.read = c.read
BY DEF Clients, SameAround, WithShown

LEMMA UnavailableSet ==
  ASSUME NEW c \in Clients, NEW b \in BOOLEAN, NEW d, d = WithUnavailable(c, b)
  PROVE  /\ d \in Clients /\ SameAround(c, d) /\ d.shown = c.shown
         /\ d.unavailable = b /\ d.ctx = c.ctx /\ d.stream = c.stream /\ d.read = c.read
BY DEF Clients, SameAround, WithUnavailable

LEMMA StreamContextSet ==
  ASSUME NEW s \in Streams, NEW x \in RequestContexts, NEW t, t = WithStreamContext(s, x)
  PROVE  /\ t \in Streams /\ t.ctx = x /\ t.phase = s.phase /\ t.next = s.next
         /\ t.watermark = s.watermark /\ t.stalled = s.stalled /\ t.snapshotSeen = s.snapshotSeen
         /\ t.gapCursor = s.gapCursor /\ t.barrier = s.barrier
BY DEF Streams, WithStreamContext

LEMMA ReadContextSet ==
  ASSUME NEW r \in Reads, NEW x \in RequestContexts, NEW t, t = WithReadContext(r, x)
  PROVE  /\ t \in Reads /\ t.ctx = x /\ t.active = r.active /\ t.since = r.since
         /\ t.waiters = r.waiters
BY DEF Reads, WithReadContext

\* The three places where requests keep their context, replaced together.
LEMMA ContextsReplaced ==
  ASSUME NEW c \in Clients, NEW x \in RequestContexts, NEW y \in RequestContexts,
         NEW f \in [Commands -> RequestContexts], NEW d,
         d = WithContexts(WithRead(WithStream(c, WithStreamContext(c.stream, x)),
                                   WithReadContext(c.read, y)), f)
  PROVE  /\ d \in Clients /\ SameAround(c, d) /\ d.shown = c.shown
         /\ d.unavailable = c.unavailable /\ d.ctx = f
         /\ d.stream = WithStreamContext(c.stream, x) /\ d.read = WithReadContext(c.read, y)
<1>1. c.stream \in Streams /\ c.read \in Reads
  BY FieldTypes
<1>2. PICK s : s = WithStreamContext(c.stream, x)
  OBVIOUS
<1>3. PICK r : r = WithReadContext(c.read, y)
  OBVIOUS
<1>4. s \in Streams /\ r \in Reads
  BY <1>1, <1>2, <1>3, StreamContextSet, ReadContextSet
<1>5. PICK p : p = WithStream(c, s)
  OBVIOUS
<1>6. p \in Clients /\ Same(c, p) /\ p.stream = s /\ p.read = c.read /\ p.status = c.status
  BY <1>4, <1>5, StreamSet
<1>7. PICK q : q = WithRead(p, r)
  OBVIOUS
<1>8. q \in Clients /\ Same(p, q) /\ q.stream = s /\ q.read = r /\ q.status = c.status
  BY <1>4, <1>6, <1>7, ReadSet
<1>9. d = WithContexts(q, f)
  BY <1>2, <1>3, <1>5, <1>7
<1>10. /\ d \in Clients /\ SameAround(q, d) /\ d.shown = q.shown
       /\ d.unavailable = q.unavailable /\ d.ctx = f /\ d.stream = s /\ d.read = r
  BY <1>8, <1>9, ContextsSet
<1> QED  BY <1>2, <1>3, <1>6, <1>8, <1>10 DEF Same, SameAround

LEMMA InvalidateFacts ==
  ASSUME NEW c \in Clients, NEW d, d = Invalidate(c)
  PROVE  /\ d \in Clients /\ SameAround(c, d) /\ d.shown = c.shown
         /\ d.unavailable = c.unavailable
         /\ d.stream = WithStreamContext(c.stream, Unwanted(c.stream.ctx))
         /\ \A id \in Commands : ~d.ctx[id].valid /\ d.ctx[id].baseline = c.ctx[id].baseline
<1>1. PICK x : x = Unwanted(c.stream.ctx)
  OBVIOUS
<1>2. PICK y : y = Unwanted(c.read.ctx)
  OBVIOUS
<1>3. PICK f : f = [id \in Commands |-> Unwanted(c.ctx[id])]
  OBVIOUS
<1>4. c.stream \in Streams /\ c.read \in Reads /\ c.ctx \in [Commands -> RequestContexts]
  BY FieldTypes
<1>5. x \in RequestContexts /\ y \in RequestContexts
  BY <1>1, <1>2, <1>4, InnerTypes, UnwantedFacts
<1>6. \A id \in Commands : /\ f[id] \in RequestContexts /\ ~f[id].valid
                           /\ f[id].baseline = c.ctx[id].baseline
  BY <1>3, <1>4, UnwantedFacts
<1>7. f \in [Commands -> RequestContexts]
  BY <1>3, <1>6
<1>8. d = WithContexts(WithRead(WithStream(c, WithStreamContext(c.stream, x)),
                                WithReadContext(c.read, y)), f)
  BY <1>1, <1>2, <1>3, <1>4 DEF Invalidate, WithContexts, WithRead, WithStream, WithStreamContext,
     WithReadContext, Clients
<1>9. /\ d \in Clients /\ SameAround(c, d) /\ d.shown = c.shown
      /\ d.unavailable = c.unavailable /\ d.ctx = f
      /\ d.stream = WithStreamContext(c.stream, x)
  BY <1>5, <1>7, <1>8, ContextsReplaced
<1> QED  BY <1>1, <1>6, <1>9

LEMMA ShownFacts ==
  ASSUME NEW c \in Clients, NEW n \in Nat, NEW d, d = Shown(c, n)
  PROVE  /\ d \in Clients /\ SameAround(c, d) /\ d.shown = n /\ d.unavailable = c.unavailable
         /\ d.stream = WithStreamContext(c.stream, Passed(c.stream.ctx))
         /\ d.read = WithReadContext(c.read, Passed(c.read.ctx))
         /\ \A id \in Commands : d.ctx[id] = Passed(c.ctx[id])
<1>1. PICK x : x = Passed(c.stream.ctx)
  OBVIOUS
<1>2. PICK y : y = Passed(c.read.ctx)
  OBVIOUS
<1>3. PICK f : f = [id \in Commands |-> Passed(c.ctx[id])]
  OBVIOUS
<1>4. c.stream \in Streams /\ c.read \in Reads /\ c.ctx \in [Commands -> RequestContexts]
  BY FieldTypes
<1>5. x \in RequestContexts /\ y \in RequestContexts
  BY <1>1, <1>2, <1>4, InnerTypes, PassedFacts
<1>6. f \in [Commands -> RequestContexts]
  BY <1>3, <1>4, PassedFacts
<1>7. PICK p : p = WithContexts(WithRead(WithStream(c, WithStreamContext(c.stream, x)),
                                         WithReadContext(c.read, y)), f)
  OBVIOUS
<1>8. d = WithShown(p, n)
  BY <1>1, <1>2, <1>3, <1>4, <1>7 DEF Shown, WithContexts, WithRead, WithStream, WithStreamContext,
     WithReadContext, WithShown, Clients
<1>9. /\ p \in Clients /\ SameAround(c, p) /\ p.shown = c.shown
      /\ p.unavailable = c.unavailable /\ p.ctx = f
      /\ p.stream = WithStreamContext(c.stream, x) /\ p.read = WithReadContext(c.read, y)
  BY <1>5, <1>6, <1>7, ContextsReplaced
<1>10. /\ d \in Clients /\ SameAround(p, d) /\ d.shown = n
       /\ d.unavailable = p.unavailable /\ d.ctx = p.ctx /\ d.stream = p.stream
       /\ d.read = p.read
  BY <1>8, <1>9, ShownSet
<1> QED  BY <1>1, <1>2, <1>3, <1>9, <1>10 DEF SameAround

LEMMA ForgetsThenSame ==
  ASSUME NEW c, NEW d, NEW e, Forgets(c, d), Same(d, e)
  PROVE  Forgets(c, e)
BY DEF Forgets, Same

LEMMA SameThenForgets ==
  ASSUME NEW c, NEW d, NEW e, Same(c, d), Forgets(d, e)
  PROVE  Forgets(c, e)
BY DEF Forgets, Same

LEMMA NotedMissing ==
  ASSUME LogInv, NEW c \in Clients, gone, NEW d, d = Noted(c, "missing")
  PROVE  d \in Clients /\ Kept(d, Len(log), gone) /\ Forgets(c, d)
<1>1. PICK p : p = Invalidate(c)
  OBVIOUS
<1>2. PICK q : q = WithUnavailable(p, TRUE)
  OBVIOUS
<1>3. d = WithShown(q, NoSnapshot)
  BY <1>1, <1>2 DEF Noted, WithUnavailable, WithShown
<1>4. /\ p \in Clients /\ SameAround(c, p)
      /\ \A id \in Commands : ~p.ctx[id].valid /\ p.ctx[id].baseline = c.ctx[id].baseline
  BY <1>1, InvalidateFacts
<1>5. q \in Clients /\ SameAround(p, q) /\ q.ctx = p.ctx
  BY <1>2, <1>4, UnavailableSet
<1>6. NoSnapshot \in Nat /\ NoSnapshot <= Len(log)
  BY HistoryNotEmpty DEF NoSnapshot
<1>7. d \in Clients /\ SameAround(q, d) /\ d.shown = NoSnapshot /\ d.ctx = q.ctx
  BY <1>3, <1>5, <1>6, ShownSet
<1>8. \A id \in Commands : ~d.ctx[id].valid /\ d.ctx[id].baseline = c.ctx[id].baseline
  BY <1>4, <1>5, <1>7
<1>9. Kept(d, Len(log), gone)
  BY <1>6, <1>7, <1>8 DEF Kept, ContextOK
<1>10. Forgets(c, d)
  BY <1>4, <1>5, <1>7, <1>8 DEF SameAround, Forgets
<1> QED  BY <1>7, <1>9, <1>10

\* What an error does to what is shown.
ErrorEffect(c, d, error) == IF error = "missing" THEN Forgets(c, d) ELSE Same(c, d)

LEMMA NotedKept ==
  ASSUME LogInv, NEW c \in Clients, Kept(c, Len(log), gone), NEW error,
         error = "missing" => gone, NEW d, d = Noted(c, error)
  PROVE  d \in Clients /\ Kept(d, Len(log), gone) /\ ErrorEffect(c, d, error)
<1>1. CASE error = "missing"
  BY <1>1, NotedMissing DEF ErrorEffect
<1>2. CASE error # "missing"
  BY <1>2 DEF Noted, ErrorEffect, Same
<1> QED  BY <1>1, <1>2

LEMMA EndStatus ==
  ASSUME NEW c, NEW error
  PROVE  /\ EndOf(c, error) \in {"missing", "ended", "none"}
         /\ EndOf(c, error) # "none" => EndOf(c, error) \in Statuses \ {"ready"}
         /\ error = "missing" => EndOf(c, error) # "none"
BY DEF EndOf, Statuses

LEMMA FailGood ==
  ASSUME LogInv, NEW c \in Clients, Kept(c, Len(log), gone), NEW error,
         error = "missing" => gone, NEW d, d = Fail(c, error)
  PROVE  Good(d) /\ ErrorEffect(c, d, error) /\ d.stream = NoStream /\ d.status # "ready"
<1>0. Len(log) \in Nat
  BY HistoryNotEmpty
<1>1. PICK s : s = Stop(c, TRUE)
  OBVIOUS
<1>2. /\ s \in Clients /\ Same(c, s) /\ s.status = c.status /\ s.stream = NoStream
      /\ s.read = NoRead
  BY <1>1, StopFacts
<1>3. Kept(s, Len(log), gone)
  BY <1>2, KeptSame
<1>4. \A st \in Statuses \ {"ready"} : \A x : x = WithStatus(s, st) =>
         Good(x) /\ Same(c, x) /\ x.stream = NoStream /\ x.status = st
  <2> SUFFICES ASSUME NEW st \in Statuses \ {"ready"}, NEW x, x = WithStatus(s, st)
               PROVE  Good(x) /\ Same(c, x) /\ x.stream = NoStream /\ x.status = st
    OBVIOUS
  <2>1. x \in Clients /\ Same(s, x) /\ x.status = st /\ x.stream = NoStream /\ x.read = NoRead
    BY <1>2, StatusSet
  <2>2. Kept(x, Len(log), gone) /\ Bare(x)
    BY <1>3, <2>1, KeptSame DEF Bare
  <2> QED  BY <1>0, <1>2, <2>1, <2>2, BareIsSound, SameIsTransitive DEF Good
<1>5. /\ "reconnecting" \in Statuses \ {"ready"} /\ "blocked" \in Statuses \ {"ready"}
      /\ "calibrating" \in Statuses \ {"ready"} /\ {"diagnosis"} \in SUBSET Waiters
  BY DEF Statuses, Waiters
<1>6. PICK a : a = WithAttempt(s, TRUE)
  OBVIOUS
<1>7. PICK b : b = WithStatus(a, "calibrating")
  OBVIOUS
<1>8. d = IF EndOf(c, error) # "none" THEN Finish(Noted(c, error), EndOf(c, error))
          ELSE IF error # "protocol" THEN WithStatus(s, "reconnecting")
          ELSE IF c.protocolAttempted THEN WithStatus(s, "blocked")
          ELSE StartRead(b, {"diagnosis"})
  BY <1>1, <1>6, <1>7 DEF Fail, WithStatus, WithAttempt
<1>9. CASE EndOf(c, error) # "none"
  <2>1. PICK n : n = Noted(c, error)
    OBVIOUS
  <2>2. n \in Clients /\ Kept(n, Len(log), gone) /\ ErrorEffect(c, n, error)
    BY <2>1, NotedKept
  <2>3. Good(d) /\ Same(n, d) /\ Bare(d)
    BY <1>0, <1>8, <1>9, <2>1, <2>2, EndStatus, FinishSound DEF Good
  <2> QED  BY <2>2, <2>3, ForgetsThenSame, SameIsTransitive DEF ErrorEffect, Bare
<1>10. CASE EndOf(c, error) = "none" /\ d = WithStatus(s, "reconnecting")
  BY <1>4, <1>5, <1>10, EndStatus DEF ErrorEffect
<1>11. CASE EndOf(c, error) = "none" /\ d = WithStatus(s, "blocked")
  BY <1>4, <1>5, <1>11, EndStatus DEF ErrorEffect
<1>12. CASE EndOf(c, error) = "none" /\ d = StartRead(b, {"diagnosis"})
  <2>1. a \in Clients /\ Same(s, a) /\ a.stream = NoStream /\ a.read = NoRead
    BY <1>2, <1>6, AttemptSet
  <2>2. /\ b \in Clients /\ Same(a, b) /\ b.status = "calibrating" /\ b.stream = NoStream
        /\ b.read = NoRead
    BY <1>5, <1>7, <2>1, StatusSet
  <2>3. Same(c, b)
    BY <1>2, <2>1, <2>2, SameIsTransitive
  <2>4. Good(b)
    <3>1. Kept(b, Len(log), gone)
      BY <2>3, KeptSame
    <3>2. Bare(b)
      BY <2>2 DEF Bare
    <3> QED  BY <1>0, <2>2, <3>1, <3>2, BareIsSound DEF Good
  <2>5. Good(d) /\ Same(b, d) /\ d.status = b.status /\ d.stream = b.stream
    BY <1>5, <1>12, <2>2, <2>4, NothingKnown, StartReadGood
  <2>6. Same(c, d)
    BY <2>3, <2>5, SameIsTransitive
  <2> QED  BY <1>12, <2>2, <2>5, <2>6, EndStatus DEF ErrorEffect
<1> QED  BY <1>8, <1>9, <1>10, <1>11, <1>12

LEMMA UnthawedGood ==
  ASSUME LogInv, NEW c, Good(c), NEW d, d = Unthawed(c)
  PROVE  Good(d) /\ Same(c, d)
<1>1. "blocked" \in Statuses \ {"ready"} /\ Len(log) \in Nat
  BY HistoryNotEmpty DEF Statuses
<1>2. CASE Terminal(c.status)
  BY <1>2 DEF Unthawed, Same
<1>3. CASE ~Terminal(c.status)
  BY <1>1, <1>3, GoodTyped, FinishSound DEF Unthawed, Good
<1> QED  BY <1>2, <1>3

LEMMA UntoldGood ==
  ASSUME LogInv, NEW c, Good(c), NEW d, d = Untold(c)
  PROVE  Good(d) /\ Same(c, d) /\ d.cut = {}
<1>1. d = WithCut(c, {})
  BY DEF Untold, WithCut
<1>2. /\ d \in Clients /\ Same(c, d) /\ d.status = c.status /\ d.stream = c.stream
      /\ d.read = c.read /\ d.cut = {}
  BY <1>1, GoodTyped, CutSet
<1> QED  BY <1>2, HistoryNotEmpty, StatusSound DEF Good

\* What follows a handler leaves what is shown alone.
LEMMA SettledGood ==
  ASSUME LogInv, NEW c, Good(c), NEW d, d = Settled(c)
  PROVE  Good(d) /\ Same(c, d) /\ d.cut = {}
<1>1. CASE c.cut = {}
  BY <1>1 DEF Settled, Same
<1>2. CASE c.cut # {}
  <2>1. PICK u : u = Untold(c)
    OBVIOUS
  <2>2. PICK x : x = CalibrationTold(c)
    OBVIOUS
  <2>3. Good(u) /\ Same(c, u)
    BY <2>1, UntoldGood
  <2>4. Good(x) /\ Same(c, x)
    <3>1. CASE x = u
      BY <2>3, <3>1
    <3>2. CASE x = Fail(u, "cancelled")
      <4>1. Good(x) /\ ErrorEffect(u, x, "cancelled")
        BY <2>3, <3>2, GoodTyped, FailGood
      <4> QED  BY <2>3, <4>1, SameIsTransitive DEF ErrorEffect
    <3> QED  BY <2>1, <2>2, <3>1, <3>2 DEF CalibrationTold
  <2>5. PICK y : y = IF "thaw" \in c.cut \cup x.cut THEN Unthawed(x) ELSE x
    OBVIOUS
  <2>6. Good(y) /\ Same(x, y)
    BY <2>4, <2>5, UnthawedGood DEF Same
  <2>7. d = Untold(y)
    BY <1>2, <2>2, <2>5 DEF Settled, ThawTold
  <2> QED  BY <2>4, <2>6, <2>7, UntoldGood, SameIsTransitive
<1> QED  BY <1>1, <1>2

-----------------------------------------------------------------------------
(* What the receiver decides *)

Modes == {"incremental", "calibration"}

LEMMA VersionsOrdered ==
  ASSUME LogInv, NEW m \in 1..Len(log), NEW n \in 1..Len(log)
  PROVE  /\ Version(m) \in Nat /\ Version(n) \in Nat
         /\ m <= n => Version(m) <= Version(n)
         /\ Ended(m) => n <= m
<1>1. /\ log[m].version \in 1..m /\ log[n].version \in 1..n
      /\ log[m].ended => m = Len(log)
      /\ m <= n => log[m].version <= log[n].version
  BY DEF LogInv
<1>2. m \in Nat /\ n \in Nat /\ Len(log) \in Nat
  BY HistoryNotEmpty
<1>3. Version(m) = log[m].version /\ Version(n) = log[n].version
  BY DEF Version
<1> QED  BY <1>1, <1>2, <1>3 DEF Ended

\* A snapshot accepted is never older than the one it replaces; one taken for a
\* repetition is.
LEMMA DecisionMeans ==
  ASSUME LogInv, NEW E \in 0..Len(log), NEW n \in 1..Len(log), NEW mode \in Modes,
         NEW x, NEW v, v = Decision(E, n, mode, x)
  PROVE  /\ v \in {"accepted", "duplicate", "protocol", "gap", "superseded"}
         /\ v = "accepted" => n >= E
         /\ v \in {"duplicate", "superseded"} => n <= E
         /\ mode = "calibration" => v \in {"accepted", "superseded", "protocol"}
         /\ v = "gap" => mode = "incremental"
<1>1. E \in Nat /\ n \in Nat /\ Len(log) \in Nat
  BY HistoryNotEmpty
<1>2. CASE E = NoSnapshot
  BY <1>1, <1>2 DEF Decision, NoSnapshot
<1>3. CASE E # NoSnapshot /\ mode = "incremental"
  BY <1>1, <1>3 DEF Decision
<1>4. CASE E # NoSnapshot /\ mode = "calibration"
  BY <1>1, <1>4 DEF Decision
<1> QED  BY <1>2, <1>3, <1>4 DEF Modes

\* The next event is no gap, and nothing a history can bring is a fault.
LEMMA NextIsBelieved ==
  ASSUME LogInv, NEW E \in 0..Len(log), NEW n \in 1..Len(log), NEW x,
         E = NoSnapshot \/ n <= E + 1
  PROVE  Decision(E, n, "incremental", x) \in {"accepted", "duplicate"}
<1>1. E \in Nat /\ n \in Nat /\ Len(log) \in Nat
  BY HistoryNotEmpty
<1>2. CASE E = NoSnapshot
  BY <1>2 DEF Decision
<1>3. CASE E # NoSnapshot
  <2>1. E \in 1..Len(log)
    BY <1>1, <1>3 DEF NoSnapshot
  <2>2. /\ Version(E) \in Nat /\ Version(n) \in Nat
        /\ E <= n => Version(E) <= Version(n)
    BY <2>1, VersionsOrdered
  <2> QED  BY <1>1, <1>3, <2>2 DEF Decision
<1> QED  BY <1>2, <1>3

\* Nor is a snapshot formed after the question for it.
LEMMA AnswerIsBelieved ==
  ASSUME LogInv, NEW E \in 0..Len(log), NEW n \in 1..Len(log), NEW x \in RequestContexts,
         x.valid, ContextOK(x, E), n >= x.baseline
  PROVE  Decision(E, n, "calibration", x) \in {"accepted", "superseded"}
<1>1. E \in Nat /\ n \in Nat /\ Len(log) \in Nat /\ x.baseline \in Nat
  BY HistoryNotEmpty DEF RequestContexts
<1>2. CASE E = NoSnapshot
  BY <1>2 DEF Decision
<1>3. CASE E # NoSnapshot
  <2>1. E \in 1..Len(log)
    BY <1>1, <1>3 DEF NoSnapshot
  <2>2. /\ Version(E) \in Nat /\ Version(n) \in Nat
        /\ E <= n => Version(E) <= Version(n)
        /\ n <= E => Version(n) <= Version(E)
    BY <2>1, VersionsOrdered
  <2>3. CASE n >= E
    BY <1>1, <1>3, <2>2, <2>3 DEF Decision
  <2>4. CASE n < E
    <3>1. x.advanced
      BY <1>1, <2>4 DEF ContextOK
    <3>2. x.baseline = NoSnapshot \/ Version(n) >= Version(x.baseline)
      <4>1. CASE x.baseline # NoSnapshot
        <5>1. x.baseline \in 1..Len(log) /\ x.baseline <= n
          BY <1>1, <4>1 DEF NoSnapshot
        <5> QED  BY <5>1, VersionsOrdered
      <4> QED  BY <4>1
    <3> QED  BY <1>1, <1>3, <2>2, <2>4, <3>1, <3>2 DEF Decision
  <2> QED  BY <1>1, <2>3, <2>4
<1> QED  BY <1>2, <1>3

LEMMA VerdictMeans ==
  ASSUME LogInv, NEW c, Good(c), NEW n \in 1..Len(log), NEW mode \in Modes,
         NEW x, NEW v, v = Verdict(c, x, n, mode)
  PROVE  /\ v = "cancelled" <=> c.frozen \/ ~x.valid
         /\ v = "accepted" => n >= c.shown
         /\ v \in {"duplicate", "superseded"} => n <= c.shown
         /\ mode = "calibration" => v \notin {"duplicate", "gap"}
<1>1. c.shown \in 0..Len(log)
  BY GoodTyped, FieldTypes, HistoryNotEmpty DEF Kept
<1>2. PICK w : w = Decision(c.shown, n, mode, x)
  OBVIOUS
<1>3. /\ w \in {"accepted", "duplicate", "protocol", "gap", "superseded"}
      /\ w = "accepted" => n >= c.shown
      /\ w \in {"duplicate", "superseded"} => n <= c.shown
      /\ mode = "calibration" => w \in {"accepted", "superseded", "protocol"}
  BY <1>1, <1>2, DecisionMeans
<1> QED  BY <1>2, <1>3 DEF Verdict

-----------------------------------------------------------------------------
(* What the receiver does *)

\* A handler takes what is shown further, forgets it, or leaves it.
Passing(c, d) ==
  /\ \A id \in Commands : /\ d.ctx[id].baseline = c.ctx[id].baseline
                          /\ d.ctx[id].valid => c.ctx[id].valid
  /\ \/ d.shown = c.shown
     \/ d.shown = NoSnapshot /\ \A id \in Commands : ~d.ctx[id].valid
     \/ d.shown > c.shown /\ ~Ended(c.shown) /\ ~c.unavailable

Onward(c, d) == d.busy = c.busy /\ d.pending = c.pending /\ Passing(c, d)

LEMMA SameIsOnward ==
  ASSUME NEW c, NEW d, Same(c, d)
  PROVE  Onward(c, d)
BY DEF Same, Onward, Passing

LEMMA ForgettingIsOnward ==
  ASSUME NEW c, NEW d, Forgets(c, d)
  PROVE  Onward(c, d)
BY DEF Forgets, Onward, Passing

LEMMA OnwardThenSame ==
  ASSUME NEW c, NEW d, NEW e, Onward(c, d), Same(d, e)
  PROVE  Onward(c, e)
BY DEF Same, Onward, Passing

LEMMA SameThenOnward ==
  ASSUME NEW c, NEW d, NEW e, Same(c, d), Onward(d, e)
  PROVE  Onward(c, e)
BY DEF Same, Onward, Passing

\* The stream but for the context of its request.
SameStream(s, t) ==
  /\ t.phase = s.phase /\ t.next = s.next /\ t.watermark = s.watermark
  /\ t.snapshotSeen = s.snapshotSeen /\ t.gapCursor = s.gapCursor
  /\ t.barrier = s.barrier /\ t.ctx.baseline = s.ctx.baseline

LEMMA ShownGood ==
  ASSUME LogInv, NEW c, Good(c), ~c.unavailable, NEW n \in 1..Len(log), n >= c.shown,
         NEW d, d = Shown(c, n)
  PROVE  /\ Good(d) /\ Onward(c, d) /\ SameAround(c, d) /\ d.shown = n /\ ~d.unavailable
         /\ SameStream(c.stream, d.stream)
         /\ d.read.active = c.read.active /\ d.read.since = c.read.since
         /\ d.read.waiters = c.read.waiters
         /\ \A id \in Commands : d.ctx[id].valid = c.ctx[id].valid
<1>0. /\ Len(log) \in Nat \ {0} /\ c \in Clients /\ Kept(c, Len(log), gone)
      /\ StreamOK(c, Len(log)) /\ ReadOK(c, Len(log)) /\ n \in Nat /\ n <= Len(log)
  BY HistoryNotEmpty, GoodTyped DEF Good, Sound
<1>1. /\ c.stream \in Streams /\ c.read \in Reads /\ c.shown \in Nat
      /\ c.ctx \in [Commands -> RequestContexts] /\ c.frozen \in BOOLEAN
  BY <1>0, FieldTypes
<1>2. /\ d \in Clients /\ SameAround(c, d) /\ d.shown = n /\ d.unavailable = c.unavailable
      /\ d.stream = WithStreamContext(c.stream, Passed(c.stream.ctx))
      /\ d.read = WithReadContext(c.read, Passed(c.read.ctx))
      /\ \A id \in Commands : d.ctx[id] = Passed(c.ctx[id])
  <2>1. c \in Clients /\ n \in Nat
    BY <1>0
  <2>2. d = Shown(c, n)
    OBVIOUS
  <2>3. d \in Clients /\ SameAround(c, d)
    BY ONLY <2>1, <2>2, ShownFacts
  <2>4. d.shown = n
    BY ONLY <2>1, <2>2, ShownFacts
  <2>5. d.unavailable = c.unavailable
    BY ONLY <2>1, <2>2, ShownFacts
  <2>6. d.stream = WithStreamContext(c.stream, Passed(c.stream.ctx))
    BY ONLY <2>1, <2>2, ShownFacts
  <2>7. d.read = WithReadContext(c.read, Passed(c.read.ctx))
    BY ONLY <2>1, <2>2, ShownFacts
  <2>8. ASSUME NEW id \in Commands PROVE d.ctx[id] = Passed(c.ctx[id])
    BY ONLY <2>1, <2>2, ShownFacts, id \in Commands
  <2> QED  BY <2>3, <2>4, <2>5, <2>6, <2>7, <2>8
<1>3. \A x \in RequestContexts :
        /\ Passed(x).valid = x.valid /\ Passed(x).baseline = x.baseline
        /\ Passed(x) \in RequestContexts
        /\ ContextOK(x, c.shown) => ContextOK(Passed(x), n)
  <2> SUFFICES ASSUME NEW x \in RequestContexts
               PROVE  /\ Passed(x).valid = x.valid /\ Passed(x).baseline = x.baseline
                      /\ Passed(x) \in RequestContexts
                      /\ ContextOK(x, c.shown) => ContextOK(Passed(x), n)
    OBVIOUS
  <2>1. PICK y : y = Passed(x)
    OBVIOUS
  <2>2. /\ y \in RequestContexts /\ y.valid = x.valid /\ y.baseline = x.baseline
        /\ y.advanced = x.valid
    BY <2>1, PassedFacts
  <2>3. x.baseline \in Nat
    BY DEF RequestContexts
  <2>4. ContextOK(x, c.shown) => ContextOK(y, n)
    BY <1>0, <1>1, <2>2, <2>3 DEF ContextOK
  <2> QED  BY <2>1, <2>2, <2>4
<1>4. PICK y : y = Passed(c.stream.ctx)
  OBVIOUS
<1>5. PICK z : z = Passed(c.read.ctx)
  OBVIOUS
<1>6. /\ y \in RequestContexts /\ y.baseline = c.stream.ctx.baseline /\ ContextOK(y, n)
      /\ z \in RequestContexts /\ z.baseline = c.read.ctx.baseline /\ ContextOK(z, n)
      /\ z.valid = c.read.ctx.valid
  BY <1>0, <1>1, <1>3, <1>4, <1>5, InnerTypes DEF StreamOK, ReadOK
<1>7. /\ d.stream.ctx = y /\ SameStream(c.stream, d.stream)
  BY <1>1, <1>2, <1>4, <1>6, StreamContextSet DEF SameStream
<1>8. /\ d.read.ctx = z /\ d.read.active = c.read.active /\ d.read.since = c.read.since
      /\ d.read.waiters = c.read.waiters
  BY <1>1, <1>2, <1>5, <1>6, ReadContextSet
<1>9. \A id \in Commands : /\ d.ctx[id].valid = c.ctx[id].valid
                           /\ d.ctx[id].baseline = c.ctx[id].baseline
                           /\ ContextOK(d.ctx[id], n)
  BY <1>0, <1>1, <1>2, <1>3 DEF Kept
<1>10. Kept(d, Len(log), gone)
  BY <1>0, <1>2, <1>9 DEF Kept, SameAround
<1>11. d.stream \in Streams /\ d.read \in Reads
  BY <1>2, FieldTypes
<1>12. StreamOK(d, Len(log))
  <2>1. /\ c.stream.next \in Nat /\ c.stream.barrier \in Nat /\ c.stream.watermark \in Nat
        /\ c.stream.ctx.baseline \in Nat
    BY <1>1, InnerTypes
  <2>2. c.stream.phase = "open" => OpenOK(d.stream, n, Len(log))
    BY <1>0, <1>1, <1>7, <2>1 DEF StreamOK, OpenOK, SameStream
  <2> QED  BY <1>0, <1>1, <1>2, <1>6, <1>7, <2>1, <2>2 DEF StreamOK, SameStream, SameAround
<1>13. ReadOK(d, Len(log))
  BY <1>0, <1>2, <1>6, <1>7, <1>8 DEF ReadOK, SameStream, SameAround
<1>14. n > c.shown => ~Ended(c.shown)
  <2> SUFFICES ASSUME n > c.shown, Ended(c.shown)
               PROVE  FALSE
    OBVIOUS
  <2>1. c.shown \in 1..Len(log)
    BY <1>0, <1>1 DEF Ended, NoSnapshot, Kept
  <2> QED  BY <1>0, <1>1, <2>1, VersionsOrdered
<1>15. Onward(c, d)
  BY <1>0, <1>1, <1>2, <1>9, <1>14 DEF Onward, Passing, SameAround
<1> QED  BY <1>2, <1>7, <1>8, <1>9, <1>10, <1>12, <1>13, <1>15 DEF Good, Sound

LEMMA AcceptedGood ==
  ASSUME LogInv, NEW c, Good(c), ~c.unavailable, NEW n \in 1..Len(log), n >= c.shown,
         NEW d, d = Accepted(c, n)
  PROVE  /\ Good(d) /\ Onward(c, d) /\ d.shown = n /\ ~d.unavailable /\ d.frozen = c.frozen
         /\ d.read.active = c.read.active /\ d.read.since = c.read.since
         /\ d.stream = NoStream \/ SameStream(c.stream, d.stream)
         /\ d.status \in {c.status, "ended"}
         /\ \A id \in Commands : d.ctx[id].valid = c.ctx[id].valid
<1>0. "ended" \in Statuses \ {"ready"} /\ Len(log) \in Nat
  BY HistoryNotEmpty DEF Statuses
<1>1. PICK a : a = Shown(c, n)
  OBVIOUS
<1>2. /\ Good(a) /\ Onward(c, a) /\ SameAround(c, a) /\ a.shown = n /\ ~a.unavailable
      /\ SameStream(c.stream, a.stream)
      /\ a.read.active = c.read.active /\ a.read.since = c.read.since
      /\ \A id \in Commands : a.ctx[id].valid = c.ctx[id].valid
  BY <1>1, ShownGood
<1>3. CASE ~Ended(n)
  <2>1. d = a
    BY <1>1, <1>3 DEF Accepted
  <2> QED  BY <1>2, <2>1 DEF SameAround
<1>4. CASE Ended(n)
  <2>1. d = FinishPreservingRead(a, "ended")
    BY <1>1, <1>4 DEF Accepted
  <2>2. a \in Clients
    BY <1>2, GoodTyped
  <2>3. /\ d.read.active = a.read.active /\ d.read.since = a.read.since
    BY <1>0, <2>1, <2>2, PreservingFacts
  <2>4. Good(d) /\ Same(a, d) /\ d.status = "ended" /\ d.stream = NoStream
    <3>1. Sound(a, Len(log), gone)
      BY <1>2 DEF Good
    <3>2. Sound(d, Len(log), gone) /\ Same(a, d) /\ d.status = "ended" /\ d.stream = NoStream
      BY <1>0, <2>1, <2>2, <3>1, PreservingSound
    <3> QED  BY <3>2 DEF Good
  <2>5. Onward(c, d)
    BY <1>2, <2>4, OnwardThenSame
  <2> QED  BY <1>2, <2>3, <2>4, <2>5 DEF Same, SameAround
<1> QED  BY <1>3, <1>4

\* receive, of anything the receiver may be given.
LEMMA ReceivedGood ==
  ASSUME LogInv, NEW c, Good(c), NEW n \in 1..Len(log), NEW v,
         v = "accepted" => n >= c.shown /\ ~c.unavailable,
         NEW d, d = Received(c, v, n)
  PROVE  /\ Good(d) /\ Onward(c, d) /\ d.frozen = c.frozen
         /\ d.shown = IF v = "accepted" THEN n ELSE c.shown
         /\ d.read.active = c.read.active /\ d.read.since = c.read.since
         /\ d.stream = NoStream \/ SameStream(c.stream, d.stream)
         /\ d.status \in {c.status, "ended"}
         /\ \A id \in Commands : d.ctx[id].valid = c.ctx[id].valid
<1>1. CASE v = "accepted"
  <2>1. d = Accepted(c, n)
    BY <1>1 DEF Received
  <2> QED  BY <1>1, <2>1, AcceptedGood
<1>2. CASE v # "accepted"
  BY <1>2 DEF Received, Onward, Passing, SameStream
<1> QED  BY <1>1, <1>2

\* calibrate, then: ready when the read is no older than the snapshot.
LEMMA CalibratedGood ==
  ASSUME LogInv, NEW c, Good(c), c.stream.snapshotSeen => c.shown >= c.stream.barrier,
         NEW d, d = Calibrated(c)
  PROVE  Good(d) /\ Same(c, d) /\ (d.status = "ready" => c.stream.snapshotSeen)
<1>0. c \in Clients /\ Kept(c, Len(log), gone) /\ StreamOK(c, Len(log)) /\ ReadOK(c, Len(log))
  BY GoodTyped DEF Good, Sound
<1>1. CASE d = Fail(c, "network")
  <2>1. Good(d) /\ ErrorEffect(c, d, "network") /\ d.status # "ready"
    BY <1>0, <1>1, FailGood
  <2> QED  BY <2>1 DEF ErrorEffect
<1>2. CASE d = c
  BY <1>0, <1>2 DEF Same, StreamOK
<1>3. CASE c.stream.snapshotSeen /\ d = [c EXCEPT !.protocolAttempted = FALSE, !.status = "ready"]
  <2>1. PICK x : x = WithAttempt(c, FALSE)
    OBVIOUS
  <2>2. d = WithStatus(x, "ready")
    BY <1>3, <2>1 DEF WithAttempt, WithStatus
  <2>3. x \in Clients /\ Same(c, x) /\ x.stream = c.stream /\ x.read = c.read
    BY <1>0, <2>1, AttemptSet
  <2>4. "ready" \in Statuses
    BY DEF Statuses
  <2>5. d \in Clients /\ Same(x, d) /\ d.status = "ready" /\ d.stream = x.stream /\ d.read = x.read
    BY <2>2, <2>3, <2>4, StatusSet
  <2>6. Same(c, d)
    BY <2>3, <2>5, SameIsTransitive
  <2>7. Kept(d, Len(log), gone)
    BY <1>0, <2>6, KeptSame
  <2>8. StreamOK(d, Len(log))
    BY <1>0, <1>3, <2>3, <2>5, <2>6 DEF StreamOK, OpenOK, Same
  <2>9. ReadOK(d, Len(log))
    BY <1>0, <2>3, <2>5, <2>6 DEF ReadOK, Same
  <2> QED  BY <1>3, <2>5, <2>6, <2>7, <2>8, <2>9 DEF Good, Sound
<1> QED  BY <1>1, <1>2, <1>3 DEF Calibrated

LEMMA ReadDroppedGood ==
  ASSUME LogInv, NEW c, Good(c), NEW d, d = WithRead(c, NoRead)
  PROVE  /\ Good(d) /\ Same(c, d) /\ d.stream = c.stream /\ d.status = c.status
         /\ d.read = NoRead
<1>1. /\ d \in Clients /\ Same(c, d) /\ d.status = c.status /\ d.stream = c.stream
      /\ d.read = NoRead
  BY GoodTyped, NothingTyped, ReadSet
<1> QED  BY <1>1, HistoryNotEmpty, ReadDropped DEF Good

\* read, catch.
LEMMA ReadFailedGood ==
  ASSUME LogInv, NEW c, Good(c), NEW error, error = "missing" => gone,
         NEW d, d = ReadFailed(c, error)
  PROVE  Good(d) /\ ErrorEffect(c, d, error)
<1>0. c \in Clients /\ Kept(c, Len(log), gone) /\ Len(log) \in Nat
  BY GoodTyped, HistoryNotEmpty
<1>1. PICK over : over = WithRead(c, NoRead)
  OBVIOUS
<1>2. Good(over) /\ Same(c, over) /\ over \in Clients /\ Kept(over, Len(log), gone)
  BY <1>1, ReadDroppedGood, GoodTyped
<1>3. PICK heard : heard = IF "calibration" \in c.read.waiters THEN Fail(over, error)
                         ELSE IF "diagnosis" \in c.read.waiters THEN Finish(over, "blocked")
                         ELSE over
  OBVIOUS
<1>4. d = IF EndOf(c, error) # "none"
          THEN WithRead(FinishPreservingRead(Noted(c, error), EndOf(c, error)), NoRead)
          ELSE IF error = "protocol" /\ c.status = "ready" THEN Fail(c, error)
          ELSE IF "thaw" \in c.read.waiters THEN Unthawed(heard) ELSE heard
  BY <1>1, <1>3 DEF ReadFailed, WithRead
<1>5. CASE EndOf(c, error) # "none"
  <2>1. PICK x : x = Noted(c, error)
    OBVIOUS
  <2>2. x \in Clients /\ Kept(x, Len(log), gone) /\ ErrorEffect(c, x, error)
    BY <1>0, <2>1, NotedKept
  <2>3. PICK y : y = FinishPreservingRead(x, EndOf(c, error))
    OBVIOUS
  <2>4. EndOf(c, error) \in Statuses /\ EndOf(c, error) # "ready"
    BY <1>5, EndStatus
  <2>5. y \in Clients /\ Same(x, y) /\ y.status = EndOf(c, error) /\ y.stream = NoStream
    BY <2>2, <2>3, <2>4, PreservingFacts
  <2>6. d = WithRead(y, NoRead)
    BY <1>4, <1>5, <2>1, <2>3
  <2>7. d \in Clients /\ Same(y, d) /\ d.status = y.status /\ d.stream = NoStream /\ d.read = NoRead
    BY <2>5, <2>6, NothingTyped, ReadSet
  <2>8. Same(x, d)
    BY <2>5, <2>7, SameIsTransitive
  <2>9. Kept(d, Len(log), gone) /\ Bare(d)
    BY <2>2, <2>4, <2>5, <2>7, <2>8, KeptSame DEF Bare
  <2> QED  BY <1>0, <2>2, <2>7, <2>8, <2>9, BareIsSound, ForgetsThenSame, SameIsTransitive
           DEF ErrorEffect, Good
<1>6. CASE EndOf(c, error) = "none" /\ d = Fail(c, error)
  BY <1>0, <1>6, FailGood
<1>7. CASE EndOf(c, error) = "none" /\ d = IF "thaw" \in c.read.waiters THEN Unthawed(heard) ELSE heard
  <2>1. error # "missing"
    BY <1>7, EndStatus
  <2>2. Good(heard) /\ Same(c, heard)
    <3>1. CASE heard = Fail(over, error)
      <4>1. Good(heard) /\ ErrorEffect(over, heard, error)
        BY <1>2, <2>1, <3>1, FailGood
      <4> QED  BY <1>2, <2>1, <4>1, SameIsTransitive DEF ErrorEffect
    <3>2. CASE heard = Finish(over, "blocked")
      <4>1. "blocked" \in Statuses \ {"ready"}
        BY DEF Statuses
      <4>2. Sound(heard, Len(log), gone) /\ Same(over, heard)
        BY <1>0, <1>2, <3>2, <4>1, FinishSound
      <4> QED  BY <1>2, <4>2, SameIsTransitive DEF Good
    <3>3. CASE heard = over
      BY <1>2, <3>3
    <3> QED  BY <1>3, <3>1, <3>2, <3>3
  <2>3. Good(d) /\ Same(c, d)
    BY <1>7, <2>2, UnthawedGood, SameIsTransitive
  <2> QED  BY <2>1, <2>3 DEF ErrorEffect
<1> QED  BY <1>4, <1>5, <1>6, <1>7

LEMMA AvailableSame ==
  ASSUME LogInv, NEW c, Good(c), ~c.unavailable, NEW d, d = WithUnavailable(c, FALSE)
  PROVE  Good(d) /\ Same(c, d)
<1>1. c \in Clients /\ c.unavailable \in BOOLEAN
  BY GoodTyped, FieldTypes
<1>2. /\ d \in Clients /\ SameAround(c, d) /\ d.shown = c.shown
      /\ d.unavailable = FALSE /\ d.ctx = c.ctx /\ d.stream = c.stream /\ d.read = c.read
  BY <1>1, UnavailableSet
<1>3. Same(c, d) /\ d.status = c.status
  BY <1>1, <1>2 DEF Same, SameAround
<1> QED  BY <1>2, <1>3, HistoryNotEmpty, StatusSound DEF Good

\* A read under way is answered by a snapshot that is believed.
LEMMA ReadIsBelieved ==
  ASSUME LogInv, NEW c, Good(c), c.read.active, NEW n \in c.read.since..Len(log)
  PROVE  /\ ~c.unavailable /\ n \in 1..Len(log)
         /\ Verdict(c, c.read.ctx, n, "calibration") \in {"accepted", "superseded"}
<1>1. c \in Clients /\ Kept(c, Len(log), gone) /\ ReadOK(c, Len(log)) /\ Len(log) \in Nat
  BY GoodTyped, HistoryNotEmpty DEF Good, Sound
<1>2. /\ c.read \in Reads /\ c.read.ctx \in RequestContexts /\ c.read.ctx.baseline \in Nat
      /\ c.read.since \in Nat /\ c.shown \in Nat
  BY <1>1, FieldTypes, InnerTypes
<1>3. /\ c.read.since >= 1 /\ c.read.since >= c.read.ctx.baseline
      /\ c.read.ctx.valid /\ ~c.frozen /\ (c.unavailable => c.read.since > Len(log))
      /\ ContextOK(c.read.ctx, c.shown)
  BY <1>1 DEF ReadOK
<1>4. n \in 1..Len(log) /\ ~c.unavailable /\ n >= c.read.ctx.baseline
  BY <1>1, <1>2, <1>3
<1>5. c.shown \in 0..Len(log)
  BY <1>1, <1>2 DEF Kept
<1>6. Decision(c.shown, n, "calibration", c.read.ctx) \in {"accepted", "superseded"}
  BY <1>2, <1>3, <1>4, <1>5, AnswerIsBelieved
<1> QED  BY <1>3, <1>4, <1>6 DEF Verdict

\* read, then: whoever waited goes on from the answer.
LEMMA ReadAnsweredGood ==
  ASSUME LogInv, NEW c, Good(c), c.read.active, NEW n \in c.read.since..Len(log),
         NEW d, d = ReadAnswered(c, n)
  PROVE  Good(d) /\ Onward(c, d)
<1>1. PICK v : v = Verdict(c, c.read.ctx, n, "calibration")
  OBVIOUS
<1>2. ~c.unavailable /\ n \in 1..Len(log) /\ v \in {"accepted", "superseded"}
  BY <1>1, ReadIsBelieved
<1>3. /\ v = "accepted" => n >= c.shown
      /\ v = "superseded" => n <= c.shown
  BY <1>1, <1>2, VerdictMeans DEF Modes
<1>4. PICK x : x = WithUnavailable(c, FALSE)
  OBVIOUS
<1>5. Good(x) /\ Same(c, x)
  BY <1>2, <1>4, AvailableSame
<1>6. x.read = c.read
  BY <1>4, GoodTyped, UnavailableSet
<1>7. PICK a : a = Received(x, v, n)
  OBVIOUS
<1>8. v = "accepted" => n >= x.shown /\ ~x.unavailable
  BY <1>2, <1>3, <1>5 DEF Same
<1>9. /\ Good(a) /\ Onward(x, a)
      /\ a.shown = IF v = "accepted" THEN n ELSE x.shown
      /\ a.read.active = x.read.active /\ a.read.since = x.read.since
  BY <1>2, <1>5, <1>7, <1>8, ReceivedGood
<1>10. a.shown >= c.read.since /\ a.read.active /\ a.read.since = c.read.since
  <2>1. n \in Nat /\ c.read.since \in Nat /\ n >= c.read.since /\ c.shown \in Nat
    BY <1>2, HistoryNotEmpty, GoodTyped, FieldTypes, InnerTypes
  <2>2. x.shown = c.shown
    BY <1>5 DEF Same
  <2> QED  BY <1>2, <1>3, <1>6, <1>9, <2>1, <2>2
<1>11. PICK b : b = WithRead(a, NoRead)
  OBVIOUS
<1>12. Good(b) /\ Same(a, b) /\ b.stream = a.stream /\ b.status = a.status
  BY <1>9, <1>11, ReadDroppedGood
<1>13. b.stream.snapshotSeen => b.shown >= b.stream.barrier
  <2>1. a.stream.snapshotSeen => a.read.since >= a.stream.barrier
    BY <1>9, <1>10 DEF Good, Sound, ReadOK
  <2>2. a.stream.barrier \in Nat /\ a.read.since \in Nat /\ a.shown \in Nat
    BY <1>9, GoodTyped, FieldTypes, InnerTypes
  <2> QED  BY <1>10, <1>12, <2>1, <2>2 DEF Same
<1>14. PICK y : y = IF "calibration" \in a.read.waiters THEN Calibrated(b) ELSE b
  OBVIOUS
<1>15. Good(y) /\ Same(b, y) /\ (y.status = "ready" => b.stream.snapshotSeen)
  <2>1. CASE y = Calibrated(b)
    BY <1>12, <1>13, <2>1, CalibratedGood
  <2>2. CASE y = b
    BY <1>12, <2>2 DEF Same, Good, Sound, StreamOK
  <2> QED  BY <1>14, <2>1, <2>2
<1>16. PICK e : e = IF "diagnosis" \in a.read.waiters /\ ~Terminal(y.status)
                    THEN Connect(y) ELSE y
  OBVIOUS
<1>17. Good(e) /\ Same(y, e)
  <2>1. CASE "diagnosis" \in a.read.waiters /\ e = Connect(y)
    <3>1. ~a.stream.snapshotSeen
      BY <1>9, <2>1 DEF Good, Sound, ReadOK
    <3>2. y.status # "ready"
      BY <1>12, <1>15, <3>1
    <3> QED  BY <1>15, <2>1, <3>2, GoodTyped, ConnectGood
  <2>2. CASE e = y
    BY <1>15, <2>2 DEF Same
  <2> QED  BY <1>16, <2>1, <2>2
<1>18. PICK f : f = IF /\ "reopen" \in a.read.waiters /\ e.shown # NoSnapshot
                       /\ ~Ended(e.shown) /\ e.mounted
                    THEN Restart(e) ELSE e
  OBVIOUS
<1>19. Good(f) /\ Same(e, f)
  BY <1>17, <1>18, RestartGood DEF Same
<1>20. d = IF "thaw" \in a.read.waiters /\ f.mounted /\ ~Terminal(f.status)
           THEN Restart(f) ELSE f
  <2>1. ~(v \in {"protocol", "cancelled"})
    BY <1>2
  <2>2. x = [c EXCEPT !.unavailable = FALSE] /\ b = [a EXCEPT !.read = NoRead]
    BY <1>4, <1>11 DEF WithUnavailable, WithRead
  <2> QED  BY <1>1, <1>7, <1>14, <1>16, <1>18, <2>1, <2>2 DEF ReadAnswered
<1>21. Good(d) /\ Same(f, d)
  BY <1>19, <1>20, RestartGood DEF Same
<1>22. Same(a, d)
  BY <1>12, <1>15, <1>17, <1>19, <1>21, SameIsTransitive
<1> QED  BY <1>5, <1>9, <1>21, <1>22, OnwardThenSame, SameThenOnward

-----------------------------------------------------------------------------
(* What the stream brings *)

\* A stream changed field by field.
LEMMA StreamEdited ==
  ASSUME NEW s \in Streams, NEW n \in Nat
  PROVE  /\ \A t : t = [s EXCEPT !.next = n] =>
              /\ t \in Streams /\ t.next = n /\ t.phase = s.phase /\ t.watermark = s.watermark
              /\ t.snapshotSeen = s.snapshotSeen /\ t.gapCursor = s.gapCursor
              /\ t.barrier = s.barrier /\ t.ctx = s.ctx
         /\ \A t : t = [s EXCEPT !.barrier = n] =>
              /\ t \in Streams /\ t.next = s.next /\ t.phase = s.phase
              /\ t.watermark = s.watermark /\ t.snapshotSeen = s.snapshotSeen
              /\ t.gapCursor = s.gapCursor /\ t.barrier = n /\ t.ctx = s.ctx
         /\ \A t : t = [s EXCEPT !.snapshotSeen = TRUE] =>
              /\ t \in Streams /\ t.next = s.next /\ t.phase = s.phase
              /\ t.watermark = s.watermark /\ t.snapshotSeen
              /\ t.gapCursor = s.gapCursor /\ t.barrier = s.barrier /\ t.ctx = s.ctx
         /\ \A t : t = [s EXCEPT !.stalled = TRUE] =>
              /\ t \in Streams /\ t.next = s.next /\ t.phase = s.phase
              /\ t.watermark = s.watermark /\ t.snapshotSeen = s.snapshotSeen
              /\ t.gapCursor = s.gapCursor /\ t.barrier = s.barrier /\ t.ctx = s.ctx
         /\ \A t : t = [s EXCEPT !.watermark = n] =>
              /\ t \in Streams /\ t.next = s.next /\ t.phase = s.phase
              /\ t.watermark = n /\ t.snapshotSeen = s.snapshotSeen
              /\ t.gapCursor = s.gapCursor /\ t.barrier = s.barrier /\ t.ctx = s.ctx
         /\ \A t : t = [s EXCEPT !.phase = "open"] =>
              /\ t \in Streams /\ t.next = s.next /\ t.phase = "open"
              /\ t.watermark = s.watermark /\ t.snapshotSeen = s.snapshotSeen
              /\ t.gapCursor = s.gapCursor /\ t.barrier = s.barrier /\ t.ctx = s.ctx
BY DEF Streams

\* onOpen
LEMMA OpenedGood ==
  ASSUME LogInv, NEW c, Good(c), c.stream.phase = "asked", ~gone,
         NEW d, d = Opened(c, Len(log))
  PROVE  Good(d) /\ Same(c, d)
<1>0. /\ c \in Clients /\ Kept(c, Len(log), gone) /\ StreamOK(c, Len(log))
      /\ ReadOK(c, Len(log)) /\ Len(log) \in Nat \ {0}
  BY GoodTyped, HistoryNotEmpty DEF Good, Sound
<1>1. /\ c.stream \in Streams /\ c.stream.next \in Nat /\ c.shown \in Nat
      /\ c.stream.ctx.baseline \in Nat
  BY <1>0, FieldTypes, InnerTypes
<1>2. PICK n \in Nat : n = IF c.stream.next = NoSnapshot THEN Len(log) + 1 ELSE c.stream.next + 1
  BY <1>0, <1>1
<1>3. PICK s : s = [c.stream EXCEPT !.phase = "open"]
  OBVIOUS
<1>4. PICK t : t = [s EXCEPT !.watermark = Len(log)]
  OBVIOUS
<1>5. PICK u : u = [t EXCEPT !.next = n]
  OBVIOUS
<1>6. s \in Streams
  BY <1>1, <1>3, StreamEdited
<1>7. t \in Streams
  BY <1>0, <1>4, <1>6, StreamEdited
<1>8. u \in Streams
  BY <1>5, <1>7, StreamEdited
<1>9. /\ s.next = c.stream.next /\ s.phase = "open" /\ s.snapshotSeen = c.stream.snapshotSeen
      /\ s.gapCursor = c.stream.gapCursor /\ s.barrier = c.stream.barrier
      /\ s.ctx = c.stream.ctx
  BY <1>1, <1>3, StreamEdited
<1>10. /\ t.phase = "open" /\ t.snapshotSeen = c.stream.snapshotSeen
       /\ t.gapCursor = c.stream.gapCursor /\ t.barrier = c.stream.barrier
       /\ t.ctx = c.stream.ctx /\ t.watermark = Len(log)
  BY <1>0, <1>4, <1>6, <1>9, StreamEdited
<1>11. /\ u.next = n /\ u.phase = "open" /\ u.snapshotSeen = c.stream.snapshotSeen
       /\ u.gapCursor = c.stream.gapCursor /\ u.barrier = c.stream.barrier
       /\ u.ctx = c.stream.ctx /\ u.watermark = Len(log)
  BY <1>5, <1>7, <1>10, StreamEdited
<1>12. PICK x : x = WithStatus(c, "calibrating")
  OBVIOUS
<1>13. "calibrating" \in Statuses \ {"ready"}
  BY DEF Statuses
<1>14. x \in Clients /\ Same(c, x) /\ x.stream = c.stream /\ x.read = c.read
       /\ x.status = "calibrating"
  BY <1>0, <1>12, <1>13, StatusSet
<1>15. d = WithStream(x, u)
  <2>1. d = [c EXCEPT !.status = "calibrating", !.stream.phase = "open",
                      !.stream.watermark = Len(log), !.stream.next = n]
    BY <1>2 DEF Opened
  <2> QED  BY <1>0, <1>3, <1>4, <1>5, <1>12, <2>1 DEF WithStatus, WithStream, Clients
<1>16. d \in Clients /\ Same(x, d) /\ d.stream = u /\ d.read = c.read
       /\ d.status = "calibrating"
  BY <1>8, <1>14, <1>15, StreamSet
<1>17. Same(c, d)
  BY <1>14, <1>16, SameIsTransitive
<1>18. Kept(d, Len(log), gone)
  BY <1>0, <1>17, KeptSame
<1>19. d.shown = c.shown /\ d.frozen = c.frozen /\ d.unavailable = c.unavailable
  BY <1>17 DEF Same
<1>20. /\ c.stream.next <= c.shown /\ c.stream.ctx.baseline <= c.shown /\ c.shown <= Len(log)
       /\ ~c.unavailable /\ ~c.stream.snapshotSeen
  BY <1>0 DEF StreamOK, Kept
<1>21. OpenOK(u, c.shown, Len(log)) /\ n <= Len(log) + 1
  BY <1>0, <1>1, <1>2, <1>11, <1>20 DEF OpenOK, NoSnapshot
<1>22. StreamOK(d, Len(log))
  BY <1>0, <1>11, <1>16, <1>19, <1>20, <1>21 DEF StreamOK
<1>23. ReadOK(d, Len(log))
  BY <1>0, <1>11, <1>16, <1>19 DEF ReadOK
<1> QED  BY <1>16, <1>17, <1>18, <1>22, <1>23 DEF Good, Sound

\* A stream of which only the position and the liveness change.
LEMMA StreamMoved ==
  ASSUME LogInv, NEW c, Good(c), NEW t \in Streams,
         t.phase = c.stream.phase, t.watermark = c.stream.watermark,
         t.snapshotSeen = c.stream.snapshotSeen, t.gapCursor = c.stream.gapCursor,
         t.barrier = c.stream.barrier, t.ctx = c.stream.ctx, t.next <= Len(log) + 1,
         c.stream.phase = "open" => OpenOK(t, c.shown, Len(log)),
         c.stream.phase # "asked", NEW d, d = WithStream(c, t)
  PROVE  Good(d) /\ Same(c, d)
<1>0. /\ c \in Clients /\ Kept(c, Len(log), gone) /\ StreamOK(c, Len(log))
      /\ ReadOK(c, Len(log)) /\ Len(log) \in Nat \ {0}
  BY GoodTyped, HistoryNotEmpty DEF Good, Sound
<1>1. /\ d \in Clients /\ Same(c, d) /\ d.status = c.status /\ d.stream = t
      /\ d.read = c.read
  BY <1>0, StreamSet
<1>2. Kept(d, Len(log), gone)
  BY <1>0, <1>1, KeptSame
<1>3. StreamOK(d, Len(log))
  BY <1>0, <1>1 DEF StreamOK, Same
<1>4. ReadOK(d, Len(log))
  BY <1>0, <1>1 DEF ReadOK, Same
<1> QED  BY <1>1, <1>2, <1>3, <1>4 DEF Good, Sound

\* onEvent: the next event leaves the stream at the one after it.
LEMMA EventHeardGood ==
  ASSUME LogInv, NEW c, Good(c), c.stream.phase = "open", NEW n \in 1..Len(log),
         n = c.stream.next, NEW v, v \in {"accepted", "duplicate"},
         v = "accepted" => n >= c.shown, v = "duplicate" => n <= c.shown,
         NEW d, d = EventHeard(c, v, n)
  PROVE  Good(d) /\ Onward(c, d)
<1>0. /\ c \in Clients /\ Kept(c, Len(log), gone) /\ StreamOK(c, Len(log))
      /\ Len(log) \in Nat \ {0} /\ n \in Nat /\ n <= Len(log)
  BY GoodTyped, HistoryNotEmpty DEF Good, Sound
<1>1. PICK a : a = Received(c, v, n)
  OBVIOUS
<1>2. ~c.unavailable /\ OpenOK(c.stream, c.shown, Len(log))
  BY <1>0 DEF StreamOK
<1>3. /\ Good(a) /\ Onward(c, a)
      /\ a.shown = IF v = "accepted" THEN n ELSE c.shown
      /\ a.stream = NoStream \/ SameStream(c.stream, a.stream)
  BY <1>1, <1>2, ReceivedGood
<1>4. CASE a.stream.phase = "none"
  <2>1. d = a
    BY <1>1, <1>4 DEF EventHeard
  <2> QED  BY <1>3, <2>1
<1>5. CASE a.stream.phase # "none"
  <2>1. SameStream(c.stream, a.stream)
    BY <1>3, <1>5, NothingKnown
  <2>2. PICK t : t = [a.stream EXCEPT !.next = n + 1]
    OBVIOUS
  <2>3. a \in Clients /\ a.stream \in Streams /\ n + 1 \in Nat /\ a.shown \in Nat
    BY <1>0, <1>3, GoodTyped, FieldTypes
  <2>4. /\ t \in Streams /\ t.next = n + 1 /\ t.phase = a.stream.phase
        /\ t.watermark = a.stream.watermark /\ t.snapshotSeen = a.stream.snapshotSeen
        /\ t.gapCursor = a.stream.gapCursor /\ t.barrier = a.stream.barrier
        /\ t.ctx = a.stream.ctx
    BY <2>2, <2>3, StreamEdited
  <2>5. d = WithStream(a, t)
    <3>1. v # "gap"
      OBVIOUS
    <3>2. d = [a EXCEPT !.stream.next = n + 1]
      BY <1>1, <1>5, <3>1 DEF EventHeard
    <3> QED  BY <2>2, <3>2 DEF WithStream
  <2>6. a.shown >= n
    BY <1>0, <1>3
  <2>7. OpenOK(t, a.shown, Len(log))
    <3>1. /\ t.watermark = c.stream.watermark /\ t.ctx.baseline = c.stream.ctx.baseline
      BY <2>1, <2>4 DEF SameStream
    <3> QED  BY <1>0, <1>2, <2>3, <2>4, <2>6, <3>1 DEF OpenOK
  <2>8. a.stream.phase = "open" /\ t.next <= Len(log) + 1
    BY <1>0, <2>1, <2>4 DEF SameStream
  <2>9. Good(d) /\ Same(a, d)
    BY <1>3, <2>4, <2>5, <2>7, <2>8, StreamMoved
  <2> QED  BY <1>3, <2>9, OnwardThenSame
<1> QED  BY <1>4, <1>5

\* onEvent, the snapshot: whatever was read before it is read again.
LEMMA SnapshotHeardGood ==
  ASSUME LogInv, NEW c, Good(c), c.stream.phase = "open", ~c.stream.snapshotSeen,
         c.stream.next > c.stream.watermark, NEW n \in 1..Len(log), n = c.stream.watermark,
         NEW v, v \in {"accepted", "superseded"},
         v = "accepted" => n >= c.shown, v = "superseded" => n <= c.shown,
         NEW d, d = SnapshotHeard(c, v, n)
  PROVE  Good(d) /\ Onward(c, d)
<1>0. /\ c \in Clients /\ Kept(c, Len(log), gone) /\ StreamOK(c, Len(log))
      /\ Len(log) \in Nat \ {0} /\ n \in Nat /\ n <= Len(log)
  BY GoodTyped, HistoryNotEmpty DEF Good, Sound
<1>1. PICK a : a = Received(c, v, n)
  OBVIOUS
<1>2. ~c.unavailable /\ OpenOK(c.stream, c.shown, Len(log)) /\ c.status # "ready"
  BY <1>0 DEF StreamOK
<1>3. /\ Good(a) /\ Onward(c, a)
      /\ a.shown = IF v = "accepted" THEN n ELSE c.shown
      /\ a.stream = NoStream \/ SameStream(c.stream, a.stream)
      /\ a.status \in {c.status, "ended"}
  BY <1>1, <1>2, ReceivedGood
<1>4. CASE a.stream.phase = "none"
  <2>1. d = a
    BY <1>1, <1>4 DEF SnapshotHeard
  <2> QED  BY <1>3, <2>1
<1>5. CASE a.stream.phase # "none"
  <2>1. SameStream(c.stream, a.stream)
    BY <1>3, <1>5, NothingKnown
  <2>2. PICK s : s = [a.stream EXCEPT !.snapshotSeen = TRUE]
    OBVIOUS
  <2>3. PICK t : t = [s EXCEPT !.barrier = Len(log)]
    OBVIOUS
  <2>4. a \in Clients /\ a.stream \in Streams /\ a.shown \in Nat /\ StreamOK(a, Len(log))
        /\ Kept(a, Len(log), gone)
    BY <1>3, GoodTyped, FieldTypes DEF Good, Sound
  <2>5. /\ s \in Streams /\ s.next = a.stream.next /\ s.phase = a.stream.phase
        /\ s.watermark = a.stream.watermark /\ s.snapshotSeen
        /\ s.gapCursor = a.stream.gapCursor /\ s.ctx = a.stream.ctx
    BY <2>2, <2>4, StreamEdited
  <2>6. /\ t \in Streams /\ t.next = a.stream.next /\ t.phase = a.stream.phase
        /\ t.watermark = a.stream.watermark /\ t.snapshotSeen
        /\ t.gapCursor = a.stream.gapCursor /\ t.ctx = a.stream.ctx
        /\ t.barrier = Len(log)
    BY <1>0, <2>3, <2>5, StreamEdited
  <2>7. PICK x : x = WithStream(a, t)
    OBVIOUS
  <2>8. PICK b : b = CancelRead(x)
    OBVIOUS
  <2>9. d = Calibrate(b)
    <3>1. x = [a EXCEPT !.stream.snapshotSeen = TRUE, !.stream.barrier = Len(log)]
      BY <2>2, <2>3, <2>4, <2>7 DEF WithStream, Clients
    <3> QED  BY <1>1, <1>5, <2>8, <3>1 DEF SnapshotHeard
  <2>10. x \in Clients /\ Same(a, x) /\ x.status = a.status /\ x.stream = t
    BY <2>4, <2>6, <2>7, StreamSet
  <2>11. b \in Clients /\ Same(x, b) /\ b.status = a.status /\ b.stream = t /\ b.read = NoRead
    BY <2>8, <2>10, CancelReadFacts
  <2>12. Same(a, b)
    BY <2>10, <2>11, SameIsTransitive
  <2>13. Kept(b, Len(log), gone)
    BY <2>4, <2>12, KeptSame
  <2>14. b.shown = a.shown /\ a.shown >= n /\ b.unavailable = a.unavailable
    BY <1>0, <1>3, <2>12 DEF Same
  <2>15. a.stream.phase = "open" /\ a.stream.watermark = n
    BY <2>1 DEF SameStream
  <2>16. OpenOK(t, a.shown, Len(log))
    <3>1. OpenOK(a.stream, a.shown, Len(log))
      BY <2>4, <2>15 DEF StreamOK
    <3>2. a.stream.next \in Nat /\ a.shown >= n
      BY <2>4, <2>14, FieldTypes, InnerTypes
    <3>3. /\ a.stream.next >= 1 /\ n >= 1 /\ a.stream.ctx.baseline <= n
          /\ a.stream.next <= a.shown + 1 \/ a.stream.next = n + 1
      BY <2>15, <3>1 DEF OpenOK
    <3>4. a.stream.next <= a.shown + 1
      BY <1>0, <2>4, <3>2, <3>3
    <3> QED  BY <2>6, <2>15, <3>3, <3>4 DEF OpenOK
  <2>17. b.status # "ready"
    BY <1>2, <1>3, <2>11
  <2>18. StreamOK(b, Len(log))
    BY <1>0, <2>4, <2>6, <2>11, <2>14, <2>15, <2>16, <2>17 DEF StreamOK
  <2>19. ReadOK(b, Len(log))
    BY <1>0, <2>11, NothingKnown DEF ReadOK, ContextOK
  <2>20. Good(b)
    BY <2>11, <2>13, <2>18, <2>19 DEF Good, Sound
  <2>21. Good(d) /\ Same(b, d)
    BY <2>9, <2>20, CalibrateGood
  <2> QED  BY <1>3, <2>12, <2>21, OnwardThenSame, SameIsTransitive
<1> QED  BY <1>4, <1>5

-----------------------------------------------------------------------------
(* Commands *)

WithPending(c, p) == [c EXCEPT !.pending = p]
WithBusy(c, id) == [c EXCEPT !.busy = id]

\* What a sound client depends on.
SameView(c, d) ==
  /\ d.shown = c.shown /\ d.frozen = c.frozen /\ d.unavailable = c.unavailable
  /\ d.ctx = c.ctx /\ d.stream = c.stream /\ d.read = c.read /\ d.status = c.status

LEMMA ViewGood ==
  ASSUME NEW c, Good(c), NEW d \in Clients, SameView(c, d)
  PROVE  Good(d) /\ Passing(c, d)
BY DEF Good, Sound, Kept, StreamOK, OpenOK, ReadOK, SameView, Passing

LEMMA PendingSet ==
  ASSUME NEW c \in Clients, NEW p \in SUBSET Commands, NEW d, d = WithPending(c, p)
  PROVE  d \in Clients /\ SameView(c, d) /\ d.pending = p /\ d.busy = c.busy
BY DEF Clients, SameView, WithPending

LEMMA BusySet ==
  ASSUME NEW c \in Clients, NEW id \in Commands \cup {NoCommand}, NEW d, d = WithBusy(c, id)
  PROVE  d \in Clients /\ SameView(c, d) /\ d.pending = c.pending /\ d.busy = id
BY DEF Clients, SameView, WithBusy

LEMMA PassingThenView ==
  ASSUME NEW c, NEW d, NEW e, Passing(c, d), SameView(d, e)
  PROVE  Passing(c, e)
BY DEF Passing, SameView

LEMMA ViewThenPassing ==
  ASSUME NEW c, NEW d, NEW e, SameView(c, d), Passing(d, e)
  PROVE  Passing(c, e)
BY DEF Passing, SameView

\* send, catch: the command is kept, or the session is over.
LEMMA UnansweredGood ==
  ASSUME LogInv, NEW c, Good(c), NEW id \in Commands, NEW d, d = Unanswered(c, id)
  PROVE  /\ Good(d) /\ Passing(c, d) /\ d.busy = c.busy
         /\ c.pending \subseteq d.pending /\ (id \in d.pending \/ Ended(d.shown))
<1>0. c \in Clients /\ Kept(c, Len(log), gone) /\ Len(log) \in Nat
  BY GoodTyped, HistoryNotEmpty
<1>1. CASE EndOf(c, "network") # "none"
  <2>1. Ended(c.shown)
    BY <1>1 DEF EndOf
  <2>2. d = Finish(c, EndOf(c, "network"))
    BY <1>1 DEF Unanswered
  <2>3. EndOf(c, "network") \in Statuses \ {"ready"}
    BY <1>1, EndStatus
  <2>4. Good(d) /\ Same(c, d)
    BY <1>0, <2>2, <2>3, FinishSound DEF Good
  <2> QED  BY <2>1, <2>4, SameIsOnward DEF Onward, Same
<1>2. CASE EndOf(c, "network") = "none"
  <2>1. PICK x : x = WithPending(c, c.pending \cup {id})
    OBVIOUS
  <2>2. d = Calibrate(x)
    BY <1>2, <2>1 DEF Unanswered, WithPending
  <2>3. c.pending \cup {id} \in SUBSET Commands
    BY <1>0, FieldTypes
  <2>4. x \in Clients /\ SameView(c, x) /\ x.pending = c.pending \cup {id} /\ x.busy = c.busy
    BY <1>0, <2>1, <2>3, PendingSet
  <2>5. Good(x)
    BY <2>4, ViewGood
  <2>6. Good(d) /\ Same(x, d)
    BY <2>2, <2>5, CalibrateGood
  <2>7. Passing(x, d) /\ d.pending = c.pending \cup {id} /\ d.busy = c.busy
    BY <2>4, <2>6, SameIsOnward DEF Onward, Same
  <2> QED  BY <2>4, <2>6, <2>7, ViewThenPassing
<1> QED  BY <1>1, <1>2

AnswerKinds == {"applied", "refused", "missing", "declined", "lost"}

\* send: an answer takes nothing from the player but the command it answers.
LEMMA AnswerHeardGood ==
  ASSUME LogInv, NEW c, Good(c), NEW id \in Commands, NEW kind \in AnswerKinds, NEW n,
         ~c.frozen, c.ctx[id].valid, kind = "missing" => gone,
         kind \in {"applied", "refused"} => n \in 1..Len(log),
         NEW d, d = AnswerHeard(c, id, kind, n)
  PROVE  /\ Good(d) /\ Passing(c, d) /\ d.busy = c.busy /\ c.pending \ {id} \subseteq d.pending
         /\ kind = "lost" =>
              c.pending \subseteq d.pending /\ (id \in d.pending \/ Ended(d.shown))
<1>0. c \in Clients /\ Kept(c, Len(log), gone) /\ Len(log) \in Nat
  BY GoodTyped, HistoryNotEmpty
<1>1. ~c.unavailable
  BY <1>0 DEF Kept
<1>2. PICK v : v = Verdict(c, c.ctx[id], n, "calibration")
  OBVIOUS
<1>3. PICK a : a = Received(c, v, n)
  OBVIOUS
<1>4. PICK b : b = IF v = "protocol" THEN Fail(c, "protocol") ELSE a
  OBVIOUS
<1>5. kind \in {"applied", "refused"} => Good(a) /\ Onward(c, a) /\ Good(b) /\ Onward(c, b)
  <2> SUFFICES ASSUME kind \in {"applied", "refused"}
               PROVE  Good(a) /\ Onward(c, a) /\ Good(b) /\ Onward(c, b)
    OBVIOUS
  <2>1. n \in 1..Len(log)
    OBVIOUS
  <2>2. v = "accepted" => n >= c.shown /\ ~c.unavailable
    BY <1>1, <1>2, <2>1, VerdictMeans DEF Modes
  <2>3. Good(a) /\ Onward(c, a)
    BY <1>3, <2>1, <2>2, ReceivedGood
  <2>4. CASE v = "protocol"
    <3>1. Good(b) /\ ErrorEffect(c, b, "protocol")
      BY <1>0, <1>4, <2>4, FailGood
    <3> QED  BY <2>3, <3>1, SameIsOnward DEF ErrorEffect
  <2> QED  BY <1>4, <2>3, <2>4
<1>6. d = IF kind = "applied" THEN WithPending(b, b.pending \ {id})
          ELSE IF kind = "lost" THEN Unanswered(c, id)
          ELSE IF kind = "refused"
          THEN IF EndOf(a, kind) # "none" THEN Finish(a, EndOf(a, kind)) ELSE b
          ELSE IF EndOf(c, kind) # "none" THEN Finish(Noted(c, kind), EndOf(c, kind))
          ELSE Calibrate(c)
  BY <1>2, <1>3, <1>4 DEF AnswerHeard, WithPending
<1>7. CASE kind = "applied"
  <2>1. Good(b) /\ Onward(c, b) /\ b \in Clients
    BY <1>5, <1>7, GoodTyped
  <2>2. b.pending \ {id} \in SUBSET Commands
    BY <2>1, FieldTypes
  <2>3. d \in Clients /\ SameView(b, d) /\ d.pending = b.pending \ {id} /\ d.busy = b.busy
    BY <1>6, <1>7, <2>1, <2>2, PendingSet
  <2> QED  BY <1>7, <2>1, <2>3, ViewGood, PassingThenView DEF Onward
<1>8. CASE kind = "lost"
  BY <1>6, <1>8, UnansweredGood
<1>9. CASE kind = "refused"
  <2>1. CASE d = b
    BY <1>5, <1>9, <2>1 DEF Onward
  <2>2. CASE EndOf(a, kind) # "none" /\ d = Finish(a, EndOf(a, kind))
    <3>1. EndOf(a, kind) \in Statuses \ {"ready"}
      BY <2>2, EndStatus
    <3>2. a \in Clients /\ Kept(a, Len(log), gone)
      BY <1>5, <1>9, GoodTyped
    <3>3. Good(d) /\ Same(a, d)
      BY <1>0, <2>2, <3>1, <3>2, FinishSound DEF Good
    <3> QED  BY <1>5, <1>9, <3>3, OnwardThenSame DEF Onward
  <2> QED  BY <1>6, <1>9, <2>1, <2>2
<1>10. CASE kind \in {"missing", "declined"}
  <2>1. CASE EndOf(c, kind) # "none"
    <3>1. PICK x : x = Noted(c, kind)
      OBVIOUS
    <3>2. x \in Clients /\ Kept(x, Len(log), gone) /\ ErrorEffect(c, x, kind)
      BY <1>0, <3>1, NotedKept
    <3>3. d = Finish(x, EndOf(c, kind))
      BY <1>6, <1>10, <2>1, <3>1
    <3>4. EndOf(c, kind) \in Statuses \ {"ready"}
      BY <2>1, EndStatus
    <3>5. Good(d) /\ Same(x, d)
      BY <1>0, <3>2, <3>3, <3>4, FinishSound DEF Good
    <3>6. Onward(c, x)
      BY <3>2, ForgettingIsOnward, SameIsOnward DEF ErrorEffect
    <3> QED  BY <1>10, <3>5, <3>6, OnwardThenSame DEF Onward
  <2>2. CASE EndOf(c, kind) = "none"
    <3>1. d = Calibrate(c)
      BY <1>6, <1>10, <2>2
    <3> QED  BY <1>10, <3>1, CalibrateGood, SameIsOnward DEF Onward
  <2> QED  BY <2>1, <2>2
<1> QED  BY <1>7, <1>8, <1>9, <1>10 DEF AnswerKinds

LEMMA CommandAnsweredGood ==
  ASSUME LogInv, NEW c, Good(c), NEW id \in Commands, NEW kind \in AnswerKinds, NEW n,
         kind = "missing" => gone, kind \in {"applied", "refused"} => n \in 1..Len(log),
         NEW d, d = CommandAnswered(c, id, kind, n)
  PROVE  /\ Good(d) /\ Passing(c, d) /\ d.busy = NoCommand
         /\ c.pending \ {id} \subseteq d.pending
         /\ kind = "lost" =>
              /\ c.pending \subseteq d.pending
              /\ id \in d.pending \/ Ended(d.shown) \/ ~d.ctx[id].valid
<1>0. c \in Clients /\ Kept(c, Len(log), gone)
  BY GoodTyped
<1>1. PICK idle : idle = WithBusy(c, NoCommand)
  OBVIOUS
<1>2. idle \in Clients /\ SameView(c, idle) /\ idle.pending = c.pending /\ idle.busy = NoCommand
  BY <1>0, <1>1, BusySet
<1>3. Good(idle) /\ Passing(c, idle)
  BY <1>2, ViewGood
<1>4. d = IF c.frozen \/ ~c.ctx[id].valid THEN idle ELSE AnswerHeard(idle, id, kind, n)
  BY <1>1 DEF CommandAnswered, WithBusy
<1>5. CASE c.frozen \/ ~c.ctx[id].valid
  <2>1. ~c.ctx[id].valid
    BY <1>0, <1>5 DEF Kept
  <2>2. d = idle
    BY <1>4, <1>5
  <2>3. ~d.ctx[id].valid
    BY <1>2, <2>1, <2>2 DEF SameView
  <2> QED  BY <1>2, <1>3, <2>2, <2>3
<1>6. CASE ~c.frozen /\ c.ctx[id].valid
  <2>1. d = AnswerHeard(idle, id, kind, n)
    BY <1>4, <1>6
  <2>2. ~idle.frozen /\ idle.ctx[id].valid
    BY <1>2, <1>6 DEF SameView
  <2>3. /\ Good(d) /\ Passing(idle, d) /\ d.busy = idle.busy
        /\ idle.pending \ {id} \subseteq d.pending
        /\ kind = "lost" =>
             idle.pending \subseteq d.pending /\ (id \in d.pending \/ Ended(d.shown))
    BY <1>3, <2>1, <2>2, AnswerHeardGood
  <2> QED  BY <1>2, <2>3, ViewThenPassing
<1> QED  BY <1>5, <1>6

-----------------------------------------------------------------------------
(* The player *)

WithMounted(c, b) == [c EXCEPT !.mounted = b]
WithHidden(c, b) == [c EXCEPT !.hidden = b]
WithFrozen(c, b) == [c EXCEPT !.frozen = b]

LEMMA PageSet ==
  ASSUME NEW c \in Clients, NEW b \in BOOLEAN, NEW d,
         d = WithMounted(c, b) \/ d = WithHidden(c, b)
  PROVE  d \in Clients /\ SameView(c, d) /\ d.pending = c.pending /\ d.busy = c.busy
<1>1. CASE d = WithMounted(c, b)
  BY <1>1 DEF Clients, SameView, WithMounted
<1>2. CASE d = WithHidden(c, b)
  BY <1>2 DEF Clients, SameView, WithHidden
<1> QED  BY <1>1, <1>2

LEMMA PageGood ==
  ASSUME NEW c, Good(c), NEW b \in BOOLEAN, NEW d,
         d = WithMounted(c, b) \/ d = WithHidden(c, b)
  PROVE  Good(d) /\ Onward(c, d)
BY GoodTyped, PageSet, ViewGood DEF Onward

LEMMA FrozenSet ==
  ASSUME NEW c \in Clients, NEW b \in BOOLEAN, NEW d, d = WithFrozen(c, b)
  PROVE  /\ d \in Clients /\ d.pending = c.pending /\ d.busy = c.busy /\ d.frozen = b
         /\ d.shown = c.shown /\ d.unavailable = c.unavailable /\ d.ctx = c.ctx
         /\ d.stream = c.stream /\ d.read = c.read /\ d.status = c.status
BY DEF Clients, WithFrozen

\* A handler that ends in another round, with status `st', from a client whose
\* snapshot and requests are in order.
LEMMA FinishGood ==
  ASSUME LogInv, NEW c \in Clients, Kept(c, Len(log), gone), NEW st \in Statuses \ {"ready"},
         NEW d, d = Finish(c, st)
  PROVE  Good(d) /\ Onward(c, d) /\ Same(c, d) /\ Bare(d) /\ d.status = st
<1>1. Sound(d, Len(log), gone) /\ Same(c, d) /\ Bare(d) /\ d.status = st
  BY HistoryNotEmpty, FinishSound
<1> QED  BY <1>1, SameIsOnward DEF Good

\* acquire
LEMMA AcquireGood ==
  ASSUME LogInv, NEW c, Good(c), NEW k, k = (IF Ended(c.shown) THEN Finish(c, "ended") ELSE c),
         NEW m, m = WithMounted(k, TRUE),
         NEW d, d = IF Terminal(m.status) THEN StartRead(m, {"reopen"}) ELSE Restart(m)
  PROVE  Good(d) /\ Onward(c, d)
<1>1. c \in Clients /\ Kept(c, Len(log), gone) /\ "ended" \in Statuses \ {"ready"}
  BY GoodTyped DEF Statuses
<1>2. Good(k) /\ Same(c, k)
  BY <1>1, FinishGood DEF Same
<1>3. Good(m) /\ Onward(k, m)
  BY <1>2, PageGood
<1>4. Onward(c, m)
  BY <1>2, <1>3, SameThenOnward
<1>5. {"reopen"} \in SUBSET Waiters /\ "diagnosis" \notin {"reopen"}
  BY DEF Waiters
<1>6. Good(d) /\ Same(m, d)
  <2>1. CASE d = StartRead(m, {"reopen"})
    BY <1>3, <1>5, <2>1, StartReadGood
  <2>2. CASE d = Restart(m)
    BY <1>3, <2>2, RestartGood
  <2> QED  BY <2>1, <2>2
<1> QED  BY <1>4, <1>6, OnwardThenSame

\* release: nothing of before may still arrive.
LEMMA ReleaseGood ==
  ASSUME LogInv, NEW c, Good(c),
         NEW d, d = CancelRead(Invalidate(Finish(WithMounted(c, FALSE), "idle")))
  PROVE  Good(d) /\ Onward(c, d)
<1>1. PICK m : m = WithMounted(c, FALSE)
  OBVIOUS
<1>2. Good(m) /\ Onward(c, m) /\ m \in Clients /\ Kept(m, Len(log), gone)
  BY <1>1, PageGood, GoodTyped
<1>3. PICK f : f = Finish(m, "idle")
  OBVIOUS
<1>4. Good(f) /\ Same(m, f) /\ Bare(f) /\ f.status = "idle" /\ f \in Clients
      /\ Kept(f, Len(log), gone)
  <2>1. "idle" \in Statuses \ {"ready"}
    BY DEF Statuses
  <2>2. Good(f) /\ Same(m, f) /\ Bare(f) /\ f.status = "idle"
    BY <1>2, <1>3, <2>1, FinishGood
  <2> QED  BY <2>2, GoodTyped
<1>5. PICK i : i = Invalidate(f)
  OBVIOUS
<1>6. /\ i \in Clients /\ SameAround(f, i) /\ i.shown = f.shown
      /\ i.unavailable = f.unavailable
      /\ i.stream = WithStreamContext(f.stream, Unwanted(f.stream.ctx))
      /\ \A id \in Commands : ~i.ctx[id].valid /\ i.ctx[id].baseline = f.ctx[id].baseline
  BY <1>4, <1>5, InvalidateFacts
<1>7. i.stream = NoStream
  <2>1. Unwanted(NoContext) = NoContext
    <3>1. PICK x : x = Unwanted(NoContext)
      OBVIOUS
    <3>2. x \in RequestContexts /\ ~x.valid /\ ~x.advanced /\ x.baseline = NoContext.baseline
      BY <3>1, NothingTyped, UnwantedFacts
    <3> QED  BY <3>1, <3>2, NothingTyped, NothingKnown DEF RequestContexts
  <2>2. f.stream = NoStream /\ f.stream.ctx = NoContext
    BY <1>4, NothingKnown DEF Bare
  <2>3. i.stream = WithStreamContext(NoStream, NoContext)
    BY <1>6, <2>1, <2>2
  <2> QED  BY <2>3 DEF WithStreamContext, NoStream
<1>8. /\ d \in Clients /\ Same(i, d) /\ d.status = i.status /\ d.stream = i.stream
      /\ d.read = NoRead
  BY <1>1, <1>3, <1>5, <1>6, CancelReadFacts
<1>9. Kept(i, Len(log), gone)
  BY <1>4, <1>6 DEF Kept, SameAround, ContextOK
<1>10. Kept(d, Len(log), gone) /\ Bare(d)
  BY <1>4, <1>6, <1>7, <1>8, <1>9, KeptSame DEF Bare, SameAround
<1>11. Good(d)
  BY <1>8, <1>10, BareIsSound, HistoryNotEmpty DEF Good
<1>12. Onward(f, i)
  BY <1>6 DEF Onward, Passing, SameAround
<1>13. Onward(c, f)
  BY <1>2, <1>4, OnwardThenSame
<1>14. Onward(c, i)
  BY <1>6, <1>12, <1>13 DEF Onward, Passing
<1> QED  BY <1>8, <1>11, <1>14, OnwardThenSame

\* visibility, hidden and shown again
LEMMA VisibilityGood ==
  ASSUME LogInv, NEW c, Good(c), NEW b \in BOOLEAN, NEW m, m = WithHidden(c, b),
         NEW d, d \in {m, Finish(m, "suspended"), Restart(m)}
  PROVE  Good(d) /\ Onward(c, d)
<1>1. Good(m) /\ Onward(c, m) /\ m \in Clients /\ Kept(m, Len(log), gone)
  BY PageGood, GoodTyped
<1>2. "suspended" \in Statuses \ {"ready"}
  BY DEF Statuses
<1>3. CASE d = m
  BY <1>1, <1>3
<1>4. CASE d = Finish(m, "suspended")
  BY <1>1, <1>2, <1>4, FinishGood, OnwardThenSame
<1>5. CASE d = Restart(m)
  BY <1>1, <1>5, RestartGood, OnwardThenSame
<1> QED  BY <1>3, <1>4, <1>5

\* freeze
LEMMA FreezeGood ==
  ASSUME LogInv, NEW c, Good(c),
         NEW d, d = Finish(Invalidate(WithFrozen(c, TRUE)), "blocked")
  PROVE  Good(d) /\ Onward(c, d)
<1>0. c \in Clients /\ Kept(c, Len(log), gone) /\ "blocked" \in Statuses \ {"ready"}
  BY GoodTyped DEF Statuses
<1>1. PICK m : m = WithFrozen(c, TRUE)
  OBVIOUS
<1>2. /\ m \in Clients /\ m.pending = c.pending /\ m.busy = c.busy /\ m.shown = c.shown
      /\ m.unavailable = c.unavailable /\ m.ctx = c.ctx
  BY <1>0, <1>1 DEF Clients, WithFrozen
<1>3. PICK i : i = Invalidate(m)
  OBVIOUS
<1>4. /\ i \in Clients /\ SameAround(m, i) /\ i.shown = m.shown
      /\ i.unavailable = m.unavailable
      /\ \A id \in Commands : ~i.ctx[id].valid /\ i.ctx[id].baseline = m.ctx[id].baseline
  BY <1>2, <1>3, InvalidateFacts
<1>5. Kept(i, Len(log), gone)
  BY <1>0, <1>2, <1>4 DEF Kept, ContextOK
<1>6. Good(d) /\ Same(i, d)
  BY <1>0, <1>1, <1>3, <1>4, <1>5, FinishGood
<1>7. Onward(c, i)
  BY <1>2, <1>4 DEF Onward, Passing, SameAround
<1> QED  BY <1>6, <1>7, OnwardThenSame

\* freeze, finish
LEMMA ThawGood ==
  ASSUME LogInv, NEW c, Good(c), c.frozen, NEW m, m = WithFrozen(c, FALSE),
         NEW d, d = StartRead(m, {"thaw"}) \/ (gone /\ d = Forgotten(m))
  PROVE  Good(d) /\ Onward(c, d)
<1>0. /\ c \in Clients /\ Kept(c, Len(log), gone) /\ StreamOK(c, Len(log))
      /\ ReadOK(c, Len(log)) /\ Len(log) \in Nat
  BY GoodTyped, HistoryNotEmpty DEF Good, Sound
<1>1. /\ m \in Clients /\ m.pending = c.pending /\ m.busy = c.busy /\ m.frozen = FALSE
      /\ m.shown = c.shown /\ m.unavailable = c.unavailable /\ m.ctx = c.ctx
      /\ m.stream = c.stream /\ m.read = c.read /\ m.status = c.status
  BY <1>0, FrozenSet
<1>2. Onward(c, m)
  BY <1>1 DEF Onward, Passing
<1>3. CASE d = StartRead(m, {"thaw"})
  <2>1. Kept(m, Len(log), gone)
    BY <1>0, <1>1 DEF Kept
  <2>2. StreamOK(m, Len(log))
    BY <1>0, <1>1 DEF StreamOK
  <2>3. ReadOK(m, Len(log))
    BY <1>0, <1>1 DEF ReadOK
  <2>4. Good(m)
    BY <1>1, <2>1, <2>2, <2>3 DEF Good, Sound
  <2>5. {"thaw"} \in SUBSET Waiters /\ "diagnosis" \notin {"thaw"}
    BY DEF Waiters
  <2>6. Good(d) /\ Same(m, d)
    BY <1>3, <2>4, <2>5, StartReadGood
  <2> QED  BY <1>2, <2>6, OnwardThenSame
<1>4. CASE gone /\ d = Forgotten(m)
  <2>1. PICK u : u = WithUnavailable(m, TRUE)
    OBVIOUS
  <2>2. PICK x : x = WithShown(u, NoSnapshot)
    OBVIOUS
  <2>3. d = Finish(x, "missing")
    BY <1>4, <2>1, <2>2 DEF Forgotten, WithUnavailable, WithShown
  <2>4. u \in Clients /\ SameAround(m, u) /\ u.ctx = m.ctx
    BY <1>1, <2>1, UnavailableSet
  <2>5. NoSnapshot \in Nat /\ NoSnapshot <= Len(log)
    BY <1>0 DEF NoSnapshot
  <2>6. x \in Clients /\ SameAround(u, x) /\ x.shown = NoSnapshot /\ x.ctx = u.ctx
    BY <2>2, <2>4, <2>5, ShownSet
  <2>7. \A id \in Commands : ~x.ctx[id].valid /\ x.ctx[id].baseline = c.ctx[id].baseline
    BY <1>0, <1>1, <2>4, <2>6 DEF Kept
  <2>8. Kept(x, Len(log), gone)
    BY <1>4, <2>5, <2>6, <2>7 DEF Kept, ContextOK
  <2>9. Onward(c, x)
    BY <1>1, <2>4, <2>6, <2>7 DEF Onward, Passing, SameAround
  <2>10. "missing" \in Statuses \ {"ready"}
    BY DEF Statuses
  <2>11. Good(d) /\ Same(x, d)
    BY <2>3, <2>6, <2>8, <2>10, FinishGood
  <2> QED  BY <2>9, <2>11, OnwardThenSame
<1> QED  BY <1>3, <1>4

-----------------------------------------------------------------------------
(* Every step keeps the invariant *)

\* What a step may do to what is shown.
ShownStep ==
  /\ client'.shown # NoSnapshot => client'.shown >= client.shown
  /\ client.unavailable => client'.shown = NoSnapshot

\* A step that leaves what is shown satisfies it.
LEMMA ShownKept ==
  ASSUME StateInv, client'.shown = client.shown
  PROVE  ShownStep
<1>1. client \in Clients /\ Kept(client, Len(log), gone)
  BY GoodTyped DEF StateInv
<1>2. client.shown \in Nat /\ (client.unavailable => client.shown = NoSnapshot)
  BY <1>1, FieldTypes DEF Kept
<1> QED  BY <1>2 DEF ShownStep

\* A step of the browser that passes from the client to `d'.
LEMMA PassingStep ==
  ASSUME SyncTypes, StateInv, log' = log, gone' = gone, ledger' = ledger,
         NEW d, client' = d, Good(d), d.cut = {}, Passing(client, d),
         requests' \subseteq requests,
         \A id \in Commands :
           \/ id \in told' \cup d.pending \/ d.busy = id
           \/ Ended(d.shown) \/ ~d.ctx[id].valid
           \/ /\ client.busy # id
              /\ id \in told \cup client.pending => id \in told' \cup d.pending
  PROVE  StateInv' /\ ShownStep
<1>1. LogInv /\ CommandInv /\ UnansweredIsPending /\ Good(client)
  BY DEF StateInv
<1>2. client \in Clients /\ Kept(client, Len(log), gone) /\ d \in Clients
      /\ Kept(d, Len(log), gone)
  BY <1>1, GoodTyped
<1>3. LogInv'
  BY <1>1 DEF LogInv
<1>4. CommandInv'
  <2> SUFFICES ASSUME NEW id \in Commands
               PROVE  /\ d.ctx[id].baseline <= Len(log)
                      /\ d.ctx[id].baseline = NoSnapshot =>
                           ~d.ctx[id].valid /\ id \notin requests' /\ ledger[id] = Undecided
                      /\ ledger[id] # Undecided => /\ ledger[id].seq \in 1..Len(log)
                                                   /\ ledger[id].seq >= d.ctx[id].baseline
    BY DEF CommandInv
  <2>1. d.ctx[id].baseline = client.ctx[id].baseline /\ (d.ctx[id].valid => client.ctx[id].valid)
    BY DEF Passing
  <2> QED  BY <1>1, <2>1 DEF CommandInv
<1>5. UnansweredIsPending'
  <2> SUFFICES ASSUME NEW id \in Commands, d.ctx[id].valid, d.busy # id
               PROVE  id \in told' \cup d.pending \/ Ended(d.shown)'
    BY DEF UnansweredIsPending
  <2>1. Ended(d.shown)' <=> Ended(d.shown)
    BY DEF Ended
  <2>2. CASE Ended(d.shown) \/ id \in told' \cup d.pending
    BY <2>1, <2>2
  <2>3. CASE client.busy # id /\ (id \in told \cup client.pending => id \in told' \cup d.pending)
    <3>1. client.ctx[id].valid
      BY DEF Passing
    <3>2. id \in told \cup client.pending \/ Ended(client.shown)
      BY <1>1, <2>3, <3>1 DEF UnansweredIsPending
    <3>3. d.shown = client.shown \/ ~Ended(client.shown)
      BY DEF Passing
    <3> QED  BY <2>1, <2>3, <3>2, <3>3
  <2> QED  BY <2>2, <2>3
<1>6. Good(client)'
  BY DEF Good
<1>7. ShownStep
  <2>1. client.shown \in Nat /\ d.shown \in Nat
    BY <1>2, FieldTypes
  <2>2. client.unavailable => client.shown = NoSnapshot
    BY <1>2 DEF Kept
  <2>3. \/ d.shown = client.shown \/ d.shown = NoSnapshot
        \/ d.shown > client.shown /\ ~client.unavailable
    BY DEF Passing
  <2> QED  BY <2>1, <2>2, <2>3 DEF ShownStep
<1> QED  BY <1>3, <1>4, <1>5, <1>6, <1>7 DEF StateInv

\* A step of the browser alone.
LEMMA ClientStep ==
  ASSUME SyncTypes, StateInv, NEW x, ClientOnly(x), Good(x), Onward(client, x)
  PROVE  StateInv' /\ ShownStep /\ UNCHANGED <<gone, requests, ledger, told>>
<1>1. PICK d : d = Settled(x)
  OBVIOUS
<1>2. /\ client' = d /\ log' = log /\ gone' = gone /\ ledger' = ledger
      /\ requests' = requests /\ told' = told
  BY <1>1 DEF ClientOnly, Server, Becomes
<1>3. Good(d) /\ Same(x, d) /\ d.cut = {}
  BY <1>1, SettledGood DEF StateInv
<1>4. Onward(client, d)
  BY <1>3, OnwardThenSame
<1>5. Passing(client, d) /\ d.busy = client.busy /\ d.pending = client.pending
  BY <1>4 DEF Onward
<1> QED  BY <1>2, <1>3, <1>5, PassingStep

LEMMA ClientFails ==
  ASSUME SyncTypes, StateInv, NEW error, error = "missing" => gone,
         ClientOnly(Fail(client, error))
  PROVE  StateInv' /\ ShownStep /\ UNCHANGED <<gone, requests, ledger, told>>
<1>1. PICK x : x = Fail(client, error)
  OBVIOUS
<1>2. LogInv /\ Good(client) /\ client \in Clients /\ Kept(client, Len(log), gone)
  BY GoodTyped DEF StateInv
<1>3. Good(x) /\ ErrorEffect(client, x, error)
  BY <1>1, <1>2, FailGood
<1>4. Onward(client, x)
  BY <1>3, ForgettingIsOnward, SameIsOnward DEF ErrorEffect
<1> QED  BY <1>1, <1>3, <1>4, ClientStep

LEMMA HearsGood ==
  ASSUME SyncTypes, StateInv, client.stream.phase = "open", NEW n, n = client.stream.next,
         n \in 1..Len(log), n <= client.shown + 1, HearsEvent(n)
  PROVE  StateInv' /\ ShownStep /\ UNCHANGED <<gone, requests, ledger, told>>
<1>0. LogInv /\ Good(client) /\ client \in Clients /\ Kept(client, Len(log), gone)
  BY GoodTyped DEF StateInv
<1>1. PICK v : v = Verdict(client, client.stream.ctx, n, "incremental")
  OBVIOUS
<1>2. ClientOnly(IF Refused(v) THEN Fail(client, v) ELSE EventHeard(client, v, n))
  BY <1>1 DEF HearsEvent, Heard
<1>3. CASE Refused(v)
  <2>1. v # "missing"
    BY <1>3 DEF Refused
  <2> QED  BY <1>2, <1>3, <2>1, ClientFails
<1>4. CASE ~Refused(v)
  <2>1. client.shown \in 0..Len(log)
    BY <1>0, FieldTypes, HistoryNotEmpty DEF Kept
  <2>2. Decision(client.shown, n, "incremental", client.stream.ctx) \in {"accepted", "duplicate"}
    BY <1>0, <2>1, NextIsBelieved
  <2>3. v \in {"accepted", "duplicate"}
    BY <1>1, <1>4, <2>2 DEF Verdict, Refused
  <2>4. /\ v = "accepted" => n >= client.shown
        /\ v = "duplicate" => n <= client.shown
    BY <1>0, <1>1, <2>3, VerdictMeans DEF Modes
  <2>5. PICK x : x = EventHeard(client, v, n)
    OBVIOUS
  <2>6. Good(x) /\ Onward(client, x)
    BY <1>0, <2>3, <2>4, <2>5, EventHeardGood
  <2> QED  BY <1>2, <1>4, <2>5, <2>6, ClientStep
<1> QED  BY <1>3, <1>4

-----------------------------------------------------------------------------
(* The server *)

LEMMA SoundGrows ==
  ASSUME NEW c, NEW m \in Nat, NEW n \in Nat, m <= n, NEW over, NEW nextOver,
         over => nextOver /\ n = m, Sound(c, m, over)
  PROVE  Sound(c, n, nextOver)
<1>1. c \in Clients /\ Kept(c, m, over) /\ StreamOK(c, m) /\ ReadOK(c, m)
  BY DEF Sound
<1>2. /\ c.shown \in Nat /\ c.stream.barrier \in Nat /\ c.stream.gapCursor \in Nat
      /\ c.stream.watermark \in Nat /\ c.stream.next \in Nat /\ c.read.since \in Nat
      /\ c.stream.ctx.baseline \in Nat /\ c.read.ctx.baseline \in Nat
  BY <1>1, FieldTypes, InnerTypes
<1>3. Kept(c, n, nextOver)
  BY <1>1, <1>2 DEF Kept
<1>4. StreamOK(c, n)
  <2>1. c.stream.phase = "open" => OpenOK(c.stream, c.shown, n)
    BY <1>1 DEF StreamOK, OpenOK
  <2> QED  BY <1>1, <1>2, <2>1 DEF StreamOK
<1>5. ReadOK(c, n)
  <2>1. c.unavailable => n = m
    BY <1>1 DEF Kept
  <2> QED  BY <1>1, <1>2, <2>1 DEF ReadOK
<1> QED  BY <1>1, <1>3, <1>4, <1>5 DEF Sound

\* The browser does not notice what the server does.
LEMMA ServerStep ==
  ASSUME SyncTypes, StateInv, client' = client, told' = told, LogInv', CommandInv',
         Len(log') >= Len(log), gone => gone' /\ Len(log') = Len(log),
         \A i \in 1..Len(log) : log'[i].ended = log[i].ended
  PROVE  StateInv' /\ ShownStep
<1>0. LogInv /\ Good(client) /\ client \in Clients /\ Kept(client, Len(log), gone)
      /\ UnansweredIsPending
  BY GoodTyped DEF StateInv
<1>1. Len(log) \in Nat /\ Len(log') \in Nat
  <2>1. Len(log') \in 1..MaxEvents
    BY DEF LogInv
  <2> QED  BY <1>0, <2>1, HistoryNotEmpty, SyncAssumption
<1>2. Good(client)'
  <2>1. Sound(client, Len(log), gone)
    BY <1>0 DEF Good
  <2>2. Sound(client, Len(log'), gone')
    BY <1>1, <2>1, SoundGrows
  <2> QED  BY <2>2 DEF Good
<1>3. Ended(client.shown) => Ended(client.shown)'
  <2>1. Ended(client.shown) => client.shown \in 1..Len(log)
    BY <1>0, <1>1, FieldTypes DEF Ended, NoSnapshot, Kept
  <2> QED  BY <2>1 DEF Ended
<1>4. UnansweredIsPending'
  BY <1>0, <1>3 DEF UnansweredIsPending
<1>5. ShownStep
  BY ShownKept
<1> QED  BY <1>2, <1>4, <1>5 DEF StateInv

\* An event is appended behind the last.
LEMMA Appended ==
  ASSUME LogInv, NEW v \in Nat, NEW e \in BOOLEAN,
         NEW s \in {"committed", "published", "silent"}, Append1(v, e, s),
         log[Len(log)].version <= v, v <= log[Len(log)].version + 1
  PROVE  /\ LogInv' /\ Len(log') = Len(log) + 1 /\ ~gone
         /\ \A i \in 1..Len(log) : log'[i] = log[i]
<1>1. log \in Seq(Events) /\ Len(log) \in Nat \ {0} /\ Len(log) < MaxEvents /\ ~gone
      /\ ~log[Len(log)].ended /\ MaxEvents \in Nat
  BY SyncAssumption DEF LogInv, Append1, Running
<1>2. PICK x : x = Event(v, e, s)
  OBVIOUS
<1>3. x \in Events /\ x.version = v /\ x.ended = e
  BY <1>2 DEF Event, Events
<1>4. log' = Append(log, x)
  BY <1>2 DEF Append1
<1>5. /\ log' \in Seq(Events) /\ Len(log') = Len(log) + 1 /\ log'[Len(log) + 1] = x
      /\ \A i \in 1..Len(log) : log'[i] = log[i]
  BY <1>1, <1>3, <1>4
<1>6. /\ \A i \in 1..Len(log) : /\ log[i].version \in 1..i
                                /\ log[i].ended => i = Len(log)
      /\ \A i, j \in 1..Len(log) : i <= j => log[i].version <= log[j].version
  BY DEF LogInv
<1>7. \A i \in 1..Len(log) : log[i].version \in Nat /\ log[i].version <= v
  <2> SUFFICES ASSUME NEW i \in 1..Len(log)
               PROVE  log[i].version \in Nat /\ log[i].version <= v
    OBVIOUS
  <2>1. Len(log) \in 1..Len(log) /\ i <= Len(log) /\ i \in Nat
    BY <1>1
  <2>2. log[i].version \in Nat /\ log[Len(log)].version \in Nat
    BY <1>6, <2>1
  <2> QED  BY <1>6, <2>1, <2>2
<1>8. v \in 1..Len(log) + 1
  <2>1. log[Len(log)].version \in 1..Len(log)
    BY <1>1, <1>6
  <2> QED  BY <1>1, <2>1
<1>9. \A i \in 1..Len(log') : /\ log'[i].version \in 1..i
                              /\ log'[i].ended => i = Len(log')
  <2> SUFFICES ASSUME NEW i \in 1..Len(log')
               PROVE  /\ log'[i].version \in 1..i
                      /\ log'[i].ended => i = Len(log')
    OBVIOUS
  <2>1. CASE i = Len(log) + 1
    BY <1>3, <1>5, <1>8, <2>1
  <2>2. CASE i # Len(log) + 1
    <3>1. i \in 1..Len(log) /\ log'[i] = log[i]
      BY <1>1, <1>5, <2>2
    <3>2. ~log[i].ended
      BY <1>1, <1>6, <3>1
    <3> QED  BY <1>6, <3>1, <3>2
  <2> QED  BY <2>1, <2>2
<1>10. \A i, j \in 1..Len(log') : i <= j => log'[i].version <= log'[j].version
  <2> SUFFICES ASSUME NEW i \in 1..Len(log'), NEW j \in 1..Len(log'), i <= j
               PROVE  log'[i].version <= log'[j].version
    OBVIOUS
  <2>1. CASE j = Len(log) + 1 /\ i = Len(log) + 1
    BY <1>3, <1>5, <2>1
  <2>2. CASE j = Len(log) + 1 /\ i \in 1..Len(log)
    BY <1>3, <1>5, <1>7, <2>2
  <2>3. CASE j \in 1..Len(log) /\ i \in 1..Len(log)
    BY <1>5, <1>6, <2>3
  <2> QED  BY <1>1, <1>5, <2>1, <2>2, <2>3
<1>11. Len(log') \in 1..MaxEvents
  BY <1>1, <1>5
<1> QED  BY <1>1, <1>5, <1>9, <1>10, <1>11 DEF LogInv

\* Publishing changes no version and no end.
LEMMA Published ==
  ASSUME LogInv, NEW n \in 1..Len(log), log' = [log EXCEPT ![n].state = "published"]
  PROVE  /\ LogInv' /\ Len(log') = Len(log)
         /\ \A i \in 1..Len(log) : log'[i].ended = log[i].ended
<1>1. log \in Seq(Events) /\ Len(log) \in Nat
  BY HistoryNotEmpty DEF LogInv
<1>2. PICK x : x = [log[n] EXCEPT !.state = "published"]
  OBVIOUS
<1>3. log[n] \in Events
  BY <1>1
<1>4. x \in Events /\ x.version = log[n].version /\ x.ended = log[n].ended
  BY <1>2, <1>3 DEF Events
<1>5. log' = [log EXCEPT ![n] = x]
  BY <1>2
<1>6. /\ log' \in Seq(Events) /\ Len(log') = Len(log)
      /\ \A i \in 1..Len(log) : log'[i] = IF i = n THEN x ELSE log[i]
  BY <1>1, <1>4, <1>5
<1>7. \A i \in 1..Len(log) : log'[i].version = log[i].version /\ log'[i].ended = log[i].ended
  BY <1>4, <1>6
<1> QED  BY <1>6, <1>7 DEF LogInv

-----------------------------------------------------------------------------
(* One step per action *)

LEMMA BoundsStep ==
  ASSUME SyncTypes, Calm \/ Fault \/ Move
  PROVE  faults' \in 0..MaxFaults /\ moves' \in 0..MaxMoves
<1>1. CASE Calm
  BY <1>1 DEF SyncTypes, Calm
<1>2. CASE Fault
  BY <1>2, SyncAssumption DEF SyncTypes, Fault
<1>3. CASE Move
  BY <1>3, SyncAssumption DEF SyncTypes, Move
<1> QED  BY <1>1, <1>2, <1>3

LEMMA SameTypes ==
  ASSUME SyncTypes, Calm \/ Fault \/ Move, UNCHANGED <<gone, requests, ledger, told>>
  PROVE  SyncTypes'
<1>1. faults' \in 0..MaxFaults /\ moves' \in 0..MaxMoves
  BY BoundsStep
<1> QED  BY <1>1 DEF SyncTypes

LEMMA CommitStep ==
  ASSUME SyncInv, Commit
  PROVE  SyncInv' /\ ShownStep
<1>1. SyncTypes /\ StateInv /\ LogInv /\ CommandInv /\ Len(log) \in Nat \ {0}
  BY HistoryNotEmpty DEF SyncInv, StateInv
<1>2. PICK v \in {0, 1}, e \in BOOLEAN, s \in {"committed", "silent"} :
        Append1(log[Len(log)].version + v, e, s)
  BY DEF Commit
<1>3. log[Len(log)].version \in Nat
  <2>1. Len(log) \in 1..Len(log)
    BY <1>1
  <2>2. log[Len(log)].version \in 1..Len(log)
    BY <1>1, <2>1 DEF LogInv
  <2> QED  BY <1>1, <2>2
<1>4. PICK w \in Nat : w = log[Len(log)].version + v
  BY <1>3
<1>5. log[Len(log)].version <= w /\ w <= log[Len(log)].version + 1
  BY <1>3, <1>4
<1>6. s \in {"committed", "published", "silent"} /\ Append1(w, e, s)
  BY <1>2, <1>4
<1>7. /\ LogInv' /\ Len(log') = Len(log) + 1 /\ ~gone
      /\ \A i \in 1..Len(log) : log'[i] = log[i]
  BY <1>1, <1>5, <1>6, Appended
<1>8. UNCHANGED <<client, gone, requests, ledger, told>> /\ Calm
  BY DEF Commit
<1>9. CommandInv'
  <2> SUFFICES ASSUME NEW id \in Commands
               PROVE  /\ client.ctx[id].baseline <= Len(log')
                      /\ client.ctx[id].baseline = NoSnapshot =>
                           ~client.ctx[id].valid /\ id \notin requests /\ ledger[id] = Undecided
                      /\ ledger[id] # Undecided => /\ ledger[id].seq \in 1..Len(log')
                                                   /\ ledger[id].seq >= client.ctx[id].baseline
    BY <1>8 DEF CommandInv
  <2>1. client.ctx[id].baseline \in Nat
    BY <1>1, GoodTyped, FieldTypes DEF StateInv, RequestContexts
  <2> QED  BY <1>1, <1>7, <2>1 DEF CommandInv
<1>10. Len(log') >= Len(log) /\ (gone => gone' /\ Len(log') = Len(log))
       /\ \A i \in 1..Len(log) : log'[i].ended = log[i].ended
  BY <1>1, <1>7
<1>11. StateInv' /\ ShownStep
  BY <1>1, <1>7, <1>8, <1>9, <1>10, ServerStep
<1> QED  BY <1>1, <1>8, <1>11, SameTypes DEF SyncInv

LEMMA PublishStep ==
  ASSUME SyncInv, Publish
  PROVE  SyncInv' /\ ShownStep
<1>1. SyncTypes /\ StateInv /\ LogInv /\ CommandInv /\ Len(log) \in Nat \ {0}
  BY HistoryNotEmpty DEF SyncInv, StateInv
<1>2. UNCHANGED <<client, gone, requests, ledger, told>> /\ Calm
  BY DEF Publish
<1>3. PICK n \in 1..Len(log) : log' = [log EXCEPT ![n].state = "published"]
  BY DEF Publish
<1>4. /\ LogInv' /\ Len(log') = Len(log)
      /\ \A i \in 1..Len(log) : log'[i].ended = log[i].ended
  BY <1>1, <1>3, Published
<1>5. CommandInv'
  BY <1>1, <1>2, <1>4 DEF CommandInv
<1>6. StateInv' /\ ShownStep
  BY <1>1, <1>2, <1>4, <1>5, ServerStep
<1> QED  BY <1>1, <1>2, <1>6, SameTypes DEF SyncInv

LEMMA EraseStep ==
  ASSUME SyncInv, Erase
  PROVE  SyncInv' /\ ShownStep
<1>1. SyncTypes /\ StateInv /\ LogInv /\ CommandInv /\ Len(log) \in Nat \ {0}
  BY HistoryNotEmpty DEF SyncInv, StateInv
<1>2. UNCHANGED <<log, client, requests, ledger, told>> /\ ~gone /\ gone' = TRUE /\ Move
  BY DEF Erase
<1>3. LogInv' /\ CommandInv'
  BY <1>1, <1>2 DEF LogInv, CommandInv
<1>4. StateInv' /\ ShownStep
  BY <1>1, <1>2, <1>3, ServerStep
<1>5. SyncTypes'
  BY <1>1, <1>2, BoundsStep DEF SyncTypes
<1> QED  BY <1>4, <1>5 DEF SyncInv

\* A command is decided once, on a history no shorter than its snapshot's.
LEMMA DecideStep ==
  ASSUME SyncInv, NEW id \in Commands, Decide(id)
  PROVE  SyncInv' /\ ShownStep
<1>1. SyncTypes /\ StateInv /\ LogInv /\ CommandInv /\ Len(log) \in Nat \ {0}
      /\ client \in Clients
  BY HistoryNotEmpty, GoodTyped DEF SyncInv, StateInv
<1>2. /\ id \in requests /\ ledger[id] = Undecided /\ requests' = requests \ {id}
      /\ UNCHANGED <<client, gone, told>> /\ Calm /\ ~gone
  BY DEF Decide, Running
<1>3. log[Len(log)].version \in Nat
  <2>1. Len(log) \in 1..Len(log)
    BY <1>1
  <2>2. log[Len(log)].version \in 1..Len(log)
    BY <1>1, <2>1 DEF LogInv
  <2> QED  BY <1>1, <2>2
<1>4. \A k \in Commands : client.ctx[k].baseline \in Nat
  BY <1>1, FieldTypes DEF RequestContexts
<1>5. PICK entry : /\ entry \in [kind: {"none", "applied", "refused"}, seq: Nat]
                   /\ ledger' = [ledger EXCEPT ![id] = entry]
                   /\ LogInv' /\ Len(log') >= Len(log)
                   /\ \A i \in 1..Len(log) : log'[i] = log[i]
                   /\ entry.seq \in 1..Len(log') /\ entry.seq >= Len(log)
  <2>1. CASE Version(client.ctx[id].baseline) = log[Len(log)].version
    <3>1. PICK e \in BOOLEAN : Append1(log[Len(log)].version + 1, e, "committed")
      BY <2>1 DEF Decide
    <3>2. PICK w \in Nat : w = log[Len(log)].version + 1
      BY <1>3
    <3>3. log[Len(log)].version <= w /\ w <= log[Len(log)].version + 1 /\ Append1(w, e, "committed")
      BY <1>3, <3>1, <3>2
    <3>4. /\ LogInv' /\ Len(log') = Len(log) + 1
          /\ \A i \in 1..Len(log) : log'[i] = log[i]
      BY <1>1, <3>3, Appended
    <3>5. ledger' = [ledger EXCEPT ![id] = [kind |-> "applied", seq |-> Len(log) + 1]]
      BY <2>1 DEF Decide
    <3>6. PICK x : x = [kind |-> "applied", seq |-> Len(log) + 1]
      OBVIOUS
    <3>7. x \in [kind: {"none", "applied", "refused"}, seq: Nat] /\ x.seq = Len(log) + 1
      BY <1>1, <3>6
    <3>8. /\ ledger' = [ledger EXCEPT ![id] = x]
          /\ Len(log') >= Len(log) /\ x.seq \in 1..Len(log') /\ x.seq >= Len(log)
      BY <1>1, <3>4, <3>5, <3>6, <3>7
    <3> QED  BY <3>4, <3>7, <3>8
  <2>2. CASE Version(client.ctx[id].baseline) # log[Len(log)].version
    <3>1. /\ ledger' = [ledger EXCEPT ![id] = [kind |-> "refused", seq |-> Len(log)]]
          /\ log' = log
      BY <2>2 DEF Decide
    <3>2. PICK x : x = [kind |-> "refused", seq |-> Len(log)]
      OBVIOUS
    <3>3. x \in [kind: {"none", "applied", "refused"}, seq: Nat] /\ x.seq = Len(log)
      BY <1>1, <3>2
    <3>4. LogInv'
      BY <1>1, <3>1 DEF LogInv
    <3>5. /\ ledger' = [ledger EXCEPT ![id] = x]
          /\ Len(log') >= Len(log) /\ x.seq \in 1..Len(log') /\ x.seq >= Len(log)
          /\ \A i \in 1..Len(log) : log'[i] = log[i]
      BY <1>1, <3>1, <3>2, <3>3
    <3> QED  BY <3>3, <3>4, <3>5
  <2> QED  BY <2>1, <2>2
<1>6. ledger \in [Commands -> [kind: {"none", "applied", "refused"}, seq: Nat]]
  BY <1>1 DEF SyncTypes
<1>7. Len(log') \in Nat
  <2>1. Len(log') \in 1..MaxEvents
    BY <1>5 DEF LogInv
  <2> QED  BY <2>1, SyncAssumption
<1>8. CommandInv'
  <2> SUFFICES ASSUME NEW k \in Commands
               PROVE  /\ client.ctx[k].baseline <= Len(log')
                      /\ client.ctx[k].baseline = NoSnapshot =>
                           ~client.ctx[k].valid /\ k \notin requests' /\ ledger'[k] = Undecided
                      /\ ledger'[k] # Undecided => /\ ledger'[k].seq \in 1..Len(log')
                                                   /\ ledger'[k].seq >= client.ctx[k].baseline
    BY <1>2 DEF CommandInv
  <2>1. /\ client.ctx[k].baseline <= Len(log)
        /\ client.ctx[k].baseline = NoSnapshot =>
             ~client.ctx[k].valid /\ k \notin requests /\ ledger[k] = Undecided
        /\ ledger[k] # Undecided => /\ ledger[k].seq \in 1..Len(log)
                                    /\ ledger[k].seq >= client.ctx[k].baseline
    BY <1>1 DEF CommandInv
  <2>2. client.ctx[k].baseline \in Nat
    BY <1>4
  <2>3. CASE k = id
    <3>1. ledger'[k] = entry
      BY <1>5, <1>6, <2>3
    <3>2. client.ctx[k].baseline # NoSnapshot
      BY <1>2, <2>1, <2>3
    <3> QED  BY <1>1, <1>5, <1>7, <2>1, <2>2, <3>1, <3>2
  <2>4. CASE k # id
    <3>1. ledger'[k] = ledger[k] /\ (k \notin requests => k \notin requests')
      BY <1>2, <1>5, <1>6, <2>4
    <3> QED  BY <1>1, <1>5, <1>7, <2>1, <2>2, <3>1
  <2> QED  BY <2>3, <2>4
<1>9. StateInv' /\ ShownStep
  BY <1>1, <1>2, <1>5, <1>8, ServerStep
<1>10. SyncTypes'
  <2>1. ledger' \in [Commands -> [kind: {"none", "applied", "refused"}, seq: Nat]]
    BY <1>5, <1>6
  <2> QED  BY <1>1, <1>2, <2>1, BoundsStep DEF SyncTypes
<1> QED  BY <1>9, <1>10 DEF SyncInv

LEMMA ClientMoves ==
  ASSUME SyncInv, Calm \/ Fault \/ Move, NEW x, ClientOnly(x), Good(x), Onward(client, x)
  PROVE  SyncInv' /\ ShownStep
<1>1. StateInv' /\ ShownStep /\ UNCHANGED <<gone, requests, ledger, told>>
  BY ClientStep DEF SyncInv
<1> QED  BY <1>1, SameTypes DEF SyncInv

LEMMA ClientMovesOn ==
  ASSUME SyncInv, Calm \/ Fault \/ Move, NEW x, ClientOnly(x), Good(x), Same(client, x)
  PROVE  SyncInv' /\ ShownStep
BY ClientMoves, SameIsOnward

LEMMA FailStep ==
  ASSUME SyncInv, Calm \/ Fault \/ Move, NEW error, error = "missing" => gone,
         ClientOnly(Fail(client, error))
  PROVE  SyncInv' /\ ShownStep
<1>1. StateInv' /\ ShownStep /\ UNCHANGED <<gone, requests, ledger, told>>
  BY ClientFails DEF SyncInv
<1> QED  BY <1>1, SameTypes DEF SyncInv

\* The stream that is heard has something to say that the history holds.
LEMMA OpenFacts ==
  ASSUME SyncInv, client.stream.phase = "open"
  PROVE  /\ OpenOK(client.stream, client.shown, Len(log)) /\ ~client.unavailable
         /\ client.stream.watermark \in 1..Len(log) /\ client.stream.next \in Nat \ {0}
         /\ client.shown \in 0..Len(log) /\ ContextOK(client.stream.ctx, client.shown)
         /\ client.stream.ctx \in RequestContexts
         /\ LogInv /\ Good(client) /\ Len(log) \in Nat
<1>1. LogInv /\ Good(client) /\ client \in Clients /\ Len(log) \in Nat
      /\ StreamOK(client, Len(log)) /\ Kept(client, Len(log), gone)
  BY GoodTyped, HistoryNotEmpty DEF SyncInv, StateInv, Good, Sound
<1>2. /\ client.stream.watermark \in Nat /\ client.stream.next \in Nat /\ client.shown \in Nat
      /\ client.stream.ctx \in RequestContexts
  BY <1>1, FieldTypes, InnerTypes
<1>3. OpenOK(client.stream, client.shown, Len(log)) /\ ~client.unavailable
      /\ client.stream.watermark <= Len(log) /\ ContextOK(client.stream.ctx, client.shown)
      /\ client.shown <= Len(log)
  BY <1>1 DEF StreamOK, Kept
<1>4. client.stream.watermark >= 1 /\ client.stream.next >= 1
  BY <1>3 DEF OpenOK
<1> QED  BY <1>1, <1>2, <1>3, <1>4

LEMMA NextDue ==
  ASSUME SyncInv, ReplayDue \/ LiveDue
  PROVE  /\ client.stream.phase = "open" /\ Upcoming \in 1..Len(log)
         /\ Upcoming <= client.shown + 1
<1>1. client.stream.phase = "open"
  BY DEF ReplayDue, LiveDue, StreamUp
<1>2. /\ OpenOK(client.stream, client.shown, Len(log))
      /\ client.stream.watermark \in 1..Len(log) /\ client.stream.next \in Nat \ {0}
      /\ client.shown \in 0..Len(log) /\ Len(log) \in Nat
  BY <1>1, OpenFacts
<1>3. Upcoming = client.stream.next /\ Watermark = client.stream.watermark
  BY DEF Upcoming, Watermark
<1>4. CASE ReplayDue
  BY <1>1, <1>2, <1>3, <1>4 DEF ReplayDue, OpenOK
<1>5. CASE LiveDue
  BY <1>1, <1>2, <1>3, <1>5 DEF LiveDue, OpenOK
<1> QED  BY <1>4, <1>5

LEMMA HearsStep ==
  ASSUME SyncInv, Calm, ReplayDue \/ LiveDue, HearsEvent(Upcoming)
  PROVE  SyncInv' /\ ShownStep
<1>1. /\ client.stream.phase = "open" /\ Upcoming \in 1..Len(log)
      /\ Upcoming <= client.shown + 1 /\ Upcoming = client.stream.next
  BY NextDue DEF Upcoming
<1>2. StateInv' /\ ShownStep /\ UNCHANGED <<gone, requests, ledger, told>>
  BY <1>1, HearsGood DEF SyncInv
<1> QED  BY <1>2, SameTypes DEF SyncInv

\* The snapshot at the watermark is no older than the request for the stream.
LEMMA SnapshotBelieved ==
  ASSUME SyncInv, SnapshotDue
  PROVE  Decision(client.shown, Watermark, "calibration", client.stream.ctx)
           \in {"accepted", "superseded"} \/ ~client.stream.ctx.valid
<1>1. client.stream.phase = "open"
  BY DEF SnapshotDue, StreamUp
<1>2. /\ OpenOK(client.stream, client.shown, Len(log))
      /\ client.stream.watermark \in 1..Len(log) /\ client.shown \in 0..Len(log)
      /\ ContextOK(client.stream.ctx, client.shown) /\ client.stream.ctx \in RequestContexts
      /\ LogInv
  BY <1>1, OpenFacts
<1>3. client.stream.watermark >= client.stream.ctx.baseline
  <2>1. client.stream.ctx.baseline \in Nat /\ client.stream.watermark \in Nat
    BY <1>2 DEF RequestContexts
  <2>2. client.stream.ctx.baseline <= client.stream.watermark
    BY <1>2 DEF OpenOK
  <2> QED  BY <2>1, <2>2
<1> QED  BY <1>2, <1>3, AnswerIsBelieved DEF Watermark

LEMMA SnapshotStep ==
  ASSUME SyncInv, Snapshot
  PROVE  SyncInv' /\ ShownStep
<1>1. PICK v : v = Verdict(client, client.stream.ctx, Watermark, "calibration")
  OBVIOUS
<1>2. /\ SnapshotDue /\ Calm
      /\ ClientOnly(IF Refused(v) THEN Fail(client, v) ELSE SnapshotHeard(client, v, Watermark))
  BY <1>1 DEF Snapshot, Heard
<1>3. /\ client.stream.phase = "open" /\ ~client.stream.snapshotSeen
      /\ client.stream.next > client.stream.watermark /\ Watermark = client.stream.watermark
  BY <1>2 DEF SnapshotDue, StreamUp, Upcoming, Watermark
<1>4. CASE Refused(v)
  <2>1. v # "missing"
    BY <1>4 DEF Refused
  <2> QED  BY <1>2, <1>4, <2>1, FailStep
<1>5. CASE ~Refused(v)
  <2>1. LogInv /\ Good(client) /\ Watermark \in 1..Len(log)
    BY <1>3, OpenFacts
  <2>2. v \in {"accepted", "superseded"}
    BY <1>1, <1>2, <1>5, SnapshotBelieved DEF Verdict, Refused
  <2>3. /\ v = "accepted" => Watermark >= client.shown
        /\ v = "superseded" => Watermark <= client.shown
    BY <1>1, <2>1, <2>2, VerdictMeans DEF Modes
  <2>4. PICK x : x = SnapshotHeard(client, v, Watermark)
    OBVIOUS
  <2>5. Good(x) /\ Onward(client, x)
    BY <1>3, <2>1, <2>2, <2>3, <2>4, SnapshotHeardGood
  <2> QED  BY <1>2, <1>5, <2>4, <2>5, ClientMoves
<1> QED  BY <1>4, <1>5

LEMMA StallsStep ==
  ASSUME SyncInv, Stalls
  PROVE  SyncInv' /\ ShownStep
<1>1. /\ client.stream.phase = "open" /\ Fault
      /\ client' = [client EXCEPT !.stream.stalled = TRUE]
      /\ UNCHANGED <<Server, told>>
  BY DEF Stalls, StreamUp
<1>2. /\ OpenOK(client.stream, client.shown, Len(log)) /\ LogInv /\ Good(client)
      /\ client \in Clients /\ StreamOK(client, Len(log)) /\ client.cut = {}
      /\ SyncTypes /\ StateInv
  BY <1>1, OpenFacts, GoodTyped DEF SyncInv, StateInv, Good, Sound
<1>3. client.stream \in Streams
  BY <1>2, FieldTypes
<1>4. PICK t : t = [client.stream EXCEPT !.stalled = TRUE]
  OBVIOUS
<1>5. /\ t \in Streams /\ t.next = client.stream.next /\ t.phase = client.stream.phase
      /\ t.watermark = client.stream.watermark /\ t.snapshotSeen = client.stream.snapshotSeen
      /\ t.gapCursor = client.stream.gapCursor /\ t.barrier = client.stream.barrier
      /\ t.ctx = client.stream.ctx
  <2>1. 0 \in Nat
    OBVIOUS
  <2> QED  BY <1>3, <1>4, <2>1, StreamEdited
<1>6. PICK d : d = WithStream(client, t)
  OBVIOUS
<1>7. client' = d
  BY <1>1, <1>4, <1>6 DEF WithStream
<1>8. t.next <= Len(log) + 1
  BY <1>2, <1>5 DEF StreamOK
<1>9. OpenOK(t, client.shown, Len(log))
  BY <1>2, <1>5 DEF OpenOK
<1>10. Good(d) /\ Same(client, d)
  BY <1>1, <1>2, <1>5, <1>6, <1>8, <1>9, StreamMoved
<1>11. d.cut = {}
  BY <1>2, <1>5, <1>6, StreamSet
<1>12. Passing(client, d) /\ d.busy = client.busy /\ d.pending = client.pending
  BY <1>10, SameIsOnward DEF Onward
<1>13. UNCHANGED <<log, gone, requests, ledger, told>>
  BY <1>1 DEF Server
<1>14. StateInv' /\ ShownStep
  BY <1>2, <1>7, <1>10, <1>11, <1>12, <1>13, PassingStep
<1> QED  BY <1>1, <1>2, <1>13, <1>14, SameTypes DEF SyncInv

LEMMA StreamStep ==
  ASSUME SyncInv, Opens \/ NotFound \/ Replay \/ Live \/ Overtaken \/ Breaks \/ Silence \/ Retry
  PROVE  SyncInv' /\ ShownStep
<1>0. LogInv /\ Good(client) /\ client \in Clients /\ Kept(client, Len(log), gone)
  BY GoodTyped DEF SyncInv, StateInv
<1>1. CASE Opens
  <2>1. PICK x : x = Opened(client, Len(log))
    OBVIOUS
  <2>2. client.stream.phase = "asked" /\ ~gone /\ Calm /\ ClientOnly(x)
    BY <1>1, <2>1 DEF Opens
  <2>3. Good(x) /\ Same(client, x)
    BY <1>0, <2>1, <2>2, OpenedGood
  <2> QED  BY <2>2, <2>3, ClientMovesOn
<1>2. CASE NotFound
  BY <1>2, FailStep DEF NotFound
<1>3. CASE Replay
  BY <1>3, HearsStep DEF Replay
<1>4. CASE Live
  BY <1>4, HearsStep DEF Live
<1>5. CASE Overtaken
  BY <1>5, FailStep DEF Overtaken
<1>6. CASE Breaks
  <2>1. PICK error \in {"network", "protocol"} : ClientOnly(Fail(client, error))
    BY <1>6 DEF Breaks
  <2>2. error # "missing" /\ Fault
    BY <1>6 DEF Breaks
  <2> QED  BY <2>1, <2>2, FailStep
<1>7. CASE Silence
  BY <1>7, FailStep DEF Silence
<1>8. CASE Retry
  <2>1. PICK x : x = Connect(client)
    OBVIOUS
  <2>2. Visible(client) /\ Calm /\ ClientOnly(x)
    BY <1>8, <2>1 DEF Retry
  <2>3. Good(x) /\ Same(client, x)
    BY <1>0, <2>1, <2>2, ConnectGood
  <2> QED  BY <2>2, <2>3, ClientMovesOn
<1> QED  BY <1>1, <1>2, <1>3, <1>4, <1>5, <1>6, <1>7, <1>8

-----------------------------------------------------------------------------
(* Answers *)

LEMMA ReadStep ==
  ASSUME SyncInv, ReadAnswers \/ ReadFails
  PROVE  SyncInv' /\ ShownStep
<1>0. LogInv /\ Good(client)
  BY DEF SyncInv, StateInv
<1>1. ASSUME NEW error, error = "missing" => gone, ClientOnly(ReadFailed(client, error)),
             Calm \/ Fault \/ Move
      PROVE  SyncInv' /\ ShownStep
  <2>1. PICK x : x = ReadFailed(client, error)
    OBVIOUS
  <2>2. Good(x) /\ ErrorEffect(client, x, error)
    BY <1>0, <1>1, <2>1, ReadFailedGood
  <2>3. Onward(client, x)
    BY <2>2, ForgettingIsOnward, SameIsOnward DEF ErrorEffect
  <2> QED  BY <1>1, <2>1, <2>2, <2>3, ClientMoves
<1>2. CASE ReadAnswers
  <2>1. CASE gone /\ ClientOnly(ReadFailed(client, "missing"))
    BY <1>1, <1>2, <2>1 DEF ReadAnswers
  <2>2. CASE \E n \in client.read.since..Len(log) : ClientOnly(ReadAnswered(client, n))
    <3>1. PICK n \in client.read.since..Len(log) : ClientOnly(ReadAnswered(client, n))
      BY <2>2
    <3>2. PICK x : x = ReadAnswered(client, n)
      OBVIOUS
    <3>3. client.read.active /\ Calm
      BY <1>2 DEF ReadAnswers
    <3>4. Good(x) /\ Onward(client, x)
      BY <1>0, <3>2, <3>3, ReadAnsweredGood
    <3> QED  BY <3>1, <3>2, <3>3, <3>4, ClientMoves
  <2> QED  BY <1>2, <2>1, <2>2 DEF ReadAnswers
<1>3. CASE ReadFails
  <2>1. PICK error \in {"network", "protocol"} : ClientOnly(ReadFailed(client, error))
    BY <1>3 DEF ReadFails
  <2>2. error # "missing" /\ Fault
    BY <1>3 DEF ReadFails
  <2> QED  BY <1>1, <2>1, <2>2
<1> QED  BY <1>2, <1>3

\* An answer to the command under way, or none: it is known to the player, kept
\* for the player, or unwanted.
LEMMA AnswerStep ==
  ASSUME SyncInv, client.busy # NoCommand, NEW kind \in AnswerKinds, NEW n,
         kind = "missing" => gone, kind \in {"applied", "refused"} => n \in 1..Len(log),
         Becomes(CommandAnswered(client, client.busy, kind, n)),
         UNCHANGED <<log, gone, ledger>>, requests' \subseteq requests,
         told' = told \cup {client.busy} \/ (kind = "lost" /\ told' = told),
         Calm \/ Fault \/ Move
  PROVE  SyncInv' /\ ShownStep
<1>1. LogInv /\ Good(client) /\ client \in Clients /\ SyncTypes /\ StateInv
  BY GoodTyped DEF SyncInv, StateInv
<1>2. client.busy \in Commands
  BY <1>1, FieldTypes
<1>3. PICK x : x = CommandAnswered(client, client.busy, kind, n)
  OBVIOUS
<1>4. PICK d : d = Settled(x)
  OBVIOUS
<1>5. client' = d
  BY <1>3, <1>4 DEF Becomes
<1>6. /\ Good(x) /\ Passing(client, x) /\ x.busy = NoCommand
      /\ client.pending \ {client.busy} \subseteq x.pending
      /\ kind = "lost" =>
           /\ client.pending \subseteq x.pending
           /\ client.busy \in x.pending \/ Ended(x.shown) \/ ~x.ctx[client.busy].valid
  BY <1>1, <1>2, <1>3, CommandAnsweredGood
<1>7. Good(d) /\ Same(x, d) /\ d.cut = {}
  BY <1>1, <1>4, <1>6, SettledGood
<1>8. Passing(client, d)
  BY <1>6, <1>7 DEF Passing, Same
<1>9. ASSUME NEW id \in Commands
      PROVE  \/ id \in told' \cup d.pending \/ d.busy = id
             \/ Ended(d.shown) \/ ~d.ctx[id].valid
             \/ /\ client.busy # id
                /\ id \in told \cup client.pending => id \in told' \cup d.pending
  <2>1. d.pending = x.pending /\ d.shown = x.shown /\ d.ctx = x.ctx
    BY <1>7 DEF Same
  <2>2. CASE id = client.busy
    BY <1>6, <2>1, <2>2
  <2>3. CASE id # client.busy
    BY <1>6, <2>1, <2>3
  <2> QED  BY <2>2, <2>3
<1>10. StateInv' /\ ShownStep
  BY <1>1, <1>5, <1>7, <1>8, <1>9, PassingStep
<1>11. SyncTypes'
  BY <1>1, <1>2, BoundsStep DEF SyncTypes
<1> QED  BY <1>10, <1>11 DEF SyncInv

LEMMA AnswersStep ==
  ASSUME SyncInv, CommandAnswers \/ Declines \/ AnswerLost
  PROVE  SyncInv' /\ ShownStep
<1>0. /\ LogInv /\ Good(client) /\ client \in Clients /\ CommandInv
      /\ client.busy \in Commands \cup {NoCommand}
      /\ ledger \in [Commands -> [kind: {"none", "applied", "refused"}, seq: Nat]]
  BY GoodTyped, FieldTypes DEF SyncInv, StateInv, SyncTypes
<1>1. CASE CommandAnswers
  <2>1. PICK kind \in {"applied", "refused", "missing", "declined"} :
          /\ kind \in {"applied", "refused"} => ledger[client.busy].kind = kind
          /\ kind = "missing"  => gone
          /\ told' = told \cup {client.busy}
          /\ requests' = requests \ {client.busy}
          /\ Becomes(CommandAnswered(client, client.busy, kind, ledger[client.busy].seq))
    BY <1>1 DEF CommandAnswers
  <2>2. client.busy # NoCommand /\ Calm /\ UNCHANGED <<log, gone, ledger>>
    BY <1>1 DEF CommandAnswers
  <2>3. client.busy \in Commands /\ kind \in AnswerKinds
    BY <1>0, <2>2 DEF AnswerKinds
  <2>4. kind \in {"applied", "refused"} => ledger[client.busy] # Undecided
    BY <2>1 DEF Undecided
  <2>5. kind \in {"applied", "refused"} => ledger[client.busy].seq \in 1..Len(log)
    BY <1>0, <2>3, <2>4 DEF CommandInv
  <2>6. PICK n : n = ledger[client.busy].seq
    OBVIOUS
  <2> QED  BY <2>1, <2>2, <2>3, <2>5, <2>6, AnswerStep
<1>2. CASE Declines
  <2>1. "declined" \in AnswerKinds
    BY DEF AnswerKinds
  <2>2. /\ client.busy # NoCommand /\ Fault /\ UNCHANGED <<log, gone, ledger>>
        /\ Becomes(CommandAnswered(client, client.busy, "declined", NoSnapshot))
        /\ told' = told \cup {client.busy} /\ requests' \subseteq requests
    BY <1>2 DEF Declines
  <2> QED  BY <2>1, <2>2, AnswerStep
<1>3. CASE AnswerLost
  <2>1. "lost" \in AnswerKinds
    BY DEF AnswerKinds
  <2>2. /\ client.busy # NoCommand /\ Fault /\ UNCHANGED <<log, gone, ledger>>
        /\ Becomes(CommandAnswered(client, client.busy, "lost", NoSnapshot))
        /\ told' = told /\ requests' \subseteq requests
    BY <1>3 DEF AnswerLost
  <2> QED  BY <2>1, <2>2, AnswerStep
<1> QED  BY <1>1, <1>2, <1>3

-----------------------------------------------------------------------------
(* What the player does *)

LEMMA VisitStep ==
  ASSUME SyncInv, Acquire \/ Release \/ Hide \/ Show
  PROVE  SyncInv' /\ ShownStep
<1>0. LogInv /\ Good(client)
  BY DEF SyncInv, StateInv
<1>1. CASE Acquire
  <2>1. PICK k : k = IF Ended(client.shown) THEN Finish(client, "ended") ELSE client
    OBVIOUS
  <2>2. PICK m : m = WithMounted(k, TRUE)
    OBVIOUS
  <2>3. PICK x : x = IF Terminal(m.status) THEN StartRead(m, {"reopen"}) ELSE Restart(m)
    OBVIOUS
  <2>4. ClientOnly(x) /\ Calm
    BY <1>1, <2>1, <2>2, <2>3 DEF Acquire, WithMounted
  <2>5. Good(x) /\ Onward(client, x)
    BY <1>0, <2>1, <2>2, <2>3, AcquireGood
  <2> QED  BY <2>4, <2>5, ClientMoves
<1>2. CASE Release
  <2>1. PICK x : x = CancelRead(Invalidate(Finish(WithMounted(client, FALSE), "idle")))
    OBVIOUS
  <2>2. ClientOnly(x) /\ Move
    BY <1>2, <2>1 DEF Release, WithMounted
  <2>3. Good(x) /\ Onward(client, x)
    BY <1>0, <2>1, ReleaseGood
  <2> QED  BY <2>2, <2>3, ClientMoves
<1>3. CASE Hide
  <2>1. PICK m : m = WithHidden(client, TRUE)
    OBVIOUS
  <2>2. PICK x : x = IF Follows(m) THEN Finish(m, "suspended") ELSE m
    OBVIOUS
  <2>3. ClientOnly(x) /\ Move
    BY <1>3, <2>1, <2>2 DEF Hide, WithHidden
  <2>4. x \in {m, Finish(m, "suspended"), Restart(m)} /\ TRUE \in BOOLEAN
    BY <2>2
  <2>5. Good(x) /\ Onward(client, x)
    BY <1>0, <2>1, <2>4, VisibilityGood
  <2> QED  BY <2>3, <2>5, ClientMoves
<1>4. CASE Show
  <2>1. PICK m : m = WithHidden(client, FALSE)
    OBVIOUS
  <2>2. PICK x : x = IF Follows(m) THEN Restart(m) ELSE m
    OBVIOUS
  <2>3. ClientOnly(x) /\ Calm
    BY <1>4, <2>1, <2>2 DEF Show, WithHidden
  <2>4. x \in {m, Finish(m, "suspended"), Restart(m)} /\ FALSE \in BOOLEAN
    BY <2>2
  <2>5. Good(x) /\ Onward(client, x)
    BY <1>0, <2>1, <2>4, VisibilityGood
  <2> QED  BY <2>3, <2>5, ClientMoves
<1> QED  BY <1>1, <1>2, <1>3, <1>4

LEMMA LookStep ==
  ASSUME SyncInv, Focus \/ Refresh \/ Display \/ Freeze \/ Thaw
  PROVE  SyncInv' /\ ShownStep
<1>0. LogInv /\ Good(client)
  BY DEF SyncInv, StateInv
<1>1. {} \in SUBSET Waiters /\ {"reopen"} \in SUBSET Waiters /\ "diagnosis" \notin {"reopen"}
  BY DEF Waiters
<1>2. CASE Focus
  <2>1. PICK x : x = Calibrate(client)
    OBVIOUS
  <2>2. ClientOnly(x) /\ Move
    BY <1>2, <2>1 DEF Focus
  <2>3. Good(x) /\ Same(client, x)
    BY <1>0, <2>1, CalibrateGood
  <2> QED  BY <2>2, <2>3, ClientMovesOn
<1>3. CASE Refresh
  <2>1. PICK x : x = IF Visible(client) /\ ~Terminal(client.status) THEN Restart(client)
                     ELSE StartRead(client, {"reopen"})
    OBVIOUS
  <2>2. ClientOnly(x) /\ Move
    BY <1>3, <2>1 DEF Refresh
  <2>3. Good(x) /\ Same(client, x)
    <3>1. CASE x = Restart(client)
      BY <1>0, <3>1, RestartGood
    <3>2. CASE x = StartRead(client, {"reopen"})
      BY <1>0, <1>1, <3>2, StartReadGood
    <3> QED  BY <2>1, <3>1, <3>2
  <2> QED  BY <2>2, <2>3, ClientMovesOn
<1>4. CASE Display
  <2>1. PICK x : x = StartRead(client, {})
    OBVIOUS
  <2>2. ClientOnly(x) /\ Move
    BY <1>4, <2>1 DEF Display
  <2>3. Good(x) /\ Same(client, x)
    BY <1>0, <1>1, <2>1, StartReadGood
  <2> QED  BY <2>2, <2>3, ClientMovesOn
<1>5. CASE Freeze
  <2>1. PICK x : x = Finish(Invalidate(WithFrozen(client, TRUE)), "blocked")
    OBVIOUS
  <2>2. ClientOnly(x) /\ Move
    BY <1>5, <2>1 DEF Freeze, WithFrozen
  <2>3. Good(x) /\ Onward(client, x)
    BY <1>0, <2>1, FreezeGood
  <2> QED  BY <2>2, <2>3, ClientMoves
<1>6. CASE Thaw
  <2>1. PICK m : m = WithFrozen(client, FALSE)
    OBVIOUS
  <2>2. client.frozen
    BY <1>6 DEF Thaw
  <2>3. \/ gone /\ Calm /\ ClientOnly(Forgotten(m))
        \/ (Calm \/ Fault) /\ ClientOnly(StartRead(m, {"thaw"}))
    BY <1>6, <2>1 DEF Thaw, WithFrozen
  <2>4. PICK x : /\ ClientOnly(x) /\ (Calm \/ Fault)
                 /\ x = StartRead(m, {"thaw"}) \/ (gone /\ x = Forgotten(m))
    BY <2>3
  <2>5. Good(x) /\ Onward(client, x)
    BY <1>0, <2>1, <2>2, <2>4, ThawGood
  <2> QED  BY <2>4, <2>5, ClientMoves
<1> QED  BY <1>2, <1>3, <1>4, <1>5, <1>6

\* A step that sends or drops a command and leaves what is shown alone.
LEMMA CommandStep ==
  ASSUME SyncInv, NEW d, client' = d, Good(d), d.cut = {}, d.shown = client.shown,
         UNCHANGED <<log, gone, ledger>>, requests' \subseteq Commands,
         told' \subseteq Commands, Calm \/ Move, CommandInv', UnansweredIsPending'
  PROVE  SyncInv' /\ ShownStep
<1>1. LogInv /\ SyncTypes /\ StateInv
  BY DEF SyncInv, StateInv
<1>2. LogInv' /\ Good(client)'
  BY <1>1 DEF LogInv, Good
<1>3. StateInv'
  BY <1>2 DEF StateInv
<1>4. ShownStep
  BY <1>1, ShownKept
<1>5. SyncTypes'
  BY <1>1, BoundsStep DEF SyncTypes
<1> QED  BY <1>3, <1>4, <1>5 DEF SyncInv

WithContext(c, id, x) == [c EXCEPT !.ctx[id] = x]

LEMMA ContextSet ==
  ASSUME NEW c \in Clients, NEW id \in Commands, NEW x \in RequestContexts,
         NEW d, d = WithContext(c, id, x)
  PROVE  /\ d \in Clients /\ d.shown = c.shown /\ d.frozen = c.frozen
         /\ d.unavailable = c.unavailable /\ d.stream = c.stream /\ d.read = c.read
         /\ d.status = c.status /\ d.cut = c.cut /\ d.pending = c.pending
         /\ d.ctx[id] = x /\ \A k \in Commands \ {id} : d.ctx[k] = c.ctx[k]
BY DEF Clients, WithContext

LEMMA SubmitStep ==
  ASSUME SyncInv, NEW id \in Commands, Submit(id)
  PROVE  SyncInv' /\ ShownStep
<1>0. /\ LogInv /\ Good(client) /\ client \in Clients /\ CommandInv /\ UnansweredIsPending
      /\ client.cut = {} /\ SyncTypes /\ Len(log) \in Nat
      /\ Kept(client, Len(log), gone) /\ StreamOK(client, Len(log)) /\ ReadOK(client, Len(log))
  BY GoodTyped, HistoryNotEmpty DEF SyncInv, StateInv, Good, Sound
<1>1. PICK x : x = Begin(client)
  OBVIOUS
<1>2. PICK m : m = WithContext(client, id, x)
  OBVIOUS
<1>3. PICK d : d = WithBusy(m, id)
  OBVIOUS
<1>4. /\ client' = d /\ requests' = requests \cup {id} /\ Calm
      /\ UNCHANGED <<log, gone, ledger, told>>
      /\ ~client.frozen /\ client.busy = NoCommand /\ client.shown # NoSnapshot
      /\ client.ctx[id] = NoContext
  BY <1>1, <1>2, <1>3 DEF Submit, Send, Gate, WithBusy, WithContext
<1>5. x \in RequestContexts /\ x.valid /\ x.baseline = client.shown /\ ContextOK(x, client.shown)
  BY <1>0, <1>1, BeginFacts
<1>6. /\ m \in Clients /\ m.shown = client.shown /\ m.frozen = client.frozen
      /\ m.unavailable = client.unavailable /\ m.stream = client.stream
      /\ m.read = client.read /\ m.status = client.status /\ m.cut = client.cut
      /\ m.pending = client.pending
      /\ m.ctx[id] = x /\ \A k \in Commands \ {id} : m.ctx[k] = client.ctx[k]
  BY <1>0, <1>2, <1>5, ContextSet
<1>7. Kept(m, Len(log), gone)
  <2>1. \A k \in Commands : ContextOK(m.ctx[k], m.shown)
    BY <1>0, <1>5, <1>6 DEF Kept
  <2> QED  BY <1>0, <1>4, <1>6, <2>1 DEF Kept
<1>8. StreamOK(m, Len(log))
  BY <1>0, <1>6 DEF StreamOK
<1>9. ReadOK(m, Len(log))
  BY <1>0, <1>6 DEF ReadOK
<1>10. Good(m)
  BY <1>6, <1>7, <1>8, <1>9 DEF Good, Sound
<1>11. d \in Clients /\ SameView(m, d) /\ d.pending = m.pending /\ d.busy = id
  BY <1>3, <1>6, BusySet
<1>12. Good(d)
  BY <1>10, <1>11, ViewGood
<1>13. d.cut = {}
  BY <1>0, <1>3, <1>6 DEF Clients, WithBusy
<1>14. d.shown = client.shown /\ d.ctx = m.ctx /\ d.pending = client.pending
  BY <1>6, <1>11 DEF SameView
<1>15. client.shown \in Nat /\ client.shown <= Len(log)
  BY <1>0, FieldTypes DEF Kept
<1>16. CommandInv'
  <2> SUFFICES ASSUME NEW k \in Commands
               PROVE  /\ d.ctx[k].baseline <= Len(log)
                      /\ d.ctx[k].baseline = NoSnapshot =>
                           ~d.ctx[k].valid /\ k \notin requests' /\ ledger[k] = Undecided
                      /\ ledger[k] # Undecided => /\ ledger[k].seq \in 1..Len(log)
                                                  /\ ledger[k].seq >= d.ctx[k].baseline
    BY <1>4 DEF CommandInv
  <2>1. CASE k = id
    <3>1. client.ctx[k].baseline = NoSnapshot
      BY <1>4, <2>1, NothingKnown DEF NoSnapshot
    <3>2. ledger[k] = Undecided
      BY <1>0, <3>1 DEF CommandInv
    <3> QED  BY <1>4, <1>5, <1>6, <1>14, <1>15, <2>1, <3>2
  <2>2. CASE k # id
    <3>1. d.ctx[k] = client.ctx[k] /\ (k \notin requests => k \notin requests')
      BY <1>4, <1>6, <1>14, <2>2
    <3> QED  BY <1>0, <3>1 DEF CommandInv
  <2> QED  BY <2>1, <2>2
<1>17. UnansweredIsPending'
  <2> SUFFICES ASSUME NEW k \in Commands, d.ctx[k].valid, d.busy # k
               PROVE  k \in told' \cup d.pending \/ Ended(d.shown)'
    BY <1>4 DEF UnansweredIsPending
  <2>1. d.ctx[k] = client.ctx[k] /\ client.busy # k
    BY <1>4, <1>6, <1>11, <1>14, SyncAssumption
  <2>2. k \in told \cup client.pending \/ Ended(client.shown)
    BY <1>0, <2>1 DEF UnansweredIsPending
  <2> QED  BY <1>4, <1>14, <2>2 DEF Ended
<1>18. requests' \subseteq Commands /\ told' \subseteq Commands
  BY <1>0, <1>4 DEF SyncTypes
<1> QED  BY <1>4, <1>12, <1>13, <1>14, <1>16, <1>17, <1>18, CommandStep

LEMMA AgainStep ==
  ASSUME SyncInv, NEW id \in Commands, Resend(id) \/ Abandon(id)
  PROVE  SyncInv' /\ ShownStep
<1>0. /\ LogInv /\ Good(client) /\ client \in Clients /\ CommandInv /\ UnansweredIsPending
      /\ client.cut = {} /\ SyncTypes
  BY GoodTyped DEF SyncInv, StateInv
<1>1. CASE Resend(id)
  <2>1. PICK d : d = WithBusy(client, id)
    OBVIOUS
  <2>2. /\ client' = d /\ requests' = requests \cup {id} /\ Move /\ client.ctx[id].valid
        /\ UNCHANGED <<log, gone, ledger, told>> /\ client.busy = NoCommand
    BY <1>1, <2>1 DEF Resend, Send, Gate, WithBusy
  <2>3. d \in Clients /\ SameView(client, d) /\ d.pending = client.pending /\ d.busy = id
    BY <1>0, <2>1, BusySet
  <2>4. Good(d)
    BY <1>0, <2>3, ViewGood
  <2>5. d.cut = {}
    BY <1>0, <2>1 DEF Clients, WithBusy
  <2>6. d.shown = client.shown /\ d.ctx = client.ctx
    BY <2>3 DEF SameView
  <2>7. client.ctx[id].baseline # NoSnapshot
    BY <1>0, <2>2 DEF CommandInv
  <2>8. CommandInv'
    BY <1>0, <2>2, <2>6, <2>7 DEF CommandInv
  <2>9. UnansweredIsPending'
    <3> SUFFICES ASSUME NEW k \in Commands, d.ctx[k].valid, d.busy # k
                 PROVE  k \in told' \cup d.pending \/ Ended(d.shown)'
      BY <2>2 DEF UnansweredIsPending
    <3>1. client.ctx[k].valid /\ client.busy # k
      BY <2>2, <2>6, SyncAssumption
    <3> QED  BY <1>0, <2>2, <2>3, <2>6, <3>1 DEF UnansweredIsPending, Ended
  <2>10. requests' \subseteq Commands /\ told' \subseteq Commands
    BY <1>0, <2>2 DEF SyncTypes
  <2> QED  BY <2>2, <2>4, <2>5, <2>6, <2>8, <2>9, <2>10, CommandStep
<1>2. CASE Abandon(id)
  <2>1. PICK d : d = WithPending(client, client.pending \ {id})
    OBVIOUS
  <2>2. /\ client' = d /\ told' = told \cup {id} /\ Calm
        /\ UNCHANGED <<log, gone, ledger, requests>>
    BY <1>2, <2>1 DEF Abandon, WithPending, Server
  <2>3. client.pending \ {id} \in SUBSET Commands
    BY <1>0, FieldTypes
  <2>4. /\ d \in Clients /\ SameView(client, d) /\ d.pending = client.pending \ {id}
        /\ d.busy = client.busy
    BY <1>0, <2>1, <2>3, PendingSet
  <2>5. Good(d)
    BY <1>0, <2>4, ViewGood
  <2>6. d.cut = {}
    BY <1>0, <2>1 DEF Clients, WithPending
  <2>7. d.shown = client.shown /\ d.ctx = client.ctx
    BY <2>4 DEF SameView
  <2>8. CommandInv'
    BY <1>0, <2>2, <2>7 DEF CommandInv
  <2>9. UnansweredIsPending'
    <3> SUFFICES ASSUME NEW k \in Commands, d.ctx[k].valid, d.busy # k
                 PROVE  k \in told' \cup d.pending \/ Ended(d.shown)'
      BY <2>2 DEF UnansweredIsPending
    <3> QED  BY <1>0, <2>2, <2>4, <2>7 DEF UnansweredIsPending, Ended
  <2>10. requests' \subseteq Commands /\ told' \subseteq Commands
    BY <1>0, <2>2 DEF SyncTypes
  <2> QED  BY <2>2, <2>5, <2>6, <2>7, <2>8, <2>9, <2>10, CommandStep
<1> QED  BY <1>1, <1>2

LEMMA NextSync == SyncInv /\ [Next]_vars => SyncInv' /\ (ShownStep \/ UNCHANGED vars)
<1> SUFFICES ASSUME SyncInv, [Next]_vars PROVE SyncInv' /\ (ShownStep \/ UNCHANGED vars)
  OBVIOUS
<1>1. CASE Environment
  BY <1>1, CommitStep, EraseStep, StreamStep, StallsStep, ReadStep, AnswersStep
  DEF Environment
<1>2. CASE Player
  BY <1>2, VisitStep, LookStep, SubmitStep, AgainStep DEF Player
<1>3. CASE Work
  BY <1>3, PublishStep, StreamStep, SnapshotStep, ReadStep, AnswersStep, LookStep, DecideStep
  DEF Work
<1>4. CASE UNCHANGED vars
  <2>1. log' = log /\ client' = client /\ gone' = gone /\ requests' = requests
        /\ ledger' = ledger /\ told' = told /\ faults' = faults /\ moves' = moves
    BY <1>4 DEF vars
  <2>2. LogInv' /\ CommandInv' /\ UnansweredIsPending'
    BY <2>1 DEF SyncInv, StateInv, LogInv, CommandInv, UnansweredIsPending, Ended
  <2>3. Good(client)' /\ client'.cut = {}
    BY <2>1 DEF SyncInv, StateInv, Good
  <2>4. SyncTypes'
    BY <2>1 DEF SyncInv, SyncTypes
  <2> QED  BY <1>4, <2>2, <2>3, <2>4 DEF SyncInv, StateInv
<1> QED  BY <1>1, <1>2, <1>3, <1>4 DEF Next

LEMMA InitSync == Init => SyncInv
<1> SUFFICES ASSUME Init PROVE SyncInv
  OBVIOUS
<1>1. /\ Len(log) = 1 /\ log \in Seq(Events) /\ log[1].version = 1
      /\ client = InitialClient /\ gone = FALSE /\ requests = {} /\ told = {}
      /\ faults = 0 /\ moves = 0
  BY DEF Init, Event, Events
<1>2. /\ client.shown = 0 /\ ~client.frozen /\ ~client.unavailable /\ client.cut = {}
      /\ client.status = "idle" /\ client.stream = NoStream /\ client.read = NoRead
      /\ \A id \in Commands : client.ctx[id] = NoContext
  BY <1>1 DEF InitialClient, NoSnapshot
<1>3. \A id \in Commands : ledger[id] = Undecided
  BY DEF Init
<1>4. LogInv
  BY <1>1, SyncAssumption DEF LogInv
<1>5. CommandInv /\ UnansweredIsPending
  BY <1>1, <1>2, <1>3, NothingKnown DEF CommandInv, UnansweredIsPending, NoSnapshot
<1>6. Good(client)
  <2>1. client \in Clients
    BY <1>1, NothingTyped
  <2>2. Kept(client, Len(log), gone)
    BY <1>1, <1>2, NothingKnown DEF Kept, ContextOK
  <2>3. Bare(client)
    BY <1>2 DEF Bare
  <2> QED  BY <1>1, <2>1, <2>2, <2>3, BareIsSound DEF Good
<1>7. ledger \in [Commands -> [kind: {"none", "applied", "refused"}, seq: Nat]]
  <2>1. Undecided \in [kind: {"none", "applied", "refused"}, seq: Nat]
    BY DEF Undecided, NoSnapshot
  <2> QED  BY <2>1 DEF Init
<1>8. SyncTypes
  <2>1. gone \in BOOLEAN /\ requests \subseteq Commands /\ told \subseteq Commands
    BY <1>1
  <2>2. 0 \in 0..MaxFaults /\ 0 \in 0..MaxMoves
    BY SyncAssumption
  <2>3. faults \in 0..MaxFaults /\ moves \in 0..MaxMoves
    BY <1>1, <2>2
  <2> QED  BY <1>7, <2>1, <2>3 DEF SyncTypes
<1>9. client.cut = {}
  BY <1>2
<1> QED  BY <1>4, <1>5, <1>6, <1>8, <1>9 DEF SyncInv, StateInv

-----------------------------------------------------------------------------
(* The theorems *)

\* Whatever the server, the network and the player do, the client is sound: what
\* it shows, its stream, its read and its commands fit the history.
THEOREM SyncInvariant == Spec => []SyncInv
<1>1. SyncInv /\ [Next]_vars => SyncInv'
  BY NextSync
<1> QED  BY <1>1, InitSync, PTL DEF Spec

LEMMA ClientTyped ==
  ASSUME SyncInv
  PROVE  client \in [shown: Seqs, status: Statuses, mounted: BOOLEAN, hidden: BOOLEAN,
                     frozen: BOOLEAN, unavailable: BOOLEAN, protocolAttempted: BOOLEAN,
                     stream: [phase: {"none", "asked", "open"}, next: 0..MaxEvents + 1,
                              watermark: Seqs, stalled: BOOLEAN, snapshotSeen: BOOLEAN,
                              gapCursor: Seqs, barrier: Seqs, ctx: Contexts],
                     read: [active: BOOLEAN, since: 0..MaxEvents + 1,
                            waiters: SUBSET Waiters, ctx: Contexts],
                     cut: {{}}, busy: Commands \cup {NoCommand}, pending: SUBSET Commands,
                     ctx: [Commands -> Contexts]]
<1>1. /\ client \in Clients /\ Kept(client, Len(log), gone) /\ StreamOK(client, Len(log))
      /\ ReadOK(client, Len(log)) /\ client.cut = {} /\ CommandInv /\ LogInv
  BY DEF SyncInv, StateInv, Good, Sound
<1>2. Len(log) \in Nat /\ Len(log) <= MaxEvents /\ MaxEvents \in Nat
  BY <1>1, SyncAssumption DEF LogInv
<1>3. /\ client.shown \in Nat /\ client.shown <= Len(log) /\ client.stream \in Streams
      /\ client.read \in Reads /\ client.ctx \in [Commands -> RequestContexts]
  BY <1>1, FieldTypes DEF Kept
<1>4. \A x \in RequestContexts : x.baseline <= Len(log) => x \in Contexts
  BY <1>2 DEF RequestContexts, Contexts, Seqs
<1>5. client.stream \in [phase: {"none", "asked", "open"}, next: 0..MaxEvents + 1,
                         watermark: Seqs, stalled: BOOLEAN, snapshotSeen: BOOLEAN,
                         gapCursor: Seqs, barrier: Seqs, ctx: Contexts]
  <2>1. client.stream.ctx \in Contexts
    BY <1>1, <1>3, <1>4, InnerTypes DEF StreamOK
  <2>2. /\ client.stream.barrier <= Len(log) /\ client.stream.gapCursor <= Len(log)
        /\ client.stream.watermark <= Len(log) /\ client.stream.next <= Len(log) + 1
        /\ client.stream.barrier \in Nat /\ client.stream.gapCursor \in Nat
        /\ client.stream.watermark \in Nat /\ client.stream.next \in Nat
    BY <1>1, <1>3, InnerTypes DEF StreamOK
  <2>3. /\ client.stream.barrier \in Seqs /\ client.stream.gapCursor \in Seqs
        /\ client.stream.watermark \in Seqs /\ client.stream.next \in 0..MaxEvents + 1
    BY <1>2, <2>2 DEF Seqs
  <2> QED  BY <1>3, <2>1, <2>3 DEF Streams
<1>6. client.read \in [active: BOOLEAN, since: 0..MaxEvents + 1, waiters: SUBSET Waiters,
                       ctx: Contexts]
  <2>1. client.read.ctx \in Contexts
    BY <1>1, <1>3, <1>4, InnerTypes DEF ReadOK
  <2>2. client.read.since \in Nat /\ client.read.since <= Len(log) + 1
    BY <1>1, <1>3, InnerTypes DEF ReadOK
  <2>3. client.read.since \in 0..MaxEvents + 1
    BY <1>2, <2>2
  <2> QED  BY <1>3, <2>1, <2>3 DEF Reads
<1>7. client.ctx \in [Commands -> Contexts]
  <2>1. \A id \in Commands : client.ctx[id] \in Contexts
    BY <1>1, <1>3, <1>4 DEF CommandInv
  <2> QED  BY <1>3, <2>1
<1>8. client.shown \in Seqs
  BY <1>2, <1>3 DEF Seqs
<1> QED  BY <1>1, <1>5, <1>6, <1>7, <1>8 DEF Clients

\* The client's records, the history and the ledger are of their types.
THEOREM TypeCorrect == Spec => []TypeOK
<1>1. SyncInv => TypeOK
  <2> SUFFICES ASSUME SyncInv PROVE TypeOK
    OBVIOUS
  <2>1. LogInv /\ CommandInv /\ SyncTypes
    BY DEF SyncInv, StateInv
  <2>2. Len(log) \in Nat /\ Len(log) \in 1..MaxEvents /\ MaxEvents \in Nat
    BY <2>1, SyncAssumption DEF LogInv
  <2>3. log \in Seq([version: 1..MaxEvents, ended: BOOLEAN,
                     state: {"committed", "published", "silent"}])
    <3>1. \A i \in 1..Len(log) :
            log[i] \in [version: 1..MaxEvents, ended: BOOLEAN,
                        state: {"committed", "published", "silent"}]
      <4> SUFFICES ASSUME NEW i \in 1..Len(log)
                   PROVE  log[i] \in [version: 1..MaxEvents, ended: BOOLEAN,
                                      state: {"committed", "published", "silent"}]
        OBVIOUS
      <4>1. log[i] \in Events /\ log[i].version \in 1..i
        BY <2>1 DEF LogInv
      <4>2. log[i].version \in 1..MaxEvents
        BY <2>2, <4>1
      <4> QED  BY <4>1, <4>2 DEF Events
    <3>2. log \in Seq(Events)
      BY <2>1 DEF LogInv
    <3>3. DOMAIN log = 1..Len(log) /\ log = [i \in 1..Len(log) |-> log[i]]
      BY <3>2, LenProperties
    <3>4. log \in [1..Len(log) -> [version: 1..MaxEvents, ended: BOOLEAN,
                                  state: {"committed", "published", "silent"}]]
      BY <3>1, <3>3
    <3>5. ASSUME NEW T, log \in [1..Len(log) -> T] PROVE log \in Seq(T)
      BY <2>2, <3>5, SeqDef
    <3> QED  BY <3>4, <3>5
  <2>4. ledger \in [Commands -> [kind: {"none", "applied", "refused"}, seq: Seqs]]
    <3>1. ASSUME NEW id \in Commands
          PROVE  ledger[id] \in [kind: {"none", "applied", "refused"}, seq: Seqs]
      <4>1. ledger[id] \in [kind: {"none", "applied", "refused"}, seq: Nat]
        BY <2>1 DEF SyncTypes
      <4>2. CASE ledger[id] = Undecided
        BY <2>2, <4>2 DEF Undecided, NoSnapshot, Seqs
      <4>3. CASE ledger[id] # Undecided
        <5>1. ledger[id].seq \in 1..Len(log)
          BY <2>1, <4>3 DEF CommandInv
        <5>2. ledger[id].seq \in Seqs
          BY <2>2, <5>1 DEF Seqs
        <5> QED  BY <4>1, <5>2
      <4> QED  BY <4>2, <4>3
    <3>2. ledger \in [Commands -> [kind: {"none", "applied", "refused"}, seq: Nat]]
      BY <2>1 DEF SyncTypes
    <3> QED  BY <3>1, <3>2
  <2> QED  BY <2>1, <2>2, <2>3, <2>4, ClientTyped DEF TypeOK, SyncTypes
<1> QED  BY <1>1, SyncInvariant, PTL

\* A connection called ready has had its own snapshot, and shows something at
\* least as new as all that was committed when that snapshot arrived.
THEOREM ReadyMeansCurrent == Spec => []ReadyIsCurrent
<1>1. SyncInv => ReadyIsCurrent
  BY DEF SyncInv, StateInv, Good, Sound, StreamOK, ReadyIsCurrent
<1> QED  BY <1>1, SyncInvariant, PTL

\* A command that got no answer is not lost: the player knows its outcome or can
\* send it again.
THEOREM UnansweredStaysPending == Spec => []UnansweredIsPending
<1>1. SyncInv => UnansweredIsPending
  BY DEF SyncInv, StateInv
<1> QED  BY <1>1, SyncInvariant, PTL

\* No event, snapshot or answer an honest server may still send, however late,
\* is taken for a fault or a gap.
THEOREM HonestyIsBelieved == Spec => []HonestServerBelieved
<1>1. SyncInv => HonestServerBelieved
  <2> SUFFICES ASSUME SyncInv PROVE HonestServerBelieved
    OBVIOUS
  <2>1. LogInv /\ Good(client) /\ CommandInv /\ client \in Clients /\ Len(log) \in Nat
        /\ Kept(client, Len(log), gone)
    BY GoodTyped, HistoryNotEmpty DEF SyncInv, StateInv
  <2>2. client.shown \in Nat /\ client.shown \in 0..Len(log)
    BY <2>1, FieldTypes DEF Kept
  <2>3. ASSUME ReplayDue \/ LiveDue
        PROVE  Heard(Upcoming, "incremental") \notin {"protocol", "gap"}
    <3>1. PICK n : n = Upcoming
      OBVIOUS
    <3>2. n \in 1..Len(log) /\ n <= client.shown + 1
      BY <2>3, <3>1, NextDue
    <3>3. Decision(client.shown, n, "incremental", client.stream.ctx) \in {"accepted", "duplicate"}
      BY <2>1, <2>2, <3>2, NextIsBelieved
    <3> QED  BY <3>1, <3>3 DEF Heard, Verdict
  <2>4. ASSUME SnapshotDue PROVE Heard(Watermark, "calibration") # "protocol"
    BY <2>4, SnapshotBelieved DEF Heard, Verdict
  <2>5. ASSUME client.read.active, NEW n \in client.read.since..Len(log)
        PROVE  Verdict(client, client.read.ctx, n, "calibration") \notin {"protocol", "cancelled"}
    BY <2>1, <2>5, ReadIsBelieved
  <2>6. ASSUME client.busy # NoCommand, ledger[client.busy] # Undecided
        PROVE  Verdict(client, client.ctx[client.busy], ledger[client.busy].seq, "calibration")
                 # "protocol"
    <3>1. client.busy \in Commands
      BY <2>1, <2>6, FieldTypes
    <3>2. PICK id \in Commands : id = client.busy
      BY <3>1
    <3>3. PICK n : n = ledger[id].seq
      OBVIOUS
    <3>4. PICK x : x = client.ctx[id]
      OBVIOUS
    <3>5. n \in 1..Len(log) /\ n >= x.baseline /\ x \in RequestContexts
          /\ ContextOK(x, client.shown)
      BY <2>1, <2>6, <3>2, <3>3, <3>4, FieldTypes DEF CommandInv, Kept
    <3>6. x.valid => Decision(client.shown, n, "calibration", x) \in {"accepted", "superseded"}
      BY <2>1, <2>2, <3>5, AnswerIsBelieved
    <3> QED  BY <3>2, <3>3, <3>4, <3>6 DEF Verdict
  <2> QED  BY <2>3, <2>4, <2>5, <2>6 DEF HonestServerBelieved
<1> QED  BY <1>1, SyncInvariant, PTL

\* Whatever the order in which stream, reads and commands answer, the player
\* never sees an older state after a newer one.
THEOREM ShownOnlyAdvances == Spec => ShownNeverGoesBack
<1>1. SyncInv /\ [Next]_vars =>
        [client'.shown # NoSnapshot => client'.shown >= client.shown]_vars
  BY NextSync DEF ShownStep
<1> QED  BY <1>1, SyncInvariant, PTL DEF Spec, ShownNeverGoesBack

\* A session known to be deleted is never shown again, by no late answer either.
THEOREM DeletedIsNeverShown == Spec => DeletedStaysGone
<1>1. SyncInv /\ [Next]_vars => [client.unavailable => client'.shown = NoSnapshot]_vars
  BY NextSync DEF ShownStep
<1> QED  BY <1>1, SyncInvariant, PTL DEF Spec, DeletedStaysGone

=============================================================================
