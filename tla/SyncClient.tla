----------------------------- MODULE SyncClient -----------------------------
(***************************************************************************)
(* The browser's side of one session: the query cache that holds the        *)
(* snapshot shown to the player, the receiver that decides which snapshot   *)
(* may replace it, and the connection that decides when commands may be     *)
(* sent.  Everything here is a function from the client's state to the      *)
(* state one handler leaves behind; SessionSync says who calls it when.     *)
(*                                                                          *)
(* A snapshot is known by the sequence number of its event: `log' is the    *)
(* session's committed history, and 0 stands for no snapshot.  The error    *)
(* texts, the other query resources and the visual effects are left out, as *)
(* are snapshots of the rare status readonlyDiagnostic, which the client     *)
(* treats as it treats ended ones.                                           *)
(***************************************************************************)
EXTENDS Naturals, Sequences, FiniteSets

CONSTANT Commands   \* the command identities this client may use

VARIABLES
  log,      \* the server's history of the session
  gone,     \* has the server deleted the session?
  client

NoSnapshot == 0
Version(n) == log[n].version
Ended(n) == n # NoSnapshot /\ log[n].ended

Statuses == {"idle", "connecting", "calibrating", "ready", "reconnecting",
             "suspended", "blocked", "ended", "missing"}
Terminal(status) == status \in {"ended", "missing"}

\* Who waits for a read: the connection's calibration, the diagnosis after a
\* protocol error, a consumer that found a terminal connection or asked for a
\* refresh, and the end of a freeze.
Waiters == {"calibration", "diagnosis", "reopen", "thaw"}
RoundWaiters == {"calibration", "diagnosis"}   \* they compare the round

NoCommand == "none"

\* The context of a request: is it still wanted, has the cache accepted a
\* snapshot since it started, and what did the cache show then?
NoContext == [valid |-> FALSE, advanced |-> FALSE, baseline |-> NoSnapshot]
NoStream == [phase |-> "none", next |-> 0, watermark |-> 0, stalled |-> FALSE,
             snapshotSeen |-> FALSE, gapCursor |-> 0, barrier |-> 0, ctx |-> NoContext]
NoRead == [active |-> FALSE, since |-> 0, waiters |-> {}, ctx |-> NoContext]

\* begin
Begin(c) == [valid |-> TRUE, advanced |-> FALSE, baseline |-> c.shown]

InitialClient ==
  [shown |-> NoSnapshot, status |-> "idle", mounted |-> FALSE, hidden |-> FALSE,
   frozen |-> FALSE, unavailable |-> FALSE, protocolAttempted |-> FALSE,
   stream |-> NoStream, read |-> NoRead, cut |-> {}, busy |-> NoCommand,
   pending |-> {}, ctx |-> [id \in Commands |-> NoContext]]

-----------------------------------------------------------------------------
(* The receiver *)

\* Broken: a calibration is always the authority; a late answer is a fault.
DecisionAlways(E, n, mode, ctx) ==
  IF mode = "incremental" /\ n <= E THEN "duplicate" ELSE "accepted"
DecisionStrict(E, n, mode, ctx) ==
  IF n >= E THEN "accepted" ELSE IF mode = "incremental" THEN "duplicate" ELSE "protocol"

\* decideSnapshot: may snapshot n, asked for in context ctx, replace snapshot E?
Decision(E, n, mode, ctx) ==
  LET older == n < E /\ Version(n) <= Version(E)
      begunBefore == \/ ctx.baseline = NoSnapshot
                     \/ /\ n >= ctx.baseline
                        /\ Version(n) >= Version(ctx.baseline)
  IN IF E = NoSnapshot THEN "accepted"
     ELSE IF mode = "incremental"
     THEN IF n <= E THEN "duplicate"
          ELSE IF Version(n) < Version(E) THEN "protocol"
          ELSE IF n = E + 1 THEN "accepted" ELSE "gap"
     ELSE IF n = E \/ (n > E /\ Version(n) >= Version(E)) THEN "accepted"
          ELSE IF older /\ ctx.advanced /\ begunBefore THEN "superseded"
          ELSE "protocol"

Verdict(c, ctx, n, mode) ==
  IF c.frozen \/ ~ctx.valid THEN "cancelled" ELSE Decision(c.shown, n, mode, ctx)

\* What becomes of the requests under way: all are unwanted, or all have seen
\* the cache accept a snapshot.
Unwanted(ctx) == [ctx EXCEPT !.valid = FALSE, !.advanced = FALSE]
Passed(ctx)   == [ctx EXCEPT !.advanced = ctx.valid]

Invalidate(c) ==
  [c EXCEPT !.stream.ctx = Unwanted(@), !.read.ctx = Unwanted(@),
            !.ctx = [id \in Commands |-> Unwanted(c.ctx[id])]]

Shown(c, n) ==
  [c EXCEPT !.stream.ctx = Passed(@), !.read.ctx = Passed(@), !.shown = n,
            !.ctx = [id \in Commands |-> Passed(c.ctx[id])]]

-----------------------------------------------------------------------------
(* The connection: ending a round *)

\* The waiters of a cancelled read learn of it when the handler has ended.
CancelRead(c) == [c EXCEPT !.cut = @ \cup c.read.waiters, !.read = NoRead]

\* stop: a new round; whatever compares the round no longer waits.
Stop(c, cancelRead) ==
  LET s == [c EXCEPT !.stream = NoStream, !.cut = @ \ RoundWaiters,
                     !.read.waiters = @ \ RoundWaiters]
  IN IF cancelRead THEN CancelRead(s) ELSE s

Finish(c, status) == [Stop(c, TRUE) EXCEPT !.status = status]
FinishPreservingRead(c, status) == [Stop(c, FALSE) EXCEPT !.status = status]

\* receive: the snapshot is shown, and an ended session ends the connection.
Accepted(c, n) ==
  IF Ended(n) THEN FinishPreservingRead(Shown(c, n), "ended") ELSE Shown(c, n)

Received(c, verdict, n) == IF verdict = "accepted" THEN Accepted(c, n) ELSE c

-----------------------------------------------------------------------------
(* The connection: starting a round *)

Visible(c) == c.mounted /\ ~c.hidden

Connect(c) ==
  LET s == Stop(c, TRUE)
  IN IF ~Visible(s) THEN s
     ELSE [s EXCEPT !.status = "connecting",
                    !.stream = [NoStream EXCEPT !.phase = "asked", !.next = s.shown,
                                                !.ctx = Begin(s)]]

Restart(c) ==
  LET r == [c EXCEPT !.protocolAttempted = FALSE]
  IN IF Visible(c) THEN Connect(r)
     ELSE IF c.mounted THEN Finish(r, "suspended") ELSE r

\* read: one read at a time, shared by all who ask while it lasts.  `since'
\* is the oldest snapshot that may answer, beyond the history when none may.
StartRead(c, waiters) ==
  IF c.frozen THEN c
  ELSE IF c.read.active THEN [c EXCEPT !.read.waiters = @ \cup waiters]
  ELSE [c EXCEPT !.read = [active |-> TRUE, waiters |-> waiters, ctx |-> Begin(c),
                           since |-> IF gone THEN Len(log) + 1 ELSE Len(log)]]

\* calibrate: a read the connection waits for, or a loose one without a stream.
Calibrate(c) ==
  IF Terminal(c.status) THEN c
  ELSE IF c.stream.phase = "none" THEN StartRead(c, {})
  ELSE IF "calibration" \in c.read.waiters THEN c
  ELSE StartRead([c EXCEPT !.status = "calibrating"], {"calibration"})

-----------------------------------------------------------------------------
(* The connection: errors *)

\* Broken: a confirmed 404 leaves the contexts of older requests valid.
NotedStillValid(c, error) ==
  IF error = "missing" THEN [c EXCEPT !.unavailable = TRUE, !.shown = NoSnapshot] ELSE c

\* handleError: a confirmed 404 forgets the session and every older request...
Noted(c, error) ==
  IF error = "missing"
  THEN [Invalidate(c) EXCEPT !.unavailable = TRUE, !.shown = NoSnapshot]
  ELSE c

\* ... and says whether the session is over.
EndOf(c, error) ==
  IF error = "missing" THEN "missing" ELSE IF Ended(c.shown) THEN "ended" ELSE "none"

\* fail: a protocol error is diagnosed once by a read; others are retried.
Fail(c, error) ==
  LET end == EndOf(c, error)
      s == Stop(c, TRUE)
  IN IF end # "none" THEN Finish(Noted(c, error), end)
     ELSE IF error # "protocol" THEN [s EXCEPT !.status = "reconnecting"]
     ELSE IF c.protocolAttempted THEN [s EXCEPT !.status = "blocked"]
     ELSE StartRead([s EXCEPT !.protocolAttempted = TRUE, !.status = "calibrating"],
                    {"diagnosis"})

\* The end of a freeze that read in vain keeps the session blocked.
Unthawed(c) == IF Terminal(c.status) THEN c ELSE Finish(c, "blocked")

\* What follows a handler: those whose read was cancelled are told.
Untold(c) == [c EXCEPT !.cut = {}]
CalibrationTold(c) ==
  IF "calibration" \in c.cut THEN Fail(Untold(c), "cancelled") ELSE Untold(c)
ThawTold(cut, c) == Untold(IF "thaw" \in cut \cup c.cut THEN Unthawed(c) ELSE c)
Settled(c) == IF c.cut = {} THEN c ELSE ThawTold(c.cut, CalibrationTold(c))

-----------------------------------------------------------------------------
(* Answers to reads *)

\* The connection is ready when a read begun after its snapshot has answered.
Calibrated(c) ==
  IF c.shown < c.stream.gapCursor THEN Fail(c, "network")
  ELSE IF c.stream.snapshotSeen THEN [c EXCEPT !.protocolAttempted = FALSE, !.status = "ready"]
  ELSE c

\* The read's own handler first: it may end the session or, when the session
\* was ready, start a diagnosis; then those who waited.
ReadFailed(c, error) ==
  LET end == EndOf(c, error)
      over == [c EXCEPT !.read = NoRead]
      told == IF "calibration" \in c.read.waiters THEN Fail(over, error)
              ELSE IF "diagnosis" \in c.read.waiters THEN Finish(over, "blocked")
              ELSE over
  IN IF end # "none" THEN [FinishPreservingRead(Noted(c, error), end) EXCEPT !.read = NoRead]
     ELSE IF error = "protocol" /\ c.status = "ready" THEN Fail(c, error)
     ELSE IF "thaw" \in c.read.waiters THEN Unthawed(told) ELSE told

ReadAnswered(c, n) ==
  LET verdict == Verdict(c, c.read.ctx, n, "calibration")
      a == Received([c EXCEPT !.unavailable = FALSE], verdict, n)
      waiters == a.read.waiters
      b == [a EXCEPT !.read = NoRead]
      d == IF "calibration" \in waiters THEN Calibrated(b) ELSE b
      e == IF "diagnosis" \in waiters /\ ~Terminal(d.status) THEN Connect(d) ELSE d
      reopened == "reopen" \in waiters /\ e.shown # NoSnapshot /\ ~Ended(e.shown)
      f == IF reopened /\ e.mounted THEN Restart(e) ELSE e
      thawed == "thaw" \in waiters /\ f.mounted /\ ~Terminal(f.status)
  IN IF verdict \in {"protocol", "cancelled"} THEN ReadFailed(c, verdict)
     ELSE IF thawed THEN Restart(f) ELSE f

-----------------------------------------------------------------------------
(* What the stream brings *)

Opened(c, watermark) ==
  [c EXCEPT !.status = "calibrating", !.stream.phase = "open",
            !.stream.watermark = watermark,
            !.stream.next = IF @ = NoSnapshot THEN watermark + 1 ELSE @ + 1]

\* Broken: the read that was under way before the snapshot calibrates it too.
SnapshotHeardReusingRead(c, verdict, n) ==
  LET a == Received(c, verdict, n)
  IN IF a.stream.phase = "none" THEN a
     ELSE Calibrate([a EXCEPT !.stream.snapshotSeen = TRUE, !.stream.barrier = Len(log)])

\* onEvent, a snapshot: older reads are cancelled before the calibration.
SnapshotHeard(c, verdict, n) ==
  LET a == Received(c, verdict, n)
      b == CancelRead([a EXCEPT !.stream.snapshotSeen = TRUE,
                                !.stream.barrier = Len(log)])
  IN IF a.stream.phase = "none" THEN a ELSE Calibrate(b)

\* onEvent, any other event: a gap is read up to.
EventHeard(c, verdict, n) ==
  LET a == Received(c, verdict, n)
      b == IF a.stream.phase = "none" THEN a ELSE [a EXCEPT !.stream.next = n + 1]
  IN IF verdict = "gap"
     THEN Calibrate([b EXCEPT !.stream.gapCursor = IF n > @ THEN n ELSE @])
     ELSE b

-----------------------------------------------------------------------------
(* Commands *)

Gate(c) == /\ ~c.frozen /\ c.busy = NoCommand /\ c.status = "ready"
           /\ c.shown # NoSnapshot /\ ~Ended(c.shown)

\* Broken: an answer that does not come is forgotten.
UnansweredForgotten(c, id) == Calibrate(c)

\* send, catch: without an answer the command is kept for the player to resend.
Unanswered(c, id) ==
  IF EndOf(c, "network") # "none" THEN Finish(c, EndOf(c, "network"))
  ELSE Calibrate([c EXCEPT !.pending = @ \cup {id}])

\* send: what the answer of kind `kind', with snapshot n, does while the
\* command's context is still wanted.
AnswerHeard(c, id, kind, n) ==
  LET verdict == Verdict(c, c.ctx[id], n, "calibration")
      a == Received(c, verdict, n)
      b == IF verdict = "protocol" THEN Fail(c, "protocol") ELSE a
  IN IF kind = "applied" THEN [b EXCEPT !.pending = @ \ {id}]
     ELSE IF kind = "lost" THEN Unanswered(c, id)
     ELSE IF kind = "refused"
     THEN IF EndOf(a, kind) # "none" THEN Finish(a, EndOf(a, kind)) ELSE b
     ELSE IF EndOf(c, kind) # "none" THEN Finish(Noted(c, kind), EndOf(c, kind))
     ELSE Calibrate(c)

CommandAnswered(c, id, kind, n) ==
  LET idle == [c EXCEPT !.busy = NoCommand]
  IN IF c.frozen \/ ~c.ctx[id].valid THEN idle ELSE AnswerHeard(idle, id, kind, n)

=============================================================================
