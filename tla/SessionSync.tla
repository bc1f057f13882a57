---------------------------- MODULE SessionSync ----------------------------
(***************************************************************************)
(* A browser keeps a session's snapshot in step with a server that commits, *)
(* publishes, answers reads and commands, and may delete the session, while  *)
(* connections break, answers get lost or come late, and the player opens,   *)
(* hides, refreshes, plays, and deletes.                                    *)
(*                                                                          *)
(* The server is what EventStream and SessionCommands show it to be: a       *)
(* stream brings every event after the reader's in order, a snapshot at the  *)
(* watermark, then what is published; a command is decided once, and a       *)
(* repeated one gets the stored answer.                                      *)
(***************************************************************************)
EXTENDS SyncClient

CONSTANTS
  MaxEvents,   \* bound: the events of the session
  MaxFaults,   \* bound: broken streams, failed requests, bad frames
  MaxMoves     \* bound: what the player does

ASSUME SyncAssumption ==
  /\ MaxEvents \in Nat \ {0} /\ MaxFaults \in Nat /\ MaxMoves \in Nat
  /\ NoCommand \notin Commands /\ Commands \cap {"stream", "read"} = {}

VARIABLES
  requests,  \* the commands on their way to the server
  ledger,    \* what the server decided for each command
  told,      \* the commands whose outcome the player knows
  faults, moves

vars == <<log, client, gone, requests, ledger, told, faults, moves>>

Undecided == [kind |-> "none", seq |-> NoSnapshot]
Event(version, ended, state) == [version |-> version, ended |-> ended, state |-> state]

Init ==
  /\ log = <<Event(1, FALSE, "published")>>
  /\ client = InitialClient
  /\ gone = FALSE /\ requests = {} /\ told = {}
  /\ ledger = [id \in Commands |-> Undecided]
  /\ faults = 0 /\ moves = 0

Fault == faults < MaxFaults /\ faults' = faults + 1 /\ UNCHANGED moves
Move  == moves < MaxMoves /\ moves' = moves + 1 /\ UNCHANGED faults
Calm  == UNCHANGED <<faults, moves>>

Server == <<log, gone, requests, ledger>>
Becomes(c) == client' = Settled(c)
ClientOnly(c) == UNCHANGED <<Server, told>> /\ Becomes(c)

-----------------------------------------------------------------------------
(* The server *)

Running == ~gone /\ ~log[Len(log)].ended
Append1(version, ended, state) ==
  /\ Running /\ Len(log) < MaxEvents
  /\ log' = Append(log, Event(version, ended, state))

\* The coordinator commits; the event of a correction is never published.
Commit ==
  /\ \E v \in {0, 1}, ended \in BOOLEAN, state \in {"committed", "silent"} :
       /\ v = 0 => ~ended
       /\ state = "silent" => v = 0
       /\ Append1(log[Len(log)].version + v, ended, state)
  /\ UNCHANGED <<client, gone, requests, ledger, told>> /\ Calm

Publish ==
  /\ UNCHANGED <<client, gone, requests, ledger, told>> /\ Calm
  /\ \E n \in 1..Len(log) :
       /\ log[n].state = "committed"
       /\ log' = [log EXCEPT ![n].state = "published"]

\* The session is deleted, or cleared with everything its owner has, from this
\* browser or another.
Erase ==
  /\ ~gone /\ gone' = TRUE
  /\ UNCHANGED <<log, client, requests, ledger, told>> /\ Move

\* A command is decided once, against the version its snapshot had.
Decide(id) ==
  LET version == Version(client.ctx[id].baseline)
      current == log[Len(log)].version
  IN /\ id \in requests /\ ledger[id] = Undecided /\ Running
     /\ requests' = requests \ {id}
     /\ IF version = current
        THEN /\ \E ended \in BOOLEAN : Append1(current + 1, ended, "committed")
             /\ ledger' = [ledger EXCEPT ![id] = [kind |-> "applied", seq |-> Len(log) + 1]]
        ELSE /\ ledger' = [ledger EXCEPT ![id] = [kind |-> "refused", seq |-> Len(log)]]
             /\ UNCHANGED log
     /\ UNCHANGED <<client, gone, told>> /\ Calm

-----------------------------------------------------------------------------
(* The stream *)

StreamUp == client.stream.phase = "open" /\ ~client.stream.stalled
Upcoming == client.stream.next
Watermark == client.stream.watermark
ReplayDue   == StreamUp /\ ~client.stream.snapshotSeen /\ Upcoming <= Watermark
SnapshotDue == StreamUp /\ ~client.stream.snapshotSeen /\ Upcoming > Watermark
LiveDue     == StreamUp /\ client.stream.snapshotSeen /\ Upcoming <= Len(log)

Opens ==
  /\ client.stream.phase = "asked" /\ ~gone
  /\ Calm /\ ClientOnly(Opened(client, Len(log)))

\* 404 on the stream.
NotFound ==
  /\ client.stream.phase = "asked" /\ gone
  /\ Calm /\ ClientOnly(Fail(client, "missing"))

Heard(n, mode) == Verdict(client, client.stream.ctx, n, mode)
Refused(verdict) == verdict \in {"protocol", "cancelled"}
HearsEvent(n) ==
  LET verdict == Heard(n, "incremental")
  IN ClientOnly(IF Refused(verdict) THEN Fail(client, verdict)
                ELSE EventHeard(client, verdict, n))

\* Everything up to the watermark is read from the database...
Replay ==
  /\ ReplayDue /\ Calm /\ HearsEvent(Upcoming)

\* ... then the snapshot at the watermark ...
Snapshot ==
  LET verdict == Heard(Watermark, "calibration") IN
  /\ SnapshotDue /\ Calm
  /\ ClientOnly(IF Refused(verdict) THEN Fail(client, verdict)
                ELSE SnapshotHeard(client, verdict, Watermark))

\* ... then what is published.
Live ==
  /\ LiveDue /\ log[Upcoming].state = "published" /\ Calm /\ HearsEvent(Upcoming)

\* The server closes a stream whose next event was overtaken.
Overtaken ==
  /\ LiveDue /\ log[Upcoming].state # "published"
  /\ \E n \in Upcoming + 1..Len(log) : log[n].state = "published"
  /\ Calm /\ ClientOnly(Fail(client, "network"))

\* The stream breaks, brings a frame that is no event, or falls silent.
Breaks ==
  /\ client.stream.phase # "none"
  /\ \E error \in {"network", "protocol"} : ClientOnly(Fail(client, error))
  /\ Fault

Stalls ==
  /\ StreamUp
  /\ client' = [client EXCEPT !.stream.stalled = TRUE]
  /\ UNCHANGED <<Server, told>> /\ Fault

-----------------------------------------------------------------------------
(* Timers *)

\* Broken: silence is only noticed once the connection is ready.
SilenceWhenReady ==
  /\ client.stream.stalled /\ client.status = "ready"
  /\ Calm /\ ClientOnly(Fail(client, "network"))

\* 45 seconds of silence, or without becoming ready.
Silence ==
  /\ client.stream.stalled
  /\ Calm /\ ClientOnly(Fail(client, "network"))

\* The retry timer, which only runs for a visible consumer.
Retry ==
  /\ client.status = "reconnecting" /\ Visible(client)
  /\ Calm /\ ClientOnly(Connect(client))

-----------------------------------------------------------------------------
(* Answers *)

\* The answer was formed at any moment since the question.
ReadAnswers ==
  /\ client.read.active /\ Calm
  /\ \/ \E n \in client.read.since..Len(log) :
          ClientOnly(ReadAnswered(client, n))
     \/ gone /\ ClientOnly(ReadFailed(client, "missing"))

ReadFails ==
  /\ client.read.active
  /\ \E error \in {"network", "protocol"} : ClientOnly(ReadFailed(client, error))
  /\ Fault

CommandAnswers ==
  /\ client.busy # NoCommand /\ Calm
  /\ UNCHANGED <<log, gone, ledger>>
  /\ \E kind \in {"applied", "refused", "missing", "declined"} :
       /\ kind \in {"applied", "refused"} => ledger[client.busy].kind = kind
       /\ kind = "missing"  => gone
       /\ kind = "declined" => ledger[client.busy] = Undecided /\ ~gone /\ ~Running
       /\ told' = told \cup {client.busy}
       /\ requests' = requests \ {client.busy}
       /\ Becomes(CommandAnswered(client, client.busy, kind, ledger[client.busy].seq))

\* The server is too busy to decide.
Declines ==
  /\ client.busy # NoCommand /\ ledger[client.busy] = Undecided
  /\ Becomes(CommandAnswered(client, client.busy, "declined", NoSnapshot))
  /\ told' = told \cup {client.busy} /\ requests' = requests \ {client.busy}
  /\ UNCHANGED <<log, gone, ledger>> /\ Fault

\* No answer: the command may have been decided, may never be, or may be yet.
AnswerLost ==
  /\ client.busy # NoCommand
  /\ Becomes(CommandAnswered(client, client.busy, "lost", NoSnapshot))
  /\ requests' \in {requests, requests \ {client.busy}}
  /\ UNCHANGED <<log, gone, ledger, told>> /\ Fault

-----------------------------------------------------------------------------
(* The player *)

\* acquire: a page opens the session.
Acquire ==
  LET known == IF Ended(client.shown) THEN Finish(client, "ended") ELSE client
      c == [known EXCEPT !.mounted = TRUE]
  IN /\ ~client.mounted
     /\ ClientOnly(IF Terminal(c.status) THEN StartRead(c, {"reopen"}) ELSE Restart(c))
     /\ Calm

\* The last page closes it: nothing of before may still arrive.
Release ==
  /\ client.mounted
  /\ ClientOnly(CancelRead(Invalidate(Finish([client EXCEPT !.mounted = FALSE], "idle"))))
  /\ Move

Follows(c) == c.mounted /\ ~Terminal(c.status)

Hide ==
  LET c == [client EXCEPT !.hidden = TRUE] IN
  /\ ~client.hidden
  /\ ClientOnly(IF Follows(c) THEN Finish(c, "suspended") ELSE c) /\ Move

Show ==
  LET c == [client EXCEPT !.hidden = FALSE] IN
  /\ client.hidden
  /\ ClientOnly(IF Follows(c) THEN Restart(c) ELSE c) /\ Calm

\* focus, and online, which does what the retry timer does.
Focus ==
  /\ client.mounted /\ client.status = "ready"
  /\ ClientOnly(Calibrate(client)) /\ Move

\* refresh, and a second page: a new round, or a read without one.
Refresh ==
  /\ ~client.frozen
  /\ ClientOnly(IF Visible(client) /\ ~Terminal(client.status) THEN Restart(client)
                ELSE StartRead(client, {"reopen"}))
  /\ Move

\* A component shows the session through its query.
Display ==
  /\ ~client.unavailable /\ ~client.read.active
  /\ ClientOnly(StartRead(client, {})) /\ Move

Send(id, c) ==
  /\ Gate(client)
  /\ client' = [c EXCEPT !.busy = id]
  /\ requests' = requests \cup {id}
  /\ UNCHANGED <<log, gone, ledger, told>>

Submit(id) ==
  /\ client.ctx[id] = NoContext
  /\ Send(id, [client EXCEPT !.ctx[id] = Begin(client)]) /\ Calm

\* The same bytes again, in the same context.
Resend(id) == id \in client.pending /\ client.ctx[id].valid /\ Send(id, client) /\ Move

Abandon(id) ==
  /\ id \in client.pending
  /\ client' = [client EXCEPT !.pending = @ \ {id}]
  /\ told' = told \cup {id}
  /\ UNCHANGED Server /\ Calm

\* The player deletes the session, or all data: until the answer nothing of
\* this session is sent, received or read.
Freeze ==
  /\ ~client.frozen
  /\ ClientOnly(Finish(Invalidate([client EXCEPT !.frozen = TRUE]), "blocked"))
  /\ Move

Forgotten(c) == Finish([c EXCEPT !.unavailable = TRUE, !.shown = NoSnapshot], "missing")

Thaw ==
  LET c == [client EXCEPT !.frozen = FALSE] IN
  /\ client.frozen
  /\ \/ gone /\ Calm /\ ClientOnly(Forgotten(c))
     \/ ~gone /\ Calm /\ ClientOnly(StartRead(c, {"thaw"}))
     \/ Fault /\ ClientOnly(StartRead(c, {"thaw"}))

-----------------------------------------------------------------------------

Environment == Commit \/ Erase \/ Breaks \/ Stalls \/ ReadFails \/ Declines \/ AnswerLost
Player ==
  \/ Acquire \/ Release \/ Hide \/ Show \/ Focus \/ Refresh \/ Display \/ Freeze
  \/ \E id \in Commands : Submit(id) \/ Resend(id) \/ Abandon(id)
Work ==
  \/ Publish \/ Opens \/ NotFound \/ Replay \/ Snapshot \/ Live \/ Overtaken
  \/ Silence \/ Retry \/ ReadAnswers \/ CommandAnswers \/ Thaw
  \/ \E id \in Commands : Decide(id)

Next == Environment \/ Player \/ Work

\* While it has something to do, the program does something: a timer fires, a
\* request is answered, what is published is delivered.
Fairness == WF_vars(Work)

Spec == Init /\ [][Next]_vars /\ Fairness

-----------------------------------------------------------------------------
(* Properties *)

Seqs == 0..MaxEvents
Contexts == [valid: BOOLEAN, advanced: BOOLEAN, baseline: Seqs]

TypeOK ==
  /\ log \in Seq([version: 1..MaxEvents, ended: BOOLEAN,
                  state: {"committed", "published", "silent"}])
  /\ Len(log) \in 1..MaxEvents
  /\ client \in [shown: Seqs, status: Statuses, mounted: BOOLEAN, hidden: BOOLEAN,
                 frozen: BOOLEAN, unavailable: BOOLEAN, protocolAttempted: BOOLEAN,
                 stream: [phase: {"none", "asked", "open"}, next: 0..MaxEvents + 1,
                          watermark: Seqs, stalled: BOOLEAN, snapshotSeen: BOOLEAN,
                          gapCursor: Seqs, barrier: Seqs, ctx: Contexts],
                 read: [active: BOOLEAN, since: 0..MaxEvents + 1,
                        waiters: SUBSET Waiters, ctx: Contexts],
                 cut: {{}}, busy: Commands \cup {NoCommand}, pending: SUBSET Commands,
                 ctx: [Commands -> Contexts]]
  /\ gone \in BOOLEAN /\ requests \subseteq Commands /\ told \subseteq Commands
  /\ ledger \in [Commands -> [kind: {"none", "applied", "refused"}, seq: Seqs]]
  /\ faults \in 0..MaxFaults /\ moves \in 0..MaxMoves

\* What an honest server may still say, however late, is never taken for a
\* protocol error: a live connection would be torn down for being slow.
HonestServerBelieved ==
  /\ ReplayDue \/ LiveDue => Heard(Upcoming, "incremental") \notin {"protocol", "gap"}
  /\ SnapshotDue => Heard(Watermark, "calibration") # "protocol"
  /\ client.read.active =>
       \A n \in client.read.since..Len(log) :
         Verdict(client, client.read.ctx, n, "calibration") \notin {"protocol", "cancelled"}
  /\ client.busy # NoCommand /\ ledger[client.busy] # Undecided =>
       Verdict(client, client.ctx[client.busy], ledger[client.busy].seq, "calibration")
         # "protocol"

\* Commands are offered only on a snapshot at least as new as everything the
\* server had committed when this connection's own snapshot arrived: an answer
\* to a question of before is no calibration.
ReadyIsCurrent ==
  client.status = "ready" =>
    client.stream.snapshotSeen /\ client.shown >= client.stream.barrier

\* A command that got no answer can be sent again, unless the session is over,
\* the player gave it up, or the page was left or frozen in between.
UnansweredIsPending ==
  \A id \in Commands :
    client.ctx[id].valid /\ client.busy # id =>
      id \in told \cup client.pending \/ Ended(client.shown)

\* The player never sees an older state after a newer one, whatever the order
\* in which stream, reads and commands answer.
ShownNeverGoesBack ==
  [][client'.shown # NoSnapshot => client'.shown >= client.shown]_vars

\* A session known to be deleted is never shown again.
DeletedStaysGone ==
  [][client.unavailable => client'.shown = NoSnapshot]_vars

Following == Visible(client) /\ ~client.frozen /\ ~gone

\* A page that is looked at comes to show what is published, on a connection
\* that is ready or over, unless it is blocked: no fault leaves it waiting.
CaughtUp ==
  \/ client.status \in {"missing", "blocked"}
  \/ /\ client.status \in {"ready", "ended"}
     /\ \A n \in 1..Len(log) : log[n].state = "published" => n <= client.shown

CatchesUp == []<>(~Following \/ CaughtUp)

\* A session that could not be deleted is restored as it is: it is blocked only
\* while that is being found out.
BlockedIsBeingResolved ==
  client.status = "blocked" /\ ~client.frozen => "thaw" \in client.read.waiters

=============================================================================
