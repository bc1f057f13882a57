# TLA+ verification of the hold'em practice server

This directory specifies the parts of the repository whose correctness depends
on order: who writes what when, what survives a crash, what a late answer may
still do.  Line numbers here and in `PROJECT.json` are lines of the files under
`src/`; `apps/...` stands for `src/apps/...`.

To check a configuration: `tlc -config PlayerTurnIncidents.cfg MCPlayerTurn`, and
likewise for the others (section 4 says which module each belongs to).  To check
the proofs: `tlapm` on each of `PlayerTurn_proof.tla`, `SessionCommands_proof.tla`,
`EventStream_proof.tla`, `SessionSync_proof.tla`, `PokerTable_proof.tla`,
`DecisionTable_proof.tla`, `SessionLifecycle_proof.tla` and
`ServerLifecycle_proof.tla`.

Contents: 1 the system, 2 the plan, 3 the modules and the code, 4 the runs,
5 bounds and fairness, 6 the proofs, 7 what is not modelled.

## 1. The system

A single-user no-limit hold'em trainer: one Node process (`apps/server`), one
PostgreSQL database, one React client (`apps/web`), and remote language-model
providers that play the AI seats.  There is no state outside the database that
must survive; everything in memory (worker lanes, hub connections, hints) can be
lost at any time.

| Component | State it keeps | Operations | Interacts with |
|---|---|---|---|
| Session commands (`sessions/command-execution`, `persistence/command-ledger-repository`, `session-mutation-repository`) | `sessions` row, command ledger, private and public event logs, snapshots | claim a command id, authenticate, apply, append events, complete; publish after commit | poker engine, coordinator, public hub |
| Player turn coordination (`agents/player/session-agent-coordinator`, dispatcher, executor, settlement, commit gate) | session coordination columns, `agent_runs`, `player_decisions` | create, replace, settle, retry, commit, recover a run | worker, gateway, commands, startup |
| Agent Foundation (`agents/foundation`, `persistence/agent-run-lifecycle-repository`, audit repository) | runs with lease, fence and deadline; attempts; budgets | claim, renew, heartbeat, attempt, finish, terminate | providers, executor |
| Session creation and deletion, settings, personas | one active session per owner, creation commands, deletion receipts | create, replay, delete one, delete all, reset | commands, startup |
| Poker engine (`poker/`) | pure values: hand state, betting round, pots, result | apply action, advance street, settle | commands, projections, agents |
| Decision analysis (`poker/candidate-outcomes`, `contestable-pot`, `decision-*`, `agents/player/player-decision-*`) | pure values: spot, metrics, candidates, weights | analyse a position before a seat decides | poker engine, coordinator |
| Public projection and stream (`sessions/public-projection`) | bootstrap and public events; hub, connection queues in memory | publish, connect, replay, deliver, drain | commands, web client |
| Startup and shutdown (`bootstrap`, `server-process-lifecycle`, `startup-recovery`) | resources started so far, signals, deadline | start in order, roll back, stop in order | all |
| Web session runtime (`apps/web/src/session-sync`) | snapshot, last sequence, pending command, connection | bootstrap, subscribe, apply, reconnect, submit | stream, HTTP |
| Coach, ranges, strategy (`agents/coach`, `poker-range`, `poker-strategy`) | immutable documents | certify, freeze, analyse | not composed into the server |
| Read models, HTTP boundary, statistics, provider health, evaluation tools | none of their own | validate, query, format | database |

What is hard in it:

- *Interleaving.*  The lane of the worker, the dispatcher, HTTP commands and
  (after a crash) the startup recovery all write the session's coordination
  columns, in separate transactions, with seconds of provider latency between.
- *Authority.*  A run may be written only by the holder of its lease and fencing
  token, and most writes only before its deadline; the checks differ per
  repository.
- *Crashes.*  The process may die between any two transactions; nothing in memory
  survives, and a provider call may be in flight.
- *Best-effort hints.*  Commit hints and publications follow the commit and can be
  lost.
- *Retries.*  Commands are retried by clients, turns by users, corrections by the
  gateway, runs by recovery.
- *Late answers.*  The browser asks, listens and sends at once, and answers come
  in any order, also after the page was left or the session was deleted.
- *Numbers at their limits.*  Short blinds, short all-ins, layers of the pot that
  only folded seats reach, odd chips, weights that must add up after rounding.
- *Row locks.*  Creation, deletion, clearing and the agent runtime meet in the
  same rows, and READ COMMITTED leaves everything else to the order of locking.

### What makes each component correct

- *Player turn coordination.*  A session that thinks and its one active run name
  each other and the turn that is open now; a turn is decided once, by its own
  run, and nothing overtakes it; a run ends in one piece (lifecycle, decision,
  attempts, lease) and its replacements form a chain; every AI turn gets a run
  and, short of a dead server or a passed deadline, a decision or a pause.
- *Agent Foundation.*  Only the holder of the fence writes a run; an attempt
  whose outcome is unknown is never repeated; budgets bound the attempts; the
  worker stops what it started.
- *Session commands.*  A command id is decided once and answered alike for ever;
  session, snapshot, events and ledger never form a combination that the
  recovery diagnoses; commands of one session run, and publish, one after the
  other; every request leaves the chain.
- *Stream.*  A reader that resumes gets every event once and in order; nothing
  published falls between the database and the subscription; what is published is
  eventually seen.
- *Web runtime.*  The snapshot shown never goes back; an honest server never
  drives the client into the blocked state; a command whose answer was lost is
  resolved by resending it.
- *Session lifecycle.*  At most one active session; a repeated creation finds its
  first result; only ended sessions are deleted, and a deletion is repeatable.
- *Poker engine.*  Chips are conserved; a betting round ends exactly when nobody
  has anything left to answer; a short all-in does not reopen the betting; every
  pot has somebody eligible for it; every hand ends; what is recorded can be read.
- *Decision analysis.*  Every position can be analysed, because one that cannot
  stops the table; what is promised about the rest of the street is kept; the
  weights offered are a distribution.
- *Startup and shutdown.*  Resources stop once, in the reverse order of their
  start, from whatever point the startup reached; the exit code tells the truth.

`PROJECT.json` lists the hazards line by line, those that no property covers yet
with a note.

## 2. The plan

The order is by what the rest depends on: the turn of an AI seat is the protocol
with most actors and most incidents; the commands are what every writer goes
through; the stream is what every reader sees; then the reader itself, what the
commands compute, and how session and process begin and end.

| Module | What it is | Relation |
|---|---|---|
| `TurnDecision` | abstract: a table at which turns are decided | refined by `PlayerTurn` |
| `PlayerTurn` | the turn of an AI seat, from commit hint to decision | |
| `CommandOutcomes` | abstract: command ids decided once | refined by `SessionCommands` |
| `SessionCommands` | scheduler, ledger, transaction, publication, answers | |
| `CommittedLog` | abstract: what the writers promise to readers of events | refined by `SessionCommands`; its actions are the writers of `EventStream` |
| `EventStream` | hub, connection, replay and one reader | extends `CommittedLog` |
| `SyncClient` | the browser's handlers as functions on its state | |
| `SessionSync` | browser and server, with deletion and faults | extends `SyncClient` |
| `PokerRules` | the rules of a hand as functions from table to table | |
| `PokerTable` | hands, settlements, rebuys and statistics as steps | extends `PokerRules` |
| `DecisionRules` | what is computed from a table before an AI seat decides | extends `PokerRules` |
| `DecisionTable` | the table with the analysis of every turn | extends `PokerTable`, `DecisionRules` |
| `SessionLifecycle` | creation, deletion and clearing, lock by lock | |
| `ServerLifecycle` | the process from start to exit | |
| `PlayerTurn_proof`, `SessionCommands_proof`, `EventStream_proof`, `SessionSync_proof`, `PokerTable_proof`, `SessionLifecycle_proof`, `ServerLifecycle_proof` | theorems | extend their modules |
| `DecisionTable_proof` | theorems about what the AI seats are told | extends `DecisionTable`, `PokerTable_proof` |
| `MCPlayerTurn`, `MCSessionCommands`, `MCEventStream`, `MCSessionSync`, `MCDecisionTable`, `MCSessionLifecycle`, `MCServerLifecycle` | small instances | extend their modules |

`CommittedLog` is the contract between writers and readers: `SessionCommands` is
shown to implement it, and `EventStream` takes its actions as the only things
writers do.  What is checked of the stream therefore holds with the real command
machinery behind it, without a product of the two state spaces.  Both halves of
the contract are also proved (section 6).  `SessionSync` continues the chain: its
server is what `EventStream` and `CommandOutcomes` promise, so the browser is
checked against their guarantees and not against their machinery.

Next, in this order:

1. The second opinion a command gets before it is stored,
   `sessions/command-execution/command-event-policy.ts`: that it accepts the
   events of every legal step of `PokerTable`.
2. Token and cost budgets of the gateway (`execution-budget.ts`).
3. The projections: that no event or observation contains another seat's cards.

## 3. The modules and the code

An action is one database transaction with everything that happens in the same
turn of the event loop, or one awaited step of a loop.  Every definition's lines
are in the `map` of `PROJECT.json`.  Definitions marked "Broken:" are mistakes
one could make in that code; they are no part of any specification and serve to
show that the properties notice them.

### PlayerTurn

| Variable | Code |
|---|---|
| `session` | the `sessions` row: lifecycle, `state_version`, `agent_run_state`, `active_player_run_id`; and the current actor of the table snapshot |
| `runs`, `runCount` | `agent_runs` with its `player_decisions` row and the current attempt; identifiers follow `created_at` |
| `lane` | the Player lane of `agent-worker.ts` and the position inside `player-runtime-executor.ts` and `model-gateway.ts` |
| `process` | is the server up, in which part of its startup, with which worker incarnation and build |
| `incidents` | how much went wrong so far (a bound, not code) |

`Commands` are the HTTP commands as far as they touch the turn
(`player-action-handler`, `rebuy`, `start-next-hand`, `end-session`,
`retry-agent`).  `ReconcileCurrentTurn` is the coordinator's reconciliation,
called by hint, timer and startup alike.  `ClaimNext` to `CommitDecision` follow
the executor: claim, mark running, read for resume, prepare the audit, freeze the
model input, attempts with corrections, publication through the commit gate.
`PauseAfterFailure` and `ReconcileStale` are the two settlements.

What one call of a repository or service does has an operator of its own, which
the actions compose: the conditions `Eligible`, `Claimable`, `DecisionReadable`,
`WithinBudget`, `GateLock`, `ChoiceStands`, `GateAdmits`, and the updates
`Claimed`, `AttemptStarted`, `AttemptClosed`, `AttemptReplaced`,
`CreateAuditPrepared`, `MarkModelPrepared`, `MarkSelected`, `MarkCommitted`,
`Finalized`, `DecisionTerminated`, `Linked`.  Behaviours begin at any quiet
moment of a session, between two hands included.

`HeartbeatRejected`, `LeaseLapses` and the incidents (`LeaseStalls`,
`DeadlinePasses`, `DatabaseFails`, `HeartbeatFails`, `Crash`) are time and
failure; `Restart`, `RecoverAfterRestart`, `ReconcileAtStartup` are the startup.

The lane keeps what it knew when it last looked (`lane.fence`, its run, the
corrections it counted) and re-checks it in every transaction just where the code
does: with the deadline (`DecisionLock`) or without (`Authority`).

`TurnDecision` forgets all that: the table has a version, a seat and a phase;
`ImplementsTable` maps a session with its runs to it.

### SessionCommands

| Variable | Code |
|---|---|
| `session` | the row of `sessions`, with its snapshot (version and hand) and the rows of `hands` in progress; a hand is named by the version that started it |
| `events`, `ledger` | the rows of `session_events` and `command_ledger` |
| `queue`, `calls` | the promise chain of `per-session-scheduler.ts` and the requests that wait in it |
| `unpublished` | batches between COMMIT and `hub.publish` |
| `answers` | the answers given from the ledger, over the whole history |
| `serving`, `requests`, `incidents` | process up or down; bounds |

A request is received (`Receive`) at the end of the chain; at its head it is one
transaction: replay of a registered id (`Replay`), the unregistered error or
digest conflict (`Decline`), a refusal recorded in the ledger (`Reject`), or the
whole application (`Apply`), and then the publication and the answer
(`PublishAndAnswer`).  `RollBack` is a transaction that fails; `NotLearnt` is a
COMMIT whose acknowledgement is lost: what it wrote stays, the caller gets an
error, nothing is published.  `Coordinate` and `StartCorrection` are the
coordinator's transactions, which write events outside the chain.  What the poker
engine answers is a choice (`Effects`) among what it may return in a hand and
between hands (`HandsAfter`).  `Persist` is one mutation with its relation writes:
the event rows, the session row, the snapshot, which is replaced exactly when the
version moves (`SnapshotAfter`), and the hands that start, are completed or
aborted (`HandRows`).

`Recoverable` is the answer "ready" of `decideSessionRecovery`: exact event
numbers, chained versions, event log, session and snapshot at one version, the
snapshot's hand and no other in progress (`ValidHandRelationship`), and the
session pointing at that hand, without a repair.  It is at once a guard of the
code (the recovery runs in every command) and the property `HistoryRecoverable`:
the guard is shown never to fail.  Left out of it are the decoding of payloads,
since a row of the model is what the codec returns, and the missing snapshot, since
the row is written by the creation and never deleted before the session.

### CommittedLog and EventStream

`log` is the event table by sequence number; `conn` is the server side of the
connection (phase, live queue, replay position, high watermark, last delivered
number, calibrated, closing); `cursor` and `sawEnd` are the reader; `published`
is history.  `Open`, `ReadBootstrap`, `Activate` are the three awaited parts of
`session-event-stream-service.open`; `LoadPage`, `DeliverReplayed`, `Calibrate`,
`SkipDuplicate`, `DeliverLive`, `LiveGap`, `CloseAfterEnd` are the branches of
`nextEvent`; `Listen` is the listener the hub calls.  There is no wire: an event
that the network loses is one that was not delivered before the cut, which is the
same thing to a reader that resumes from its last event id.

### SyncClient and SessionSync

`client` is the query cache (`shown`), the controller of `session-sync/runtime.ts`
(`status`, `frozen`, `busy`, `pending`, contexts), its connection (`stream`) and the
one shared read (`read` and who waits for it).  `SyncClient` holds the handlers
as functions from one such record to the next: `Decision` is `decideSnapshot` of
the receiver, `Connect`, `Fail`, `Calibrate`, `ReadAnswered`, `SnapshotHeard`,
`EventHeard`, `CommandAnswered` are what their namesakes in `connection.ts` and
`runtime.ts` do.  `SessionSync` says when they are called: `log`, `gone`,
`requests` and `ledger` are the server (the guarded update, the command executor, the
hub, the deletion); stream, reads and answers move
independently, an answer may have been formed at any moment since the question.
`Acquire`, `Hide`, `Focus`, `Refresh`, `Submit`, `Resend`, `Abandon`, `Freeze`,
`Thaw` are what pages and player do.

### PokerRules and PokerTable

A table is the poker part of the authoritative state; every operator returns a
new table, as in the code.  `StartedHand` posts blinds (short ones too),
`LegalActions` to `Progress` are one action with the continuation of the round,
`Layers` to `Settled` the settlement with returned bets and odd chips, and
`RecordAccepted` what the history demands of the record that is written.
`PokerTable` plays: `StartHand` with the automatic rebuys, `Play` with every legal
action at its minimum, its all-in and the sizes the code suggests, `Rebuy`.  `stats`
are the facts each action records (`actionStatistics`) and what the statistics count;
`reopen` is history, kept only to state `RaisesReopenFairly` without the code's
own arithmetic.  Cards are a number on the board, and strength is chosen when it
is shown.

### DecisionRules and DecisionTable

What is computed before an AI seat decides: the spot (folded out of the public
actions), the contestable pot, the outcome of every candidate, the returned bet,
the metrics, and the weights of heuristic and persona in basis points with the
code's rounding.  Every place where the code throws is a conjunct
(`MetricsKnown`, `OutcomeKnown`, `NextStreetRatioKnown`).  `DecisionTable` makes an
analysis of every turn and remembers who was told that the street is over for
it (`promised`), to compare with how the hand goes on.

### SessionLifecycle

A request is a transaction with its row locks: `owns` (FOR UPDATE), `shares`
(FOR SHARE), and `step`, the statement it is at.  `BeginCreate` to `Insert` are
creation, with or without the roster of the last session; `LockSession`,
`LockRun`, `LockRoster`, `DeleteCommits` the deletion of an ended session;
`BeginClear` to `ClearCommits` the clearing of all data with its ordered locks;
`TurnCommits`, `ClaimCommits`, `ObserveRoster`, `ShareSession`, `ObserveRun`,
`ReferToAgent`, `ExecutorCommits` the transactions of commands and of the agent
runtime that meet them.  What a request writes becomes visible when it commits.
A statement that waited re-reads the rows as they have become, and a circle of
waiting requests is broken as PostgreSQL breaks it.

### ServerLifecycle

`boot` is the await that `bootstrap` is at; `closing` the resource that
`closeStartedResources` waits for; `worker`, `dispatcher`, `http`, `database` are
what has been started, with what they are doing; `aborted`, `failure`, `heard`,
`faulty`, `exitCode` and `process` belong to `server-process-lifecycle.ts`.  An
action is what runs between two awaits that wait for something outside: starting
(`Initialized` to `Ready`), closing (`DispatcherStops` to `DatabaseCloses`,
`Exits`), the worker's lane, heartbeat and error limit, the dispatcher's loop and
hints, the HTTP server with its drain, and what comes from outside (`Signal`,
`ServerFails`, `Requested`, `HeartbeatDies`).

## 4. The runs

| Run | Module, configuration | Properties | Distinct states |
|---|---|---|---|
| `player_turn_incidents` | `MCPlayerTurn`, `PlayerTurnIncidents.cfg` | `Coordination`, `RunSettlesCompletely`, `ReplacementChain`, `NoReplacementStorm`, `ImplementsTable`, `SettledRunStays`, `UncertainCallNotRepeated` | 2 146 008 |
| `player_turn_progress` | `MCPlayerTurn`, `PlayerTurnProgress.cfg` | `TurnStarts`, `TurnResolves` | 295 706 |
| `session_commands` | `MCSessionCommands`, `SessionCommands.cfg` | `HistoryRecoverable`, `ImplementsOutcomes`, `ImplementsLog`, `EveryCallEnds` | 154 708 |
| `event_stream` | `MCEventStream`, `EventStream.cfg` | `ReaderSkipsNothing`, `PublishedIsSeen` | 50 678 |
| `session_sync` | `MCSessionSync`, `SessionSync.cfg` | `HonestServerBelieved`, `ReadyIsCurrent`, `UnansweredIsPending`, `ShownNeverGoesBack`, `DeletedStaysGone`, `CatchesUp` | 351 075 |
| `decision_table` | `MCDecisionTable`, `DecisionTable.cfg` | `StatisticsReadable`, `ChipsConserved`, `LegalPlaySettles`, `RaisesReopenFairly`, `FairShares`, `EveryHandEnds`, `AnalysisSucceeds`, `ToldTheTruth`, `WeightsAreADistribution`, `AnalysisFitsTable` | 27 885 |
| `session_lifecycle` | `MCSessionLifecycle`, `SessionLifecycle.cfg` | `CreationIsCurrent`, `LockedStaysTrue`, `CirclesPassAnObserver`, `RequestsEnd` | 51 890 |
| `server_lifecycle` | `MCServerLifecycle`, `ServerLifecycle.cfg` | `DatabaseOutlivesItsUsers`, `ExitCodeTells`, `StoppedStaysQuiet`, `CleansUpOnce`, `StopsAtLast` | 132 327 |
| `overdue_queued` | `MCPlayerTurn`, `OverdueQueued.cfg` | `OverdueQueuedRunConverges` | violated |
| `session_sync_thaw` | `MCSessionSync`, `SessionSyncThaw.cfg` | `BlockedIsBeingResolved` | violated |
| `fold_unprojectable` | `MCDecisionTable`, `FoldUnprojectable.cfg` | `EveryCandidateProjected` | violated |
| `session_lock_circle` | `MCSessionLifecycle`, `ObserverDeadlock.cfg` | `NobodyWaitsInCircle` | violated |

What they show:

- `player_turn_incidents` plays two seats and two builds of the server through two
  turns and three incidents.  Session pointer, runs and lane never disagree, so
  the deferred trigger `enforce_player_run_coordination` never has a transaction
  to abort; how runs end, and what replaces them, survives any combination of two
  faults and a retry; no cause creates more than one run; and all of it implements
  `TurnDecision`.
- `player_turn_progress` adds fairness.  A hint may be lost at any time, since
  creating the run is an action of its own.  A thinking turn is resolved unless
  the server is down or the run's deadline has passed; the exception is real
  (`overdue_queued`).
- `session_commands`: two callers, a client's command repeated with the same or
  another body and a Player decision, one incident, hands that start, end and are
  aborted.  Every history is one the recovery accepts, an id that is sent again is
  never decided again and never answered otherwise (`ImplementsOutcomes`), and
  readers see a log that grows in whole batches.
  `EveryCallEnds` is liveness of the chain: a task that throws does not hold up its
  successors.
- `event_stream`: the windows between subscribing, reading the bootstrap,
  checking the pages and reading them again lose nothing, and a reader that
  reconnects sees everything published.
- `session_sync`: the receiver's rule for answers that come out of order never
  takes an honest, slow server for a broken one (`HonestServerBelieved`), and yet
  lets no older state replace a newer one.  `ReadyIsCurrent` is what makes the
  table safe to act on; `CatchesUp` is liveness through gap, silence, barrier and
  retry timers with a connection that breaks or falls silent.
- `decision_table`: six seats of unequal and short stacks play every legal hand
  from four tables.  No legal play reaches a layer of the pot without an eligible
  seat, the record written of a hand is one its readers accept, raises reopen by
  the rule of the game, stated independently of the code's flags, and each
  position can be analysed but for one fold (`fold_unprojectable`).
- `session_lifecycle`: two transactions at a time out of all kinds, two sessions.
  What a request has checked under its locks is still true when it commits, and
  the unique index on the active session never has to decide.
- `server_lifecycle`: a signal, a failing step or a dying resource at any moment
  from the first await to the last.

The violated ones are disagreements between code and documents:

- `overdue_queued`: a run whose deadline passes before it is claimed is never
  returned by `claimNext` and ended by no transaction of the running process.  The
  M4.2 design leaves it to the coordination of M4.8, which has none for it.
- `session_sync_thaw`: a page that opens a session while the read after a refused
  deletion is under way cancels that read, and the healthy session ends blocked.
- `fold_unprojectable`: with both blinds all-in for less, the fold of a button that
  has put in nothing leads to a flop whose pot it cannot contest;
  `projectedSpr` throws, and the analysis of all candidates with it.
- `session_lock_circle`: `loadForRun` locks participant and agent before the
  session, clearing and deletion lock the session first.  PostgreSQL resolves the
  circle by aborting one of the two.  `CirclesPassAnObserver` shows that this read
  is the only reason for circles.

More differences were met while modelling and have no run of their own:

- *A deferred run past its deadline* is claimed and deferred again until its
  fencing tokens run out or the server restarts (`player-runtime-executor.ts:215`;
  the M4.8 design, line 337, expects the lease recovery to settle it).  It is the
  exception `Overdue` of `TurnResolves`.
- *Manual retry.*  The handler map that `bootstrap.ts:195` composes has no
  `retryAgent`, which the PRD promises (line 228): a paused turn of the composed
  server leaves its pause only when the session ends.  The models bind the handler
  (`RetryAgentBound = TRUE`), so that the one the repository contains is checked.
- *Ordinal of a correction* (`session-agent-coordinator.ts:1341`): the event is
  numbered by attempts, and an attempt of an earlier lease counts; the M4.8 design
  (line 292) wants the route policy's number.  Outside 1..2 the transaction throws
  (`OrdinalRefused` in `StartAttempt`) and the turn is paused, as it is when the
  budget is spent.  That takes a third attempt before the correction: the runs, with
  `MaxAttempts = 2`, do not reach it, the theorems cover every budget.
- *An event nobody publishes* (`session-agent-coordinator.ts:1353`):
  `startCorrectionAttempt` commits an event and returns without publishing it, so
  that the next published event ends every live connection with a gap.  Readers
  catch up by reconnecting; `SessionSync` has these events ("silent").
- *Stream.*  The M3.7 design (line 460) describes a check for duplicates before an
  event is queued; the listener queues everything and `nextEvent` drops duplicates,
  so a burst of duplicates may overflow a queue that would have had room.  And the
  connection closes after the first event whose snapshot has ended
  (`closeAfterDelivery`): of `handAborted` and `sessionEnded` in one batch the last
  is not sent on that connection.
- *Shutdown* (`bootstrap.ts:608`): the drain of the HTTP server is started first and
  awaited last.  If the server never listened, the drain is rejected while the
  dispatcher or the worker is still awaited, and an unhandled rejection ends the
  process before the rest is closed; the M3.8 design (lines 279 and 894) closes all
  of it.  It is the outcome `"killed"` of `ServerLifecycle`.  And a handler that
  drains may commit after the dispatcher has stopped (the M4.10 design, line 408,
  says so too): `StoppedStaysQuiet` shows that its hint is not followed.
- *Browser.*  A snapshot event that cancels an older calibrating read makes the
  connection reconnect although nothing is wrong; a resent command that the server
  refuses before deciding stays pending; a session opened during a freeze connects,
  fails and retries until it is thawed.  None breaks a property.

## 5. Bounds and fairness

Every bound is a constant with "bound:" in its comment.

- `PlayerTurn`: `MaxIncidents` pays for each fault, passed deadline, retry or
  unknown commit.  Two are the smallest number in which one disturbs the handling
  of another; `player_turn_incidents` allows three (a crash while the retry of a
  failed run is overdue).  Restarting a process that is down is free.
  `MaxVersion = 2` gives a turn before or after the one of interest; runs of
  different versions interact only through idempotency keys and the ordering by
  creation.  `MaxRuns = 4` lets every incident replace a run.
  `MaxFencingToken` is also a guard of the code (`MAX_SAFE_INTEGER`); reaching it is
  allowed.  `MaxAttempts` and `MaxCorrections` are the budget and the route policy;
  2 and 1 give a first reply, a correction and the refusal of a third attempt.
  The run with the incidents has no corrections: an attempt of a former lease and
  one of the present are its two.
- `SessionCommands`: two callers suffice for two requests to race for one id or
  for one version; three requests give a command, its repetition and another.
  A batch of two is the smallest that can be told from its parts.
  `MaxSafeInteger = 5` lets a command meet the limit of the sequence number.
- `EventStream`: pages of one and a queue of two, so that a replay takes several
  pages, and a batch and a single event overflow the queue.  The log is bounded,
  so a reader that is overtaken for ever is not covered.
- `SessionSync`: three events are a shown one, a late one and one between them.
  One fault and one move of the player, with everything else free, are what a
  state space of this size allows; opening and leaving the page, hiding and
  showing it cost nothing.  `SessionSyncThaw.cfg` trades the fault for a second
  move.
- `DecisionTable`: one hand from each of four tables, which are chosen so that
  blinds are short, a raise is short, two short raises make a full one, and a seat
  must buy in.  `BuyIn = 20` instead of 2000 makes stacks of one to three big
  blinds, in which all-ins and side pots meet within a few actions; blinds are
  the code's.  Targets are the legal limits and the code's own suggestions
  (`OddTargets` is empty).  Two strengths distinguish a winner, a loser and a tie.
- `SessionLifecycle`: two requests, two sessions.  Three sessions were tried
  (537 376 states) and pass too.  With three requests `RequestsEnd` would fail:
  two readers that share a row in turns keep a third that wants it alone waiting,
  which the lock queue of PostgreSQL prevents but the fairness stated here does
  not express.
- `ServerLifecycle`: `MaxErrors = 5` is the code's own number.

Seats and builds are interchangeable, and every property of
`player_turn_incidents` treats them so: it uses symmetry.  No liveness run does.
Where `CHECK_DEADLOCK FALSE` stands, the configuration says what may really stop;
`SessionLifecycle` has no such line, and never stops.

Fairness:

- `PlayerTurn`, weak: `ReconcileCurrentTurn` and `ClaimNext`, because dispatcher and
  lane poll every second; `LaneStep`, because every awaited database call ends
  and every provider call has a timer; `HeartbeatRejected` and `LeaseLapses`,
  because the heartbeat is a timer and a lease is a time; the two startup steps,
  because a started process finishes its startup.  Nothing makes a user act, a
  fault happen, or an operator restart a server that is down.
- `SessionCommands`, weak: the task at the head of the chain, and the coordinator's
  publication.  A request need not arrive and a server that is down need not
  come up: a crash takes its requests with it.
- `EventStream`, weak: the publication that follows a commit, and the connection's
  own steps together with the reader's reconnection (`runtime.ts` and
  `connection.ts` of the client reconnect after every end but that of the
  session).  Nothing forces anybody to write.
- `SessionSync`, weak, for all that answers, fires or delivers taken together: as
  long as there is such a thing to do, something of it is done.  Players and
  faults are not part of it.
- `ServerLifecycle`, weak, for each group of awaits: queries and timers end,
  handlers answer, the drain has its ten seconds.
- `SessionLifecycle`, strong, for each request: a lock that is free again and
  again is granted, because PostgreSQL keeps those who wait for a row in a queue.

## 6. The proofs

Every theorem holds for all values of the constants that satisfy the named
assumption of its module.  The assumptions only say that the constants are
numbers where numbers are needed, and that the special values are distinct.

`PlayerTurn_proof` (assumption `PlayerTurnAssumption`):

| Theorem | Statement |
|---|---|
| `TypeCorrect` | `Spec => []TypeOK` |
| `CoordinationHolds` | `Spec => []Coordination` |
| `PointerIsCurrent` | `Spec => []ThinkingForCurrentTurn` |
| `DecidedOnce` | `Spec => []OneDecisionPerVersion` |
| `NotOvertaken` | `Spec => TurnNotOvertaken` |
| `MachineryImplementsTable` | `Spec => ImplementsTable` |

`TypeOK` is inductive by itself and comes first, one lemma per group of actions.
None of the others is.  A decision is unique because a version that has one lies
behind the session (`DecidedBehind`), which a commit keeps because the committing
run is the session's pointer and decides its current version
(`ThinkingForCurrentTurn`), which in turn needs that no other run is active
(`Coordination`).  Their conjunction `TurnInv` is inductive.  Most actions change
no lifecycle, version or decision; the lemma `KeptTurn` disposes of them, and
settlement, replacement, creation and commit get a lemma each.  `NotOvertaken` is
an action property of the same invariant.  The refinement needs one thing more:
the set of decisions of the table is read from `decision`, the step that ends a
run writes `lifecycle`, and `CommitCompletes` says they agree.  `TableInv` is
`TurnInv` with that, and every step is shown to be a table move or a stutter.

The second half of the module is about the runs of a turn:

| Theorem | Statement |
|---|---|
| `RunsInvariant` | `Spec => []RunsInv` |
| `RunsEndInOnePiece` | `Spec => []RunSettlesCompletely` |
| `ReplacementsFormChains` | `Spec => []ReplacementChain` |
| `LaneAlwaysOwnsItsRun` | `Spec => []LaneOwnsItsRun` |
| `RunsAreAccountedFor` | `Spec => []NoReplacementStorm` |
| `SettledRunsStay` | `Spec => SettledRunStays` |
| `UncertainCallsNotRepeated` | `Spec => UncertainCallNotRepeated` |

`RunsInv` is `TurnInv` with five parts, none of which is inductive alone.
`RowInv` is what a row says of itself; a run that settles needs to know that an
open or lost call means a model input that was prepared, a selection at least one
attempt.  `Links` lets successor and predecessor name each other, predecessors
first, so that a replacement cannot close a circle.  `Leaf` counts the runs of
the open turn that nobody replaced: none while the turn is idle, the session's
pointer while it thinks, one failed run while it is paused.  A retry looks for
exactly that run, and `Leaf` is why it finds one and not two.  `LaneFacts` says
what a step of the lane finds in its row: the fence it claimed and, step by step,
the state of the decision; it is what remains true while a provider is awaited.
`Budget` bounds the runs by the turns and the incidents.  It needs
`Paid`: between an incident and the replacement that answers it (a lapsed lease, a
passed deadline, a dead server) one run more is already paid for.  The theorem on
`NoReplacementStorm` is `Budget` without that.  Every row changes by an operator
of the model (claimed, started, selected, settled, linked), and each has a lemma
on one row; the actions then only say which row it is.

`SessionCommands_proof` (assumption `SessionCommandsAssumption`):

| Theorem | Statement |
|---|---|
| `TypeCorrect` | `Spec => []TypeOK` |
| `OnePublishes` | `Spec => []OneCommandPublishes` |
| `AnswersFinal` | `Spec => []AnswersAreFinal` |
| `AlwaysRecoverable` | `Spec => []HistoryRecoverable` |
| `LedgerTellsLog` | `Spec => []LedgerMatchesLog` |
| `ExecutionImplementsOutcomes` | `Spec => ImplementsOutcomes` |
| `ExecutionImplementsLog` | `Spec => ImplementsLog` |

Here even `TypeOK` is not inductive: an answer copies a ledger row, which may hold
`NoCommand` until the command is decided.  `ExecutionInv` adds that the sequence
numbers start behind the two events of the creation (`Numbered`), that a decided
row is complete (`RowsComplete`), that only the head of the chain publishes, and
only a completed command of its own (`HeadPublishes`), and that a command's batch
belongs to a caller that is publishing (`BatchesOwned`).  `HeadPublishes` and
`BatchesOwned` together are what makes publication single.  `AnswersAreFinal`
follows from an action fact, `RowsFinal` (a decided row never changes), and from
`AnswersKnown` (whatever was answered is decided).  `HistoryRecoverable` is
inductive together with `ExecutionInv`: appending a batch behind
`nextEventSeq` keeps numbers exact and versions chained, and the hand facts are kept
because a mutation that keeps the version keeps the hand, and one that ends the
session leaves none (`EffectType`).  `LedgerMatchesLog` is
kept because a new event belongs to an id that was unregistered and so owned none.

The log of `CommittedLog` is read off the event rows (`LogOf`), and whether an
entry ends the session off the ledger row of the command that wrote it.  That an
entry never changes needs exact sequence numbers (`HistoryInv`), events that
belong to completed commands (`StoryInv`) and rows that are final.  That nothing
follows the end needs `EndedLast`: the last event ends the session exactly when
the session has ended; and this needs `CallsFit`, because it is a client's
command that ends a session.  `PublishInv` makes the hand-over of one batch the
removal of one batch.  `LogInv` is their conjunction; `PersistAppends` shows that
every mutation, of a command or of the coordinator, appends one batch, and the
other steps publish, lose everything handed over, or stutter.

`EventStream_proof` (assumption `StreamAssumption`: among others, the queue has
room for one batch):

| Theorem | Statement |
|---|---|
| `TypeCorrect` | `StreamSpec => []StreamTypeOK` |
| `NothingSkipped` | `StreamSpec => ReaderSkipsNothing` |
| `NothingFallsBetween` | `StreamSpec => []NothingDropped` |
| `MissingIsReallyLost` | `StreamSpec => []MissingIsLost` |

`StreamInv` is the type with four facts: what is unpublished, queued or read was
committed (`Written`); the pages read lie between what was delivered and the
watermark, and the reader stands right before the next event (`Window`); what
counts as delivered is the watermark until the replay has got there
(`Delivered`); and only an open connection is calibrated (`Fresh`).  `Window` and
`Delivered` are what makes the change from replay to live seamless, and give
`NothingSkipped` as an action property.  `CoveredInv` adds that everything
published is below the watermark (or delivered) or in the queue.  It is stated
from the moment the window is fixed, because before that there is nothing to fall
out of.  `LossInv` adds `MissingIsLost` itself, which is kept because a lost
number stays lost (`LostStays`): batches committed later start behind it.

`SessionSync_proof` (assumption `SyncAssumption`):

| Theorem | Statement |
|---|---|
| `SyncInvariant` | `Spec => []SyncInv` |
| `TypeCorrect` | `Spec => []TypeOK` |
| `ReadyMeansCurrent` | `Spec => []ReadyIsCurrent` |
| `UnansweredStaysPending` | `Spec => []UnansweredIsPending` |
| `HonestyIsBelieved` | `Spec => []HonestServerBelieved` |
| `ShownOnlyAdvances` | `Spec => ShownNeverGoesBack` |
| `DeletedIsNeverShown` | `Spec => DeletedStaysGone` |

The handlers are functions from client to client, so the proof is one lemma per
handler: from a sound client (`Good`) it makes a sound client.  Sound means three
things.  `Kept`: every request that is still wanted began no later than what is
shown, and if something newer is shown it has been told so (`advanced`).
`StreamOK`: the stream continues what is shown or is about to bring its own
snapshot, and ready means that it has.  `ReadOK`: no answer that the read under
way may get is older than the question or than the stream's snapshot; after a
deletion there is none at all.  With these, `AnswerIsBelieved` and
`NextIsBelieved` say of `Decision` alone that a late answer is superseded and
never a protocol error, for any history that satisfies `LogInv` (versions never
decrease, nothing follows the end).  What a handler may do to the client beside
that is the relation `Passing`: what is shown stays, advances from a session that
has not ended, or is forgotten with every request.  It composes, holds of every
handler, and gives the two action properties and, with `CommandInv` (a command is
decided no earlier than the snapshot it was formed on), `UnansweredIsPending`.
The server's steps only lengthen the history or end it (`SoundGrows`).

`SessionLifecycle_proof` (assumption `BoundAssumption`: the number of sessions is a
number; the set of requests is arbitrary):

| Theorem | Statement |
|---|---|
| `LifecycleInvariant` | `Spec => []LifecycleInv` |
| `TypeCorrect` | `Spec => []TypeOK` |
| `CreationStaysCurrent` | `Spec => []CreationIsCurrent` |
| `LockedStaysTrueAlways` | `Spec => []LockedStaysTrue` |
| `CirclesAlwaysPassAnObserver` | `Spec => []CirclesPassAnObserver` |

The invariant has layers.  `HoldingAt` says which rows a request has locked when
it is at a step; `Exclusive` that a row locked for update is locked by nobody
else; `KnowsAt` what a request knows of the rows it has locked.  The last is kept
because a transaction that commits a change of a row holds that row, so that
nobody else who knows something of it can (`OthersKnow`): a creation knows that
no session is active because it holds the owner's row, which every other
creation needs too, and that its source is the latest ended one because it holds
that session's row, so that nobody deletes it, and no session is left that could
end.  Without the second layer the third is not inductive, and without
the first the second has nothing to say.  For the circles, `OrderedAt` says which
classes of rows a request may hold at a step.  Steps have a rank, and along every
wait of requests other than observations the rank grows (`WaitsUpwards`), so a
circle of any length has a member of greatest rank, which cannot wait for another
member: a least-element argument over the natural numbers.

`PokerTable_proof` (assumptions `SeatsAssumption`, `BuyInAssumption`,
`HandClassesAssumption`, `TablesAssumption`: six to nine seats, a buy-in that is a
positive number, at least one class of hands, and starting tables whose stacks
are what was bought):

| Theorem | Statement |
|---|---|
| `TablesStayValid` | `Spec => []TypeOK` |
| `ChipsAreConserved` | `Spec => []ChipsConserved` |
| `StatisticsStayReadable` | `Spec => []StatisticsReadable` |
| `RaisingReopensFairly` | `Spec => []RaisesReopenFairly` |
| `PotsAreSharedFairly` | `Spec => []FairShares` |
| `LegalPlayIsSettled` | `Spec => []LegalPlaySettles` |
| `HandsEnd` | `Spec => EveryHandEnds` |

There are at most nine seats, so a sum over the seats is a sum of nine numbers,
and what chips do is arithmetic on it: a seat pays into its contribution, a
layer's refund or award takes out what the contributions put in.  What has no
bound (the next seat that may act, the layers of the pot, the distinct amounts)
goes by the least number of a set of numbers instead of by induction over data.

`TableInv` holds the type, the chips in play with what was bought, and what the
betting relies on: nobody has put in more than the current bet, a seat that can
act has chips, the street waits for a seat that has something to answer, and the
record of a hand that is over.  It is needed as a whole: chips alone are not
inductive, because a call pays what the bet exceeds the contribution by, and that
is only a number of chips if the bet bounds the contribution.  `StatsInv` adds
what the counters of a hand have seen, `ReopenInv` which level a seat last
answered and that full raises alone move the level a seat may raise over.
`EveryHandEnds` is the action property behind termination: each action that does
not end the hand lowers a triple of natural numbers, the streets left, the chips
behind, the turns left, in their lexicographic order (`ActBringsNearer`).

`FairShares` compares seats with each other, so its proof is about the layers of
the pot and not about nine numbers.  `LayersUpTo` says that the layers up to an
amount hold what every seat has put in up to that amount; it goes by the least
amount for which it fails, over sums (`SumOver`) that are shown to add up one
element at a time.  An award then compares layer by layer: whoever wins a layer
beats everybody who is eligible for it, so the best hand gets back at least its
own height of every layer it is in, nobody is paid out of a layer more than the
others have put into it, and of two equal hands the one that is in more layers
wins at least what the other wins of each, but for the odd chip.

`LegalPlaySettles` needs the longest argument.  What can go wrong at a settlement
is a layer with folded seats only, or a returned bet that is older than the last
street.  `TopInHand` excludes the first (somebody still in has put in as much as
anybody) and `SharedBase` the second (two seats brought as much as anybody from
the earlier streets); neither is inductive.  A fold keeps `TopInHand` only if
whoever made the bet stays, and the bettor stays because the turn never reaches a
seat that nothing is asked of (`BetMade`, `ActorIsCovered`).  Before the flop
nobody made the bet: the opening is the big blind, which may be all-in for less.
There the order of turns is what helps: `InOrder` says that the first turns go
round from the big blind and that it comes last, so a seat that folds leaves
somebody behind who has matched the opening or still has to
(`BlindIsCovered`).  `Stakes` is these parts together, and `PlayInv` adds that
the record of the last hand was accepted.  That the turn always comes to somebody
who has something to answer (`TurnsKeepOrder`, `SameStreetGoesOn`,
`NextStreetOpens`), that an action offered is not refused (`OfferedIsAccepted`)
and that a hand that ended can be settled (`EndCanBeSettled`) follow from it.

The proof found that `Continuation` had a CASE with two arms true at once (one
seat left, and that seat all-in).  TLC takes the first, as the code's early
return does, but TLA+ leaves the choice open; the arms now exclude each other.

The proof of `StatisticsReadable` found the property false as it first stood: it
compared the statistics with the last hand also while the next one was played,
and no run with one hand could tell.  It now speaks of the time between hands.

`DecisionTable_proof` (the assumptions of `PokerTable_proof`, and
`PersonasAssumption`: a trait is a number from 0 to 100, as `centeredTransfer` demands):

| Theorem | Statement |
|---|---|
| `DecisionsPlayTheTable` | `DecisionSpec => Spec` |
| `PromisesAreTrue` | `DecisionSpec => []ToldTheTruth` |
| `AnalysisIsTrue` | `DecisionSpec => []AnalysisFitsTable` |
| `AnalysisAlwaysSucceeds` | `DecisionSpec => []AnalysisSucceeds` |
| `OfferedIsADistribution` | `DecisionSpec => []WeightsAreADistribution` |

The first says that a table whose seats are advised is a table, so everything
proved of `PokerTable` holds of it, and its invariants (`TableInv`, `PlayInv`) are
where the others begin.

A promise is kept because of `PromiseInv`: a seat that was told it is done, and
can still act, owes nothing, and of those who owe something nobody can raise.
That is inductive since a step by somebody who cannot raise moves neither the bet
nor the smallest raise (`NoRaiseNoChange`), and then nobody who could not raise
before can raise now (`NobodyRises`).  An all-in below a full raise is a raise
here, which is what makes the promise true and the narrower test
`CanFaceFullRaise` false.

`SpotInv` ties the spot to the round: unraised exactly while the bet is the big
blind, the increment of the last full raise is the smallest raise, and the
aggressor of the current bet is in the hand and owes nothing.  The last is more
than the property says and is needed, because only a seat that owes nothing is
sure not to fold next.  That the big blind's option ends the round (`OptionIsLast`)
comes from `InOrder`.

The risk of a bet is a matter of layers.  `ContestableIs` says that a seat can win
what every seat has put in up to its own contribution; `RiskFacts` that what is
certain to come back is what the actor has put in beyond the reach of all others,
no more than it just paid.  From these follow that the rest can be played for
(`RiskIsPlayedFor`) and that the settlement would return the same
(`ReturnsAgree`), since an actor beyond everybody's reach is alone in the highest
layer (`SoleTop`).

`AnalysisSucceeds` is the proof that none of the checks in the analysis throws.
Every layer has a winner with and without the sure return (`WinnableAfter`), what
comes back was put in on this street (`ExcessIsRecent`), the next round has
somebody to act (`ContinuationIsKnown`), a call is among the candidates whenever
something is owed (`CallIsOffered`).  The divisors are what needed an invariant of
its own: after the flop the actor has something in the pot because somebody has
(`EarlierInv`) and whoever can act has matched it; before the flop a seat that may
check has matched the blind.  What is left is a fold by a seat without chips
in the pot, which is the case of the run `fold_unprojectable`.

`WeightsAreADistribution` needs no invariant of the table, only that there are
candidates, and finitely many (`SomeCandidate`, `CandidatesAreFinite`); it holds
for every list of them.  Positions of the list stand for candidates, so that the
rounding is a fact about sets: the shares of a total add up to it because the
first positions take what does not divide (`SharesAddUp`), and the weights by
families because every candidate belongs to the family its first member names
(`OneFamilyEach`, `SumOfFamilies`).  The transfers of a persona keep
`Weighted`: the whole is conserved, nothing is negative, and every weight is within
the cap of its base.  The last is what makes four rules together safe where each
looks only at the current weights: what a source can give is measured from the
base, not from what the rule before left (`MovableLeaves`), and a target's room
likewise (`MoveIsWeighted`).  The fold over the sources is a function on sets of
positions that exists by induction on their number (`GivesExists`), which is proved
here for this one fold, since the provers cannot instantiate the general
principle.

`ServerLifecycle_proof` (assumption `ErrorsAssumption`: the limit of errors is a
positive number):

| Theorem | Statement |
|---|---|
| `TypeCorrect` | `Spec => []TypeOK` |
| `DatabaseLast` | `Spec => []DatabaseOutlivesItsUsers` |
| `ExitCodeIsTrue` | `Spec => []ExitCodeTells` |
| `ClosesOnce` | `Spec => CleansUpOnce` |
| `StoppedIsQuiet` | `Spec => StoppedStaysQuiet` |

The inductive invariant `LifecycleInv` says what each stage of the closing has
left behind: before the start of a resource there is nothing of it
(`NothingStarted`), closing begins only for a reason (`ClosingFollows`), and once
the closing has passed the dispatcher, the worker, the server, the database, they
are at rest (`DispatcherGone`, `WorkerGone`, `ServerGone`, `DatabaseGone`), but for
what was given up: a lane still at work, a handler whose connection was cut.
`ExitTold` says what the exit code stands for before and after the last stage.
`DatabaseOutlivesItsUsers` is their sum.  The action properties come from the same
invariant with two lemmas on steps, `ClosingMoves` and `StoppedLane`.

Model-checked only:

- liveness (`TurnStarts`, `TurnResolves`, `EveryCallEnds`, `PublishedIsSeen`,
  `CatchesUp`, `RequestsEnd`, `StopsAtLast`) and every violation: the prover does no
  reasoning about fairness and `ENABLED`.  Every safety and action property of the
  passing runs is proved.

Type correctness and some older invariants (`ThinkingForCurrentTurn`,
`OneDecisionPerVersion`, `TurnNotOvertaken`, `LedgerMatchesLog`, `AnswersAreFinal`,
`OneCommandPublishes`, `LaneOwnsItsRun`, `NothingDropped`, `MissingIsLost`) are
proved and no longer part of a configuration, since the proof says more than the
run.  They can be added to one again at any time.

No module declares a RECURSIVE operator, since the prover has no backend for
them.

## 7. What is not modelled

- *Contents.*  Prompts, observations, audit documents, cards, names: they decide
  nothing in these protocols.  In `SessionCommands` the poker engine's verdict on a
  command is a free choice among what it may return; what it really returns is
  `PokerTable`.
- *Strength of hands* (`hand-evaluator`), hand features, opponent evidence, the
  strategy catalogue and the wording for the model: functions of the cards, free
  of protocol; strength is a choice.
- *Budgets other than attempts*: tokens, cost, capability invocations; and the
  memory an AI seat keeps, beyond the locks it takes.
- *The check of a commit against a replay of its decision* (`verifyReplay`) and the
  event policy of a command (`command-event-policy.ts`): second computations of
  what the models compute once.
- *The second signal.*  After the first, Node's default ends the process at once.
- *Several sessions* in `PlayerTurn` and `SessionCommands`.  An owner has one active
  session; ended sessions have no active run and take no commands.  What several
  sessions do to each other is `SessionLifecycle`.
- *Of the session lifecycle*: the rows of a created roster, the hands, decisions
  and attempts a deletion takes along (their order is the foreign keys'), the
  deletion receipts; `retryReadonlySessionRecovery`, which has no caller; the load
  of the decision reference, which locks in the order of the other executor reads.
  There is no ledger of creations: a repeated creation finds the active session.
- *Two processes at once.*  The server is deployed as one process; leases would
  protect runs from a second one, the in-memory scheduler would not.
- *The stream's other endings*: a cursor ahead of the log, stored events that do
  not decode, deletion while a reader is connected.  A batch larger than the
  empty queue (64 events) is excluded by `StreamAssumption`.
- *Of the browser*: invalidation of other queries, visual effects, creating and
  locating the active session, the status `readonlyDiagnostic` (treated by the
  client as ended).  A connection that is slow but alive is a fault of the read or
  a silence.
- *Coach, ranges, strategy*: certification of immutable documents without a
  protocol, not composed into the server.
- *Schemas and contracts, read models, HTTP validation, settings, statistics
  queries, evaluation tools*: no state of their own.
