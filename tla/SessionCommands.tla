--------------------------- MODULE SessionCommands ---------------------------
(***************************************************************************)
(* Command execution for one session: the per-session scheduler, the one   *)
(* transaction of a command (recovery, ledger, version check, handler,      *)
(* events), and the publication that follows its commit.                    *)
(*                                                                         *)
(* Commands come from HTTP clients, which may repeat an id, with the same   *)
(* or another body, at any time, and from the Player commit gate.  The      *)
(* coordinator appends its own events in transactions of its own.  What the *)
(* poker engine decides about a command is left open.                       *)
(***************************************************************************)
EXTENDS Naturals, Sequences, FiniteSets

CONSTANTS
  Callers,          \* requests that can be in progress at once
  ClientIds,        \* command ids chosen by clients
  AiIds,            \* command ids of Player decisions
  NoCommand, Nobody,
  Versions,         \* bound: versions a request may expect
  MaxBatch,         \* bound: events of one mutation
  MaxSafeInteger,   \* the largest number a version or sequence may reach
  MaxRequests,      \* bound: requests received
  MaxIncidents      \* bound: database errors, unknown commits, crashes

ASSUME SessionCommandsAssumption ==
  /\ ClientIds \cap AiIds = {} /\ NoCommand \notin ClientIds \cup AiIds
  /\ Nobody \notin Callers /\ Versions \subseteq Nat
  /\ MaxBatch \in Nat \ {0}
  /\ MaxSafeInteger \in Nat /\ MaxSafeInteger >= 2
  /\ MaxRequests \in Nat /\ MaxIncidents \in Nat

VARIABLES
  session,      \* the sessions row, its table snapshot and its hands in progress
  events,       \* the rows of session_events
  ledger,       \* the command_ledger row of each command id
  calls,        \* what each caller is waiting for
  queue,        \* the scheduler's chain of callers
  unpublished,  \* committed batches not yet handed to the hub
  answers,      \* answers given from the ledger, over the whole history
  serving,      \* is the process up?
  requests, incidents

vars == <<session, events, ledger, calls, queue, unpublished, answers, serving,
          requests, incidents>>

CommandIds == ClientIds \cup AiIds

\* canonicalPayloadDigest covers the type, the body and the expected version.
Payloads == [type: {"act", "end", "ai"}, expectedStateVersion: Versions]
PayloadsOf(id) == {p \in Payloads : p.type = "ai" <=> id \in AiIds}

Answers == [kind: {"completed", "failed"}, stateVersion: Nat, eventSeq: Nat]
LedgerRows == [status: {"absent", "completed", "failed"}, payload: Payloads \cup {NoCommand},
               firstEventSeq: Nat, response: Answers \cup {NoCommand}]
EventRows == [seq: Nat, before: Nat, after: Nat, by: CommandIds \cup {NoCommand}]
BatchRows == [first: Nat, last: Nat, caller: Callers \cup {Nobody}]

AbsentRow == [status |-> "absent", payload |-> NoCommand, firstEventSeq |-> 0,
              response |-> NoCommand]
\* A hand is named by the version that started it.
NoHand == 0

IdleCall  == [pc |-> "idle", id |-> NoCommand, payload |-> NoCommand]

CallStates == {IdleCall} \cup [pc: {"waiting", "publishing"}, id: CommandIds, payload: Payloads]

\* A session is created at version 1 with two events, in its first hand.
Init ==
  /\ session = [lifecycleStatus |-> "active", stateVersion |-> 1, nextEventSeq |-> 2,
                currentHandId |-> 1, snapshot |-> [stateVersion |-> 1, handId |-> 1],
                handsInProgress |-> {1}]
  /\ events = {[seq |-> s, before |-> 0, after |-> 1, by |-> NoCommand] : s \in {0, 1}}
  /\ ledger = [id \in CommandIds |-> AbsentRow]
  /\ calls = [c \in Callers |-> IdleCall]
  /\ queue = <<>> /\ unpublished = {} /\ answers = {}
  /\ serving = TRUE /\ requests = 0 /\ incidents = 0

-----------------------------------------------------------------------------
(* Recovery: what every transaction reads before it writes *)

\* hasExactEventSequence
ExactEventSequence ==
  /\ {e.seq : e \in events} = 0..(session.nextEventSeq - 1)
  /\ \A d, e \in events : d.seq = e.seq => d = e

\* hasValidEventVersionChain
ValidVersionChain ==
  \A e \in events :
    /\ e.after \in {e.before, e.before + 1}
    /\ e.seq = 0 => e.before = 0
    /\ \A d \in events : d.seq + 1 = e.seq =>
         \/ e.before = d.before /\ e.after = d.after
         \/ e.before = d.after

\* hasValidHandRelationship: the hand of the snapshot, and no other, is in progress.
ValidHandRelationship ==
  /\ session.lifecycleStatus = "ended" => session.snapshot.handId = NoHand
  /\ session.handsInProgress = {session.snapshot.handId} \ {NoHand}

\* decideSessionRecovery answers "ready": the stored facts agree with each other.
\* Its decoding of payloads is left out: a row here is what it decodes to, and the
\* row of the snapshot is written with the session.
Recoverable ==
  /\ ExactEventSequence /\ ValidVersionChain
  /\ \A e \in events : e.seq + 1 = session.nextEventSeq => e.after = session.stateVersion
  /\ session.snapshot.stateVersion = session.stateVersion
  /\ ValidHandRelationship
  /\ session.currentHandId = session.snapshot.handId

-----------------------------------------------------------------------------
(* Mutations *)

Incident == incidents < MaxIncidents /\ incidents' = incidents + 1

\* persistSessionMutation: refused at the limit of safe integers.
Fits(size, version) == /\ session.nextEventSeq + size <= MaxSafeInteger
                       /\ version <= MaxSafeInteger

NewEvents(size, version, id) ==
  {[seq |-> s, before |-> session.stateVersion, after |-> version, by |-> id] :
     s \in session.nextEventSeq..(session.nextEventSeq + size - 1)}

\* Broken: the row of a hand that is over stays in progress.
HandRowsLeftOpen(hand) == session.handsInProgress \cup ({hand} \ {NoHand})

\* The relation writes of a mutation: a hand left behind is completed or aborted,
\* a hand that starts is inserted.
HandRows(hand) ==
  (session.handsInProgress \ {session.snapshot.handId}) \cup ({hand} \ {NoHand})

\* A mutation has a table snapshot exactly when it moves the version.
SnapshotAfter(version, hand) ==
  IF version = session.stateVersion THEN session.snapshot
                                    ELSE [stateVersion |-> version, handId |-> hand]

Persist(size, version, lifecycle, hand, id) ==
  /\ Fits(size, version)
  /\ events' = events \cup NewEvents(size, version, id)
  /\ session' = [lifecycleStatus |-> lifecycle, stateVersion |-> version,
                 nextEventSeq |-> session.nextEventSeq + size, currentHandId |-> hand,
                 snapshot |-> SnapshotAfter(version, hand),
                 handsInProgress |-> HandRows(hand)]

BatchOf(size, caller) == [first |-> session.nextEventSeq,
                          last |-> session.nextEventSeq + size - 1, caller |-> caller]

-----------------------------------------------------------------------------
(* The scheduler *)

\* A request enters the chain of its session when it arrives.
Receive(c) ==
  /\ serving /\ requests < MaxRequests /\ calls[c] = IdleCall
  /\ \E id \in CommandIds : \E p \in PayloadsOf(id) :
       calls' = [calls EXCEPT ![c] = [pc |-> "waiting", id |-> id, payload |-> p]]
  /\ queue' = Append(queue, c)
  /\ requests' = requests + 1
  /\ UNCHANGED <<session, events, ledger, unpublished, answers, serving, incidents>>

Turn(c) == /\ serving /\ queue # <<>> /\ Head(queue) = c
           /\ calls[c].pc = "waiting"

\* The task of a caller ends, with or without an error; the next one starts.
Finish(c) == calls' = [calls EXCEPT ![c] = IdleCall] /\ queue' = Tail(queue)

Tell(id, payload, response) ==
  answers' = answers \cup {[id |-> id, payload |-> payload, response |-> response]}

-----------------------------------------------------------------------------
(* The transaction of one command *)

Registered(c) == ledger[calls[c].id].status # "absent"
SameDigest(c) == ledger[calls[c].id].payload = calls[c].payload
Ai(c)         == calls[c].id \in AiIds

\* The ledger answers: also for a session that has ended.  An AI command that
\* was recorded is a completed one.
Replay(c) ==
  /\ Turn(c) /\ Registered(c) /\ SameDigest(c)
  /\ Tell(calls[c].id, calls[c].payload, ledger[calls[c].id].response)
  /\ Finish(c)
  /\ UNCHANGED <<session, events, ledger, unpublished, serving, requests, incidents>>

\* CommandPayloadConflictError, or an ended session without a row: the answer
\* is not recorded.  An AI command that is late, or that the table refuses, is
\* rolled back with its registration.
Decline(c) ==
  /\ Turn(c)
  /\ \/ Registered(c) /\ ~SameDigest(c)
     \/ ~Registered(c) /\ session.lifecycleStatus = "ended"
     \/ ~Registered(c) /\ Ai(c)
  /\ Finish(c)
  /\ UNCHANGED <<session, events, ledger, unpublished, answers, serving, requests, incidents>>

\* Broken: a command that was recorded is decided again.
ExecutableAgain(c) == Turn(c) /\ session.lifecycleStatus = "active"

Executable(c) == Turn(c) /\ session.lifecycleStatus = "active" /\ ~Registered(c)

CurrentVersion(c) == calls[c].payload.expectedStateVersion = session.stateVersion

\* What the transport does with the outcome of a commit: it is learnt, or the
\* connection breaks on COMMIT and the caller sees an error.
Learnt   == UNCHANGED incidents
NotLearnt == Incident

\* failCommand: a stale version, or a rejection by the handler.
Reject(c) ==
  LET response == [kind |-> "failed", stateVersion |-> session.stateVersion,
                   eventSeq |-> session.nextEventSeq - 1] IN
  /\ Executable(c) /\ ~Ai(c)
  /\ ledger' = [ledger EXCEPT ![calls[c].id] =
       [status |-> "failed", payload |-> calls[c].payload, firstEventSeq |-> 0,
        response |-> response]]
  /\ \/ Learnt /\ Tell(calls[c].id, calls[c].payload, response)
     \/ NotLearnt /\ UNCHANGED answers
  /\ Finish(c)
  /\ UNCHANGED <<session, events, unpublished, serving, requests>>

InHand == session.snapshot.handId # NoHand

\* The hands a command may leave: an action goes on with its hand or finishes it;
\* between hands a player rebuys or starts the next hand, and no decision applies.
HandsAfter(payload) ==
  IF InHand THEN {NoHand, session.snapshot.handId}
  ELSE IF payload.type = "ai" THEN {} ELSE {NoHand, session.stateVersion + 1}

\* Lifecycle, version and hand.  endSession keeps the version between hands and
\* moves it when it aborts a paused hand; every other command moves it.
Effects(payload) ==
  IF payload.type = "end"
    THEN {<<"ended", session.stateVersion + (IF InHand THEN 1 ELSE 0), NoHand>>}
    ELSE {"active"} \X {session.stateVersion + 1} \X HandsAfter(payload)

Apply(c) ==
  /\ Executable(c) /\ CurrentVersion(c)
  /\ \E size \in 1..MaxBatch, effect \in Effects(calls[c].payload) :
       LET response == [kind |-> "completed", stateVersion |-> effect[2],
                        eventSeq |-> session.nextEventSeq + size - 1] IN
       /\ Persist(size, effect[2], effect[1], effect[3], calls[c].id)
       /\ ledger' = [ledger EXCEPT ![calls[c].id] =
            [status |-> "completed", payload |-> calls[c].payload,
             firstEventSeq |-> session.nextEventSeq, response |-> response]]
       /\ \/ /\ Learnt
             /\ unpublished' = unpublished \cup {BatchOf(size, c)}
             /\ calls' = [calls EXCEPT ![c].pc = "publishing"]
             /\ UNCHANGED queue
          \/ /\ NotLearnt /\ Finish(c)
             /\ UNCHANGED unpublished
  /\ UNCHANGED <<answers, serving, requests>>

\* After the commit, still in the task: hand the events to the hub, hint the
\* dispatcher, answer.
PublishAndAnswer(c) ==
  /\ calls[c].pc = "publishing"
  /\ unpublished' = {b \in unpublished : b.caller # c}
  /\ Tell(calls[c].id, calls[c].payload, ledger[calls[c].id].response)
  /\ Finish(c)
  /\ UNCHANGED <<session, events, ledger, serving, requests, incidents>>

\* Broken: a task that fails never lets the next one start.
RollBackWedged(c) ==
  /\ Turn(c) /\ Incident
  /\ calls' = [calls EXCEPT ![c] = IdleCall]
  /\ UNCHANGED <<session, events, ledger, queue, unpublished, answers, serving, requests>>

\* A database error, an exceeded safe integer or an inconsistent candidate
\* rolls everything back.
RollBack(c) ==
  /\ Turn(c)
  /\ \/ Incident
     \/ /\ Executable(c) /\ CurrentVersion(c)
        /\ \E size \in 1..MaxBatch, effect \in Effects(calls[c].payload) :
             ~Fits(size, effect[2])
        /\ UNCHANGED incidents
  /\ Finish(c)
  /\ UNCHANGED <<session, events, ledger, unpublished, answers, serving, requests>>

-----------------------------------------------------------------------------
(* The coordinator's own transactions, and the process *)

\* Broken: a run is settled although its session has ended meanwhile.
CoordinateAfterEnd ==
  /\ serving
  /\ Persist(1, session.stateVersion, session.lifecycleStatus, session.currentHandId,
             NoCommand)
  /\ \/ Learnt /\ unpublished' = unpublished \cup {BatchOf(1, Nobody)}
     \/ NotLearnt /\ UNCHANGED unpublished
  /\ UNCHANGED <<ledger, calls, queue, answers, serving, requests>>

\* A run is queued, settled or replaced: an event without a new version.
Coordinate ==
  /\ serving /\ session.lifecycleStatus = "active"
  /\ Persist(1, session.stateVersion, "active", session.currentHandId, NoCommand)
  /\ \/ Learnt /\ unpublished' = unpublished \cup {BatchOf(1, Nobody)}
     \/ NotLearnt /\ UNCHANGED unpublished
  /\ UNCHANGED <<ledger, calls, queue, answers, serving, requests>>

\* The event of a correction is committed and handed to nobody.
StartCorrection ==
  /\ serving /\ session.lifecycleStatus = "active"
  /\ Persist(1, session.stateVersion, "active", session.currentHandId, NoCommand)
  /\ UNCHANGED <<ledger, calls, queue, unpublished, answers, serving, requests, incidents>>

\* publishBestEffort, outside the scheduler.
PublishCoordination ==
  /\ \E b \in unpublished : b.caller = Nobody /\ unpublished' = unpublished \ {b}
  /\ UNCHANGED <<session, events, ledger, calls, queue, answers, serving, requests,
                 incidents>>

Crash ==
  /\ serving /\ Incident
  /\ serving' = FALSE
  /\ calls' = [c \in Callers |-> IdleCall] /\ queue' = <<>> /\ unpublished' = {}
  /\ UNCHANGED <<session, events, ledger, answers, requests>>

Restart ==
  /\ ~serving /\ serving' = TRUE
  /\ UNCHANGED <<session, events, ledger, calls, queue, unpublished, answers, requests,
                 incidents>>

Task(c) == Replay(c) \/ Decline(c) \/ Reject(c) \/ Apply(c) \/ PublishAndAnswer(c)
           \/ RollBack(c)

Next == \/ \E c \in Callers : Receive(c) \/ Task(c)
        \/ Coordinate \/ StartCorrection \/ PublishCoordination \/ Crash \/ Restart

Spec == Init /\ [][Next]_vars

\* Every transaction ends, and what follows it runs.
FairSpec == Spec /\ WF_vars(\E c \in Callers : Task(c)) /\ WF_vars(PublishCoordination)

-----------------------------------------------------------------------------
(* Properties *)

\* Every row keeps its shape.
TypeOK ==
  /\ session \in [lifecycleStatus: {"active", "ended"}, stateVersion: Nat,
                  nextEventSeq: Nat, currentHandId: Nat,
                  snapshot: [stateVersion: Nat, handId: Nat], handsInProgress: SUBSET Nat]
  /\ events \subseteq EventRows
  /\ ledger \in [CommandIds -> LedgerRows]
  /\ calls \in [Callers -> CallStates]
  /\ queue \in Seq(Callers)
  /\ unpublished \subseteq BatchRows
  /\ answers \subseteq [id: CommandIds, payload: Payloads, response: Answers]
  /\ serving \in BOOLEAN /\ requests \in 0..MaxRequests /\ incidents \in 0..MaxIncidents

\* No sequence of commands, coordinator writes, failures and crashes leaves
\* facts that decideSessionRecovery diagnoses: the session never turns
\* read-only by itself.
HistoryRecoverable == Recoverable

\* The ledger and the event log tell one story: a completed command owns the
\* events of its range and no others, all of one step from the version it
\* expected; a refused or unknown command owns none.
LedgerMatchesLog ==
  \A id \in CommandIds :
    LET row == ledger[id]  own == {e \in events : e.by = id} IN
    IF row.status = "completed"
      THEN /\ {e.seq : e \in own} = row.firstEventSeq..row.response.eventSeq
           /\ \A e \in own : /\ e.before = row.payload.expectedStateVersion
                             /\ e.after = row.response.stateVersion
      ELSE own = {}

\* An answer given from the ledger is the ledger's for ever: repetitions of a
\* command, before and after a crash, all get the same answer.
AnswersAreFinal ==
  \A a \in answers : /\ ledger[a.id].payload = a.payload
                     /\ ledger[a.id].response = a.response

\* The scheduler covers publication: while a command's events are on their way
\* to the hub, no later command's events are.
OneCommandPublishes ==
  \A a, b \in unpublished : a.caller # Nobody /\ b.caller # Nobody => a = b

\* Every request leaves the scheduler, whatever happens to those before it.
EveryCallEnds == \A c \in Callers : calls[c] # IdleCall ~> calls[c] = IdleCall

Decision(id) == [kind |-> ledger[id].status, payload |-> ledger[id].payload,
                 version |-> ledger[id].response.stateVersion]

Outcomes == INSTANCE CommandOutcomes WITH
  version <- session.stateVersion, open <- session.lifecycleStatus = "active",
  outcome <- [id \in CommandIds |-> IF ledger[id].status = "absent"
                                      THEN [kind |-> "none"] ELSE Decision(id)],
  reported <- {<<a.id, [kind |-> a.response.kind, payload |-> a.payload,
                        version |-> a.response.stateVersion]>> : a \in answers}

\* Ledger, retries, rollbacks and crashes implement commands decided once.
ImplementsOutcomes == Outcomes!Spec

EventAt(i) == CHOOSE e \in events : e.seq = i - 1

EndsSession(e) == e.by \in ClientIds /\ ledger[e.by].payload.type = "end"

Log == INSTANCE CommittedLog WITH
  log <- [i \in 1..session.nextEventSeq |->
            LET e == EventAt(i) IN [version |-> e.after, ended |-> EndsSession(e)]],
  unpublished <- {[first |-> b.first, last |-> b.last, ordered |-> b.caller # Nobody] :
                    b \in unpublished}

\* To a reader of events, all of this is a log that grows in batches.
ImplementsLog == Log!LogSpec
=============================================================================
