------------------------------ MODULE PlayerTurn ------------------------------
(***************************************************************************)
(* How one active session gets the decision of an AI seat.                 *)
(*                                                                         *)
(* The session row, the durable agent runs with their lease, fencing token *)
(* and deadline, the Player lane of the worker, the dispatcher, the        *)
(* coordinator transactions, the commit gate and the startup recovery, all *)
(* as one atomic action per database transaction.  An owner has at most    *)
(* one active session, so one session is the whole system.                 *)
(*                                                                         *)
(* Everything that goes wrong from outside (a database error, a stalled    *)
(* event loop, a deadline that passes, a crash, a user retry) is paid for  *)
(* from the budget MaxIncidents.                                           *)
(***************************************************************************)
EXTENDS Naturals, FiniteSets

CONSTANTS
  Actors,           \* the AI participants of the table
  User, NoActor,    \* the human seat; nobody to act (between hands)
  Configs,          \* run configurations a build of the server can resolve
  MaxVersion,       \* bound: state versions at which a new turn may open
  MaxRuns,          \* bound: run identifiers
  MaxAttempts,      \* budget.maxAttempts of a Player run
  MaxCorrections,   \* maximumContentCorrections of the route policy
  MaxOwnerRuns,     \* budget.maxOwnerConcurrentRuns
  MaxFencingToken,  \* the token that claims no further (MAX_SAFE_INTEGER)
  MaxIncidents,     \* bound: faults, passed deadlines, restarts, retries
  RetryAgentBound   \* does the handler map bind retryAgent?

ASSUME PlayerTurnAssumption ==
  /\ User \notin Actors /\ NoActor \notin Actors /\ User # NoActor
  /\ MaxVersion \in Nat /\ MaxRuns \in Nat /\ MaxIncidents \in Nat
  /\ MaxAttempts \in Nat \ {0} /\ MaxCorrections \in Nat
  /\ MaxOwnerRuns \in Nat \ {0} /\ MaxFencingToken \in Nat
  /\ RetryAgentBound \in BOOLEAN

VARIABLES
  session,    \* the sessions row and the current actor of its poker state
  runs,       \* the agent_runs row of each identifier, with its decision
  runCount,   \* runs created so far; identifiers follow created_at
  lane,       \* the Player lane of the worker: what it executes, and where
  process,    \* the server process: its phase, incarnation and build
  incidents   \* incidents spent

vars == <<session, runs, runCount, lane, process, incidents>>

RunIds == 1..MaxRuns
NoRun  == 0
Seats  == Actors \cup {User, NoActor}

ActiveLifecycles   == {"queued", "leased", "running"}
TerminalLifecycles == {"completed", "failed", "cancelled", "stale"}

SessionRows == [lifecycleStatus: {"active", "ended"}, stateVersion: Nat,
                actor: Seats, agentRunState: {"idle", "thinking", "paused"},
                activePlayerRunId: RunIds \cup {NoRun}]

DecisionStatuses == {"none", "auditPrepared", "modelPrepared", "selected", "committed"}

RunRows == [lifecycle: {"absent"} \cup ActiveLifecycles \cup TerminalLifecycles,
            version: Nat, participant: Actors \cup {NoActor}, config: Configs,
            parent: RunIds \cup {NoRun}, replacement: RunIds \cup {NoRun},
            leaseOwner: Nat, fence: Nat, leaseLive: BOOLEAN, overdue: BOOLEAN,
            decision: DecisionStatuses,
            outcome: {"none", "failed", "stale"},
            attempts: Nat, open: BOOLEAN, lost: BOOLEAN]

SettlementSteps == {"pauseAfterFailure", "reconcileStale"}
ExecutionSteps  == {"resume", "observe", "freeze", "attempt", "provider", "publish"}
LaneStates == [pc: {"idle", "claimed"} \cup ExecutionSteps \cup SettlementSteps,
               run: RunIds \cup {NoRun}, fence: Nat, aborted: BOOLEAN,
               correction: Nat]
ProcessStates == [phase: {"serving", "down", "recovering", "reconciling"},
                  incarnation: Nat, config: Configs]

IdleLane == [pc |-> "idle", run |-> NoRun, fence |-> 0, aborted |-> FALSE,
             correction |-> 0]

AbsentRun(c) ==
  [lifecycle |-> "absent", version |-> 0, participant |-> NoActor, config |-> c,
   parent |-> NoRun, replacement |-> NoRun, leaseOwner |-> 0, fence |-> 0,
   leaseLive |-> FALSE, overdue |-> FALSE, decision |-> "none",
   outcome |-> "none", attempts |-> 0, open |-> FALSE, lost |-> FALSE]

\* Any moment of an active session at which nothing is under way: a turn that
\* has just opened, or the time between two hands.
Init ==
  \E seat \in Seats, c \in Configs :
    /\ session = [lifecycleStatus |-> "active", stateVersion |-> 0, actor |-> seat,
                  agentRunState |-> "idle", activePlayerRunId |-> NoRun]
    /\ runs = [r \in RunIds |-> AbsentRun(c)]
    /\ runCount = 0
    /\ lane = IdleLane
    /\ process = [phase |-> "serving", incarnation |-> 1, config |-> c]
    /\ incidents = 0

-----------------------------------------------------------------------------
(* Shared vocabulary *)

Active(r)  == runs[r].lifecycle \in ActiveLifecycles
AiTurn     == session.lifecycleStatus = "active" /\ session.actor \in Actors
\* getCurrentAiTurn: the run decides exactly the turn that is open now.
ForCurrentTurn(r) == /\ runs[r].version = session.stateVersion
                     /\ runs[r].participant = session.actor
\* The session still names the run (and its decision request) as its thinker.
OwnsDecision(r) == /\ session.agentRunState = "thinking"
                   /\ session.activePlayerRunId = r
                   /\ AiTurn

\* The lane's commit authority: lease owner, fencing token and live lease.
HoldsLease(r) == /\ runs[r].leaseOwner = process.incarnation
                 /\ runs[r].fence = lane.fence
                 /\ runs[r].leaseLive
Authority(r)  == runs[r].lifecycle = "running" /\ HoldsLease(r)
\* lockRun of the decision repository and of the commit gate.
DecisionLock(r) == Authority(r) /\ ~runs[r].overdue

\* The configuration this build creates runs with, and the only one it resolves.
RunConfiguration == process.config
Resolvable(r) == runs[r].config = RunConfiguration

Incident   == incidents < MaxIncidents /\ incidents' = incidents + 1
NoIncident == UNCHANGED incidents

\* classifyPlayerExecutionFailure: an aborted signal turns every failure into
\* "deferred", which leaves the run to its lease; so does a database error.
Deferred == lane' = IdleLane
Settle(step) == lane' = IF lane.aborted THEN IdleLane ELSE [lane EXCEPT !.pc = step]
Goto(step)   == lane' = [lane EXCEPT !.pc = step]

\* What one repository call does to a run.
DecisionTerminated(run, outcome) ==
  [run EXCEPT !.outcome = IF run.decision = "none" THEN "none" ELSE outcome]
AttemptStarted(run)  == [run EXCEPT !.attempts = @ + 1, !.open = TRUE]
AttemptClosed(run)   == [run EXCEPT !.open = FALSE]
AttemptReplaced(run) == [run EXCEPT !.lost = @ \/ run.open, !.open = FALSE]
Finalized(run)       == [run EXCEPT !.lifecycle = "completed",
                                    !.leaseOwner = 0, !.leaseLive = FALSE]
Linked(run, new)     == [run EXCEPT !.replacement = new]

QueuedRun(version, participant, config, parent) ==
  [AbsentRun(config) EXCEPT !.lifecycle = "queued", !.version = version,
                            !.participant = participant, !.parent = parent]

\* Broken: only the decision, or only the run row, is settled.
TerminatedDecisionOnly(run, lifecycle, outcome) ==
  [run EXCEPT !.outcome = IF run.decision = "none" THEN "none" ELSE outcome]
TerminatedRunOnly(run, lifecycle, outcome) ==
  [run EXCEPT !.lifecycle = lifecycle, !.leaseOwner = 0, !.leaseLive = FALSE]

\* terminateForCoordination with markTerminalForCoordination.
Terminated(run, lifecycle, outcome) ==
  [AttemptClosed(DecisionTerminated(run, outcome))
     EXCEPT !.lifecycle = lifecycle, !.leaseOwner = 0, !.leaseLive = FALSE]

\* Broken: the successor is created but linkReplacement is forgotten.
ReplaceRunUnlinked(r, terminal) ==
  LET new == runCount + 1 IN
  /\ new <= MaxRuns
  /\ runCount' = new
  /\ runs' = [runs EXCEPT
       ![r]   = terminal,
       ![new] = QueuedRun(runs[r].version, runs[r].participant, runs[r].config, r)]
  /\ session' = [session EXCEPT !.agentRunState = "thinking",
                                !.activePlayerRunId = new]

\* createReplacement: the successor copies identity, configuration and budget.
ReplaceRun(r, terminal) ==
  LET new == runCount + 1 IN
  /\ new <= MaxRuns
  /\ runCount' = new
  /\ runs' = [runs EXCEPT
       ![r]   = Linked(terminal, new),
       ![new] = QueuedRun(runs[r].version, runs[r].participant, runs[r].config, r)]
  /\ session' = [session EXCEPT !.agentRunState = "thinking",
                                !.activePlayerRunId = new]

\* settleToPaused: the decision, the run and the session change together.
PauseTurn(r) ==
  /\ runs' = [runs EXCEPT ![r] = Terminated(runs[r], "failed", "failed")]
  /\ session' = [session EXCEPT !.agentRunState = "paused",
                                !.activePlayerRunId = NoRun]
  /\ UNCHANGED runCount

-----------------------------------------------------------------------------
(* Session commands *)

Serving == process.phase = "serving"
Quiet   == /\ session.lifecycleStatus = "active"
           /\ session.agentRunState = "idle"
           /\ session.activePlayerRunId = NoRun

\* Who may act after the next version; the last one opens no further turn.
NextSeats == IF session.stateVersion + 1 < MaxVersion THEN Seats ELSE {NoActor}

AdvanceTo(seat) == session' = [session EXCEPT !.stateVersion = @ + 1, !.actor = seat,
                                              !.agentRunState = "idle",
                                              !.activePlayerRunId = NoRun]

\* playerAction of the human seat.
UserAction ==
  /\ Serving /\ Quiet /\ session.actor = User
  /\ \E seat \in NextSeats : AdvanceTo(seat)
  /\ UNCHANGED <<runs, runCount, lane, process, incidents>>

\* startNextHand and rebuy, both between hands only.
StartNextHand ==
  /\ Serving /\ Quiet /\ session.actor = NoActor
  /\ session.stateVersion + 1 < MaxVersion
  /\ \E seat \in Actors \cup {User} : AdvanceTo(seat)
  /\ UNCHANGED <<runs, runCount, lane, process, incidents>>

Rebuy ==
  /\ Serving /\ Quiet /\ session.actor = NoActor
  /\ session.stateVersion + 1 < MaxVersion
  /\ AdvanceTo(NoActor)
  /\ UNCHANGED <<runs, runCount, lane, process, incidents>>

\* endSession: between hands, or in a hand that is paused and is then aborted.
EndSession ==
  /\ Serving /\ Quiet /\ session.actor = NoActor
  /\ session' = [session EXCEPT !.lifecycleStatus = "ended"]
  /\ UNCHANGED <<runs, runCount, lane, process, incidents>>

\* loadFailedPlayerLeafForRetry and loadPausedAbortContext: both want exactly one.
FailedLeaves == {r \in RunIds : /\ runs[r].lifecycle = "failed"
                                /\ runs[r].replacement = NoRun
                                /\ ForCurrentTurn(r)}

\* Broken: any AI turn may be abandoned, also one that is being thought about.
EndUnpausedSession ==
  /\ Serving /\ AiTurn
  /\ session' = [session EXCEPT !.lifecycleStatus = "ended", !.actor = NoActor,
                                !.stateVersion = @ + 1, !.agentRunState = "idle"]
  /\ UNCHANGED <<runs, runCount, lane, process, incidents>>

EndPausedSession ==
  /\ Serving
  /\ session.lifecycleStatus = "active" /\ session.agentRunState = "paused"
  /\ \E r \in RunIds : FailedLeaves = {r}
  /\ session' = [session EXCEPT !.lifecycleStatus = "ended", !.actor = NoActor,
                                !.stateVersion = @ + 1, !.agentRunState = "idle"]
  /\ UNCHANGED <<runs, runCount, lane, process, incidents>>

RetryAgent ==
  /\ RetryAgentBound /\ Serving /\ AiTurn
  /\ session.agentRunState = "paused"
  /\ \E r \in RunIds : /\ FailedLeaves = {r}
                       /\ Resolvable(r)
                       /\ ReplaceRun(r, runs[r])
  /\ Incident
  /\ UNCHANGED <<lane, process>>

-----------------------------------------------------------------------------
(* Dispatcher: reconcileCurrentTurn, after a commit hint or each second *)

\* Broken: the idempotency key leaves out the state version.
InitialRunExistsForSeat == \E r \in RunIds : /\ runs[r].lifecycle # "absent"
                                             /\ runs[r].parent = NoRun
                                             /\ runs[r].participant = session.actor

InitialRunExists == \E r \in RunIds : /\ runs[r].lifecycle # "absent"
                                      /\ runs[r].parent = NoRun
                                      /\ ForCurrentTurn(r)

NeedsInitialRun == AiTurn /\ session.agentRunState = "idle"

CreateInitialRun ==
  LET new == runCount + 1 IN
  /\ ~InitialRunExists          \* otherwise the transaction ends in a TypeError
  /\ new <= MaxRuns
  /\ runCount' = new
  /\ runs' = [runs EXCEPT ![new] = QueuedRun(session.stateVersion, session.actor,
                                             RunConfiguration, NoRun)]
  /\ session' = [session EXCEPT !.agentRunState = "thinking",
                                !.activePlayerRunId = new]

ReconcileCurrentTurn ==
  /\ Serving /\ NeedsInitialRun
  /\ CreateInitialRun
  /\ UNCHANGED <<lane, process, incidents>>

-----------------------------------------------------------------------------
(* Worker lane: claim, lease, execute, settle *)

Unexpired == {r \in RunIds : runs[r].lifecycle \in {"leased", "running"} /\ runs[r].leaseLive}

\* Broken: no recovery of lapsed leases; or a claim that looks at leases only.
ClaimableQueuedOnly == {r \in RunIds : runs[r].lifecycle = "queued" /\ ~runs[r].overdue}
ClaimableByLease == {r \in RunIds : /\ runs[r].fence < MaxFencingToken
                                    /\ \/ runs[r].lifecycle = "queued"
                                       \/ runs[r].fence > 0 /\ ~runs[r].leaseLive}

\* validateClaimCandidate: a configuration of this build, and a lapsed lease
\* only for the owner that held it.
Eligible(r) == /\ Resolvable(r)
               /\ \/ runs[r].lifecycle = "queued"
                  \/ runs[r].leaseOwner = process.incarnation

\* A queued run past its deadline is skipped, one whose lease lapsed is not.
Claimable == {r \in RunIds :
                /\ runs[r].fence < MaxFencingToken
                /\ \/ runs[r].lifecycle = "queued" /\ ~runs[r].overdue
                   \/ /\ runs[r].lifecycle \in {"leased", "running"}
                      /\ ~runs[r].leaseLive
                /\ Eligible(r)}

\* terminateStartedAttempts(..., 'lease_replaced') when a lease is taken over.
Claimed(run) == [AttemptReplaced(run) EXCEPT !.lifecycle = "leased",
                                             !.leaseOwner = process.incarnation,
                                             !.leaseLive = TRUE,
                                             !.fence = run.fence + 1]

ClaimNext ==
  /\ Serving /\ lane.pc = "idle"
  /\ Cardinality(Unexpired) < MaxOwnerRuns
  /\ \E r \in Claimable :
       /\ \A q \in Claimable : r <= q
       /\ runs' = [runs EXCEPT ![r] = Claimed(runs[r])]
       /\ lane' = [IdleLane EXCEPT !.pc = "claimed", !.run = r,
                                   !.fence = runs[r].fence + 1]
  /\ UNCHANGED <<session, runCount, process, incidents>>

Current == lane.run

MarkRunning ==
  /\ lane.pc = "claimed"
  /\ IF runs[Current].lifecycle = "leased" /\ HoldsLease(Current)
       THEN /\ runs' = [runs EXCEPT ![Current].lifecycle = "running"]
            /\ Goto("resume")
       ELSE Deferred /\ UNCHANGED runs
  /\ UNCHANGED <<session, runCount, process, incidents>>

\* Broken: a replaced call counts as never made.
InflightUnknownIgnored(r) == FALSE
\* A call of an earlier lease was in flight when that lease was replaced.
InflightUnknown(r) == runs[r].decision = "modelPrepared" /\ runs[r].lost

\* decodeDecisionRow: a committed decision has no other outcome.
DecisionReadable(r) == runs[r].decision = "committed" => runs[r].outcome = "none"

\* requireAcceptedAttempt: the call that made the choice has been closed.
AcceptedAttempt(r) == runs[r].attempts > 0 /\ ~runs[r].open

\* Where readForResume sends the executor.
ResumePoint(r) ==
  IF \/ runs[r].outcome # "none" \/ runs[r].decision = "committed"
     \/ InflightUnknown(r)
  THEN "pauseAfterFailure"
  ELSE CASE runs[r].decision = "none"          -> "observe"
         [] runs[r].decision = "auditPrepared" -> "freeze"
         [] runs[r].decision = "modelPrepared" -> "attempt"
         [] runs[r].decision = "selected"      -> "publish"

\* Every failure of the lock or of the query becomes persistence_rejected.
ReadForResume ==
  /\ lane.pc = "resume"
  /\ IF \/ ~DecisionLock(Current) \/ ~DecisionReadable(Current)
        \/ /\ runs[Current].decision \in {"selected", "committed"}
           /\ ~AcceptedAttempt(Current)
       THEN Deferred
     ELSE IF ResumePoint(Current) \in SettlementSteps
       THEN Settle(ResumePoint(Current))
       ELSE Goto(ResumePoint(Current))
  /\ UNCHANGED <<session, runs, runCount, process, incidents>>

\* The decision repository moves a decision forward under its lock, a step at a
\* time; the accepted reply closes its attempt in the same transaction.
CreateAuditPrepared(r) ==
  /\ DecisionLock(r) /\ runs[r].decision = "none"
  /\ runs' = [runs EXCEPT ![r].decision = "auditPrepared"]

MarkModelPrepared(r) ==
  /\ DecisionLock(r) /\ DecisionReadable(r) /\ runs[r].decision = "auditPrepared"
  /\ runs' = [runs EXCEPT ![r].decision = "modelPrepared"]

MarkSelected(r) ==
  /\ DecisionLock(r) /\ DecisionReadable(r) /\ runs[r].decision = "modelPrepared"
  /\ runs' = [runs EXCEPT ![r] = [AttemptClosed(runs[r]) EXCEPT !.decision = "selected"]]

ReadSelectedReceipt(r) ==
  /\ DecisionLock(r) /\ DecisionReadable(r) /\ runs[r].decision = "selected"
  /\ AcceptedAttempt(r)

\* Observation, memory, preprocessing and createAuditPrepared.
PrepareAudit ==
  /\ lane.pc = "observe"
  /\ IF DecisionLock(Current)
       THEN \/ CreateAuditPrepared(Current) /\ Goto("freeze")
            \/ Settle("pauseAfterFailure") /\ UNCHANGED runs   \* contract rejected
       ELSE /\ \/ \E step \in SettlementSteps : Settle(step)
               \/ Deferred                                     \* memory failed first
            /\ UNCHANGED runs
  /\ UNCHANGED <<session, runCount, process, incidents>>

\* Prompt building and markModelPrepared: any exception is a boundary rejection.
FreezeModelInput ==
  /\ lane.pc = "freeze"
  /\ \/ MarkModelPrepared(Current) /\ Goto("attempt")
     \/ Settle("pauseAfterFailure") /\ UNCHANGED runs
  /\ UNCHANGED <<session, runCount, process, incidents>>

\* startCorrectionAttempt rereads the session and throws unless the run still
\* owns the open decision.
CorrectionRefused ==
  /\ lane.correction > 0
  /\ ~(OwnsDecision(Current) /\ ForCurrentTurn(Current)
         /\ runs[Current].lifecycle = "running")

\* evaluateExecutionBudget; tokens and costs may run out as an unsafe request does.
WithinBudget(r) == ~runs[r].overdue /\ runs[r].attempts < MaxAttempts

\* repairOrdinal is the attempt's number in the run, counted from 0 over every
\* lease; outside 1..2 the transaction of the correction ends in a TypeError.
OrdinalRefused(r) == lane.correction > 0 /\ runs[r].attempts \notin 1..2

\* The gateway finds the request unsafe or too large, before any attempt.
RequestRefused == ~lane.aborted /\ Settle("pauseAfterFailure") /\ UNCHANGED runs

\* Gateway loop head, then startBudgetedAgentAttemptAudit, which locks without
\* the deadline and reports a passed deadline or a spent budget as final.
StartAttempt ==
  /\ lane.pc = "attempt"
  /\ \/ RequestRefused
     \/ LET r == Current IN
        IF lane.aborted THEN Deferred /\ UNCHANGED runs
        ELSE IF CorrectionRefused THEN Settle("pauseAfterFailure") /\ UNCHANGED runs
        ELSE IF ~Authority(r) THEN Settle("reconcileStale") /\ UNCHANGED runs
        ELSE IF ~WithinBudget(r) \/ OrdinalRefused(r)
          THEN Settle("pauseAfterFailure") /\ UNCHANGED runs
        ELSE /\ runs' = [runs EXCEPT ![r] = AttemptStarted(runs[r])]
             /\ Goto("provider")
  /\ UNCHANGED <<session, runCount, process, incidents>>

\* finishAttempt after the provider answered, failed, timed out or was aborted.
\* The attempt is closed and, for a valid choice, the decision selected, in one
\* transaction: markSelected needs the deadline and rolls the closing back.
CloseAttempt(r) == runs' = [runs EXCEPT ![r] = AttemptClosed(runs[r])]

AcceptReply ==
  /\ lane.pc = "provider"
  /\ MarkSelected(Current)
  /\ \/ ~lane.aborted /\ Goto("publish")
     \/ Settle("pauseAfterFailure")     \* the attempt timer fired meanwhile
  /\ UNCHANGED <<session, runCount, process, incidents>>

RejectReply ==
  /\ lane.pc = "provider" /\ DecisionLock(Current) /\ ~lane.aborted
  /\ CloseAttempt(Current)
  /\ IF lane.correction < MaxCorrections
       THEN lane' = [lane EXCEPT !.pc = "attempt", !.correction = @ + 1]
       ELSE Settle("pauseAfterFailure")
  /\ UNCHANGED <<session, runCount, process, incidents>>

\* Provider failure or timeout, a leaking reply, an aborted call, a reservation
\* overspent, or any answer after the deadline.
FailAttempt ==
  /\ lane.pc = "provider" /\ Authority(Current)
  /\ CloseAttempt(Current)
  /\ Settle("pauseAfterFailure")
  /\ UNCHANGED <<session, runCount, process, incidents>>

FinishWithoutAuthority ==
  /\ lane.pc = "provider" /\ ~DecisionLock(Current)
  /\ Settle("reconcileStale")
  /\ UNCHANGED <<session, runs, runCount, process, incidents>>

\* lockForCommit: hand, run, decision and attempt, then the session's pointer.
GateLock(r) == /\ runs[r].lifecycle = "running" /\ HoldsLease(r)
               /\ ~runs[r].overdue
ChoiceStands(r) == runs[r].decision = "selected" /\ runs[r].outcome = "none"
GateAdmits(r) == /\ ForCurrentTurn(r) /\ GateLock(r) /\ ChoiceStands(r)
                 /\ OwnsDecision(r)

MarkCommitted(run) == [run EXCEPT !.decision = "committed"]

\* The commit gate: one transaction locks session, run and decision, plays the
\* action, marks the decision committed and finalizes the run.
CommitDecision ==
  /\ lane.pc = "publish"
  /\ ReadSelectedReceipt(Current) /\ GateAdmits(Current)
  /\ runs' = [runs EXCEPT ![Current] = Finalized(MarkCommitted(runs[Current]))]
  /\ \E seat \in NextSeats : AdvanceTo(seat)
  /\ Deferred
  /\ UNCHANGED <<runCount, process, incidents>>

\* Reading the receipt reports a lost lock as an internal failure, the gate
\* reports it as lost authority.
CommitRefused ==
  /\ lane.pc = "publish"
  /\ ~(ReadSelectedReceipt(Current) /\ GateAdmits(Current))
  /\ \E step \in SettlementSteps : Settle(step)
  /\ UNCHANGED <<session, runs, runCount, process, incidents>>

PauseAfterFailure ==
  /\ lane.pc = "pauseAfterFailure"
  /\ IF OwnsDecision(Current) /\ ForCurrentTurn(Current) /\ Authority(Current)
       THEN PauseTurn(Current)
       ELSE UNCHANGED <<session, runs, runCount>>
  /\ Deferred
  /\ UNCHANGED <<process, incidents>>

\* A later holder of the lease is left alone; a run whose configuration is gone
\* is paused; otherwise it becomes stale and its successor is queued.
ReconcileStale ==
  /\ lane.pc = "reconcileStale"
  /\ LET r == Current
         target == /\ OwnsDecision(r) /\ ForCurrentTurn(r) /\ Active(r)
                   /\ ~(runs[r].fence > lane.fence /\ runs[r].leaseLive)
     IN IF ~target THEN UNCHANGED <<session, runs, runCount>>
        ELSE IF Resolvable(r)
          THEN ReplaceRun(r, Terminated(runs[r], "stale", "stale"))
          ELSE PauseTurn(r)
  /\ Deferred
  /\ UNCHANGED <<process, incidents>>

LaneStep ==
  \/ MarkRunning \/ ReadForResume \/ PrepareAudit \/ FreezeModelInput
  \/ StartAttempt \/ AcceptReply \/ RejectReply \/ FailAttempt
  \/ FinishWithoutAuthority \/ CommitDecision \/ CommitRefused
  \/ PauseAfterFailure \/ ReconcileStale

-----------------------------------------------------------------------------
(* Time and faults *)

\* Broken: a lane without a heartbeat.
RenewingNever(r) == FALSE
Renewing(r) == /\ lane.pc # "idle" /\ lane.run = r
               /\ lane.fence = runs[r].fence /\ ~lane.aborted

\* A heartbeat that can no longer renew aborts the execution.
HeartbeatRejected ==
  /\ lane.pc \notin {"idle", "claimed"} /\ ~lane.aborted
  /\ ~(runs[Current].lifecycle \in {"leased", "running"} /\ HoldsLease(Current))
  /\ lane' = [lane EXCEPT !.aborted = TRUE]
  /\ UNCHANGED <<session, runs, runCount, process, incidents>>

HeartbeatFails ==
  /\ lane.pc \notin {"idle", "claimed"} /\ ~lane.aborted
  /\ Incident
  /\ lane' = [lane EXCEPT !.aborted = TRUE]
  /\ UNCHANGED <<session, runs, runCount, process>>

\* Nobody renews: the lease lapses.  While the lane does renew, only a stalled
\* event loop (a suspended machine) lets it lapse.
ExpireLease(r) == /\ runs[r].lifecycle \in {"leased", "running"} /\ runs[r].leaseLive
                  /\ runs' = [runs EXCEPT ![r].leaseLive = FALSE]
                  /\ UNCHANGED <<session, runCount, lane, process>>

LeaseLapses == \E r \in RunIds : ~Renewing(r) /\ ExpireLease(r) /\ NoIncident
LeaseStalls == \E r \in RunIds : Renewing(r) /\ ExpireLease(r) /\ Incident

DeadlinePasses ==
  \E r \in RunIds :
    /\ Active(r) /\ ~runs[r].overdue
    /\ runs' = [runs EXCEPT ![r].overdue = TRUE]
    /\ Incident
    /\ UNCHANGED <<session, runCount, lane, process>>

\* A database error at any step of the lane: the run keeps its lease and its
\* open attempt.  Freezing the model input turns it into a final failure.
DatabaseFails ==
  /\ lane.pc # "idle"
  /\ Incident
  /\ IF lane.pc = "freeze" THEN Settle("pauseAfterFailure") ELSE Deferred
  /\ UNCHANGED <<session, runs, runCount, process>>

Crash ==
  /\ process.phase # "down"
  /\ Incident
  /\ process' = [process EXCEPT !.phase = "down"]
  /\ lane' = IdleLane
  /\ UNCHANGED <<session, runs, runCount>>

-----------------------------------------------------------------------------
(* Startup: recovery, then the dispatcher's startup repair, then serving *)

Restart ==
  /\ process.phase = "down"
  /\ \E c \in Configs :
       process' = [phase |-> "recovering", incarnation |-> process.incarnation + 1,
                   config |-> c]
  /\ UNCHANGED <<session, runs, runCount, lane, incidents>>

\* recoverAfterProcessRestartWithEffects
RecoverAfterRestart ==
  /\ process.phase = "recovering"
  /\ LET r == session.activePlayerRunId
         target == /\ session.agentRunState = "thinking" /\ AiTurn /\ r # NoRun
                   /\ Active(r) /\ ForCurrentTurn(r)
     IN IF ~target THEN UNCHANGED <<session, runs, runCount>>
        ELSE IF Resolvable(r)
          THEN ReplaceRun(r, Terminated(runs[r], "cancelled", "stale"))
          ELSE PauseTurn(r)
  /\ process' = [process EXCEPT !.phase = "reconciling"]
  /\ UNCHANGED <<lane, incidents>>

ReconcileAtStartup ==
  /\ process.phase = "reconciling"
  /\ IF NeedsInitialRun THEN CreateInitialRun ELSE UNCHANGED <<session, runs, runCount>>
  /\ process' = [process EXCEPT !.phase = "serving"]
  /\ UNCHANGED <<lane, incidents>>

-----------------------------------------------------------------------------
Commands == UserAction \/ StartNextHand \/ Rebuy \/ EndSession \/ EndPausedSession
            \/ RetryAgent
Startup  == Restart \/ RecoverAfterRestart \/ ReconcileAtStartup
Faults   == HeartbeatFails \/ LeaseStalls \/ DeadlinePasses \/ DatabaseFails \/ Crash
Server   == ReconcileCurrentTurn \/ ClaimNext \/ LaneStep \/ HeartbeatRejected
            \/ LeaseLapses

Next == Commands \/ Server \/ Faults \/ Startup

Spec == Init /\ [][Next]_vars

\* The timers of the process: the dispatcher and the lane poll for ever, every
\* awaited call ends (each provider call has a timer), leases run out, and a
\* started process finishes its startup.  Nothing makes a user act, a fault
\* happen or an operator restart the server.
Fairness ==
  /\ WF_vars(ReconcileCurrentTurn) /\ WF_vars(ClaimNext) /\ WF_vars(LaneStep)
  /\ WF_vars(HeartbeatRejected) /\ WF_vars(LeaseLapses)
  /\ WF_vars(RecoverAfterRestart) /\ WF_vars(ReconcileAtStartup)

FairSpec == Spec /\ Fairness

-----------------------------------------------------------------------------
(* Properties *)

\* Every row and every control state keeps its shape, a busy lane has a run,
\* and identifiers beyond the ones created are unused.
TypeOK ==
  /\ session \in SessionRows
  /\ runs \in [RunIds -> RunRows]
  /\ runCount \in 0..MaxRuns
  /\ lane \in LaneStates /\ (lane.pc # "idle" => lane.run \in RunIds)
  /\ process \in ProcessStates
  /\ incidents \in 0..MaxIncidents
  /\ \A r \in RunIds : runs[r].lifecycle = "absent" <=> r > runCount

\* The trigger enforce_player_run_coordination never has a transaction to
\* abort: a thinking session names its only active run, any other session has
\* no active run, however commands, settlements and recoveries interleave.
Coordination ==
  /\ session.agentRunState = "thinking" =>
       /\ session.activePlayerRunId \in RunIds
       /\ Active(session.activePlayerRunId)
  /\ \A r \in RunIds : Active(r) => /\ session.agentRunState = "thinking"
                                    /\ session.activePlayerRunId = r

\* The run a session waits for decides the turn that is open now, so that
\* reconcileCurrentTurn never meets a pointer to a run of another turn.
ThinkingForCurrentTurn ==
  session.agentRunState = "thinking" =>
    AiTurn /\ ForCurrentTurn(session.activePlayerRunId)

\* At most one run is ever committed for a version, and only for a version the
\* session has left: a turn is never decided twice, whatever was retried.
OneDecisionPerVersion ==
  \A q, r \in RunIds :
    /\ runs[q].decision = "committed" /\ runs[r].decision = "committed"
    /\ runs[q].version = runs[r].version
    => q = r /\ runs[r].version < session.stateVersion

\* A run ends in one piece: its lifecycle, its decision, its attempts and its
\* lease never disagree about whether it committed, failed or was replaced.
RunSettlesCompletely ==
  \A r \in RunIds :
    /\ runs[r].decision = "committed" <=> runs[r].lifecycle = "completed"
    /\ runs[r].outcome # "none" =>
         runs[r].lifecycle \in {"failed", "cancelled", "stale"}
    /\ runs[r].lifecycle \in {"failed", "cancelled", "stale"} =>
         (runs[r].outcome = "none" <=> runs[r].decision = "none")
    /\ runs[r].lifecycle \in TerminalLifecycles => ~runs[r].open /\ ~runs[r].leaseLive

\* Replacement forms disjoint chains of settled runs for one and the same
\* turn, linked both ways, whoever replaced: retry, staleness or restart.  A
\* paused turn has exactly one failed run without a successor: the one that
\* retryAgent and endSession address, and never an ambiguous pair.
ReplacementChain ==
  /\ session.agentRunState = "paused" => AiTurn /\ \E r \in RunIds : FailedLeaves = {r}
  /\ \A r \in RunIds :
       LET next == runs[r].replacement  prev == runs[r].parent IN
       /\ next # NoRun => /\ runs[next].parent = r
                          /\ runs[next].version = runs[r].version
                          /\ runs[r].lifecycle \in {"failed", "cancelled", "stale"}
       /\ prev # NoRun => prev < r /\ runs[prev].replacement = r

\* While the lane executes a run nobody else settles it or takes its fence:
\* with one lane per process only that lane can lose its own authority.
LaneOwnsItsRun ==
  lane.pc \in ExecutionSteps \cup SettlementSteps =>
    /\ runs[lane.run].lifecycle = "running"
    /\ runs[lane.run].fence = lane.fence
    /\ session.activePlayerRunId = lane.run

\* Runs are created by turns and by incidents only: staleness, retries and
\* restarts never start a storm of replacements.
NoReplacementStorm == runCount <= session.stateVersion + 1 + incidents

\* A version never moves under a thinking run except by that run's own commit:
\* no command overtakes an AI turn.
TurnNotOvertaken ==
  [][session.agentRunState = "thinking" /\ session'.stateVersion # session.stateVersion
       => runs'[session.activePlayerRunId].decision = "committed"]_vars

\* A settled run is never touched again except to name its successor: no late
\* result revives, commits or fails it.
SettledRunStays ==
  [][\A r \in RunIds : runs[r].lifecycle \in TerminalLifecycles =>
       runs'[r] = [runs[r] EXCEPT !.replacement = runs'[r].replacement]]_vars

\* A provider call whose outcome is unknown (its lease was replaced in flight)
\* is never repeated within the run.
UncertainCallNotRepeated ==
  [][\A r \in RunIds : runs[r].lost => runs'[r].attempts = runs[r].attempts]_vars

\* An idle AI turn gets its run even when every hint is lost.
TurnStarts == NeedsInitialRun ~> (~NeedsInitialRun \/ process.phase = "down")

Overdue == /\ session.agentRunState = "thinking"
           /\ runs[session.activePlayerRunId].overdue

\* A thinking turn is committed, paused or ended, unless the server is down or
\* the deadline of its run has passed.
TurnResolves ==
  session.agentRunState = "thinking" ~>
    (session.agentRunState # "thinking" \/ process.phase = "down" \/ Overdue)

\* The abstraction: a session with its runs is a table with its decisions.
Phase == CASE session.lifecycleStatus = "ended"     -> "over"
           [] session.agentRunState = "thinking"    -> "thinking"
           [] session.agentRunState = "paused"      -> "paused"
           [] OTHER                                 -> "open"

Decisions == {<<runs[r].version, runs[r].participant>> :
                r \in {q \in RunIds : runs[q].decision = "committed"}}

Table == INSTANCE TurnDecision WITH
           version <- session.stateVersion, seat <- session.actor,
           phase <- Phase, decisions <- Decisions

\* Runs, leases, retries, restarts and faults implement the table: each step is
\* one table move or invisible to it.
ImplementsTable == Table!Spec

\* A claim of the documentation that the code does not keep: a queued run
\* that misses its deadline is ended by the coordinator (M4.2 design leaves
\* that to M4.8).
OverdueQueuedRunConverges ==
  (Overdue /\ runs[session.activePlayerRunId].lifecycle = "queued")
    ~> (~Overdue \/ process.phase = "down")

=============================================================================
