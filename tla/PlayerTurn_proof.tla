-------------------------- MODULE PlayerTurn_proof --------------------------
(***************************************************************************)
(* Safety of the Player turn machinery, for every number of AI seats, runs,*)
(* builds, attempts and incidents: the turn first, then its runs.          *)
(***************************************************************************)
EXTENDS PlayerTurn, TLAPS

\* The calls an action is made of are expanded wherever the action is.
USE DEF RunConfiguration, DecisionStatuses, DecisionTerminated, AttemptStarted,
        AttemptClosed, AttemptReplaced, Finalized, Linked, MarkCommitted, Eligible,
        DecisionReadable, AcceptedAttempt, CreateAuditPrepared, MarkModelPrepared,
        MarkSelected, ReadSelectedReceipt, WithinBudget, GateLock, ChoiceStands,
        GateAdmits, RequestRefused

LEMMA AbsentRunType == ASSUME NEW c \in Configs PROVE AbsentRun(c) \in RunRows
BY DEF AbsentRun, RunRows

\* A queued row is well formed, whatever it replaces.
LEMMA QueuedRunType ==
  ASSUME NEW v \in Nat, NEW p \in Actors \cup {NoActor}, NEW c \in Configs,
         NEW parent \in RunIds \cup {NoRun}
  PROVE  /\ QueuedRun(v, p, c, parent) \in RunRows
         /\ QueuedRun(v, p, c, parent).lifecycle = "queued"
         /\ QueuedRun(v, p, c, parent).decision = "none"
         /\ QueuedRun(v, p, c, parent).version = v
         /\ QueuedRun(v, p, c, parent).participant = p
<1>1. AbsentRun(c) \in RunRows /\ AbsentRun(c).decision = "none"
  BY AbsentRunType DEF AbsentRun
<1> QED BY <1>1 DEF QueuedRun, RunRows, ActiveLifecycles, TerminalLifecycles

LEMMA QueuedRunFields ==
  ASSUME NEW v, NEW p, NEW c, NEW parent
  PROVE  /\ QueuedRun(v, p, c, parent).lifecycle = "queued"
         /\ QueuedRun(v, p, c, parent).decision = "none"
         /\ QueuedRun(v, p, c, parent).version = v
         /\ QueuedRun(v, p, c, parent).participant = p
BY DEF QueuedRun, AbsentRun

\* Settling keeps the row well formed and makes its lifecycle terminal.
LEMMA TerminatedType ==
  ASSUME NEW run \in RunRows, NEW lifecycle \in {"failed", "cancelled", "stale"},
         NEW outcome \in {"failed", "stale"}
  PROVE  /\ Terminated(run, lifecycle, outcome) \in RunRows
         /\ Terminated(run, lifecycle, outcome).lifecycle = lifecycle
         /\ Terminated(run, lifecycle, outcome).decision = run.decision
         /\ Terminated(run, lifecycle, outcome).version = run.version
<1>1. ASSUME NEW o \in {"none", "failed", "stale"}
      PROVE  [run EXCEPT !.lifecycle = lifecycle, !.outcome = o, !.leaseOwner = 0,
                         !.leaseLive = FALSE, !.open = FALSE] \in RunRows
  BY DEF RunRows, TerminalLifecycles
<1>2. Terminated(run, lifecycle, outcome) \in RunRows
  <2>1. CASE run.decision = "none"
    BY <1>1, <2>1, Zenon DEF Terminated
  <2>2. CASE run.decision # "none"
    BY <1>1, <2>2, Zenon DEF Terminated
  <2> QED BY <2>1, <2>2
<1> QED BY <1>2 DEF Terminated, RunRows

LaneOK == lane \in LaneStates /\ (lane.pc # "idle" => lane.run \in RunIds)

LEMMA IdleLaneType == IdleLane \in LaneStates /\ IdleLane.pc = "idle"
BY DEF IdleLane, LaneStates

LEMMA InitTypeOK == Init => TypeOK
<1> SUFFICES ASSUME Init PROVE TypeOK
  OBVIOUS
<1> PICK seat \in Seats, c \in Configs :
      /\ session = [lifecycleStatus |-> "active", stateVersion |-> 0, actor |-> seat,
                    agentRunState |-> "idle", activePlayerRunId |-> NoRun]
      /\ runs = [r \in RunIds |-> AbsentRun(c)]
      /\ runCount = 0
      /\ lane = IdleLane
      /\ process = [phase |-> "serving", incarnation |-> 1, config |-> c]
      /\ incidents = 0
  BY DEF Init
<1>1. session \in SessionRows
  BY DEF SessionRows, Seats
<1>2. runs \in [RunIds -> RunRows]
  BY AbsentRunType
<1>3. lane \in LaneStates /\ lane.pc = "idle"
  BY IdleLaneType
<1>4. process \in ProcessStates
  BY DEF ProcessStates
<1>5. \A r \in RunIds : runs[r].lifecycle = "absent" <=> r > runCount
  BY DEF AbsentRun, RunIds
<1> QED BY <1>1, <1>2, <1>3, <1>4, <1>5, PlayerTurnAssumption DEF TypeOK


\* Every move of a busy lane leads to a control state it has.
LEMMA LaneMoveType ==
  ASSUME LaneOK, lane.pc # "idle"
  PROVE  /\ Deferred => LaneOK'
         /\ \A step \in SettlementSteps : Settle(step) => LaneOK'
         /\ \A step \in ExecutionSteps \cup SettlementSteps : Goto(step) => LaneOK'
         /\ lane' = [lane EXCEPT !.pc = "attempt", !.correction = @ + 1] => LaneOK'
         /\ lane' = [lane EXCEPT !.aborted = TRUE] => LaneOK'
<1>1. Deferred => LaneOK'
  BY IdleLaneType DEF Deferred, LaneOK
<1>2. ASSUME NEW step \in ExecutionSteps \cup SettlementSteps, lane' = [lane EXCEPT !.pc = step]
      PROVE  LaneOK'
  BY <1>2 DEF LaneStates, LaneOK
<1>3. ASSUME lane' = [lane EXCEPT !.pc = "attempt", !.correction = @ + 1]
      PROVE  LaneOK'
  <2>1. lane.correction + 1 \in Nat
    BY DEF LaneOK, LaneStates
  <2>2. ASSUME NEW n \in Nat
        PROVE  /\ [lane EXCEPT !.pc = "attempt", !.correction = n] \in LaneStates
               /\ [lane EXCEPT !.pc = "attempt", !.correction = n].run = lane.run
    BY DEF LaneOK, LaneStates, ExecutionSteps
  <2>3. lane' \in LaneStates /\ lane'.run = lane.run
    BY <1>3, <2>1, <2>2, Zenon
  <2> QED BY <2>3 DEF LaneOK
<1>4. ASSUME lane' = [lane EXCEPT !.aborted = TRUE]
      PROVE  LaneOK'
  BY <1>4 DEF LaneStates, LaneOK
<1> QED BY <1>1, <1>2, <1>3, <1>4, IdleLaneType DEF Settle, Goto, Deferred

\* The session leaves its turn for the next one.
LEMMA AdvanceType ==
  ASSUME session \in SessionRows, NEW seat \in Seats, AdvanceTo(seat)
  PROVE  session' \in SessionRows
<1>1. ASSUME NEW n \in Nat
      PROVE  [session EXCEPT !.stateVersion = n, !.actor = seat,
                             !.agentRunState = "idle", !.activePlayerRunId = NoRun]
               \in SessionRows
  BY DEF SessionRows
<1>2. session.stateVersion + 1 \in Nat
  BY DEF SessionRows
<1> QED BY <1>1, <1>2, Zenon DEF AdvanceTo

\* One row is rewritten and stays what it was to the identifiers.
LEMMA RewriteRun ==
  ASSUME TypeOK, NEW r \in RunIds, NEW row \in RunRows,
         row.lifecycle = "absent" <=> runs[r].lifecycle = "absent",
         runs' = [runs EXCEPT ![r] = row], runCount' = runCount
  PROVE  /\ runs' \in [RunIds -> RunRows]
         /\ \A q \in RunIds : runs'[q].lifecycle = "absent" <=> q > runCount'
BY DEF TypeOK

\* One row is appended, and at most one other rewritten.
LEMMA AppendRun ==
  ASSUME TypeOK, NEW r \in RunIds, NEW row \in RunRows, NEW new \in RunRows,
         runs[r].lifecycle # "absent", row.lifecycle # "absent",
         new.lifecycle # "absent", runCount + 1 <= MaxRuns,
         runs' = [runs EXCEPT ![r] = row, ![runCount + 1] = new],
         runCount' = runCount + 1
  PROVE  /\ runs' \in [RunIds -> RunRows] /\ runCount' \in 0..MaxRuns
         /\ \A q \in RunIds : runs'[q].lifecycle = "absent" <=> q > runCount'
BY PlayerTurnAssumption DEF TypeOK, RunIds


RowsOK == /\ session \in SessionRows
          /\ runs \in [RunIds -> RunRows]
          /\ runCount \in 0..MaxRuns
          /\ \A r \in RunIds : runs[r].lifecycle = "absent" <=> r > runCount

\* The session starts to wait for a run, or gives one up.
LEMMA PointerType ==
  ASSUME session \in SessionRows
  PROVE  /\ \A r \in RunIds : [session EXCEPT !.agentRunState = "thinking",
                                             !.activePlayerRunId = r] \in SessionRows
         /\ [session EXCEPT !.agentRunState = "paused",
                            !.activePlayerRunId = NoRun] \in SessionRows
BY DEF SessionRows

LEMMA PauseTurnType ==
  ASSUME TypeOK, NEW r \in RunIds, runs[r].lifecycle # "absent", PauseTurn(r)
  PROVE  RowsOK'
<1> DEFINE row == Terminated(runs[r], "failed", "failed")
<1>1. runs[r] \in RunRows /\ session \in SessionRows /\ runCount \in 0..MaxRuns
  BY DEF TypeOK
<1>2. row \in RunRows /\ row.lifecycle = "failed"
  BY <1>1, TerminatedType
<1>3. session' \in SessionRows
  BY <1>1, PointerType DEF PauseTurn
<1>4. runs' = [runs EXCEPT ![r] = row] /\ runCount' = runCount
  BY DEF PauseTurn
<1> HIDE DEF row
<1> QED BY <1>1, <1>2, <1>3, <1>4, RewriteRun DEF RowsOK

LEMMA ReplaceRunType ==
  ASSUME TypeOK, NEW r \in RunIds, runs[r].lifecycle # "absent",
         NEW terminal \in RunRows, terminal.lifecycle # "absent",
         ReplaceRun(r, terminal)
  PROVE  RowsOK'
<1> DEFINE row == [terminal EXCEPT !.replacement = runCount + 1]
           new == QueuedRun(runs[r].version, runs[r].participant, runs[r].config, r)
<1>1. runs[r] \in RunRows /\ session \in SessionRows
  BY DEF TypeOK
<1>2. runCount + 1 \in RunIds /\ runCount + 1 <= MaxRuns
  BY PlayerTurnAssumption DEF TypeOK, ReplaceRun, RunIds
<1>3. row \in RunRows /\ row.lifecycle # "absent"
  BY <1>2 DEF RunRows
<1>4. new \in RunRows /\ new.lifecycle # "absent"
  <2>1. /\ runs[r].version \in Nat /\ runs[r].participant \in Actors \cup {NoActor}
        /\ runs[r].config \in Configs
    BY <1>1 DEF RunRows
  <2> QED BY <2>1, QueuedRunType
<1>5. session' \in SessionRows
  BY <1>1, <1>2, PointerType DEF ReplaceRun
<1>6. /\ runs' = [runs EXCEPT ![r] = row, ![runCount + 1] = new]
      /\ runCount' = runCount + 1
  BY DEF ReplaceRun
<1> HIDE DEF row, new
<1> QED BY <1>2, <1>3, <1>4, <1>5, <1>6, AppendRun DEF RowsOK

LEMMA CreateInitialRunType ==
  ASSUME TypeOK, NeedsInitialRun, CreateInitialRun
  PROVE  RowsOK'
<1> DEFINE new == QueuedRun(session.stateVersion, session.actor, process.config, NoRun)
<1>1. /\ session \in SessionRows /\ session.stateVersion \in Nat
      /\ session.actor \in Actors /\ process.config \in Configs
  BY DEF TypeOK, SessionRows, ProcessStates, NeedsInitialRun, AiTurn
<1>2. runCount + 1 \in RunIds /\ runCount + 1 <= MaxRuns
  BY PlayerTurnAssumption DEF TypeOK, CreateInitialRun, RunIds
<1>3. new \in RunRows /\ new.lifecycle = "queued"
  BY <1>1, QueuedRunType
<1>4. session' \in SessionRows
  BY <1>1, <1>2, PointerType DEF CreateInitialRun
<1>5. runs' = [runs EXCEPT ![runCount + 1] = new] /\ runCount' = runCount + 1
  BY DEF CreateInitialRun
<1> HIDE DEF new
<1> QED BY <1>2, <1>3, <1>4, <1>5, PlayerTurnAssumption DEF RowsOK, TypeOK, RunIds


\* The row the lane works on is rewritten; a lane without a run rewrites none.
LEMMA RewriteCurrent ==
  ASSUME TypeOK, NEW row,
         Current \in RunIds =>
           row \in RunRows /\ (row.lifecycle = "absent" <=> runs[Current].lifecycle = "absent"),
         runs' = [runs EXCEPT ![Current] = row], UNCHANGED <<session, runCount>>
  PROVE  RowsOK'
BY DEF TypeOK, RowsOK

\* An attempt is closed.
LEMMA ClosedRow ==
  ASSUME NEW x \in RunRows, NEW row,
         row = AttemptClosed(x) \/ row = [AttemptClosed(x) EXCEPT !.decision = "selected"]
  PROVE  /\ row \in RunRows
         /\ row.lifecycle = x.lifecycle /\ row.version = x.version
         /\ row.participant = x.participant
         /\ row.decision \in {x.decision, "selected"}
<1>1. /\ AttemptClosed(x) \in RunRows
      /\ AttemptClosed(x).lifecycle = x.lifecycle /\ AttemptClosed(x).version = x.version
      /\ AttemptClosed(x).participant = x.participant
      /\ AttemptClosed(x).decision = x.decision
  BY DEF RunRows
<1>2. ASSUME NEW y \in RunRows
      PROVE  /\ [y EXCEPT !.decision = "selected"] \in RunRows
             /\ [y EXCEPT !.decision = "selected"].lifecycle = y.lifecycle
             /\ [y EXCEPT !.decision = "selected"].version = y.version
             /\ [y EXCEPT !.decision = "selected"].participant = y.participant
             /\ [y EXCEPT !.decision = "selected"].decision = "selected"
  BY DEF RunRows
<1> HIDE DEF AttemptClosed
<1>3. CASE row = AttemptClosed(x)
  BY <1>1, <1>3
<1>4. CASE row = [AttemptClosed(x) EXCEPT !.decision = "selected"]
  BY <1>1, <1>2, <1>4
<1> QED BY <1>3, <1>4

LEMMA ClosedRowsAgree ==
  ASSUME TypeOK, CloseAttempt(Current) \/ MarkSelected(Current), NEW q \in RunIds
  PROVE  /\ runs'[q].lifecycle = runs[q].lifecycle /\ runs'[q].version = runs[q].version
         /\ runs'[q].participant = runs[q].participant
         /\ runs'[q].decision # runs[q].decision =>
              runs'[q].decision = "selected" /\ runs[q].decision = "modelPrepared"
<1>1. PICK row : /\ \/ row = AttemptClosed(runs[Current])
                   \/ /\ row = [AttemptClosed(runs[Current]) EXCEPT !.decision = "selected"]
                      /\ runs[Current].decision = "modelPrepared"
                /\ runs' = [runs EXCEPT ![Current] = row]
  BY DEF CloseAttempt, MarkSelected
<1>2. runs \in [RunIds -> RunRows]
  BY DEF TypeOK
<1>3. CASE q = Current
  <2>1. runs[Current] \in RunRows /\ runs'[q] = row
    BY <1>1, <1>2, <1>3
  <2>2. row = AttemptClosed(runs[Current]) => row.decision = runs[Current].decision
    BY <2>1 DEF RunRows
  <2>3. /\ row.lifecycle = runs[Current].lifecycle /\ row.version = runs[Current].version
        /\ row.participant = runs[Current].participant
        /\ row.decision \in {runs[Current].decision, "selected"}
    BY <1>1, <2>1, ClosedRow
  <2> HIDE DEF AttemptClosed
  <2> QED BY <1>1, <1>3, <2>1, <2>2, <2>3
<1>4. CASE q # Current
  BY <1>1, <1>2, <1>4
<1> QED BY <1>3, <1>4

LEMMA CloseAttemptType ==
  ASSUME TypeOK, CloseAttempt(Current) \/ MarkSelected(Current),
         UNCHANGED <<session, runCount>>
  PROVE  RowsOK'
<1>1. PICK row : /\ row = AttemptClosed(runs[Current])
                   \/ row = [AttemptClosed(runs[Current]) EXCEPT !.decision = "selected"]
                /\ runs' = [runs EXCEPT ![Current] = row]
  BY DEF CloseAttempt, MarkSelected
<1>2. Current \in RunIds =>
        row \in RunRows /\ (row.lifecycle = "absent" <=> runs[Current].lifecycle = "absent")
  <2> SUFFICES ASSUME Current \in RunIds
               PROVE  row \in RunRows /\ row.lifecycle = runs[Current].lifecycle
    OBVIOUS
  <2>1. runs[Current] \in RunRows
    BY DEF TypeOK
  <2> QED BY <1>1, <2>1, ClosedRow
<1> QED BY <1>1, <1>2, RewriteCurrent


\* The unchanged parts keep their type.
LEMMA KeptType ==
  ASSUME TypeOK
  PROVE  /\ RowsOK /\ session \in SessionRows /\ LaneOK
         /\ process \in ProcessStates /\ incidents \in 0..MaxIncidents
         /\ UNCHANGED <<session, runs, runCount>> => RowsOK'
         /\ UNCHANGED lane => LaneOK'
         /\ UNCHANGED process => process' \in ProcessStates
         /\ Incident \/ UNCHANGED incidents => incidents' \in 0..MaxIncidents
         /\ RowsOK' /\ LaneOK' /\ process' \in ProcessStates
              /\ incidents' \in 0..MaxIncidents => TypeOK'
BY PlayerTurnAssumption DEF TypeOK, RowsOK, LaneOK, Incident

LEMMA CommandsType == ASSUME TypeOK, Commands PROVE TypeOK'
<1> USE KeptType
<1>1. CASE UserAction
  BY <1>1, AdvanceType DEF UserAction, NextSeats, Seats, RowsOK
<1>2. CASE StartNextHand
  BY <1>2, AdvanceType DEF StartNextHand, Seats, RowsOK
<1>3. CASE Rebuy
  BY <1>3, AdvanceType DEF Rebuy, Seats, RowsOK
<1>4. CASE EndSession
  <2>1. session' \in SessionRows
    BY <1>4 DEF EndSession, SessionRows
  <2> QED BY <1>4, <2>1 DEF EndSession, RowsOK
<1>5. CASE EndPausedSession
  <2>1. session.stateVersion + 1 \in Nat
    BY DEF SessionRows
  <2>2. ASSUME NEW n \in Nat
        PROVE  [session EXCEPT !.lifecycleStatus = "ended", !.actor = NoActor,
                               !.stateVersion = n, !.agentRunState = "idle"] \in SessionRows
    BY DEF SessionRows, Seats
  <2>3. session' \in SessionRows
    BY <1>5, <2>1, <2>2, Zenon DEF EndPausedSession
  <2> QED BY <1>5, <2>3 DEF EndPausedSession, RowsOK
<1>6. CASE RetryAgent
  <2> PICK r \in RunIds : FailedLeaves = {r} /\ ReplaceRun(r, runs[r])
    BY <1>6 DEF RetryAgent
  <2>1. runs[r] \in RunRows /\ runs[r].lifecycle # "absent"
    BY DEF FailedLeaves, TypeOK
  <2>2. RowsOK'
    BY <2>1, ReplaceRunType
  <2> QED BY <1>6, <2>2 DEF RetryAgent
<1> QED BY <1>1, <1>2, <1>3, <1>4, <1>5, <1>6 DEF Commands

\* What a claim leaves of the row.
LEMMA ClaimedRow ==
  ASSUME NEW x \in RunRows, process \in ProcessStates
  PROVE  /\ Claimed(x) \in RunRows
         /\ Claimed(x).lifecycle = "leased" /\ Claimed(x).version = x.version
         /\ Claimed(x).participant = x.participant /\ Claimed(x).decision = x.decision
<1>1. x.fence + 1 \in Nat /\ process.incarnation \in Nat
      /\ (x.lost \/ x.open) \in BOOLEAN
  BY DEF RunRows, ProcessStates
<1>2. ASSUME NEW l \in BOOLEAN
      PROVE  /\ [x EXCEPT !.lost = l, !.open = FALSE] \in RunRows
             /\ [x EXCEPT !.lost = l, !.open = FALSE].version = x.version
             /\ [x EXCEPT !.lost = l, !.open = FALSE].participant = x.participant
             /\ [x EXCEPT !.lost = l, !.open = FALSE].decision = x.decision
  BY DEF RunRows
<1>3. /\ AttemptReplaced(x) \in RunRows /\ AttemptReplaced(x).version = x.version
      /\ AttemptReplaced(x).participant = x.participant
      /\ AttemptReplaced(x).decision = x.decision
  BY <1>1, <1>2, Zenon
<1> HIDE DEF AttemptReplaced
<1>4. ASSUME NEW y \in RunRows, NEW i \in Nat, NEW f \in Nat
      PROVE  LET z == [y EXCEPT !.lifecycle = "leased", !.leaseOwner = i,
                                !.leaseLive = TRUE, !.fence = f]
             IN  /\ z \in RunRows /\ z.lifecycle = "leased" /\ z.version = y.version
                 /\ z.participant = y.participant /\ z.decision = y.decision
  BY DEF RunRows, ActiveLifecycles
<1> QED BY <1>1, <1>3, <1>4 DEF Claimed

LEMMA ClaimNextType == ASSUME TypeOK, ClaimNext PROVE TypeOK'
<1> PICK r \in Claimable :
      /\ runs' = [runs EXCEPT ![r] = Claimed(runs[r])]
      /\ lane' = [IdleLane EXCEPT !.pc = "claimed", !.run = r, !.fence = runs[r].fence + 1]
  BY DEF ClaimNext
<1>1. /\ r \in RunIds /\ runs[r] \in RunRows /\ runs[r].lifecycle # "absent"
      /\ runs[r].fence + 1 \in Nat /\ process \in ProcessStates
  BY DEF Claimable, TypeOK, RunRows
<1> DEFINE row == Claimed(runs[r])
<1>3. row \in RunRows /\ row.lifecycle = "leased"
  BY <1>1, ClaimedRow
<1>4. runs' = [runs EXCEPT ![r] = row]
  OBVIOUS
<1>5. LaneOK'
  BY <1>1, IdleLaneType DEF LaneStates, LaneOK
<1> HIDE DEF row
<1>6. runCount' = runCount /\ UNCHANGED <<session, process, incidents>>
  BY DEF ClaimNext
<1>7. RowsOK'
  BY <1>1, <1>3, <1>4, <1>6, RewriteRun, KeptType DEF RowsOK
<1> QED BY <1>5, <1>6, <1>7, KeptType


\* A row of the lane's run moves on, its lifecycle staying present.
LEMMA ProgressType ==
  ASSUME TypeOK, UNCHANGED runCount,
         \/ \E d \in {"auditPrepared", "modelPrepared"} :
              runs' = [runs EXCEPT ![Current].decision = d]
         \/ runs' = [runs EXCEPT ![Current].attempts = @ + 1, ![Current].open = TRUE]
         \/ /\ runs[Current].lifecycle = "leased"
            /\ runs' = [runs EXCEPT ![Current].lifecycle = "running"]
         \/ /\ runs[Current].lifecycle = "running"
            /\ runs' = [runs EXCEPT ![Current].decision = "committed",
                                    ![Current].lifecycle = "completed",
                                    ![Current].leaseOwner = 0,
                                    ![Current].leaseLive = FALSE]
  PROVE  /\ runs' \in [RunIds -> RunRows]
         /\ \A r \in RunIds : runs'[r].lifecycle = "absent" <=> r > runCount'
<1>1. CASE \E d \in {"auditPrepared", "modelPrepared"} :
             runs' = [runs EXCEPT ![Current].decision = d]
  <2> PICK d \in {"auditPrepared", "modelPrepared"} :
             runs' = [runs EXCEPT ![Current].decision = d]
    BY <1>1
  <2>1. ASSUME NEW x \in RunRows
        PROVE  /\ [x EXCEPT !.decision = d] \in RunRows
               /\ [x EXCEPT !.decision = d].lifecycle = x.lifecycle
    BY DEF RunRows
  <2> QED BY <2>1 DEF TypeOK
<1>2. CASE runs' = [runs EXCEPT ![Current].attempts = @ + 1, ![Current].open = TRUE]
  <2>1. ASSUME NEW x \in RunRows, NEW n \in Nat
        PROVE  /\ [x EXCEPT !.attempts = n, !.open = TRUE] \in RunRows
               /\ [x EXCEPT !.attempts = n, !.open = TRUE].lifecycle = x.lifecycle
    BY DEF RunRows
  <2> DEFINE row == [runs[Current] EXCEPT !.attempts = runs[Current].attempts + 1,
                                          !.open = TRUE]
  <2>2. runs' = [runs EXCEPT ![Current] = row]
    BY <1>2 DEF TypeOK
  <2>3. Current \in RunIds =>
          row \in RunRows /\ row.lifecycle = runs[Current].lifecycle
    <3>1. Current \in RunIds => runs[Current] \in RunRows /\ runs[Current].attempts + 1 \in Nat
      BY DEF TypeOK, RunRows
    <3> QED BY <2>1, <3>1, Zenon
  <2> HIDE DEF row
  <2> QED BY <2>2, <2>3 DEF TypeOK
<1>3. CASE /\ runs[Current].lifecycle = "leased"
           /\ runs' = [runs EXCEPT ![Current].lifecycle = "running"]
  <2>1. ASSUME NEW x \in RunRows
        PROVE  /\ [x EXCEPT !.lifecycle = "running"] \in RunRows
               /\ [x EXCEPT !.lifecycle = "running"].lifecycle = "running"
    BY DEF RunRows, ActiveLifecycles
  <2> QED BY <1>3, <2>1 DEF TypeOK
<1>4. CASE /\ runs[Current].lifecycle = "running"
           /\ runs' = [runs EXCEPT ![Current].decision = "committed",
                                   ![Current].lifecycle = "completed",
                                   ![Current].leaseOwner = 0,
                                   ![Current].leaseLive = FALSE]
  <2>1. ASSUME NEW x \in RunRows
        PROVE  /\ [x EXCEPT !.decision = "committed", !.lifecycle = "completed",
                            !.leaseOwner = 0, !.leaseLive = FALSE] \in RunRows
               /\ [x EXCEPT !.decision = "committed", !.lifecycle = "completed",
                            !.leaseOwner = 0, !.leaseLive = FALSE].lifecycle = "completed"
    BY DEF RunRows, TerminalLifecycles
  <2> DEFINE row == [runs[Current] EXCEPT !.decision = "committed", !.lifecycle = "completed",
                                          !.leaseOwner = 0, !.leaseLive = FALSE]
  <2>2. runs' = [runs EXCEPT ![Current] = row]
    BY <1>4 DEF TypeOK
  <2>3. Current \in RunIds => row \in RunRows /\ row.lifecycle = "completed"
    <3>1. Current \in RunIds => runs[Current] \in RunRows
      BY DEF TypeOK
    <3> QED BY <2>1, <3>1, Zenon
  <2> HIDE DEF row
  <2> QED BY <1>4, <2>2, <2>3 DEF TypeOK
<1> QED BY <1>1, <1>2, <1>3, <1>4

LEMMA LaneStepType == ASSUME TypeOK, LaneStep PROVE TypeOK'
<1> USE KeptType, LaneMoveType DEF SettlementSteps, ExecutionSteps
<1>1. CASE MarkRunning
  BY <1>1, ProgressType DEF MarkRunning, RowsOK
<1>2. CASE ReadForResume
  <2>1. lane.pc # "idle" /\ lane.run \in RunIds /\ runs[lane.run] \in RunRows
    BY <1>2 DEF ReadForResume, TypeOK
  <2>2. ResumePoint(Current) \in ExecutionSteps \cup SettlementSteps
    BY <2>1 DEF ResumePoint, RunRows, Current
  <2>3. LaneOK'
    BY <1>2, <2>1, <2>2 DEF ReadForResume
  <2> QED BY <1>2, <2>3 DEF ReadForResume
<1>3. CASE PrepareAudit
  BY <1>3, ProgressType DEF PrepareAudit, RowsOK
<1>4. CASE FreezeModelInput
  BY <1>4, ProgressType DEF FreezeModelInput, RowsOK
<1>5. CASE StartAttempt
  BY <1>5, ProgressType DEF StartAttempt, RowsOK
<1>6. CASE AcceptReply
  BY <1>6, CloseAttemptType DEF AcceptReply
<1>7. CASE RejectReply
  BY <1>7, CloseAttemptType DEF RejectReply
<1>8. CASE FailAttempt
  BY <1>8, CloseAttemptType DEF FailAttempt
<1>9. CASE FinishWithoutAuthority
  BY <1>9 DEF FinishWithoutAuthority
<1>10. CASE CommitDecision
  <2>1. session' \in SessionRows
    BY <1>10, AdvanceType DEF CommitDecision, NextSeats, Seats
  <2>2. RowsOK'
    BY <1>10, <2>1, ProgressType DEF CommitDecision, RowsOK, DecisionLock, Authority
  <2> QED BY <1>10, <2>2 DEF CommitDecision
<1>11. CASE CommitRefused
  BY <1>11 DEF CommitRefused
<1>12. CASE PauseAfterFailure
  <2>1. lane.pc # "idle" /\ Current \in RunIds
    BY <1>12 DEF PauseAfterFailure, TypeOK, Current
  <2>2. RowsOK'
    BY <1>12, <2>1, PauseTurnType DEF PauseAfterFailure, Authority
  <2> QED BY <1>12, <2>1, <2>2 DEF PauseAfterFailure
<1>13. CASE ReconcileStale
  <2>1. lane.pc # "idle" /\ Current \in RunIds /\ runs[Current] \in RunRows
    BY <1>13 DEF ReconcileStale, TypeOK, Current
  <2>2. Active(Current) => runs[Current].lifecycle # "absent"
    BY DEF Active, ActiveLifecycles
  <2>3. /\ Terminated(runs[Current], "stale", "stale") \in RunRows
        /\ Terminated(runs[Current], "stale", "stale").lifecycle # "absent"
    BY <2>1, TerminatedType
  <2>4. RowsOK'
    BY <1>13, <2>1, <2>2, <2>3, PauseTurnType, ReplaceRunType DEF ReconcileStale
  <2> QED BY <1>13, <2>1, <2>4 DEF ReconcileStale
<1> QED BY <1>1, <1>2, <1>3, <1>4, <1>5, <1>6, <1>7, <1>8, <1>9, <1>10, <1>11, <1>12,
           <1>13 DEF LaneStep


LEMMA FaultsType == ASSUME TypeOK, Faults \/ HeartbeatRejected \/ LeaseLapses PROVE TypeOK'
<1> USE KeptType, LaneMoveType DEF SettlementSteps
<1>1. ASSUME NEW r \in RunIds,
             \/ runs' = [runs EXCEPT ![r].leaseLive = FALSE]
             \/ runs' = [runs EXCEPT ![r].overdue = TRUE],
             UNCHANGED <<session, runCount>>
      PROVE  RowsOK'
  <2>1. ASSUME NEW x \in RunRows
        PROVE  /\ [x EXCEPT !.leaseLive = FALSE] \in RunRows
               /\ [x EXCEPT !.leaseLive = FALSE].lifecycle = x.lifecycle
               /\ [x EXCEPT !.overdue = TRUE] \in RunRows
               /\ [x EXCEPT !.overdue = TRUE].lifecycle = x.lifecycle
    BY DEF RunRows
  <2>2. runs[r] \in RunRows
    BY DEF RowsOK
  <2>3. CASE runs' = [runs EXCEPT ![r].leaseLive = FALSE]
    BY <1>1, <2>1, <2>2, <2>3, RewriteRun DEF RowsOK
  <2>4. CASE runs' = [runs EXCEPT ![r].overdue = TRUE]
    BY <1>1, <2>1, <2>2, <2>4, RewriteRun DEF RowsOK
  <2> QED BY <1>1, <2>3, <2>4
<1>2. CASE HeartbeatRejected
  BY <1>2 DEF HeartbeatRejected
<1>3. CASE HeartbeatFails
  BY <1>3 DEF HeartbeatFails
<1>4. CASE LeaseLapses \/ LeaseStalls
  BY <1>1, <1>4 DEF LeaseLapses, LeaseStalls, ExpireLease, NoIncident
<1>5. CASE DeadlinePasses
  BY <1>1, <1>5 DEF DeadlinePasses
<1>6. CASE DatabaseFails
  BY <1>6 DEF DatabaseFails
<1>7. CASE Crash
  <2>1. process' \in ProcessStates
    BY <1>7 DEF Crash, ProcessStates
  <2>2. LaneOK'
    BY <1>7, IdleLaneType DEF Crash, LaneOK
  <2> QED BY <1>7, <2>1, <2>2 DEF Crash
<1> QED BY <1>2, <1>3, <1>4, <1>5, <1>6, <1>7 DEF Faults

LEMMA StartupType == ASSUME TypeOK, Startup \/ ReconcileCurrentTurn PROVE TypeOK'
<1> USE KeptType
<1>1. CASE ReconcileCurrentTurn
  BY <1>1, CreateInitialRunType DEF ReconcileCurrentTurn
<1>2. CASE Restart
  <2>1. process.incarnation + 1 \in Nat
    BY DEF ProcessStates
  <2>2. process' \in ProcessStates
    BY <1>2, <2>1 DEF Restart, ProcessStates
  <2> QED BY <1>2, <2>2 DEF Restart
<1>3. CASE RecoverAfterRestart
  <2> DEFINE r == session.activePlayerRunId
  <2>1. process' \in ProcessStates
    BY <1>3 DEF RecoverAfterRestart, ProcessStates
  <2>2. r # NoRun => r \in RunIds /\ runs[r] \in RunRows
    BY DEF SessionRows, TypeOK
  <2>3. r \in RunIds /\ Active(r) => runs[r].lifecycle # "absent"
    BY DEF Active, ActiveLifecycles
  <2>4. r \in RunIds =>
          /\ Terminated(runs[r], "cancelled", "stale") \in RunRows
          /\ Terminated(runs[r], "cancelled", "stale").lifecycle # "absent"
    BY TerminatedType DEF TypeOK
  <2> HIDE DEF r
  <2>5. RowsOK'
    BY <1>3, <2>2, <2>3, <2>4, PauseTurnType, ReplaceRunType DEF RecoverAfterRestart, r
  <2> QED BY <1>3, <2>1, <2>5 DEF RecoverAfterRestart
<1>4. CASE ReconcileAtStartup
  <2>1. process' \in ProcessStates
    BY <1>4 DEF ReconcileAtStartup, ProcessStates
  <2> QED BY <1>4, <2>1, CreateInitialRunType DEF ReconcileAtStartup
<1> QED BY <1>1, <1>2, <1>3, <1>4 DEF Startup

LEMMA NextTypeOK == TypeOK /\ [Next]_vars => TypeOK'
<1> SUFFICES ASSUME TypeOK, [Next]_vars PROVE TypeOK'
  OBVIOUS
<1>1. CASE UNCHANGED vars
  BY <1>1 DEF vars, TypeOK
<1> QED BY <1>1, CommandsType, ClaimNextType, LaneStepType, FaultsType, StartupType
        DEF Next, Server

\* The whole state keeps its shape in every behaviour.
THEOREM TypeCorrect == Spec => []TypeOK
<1> QED BY InitTypeOK, NextTypeOK, PTL DEF Spec


-----------------------------------------------------------------------------
(* The session, its runs and its decisions *)

\* A version with a committed run lies behind the session.
DecidedBehind == \A r \in RunIds : runs[r].decision = "committed"
                                     => runs[r].version < session.stateVersion

\* The inductive invariant: the pointer names the only active run, that run is
\* for the open turn, and what was decided lies behind.
TurnInv == /\ TypeOK /\ Coordination /\ ThinkingForCurrentTurn
           /\ DecidedBehind /\ OneDecisionPerVersion

\* A step that leaves the session alone and no run ends, starts or commits.
TurnKept ==
  /\ session' = session
  /\ \A r \in RunIds : /\ runs'[r].lifecycle \in ActiveLifecycles <=> Active(r)
                       /\ runs'[r].version = runs[r].version
                       /\ runs'[r].participant = runs[r].participant
                       /\ runs'[r].decision = "committed" => runs[r].decision = "committed"

LEMMA InitTurnInv == Init => TurnInv
<1> SUFFICES ASSUME Init PROVE TurnInv
  OBVIOUS
<1>1. /\ session.agentRunState = "idle"
      /\ \A r \in RunIds : runs[r].lifecycle = "absent" /\ runs[r].decision = "none"
  BY DEF Init, AbsentRun
<1> QED BY <1>1, InitTypeOK DEF TurnInv, Coordination, ThinkingForCurrentTurn, DecidedBehind,
        OneDecisionPerVersion, Active, ActiveLifecycles

LEMMA KeptTurn ==
  ASSUME TurnInv, TurnKept
  PROVE  /\ Coordination' /\ ThinkingForCurrentTurn' /\ DecidedBehind'
         /\ OneDecisionPerVersion'
BY DEF TurnInv, TurnKept, Coordination, ThinkingForCurrentTurn, DecidedBehind,
       OneDecisionPerVersion, Active, AiTurn, ForCurrentTurn

\* A turn that waits for no run is left behind, or the session ends.
LEMMA IdleMove ==
  ASSUME TurnInv, session.agentRunState # "thinking", session'.agentRunState # "thinking",
         session'.stateVersion \in Nat, session.stateVersion <= session'.stateVersion,
         runs' = runs
  PROVE  /\ Coordination' /\ ThinkingForCurrentTurn' /\ DecidedBehind'
         /\ OneDecisionPerVersion'
<1>1. /\ session.stateVersion \in Nat
      /\ \A r \in RunIds : runs[r].version \in Nat
  BY DEF TurnInv, TypeOK, SessionRows, RunRows
<1> QED BY <1>1 DEF TurnInv, Coordination, ThinkingForCurrentTurn, DecidedBehind,
        OneDecisionPerVersion, Active

LEMMA PauseTurnInv ==
  ASSUME TurnInv, NEW r \in RunIds, Active(r), PauseTurn(r)
  PROVE  /\ Coordination' /\ ThinkingForCurrentTurn' /\ DecidedBehind'
         /\ OneDecisionPerVersion'
<1>1. /\ runs[r] \in RunRows /\ session \in SessionRows /\ runs \in [RunIds -> RunRows]
  BY DEF TurnInv, TypeOK
<1>2. /\ runs'[r].lifecycle = "failed" /\ runs'[r].decision = runs[r].decision
      /\ runs'[r].version = runs[r].version
      /\ \A q \in RunIds : q # r => runs'[q] = runs[q]
  BY <1>1, TerminatedType DEF PauseTurn
<1>3. /\ session'.agentRunState = "paused" /\ session'.stateVersion = session.stateVersion
  BY <1>1 DEF PauseTurn, SessionRows
<1>4. \A q \in RunIds : Active(q) => q = r
  BY DEF TurnInv, Coordination
<1>5. Coordination' /\ ThinkingForCurrentTurn'
  BY <1>2, <1>3, <1>4 DEF Coordination, ThinkingForCurrentTurn, Active, ActiveLifecycles
<1>6. DecidedBehind' /\ OneDecisionPerVersion'
  BY <1>2, <1>3 DEF TurnInv, DecidedBehind, OneDecisionPerVersion
<1> QED BY <1>5, <1>6

\* The successor takes the pointer over; it is for the same turn.
LEMMA ReplaceRunInv ==
  ASSUME TurnInv, NEW r \in RunIds, runs[r].lifecycle # "absent", AiTurn, ForCurrentTurn(r),
         \A q \in RunIds : Active(q) => q = r,
         NEW terminal \in RunRows, terminal.lifecycle \in {"failed", "cancelled", "stale"},
         terminal.decision = runs[r].decision, terminal.version = runs[r].version,
         ReplaceRun(r, terminal)
  PROVE  /\ Coordination' /\ ThinkingForCurrentTurn' /\ DecidedBehind'
         /\ OneDecisionPerVersion'
<1> DEFINE new == runCount + 1
           row == QueuedRun(runs[r].version, runs[r].participant, runs[r].config, r)
<1>1. /\ runs[r] \in RunRows /\ session \in SessionRows /\ runs \in [RunIds -> RunRows]
      /\ runCount \in Nat
  BY PlayerTurnAssumption DEF TurnInv, TypeOK
<1>2. new \in RunIds /\ new # r /\ runs[new].lifecycle = "absent"
  BY <1>1, PlayerTurnAssumption DEF TurnInv, TypeOK, RunIds, ReplaceRun
<1>3. /\ row.lifecycle = "queued" /\ row.decision = "none" /\ row.version = runs[r].version
      /\ row.participant = runs[r].participant
  BY QueuedRunFields
<1> HIDE DEF row
<1>4. /\ runs'[new] = row
      /\ runs'[r].lifecycle = terminal.lifecycle /\ runs'[r].decision = runs[r].decision
      /\ runs'[r].version = runs[r].version
      /\ \A q \in RunIds : q # r /\ q # new => runs'[q] = runs[q]
  BY <1>1, <1>2 DEF ReplaceRun, RunRows, row
<1>5. /\ session'.agentRunState = "thinking" /\ session'.activePlayerRunId = new
      /\ session'.stateVersion = session.stateVersion /\ session'.actor = session.actor
      /\ session'.lifecycleStatus = session.lifecycleStatus
  BY <1>1 DEF ReplaceRun, SessionRows
<1> HIDE DEF new
<1>6. Coordination'
  BY <1>2, <1>3, <1>4, <1>5 DEF Coordination, Active, ActiveLifecycles
<1>7. ThinkingForCurrentTurn'
  BY <1>2, <1>3, <1>4, <1>5 DEF ThinkingForCurrentTurn, AiTurn, ForCurrentTurn
<1>8. DecidedBehind' /\ OneDecisionPerVersion'
  BY <1>2, <1>3, <1>4, <1>5 DEF TurnInv, DecidedBehind, OneDecisionPerVersion
<1> QED BY <1>6, <1>7, <1>8

LEMMA CreateInitialRunInv ==
  ASSUME TurnInv, NeedsInitialRun, CreateInitialRun
  PROVE  /\ Coordination' /\ ThinkingForCurrentTurn' /\ DecidedBehind'
         /\ OneDecisionPerVersion'
<1> DEFINE new == runCount + 1
           row == QueuedRun(session.stateVersion, session.actor, process.config, NoRun)
<1>1. /\ session \in SessionRows /\ runs \in [RunIds -> RunRows] /\ runCount \in Nat
      /\ new \in RunIds
  BY PlayerTurnAssumption DEF TurnInv, TypeOK, RunIds, CreateInitialRun
<1>2. /\ row \in RunRows /\ row.lifecycle = "queued" /\ row.decision = "none"
      /\ row.version = session.stateVersion /\ row.participant = session.actor
  <2>1. /\ session.stateVersion \in Nat /\ session.actor \in Actors
        /\ process.config \in Configs
    BY DEF TurnInv, TypeOK, SessionRows, ProcessStates, NeedsInitialRun, AiTurn
  <2> QED BY <2>1, QueuedRunType
<1> HIDE DEF row
<1>3. /\ runs'[new] = row /\ \A q \in RunIds : q # new => runs'[q] = runs[q]
  BY <1>1 DEF CreateInitialRun, row
<1>4. /\ session'.agentRunState = "thinking" /\ session'.activePlayerRunId = new
      /\ session'.stateVersion = session.stateVersion /\ session'.actor = session.actor
      /\ session'.lifecycleStatus = session.lifecycleStatus
  BY <1>1 DEF CreateInitialRun, SessionRows
<1>5. \A q \in RunIds : ~Active(q)
  BY DEF TurnInv, Coordination, NeedsInitialRun
<1> HIDE DEF new
<1> QED BY <1>1, <1>2, <1>3, <1>4, <1>5 DEF TurnInv, NeedsInitialRun, Coordination,
        ThinkingForCurrentTurn, DecidedBehind, OneDecisionPerVersion, Active, AiTurn,
        ForCurrentTurn, ActiveLifecycles


\* The run's own commit: its turn is decided and left behind in one step.
LEMMA CommitDecisionInv ==
  ASSUME TurnInv, CommitDecision
  PROVE  /\ Coordination' /\ ThinkingForCurrentTurn' /\ DecidedBehind'
         /\ OneDecisionPerVersion'
         /\ runs'[session.activePlayerRunId].decision = "committed"
<1> DEFINE r == Current
<1>1. /\ session \in SessionRows /\ runs \in [RunIds -> RunRows]
      /\ session.stateVersion \in Nat
      /\ \A q \in RunIds : runs[q].version \in Nat
  BY DEF TurnInv, TypeOK, SessionRows, RunRows
<1>2. /\ r \in RunIds /\ r = session.activePlayerRunId
      /\ runs[r].version = session.stateVersion
      /\ \A q \in RunIds : Active(q) => q = r
  BY DEF CommitDecision, TurnInv, TypeOK, Coordination, OwnsDecision, ForCurrentTurn, Current
<1>3. /\ runs'[r].lifecycle = "completed" /\ runs'[r].decision = "committed"
      /\ runs'[r].version = runs[r].version
      /\ \A q \in RunIds : q # r => runs'[q] = runs[q]
  BY <1>1, <1>2 DEF CommitDecision, RunRows
<1>4. /\ session'.agentRunState = "idle"
      /\ session'.stateVersion = session.stateVersion + 1
  BY <1>1 DEF CommitDecision, AdvanceTo, SessionRows
<1> HIDE DEF r
<1>5. Coordination' /\ ThinkingForCurrentTurn'
  BY <1>2, <1>3, <1>4 DEF Coordination, ThinkingForCurrentTurn, Active, ActiveLifecycles
<1>6. DecidedBehind'
  BY <1>1, <1>2, <1>3, <1>4 DEF TurnInv, DecidedBehind
<1>7. OneDecisionPerVersion'
  BY <1>1, <1>2, <1>3, <1>4 DEF TurnInv, DecidedBehind, OneDecisionPerVersion
<1> QED BY <1>2, <1>3, <1>5, <1>6, <1>7

\* Execution, leases, deadlines, faults and processes leave turns alone.
LEMMA KeptSteps ==
  ASSUME TurnInv,
         \/ ClaimNext \/ MarkRunning \/ ReadForResume \/ PrepareAudit \/ FreezeModelInput
         \/ StartAttempt \/ AcceptReply \/ RejectReply \/ FailAttempt
         \/ FinishWithoutAuthority \/ CommitRefused \/ HeartbeatRejected \/ LeaseLapses
         \/ Faults \/ Restart \/ UNCHANGED vars
  PROVE  TurnKept
<1>1. /\ runs \in [RunIds -> RunRows] /\ lane \in LaneStates
      /\ \A q \in RunIds : runs[q] \in RunRows
  BY DEF TurnInv, TypeOK
<1> USE <1>1 DEF TurnKept, Active
<1>2. CASE ClaimNext
  <2> PICK r \in Claimable :
        runs' = [runs EXCEPT ![r] = Claimed(runs[r])]
    BY <1>2 DEF ClaimNext
  <2>1. r \in RunIds /\ Active(r)
    BY DEF Claimable, ActiveLifecycles
  <2>2. \A q \in RunIds : q # r => runs'[q] = runs[q]
    BY <2>1
  <2>3. /\ runs'[r].lifecycle = "leased" /\ runs'[r].version = runs[r].version
        /\ runs'[r].participant = runs[r].participant
        /\ runs'[r].decision = runs[r].decision
    <3>1. process \in ProcessStates /\ runs[r] \in RunRows /\ runs'[r] = Claimed(runs[r])
      BY <2>1 DEF TurnInv, TypeOK
    <3> QED BY <3>1, ClaimedRow
  <2>4. session' = session
    BY <1>2 DEF ClaimNext
  <2> QED BY <2>1, <2>2, <2>3, <2>4 DEF ActiveLifecycles
<1>3. CASE MarkRunning
  BY <1>3 DEF MarkRunning, ActiveLifecycles, RunRows
<1>4. CASE PrepareAudit \/ FreezeModelInput
  BY <1>4 DEF PrepareAudit, FreezeModelInput, RunRows
<1>5. CASE StartAttempt
  <2>1. \/ UNCHANGED runs
        \/ runs' = [runs EXCEPT ![Current] = AttemptStarted(runs[Current])]
    BY <1>5 DEF StartAttempt
  <2>2. UNCHANGED session
    BY <1>5 DEF StartAttempt
  <2>3. \A q \in RunIds : /\ runs'[q].lifecycle = runs[q].lifecycle
                          /\ runs'[q].version = runs[q].version
                          /\ runs'[q].participant = runs[q].participant
                          /\ runs'[q].decision = runs[q].decision
    <3>1. ASSUME NEW x \in RunRows, NEW n
          PROVE  LET z == [x EXCEPT !.attempts = n, !.open = TRUE]
                 IN  /\ z.lifecycle = x.lifecycle /\ z.version = x.version
                     /\ z.participant = x.participant /\ z.decision = x.decision
      BY DEF RunRows
    <3>2. CASE UNCHANGED runs
      BY <3>2
    <3>3. CASE runs' = [runs EXCEPT ![Current] = AttemptStarted(runs[Current])]
      <4> TAKE q \in RunIds
      <4>1. CASE q # Current
        BY <3>3, <4>1
      <4>2. CASE q = Current
        <5>1. runs[q] \in RunRows /\ runs'[q] = AttemptStarted(runs[q])
          BY <3>3, <4>2
        <5> QED BY <3>1, <5>1
      <4> QED BY <4>1, <4>2
    <3> QED BY <2>1, <3>2, <3>3
  <2> QED BY <2>2, <2>3
<1>6. CASE AcceptReply \/ RejectReply \/ FailAttempt
  <2>1. CloseAttempt(Current) \/ MarkSelected(Current)
    BY <1>6 DEF AcceptReply, RejectReply, FailAttempt
  <2>2. UNCHANGED session /\ TypeOK
    BY <1>6 DEF AcceptReply, RejectReply, FailAttempt, TurnInv
  <2> QED BY <2>1, <2>2, ClosedRowsAgree
<1>7. CASE ReadForResume \/ FinishWithoutAuthority \/ CommitRefused \/ HeartbeatRejected
             \/ Restart \/ UNCHANGED vars
  BY <1>7 DEF ReadForResume, FinishWithoutAuthority, CommitRefused, HeartbeatRejected,
              Restart, vars
<1>8. CASE LeaseLapses \/ LeaseStalls
  BY <1>8 DEF LeaseLapses, LeaseStalls, ExpireLease, RunRows
<1>9. CASE HeartbeatFails \/ DatabaseFails \/ Crash
  BY <1>9 DEF HeartbeatFails, DatabaseFails, Crash
<1>10. CASE DeadlinePasses
  BY <1>10 DEF DeadlinePasses, RunRows
<1> QED BY <1>2, <1>3, <1>4, <1>5, <1>6, <1>7, <1>8, <1>9, <1>10 DEF Faults

LEMMA NextTurnInv == TurnInv /\ [Next]_vars => TurnInv'
<1> SUFFICES ASSUME TurnInv, [Next]_vars
             PROVE  /\ Coordination' /\ ThinkingForCurrentTurn' /\ DecidedBehind'
                    /\ OneDecisionPerVersion'
  BY NextTypeOK DEF TurnInv
<1>1. /\ session \in SessionRows /\ session.stateVersion \in Nat
      /\ runs \in [RunIds -> RunRows] /\ \A r \in RunIds : runs[r] \in RunRows
      /\ lane.pc # "idle" => Current \in RunIds
  BY DEF TurnInv, TypeOK, SessionRows, Current
<1>2. CASE UserAction \/ StartNextHand \/ Rebuy
  <2>1. /\ session'.agentRunState = "idle"
        /\ session'.stateVersion = session.stateVersion + 1
    BY <1>1, <1>2 DEF UserAction, StartNextHand, Rebuy, AdvanceTo, SessionRows
  <2> QED BY <1>1, <1>2, <2>1, IdleMove DEF UserAction, StartNextHand, Rebuy, Quiet
<1>3. CASE EndSession \/ EndPausedSession
  <2>1. /\ session'.agentRunState = "idle"
        /\ session'.stateVersion \in {session.stateVersion, session.stateVersion + 1}
    BY <1>1, <1>3 DEF EndSession, EndPausedSession, Quiet, SessionRows
  <2> QED BY <1>1, <1>3, <2>1, IdleMove DEF EndSession, EndPausedSession, Quiet
<1>4. CASE RetryAgent
  <2> PICK r \in RunIds : FailedLeaves = {r} /\ ReplaceRun(r, runs[r])
    BY <1>4 DEF RetryAgent
  <2>1. /\ runs[r].lifecycle = "failed" /\ ForCurrentTurn(r) /\ AiTurn
    BY <1>4 DEF FailedLeaves, RetryAgent
  <2>2. \A q \in RunIds : Active(q) => q = r
    BY <1>4 DEF TurnInv, Coordination, RetryAgent
  <2> QED BY <1>1, <2>1, <2>2, ReplaceRunInv
<1>5. CASE ReconcileCurrentTurn \/ ReconcileAtStartup
  BY <1>5, CreateInitialRunInv, KeptTurn
     DEF ReconcileCurrentTurn, ReconcileAtStartup, TurnKept, Active
<1>6. CASE CommitDecision
  BY <1>6, CommitDecisionInv
<1>7. CASE PauseAfterFailure
  <2>1. CASE UNCHANGED <<session, runs, runCount>>
    BY <2>1, KeptTurn DEF TurnKept, Active
  <2>2. CASE Authority(Current) /\ PauseTurn(Current)
    BY <1>1, <1>7, <2>2, PauseTurnInv DEF PauseAfterFailure, Authority, Active, ActiveLifecycles
  <2> QED BY <1>7, <2>1, <2>2 DEF PauseAfterFailure
<1>8. ASSUME NEW r \in RunIds, AiTurn, ForCurrentTurn(r), Active(r),
             session.agentRunState = "thinking", session.activePlayerRunId = r,
             \/ \E lifecycle \in {"cancelled", "stale"} :
                  ReplaceRun(r, Terminated(runs[r], lifecycle, "stale"))
             \/ PauseTurn(r)
      PROVE  /\ Coordination' /\ ThinkingForCurrentTurn' /\ DecidedBehind'
             /\ OneDecisionPerVersion'
  <2>1. CASE PauseTurn(r)
    BY <1>8, <2>1, PauseTurnInv
  <2>2. ASSUME NEW lifecycle \in {"cancelled", "stale"},
               ReplaceRun(r, Terminated(runs[r], lifecycle, "stale"))
        PROVE  /\ Coordination' /\ ThinkingForCurrentTurn' /\ DecidedBehind'
               /\ OneDecisionPerVersion'
    <3> DEFINE terminal == Terminated(runs[r], lifecycle, "stale")
    <3>1. /\ terminal \in RunRows /\ terminal.lifecycle = lifecycle
          /\ terminal.decision = runs[r].decision /\ terminal.version = runs[r].version
      BY <1>1, TerminatedType
    <3>2. /\ runs[r].lifecycle # "absent" /\ \A q \in RunIds : Active(q) => q = r
      BY <1>8 DEF TurnInv, Coordination, Active, ActiveLifecycles
    <3>3. ReplaceRun(r, terminal)
      BY <2>2
    <3> HIDE DEF terminal
    <3> QED BY <1>8, <3>1, <3>2, <3>3, ReplaceRunInv
  <2> QED BY <1>8, <2>1, <2>2
<1>9. CASE ReconcileStale
  <2>1. CASE UNCHANGED <<session, runs, runCount>>
    BY <2>1, KeptTurn DEF TurnKept, Active
  <2> QED BY <1>1, <1>8, <1>9, <2>1 DEF ReconcileStale, OwnsDecision
<1>10. CASE RecoverAfterRestart
  <2>1. CASE UNCHANGED <<session, runs, runCount>>
    BY <2>1, KeptTurn DEF TurnKept, Active
  <2>2. session.activePlayerRunId # NoRun => session.activePlayerRunId \in RunIds
    BY <1>1 DEF SessionRows
  <2> QED BY <1>8, <1>10, <2>1, <2>2 DEF RecoverAfterRestart
<1> QED BY <1>2, <1>3, <1>4, <1>5, <1>6, <1>7, <1>9, <1>10, KeptSteps, KeptTurn
        DEF Next, Commands, Server, Startup, LaneStep

\* The trigger enforce_player_run_coordination never fires: in every behaviour
\* a thinking session names its only active run, and any other has none.
THEOREM CoordinationHolds == Spec => []Coordination
<1>1. TurnInv => Coordination
  BY DEF TurnInv
<1> QED BY <1>1, InitTurnInv, NextTurnInv, PTL DEF Spec

\* The run a session waits for always decides the turn that is open.
THEOREM PointerIsCurrent == Spec => []ThinkingForCurrentTurn
<1>1. TurnInv => ThinkingForCurrentTurn
  BY DEF TurnInv
<1> QED BY <1>1, InitTurnInv, NextTurnInv, PTL DEF Spec

\* No turn is ever decided twice, whatever was retried, replaced or recovered.
THEOREM DecidedOnce == Spec => []OneDecisionPerVersion
<1>1. TurnInv => OneDecisionPerVersion
  BY DEF TurnInv
<1> QED BY <1>1, InitTurnInv, NextTurnInv, PTL DEF Spec

\* Only the commit of its own run moves the version of a thinking turn.
THEOREM NotOvertaken == Spec => TurnNotOvertaken
<1>1. TurnInv /\ [Next]_vars =>
        [session.agentRunState = "thinking" /\ session'.stateVersion # session.stateVersion
           => runs'[session.activePlayerRunId].decision = "committed"]_vars
  <2> SUFFICES ASSUME TurnInv, [Next]_vars, session.agentRunState = "thinking",
                      session'.stateVersion # session.stateVersion
               PROVE  runs'[session.activePlayerRunId].decision = "committed"
    OBVIOUS
  <2>1. session \in SessionRows
    BY DEF TurnInv, TypeOK
  <2>2. CASE CommitDecision
    BY <2>2, CommitDecisionInv
  <2>3. ASSUME NEW r \in RunIds, NEW terminal, ReplaceRun(r, terminal) \/ PauseTurn(r)
        PROVE  session'.stateVersion = session.stateVersion
    BY <2>1, <2>3 DEF ReplaceRun, PauseTurn, SessionRows
  <2>4. CASE Commands
    BY <2>3, <2>4 DEF Commands, UserAction, StartNextHand, Rebuy, EndSession, EndPausedSession,
                      RetryAgent, Quiet
  <2>5. CASE PauseAfterFailure \/ ReconcileStale
    BY <2>1, <2>5 DEF PauseAfterFailure, ReconcileStale, ReplaceRun, PauseTurn, SessionRows
  <2>6. CASE ReconcileCurrentTurn \/ RecoverAfterRestart \/ ReconcileAtStartup
    BY <2>1, <2>6 DEF ReconcileCurrentTurn, RecoverAfterRestart, ReconcileAtStartup,
                      CreateInitialRun, ReplaceRun, PauseTurn, SessionRows
  <2> QED BY <2>2, <2>4, <2>5, <2>6, KeptSteps DEF TurnKept, Next, Server, Startup, LaneStep
<1> QED BY <1>1, InitTurnInv, NextTurnInv, PTL DEF Spec, TurnNotOvertaken


-----------------------------------------------------------------------------
(* The machinery implements the table of TurnDecision *)

\* A committed decision and a completed run are the same thing.
CommitCompletes == \A r \in RunIds : runs[r].decision = "committed"
                                       <=> runs[r].lifecycle = "completed"

TableInv == TurnInv /\ CommitCompletes

\* The commits, and what was decided by them, stay as they are.
CommitsKept ==
  \A r \in RunIds : /\ runs'[r].decision = "committed" <=> runs[r].decision = "committed"
                    /\ runs'[r].lifecycle = "completed" <=> runs[r].lifecycle = "completed"
                    /\ runs[r].decision = "committed" =>
                         /\ runs'[r].version = runs[r].version
                         /\ runs'[r].participant = runs[r].participant

LEMMA KeptCommits ==
  ASSUME TableInv, CommitsKept
  PROVE  CommitCompletes' /\ Decisions' = Decisions
<1>1. CommitCompletes'
  BY DEF TableInv, CommitCompletes, CommitsKept
<1>2. Decisions' = Decisions
  BY DEF Decisions, CommitsKept
<1> QED BY <1>1, <1>2

\* Terminating, replacing and creating runs commits nothing.
LEMMA SettlementCommits ==
  ASSUME TableInv, NEW r \in RunIds, runs[r].lifecycle # "completed"
  PROVE  /\ PauseTurn(r) => CommitsKept
         /\ \A lifecycle \in {"cancelled", "stale"} :
              runs[r].lifecycle # "absent"
                /\ ReplaceRun(r, Terminated(runs[r], lifecycle, "stale")) => CommitsKept
         /\ runs[r].lifecycle # "absent" /\ ReplaceRun(r, runs[r]) => CommitsKept
<1>1. /\ runs \in [RunIds -> RunRows] /\ runs[r] \in RunRows /\ runCount \in Nat
      /\ \A q \in RunIds : runs[q].lifecycle = "absent" <=> q > runCount
  BY DEF TableInv, TurnInv, TypeOK
<1>2. ASSUME PauseTurn(r) PROVE CommitsKept
  <2>1. /\ runs'[r].lifecycle = "failed" /\ runs'[r].decision = runs[r].decision
        /\ \A q \in RunIds : q # r => runs'[q] = runs[q]
    BY <1>1, <1>2, TerminatedType DEF PauseTurn
  <2> QED BY <2>1 DEF CommitsKept, TableInv, CommitCompletes
<1>3. ASSUME NEW terminal \in RunRows, terminal.lifecycle # "completed",
             terminal.decision = runs[r].decision, runs[r].lifecycle # "absent",
             ReplaceRun(r, terminal)
      PROVE  CommitsKept
  <2> DEFINE new == runCount + 1
             row == QueuedRun(runs[r].version, runs[r].participant, runs[r].config, r)
  <2>1. row.lifecycle = "queued" /\ row.decision = "none"
    BY QueuedRunFields
  <2> HIDE DEF row
  <2>2. new \in RunIds /\ new # r /\ runs[new].lifecycle = "absent"
    BY <1>1, <1>3, PlayerTurnAssumption DEF RunIds, ReplaceRun
  <2>3. /\ runs'[new] = row
        /\ runs'[r].lifecycle = terminal.lifecycle /\ runs'[r].decision = runs[r].decision
        /\ \A q \in RunIds : q # r /\ q # new => runs'[q] = runs[q]
    BY <1>1, <1>3, <2>2 DEF ReplaceRun, RunRows, row
  <2> HIDE DEF new
  <2>4. runs[r].decision # "committed" /\ runs[new].decision # "committed"
    BY <2>2 DEF TableInv, CommitCompletes
  <2> QED BY <1>3, <2>1, <2>2, <2>3, <2>4 DEF CommitsKept
<1>4. ASSUME NEW lifecycle \in {"cancelled", "stale"},
             ReplaceRun(r, Terminated(runs[r], lifecycle, "stale"))
      PROVE  runs[r].lifecycle # "absent" => CommitsKept
  <2> DEFINE terminal == Terminated(runs[r], lifecycle, "stale")
  <2>1. /\ terminal \in RunRows /\ terminal.lifecycle = lifecycle
        /\ terminal.decision = runs[r].decision
    BY <1>1, TerminatedType
  <2>2. ReplaceRun(r, terminal)
    BY <1>4
  <2> HIDE DEF terminal
  <2> QED BY <1>3, <2>1, <2>2
<1> QED BY <1>1, <1>2, <1>3, <1>4


\* Execution, leases, faults and processes commit nothing.
LEMMA KeptStepsCommit ==
  ASSUME TableInv,
         \/ ClaimNext \/ MarkRunning \/ ReadForResume \/ PrepareAudit \/ FreezeModelInput
         \/ StartAttempt \/ AcceptReply \/ RejectReply \/ FailAttempt
         \/ FinishWithoutAuthority \/ CommitRefused \/ HeartbeatRejected \/ LeaseLapses
         \/ Faults \/ Restart \/ UNCHANGED vars
  PROVE  CommitsKept
<1>1. /\ runs \in [RunIds -> RunRows] /\ lane \in LaneStates
      /\ \A q \in RunIds : runs[q] \in RunRows
      /\ \A q \in RunIds : runs[q].decision = "committed" <=> runs[q].lifecycle = "completed"
  BY DEF TableInv, CommitCompletes, TurnInv, TypeOK
<1> USE <1>1 DEF CommitsKept
<1>2. CASE ClaimNext
  <2> PICK r \in Claimable :
        runs' = [runs EXCEPT ![r] = Claimed(runs[r])]
    BY <1>2 DEF ClaimNext
  <2>1. r \in RunIds /\ runs[r].lifecycle # "completed"
    BY DEF Claimable
  <2>2. \A q \in RunIds : q # r => runs'[q] = runs[q]
    BY <2>1
  <2>3. runs'[r].lifecycle = "leased" /\ runs'[r].decision = runs[r].decision
    <3>1. process \in ProcessStates /\ runs[r] \in RunRows /\ runs'[r] = Claimed(runs[r])
      BY <2>1 DEF TableInv, TurnInv, TypeOK
    <3> QED BY <3>1, ClaimedRow
  <2> QED BY <2>1, <2>2, <2>3
<1>3. CASE MarkRunning
  BY <1>3 DEF MarkRunning, RunRows
<1>4. CASE PrepareAudit \/ FreezeModelInput
  BY <1>4 DEF PrepareAudit, FreezeModelInput, RunRows, DecisionLock, Authority
<1>5. CASE StartAttempt
  <2>1. \/ UNCHANGED runs
        \/ runs' = [runs EXCEPT ![Current] = AttemptStarted(runs[Current])]
    BY <1>5 DEF StartAttempt
  <2>2. UNCHANGED session
    BY <1>5 DEF StartAttempt
  <2>3. \A q \in RunIds : /\ runs'[q].lifecycle = runs[q].lifecycle
                          /\ runs'[q].version = runs[q].version
                          /\ runs'[q].participant = runs[q].participant
                          /\ runs'[q].decision = runs[q].decision
    <3>1. ASSUME NEW x \in RunRows, NEW n
          PROVE  LET z == [x EXCEPT !.attempts = n, !.open = TRUE]
                 IN  /\ z.lifecycle = x.lifecycle /\ z.version = x.version
                     /\ z.participant = x.participant /\ z.decision = x.decision
      BY DEF RunRows
    <3>2. CASE UNCHANGED runs
      BY <3>2
    <3>3. CASE runs' = [runs EXCEPT ![Current] = AttemptStarted(runs[Current])]
      <4> TAKE q \in RunIds
      <4>1. CASE q # Current
        BY <3>3, <4>1
      <4>2. CASE q = Current
        <5>1. runs[q] \in RunRows /\ runs'[q] = AttemptStarted(runs[q])
          BY <3>3, <4>2
        <5> QED BY <3>1, <5>1
      <4> QED BY <4>1, <4>2
    <3> QED BY <2>1, <3>2, <3>3
  <2> QED BY <2>2, <2>3
<1>6. CASE AcceptReply \/ RejectReply \/ FailAttempt
  <2>1. CloseAttempt(Current) \/ MarkSelected(Current)
    BY <1>6 DEF AcceptReply, RejectReply, FailAttempt
  <2>2. TypeOK
    BY DEF TableInv, TurnInv
  <2> QED BY <2>1, <2>2, ClosedRowsAgree
<1>7. CASE ReadForResume \/ FinishWithoutAuthority \/ CommitRefused \/ HeartbeatRejected
             \/ Restart \/ UNCHANGED vars
  BY <1>7 DEF ReadForResume, FinishWithoutAuthority, CommitRefused, HeartbeatRejected,
              Restart, vars
<1>8. CASE LeaseLapses \/ LeaseStalls
  BY <1>8 DEF LeaseLapses, LeaseStalls, ExpireLease, RunRows
<1>9. CASE HeartbeatFails \/ DatabaseFails \/ Crash
  BY <1>9 DEF HeartbeatFails, DatabaseFails, Crash
<1>10. CASE DeadlinePasses
  BY <1>10 DEF DeadlinePasses, RunRows
<1> QED BY <1>2, <1>3, <1>4, <1>5, <1>6, <1>7, <1>8, <1>9, <1>10 DEF Faults

LEMMA InitTable == Init => Table!Init /\ TableInv
<1> SUFFICES ASSUME Init PROVE Table!Init /\ TableInv
  OBVIOUS
<1>1. /\ session.agentRunState = "idle" /\ session.lifecycleStatus = "active"
      /\ session.stateVersion = 0 /\ session.actor \in Seats
      /\ \A r \in RunIds : runs[r].lifecycle = "absent" /\ runs[r].decision = "none"
  BY DEF Init, AbsentRun
<1>2. Table!Init
  BY <1>1 DEF Table!Init, Phase, Decisions, Seats
<1>3. CommitCompletes
  BY <1>1 DEF CommitCompletes
<1> QED BY <1>2, <1>3, InitTurnInv DEF TableInv

LEMMA CreateCommits ==
  ASSUME TableInv, CreateInitialRun
  PROVE  CommitsKept
<1> DEFINE new == runCount + 1
           row == QueuedRun(session.stateVersion, session.actor, process.config, NoRun)
<1>1. new \in RunIds /\ runs[new].lifecycle = "absent" /\ runs \in [RunIds -> RunRows]
  BY PlayerTurnAssumption DEF TableInv, TurnInv, TypeOK, RunIds, CreateInitialRun
<1>2. row.lifecycle = "queued" /\ row.decision = "none"
  BY QueuedRunFields
<1> HIDE DEF row
<1>3. runs'[new] = row /\ \A q \in RunIds : q # new => runs'[q] = runs[q]
  BY <1>1 DEF CreateInitialRun, row
<1> HIDE DEF new
<1> QED BY <1>1, <1>2, <1>3 DEF TableInv, CommitCompletes, CommitsKept

LEMMA CommandsImplement ==
  ASSUME TableInv, Commands
  PROVE  CommitCompletes' /\ Table!Next
<1>1. session \in SessionRows /\ \A r \in RunIds : runs[r] \in RunRows
  BY DEF TableInv, TurnInv, TypeOK
<1>2. UNCHANGED runs => CommitCompletes' /\ Decisions' = Decisions
  BY KeptCommits DEF CommitsKept
<1>3. CASE UserAction \/ StartNextHand \/ Rebuy
  <2>1. /\ session'.lifecycleStatus = "active" /\ session'.agentRunState = "idle"
        /\ session'.stateVersion = session.stateVersion + 1
        /\ session'.actor \in Seats
        /\ session.actor \in {User, NoActor} /\ runs' = runs
        /\ session.lifecycleStatus = "active" /\ session.agentRunState = "idle"
    BY <1>1, <1>3 DEF UserAction, StartNextHand, Rebuy, AdvanceTo, SessionRows, Quiet,
                      NextSeats, Seats
  <2>2. Table!TableMoves
    BY <1>2, <2>1, PlayerTurnAssumption DEF Table!TableMoves, Table!NextTurn, Phase, Seats
  <2> QED BY <1>2, <2>1, <2>2 DEF Table!Next
<1>4. CASE EndSession
  <2>1. /\ session'.lifecycleStatus = "ended" /\ session.actor = NoActor
        /\ session'.actor = session.actor /\ session'.stateVersion = session.stateVersion
        /\ session.lifecycleStatus = "active" /\ session.agentRunState = "idle"
        /\ session'.agentRunState = "idle" /\ runs' = runs
    BY <1>1, <1>4 DEF EndSession, Quiet, SessionRows
  <2>2. Phase = "open"
    BY <2>1 DEF Phase
  <2>3. Phase' = "over"
    BY <2>1 DEF Phase
  <2> QED BY <1>2, <2>1, <2>2, <2>3 DEF Table!Next, Table!EndBetweenHands
<1>5. CASE EndPausedSession
  <2>1. /\ session'.lifecycleStatus = "ended" /\ session'.actor = NoActor
        /\ session'.stateVersion = session.stateVersion + 1
        /\ session.lifecycleStatus = "active" /\ session.agentRunState = "paused"
        /\ session'.agentRunState = "idle" /\ runs' = runs
    BY <1>1, <1>5 DEF EndPausedSession, SessionRows
  <2>2. Phase = "paused"
    BY <2>1 DEF Phase
  <2>3. Phase' = "over"
    BY <2>1 DEF Phase
  <2> QED BY <1>2, <2>1, <2>2, <2>3 DEF Table!Next, Table!EndPaused
<1>6. CASE RetryAgent
  <2> PICK r \in RunIds : FailedLeaves = {r} /\ ReplaceRun(r, runs[r])
    BY <1>6 DEF RetryAgent
  <2>1. runs[r].lifecycle = "failed"
    BY DEF FailedLeaves
  <2>2. CommitCompletes' /\ Decisions' = Decisions
    BY <2>1, SettlementCommits, KeptCommits
  <2>3. /\ session'.agentRunState = "thinking" /\ session'.actor = session.actor
        /\ session'.stateVersion = session.stateVersion
        /\ session'.lifecycleStatus = "active" /\ session.lifecycleStatus = "active"
        /\ session.agentRunState = "paused"
    BY <1>1, <1>6 DEF ReplaceRun, RetryAgent, AiTurn, SessionRows
  <2> QED BY <2>2, <2>3 DEF Table!Next, Table!ThinkAgain, Phase
<1> QED BY <1>3, <1>4, <1>5, <1>6 DEF Commands

LEMMA CommitImplements ==
  ASSUME TableInv, CommitDecision
  PROVE  CommitCompletes' /\ Table!Decide
<1> DEFINE r == Current
<1>1. /\ session \in SessionRows /\ runs \in [RunIds -> RunRows]
      /\ \A q \in RunIds : runs[q] \in RunRows
  BY DEF TableInv, TurnInv, TypeOK
<1>2. /\ r \in RunIds /\ runs[r].version = session.stateVersion
      /\ runs[r].participant = session.actor /\ runs[r].lifecycle = "running"
      /\ session.agentRunState = "thinking" /\ session.lifecycleStatus = "active"
  BY DEF CommitDecision, TableInv, TurnInv, TypeOK, OwnsDecision, ForCurrentTurn, AiTurn,
         DecisionLock, Authority, Current
<1>3. /\ runs'[r].lifecycle = "completed" /\ runs'[r].decision = "committed"
      /\ runs'[r].version = runs[r].version /\ runs'[r].participant = runs[r].participant
      /\ \A q \in RunIds : q # r => runs'[q] = runs[q]
  BY <1>1, <1>2 DEF CommitDecision, RunRows
<1>4. /\ session'.agentRunState = "idle" /\ session'.lifecycleStatus = "active"
      /\ session'.stateVersion = session.stateVersion + 1
      /\ session'.actor \in Actors \cup {User, NoActor}
  BY <1>1, <1>2 DEF CommitDecision, AdvanceTo, SessionRows, NextSeats, Seats
<1> HIDE DEF r
<1>5. CommitCompletes'
  BY <1>3 DEF TableInv, CommitCompletes
<1>6. Decisions' = Decisions \cup {<<session.stateVersion, session.actor>>}
  <2>1. runs[r].decision # "committed"
    BY <1>2 DEF TableInv, CommitCompletes
  <2> QED BY <1>2, <1>3, <2>1 DEF Decisions
<1> QED BY <1>2, <1>4, <1>5, <1>6 DEF Table!Decide, Table!NextTurn, Phase


LEMMA NextImplements ==
  TableInv /\ [Next]_vars => TableInv' /\ [Table!Next]_(Table!vars)
<1> SUFFICES ASSUME TableInv, [Next]_vars
             PROVE  CommitCompletes' /\ (Table!Next \/ UNCHANGED Table!vars)
  BY NextTurnInv DEF TableInv
<1>1. /\ session \in SessionRows /\ \A r \in RunIds : runs[r] \in RunRows
      /\ lane.pc # "idle" => Current \in RunIds
  BY DEF TableInv, TurnInv, TypeOK, Current
<1>2. CommitsKept /\ UNCHANGED session => CommitCompletes' /\ UNCHANGED Table!vars
  BY KeptCommits DEF Table!vars, Phase
<1>3. CASE Commands
  BY <1>3, CommandsImplement
<1>4. CASE CommitDecision
  BY <1>4, CommitImplements DEF Table!Next
<1>5. CASE ReconcileCurrentTurn \/ ReconcileAtStartup
  <2>1. CASE UNCHANGED <<session, runs>>
    BY <1>2, <2>1 DEF CommitsKept
  <2>2. CASE NeedsInitialRun /\ CreateInitialRun
    <3>1. /\ session'.agentRunState = "thinking" /\ session'.actor = session.actor
          /\ session'.stateVersion = session.stateVersion
          /\ session'.lifecycleStatus = "active" /\ session.lifecycleStatus = "active"
          /\ session.agentRunState = "idle" /\ session.actor \in Actors
      BY <1>1, <2>2 DEF CreateInitialRun, NeedsInitialRun, AiTurn, SessionRows
    <3>2. CommitsKept
      BY <2>2, CreateCommits
    <3>3. Phase = "open" /\ Phase' = "thinking"
      BY <3>1 DEF Phase
    <3> QED BY <3>1, <3>2, <3>3, KeptCommits DEF Table!Next, Table!StartThinking
  <2> QED BY <1>5, <2>1, <2>2 DEF ReconcileCurrentTurn, ReconcileAtStartup
<1>6. ASSUME NEW r \in RunIds, AiTurn, Active(r), session.agentRunState = "thinking",
             \/ \E lifecycle \in {"cancelled", "stale"} :
                  ReplaceRun(r, Terminated(runs[r], lifecycle, "stale"))
             \/ PauseTurn(r)
      PROVE  CommitCompletes' /\ (Table!Next \/ UNCHANGED Table!vars)
  <2>1. runs[r].lifecycle # "completed" /\ runs[r].lifecycle # "absent"
    BY <1>6 DEF Active, ActiveLifecycles
  <2>2. CommitsKept
    BY <1>6, <2>1, SettlementCommits
  <2>3. /\ session'.lifecycleStatus = "active" /\ session.lifecycleStatus = "active"
        /\ session'.actor = session.actor /\ session'.stateVersion = session.stateVersion
    BY <1>1, <1>6 DEF ReplaceRun, PauseTurn, AiTurn, SessionRows
  <2>4. CASE PauseTurn(r)
    <3>1. session'.agentRunState = "paused"
      BY <1>1, <2>4 DEF PauseTurn, SessionRows
    <3>2. Phase = "thinking" /\ Phase' = "paused"
      BY <1>6, <2>3, <3>1 DEF Phase
    <3> QED BY <2>2, <2>3, <3>2, KeptCommits DEF Table!Next, Table!GiveUp
  <2>5. CASE session'.agentRunState = "thinking"
    <3>1. Phase = "thinking" /\ Phase' = "thinking"
      BY <1>6, <2>3, <2>5 DEF Phase
    <3> QED BY <2>2, <2>3, <3>1, KeptCommits DEF Table!vars
  <2>6. PauseTurn(r) \/ session'.agentRunState = "thinking"
    BY <1>1, <1>6 DEF ReplaceRun, SessionRows
  <2> QED BY <2>4, <2>5, <2>6
<1>7. CASE PauseAfterFailure \/ ReconcileStale
  <2>1. CASE UNCHANGED <<session, runs>>
    BY <1>2, <2>1 DEF CommitsKept
  <2> QED BY <1>1, <1>6, <1>7, <2>1
          DEF PauseAfterFailure, ReconcileStale, OwnsDecision, Authority, Active, ActiveLifecycles
<1>8. CASE RecoverAfterRestart
  <2>1. CASE UNCHANGED <<session, runs>>
    BY <1>2, <2>1 DEF CommitsKept
  <2>2. session.activePlayerRunId # NoRun => session.activePlayerRunId \in RunIds
    BY <1>1 DEF SessionRows
  <2> QED BY <1>6, <1>8, <2>1, <2>2 DEF RecoverAfterRestart
<1> QED BY <1>2, <1>3, <1>4, <1>5, <1>7, <1>8, KeptSteps, KeptStepsCommit
        DEF TableInv, TurnKept, Next, Server, Startup, LaneStep

\* Runs, leases, replacements, retries, crashes and recoveries are invisible to
\* the table: it sees turns that open, are thought about, decided once out of the
\* thinking state by the seat they belong to, paused, retried or given up.
THEOREM MachineryImplementsTable == Spec => ImplementsTable
<1> QED BY InitTable, NextImplements, PTL DEF Spec, ImplementsTable, Table!Spec

-----------------------------------------------------------------------------
(* The runs of a turn: how a run ends, how runs replace one another, who   *)
(* may touch a run, and what every run was created for.                    *)

\* What a row says of itself, in every reachable state.
RowInv(x) ==
  /\ x.decision = "committed" <=> x.lifecycle = "completed"
  /\ x.outcome # "none" => x.lifecycle \in {"failed", "cancelled", "stale"}
  /\ x.lifecycle \in {"failed", "cancelled", "stale"} =>
       (x.outcome = "none" <=> x.decision = "none")
  /\ x.lifecycle \in TerminalLifecycles => ~x.open /\ ~x.leaseLive
  /\ x.open \/ x.lost => x.decision \notin {"none", "auditPrepared"}
  /\ x.decision = "selected" => x.attempts > 0 /\ ~x.open
  /\ x.lifecycle = "absent" => x.parent = NoRun /\ x.replacement = NoRun /\ ~x.lost

\* Successor and predecessor name each other, and only a settled run of the
\* same turn has a successor.
Links ==
  \A r \in RunIds :
    /\ runs[r].replacement # NoRun =>
         /\ runs[runs[r].replacement].parent = r
         /\ runs[runs[r].replacement].version = runs[r].version
         /\ runs[r].lifecycle \in {"failed", "cancelled", "stale"}
    /\ runs[r].parent # NoRun =>
         /\ runs[r].parent < r
         /\ runs[runs[r].parent].replacement = r

\* The runs of the open turn that nobody replaced.
Leaves == {r \in RunIds : /\ runs[r].lifecycle # "absent"
                          /\ runs[r].version = session.stateVersion
                          /\ runs[r].replacement = NoRun}

\* No run is ahead of the session; the open turn has no unreplaced run while
\* it is idle, the pointer's while it thinks, one failed one while it is paused.
Leaf ==
  /\ \A r \in RunIds : runs[r].lifecycle # "absent" => runs[r].version <= session.stateVersion
  /\ session.agentRunState = "idle" => Leaves = {}
  /\ session.agentRunState = "thinking" => Leaves = {session.activePlayerRunId}
  /\ session.agentRunState = "paused" =>
       AiTurn /\ \E r \in RunIds : /\ Leaves = {r} /\ runs[r].lifecycle = "failed"
                                   /\ runs[r].participant = session.actor

\* What a step of the lane finds in the row of its run.
AtStep(pc, x) ==
  /\ x.lifecycle = (IF pc = "claimed" THEN "leased" ELSE "running")
  /\ pc \in {"attempt", "provider"} => x.decision = "modelPrepared" /\ ~x.lost
  /\ pc = "provider" => x.attempts > 0
  /\ pc = "publish" => x.decision = "selected"

\* A busy lane holds the lease it claimed, in the process that claimed it.
LaneFacts ==
  /\ process.phase # "serving" => lane.pc = "idle"
  /\ lane.pc # "idle" => /\ runs[lane.run].fence = lane.fence
                         /\ runs[lane.run].leaseOwner = process.incarnation
                         /\ AtStep(lane.pc, runs[lane.run])

\* An incident has happened to the turn that one replacement may answer.
Paid ==
  \/ process.phase \in {"down", "recovering"}
  \/ lane.pc = "reconcileStale"
  \/ /\ session.agentRunState = "thinking"
     /\ \/ runs[session.activePlayerRunId].overdue
        \/ /\ runs[session.activePlayerRunId].lifecycle \in {"leased", "running"}
           /\ ~(/\ runs[session.activePlayerRunId].leaseLive
                /\ Renewing(session.activePlayerRunId))

One(condition) == IF condition THEN 1 ELSE 0

\* Every run is accounted for by a turn or by an incident.
Budget == runCount + One(Paid)
            <= session.stateVersion + One(session.agentRunState # "idle") + incidents

RowsInv == \A r \in RunIds : RowInv(runs[r])

\* The inductive invariant.
RunsInv == TurnInv /\ RowsInv /\ Links /\ Leaf /\ LaneFacts /\ Budget


-----------------------------------------------------------------------------
(* What the steps of the machinery do to a row *)

\* The row still is the same run of the same turn, and active; a call that may
\* have been made is not made again.
Continues(x, y) ==
  /\ y \in RunRows /\ RowInv(y)
  /\ x.lifecycle \in ActiveLifecycles /\ y.lifecycle \in ActiveLifecycles
  /\ y.version = x.version /\ y.participant = x.participant
  /\ y.parent = x.parent /\ y.replacement = x.replacement
  /\ x.lost => y.attempts = x.attempts

SameLease(x, y) == /\ y.fence = x.fence /\ y.leaseOwner = x.leaseOwner
                   /\ y.leaseLive = x.leaseLive /\ y.overdue = x.overdue

SameWork(x, y) == /\ y.decision = x.decision /\ y.attempts = x.attempts
                  /\ y.lost = x.lost

\* A row of an active run, as the invariant has it.
LiveRow(x) == x \in RunRows /\ RowInv(x) /\ x.lifecycle \in ActiveLifecycles

LEMMA LiveRowFacts ==
  ASSUME NEW x, LiveRow(x)
  PROVE  /\ x.outcome = "none" /\ x.decision # "committed"
         /\ Continues(x, x) /\ SameLease(x, x) /\ SameWork(x, x)
BY DEF LiveRow, RowInv, Continues, SameLease, SameWork, RunRows, ActiveLifecycles,
       TerminalLifecycles

LEMMA RowStarts ==
  ASSUME NEW x, LiveRow(x), NEW y, y = [x EXCEPT !.lifecycle = "running"]
  PROVE  Continues(x, y) /\ SameLease(x, y) /\ SameWork(x, y) /\ y.lifecycle = "running"
BY DEF LiveRow, RowInv, Continues, SameLease, SameWork, RunRows, ActiveLifecycles,
       TerminalLifecycles

LEMMA RowDecides ==
  ASSUME NEW x, LiveRow(x), NEW y, NEW d, y = [x EXCEPT !.decision = d],
         \/ x.decision = "none" /\ d = "auditPrepared"
         \/ x.decision = "auditPrepared" /\ d = "modelPrepared"
  PROVE  /\ Continues(x, y) /\ SameLease(x, y) /\ y.lifecycle = x.lifecycle
         /\ y.decision = d /\ y.attempts = x.attempts /\ ~y.lost /\ ~x.lost
BY DEF LiveRow, RowInv, Continues, SameLease, RunRows, ActiveLifecycles,
       TerminalLifecycles

LEMMA RowLapses ==
  ASSUME NEW x, LiveRow(x), NEW y, y = [x EXCEPT !.leaseLive = FALSE]
  PROVE  /\ Continues(x, y) /\ SameWork(x, y) /\ y.lifecycle = x.lifecycle
         /\ y.fence = x.fence /\ y.leaseOwner = x.leaseOwner /\ y.overdue = x.overdue
BY DEF LiveRow, RowInv, Continues, SameWork, RunRows, ActiveLifecycles,
       TerminalLifecycles

LEMMA RowExpires ==
  ASSUME NEW x, LiveRow(x), NEW y, y = [x EXCEPT !.overdue = TRUE]
  PROVE  /\ Continues(x, y) /\ SameWork(x, y) /\ y.lifecycle = x.lifecycle
         /\ y.fence = x.fence /\ y.leaseOwner = x.leaseOwner
BY DEF LiveRow, RowInv, Continues, SameWork, RunRows, ActiveLifecycles,
       TerminalLifecycles

LEMMA RowAttempts ==
  ASSUME NEW x, LiveRow(x), x.decision = "modelPrepared", ~x.lost,
         NEW y, y = AttemptStarted(x)
  PROVE  /\ Continues(x, y) /\ SameLease(x, y) /\ y.lifecycle = x.lifecycle
         /\ y.decision = x.decision /\ y.lost = x.lost /\ y.attempts > 0
<1>1. PICK n \in Nat : n = x.attempts + 1
  BY DEF LiveRow, RunRows
<1>2. n > 0
  BY <1>1 DEF LiveRow, RunRows
<1>3. y = [x EXCEPT !.attempts = n, !.open = TRUE]
  BY <1>1
<1> HIDE <1>1
<1> QED BY <1>2, <1>3 DEF LiveRow, RowInv, Continues, SameLease, RunRows, ActiveLifecycles,
       TerminalLifecycles

LEMMA RowCloses ==
  ASSUME NEW x, LiveRow(x), NEW y, y = AttemptClosed(x)
  PROVE  Continues(x, y) /\ SameLease(x, y) /\ SameWork(x, y) /\ y.lifecycle = x.lifecycle
BY DEF LiveRow, RowInv, Continues, SameLease, SameWork, RunRows, ActiveLifecycles,
       TerminalLifecycles

LEMMA RowSelects ==
  ASSUME NEW x, LiveRow(x), x.decision = "modelPrepared", x.attempts > 0,
         NEW y, y = [AttemptClosed(x) EXCEPT !.decision = "selected"]
  PROVE  /\ Continues(x, y) /\ SameLease(x, y) /\ y.lifecycle = x.lifecycle
         /\ y.decision = "selected" /\ y.attempts = x.attempts /\ y.lost = x.lost
<1>1. y = [x EXCEPT !.open = FALSE, !.decision = "selected"]
  OBVIOUS
<1> QED BY <1>1 DEF LiveRow, RowInv, Continues, SameLease, RunRows, ActiveLifecycles,
       TerminalLifecycles

\* A lease is taken, under the next fencing token.
Leased(x, owner, fence) ==
  [x EXCEPT !.lifecycle = "leased", !.leaseOwner = owner, !.leaseLive = TRUE,
            !.fence = fence]

LEMMA RowLeased ==
  ASSUME NEW x \in RunRows, NEW owner \in Nat, NEW fence \in Nat, NEW y,
         y = Leased(x, owner, fence)
  PROVE  /\ y \in RunRows /\ y.lifecycle = "leased" /\ y.leaseLive
         /\ y.leaseOwner = owner /\ y.fence = fence /\ y.overdue = x.overdue
         /\ y.outcome = x.outcome /\ y.open = x.open
         /\ y.decision = x.decision /\ y.lost = x.lost /\ y.attempts = x.attempts
         /\ y.version = x.version /\ y.participant = x.participant
         /\ y.parent = x.parent /\ y.replacement = x.replacement
BY DEF Leased, RunRows, ActiveLifecycles

\* An attempt that was open becomes one of unknown outcome.
Uncertain(x, l) == [x EXCEPT !.lost = l, !.open = FALSE]

LEMMA RowReplaced ==
  ASSUME NEW x \in RunRows, NEW l \in BOOLEAN, NEW y, y = Uncertain(x, l)
  PROVE  /\ y \in RunRows /\ y.lost = l /\ ~y.open
         /\ y.overdue = x.overdue /\ y.outcome = x.outcome /\ y.fence = x.fence
         /\ y.decision = x.decision /\ y.attempts = x.attempts
         /\ y.version = x.version /\ y.participant = x.participant
         /\ y.parent = x.parent /\ y.replacement = x.replacement
BY DEF Uncertain, RunRows

LEMMA RowClaimed ==
  ASSUME NEW x, LiveRow(x), process \in ProcessStates, NEW y, y = Claimed(x)
  PROVE  /\ Continues(x, y) /\ y.lifecycle = "leased" /\ y.leaseLive
         /\ y.leaseOwner = process.incarnation /\ y.fence = x.fence + 1
         /\ y.overdue = x.overdue /\ y.attempts = x.attempts
         /\ x.lost => y.lost
<1> DEFINE z == AttemptReplaced(x)
           l == x.lost \/ x.open
<1>1. x \in RunRows
  BY DEF LiveRow
<1>10. PICK f \in Nat : f = x.fence + 1
  BY <1>1 DEF RunRows
<1>11. PICK i \in Nat : i = process.incarnation
  BY DEF ProcessStates
<1>2. l \in BOOLEAN /\ z = Uncertain(x, l)
  BY DEF Uncertain
<1>3. y = Leased(z, i, f)
  BY <1>10, <1>11 DEF Claimed, Leased
<1>4. l <=> (x.lost \/ x.open)
  OBVIOUS
<1> HIDE DEF z, l
<1>5. /\ z \in RunRows /\ z.lost = l /\ ~z.open
      /\ z.overdue = x.overdue /\ z.outcome = x.outcome /\ z.fence = x.fence
      /\ z.decision = x.decision /\ z.attempts = x.attempts
      /\ z.version = x.version /\ z.participant = x.participant
      /\ z.parent = x.parent /\ z.replacement = x.replacement
  BY <1>1, <1>2, RowReplaced
<1>6. /\ y \in RunRows /\ y.lifecycle = "leased" /\ y.leaseLive
      /\ y.leaseOwner = i /\ y.fence = f
      /\ y.overdue = z.overdue /\ y.outcome = z.outcome /\ y.open = z.open
      /\ y.decision = z.decision /\ y.lost = z.lost /\ y.attempts = z.attempts
      /\ y.version = z.version /\ y.participant = z.participant
      /\ y.parent = z.parent /\ y.replacement = z.replacement
  BY <1>1, <1>3, <1>5, RowLeased
<1>7. y.lost <=> (x.lost \/ x.open)
  BY <1>4, <1>5, <1>6
<1>8. /\ ~y.open /\ y.decision = x.decision /\ y.outcome = x.outcome
      /\ y.attempts = x.attempts /\ y.version = x.version
      /\ y.participant = x.participant /\ y.parent = x.parent
      /\ y.replacement = x.replacement /\ y.overdue = x.overdue
  BY <1>5, <1>6
<1>9. RowInv(y)
  BY <1>6, <1>7, <1>8, LiveRowFacts DEF LiveRow, RowInv, TerminalLifecycles
<1> QED BY <1>6, <1>7, <1>8, <1>9, <1>10, <1>11 DEF LiveRow, Continues, ActiveLifecycles

\* A run gives its lease up for good.
Released(x, lifecycle) ==
  [x EXCEPT !.lifecycle = lifecycle, !.leaseOwner = 0, !.leaseLive = FALSE]

LEMMA RowReleased ==
  ASSUME NEW x \in RunRows, NEW lifecycle \in TerminalLifecycles, NEW y,
         y = Released(x, lifecycle)
  PROVE  /\ y \in RunRows /\ y.lifecycle = lifecycle /\ ~y.leaseLive
         /\ y.outcome = x.outcome /\ y.open = x.open
         /\ y.decision = x.decision /\ y.lost = x.lost /\ y.attempts = x.attempts
         /\ y.version = x.version /\ y.participant = x.participant
         /\ y.parent = x.parent /\ y.replacement = x.replacement
BY DEF Released, RunRows

\* How the row of a settled run looks.
LEMMA RowSettles ==
  ASSUME NEW x, LiveRow(x), NEW lifecycle \in {"failed", "cancelled", "stale"},
         NEW outcome \in {"failed", "stale"}, NEW y, y = Terminated(x, lifecycle, outcome)
  PROVE  /\ y \in RunRows /\ RowInv(y) /\ y.lifecycle = lifecycle
         /\ y.version = x.version /\ y.participant = x.participant
         /\ y.parent = x.parent /\ y.replacement = x.replacement
         /\ y.attempts = x.attempts
<1> DEFINE o == IF x.decision = "none" THEN "none" ELSE outcome
<1> DEFINE z == [x EXCEPT !.outcome = o, !.open = FALSE]
<1>1. /\ y = Released(z, lifecycle)
      /\ o \in {"none", "failed", "stale"} /\ (o = "none" <=> x.decision = "none")
  BY DEF Terminated, Released
<1> HIDE DEF o
<1>5. /\ z \in RunRows /\ z.outcome = o /\ ~z.open
      /\ z.decision = x.decision /\ z.lost = x.lost
      /\ z.attempts = x.attempts
      /\ z.version = x.version /\ z.participant = x.participant
      /\ z.parent = x.parent /\ z.replacement = x.replacement
  BY <1>1 DEF LiveRow, RunRows
<1> HIDE DEF z
<1>2. /\ y \in RunRows /\ y.lifecycle = lifecycle /\ y.outcome = o /\ ~y.open
      /\ ~y.leaseLive /\ y.decision = x.decision /\ y.lost = x.lost
      /\ y.attempts = x.attempts
      /\ y.version = x.version /\ y.participant = x.participant
      /\ y.parent = x.parent /\ y.replacement = x.replacement
  BY <1>1, <1>5, RowReleased DEF TerminalLifecycles
<1>3. RowInv(x) /\ x.decision # "committed"
  BY LiveRowFacts DEF LiveRow
<1> QED BY <1>1, <1>2, <1>3 DEF RowInv

\* Naming a successor changes nothing else.
LEMMA RowLinked ==
  ASSUME NEW x \in RunRows, RowInv(x), x.lifecycle # "absent", NEW n \in RunIds,
         NEW y, y = [x EXCEPT !.replacement = n]
  PROVE  /\ y \in RunRows /\ RowInv(y) /\ y.lifecycle = x.lifecycle
         /\ y.version = x.version /\ y.participant = x.participant
         /\ y.parent = x.parent /\ y.replacement = n /\ y.attempts = x.attempts
         /\ y = [x EXCEPT !.replacement = y.replacement]
BY DEF RunRows, RowInv

LEMMA RowQueued ==
  ASSUME NEW v \in Nat, NEW p \in Actors \cup {NoActor}, NEW c \in Configs,
         NEW parent \in RunIds \cup {NoRun}
  PROVE  /\ QueuedRun(v, p, c, parent) \in RunRows /\ RowInv(QueuedRun(v, p, c, parent))
         /\ QueuedRun(v, p, c, parent).lifecycle = "queued"
         /\ QueuedRun(v, p, c, parent).version = v
         /\ QueuedRun(v, p, c, parent).parent = parent
         /\ QueuedRun(v, p, c, parent).replacement = NoRun
         /\ ~QueuedRun(v, p, c, parent).overdue
<1> DEFINE y == QueuedRun(v, p, c, parent)
<1>1. /\ y.lifecycle = "queued" /\ y.version = v /\ y.parent = parent
      /\ y.replacement = NoRun /\ ~y.overdue /\ ~y.open /\ ~y.lost
      /\ y.decision = "none" /\ y.outcome = "none"
  BY DEF QueuedRun, AbsentRun
<1>2. y \in RunRows
  BY QueuedRunType
<1> HIDE DEF y
<1>3. RowInv(y)
  BY <1>1 DEF RowInv, TerminalLifecycles
<1> QED BY <1>1, <1>2, <1>3 DEF y

LEMMA RowFinalized ==
  ASSUME NEW x, LiveRow(x), x.decision = "selected", NEW y, y = Finalized(MarkCommitted(x))
  PROVE  /\ y \in RunRows /\ RowInv(y) /\ y.lifecycle = "completed"
         /\ y.version = x.version /\ y.participant = x.participant
         /\ y.parent = x.parent /\ y.replacement = x.replacement
         /\ y.attempts = x.attempts
<1> DEFINE z == MarkCommitted(x)
<1>1. y = Released(z, "completed")
  BY DEF Released
<1>5. /\ z \in RunRows /\ z.decision = "committed"
      /\ z.outcome = x.outcome /\ z.open = x.open /\ z.lost = x.lost
      /\ z.attempts = x.attempts
      /\ z.version = x.version /\ z.participant = x.participant
      /\ z.parent = x.parent /\ z.replacement = x.replacement
  BY DEF LiveRow, RunRows
<1> HIDE DEF z
<1>2. /\ y \in RunRows /\ y.lifecycle = "completed" /\ y.decision = "committed"
      /\ y.outcome = x.outcome /\ y.open = x.open /\ y.lost = x.lost
      /\ ~y.leaseLive /\ y.attempts = x.attempts
      /\ y.version = x.version /\ y.participant = x.participant
      /\ y.parent = x.parent /\ y.replacement = x.replacement
  BY <1>1, <1>5, RowReleased DEF TerminalLifecycles
<1>3. RowInv(x) /\ x.lifecycle \in ActiveLifecycles
  BY DEF LiveRow
<1>4. x.outcome = "none" /\ ~x.open /\ x.attempts > 0
  BY <1>3, LiveRowFacts DEF RowInv
<1> QED BY <1>2, <1>3, <1>4 DEF RowInv, TerminalLifecycles, ActiveLifecycles

-----------------------------------------------------------------------------
(* The parts of the invariant, step by step *)

LEMMA RunsInvFacts ==
  ASSUME RunsInv
  PROVE  /\ TypeOK /\ runs \in [RunIds -> RunRows] /\ runCount \in Nat
         /\ session \in SessionRows /\ session.stateVersion \in Nat /\ lane \in LaneStates
         /\ process \in ProcessStates /\ incidents \in Nat
         /\ \A r \in RunIds : /\ runs[r] \in RunRows /\ RowInv(runs[r])
                              /\ runs[r].version \in Nat
                              /\ Active(r) => LiveRow(runs[r])
                              /\ runs[r].lifecycle = "absent" <=> r > runCount
         /\ lane.pc # "idle" => lane.run \in RunIds
<1>1. TypeOK
  BY DEF RunsInv, TurnInv
<1>2. /\ runs \in [RunIds -> RunRows] /\ runCount \in Nat /\ incidents \in Nat
      /\ session \in SessionRows /\ lane \in LaneStates /\ process \in ProcessStates
  BY <1>1, PlayerTurnAssumption DEF TypeOK
<1>3. session.stateVersion \in Nat /\ \A r \in RunIds : runs[r].version \in Nat
  BY <1>2 DEF SessionRows, RunRows
<1> QED BY <1>1, <1>2, <1>3 DEF RunsInv, RowsInv, LiveRow, Active, TypeOK

\* One row moves on as the same active run of the same turn: the chains and
\* the leaves stay what they are.
RowMoves == /\ session' = session /\ runCount' = runCount
            /\ \/ runs' = runs
               \/ \E r \in RunIds, y \in RunRows :
                    runs' = [runs EXCEPT ![r] = y] /\ Continues(runs[r], y)

Moved(q) == /\ RowInv(runs'[q])
            /\ runs'[q].version = runs[q].version
            /\ runs'[q].participant = runs[q].participant
            /\ runs'[q].parent = runs[q].parent
            /\ runs'[q].replacement = runs[q].replacement
            /\ runs'[q] = runs[q] \/ (Active(q) /\ Continues(runs[q], runs'[q]))

LEMMA MovedRows ==
  ASSUME RunsInv, RowMoves
  PROVE  /\ \A q \in RunIds : Moved(q)
         /\ RowsInv' /\ Links' /\ Leaf'
<1> USE DEF Moved
<1>1. \A q \in RunIds : Moved(q)
  <2>1. CASE runs' = runs
    BY <2>1, RunsInvFacts
  <2>2. ASSUME NEW r \in RunIds, NEW y \in RunRows,
               runs' = [runs EXCEPT ![r] = y], Continues(runs[r], y)
        PROVE  \A q \in RunIds : Moved(q)
    <3>1. runs'[r] = y /\ \A q \in RunIds : q # r => runs'[q] = runs[q]
      BY <2>2, RunsInvFacts
    <3> QED BY <2>2, <3>1, RunsInvFacts DEF Continues, Active
  <2> QED BY <2>1, <2>2 DEF RowMoves
<1>2. RowsInv'
  BY <1>1 DEF RowsInv
<1>3. \A q \in RunIds : runs'[q].lifecycle # runs[q].lifecycle =>
        runs[q].lifecycle \in ActiveLifecycles /\ runs'[q].lifecycle \in ActiveLifecycles
  BY <1>1 DEF Continues
<1>4. Links'
  <2> SUFFICES ASSUME NEW r \in RunIds
               PROVE  /\ runs'[r].replacement # NoRun =>
                           /\ runs'[runs'[r].replacement].parent = r
                           /\ runs'[runs'[r].replacement].version = runs'[r].version
                           /\ runs'[r].lifecycle \in {"failed", "cancelled", "stale"}
                      /\ runs'[r].parent # NoRun =>
                           /\ runs'[r].parent < r
                           /\ runs'[runs'[r].parent].replacement = r
    BY DEF Links
  <2>1. runs[r].replacement \in RunIds \cup {NoRun} /\ runs[r].parent \in RunIds \cup {NoRun}
    BY RunsInvFacts DEF RunRows
  <2>2. /\ runs[r].replacement # NoRun =>
             /\ runs[runs[r].replacement].parent = r
             /\ runs[runs[r].replacement].version = runs[r].version
             /\ runs[r].lifecycle \in {"failed", "cancelled", "stale"}
        /\ runs[r].parent # NoRun =>
             runs[r].parent < r /\ runs[runs[r].parent].replacement = r
    BY DEF RunsInv, Links
  <2> QED BY <1>1, <1>3, <2>1, <2>2 DEF ActiveLifecycles
<1>5. Leaves' = Leaves
  BY <1>1, <1>3 DEF Leaves, RowMoves, ActiveLifecycles
<1>6. Leaf'
  <2>1. AiTurn' = AiTurn
    BY DEF RowMoves, AiTurn
  <2>2. \A r \in RunIds : runs'[r].lifecycle # "absent" => runs[r].lifecycle # "absent"
    BY <1>3 DEF ActiveLifecycles
  <2>3. \A r \in RunIds : runs[r].lifecycle = "failed" => runs'[r].lifecycle = "failed"
    BY <1>3 DEF ActiveLifecycles
  <2> QED BY <1>1, <1>5, <2>1, <2>2, <2>3 DEF RunsInv, Leaf, RowMoves
<1> QED BY <1>1, <1>2, <1>4, <1>6

\* What a busy lane can rely on.
LEMMA BusyLane ==
  ASSUME RunsInv, lane.pc # "idle"
  PROVE  /\ Current \in RunIds /\ LiveRow(runs[Current]) /\ Active(Current)
         /\ runs[Current] \in RunRows /\ RowInv(runs[Current])
         /\ session.agentRunState = "thinking" /\ session.activePlayerRunId = Current
         /\ OwnsDecision(Current) /\ ForCurrentTurn(Current) /\ AiTurn
         /\ process.phase = "serving" /\ AtStep(lane.pc, runs[Current])
         /\ runs[Current].fence = lane.fence
         /\ runs[Current].leaseOwner = process.incarnation
         /\ runs[Current].lifecycle \in {"leased", "running"}
         /\ HoldsLease(Current) <=> runs[Current].leaseLive
         /\ lane.pc # "claimed" =>
              /\ Authority(Current) <=> runs[Current].leaseLive
              /\ DecisionLock(Current) <=> runs[Current].leaseLive /\ ~runs[Current].overdue
         /\ Paid <=> \/ lane.pc = "reconcileStale" \/ runs[Current].overdue
                     \/ ~runs[Current].leaseLive \/ lane.aborted
<1>1. /\ Current \in RunIds /\ runs[Current] \in RunRows /\ RowInv(runs[Current])
  BY RunsInvFacts DEF Current
<1>2. /\ process.phase = "serving" /\ AtStep(lane.pc, runs[Current])
      /\ runs[Current].fence = lane.fence
      /\ runs[Current].leaseOwner = process.incarnation
  BY DEF RunsInv, LaneFacts, Current
<1>3. runs[Current].lifecycle \in {"leased", "running"} /\ Active(Current)
  BY <1>2 DEF AtStep, Active, ActiveLifecycles
<1>4. /\ session.agentRunState = "thinking" /\ session.activePlayerRunId = Current
      /\ AiTurn /\ ForCurrentTurn(Current)
  BY <1>1, <1>3 DEF RunsInv, TurnInv, Coordination, ThinkingForCurrentTurn
<1>5. LiveRow(runs[Current]) /\ OwnsDecision(Current)
  BY <1>1, <1>3, <1>4 DEF LiveRow, OwnsDecision, Active
<1>6. HoldsLease(Current) <=> runs[Current].leaseLive
  BY <1>2 DEF HoldsLease
<1>7. lane.pc # "claimed" =>
        /\ Authority(Current) <=> runs[Current].leaseLive
        /\ DecisionLock(Current) <=> runs[Current].leaseLive /\ ~runs[Current].overdue
  BY <1>2, <1>6 DEF AtStep, Authority, DecisionLock
<1>8. Renewing(Current) <=> ~lane.aborted
  BY <1>2 DEF Renewing, Current
<1>9. Paid <=> \/ lane.pc = "reconcileStale" \/ runs[Current].overdue
               \/ ~runs[Current].leaseLive \/ lane.aborted
  BY <1>2, <1>3, <1>4, <1>8 DEF Paid
<1> QED BY <1>1, <1>2, <1>3, <1>4, <1>5, <1>6, <1>7, <1>9

\* Where a step leaves the lane.
LaneAt(step) == /\ lane'.pc = step /\ lane'.run = lane.run
                /\ lane'.fence = lane.fence /\ lane'.aborted = lane.aborted

LEMMA LaneMoves ==
  ASSUME lane \in LaneStates
  PROVE  /\ Deferred => lane'.pc = "idle"
         /\ \A step : Goto(step) => LaneAt(step)
         /\ \A step : Settle(step) => \/ lane.aborted /\ lane'.pc = "idle"
                                      \/ ~lane.aborted /\ LaneAt(step)
         /\ lane' = [lane EXCEPT !.pc = "attempt", !.correction = @ + 1] => LaneAt("attempt")
         /\ lane' = [lane EXCEPT !.aborted = TRUE] =>
              /\ lane'.pc = lane.pc /\ lane'.run = lane.run
              /\ lane'.fence = lane.fence /\ lane'.aborted
<1>1. Deferred => lane'.pc = "idle"
  BY IdleLaneType DEF Deferred
<1>2. ASSUME NEW step, lane' = [lane EXCEPT !.pc = step] PROVE LaneAt(step)
  BY <1>2 DEF LaneAt, LaneStates
<1>3. ASSUME lane' = [lane EXCEPT !.pc = "attempt", !.correction = @ + 1]
      PROVE  LaneAt("attempt")
  BY <1>3 DEF LaneAt, LaneStates
<1>4. ASSUME lane' = [lane EXCEPT !.aborted = TRUE]
      PROVE  /\ lane'.pc = lane.pc /\ lane'.run = lane.run
             /\ lane'.fence = lane.fence /\ lane'.aborted
  BY <1>4 DEF LaneStates
<1> QED BY <1>1, <1>2, <1>3, <1>4, IdleLaneType DEF Goto, Settle

\* A step of the lane that keeps the lease of its run as it is: it goes on to
\* a step that fits the row, or lets go of a run whose turn has paid for it.
LEMMA LaneKeeps ==
  ASSUME RunsInv, lane.pc # "idle", RowMoves, SameLease(runs[Current], runs'[Current]),
         UNCHANGED <<process, incidents>>
  PROVE  /\ lane'.pc = "idle" /\ Paid => LaneFacts' /\ Budget'
         /\ \A step : /\ step # "idle" /\ LaneAt(step) /\ AtStep(step, runs'[Current])
                      /\ step = "reconcileStale" => Paid
                      => LaneFacts' /\ Budget'
<1>1. (Paid' => Paid) => Budget'
  BY RunsInvFacts DEF RunsInv, Budget, One, RowMoves
<1>2. ASSUME lane'.pc = "idle", Paid PROVE LaneFacts'
  BY <1>2 DEF LaneFacts
<1>3. ASSUME NEW step, step # "idle", LaneAt(step), AtStep(step, runs'[Current]),
             step = "reconcileStale" => Paid
      PROVE  LaneFacts' /\ (Paid' => Paid)
  <2>1. lane'.pc = step /\ lane'.run = Current /\ lane'.fence = lane.fence
        /\ lane'.aborted = lane.aborted
    BY <1>3 DEF LaneAt, Current
  <2>2. LaneFacts'
    BY <1>3, <2>1, BusyLane DEF LaneFacts, SameLease
  <2>3. ASSUME Paid' PROVE Paid
    <3>1. /\ session' = session /\ process' = process
          /\ session.activePlayerRunId = Current
      BY BusyLane DEF RowMoves
    <3> QED BY <1>3, <2>1, <2>3, <3>1, BusyLane DEF Paid, Renewing, SameLease
  <2> QED BY <2>2, <2>3
<1> QED BY <1>1, <1>2, <1>3

\* What a lane step preserves that leaves the lease of its run alone.
LaneKept == RowMoves /\ LaneFacts' /\ Budget'

LEMMA LaneRow ==
  ASSUME RunsInv, lane.pc # "idle", NEW y, runs' = [runs EXCEPT ![Current] = y],
         Continues(runs[Current], y), UNCHANGED <<session, runCount>>
  PROVE  RowMoves /\ runs'[Current] = y
<1>1. Current \in RunIds /\ y \in RunRows /\ runs'[Current] = y
  BY BusyLane, RunsInvFacts DEF Continues
<1> QED BY <1>1 DEF RowMoves

\* A step that reads the rows only.
LEMMA LaneReads ==
  ASSUME RunsInv, lane.pc # "idle", UNCHANGED <<session, runs, runCount, process, incidents>>
  PROVE  /\ Deferred /\ Paid => LaneKept
         /\ \A step : /\ Goto(step) \/ Settle(step)
                      /\ step # "idle" /\ AtStep(step, runs[Current])
                      /\ step = "reconcileStale" => Paid
                      => LaneKept
<1>1. RowMoves /\ SameLease(runs[Current], runs'[Current])
  BY DEF RowMoves, SameLease
<1>2. lane \in LaneStates
  BY RunsInvFacts
<1>3. lane.aborted => Paid
  BY BusyLane
<1> QED BY <1>1, <1>2, <1>3, LaneMoves, LaneKeeps DEF LaneKept

\* A run whose lease or deadline has passed has paid for its replacement.
LEMMA LostLock ==
  ASSUME RunsInv, lane.pc # "idle", lane.pc # "claimed", ~DecisionLock(Current)
  PROVE  Paid
BY BusyLane

LEMMA SettlementFits ==
  ASSUME RunsInv, lane.pc \notin {"idle", "claimed"}, NEW step \in SettlementSteps
  PROVE  step # "idle" /\ AtStep(step, runs[Current])
BY BusyLane DEF AtStep, SettlementSteps

LEMMA MarkRunningKeeps == ASSUME RunsInv, MarkRunning PROVE LaneKept
<1>1. /\ lane.pc = "claimed" /\ UNCHANGED <<session, runCount, process, incidents>>
      /\ lane \in LaneStates
  BY RunsInvFacts DEF MarkRunning
<1>2. runs[Current].lifecycle = "leased"
  BY <1>1, BusyLane DEF AtStep
<1>3. CASE HoldsLease(Current)
  <2> DEFINE y == [runs[Current] EXCEPT !.lifecycle = "running"]
  <2>1. runs' = [runs EXCEPT ![Current] = y] /\ Goto("resume")
    BY <1>2, <1>3 DEF MarkRunning
  <2>2. LiveRow(runs[Current])
    BY <1>1, BusyLane
  <2>3. /\ Continues(runs[Current], y) /\ SameLease(runs[Current], y)
        /\ y.lifecycle = "running"
    BY <2>2, RowStarts
  <2> HIDE DEF y
  <2>4. RowMoves /\ runs'[Current] = y
    BY <1>1, <2>1, <2>3, LaneRow
  <2>5. AtStep("resume", y) /\ LaneAt("resume")
    BY <1>1, <2>1, <2>3, LaneMoves DEF AtStep
  <2> QED BY <1>1, <2>3, <2>4, <2>5, LaneKeeps DEF LaneKept
<1>4. CASE ~HoldsLease(Current)
  BY <1>1, <1>4, BusyLane, LaneReads DEF MarkRunning
<1> QED BY <1>3, <1>4

LEMMA ReadForResumeKeeps == ASSUME RunsInv, ReadForResume PROVE LaneKept
<1>1. /\ lane.pc = "resume" /\ UNCHANGED <<session, runs, runCount, process, incidents>>
  BY DEF ReadForResume
<1>2. /\ LiveRow(runs[Current]) /\ RowInv(runs[Current])
      /\ runs[Current].lifecycle = "running" /\ runs[Current] \in RunRows
  BY <1>1, BusyLane DEF AtStep
<1>3. /\ DecisionReadable(Current) /\ runs[Current].outcome = "none"
      /\ runs[Current].decision # "committed"
      /\ runs[Current].decision = "selected" => AcceptedAttempt(Current)
  BY <1>2, LiveRowFacts DEF RowInv
<1>4. CASE ~DecisionLock(Current)
  BY <1>1, <1>4, LostLock, LaneReads DEF ReadForResume
<1>5. CASE DecisionLock(Current)
  <2> DEFINE step == ResumePoint(Current)
  <2>1. Settle(step) \/ Goto(step)
    BY <1>3, <1>5 DEF ReadForResume
  <2>2. step # "idle" /\ step # "reconcileStale" /\ AtStep(step, runs[Current])
    <3>1. runs[Current].decision \in {"none", "auditPrepared", "modelPrepared", "selected"}
      BY <1>2, <1>3 DEF RunRows
    <3>2. CASE InflightUnknown(Current)
      BY <1>2, <1>3, <3>2 DEF ResumePoint, AtStep
    <3>3. CASE ~InflightUnknown(Current)
      <4>1. CASE runs[Current].decision = "none"
        BY <1>2, <1>3, <3>3, <4>1 DEF ResumePoint, AtStep
      <4>2. CASE runs[Current].decision = "auditPrepared"
        BY <1>2, <1>3, <3>3, <4>2 DEF ResumePoint, AtStep
      <4>3. CASE runs[Current].decision = "modelPrepared"
        BY <1>2, <1>3, <3>3, <4>3 DEF ResumePoint, AtStep, InflightUnknown
      <4>4. CASE runs[Current].decision = "selected"
        BY <1>2, <1>3, <3>3, <4>4 DEF ResumePoint, AtStep
      <4> QED BY <3>1, <4>1, <4>2, <4>3, <4>4
    <3> QED BY <3>2, <3>3
  <2> HIDE DEF step
  <2> QED BY <1>1, <2>1, <2>2, LaneReads
<1> QED BY <1>4, <1>5

LEMMA PrepareAuditKeeps == ASSUME RunsInv, PrepareAudit PROVE LaneKept
<1>1. /\ lane.pc = "observe" /\ UNCHANGED <<session, runCount, process, incidents>>
      /\ lane \in LaneStates
  BY RunsInvFacts DEF PrepareAudit
<1>2. LiveRow(runs[Current]) /\ runs[Current].lifecycle = "running"
  BY <1>1, BusyLane DEF AtStep
<1>3. CASE CreateAuditPrepared(Current) /\ Goto("freeze")
  <2> DEFINE y == [runs[Current] EXCEPT !.decision = "auditPrepared"]
  <2>1. runs' = [runs EXCEPT ![Current] = y] /\ runs[Current].decision = "none"
    BY <1>3
  <2>2. Continues(runs[Current], y) /\ SameLease(runs[Current], y) /\ y.lifecycle = "running"
    BY <1>2, <2>1, RowDecides
  <2> HIDE DEF y
  <2>3. RowMoves /\ runs'[Current] = y
    BY <1>1, <2>1, <2>2, LaneRow
  <2>4. AtStep("freeze", y) /\ LaneAt("freeze")
    BY <1>1, <1>3, <2>2, LaneMoves DEF AtStep
  <2> QED BY <1>1, <2>2, <2>3, <2>4, LaneKeeps DEF LaneKept
<1>4. CASE UNCHANGED runs /\ \/ Settle("pauseAfterFailure")
                             \/ /\ ~DecisionLock(Current)
                                /\ Deferred \/ \E step \in SettlementSteps : Settle(step)
  <2>1. AtStep("pauseAfterFailure", runs[Current]) /\ AtStep("reconcileStale", runs[Current])
    BY <1>2 DEF AtStep
  <2>2. ~DecisionLock(Current) => Paid
    BY <1>1, LostLock
  <2> QED BY <1>1, <1>4, <2>1, <2>2, LaneReads DEF SettlementSteps
<1> QED BY <1>3, <1>4 DEF PrepareAudit

LEMMA FreezeModelInputKeeps == ASSUME RunsInv, FreezeModelInput PROVE LaneKept
<1>1. /\ lane.pc = "freeze" /\ UNCHANGED <<session, runCount, process, incidents>>
      /\ lane \in LaneStates
  BY RunsInvFacts DEF FreezeModelInput
<1>2. LiveRow(runs[Current]) /\ runs[Current].lifecycle = "running"
  BY <1>1, BusyLane DEF AtStep
<1>3. CASE MarkModelPrepared(Current) /\ Goto("attempt")
  <2> DEFINE y == [runs[Current] EXCEPT !.decision = "modelPrepared"]
  <2>1. runs' = [runs EXCEPT ![Current] = y] /\ runs[Current].decision = "auditPrepared"
    BY <1>3
  <2>2. /\ Continues(runs[Current], y) /\ SameLease(runs[Current], y)
        /\ y.lifecycle = "running" /\ y.decision = "modelPrepared" /\ ~y.lost
    BY <1>2, <2>1, RowDecides
  <2> HIDE DEF y
  <2>3. RowMoves /\ runs'[Current] = y
    BY <1>1, <2>1, <2>2, LaneRow
  <2>4. AtStep("attempt", y) /\ LaneAt("attempt")
    BY <1>1, <1>3, <2>2, LaneMoves DEF AtStep
  <2> QED BY <1>1, <2>2, <2>3, <2>4, LaneKeeps DEF LaneKept
<1>4. CASE Settle("pauseAfterFailure") /\ UNCHANGED runs
  <2>1. AtStep("pauseAfterFailure", runs[Current])
    BY <1>2 DEF AtStep
  <2> QED BY <1>1, <1>4, <2>1, LaneReads
<1> QED BY <1>3, <1>4 DEF FreezeModelInput

LEMMA StartAttemptKeeps == ASSUME RunsInv, StartAttempt PROVE LaneKept
<1>1. /\ lane.pc = "attempt" /\ UNCHANGED <<session, runCount, process, incidents>>
      /\ lane \in LaneStates
  BY RunsInvFacts DEF StartAttempt
<1>2. /\ LiveRow(runs[Current]) /\ runs[Current].lifecycle = "running"
      /\ runs[Current].decision = "modelPrepared" /\ ~runs[Current].lost
  BY <1>1, BusyLane DEF AtStep
<1>3. CASE UNCHANGED runs /\ \/ Settle("pauseAfterFailure")
                             \/ lane.aborted /\ Deferred
                             \/ ~Authority(Current) /\ Settle("reconcileStale")
  <2>1. AtStep("pauseAfterFailure", runs[Current]) /\ AtStep("reconcileStale", runs[Current])
    BY <1>2 DEF AtStep
  <2>2. lane.aborted \/ ~Authority(Current) => Paid
    BY <1>1, BusyLane
  <2> QED BY <1>1, <1>3, <2>1, <2>2, LaneReads
<1>4. CASE runs' = [runs EXCEPT ![Current] = AttemptStarted(runs[Current])] /\ Goto("provider")
  <2> DEFINE y == AttemptStarted(runs[Current])
  <2>1. runs' = [runs EXCEPT ![Current] = y]
    BY <1>4
  <2>2. /\ Continues(runs[Current], y) /\ SameLease(runs[Current], y)
        /\ y.lifecycle = "running" /\ y.decision = "modelPrepared" /\ ~y.lost
        /\ y.attempts > 0
    BY <1>2, RowAttempts
  <2> HIDE DEF y
  <2>3. RowMoves /\ runs'[Current] = y
    BY <1>1, <2>1, <2>2, LaneRow
  <2>4. AtStep("provider", y) /\ LaneAt("provider")
    BY <1>1, <1>4, <2>2, LaneMoves DEF AtStep
  <2> QED BY <1>1, <2>2, <2>3, <2>4, LaneKeeps DEF LaneKept
<1> QED BY <1>3, <1>4 DEF StartAttempt

LEMMA AnswersKeep ==
  ASSUME RunsInv, AcceptReply \/ RejectReply \/ FailAttempt
  PROVE  LaneKept
<1>1. /\ lane.pc = "provider" /\ UNCHANGED <<session, runCount, process, incidents>>
      /\ lane \in LaneStates
  BY RunsInvFacts DEF AcceptReply, RejectReply, FailAttempt
<1>2. /\ LiveRow(runs[Current]) /\ runs[Current].lifecycle = "running"
      /\ runs[Current].decision = "modelPrepared" /\ ~runs[Current].lost
      /\ runs[Current].attempts > 0
  BY <1>1, BusyLane DEF AtStep
<1>3. lane.aborted => Paid
  BY <1>1, BusyLane
<1>4. CASE AcceptReply
  <2> DEFINE y == [AttemptClosed(runs[Current]) EXCEPT !.decision = "selected"]
  <2>1. runs' = [runs EXCEPT ![Current] = y]
    BY <1>4 DEF AcceptReply
  <2>2. /\ Continues(runs[Current], y) /\ SameLease(runs[Current], y)
        /\ y.lifecycle = "running" /\ y.decision = "selected"
    BY <1>2, RowSelects
  <2> HIDE DEF y
  <2>3. RowMoves /\ runs'[Current] = y
    BY <1>1, <2>1, <2>2, LaneRow
  <2>4. AtStep("publish", y) /\ AtStep("pauseAfterFailure", y)
    BY <2>2 DEF AtStep
  <2>5. LaneAt("publish") \/ LaneAt("pauseAfterFailure") \/ (lane'.pc = "idle" /\ Paid)
    BY <1>1, <1>3, <1>4, LaneMoves DEF AcceptReply
  <2> QED BY <1>1, <2>2, <2>3, <2>4, <2>5, LaneKeeps DEF LaneKept
<1>5. CASE RejectReply \/ FailAttempt
  <2> DEFINE y == AttemptClosed(runs[Current])
  <2>1. runs' = [runs EXCEPT ![Current] = y]
    BY <1>5 DEF RejectReply, FailAttempt, CloseAttempt
  <2>2. /\ Continues(runs[Current], y) /\ SameLease(runs[Current], y)
        /\ y.lifecycle = "running" /\ y.decision = "modelPrepared" /\ ~y.lost
    BY <1>2, RowCloses DEF SameWork
  <2> HIDE DEF y
  <2>3. RowMoves /\ runs'[Current] = y
    BY <1>1, <2>1, <2>2, LaneRow
  <2>4. AtStep("attempt", y) /\ AtStep("pauseAfterFailure", y)
    BY <2>2 DEF AtStep
  <2>5. LaneAt("attempt") \/ LaneAt("pauseAfterFailure") \/ (lane'.pc = "idle" /\ Paid)
    BY <1>1, <1>3, <1>5, LaneMoves DEF RejectReply, FailAttempt
  <2> QED BY <1>1, <2>2, <2>3, <2>4, <2>5, LaneKeeps DEF LaneKept
<1> QED BY <1>4, <1>5

LEMMA LostAuthorityKeeps ==
  ASSUME RunsInv, FinishWithoutAuthority \/ CommitRefused
  PROVE  LaneKept
<1>1. /\ lane.pc \in {"provider", "publish"}
      /\ UNCHANGED <<session, runs, runCount, process, incidents>>
      /\ \E step \in SettlementSteps : Settle(step)
  BY DEF FinishWithoutAuthority, CommitRefused, SettlementSteps
<1>2. AtStep("pauseAfterFailure", runs[Current]) /\ AtStep("reconcileStale", runs[Current])
  BY <1>1, BusyLane DEF AtStep
<1>3. ~DecisionLock(Current)
  <2>1. CASE FinishWithoutAuthority
    BY <2>1 DEF FinishWithoutAuthority
  <2>2. CASE CommitRefused
    <3> SUFFICES ASSUME DecisionLock(Current)
                 PROVE  ReadSelectedReceipt(Current) /\ GateAdmits(Current)
      BY <2>2 DEF CommitRefused
    <3>1. lane.pc = "publish"
      BY <2>2 DEF CommitRefused
    <3>2. /\ runs[Current].decision = "selected" /\ RowInv(runs[Current])
          /\ runs[Current].outcome = "none" /\ ForCurrentTurn(Current) /\ OwnsDecision(Current)
      BY <3>1, BusyLane, LiveRowFacts DEF AtStep
    <3> QED BY <3>2 DEF RowInv, DecisionLock, Authority
  <2> QED BY <2>1, <2>2
<1>4. Paid
  BY <1>1, <1>3, LostLock
<1> QED BY <1>1, <1>2, <1>4, LaneReads DEF SettlementSteps

\* The heartbeat aborts only an execution whose lease is gone.
LEMMA HeartbeatRejectedKeeps == ASSUME RunsInv, HeartbeatRejected PROVE LaneKept
<1>1. /\ lane.pc \notin {"idle", "claimed"} /\ lane' = [lane EXCEPT !.aborted = TRUE]
      /\ UNCHANGED <<session, runs, runCount, process, incidents>> /\ lane \in LaneStates
  BY RunsInvFacts DEF HeartbeatRejected
<1>2. Paid
  BY <1>1, BusyLane DEF HeartbeatRejected
<1>3. /\ lane'.pc = lane.pc /\ lane'.run = lane.run /\ lane'.fence = lane.fence
  BY <1>1, LaneMoves
<1>4. LaneFacts'
  BY <1>1, <1>3 DEF RunsInv, LaneFacts
<1>5. Budget'
  BY <1>1, <1>2, RunsInvFacts DEF RunsInv, Budget, One
<1> QED BY <1>1, <1>4, <1>5 DEF LaneKept, RowMoves

\* An incident pays for whatever it does to the turn.
LEMMA IncidentPays ==
  ASSUME RunsInv, RowMoves
  PROVE  /\ incidents' = incidents + 1 => Budget'
         /\ UNCHANGED incidents /\ (Paid' => Paid) => Budget'
BY RunsInvFacts DEF RunsInv, Budget, One, RowMoves

\* Claiming a run takes its lease over and makes its lane the holder.
LEMMA ClaimNextKeeps == ASSUME RunsInv, ClaimNext PROVE LaneKept
<1> PICK r \in Claimable :
      /\ runs' = [runs EXCEPT ![r] = Claimed(runs[r])]
      /\ lane' = [IdleLane EXCEPT !.pc = "claimed", !.run = r, !.fence = runs[r].fence + 1]
  BY DEF ClaimNext
<1>1. /\ r \in RunIds /\ Active(r) /\ runs[r].lifecycle \in ActiveLifecycles
      /\ UNCHANGED <<session, runCount, process, incidents>> /\ process.phase = "serving"
      /\ process \in ProcessStates
  BY RunsInvFacts DEF Claimable, Active, ActiveLifecycles, ClaimNext, Serving
<1> DEFINE y == Claimed(runs[r])
<1>2. LiveRow(runs[r])
  BY <1>1, RunsInvFacts
<1>3. /\ Continues(runs[r], y) /\ y.lifecycle = "leased" /\ y.leaseLive
      /\ y.leaseOwner = process.incarnation /\ y.fence = runs[r].fence + 1
      /\ y.overdue = runs[r].overdue
  BY <1>1, <1>2, RowClaimed
<1>4. runs' = [runs EXCEPT ![r] = y]
  OBVIOUS
<1> HIDE DEF y
<1>5. RowMoves /\ runs'[r] = y
  BY <1>1, <1>3, <1>4, RunsInvFacts DEF RowMoves, Continues
<1>6. /\ lane'.pc = "claimed" /\ lane'.run = r /\ lane'.fence = runs[r].fence + 1
      /\ lane'.aborted = FALSE
  BY DEF IdleLane
<1>7. LaneFacts'
  BY <1>1, <1>3, <1>5, <1>6 DEF LaneFacts, AtStep
<1>8. Paid' => Paid
  <2>1. session.activePlayerRunId = r
    BY <1>1 DEF RunsInv, TurnInv, Coordination
  <2> QED BY <1>1, <1>3, <1>5, <1>6, <2>1 DEF Paid, Renewing
<1> QED BY <1>1, <1>5, <1>7, <1>8, IncidentPays DEF LaneKept

\* Time passes for a run: its lease lapses or its deadline goes by.
LEMMA TimeKeeps ==
  ASSUME RunsInv, LeaseLapses \/ LeaseStalls \/ DeadlinePasses
  PROVE  LaneKept
<1>1. ASSUME NEW r \in RunIds, Active(r), NEW y, runs' = [runs EXCEPT ![r] = y],
             UNCHANGED <<session, runCount, lane, process>>,
             Continues(runs[r], y), SameWork(runs[r], y), y.lifecycle = runs[r].lifecycle,
             y.fence = runs[r].fence, y.leaseOwner = runs[r].leaseOwner
      PROVE  RowMoves /\ LaneFacts' /\ runs'[r] = y
  <2>1. RowMoves /\ runs'[r] = y /\ \A q \in RunIds : q # r => runs'[q] = runs[q]
    BY <1>1, RunsInvFacts DEF RowMoves, Continues
  <2>2. LaneFacts'
    <3>1. AtStep(lane.pc, runs[r]) => AtStep(lane.pc, y)
      BY <1>1 DEF AtStep, SameWork
    <3>2. lane.pc # "idle" => lane.run \in RunIds
      BY RunsInvFacts
    <3> QED BY <1>1, <2>1, <3>1, <3>2 DEF RunsInv, LaneFacts
  <2> QED BY <2>1, <2>2
<1>2. ASSUME NEW r \in RunIds, ExpireLease(r)
      PROVE  /\ RowMoves /\ LaneFacts' /\ runs'[r].overdue = runs[r].overdue
             /\ Active(r) /\ \A q \in RunIds : q # r => runs'[q] = runs[q]
  <2> DEFINE y == [runs[r] EXCEPT !.leaseLive = FALSE]
  <2>1. /\ runs' = [runs EXCEPT ![r] = y] /\ Active(r)
        /\ UNCHANGED <<session, runCount, lane, process>>
    BY <1>2 DEF ExpireLease, Active, ActiveLifecycles
  <2>2. LiveRow(runs[r])
    BY <2>1, RunsInvFacts
  <2>3. /\ Continues(runs[r], y) /\ SameWork(runs[r], y) /\ y.lifecycle = runs[r].lifecycle
        /\ y.fence = runs[r].fence /\ y.leaseOwner = runs[r].leaseOwner
        /\ y.overdue = runs[r].overdue
    BY <2>2, RowLapses
  <2> HIDE DEF y
  <2>4. RowMoves /\ LaneFacts' /\ runs'[r] = y
    BY <1>1, <2>1, <2>3
  <2> QED BY <2>1, <2>3, <2>4, RunsInvFacts
<1>3. CASE LeaseLapses
  <2> PICK r \in RunIds : ~Renewing(r) /\ ExpireLease(r) /\ UNCHANGED incidents
    BY <1>3 DEF LeaseLapses, NoIncident
  <2>1. /\ runs[r].lifecycle \in {"leased", "running"}
        /\ UNCHANGED <<session, runCount, lane, process>>
    BY DEF ExpireLease
  <2>2. /\ RowMoves /\ LaneFacts' /\ Active(r)
    BY <1>2
  <2>3. session.activePlayerRunId = r /\ session.agentRunState = "thinking"
    BY <2>2 DEF RunsInv, TurnInv, Coordination
  <2>4. Paid
    BY <2>1, <2>3 DEF Paid
  <2> QED BY <2>2, <2>4, IncidentPays DEF LaneKept
<1>4. CASE LeaseStalls
  BY <1>2, <1>4, IncidentPays DEF LeaseStalls, Incident, LaneKept
<1>5. CASE DeadlinePasses
  <2> PICK r \in RunIds : /\ Active(r) /\ runs' = [runs EXCEPT ![r].overdue = TRUE]
                          /\ Incident /\ UNCHANGED <<session, runCount, lane, process>>
    BY <1>5 DEF DeadlinePasses
  <2> DEFINE y == [runs[r] EXCEPT !.overdue = TRUE]
  <2>1. runs' = [runs EXCEPT ![r] = y]
    OBVIOUS
  <2>2. LiveRow(runs[r])
    BY RunsInvFacts
  <2>3. /\ Continues(runs[r], y) /\ SameWork(runs[r], y) /\ y.lifecycle = runs[r].lifecycle
        /\ y.fence = runs[r].fence /\ y.leaseOwner = runs[r].leaseOwner
    BY <2>2, RowExpires
  <2> HIDE DEF y
  <2> QED BY <1>1, <2>1, <2>3, IncidentPays DEF Incident, LaneKept
<1> QED BY <1>3, <1>4, <1>5

LEMMA FaultsKeep ==
  ASSUME RunsInv, HeartbeatFails \/ DatabaseFails \/ Crash
  PROVE  LaneKept
<1>1. /\ UNCHANGED <<session, runs, runCount>> /\ incidents' = incidents + 1
      /\ RowMoves /\ lane \in LaneStates
  BY RunsInvFacts DEF HeartbeatFails, DatabaseFails, Crash, Incident, RowMoves
<1>2. Budget'
  BY <1>1, IncidentPays
<1>3. CASE HeartbeatFails
  <2>1. lane'.pc = lane.pc /\ lane'.run = lane.run /\ lane'.fence = lane.fence
    BY <1>1, <1>3, LaneMoves DEF HeartbeatFails
  <2> QED BY <1>1, <1>2, <1>3, <2>1 DEF HeartbeatFails, RunsInv, LaneFacts, LaneKept
<1>4. CASE DatabaseFails
  <2>1. process' = process
    BY <1>4 DEF DatabaseFails
  <2>2. CASE lane'.pc = "idle"
    BY <1>1, <1>2, <2>2 DEF LaneFacts, LaneKept
  <2>3. CASE lane.pc = "freeze" /\ LaneAt("pauseAfterFailure")
    <3>1. AtStep("pauseAfterFailure", runs[Current])
      BY <2>3, BusyLane DEF AtStep
    <3> QED BY <1>1, <1>2, <2>1, <2>3, <3>1 DEF LaneAt, Current, RunsInv, LaneFacts, LaneKept
  <2> QED BY <1>1, <1>4, <2>2, <2>3, LaneMoves DEF DatabaseFails
<1>5. CASE Crash
  BY <1>1, <1>2, <1>5, IdleLaneType DEF Crash, LaneFacts, LaneKept
<1> QED BY <1>3, <1>4, <1>5

LEMMA RestartKeeps == ASSUME RunsInv, Restart PROVE LaneKept
<1>1. /\ UNCHANGED <<session, runs, runCount, lane, incidents>> /\ lane.pc = "idle"
      /\ process.phase = "down" /\ process'.phase = "recovering"
  BY DEF Restart, RunsInv, LaneFacts
<1>2. Paid /\ RowMoves /\ LaneFacts'
  BY <1>1 DEF Paid, RowMoves, LaneFacts
<1> QED BY <1>1, <1>2, IncidentPays DEF LaneKept

\* Every step that leaves the turn, its runs and their chains as they are.
LEMMA LaneStepsKeep ==
  ASSUME RunsInv,
         \/ ClaimNext \/ MarkRunning \/ ReadForResume \/ PrepareAudit \/ FreezeModelInput
         \/ StartAttempt \/ AcceptReply \/ RejectReply \/ FailAttempt
         \/ FinishWithoutAuthority \/ CommitRefused \/ HeartbeatRejected \/ LeaseLapses
         \/ Faults \/ Restart \/ UNCHANGED vars
  PROVE  LaneKept
<1>1. CASE UNCHANGED vars
  BY <1>1 DEF vars, LaneKept, RowMoves, RunsInv, LaneFacts, Budget, Paid, Renewing
<1> QED BY <1>1, ClaimNextKeeps, MarkRunningKeeps, ReadForResumeKeeps, PrepareAuditKeeps,
           FreezeModelInputKeeps, StartAttemptKeeps, AnswersKeep, LostAuthorityKeeps,
           HeartbeatRejectedKeeps, TimeKeeps, FaultsKeep, RestartKeeps DEF Faults

\* The parts of the invariant that PlayerTurn_proof does not carry.
PartsInv == RowsInv /\ Links /\ Leaf /\ LaneFacts /\ Budget

\* Without a thinking turn the lane is idle.
LEMMA IdleUnlessThinking ==
  ASSUME RunsInv
  PROVE  session.agentRunState # "thinking" => lane.pc = "idle"
BY BusyLane

\* The open turn is left behind, or the session ends between two hands.
LEMMA MovesKeep ==
  ASSUME RunsInv, \/ UserAction \/ StartNextHand \/ Rebuy \/ EndSession \/ EndPausedSession
  PROVE  PartsInv'
<1>1. /\ UNCHANGED <<runs, runCount, lane, process, incidents>>
      /\ session.agentRunState # "thinking" /\ session'.agentRunState = "idle"
      /\ \/ session'.stateVersion = session.stateVersion + 1
         \/ /\ session'.stateVersion = session.stateVersion
            /\ session.agentRunState = "idle"
  <2>1. session \in SessionRows
    BY RunsInvFacts
  <2> QED BY <2>1 DEF UserAction, StartNextHand, Rebuy, EndSession, EndPausedSession, Quiet,
                      AdvanceTo, SessionRows
<1>2. RowsInv' /\ Links' /\ LaneFacts'
  BY <1>1 DEF RunsInv, RowsInv, Links, LaneFacts
<1>3. Leaf'
  <2>1. \A r \in RunIds : runs'[r].lifecycle # "absent" =>
          /\ runs[r].version <= session.stateVersion
          /\ runs'[r].version = runs[r].version /\ runs[r].version \in Nat
    BY <1>1, RunsInvFacts DEF RunsInv, Leaf
  <2>2. session.stateVersion \in Nat
    BY RunsInvFacts
  <2>3. CASE session'.stateVersion = session.stateVersion + 1
    <3>1. \A r \in RunIds : runs'[r].lifecycle # "absent" =>
            runs'[r].version # session'.stateVersion
      BY <2>1, <2>2, <2>3
    <3>2. Leaves' = {}
      BY <3>1 DEF Leaves
    <3> QED BY <1>1, <2>1, <2>2, <2>3, <3>2 DEF Leaf
  <2>4. CASE session'.stateVersion = session.stateVersion /\ session.agentRunState = "idle"
    <3>1. Leaves' = {}
      BY <1>1, <2>4 DEF Leaves, RunsInv, Leaf
    <3> QED BY <1>1, <2>1, <2>4, <3>1 DEF Leaf
  <2> QED BY <1>1, <2>3, <2>4
<1>4. Budget'
  <2>1. Paid' => Paid
    BY <1>1 DEF Paid
  <2>2. One(session'.agentRunState # "idle") = 0 /\ One(session.agentRunState # "idle") \in {0, 1}
        /\ (session.agentRunState = "idle" => One(session.agentRunState # "idle") = 0)
    BY <1>1 DEF One
  <2> QED BY <1>1, <2>1, <2>2, RunsInvFacts DEF RunsInv, Budget, One
<1> QED BY <1>2, <1>3, <1>4 DEF PartsInv

\* The lane or the recovery gives the turn up.
LEMMA PauseTurnKeeps ==
  ASSUME RunsInv, NEW r \in RunIds, Active(r), AiTurn, ForCurrentTurn(r), PauseTurn(r),
         lane'.pc = "idle", process'.phase \notin {"down", "recovering"},
         UNCHANGED incidents
  PROVE  PartsInv'
<1> DEFINE y == Terminated(runs[r], "failed", "failed")
<1>1. /\ LiveRow(runs[r]) /\ runs \in [RunIds -> RunRows] /\ session \in SessionRows
  BY RunsInvFacts
<1>2. /\ y \in RunRows /\ RowInv(y) /\ y.lifecycle = "failed"
      /\ y.version = runs[r].version /\ y.participant = runs[r].participant
      /\ y.parent = runs[r].parent /\ y.replacement = runs[r].replacement
  BY <1>1, RowSettles
<1>3. runs' = [runs EXCEPT ![r] = y] /\ runCount' = runCount
  BY DEF PauseTurn
<1> HIDE DEF y
<1>4. runs'[r] = y /\ \A q \in RunIds : q # r => runs'[q] = runs[q]
  BY <1>1, <1>3
<1>5. /\ session'.agentRunState = "paused" /\ session'.stateVersion = session.stateVersion
      /\ session'.actor = session.actor
      /\ session'.lifecycleStatus = session.lifecycleStatus
  BY <1>1 DEF PauseTurn, SessionRows
<1>6. /\ session.agentRunState = "thinking" /\ session.activePlayerRunId = r
      /\ runs[r].lifecycle \in ActiveLifecycles
  BY DEF RunsInv, TurnInv, Coordination, Active
<1>7. RowsInv'
  BY <1>2, <1>4 DEF RunsInv, RowsInv
<1>8. Links'
  <2>1. \A q \in RunIds : /\ runs'[q].version = runs[q].version
                          /\ runs'[q].parent = runs[q].parent
                          /\ runs'[q].replacement = runs[q].replacement
                          /\ runs[q].lifecycle \in {"failed", "cancelled", "stale"} =>
                               runs'[q].lifecycle \in {"failed", "cancelled", "stale"}
    BY <1>2, <1>4, <1>6 DEF ActiveLifecycles
  <2>2. \A q \in RunIds : /\ runs[q].replacement \in RunIds \cup {NoRun}
                          /\ runs[q].parent \in RunIds \cup {NoRun}
    BY RunsInvFacts DEF RunRows
  <2> QED BY <2>1, <2>2 DEF RunsInv, Links
<1>9. Leaf'
  <2>1. \A q \in RunIds : /\ runs'[q].version = runs[q].version
                          /\ runs'[q].replacement = runs[q].replacement
                          /\ runs'[q].lifecycle = "absent" <=> runs[q].lifecycle = "absent"
    BY <1>2, <1>4, <1>6 DEF ActiveLifecycles
  <2>2. Leaves' = Leaves /\ Leaves = {r}
    BY <1>5, <1>6, <2>1 DEF Leaves, RunsInv, Leaf
  <2>3. AiTurn' /\ runs'[r].participant = session'.actor
    BY <1>2, <1>4, <1>5 DEF AiTurn, ForCurrentTurn
  <2> QED BY <1>2, <1>4, <1>5, <2>1, <2>2, <2>3 DEF RunsInv, Leaf
<1>10. LaneFacts'
  BY DEF LaneFacts
<1>11. Budget'
  <2>1. ~Paid'
    BY <1>5 DEF Paid
  <2> QED BY <1>3, <1>5, <1>6, <2>1, RunsInvFacts DEF RunsInv, Budget, One
<1> QED BY <1>7, <1>8, <1>9, <1>10, <1>11 DEF PartsInv

\* A settled run gets its successor, and the turn waits for that one.
LEMMA ReplaceRunKeeps ==
  ASSUME RunsInv, NEW r \in RunIds, Leaves = {r}, AiTurn, session.agentRunState # "idle",
         NEW terminal \in RunRows, RowInv(terminal),
         terminal.lifecycle \in {"failed", "cancelled", "stale"},
         terminal.version = runs[r].version, terminal.parent = runs[r].parent,
         ReplaceRun(r, terminal), lane'.pc = "idle",
         process'.phase \notin {"down", "recovering"},
         \/ Paid /\ UNCHANGED incidents
         \/ incidents' = incidents + 1
  PROVE  PartsInv'
<1> DEFINE new == runCount + 1
           x   == [terminal EXCEPT !.replacement = new]
           y   == QueuedRun(runs[r].version, runs[r].participant, runs[r].config, r)
<1>1. /\ runs[r] \in RunRows /\ runs \in [RunIds -> RunRows] /\ session \in SessionRows
      /\ runCount \in Nat /\ RowInv(runs[r])
  BY RunsInvFacts
<1>2. /\ runs[r].lifecycle # "absent" /\ runs[r].version = session.stateVersion
      /\ runs[r].replacement = NoRun
  BY DEF Leaves
<1>3. new \in RunIds /\ new # r /\ runs[new].lifecycle = "absent" /\ r < new
  <2>1. \A q \in RunIds : runs[q].lifecycle = "absent" <=> q > runCount
    BY RunsInvFacts
  <2>2. new \in RunIds
    BY <1>1, PlayerTurnAssumption DEF ReplaceRun, RunIds
  <2> QED BY <1>1, <1>2, <2>1, <2>2, PlayerTurnAssumption DEF RunIds
<1>4. /\ x \in RunRows /\ RowInv(x) /\ x.lifecycle = terminal.lifecycle
      /\ x.version = runs[r].version /\ x.parent = runs[r].parent /\ x.replacement = new
  BY <1>3, RowLinked
<1>5. /\ y \in RunRows /\ RowInv(y) /\ y.lifecycle = "queued"
      /\ y.version = runs[r].version /\ y.parent = r /\ y.replacement = NoRun /\ ~y.overdue
  <2>1. /\ runs[r].version \in Nat /\ runs[r].participant \in Actors \cup {NoActor}
        /\ runs[r].config \in Configs
    BY <1>1 DEF RunRows
  <2> QED BY <2>1, RowQueued
<1>6. runs' = [runs EXCEPT ![r] = x, ![new] = y] /\ runCount' = new
  BY DEF ReplaceRun
<1>7. /\ session'.agentRunState = "thinking" /\ session'.activePlayerRunId = new
      /\ session'.stateVersion = session.stateVersion
  BY <1>1 DEF ReplaceRun, SessionRows
<1> HIDE DEF x, y
<1>8. /\ runs'[r] = x /\ runs'[new] = y
      /\ \A q \in RunIds : q # r /\ q # new => runs'[q] = runs[q]
  BY <1>1, <1>3, <1>6
<1>9. new \in Nat
  BY <1>1
<1>10. Budget'
  <2>1. ~Paid'
    BY <1>5, <1>7, <1>8 DEF Paid
  <2>2. One(Paid') = 0 /\ One(session'.agentRunState # "idle") = 1
        /\ One(session.agentRunState # "idle") = 1
        /\ (Paid => One(Paid) = 1) /\ One(Paid) \in {0, 1}
    BY <1>7, <2>1 DEF One
  <2>3. /\ runCount' = runCount + 1
        /\ runCount + One(Paid) <= session.stateVersion + One(session.agentRunState # "idle")
                                     + incidents
        /\ session.stateVersion \in Nat /\ incidents \in Nat
    BY <1>6, RunsInvFacts DEF RunsInv, Budget
  <2> HIDE DEF new
  <2> QED BY <1>1, <1>7, <2>2, <2>3 DEF Budget
<1> HIDE DEF new
<1>11. RowsInv'
  BY <1>4, <1>5, <1>8 DEF RunsInv, RowsInv
<1>12. \A q \in RunIds : /\ runs[q].parent # new /\ runs[q].replacement # new
                         /\ runs[q].parent # NoRun => runs[q].parent # r
  <2> SUFFICES ASSUME NEW q \in RunIds
               PROVE  /\ runs[q].parent # new /\ runs[q].replacement # new
                      /\ runs[q].parent # NoRun => runs[q].parent # r
    OBVIOUS
  <2>1. runs[new].parent = NoRun /\ runs[new].replacement = NoRun /\ q # NoRun /\ new # NoRun
    BY <1>3, RunsInvFacts, PlayerTurnAssumption DEF RowInv, RunIds, NoRun
  <2>2. /\ runs[q].replacement # NoRun => runs[runs[q].replacement].parent = q
        /\ runs[q].parent # NoRun => runs[runs[q].parent].replacement = q
    BY DEF RunsInv, Links
  <2> QED BY <1>2, <2>1, <2>2
<1>13. Links'
  <2> SUFFICES ASSUME NEW q \in RunIds
               PROVE  /\ runs'[q].replacement # NoRun =>
                           /\ runs'[runs'[q].replacement].parent = q
                           /\ runs'[runs'[q].replacement].version = runs'[q].version
                           /\ runs'[q].lifecycle \in {"failed", "cancelled", "stale"}
                      /\ runs'[q].parent # NoRun =>
                           /\ runs'[q].parent < q
                           /\ runs'[runs'[q].parent].replacement = q
    BY DEF Links
  <2>1. /\ runs[q].replacement \in RunIds \cup {NoRun} /\ runs[q].parent \in RunIds \cup {NoRun}
        /\ runs[r].parent \in RunIds \cup {NoRun}
    BY RunsInvFacts DEF RunRows
  <2>2. \A p \in {q, r} :
        /\ runs[p].replacement # NoRun =>
             /\ runs[runs[p].replacement].parent = p
             /\ runs[runs[p].replacement].version = runs[p].version
             /\ runs[p].lifecycle \in {"failed", "cancelled", "stale"}
        /\ runs[p].parent # NoRun =>
             runs[p].parent < p /\ runs[runs[p].parent].replacement = p
    BY DEF RunsInv, Links
  <2>3. CASE q = new
    BY <1>3, <1>4, <1>5, <1>8, <2>3
  <2>4. CASE q = r
    <3>1. runs[r].parent # NoRun => runs[r].parent # r /\ runs[r].parent # new
      BY <1>12
    <3> QED BY <1>3, <1>4, <1>5, <1>8, <2>1, <2>2, <2>4, <3>1
  <2>5. CASE q # r /\ q # new
    <3>1. /\ runs'[q] = runs[q] /\ runs[q].parent # new /\ runs[q].replacement # new
          /\ runs[q].parent # NoRun => runs[q].parent # r
      BY <1>8, <1>12, <2>5
    <3>2. CASE runs[q].replacement = r
      <4>1. runs'[r].parent = q /\ runs'[r].version = runs[q].version
            /\ runs[q].lifecycle \in {"failed", "cancelled", "stale"}
        <5>1. r # NoRun
          BY PlayerTurnAssumption DEF RunIds, NoRun
        <5> QED BY <1>4, <1>8, <2>2, <3>2, <5>1
      <4> QED BY <1>8, <2>1, <2>2, <3>1, <3>2, <4>1
    <3>3. CASE runs[q].replacement # r
      BY <1>8, <2>1, <2>2, <3>1, <3>3
    <3> QED BY <3>2, <3>3
  <2> QED BY <2>3, <2>4, <2>5
<1>14. Leaf'
  <2>1. \A q \in RunIds : runs'[q].lifecycle # "absent" =>
          runs'[q].version <= session'.stateVersion
    BY <1>2, <1>4, <1>5, <1>7, <1>8, RunsInvFacts DEF RunsInv, Leaf
  <2>2. ASSUME NEW q \in RunIds
        PROVE  q \in Leaves' <=> q = new
    <3>1. q \in Leaves' <=> /\ runs'[q].lifecycle # "absent"
                            /\ runs'[q].version = session'.stateVersion
                            /\ runs'[q].replacement = NoRun
      BY DEF Leaves
    <3>2. q \in Leaves <=> /\ runs[q].lifecycle # "absent"
                           /\ runs[q].version = session.stateVersion
                           /\ runs[q].replacement = NoRun
      BY DEF Leaves
    <3>3. new # NoRun
      BY <1>3, PlayerTurnAssumption DEF RunIds, NoRun
    <3> QED BY <1>2, <1>3, <1>4, <1>5, <1>7, <1>8, <3>1, <3>2, <3>3
  <2>3. Leaves' = {new}
    BY <1>3, <2>2 DEF Leaves
  <2> QED BY <1>7, <2>1, <2>3 DEF Leaf
<1>15. LaneFacts'
  BY DEF LaneFacts
<1> QED BY <1>10, <1>11, <1>13, <1>14, <1>15 DEF PartsInv

\* An idle turn gets its first run.
LEMMA CreateInitialRunKeeps ==
  ASSUME RunsInv, NeedsInitialRun, CreateInitialRun, UNCHANGED <<lane, incidents>>,
         process.phase \notin {"down", "recovering"},
         process'.phase \notin {"down", "recovering"}
  PROVE  PartsInv'
<1> DEFINE new == runCount + 1
           y   == QueuedRun(session.stateVersion, session.actor, process.config, NoRun)
<1>1. /\ runs \in [RunIds -> RunRows] /\ session \in SessionRows /\ runCount \in Nat
      /\ session.stateVersion \in Nat /\ session.agentRunState = "idle" /\ lane.pc = "idle"
  BY RunsInvFacts, IdleUnlessThinking DEF NeedsInitialRun
<1>2. new \in RunIds /\ runs[new].lifecycle = "absent" /\ RowInv(runs[new]) /\ new # NoRun
  BY <1>1, RunsInvFacts, PlayerTurnAssumption DEF CreateInitialRun, RunIds, NoRun
<1>3. /\ y \in RunRows /\ RowInv(y) /\ y.lifecycle = "queued"
      /\ y.version = session.stateVersion /\ y.parent = NoRun /\ y.replacement = NoRun
      /\ ~y.overdue
  <2>1. /\ session.actor \in Actors \cup {NoActor} /\ process.config \in Configs
    BY RunsInvFacts DEF NeedsInitialRun, AiTurn, ProcessStates
  <2> QED BY <1>1, <2>1, RowQueued
<1>4. runs' = [runs EXCEPT ![new] = y] /\ runCount' = new
  BY DEF CreateInitialRun
<1>5. /\ session'.agentRunState = "thinking" /\ session'.activePlayerRunId = new
      /\ session'.stateVersion = session.stateVersion
  BY <1>1 DEF CreateInitialRun, SessionRows
<1> HIDE DEF y
<1>6. runs'[new] = y /\ \A q \in RunIds : q # new => runs'[q] = runs[q]
  BY <1>1, <1>2, <1>4
<1>7. Budget'
  <2>1. ~Paid'
    BY <1>1, <1>3, <1>5, <1>6 DEF Paid
  <2>2. One(Paid') = 0 /\ One(session'.agentRunState # "idle") = 1
        /\ One(session.agentRunState # "idle") = 0 /\ One(Paid) \in {0, 1}
    BY <1>1, <1>5, <2>1 DEF One
  <2>3. /\ runCount' = runCount + 1 /\ incidents \in Nat
        /\ runCount + One(Paid) <= session.stateVersion + One(session.agentRunState # "idle")
                                     + incidents
    BY <1>4, RunsInvFacts DEF RunsInv, Budget
  <2> QED BY <1>1, <1>5, <2>2, <2>3 DEF Budget
<1> HIDE DEF new
<1>8. RowsInv'
  BY <1>3, <1>6 DEF RunsInv, RowsInv
<1>9. Links'
  <2> SUFFICES ASSUME NEW q \in RunIds
               PROVE  /\ runs'[q].replacement # NoRun =>
                           /\ runs'[runs'[q].replacement].parent = q
                           /\ runs'[runs'[q].replacement].version = runs'[q].version
                           /\ runs'[q].lifecycle \in {"failed", "cancelled", "stale"}
                      /\ runs'[q].parent # NoRun =>
                           /\ runs'[q].parent < q
                           /\ runs'[runs'[q].parent].replacement = q
    BY DEF Links
  <2>1. /\ runs[q].replacement \in RunIds \cup {NoRun} /\ runs[q].parent \in RunIds \cup {NoRun}
        /\ runs[new].parent = NoRun /\ runs[new].replacement = NoRun /\ q # NoRun
    BY <1>2, RunsInvFacts, PlayerTurnAssumption DEF RunRows, RowInv, RunIds, NoRun
  <2>2. /\ runs[q].replacement # NoRun =>
             /\ runs[runs[q].replacement].parent = q
             /\ runs[runs[q].replacement].version = runs[q].version
             /\ runs[q].lifecycle \in {"failed", "cancelled", "stale"}
        /\ runs[q].parent # NoRun =>
             runs[q].parent < q /\ runs[runs[q].parent].replacement = q
    BY DEF RunsInv, Links
  <2>3. runs[q].replacement # new /\ runs[q].parent # new
    BY <1>2, <2>1, <2>2
  <2> QED BY <1>3, <1>6, <2>1, <2>2, <2>3
<1>10. Leaf'
  <2>1. \A q \in RunIds : runs'[q].lifecycle # "absent" =>
          runs'[q].version <= session'.stateVersion
    BY <1>1, <1>3, <1>5, <1>6 DEF RunsInv, Leaf
  <2>2. Leaves = {}
    BY <1>1 DEF RunsInv, Leaf
  <2>3. ASSUME NEW q \in RunIds
        PROVE  q \in Leaves' <=> q = new
    <3>1. q \in Leaves' <=> /\ runs'[q].lifecycle # "absent"
                            /\ runs'[q].version = session'.stateVersion
                            /\ runs'[q].replacement = NoRun
      BY DEF Leaves
    <3>2. ~(/\ runs[q].lifecycle # "absent"
            /\ runs[q].version = session.stateVersion
            /\ runs[q].replacement = NoRun)
      BY <2>2 DEF Leaves
    <3> QED BY <1>3, <1>5, <1>6, <3>1, <3>2
  <2>4. Leaves' = {new}
    BY <1>2, <2>3 DEF Leaves
  <2> QED BY <1>5, <2>1, <2>4 DEF Leaf
<1>11. LaneFacts'
  BY <1>1 DEF LaneFacts
<1> QED BY <1>7, <1>8, <1>9, <1>10, <1>11 DEF PartsInv

\* The commit ends the run and leaves its turn behind.
LEMMA CommitDecisionKeeps == ASSUME RunsInv, CommitDecision PROVE PartsInv'
<1> DEFINE r == Current
           y == Finalized(MarkCommitted(runs[r]))
<1>1. /\ lane.pc = "publish" /\ runs' = [runs EXCEPT ![r] = y]
      /\ UNCHANGED <<runCount, process, incidents>> /\ Deferred
  BY DEF CommitDecision
<1>2. /\ r \in RunIds /\ LiveRow(runs[r]) /\ runs[r].decision = "selected"
      /\ runs[r].lifecycle = "running" /\ process.phase = "serving"
      /\ session.agentRunState = "thinking"
  BY <1>1, BusyLane DEF AtStep
<1>12. y = Finalized(MarkCommitted(runs[r]))
  OBVIOUS
<1> HIDE DEF y, Finalized, MarkCommitted
<1>3. /\ y \in RunRows /\ RowInv(y) /\ y.lifecycle = "completed"
      /\ y.version = runs[r].version /\ y.parent = runs[r].parent
      /\ y.replacement = runs[r].replacement
  BY <1>2, <1>12, RowFinalized
<1>4. /\ session'.agentRunState = "idle"
      /\ session'.stateVersion = session.stateVersion + 1
      /\ session.stateVersion \in Nat
  BY RunsInvFacts DEF CommitDecision, AdvanceTo, SessionRows
<1> HIDE DEF r
<1>5. runs'[r] = y /\ \A q \in RunIds : q # r => runs'[q] = runs[q]
  BY <1>1, <1>2, RunsInvFacts
<1>6. lane'.pc = "idle"
  BY <1>1, RunsInvFacts, LaneMoves
<1>7. RowsInv'
  BY <1>3, <1>5 DEF RunsInv, RowsInv
<1>8. Links'
  <2>1. \A q \in RunIds : /\ runs'[q].version = runs[q].version
                          /\ runs'[q].parent = runs[q].parent
                          /\ runs'[q].replacement = runs[q].replacement
                          /\ runs[q].lifecycle \in {"failed", "cancelled", "stale"} =>
                               runs'[q].lifecycle \in {"failed", "cancelled", "stale"}
    BY <1>2, <1>3, <1>5
  <2>2. \A q \in RunIds : /\ runs[q].replacement \in RunIds \cup {NoRun}
                          /\ runs[q].parent \in RunIds \cup {NoRun}
    BY RunsInvFacts DEF RunRows
  <2> QED BY <2>1, <2>2 DEF RunsInv, Links
<1>9. Leaf'
  <2>1. \A q \in RunIds : runs'[q].lifecycle # "absent" =>
          /\ runs'[q].version <= session.stateVersion /\ runs'[q].version \in Nat
    BY <1>2, <1>3, <1>5, RunsInvFacts DEF RunsInv, Leaf
  <2>2. \A q \in RunIds : runs'[q].lifecycle # "absent" =>
          /\ runs'[q].version <= session'.stateVersion
          /\ runs'[q].version # session'.stateVersion
    BY <1>4, <2>1
  <2>3. Leaves' = {}
    BY <2>2 DEF Leaves
  <2> QED BY <1>4, <2>2, <2>3 DEF Leaf
<1>10. LaneFacts'
  BY <1>6 DEF LaneFacts
<1>11. Budget'
  <2>1. ~Paid'
    BY <1>1, <1>2, <1>4, <1>6 DEF Paid
  <2>2. One(Paid') = 0 /\ One(session'.agentRunState # "idle") = 0
        /\ One(session.agentRunState # "idle") = 1 /\ One(Paid) \in {0, 1}
    BY <1>2, <1>4, <2>1 DEF One
  <2>3. /\ runCount' = runCount /\ incidents' = incidents /\ runCount \in Nat
        /\ incidents \in Nat
        /\ runCount + One(Paid) <= session.stateVersion + One(session.agentRunState # "idle")
                                     + incidents
    BY <1>1, RunsInvFacts DEF RunsInv, Budget
  <2> QED BY <1>4, <2>2, <2>3 DEF Budget
<1> QED BY <1>7, <1>8, <1>9, <1>10, <1>11 DEF PartsInv

\* A turn whose run has ended is paused, or waits for a successor of the run.
LEMMA SettlementKeeps ==
  ASSUME RunsInv, PauseAfterFailure \/ ReconcileStale \/ RecoverAfterRestart \/ RetryAgent,
         ~UNCHANGED <<session, runs, runCount>>
  PROVE  PartsInv'
<1>1. lane \in LaneStates /\ IdleLane.pc = "idle"
  BY RunsInvFacts, IdleLaneType
<1>2. ASSUME NEW r \in RunIds, Active(r), AiTurn, Leaves = {r}, Paid, UNCHANGED incidents,
             session.agentRunState = "thinking", lane'.pc = "idle",
             process'.phase \notin {"down", "recovering"},
             NEW lifecycle \in {"cancelled", "stale"},
             ReplaceRun(r, Terminated(runs[r], lifecycle, "stale"))
      PROVE  PartsInv'
  <2> DEFINE terminal == Terminated(runs[r], lifecycle, "stale")
  <2>1. LiveRow(runs[r])
    BY <1>2, RunsInvFacts
  <2>2. /\ terminal \in RunRows /\ RowInv(terminal) /\ terminal.lifecycle = lifecycle
        /\ terminal.version = runs[r].version /\ terminal.parent = runs[r].parent
    BY <2>1, RowSettles
  <2>3. ReplaceRun(r, terminal)
    BY <1>2
  <2> HIDE DEF terminal
  <2> QED BY <1>2, <2>2, <2>3, ReplaceRunKeeps
<1>3. ASSUME NEW r \in RunIds, session.agentRunState = "thinking",
             session.activePlayerRunId = r
      PROVE  Leaves = {r}
  BY <1>3 DEF RunsInv, Leaf
<1>4. CASE PauseAfterFailure
  <2>1. /\ lane.pc = "pauseAfterFailure" /\ PauseTurn(Current) /\ lane'.pc = "idle"
        /\ UNCHANGED <<process, incidents>>
    BY <1>1, <1>4 DEF PauseAfterFailure, Deferred
  <2>2. Current \in RunIds /\ Active(Current) /\ AiTurn /\ ForCurrentTurn(Current)
        /\ process.phase = "serving"
    BY <2>1, BusyLane
  <2> QED BY <2>1, <2>2, PauseTurnKeeps
<1>5. CASE ReconcileStale
  <2>1. /\ lane.pc = "reconcileStale" /\ lane'.pc = "idle" /\ UNCHANGED <<process, incidents>>
        /\ \/ ReplaceRun(Current, Terminated(runs[Current], "stale", "stale"))
           \/ PauseTurn(Current)
    BY <1>1, <1>5 DEF ReconcileStale, Deferred
  <2>2. /\ Current \in RunIds /\ Active(Current) /\ AiTurn /\ ForCurrentTurn(Current)
        /\ process.phase = "serving" /\ session.agentRunState = "thinking"
        /\ session.activePlayerRunId = Current /\ Paid
    BY <2>1, BusyLane
  <2>3. Leaves = {Current}
    BY <1>3, <2>2
  <2> QED BY <1>2, <2>1, <2>2, <2>3, PauseTurnKeeps
<1>6. CASE RecoverAfterRestart
  <2> DEFINE r == session.activePlayerRunId
  <2>1. /\ process.phase = "recovering" /\ process'.phase = "reconciling"
        /\ UNCHANGED <<lane, incidents>> /\ session.agentRunState = "thinking" /\ AiTurn
        /\ r # NoRun /\ Active(r) /\ ForCurrentTurn(r)
        /\ \/ ReplaceRun(r, Terminated(runs[r], "cancelled", "stale"))
           \/ PauseTurn(r)
    <3>1. process \in ProcessStates
      BY RunsInvFacts
    <3> QED BY <1>6, <3>1 DEF RecoverAfterRestart, ProcessStates
  <2>2. r \in RunIds /\ lane'.pc = "idle" /\ Paid
    BY <2>1, RunsInvFacts DEF RunsInv, LaneFacts, Paid, SessionRows
  <2>3. Leaves = {r}
    BY <1>3, <2>1, <2>2
  <2> HIDE DEF r
  <2> QED BY <1>2, <2>1, <2>2, <2>3, PauseTurnKeeps
<1>7. CASE RetryAgent
  <2> PICK r \in RunIds : FailedLeaves = {r} /\ ReplaceRun(r, runs[r])
    BY <1>7 DEF RetryAgent
  <2>1. /\ session.agentRunState = "paused" /\ AiTurn /\ Serving /\ Incident
        /\ UNCHANGED <<lane, process>>
    BY <1>7 DEF RetryAgent
  <2>2. /\ runs[r].lifecycle = "failed" /\ runs[r].replacement = NoRun
        /\ runs[r].version = session.stateVersion
    BY DEF FailedLeaves, ForCurrentTurn
  <2>3. Leaves = {r}
    <3>1. r \in Leaves
      BY <2>2 DEF Leaves
    <3> QED BY <2>1, <3>1 DEF RunsInv, Leaf
  <2>4. /\ runs[r] \in RunRows /\ RowInv(runs[r]) /\ lane'.pc = "idle"
        /\ process'.phase = "serving" /\ incidents' = incidents + 1
    BY <2>1, RunsInvFacts, IdleUnlessThinking DEF Serving, Incident
  <2> QED BY <2>1, <2>2, <2>3, <2>4, ReplaceRunKeeps
<1> QED BY <1>4, <1>5, <1>6, <1>7

\* A settlement that finds nothing to settle: the lane lets go, or the startup
\* goes on.
LEMMA NothingToSettle ==
  ASSUME RunsInv,
         PauseAfterFailure \/ ReconcileStale \/ RecoverAfterRestart \/ ReconcileAtStartup,
         UNCHANGED <<session, runs, runCount>>
  PROVE  PartsInv'
<1>1. RowMoves /\ UNCHANGED incidents
  BY DEF RowMoves, PauseAfterFailure, ReconcileStale, RecoverAfterRestart, ReconcileAtStartup
<1>2. RowsInv' /\ Links' /\ Leaf'
  BY <1>1, MovedRows
<1>3. lane'.pc = "idle"
  BY IdleLaneType DEF PauseAfterFailure, ReconcileStale, RecoverAfterRestart,
     ReconcileAtStartup, Deferred, RunsInv, LaneFacts
<1>4. LaneFacts'
  BY <1>3 DEF LaneFacts
<1>5. Paid' => Paid
  <2>1. CASE PauseAfterFailure \/ ReconcileStale
    <3>1. lane.pc \in {"pauseAfterFailure", "reconcileStale"} /\ process' = process
      BY <2>1 DEF PauseAfterFailure, ReconcileStale
    <3>2. ~Paid => PauseTurn(Current) \/ Paid
      <4> SUFFICES ASSUME ~Paid PROVE PauseTurn(Current)
        OBVIOUS
      <4>1. lane.pc = "pauseAfterFailure" /\ Authority(Current)
            /\ OwnsDecision(Current) /\ ForCurrentTurn(Current)
        BY <3>1, BusyLane
      <4> QED BY <2>1, <4>1 DEF PauseAfterFailure, ReconcileStale
    <3>3. PauseTurn(Current) => session'.agentRunState = "paused"
      BY RunsInvFacts DEF PauseTurn, SessionRows
    <3>4. session.agentRunState = "thinking"
      BY <3>1, BusyLane
    <3> QED BY <3>2, <3>3, <3>4
  <2>2. CASE RecoverAfterRestart \/ ReconcileAtStartup
    <3>1. /\ process.phase \in {"recovering", "reconciling"} /\ lane' = lane
          /\ process'.phase \in {"reconciling", "serving"}
      BY <2>2, RunsInvFacts DEF RecoverAfterRestart, ReconcileAtStartup, ProcessStates
    <3>2. process.phase = "recovering" => Paid
      BY DEF Paid
    <3>3. lane.pc = "idle"
      BY <3>1 DEF RunsInv, LaneFacts
    <3> QED BY <3>1, <3>2, <3>3 DEF Paid, Renewing
  <2> QED BY <2>1, <2>2
<1> QED BY <1>1, <1>2, <1>4, <1>5, IncidentPays DEF PartsInv

-----------------------------------------------------------------------------
(* The inductive step, and what follows from it *)

LEMMA InitRunsInv == Init => RunsInv
<1> SUFFICES ASSUME Init PROVE RunsInv
  OBVIOUS
<1>1. PICK c \in Configs : runs = [r \in RunIds |-> AbsentRun(c)]
  BY DEF Init
<1>2. /\ session.agentRunState = "idle" /\ session.stateVersion = 0 /\ runCount = 0
      /\ lane.pc = "idle" /\ process.phase = "serving" /\ incidents = 0
  BY IdleLaneType DEF Init
<1>3. \A r \in RunIds : /\ runs[r].lifecycle = "absent" /\ runs[r].parent = NoRun
                        /\ runs[r].replacement = NoRun /\ RowInv(runs[r])
  BY <1>1 DEF AbsentRun, RowInv, TerminalLifecycles
<1>4. RowsInv /\ Links
  BY <1>3 DEF RowsInv, Links
<1>5. Leaf
  BY <1>2, <1>3 DEF Leaf, Leaves
<1>6. LaneFacts
  BY <1>2 DEF LaneFacts
<1>7. Budget
  BY <1>2 DEF Budget, One, Paid
<1> QED BY <1>4, <1>5, <1>6, <1>7, InitTurnInv DEF RunsInv

LEMMA NextRunsInv == RunsInv /\ [Next]_vars => RunsInv'
<1> SUFFICES ASSUME RunsInv, [Next]_vars PROVE PartsInv'
  BY NextTurnInv DEF RunsInv, PartsInv
<1>1. ASSUME LaneKept PROVE PartsInv'
  BY <1>1, MovedRows DEF LaneKept, PartsInv
<1>2. CASE Commands
  <2>1. CASE RetryAgent
    <3>1. ~UNCHANGED runCount
      BY <2>1, RunsInvFacts DEF RetryAgent, ReplaceRun
    <3> QED BY <2>1, <3>1, SettlementKeeps
  <2> QED BY <1>2, <2>1, MovesKeep DEF Commands
<1>3. CASE PauseAfterFailure \/ ReconcileStale \/ RecoverAfterRestart
  <2>1. CASE UNCHANGED <<session, runs, runCount>>
    BY <1>3, <2>1, NothingToSettle
  <2> QED BY <1>3, <2>1, SettlementKeeps
<1>4. CASE ReconcileCurrentTurn
  BY <1>4, CreateInitialRunKeeps DEF ReconcileCurrentTurn, Serving
<1>5. CASE ReconcileAtStartup
  <2>1. CASE UNCHANGED <<session, runs, runCount>>
    BY <1>5, <2>1, NothingToSettle
  <2>2. CASE NeedsInitialRun /\ CreateInitialRun
    <3>1. process.phase = "reconciling" /\ process'.phase = "serving"
      BY <1>5, RunsInvFacts DEF ReconcileAtStartup, ProcessStates
    <3> QED BY <1>5, <2>2, <3>1, CreateInitialRunKeeps DEF ReconcileAtStartup
  <2> QED BY <1>5, <2>1, <2>2 DEF ReconcileAtStartup
<1>6. CASE CommitDecision
  BY <1>6, CommitDecisionKeeps
<1> QED BY <1>1, <1>2, <1>3, <1>4, <1>5, <1>6, LaneStepsKeep
        DEF Next, Server, Startup, LaneStep

THEOREM RunsInvariant == Spec => []RunsInv
<1> QED BY InitRunsInv, NextRunsInv, PTL DEF Spec

\* A run always ends in one piece: its row, its decision, its attempts and its
\* lease agree whether it committed, failed or was replaced.
THEOREM RunsEndInOnePiece == Spec => []RunSettlesCompletely
<1>1. RunsInv => RunSettlesCompletely
  BY DEF RunsInv, RowsInv, RowInv, RunSettlesCompletely
<1> QED BY <1>1, RunsInvariant, PTL

\* Replacements always form chains of settled runs of one turn, linked both
\* ways, and a paused turn has exactly one failed run to retry.
THEOREM ReplacementsFormChains == Spec => []ReplacementChain
<1>1. RunsInv => ReplacementChain
  <2> SUFFICES ASSUME RunsInv PROVE ReplacementChain
    OBVIOUS
  <2>1. ASSUME session.agentRunState = "paused"
        PROVE  AiTurn /\ \E r \in RunIds : FailedLeaves = {r}
    <3>1. PICK r \in RunIds : /\ Leaves = {r} /\ runs[r].lifecycle = "failed"
                              /\ runs[r].participant = session.actor
      BY <2>1 DEF RunsInv, Leaf
    <3>2. FailedLeaves = {r}
      BY <3>1 DEF FailedLeaves, ForCurrentTurn, Leaves
    <3> QED BY <2>1, <3>2 DEF RunsInv, Leaf
  <2> QED BY <2>1 DEF RunsInv, Links, ReplacementChain
<1> QED BY <1>1, RunsInvariant, PTL

\* Nobody else ever settles the run a lane executes, or takes its fence.
THEOREM LaneAlwaysOwnsItsRun == Spec => []LaneOwnsItsRun
<1>1. RunsInv => LaneOwnsItsRun
  <2> SUFFICES ASSUME RunsInv, lane.pc \in ExecutionSteps \cup SettlementSteps
               PROVE  /\ runs[lane.run].lifecycle = "running"
                      /\ runs[lane.run].fence = lane.fence
                      /\ session.activePlayerRunId = lane.run
    BY DEF LaneOwnsItsRun
  <2>1. lane.pc # "idle" /\ lane.pc # "claimed"
    BY DEF ExecutionSteps, SettlementSteps
  <2> QED BY <2>1, BusyLane DEF AtStep, Current
<1> QED BY <1>1, RunsInvariant, PTL

\* There are never more runs than the turns that opened and the incidents that
\* happened, whatever the order of staleness, retries and restarts.
THEOREM RunsAreAccountedFor == Spec => []NoReplacementStorm
<1>1. RunsInv => NoReplacementStorm
  <2> SUFFICES ASSUME RunsInv PROVE runCount <= session.stateVersion + 1 + incidents
    BY DEF NoReplacementStorm
  <2>1. /\ One(Paid) \in {0, 1} /\ One(session.agentRunState # "idle") \in {0, 1}
        /\ runCount \in Nat /\ session.stateVersion \in Nat /\ incidents \in Nat
    BY RunsInvFacts DEF One
  <2>2. runCount + One(Paid)
          <= session.stateVersion + One(session.agentRunState # "idle") + incidents
    BY DEF RunsInv, Budget
  <2> QED BY <2>1, <2>2
<1> QED BY <1>1, RunsInvariant, PTL

-----------------------------------------------------------------------------
(* What no step may do to a run *)

\* A settled row changes in nothing but its successor, and the attempts of a
\* run with a call of unknown outcome are over.
RowStays(q) ==
  /\ runs[q].lifecycle \in TerminalLifecycles =>
       runs'[q] = [runs[q] EXCEPT !.replacement = runs'[q].replacement]
  /\ runs[q].lost => runs'[q].attempts = runs[q].attempts

LEMMA UntouchedRow ==
  ASSUME NEW q \in RunIds, runs[q] \in RunRows, runs'[q] = runs[q]
  PROVE  RowStays(q)
<1>1. ASSUME NEW x \in RunRows PROVE [x EXCEPT !.replacement = x.replacement] = x
  BY DEF RunRows
<1> QED BY <1>1 DEF RowStays

\* A row that is rewritten while its run is active, or before there was a run.
LEMMA RewrittenRow ==
  ASSUME RunsInv, NEW q \in RunIds,
         \/ runs[q].lifecycle = "absent"
         \/ Active(q) /\ (runs[q].lost => runs'[q].attempts = runs[q].attempts)
  PROVE  RowStays(q)
BY RunsInvFacts DEF RowStays, RowInv, Active, ActiveLifecycles, TerminalLifecycles

LEMMA SettlementStays ==
  ASSUME RunsInv, NEW r \in RunIds,
         \/ Active(r) /\ PauseTurn(r)
         \/ Active(r) /\ \E lifecycle \in {"cancelled", "stale"} :
                           ReplaceRun(r, Terminated(runs[r], lifecycle, "stale"))
         \/ runs[r].lifecycle = "failed" /\ ReplaceRun(r, runs[r]),
         NEW q \in RunIds
  PROVE  RowStays(q)
<1>1. /\ runs \in [RunIds -> RunRows] /\ runs[r] \in RunRows /\ runs[q] \in RunRows
      /\ RowInv(runs[r]) /\ (Active(r) => LiveRow(runs[r])) /\ runCount \in Nat
      /\ runs[q].lifecycle = "absent" <=> q > runCount
      /\ runs[r].lifecycle = "absent" <=> r > runCount
  BY RunsInvFacts
<1>2. CASE Active(r) /\ PauseTurn(r)
  <2> DEFINE y == Terminated(runs[r], "failed", "failed")
  <2>1. y.attempts = runs[r].attempts
    BY <1>1, <1>2, RowSettles
  <2>2. runs' = [runs EXCEPT ![r] = y]
    BY <1>2 DEF PauseTurn
  <2> HIDE DEF y
  <2>3. CASE q = r
    BY <1>1, <1>2, <2>1, <2>2, <2>3, RewrittenRow
  <2>4. CASE q # r
    BY <1>1, <2>2, <2>4, UntouchedRow
  <2> QED BY <2>3, <2>4
<1>3. ASSUME NEW terminal \in RunRows, RowInv(terminal), ReplaceRun(r, terminal),
             terminal.lifecycle # "absent", runs[r].lifecycle # "absent",
             \/ terminal = runs[r]
             \/ Active(r) /\ terminal.attempts = runs[r].attempts
      PROVE  RowStays(q)
  <2> DEFINE new == runCount + 1
             x   == [terminal EXCEPT !.replacement = new]
             y   == QueuedRun(runs[r].version, runs[r].participant, runs[r].config, r)
  <2>1. new \in RunIds /\ new > runCount
    BY <1>1, <1>3, PlayerTurnAssumption DEF ReplaceRun, RunIds
  <2>2. runs' = [runs EXCEPT ![r] = x, ![new] = y] /\ new # r
    BY <1>1, <1>3, <2>1, PlayerTurnAssumption DEF ReplaceRun, RunIds
  <2>3. x.attempts = terminal.attempts /\ x = [terminal EXCEPT !.replacement = x.replacement]
    BY <1>3, <2>1, RowLinked
  <2> HIDE DEF y
  <2>4. CASE q = new
    BY <1>1, <2>1, <2>4, RewrittenRow
  <2>5. CASE q = r
    <3>1. runs'[q] = x
      BY <1>1, <2>2, <2>5
    <3> HIDE DEF x, new
    <3>2. CASE terminal = runs[r]
      BY <2>3, <2>5, <3>1, <3>2 DEF RowStays
    <3>3. CASE Active(r) /\ terminal.attempts = runs[r].attempts
      BY <2>3, <2>5, <3>1, <3>3, RewrittenRow
    <3> QED BY <1>3, <3>2, <3>3
  <2>6. CASE q # r /\ q # new
    <3> HIDE DEF x, new
    <3>1. runs'[q] = runs[q]
      BY <1>1, <2>2, <2>6
    <3> QED BY <1>1, <3>1, UntouchedRow
  <2> QED BY <2>4, <2>5, <2>6
<1>4. ASSUME Active(r), NEW lifecycle \in {"cancelled", "stale"},
             ReplaceRun(r, Terminated(runs[r], lifecycle, "stale"))
      PROVE  RowStays(q)
  <2> DEFINE terminal == Terminated(runs[r], lifecycle, "stale")
  <2>1. /\ terminal \in RunRows /\ RowInv(terminal) /\ terminal.lifecycle = lifecycle
        /\ terminal.attempts = runs[r].attempts
    BY <1>1, <1>4, RowSettles
  <2>2. ReplaceRun(r, terminal) /\ runs[r].lifecycle # "absent"
    BY <1>4 DEF Active, ActiveLifecycles
  <2> HIDE DEF terminal
  <2> QED BY <1>3, <1>4, <2>1, <2>2
<1> QED BY <1>1, <1>2, <1>3, <1>4

LEMMA NextStays ==
  ASSUME RunsInv, [Next]_vars
  PROVE  \A q \in RunIds : RowStays(q)
<1> TAKE q \in RunIds
<1>1. /\ runs \in [RunIds -> RunRows] /\ runs[q] \in RunRows /\ runCount \in Nat
      /\ runs[q].lifecycle = "absent" <=> q > runCount
  BY RunsInvFacts
<1>2. UNCHANGED runs => RowStays(q)
  BY <1>1, UntouchedRow
<1>3. ASSUME LaneKept PROVE RowStays(q)
  <2>1. Moved(q)
    BY <1>3, MovedRows DEF LaneKept
  <2> QED BY <1>1, <2>1, UntouchedRow, RewrittenRow DEF Moved, Continues
<1>4. CASE Commands
  <2>1. CASE RetryAgent
    <3> PICK r \in RunIds : FailedLeaves = {r} /\ ReplaceRun(r, runs[r])
      BY <2>1 DEF RetryAgent
    <3>1. runs[r].lifecycle = "failed"
      BY DEF FailedLeaves
    <3> QED BY <3>1, SettlementStays
  <2> QED BY <1>2, <1>4, <2>1 DEF Commands, UserAction, StartNextHand, Rebuy, EndSession,
                                  EndPausedSession
<1>5. CASE PauseAfterFailure \/ ReconcileStale
  <2>1. lane.pc # "idle"
    BY <1>5 DEF PauseAfterFailure, ReconcileStale
  <2>2. Current \in RunIds /\ Active(Current)
    BY <2>1, BusyLane
  <2> QED BY <1>2, <1>5, <2>2, SettlementStays DEF PauseAfterFailure, ReconcileStale
<1>6. CASE RecoverAfterRestart
  <2> DEFINE r == session.activePlayerRunId
  <2>1. r # NoRun => r \in RunIds
    BY RunsInvFacts DEF SessionRows
  <2> QED BY <1>2, <1>6, <2>1, SettlementStays DEF RecoverAfterRestart
<1>7. CASE ReconcileCurrentTurn \/ ReconcileAtStartup
  <2>1. CASE UNCHANGED runs
    BY <1>2, <2>1
  <2>2. CASE CreateInitialRun
    <3> DEFINE y == QueuedRun(session.stateVersion, session.actor, process.config, NoRun)
    <3>1. runs' = [runs EXCEPT ![runCount + 1] = y]
      BY <2>2 DEF CreateInitialRun
    <3> HIDE DEF y
    <3>2. CASE q = runCount + 1
      BY <1>1, <3>2, RewrittenRow
    <3>3. CASE q # runCount + 1
      BY <1>1, <3>1, <3>3, UntouchedRow
    <3> QED BY <3>2, <3>3
  <2> QED BY <1>7, <2>1, <2>2 DEF ReconcileCurrentTurn, ReconcileAtStartup
<1>8. CASE CommitDecision
  <2> DEFINE r == Current
             y == Finalized(MarkCommitted(runs[r]))
  <2>1. lane.pc = "publish" /\ runs' = [runs EXCEPT ![r] = y]
    BY <1>8 DEF CommitDecision
  <2>2. r \in RunIds /\ Active(r) /\ LiveRow(runs[r]) /\ runs[r].decision = "selected"
    BY <2>1, BusyLane DEF AtStep
  <2>3. y = Finalized(MarkCommitted(runs[r]))
    OBVIOUS
  <2> HIDE DEF y, Finalized, MarkCommitted
  <2>4. y.attempts = runs[r].attempts
    BY <2>2, <2>3, RowFinalized
  <2> HIDE DEF r
  <2>5. CASE q = r
    BY <1>1, <2>1, <2>2, <2>4, <2>5, RewrittenRow
  <2>6. CASE q # r
    BY <1>1, <2>1, <2>6, UntouchedRow
  <2> QED BY <2>5, <2>6
<1> QED BY <1>3, <1>4, <1>5, <1>6, <1>7, <1>8, LaneStepsKeep
        DEF Next, Server, Startup, LaneStep

\* A settled run is never touched again except to name its successor.
THEOREM SettledRunsStay == Spec => SettledRunStays
<1>1. RunsInv /\ [Next]_vars =>
        [\A r \in RunIds : runs[r].lifecycle \in TerminalLifecycles =>
           runs'[r] = [runs[r] EXCEPT !.replacement = runs'[r].replacement]]_vars
  BY NextStays DEF RowStays
<1> QED BY <1>1, RunsInvariant, PTL DEF Spec, SettledRunStays

\* A provider call whose outcome is unknown is never made again by its run.
THEOREM UncertainCallsNotRepeated == Spec => UncertainCallNotRepeated
<1>1. RunsInv /\ [Next]_vars =>
        [\A r \in RunIds : runs[r].lost => runs'[r].attempts = runs[r].attempts]_vars
  BY NextStays DEF RowStays
<1> QED BY <1>1, RunsInvariant, PTL DEF Spec, UncertainCallNotRepeated

=============================================================================
