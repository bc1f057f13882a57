------------------------ MODULE SessionCommands_proof ------------------------
(***************************************************************************)
(* Safety of command execution, for every number of callers, commands,      *)
(* versions, batch sizes and incidents, and what it implements: the outcome *)
(* a caller is told, and the log a reader of events follows.                *)
(***************************************************************************)
EXTENDS SessionCommands, SequenceTheorems, TLAPS

\* The session's sequence numbers start with the two events of its creation.
Numbered == session.nextEventSeq >= 2

\* A registered command has a complete row, and its answer says what it is.
RowsComplete ==
  \A id \in CommandIds : ledger[id].status # "absent" =>
    /\ ledger[id].payload \in Payloads
    /\ ledger[id].response \in Answers
    /\ ledger[id].response.kind = ledger[id].status

\* Only the caller at the head of the chain publishes, and what it publishes
\* is the completed command it asked for.
HeadPublishes ==
  \A c \in Callers : calls[c].pc = "publishing" =>
    /\ queue # <<>> /\ Head(queue) = c
    /\ ledger[calls[c].id].status = "completed"
    /\ ledger[calls[c].id].payload = calls[c].payload

\* A batch of a command has its caller.
BatchesOwned ==
  \A b \in unpublished : b.caller # Nobody => calls[b.caller].pc = "publishing"

ExecutionInv == TypeOK /\ Numbered /\ RowsComplete /\ HeadPublishes /\ BatchesOwned

-----------------------------------------------------------------------------
(* Rows *)

LEMMA AbsentRowType == AbsentRow \in LedgerRows /\ AbsentRow.status = "absent"
BY DEF AbsentRow, LedgerRows

LEMMA CallType ==
  ASSUME NEW call \in CallStates
  PROVE  /\ call.pc \in {"idle", "waiting", "publishing"}
         /\ call.pc # "idle" => call.id \in CommandIds /\ call.payload \in Payloads
BY DEF CallStates, IdleCall

LEMMA IdleCallType == IdleCall \in CallStates /\ IdleCall.pc = "idle"
BY DEF CallStates, IdleCall

LEMMA PublishingType ==
  ASSUME NEW call \in CallStates, call.pc = "waiting"
  PROVE  /\ [call EXCEPT !.pc = "publishing"] \in CallStates
         /\ [call EXCEPT !.pc = "publishing"].id = call.id
         /\ [call EXCEPT !.pc = "publishing"].payload = call.payload
         /\ [call EXCEPT !.pc = "publishing"].pc = "publishing"
BY DEF CallStates, IdleCall

LEMMA InitExecution == Init => ExecutionInv
<1> SUFFICES ASSUME Init PROVE ExecutionInv
  OBVIOUS
<1>1. session \in [lifecycleStatus: {"active", "ended"}, stateVersion: Nat,
                   nextEventSeq: Nat, currentHandId: Nat,
                   snapshot: [stateVersion: Nat, handId: Nat],
                   handsInProgress: SUBSET Nat] /\ Numbered
  BY DEF Init, Numbered
<1>2. events \subseteq EventRows
  BY DEF Init, EventRows
<1>3. ledger \in [CommandIds -> LedgerRows] /\ RowsComplete
  BY AbsentRowType DEF Init, RowsComplete
<1>4. /\ calls \in [Callers -> CallStates] /\ queue \in Seq(Callers)
      /\ \A c \in Callers : calls[c].pc = "idle"
  BY IdleCallType DEF Init
<1>5. /\ unpublished = {} /\ answers = {} /\ serving = TRUE
      /\ requests \in 0..MaxRequests /\ incidents \in 0..MaxIncidents
  BY SessionCommandsAssumption DEF Init
<1> QED BY <1>1, <1>2, <1>3, <1>4, <1>5 DEF ExecutionInv, TypeOK, HeadPublishes, BatchesOwned

-----------------------------------------------------------------------------
(* The chain of callers *)

\* The head of the chain is done: it is idle, and nobody else is publishing.
LEMMA FinishChain ==
  ASSUME ExecutionInv, NEW c \in Callers, queue # <<>>, Head(queue) = c, Finish(c)
  PROVE  /\ calls' \in [Callers -> CallStates] /\ queue' \in Seq(Callers)
         /\ \A d \in Callers : calls'[d].pc # "publishing"
<1>1. calls \in [Callers -> CallStates] /\ queue \in Seq(Callers)
  BY DEF ExecutionInv, TypeOK
<1>2. calls' \in [Callers -> CallStates] /\ calls'[c].pc = "idle"
      /\ \A d \in Callers : d # c => calls'[d] = calls[d]
  BY <1>1, IdleCallType DEF Finish
<1>3. queue' \in Seq(Callers)
  BY <1>1 DEF Finish
<1>4. \A d \in Callers : calls[d].pc = "publishing" => d = c
  BY DEF ExecutionInv, HeadPublishes
<1> QED BY <1>2, <1>3, <1>4

\* A caller whose turn it is waits alone: nobody is publishing.
LEMMA TurnAlone ==
  ASSUME ExecutionInv, NEW c \in Callers, Turn(c)
  PROVE  /\ queue # <<>> /\ Head(queue) = c
         /\ calls[c] \in CallStates /\ calls[c].pc = "waiting"
         /\ calls[c].id \in CommandIds /\ calls[c].payload \in Payloads
         /\ \A d \in Callers : calls[d].pc # "publishing"
         /\ \A b \in unpublished : b.caller = Nobody
<1>1. calls[c] \in CallStates /\ calls[c].pc = "waiting" /\ queue # <<>> /\ Head(queue) = c
  BY DEF ExecutionInv, TypeOK, Turn
<1>2. calls[c].id \in CommandIds /\ calls[c].payload \in Payloads
  BY <1>1, CallType
<1>3. \A d \in Callers : calls[d].pc # "publishing"
  BY <1>1 DEF ExecutionInv, HeadPublishes
<1>4. \A b \in unpublished : b.caller = Nobody
  BY <1>3 DEF ExecutionInv, TypeOK, BatchesOwned, BatchRows
<1> QED BY <1>1, <1>2, <1>3, <1>4

\* Appending to the chain keeps its head.
LEMMA AppendKeepsHead ==
  ASSUME queue \in Seq(Callers), NEW c \in Callers
  PROVE  /\ Append(queue, c) \in Seq(Callers)
         /\ queue # <<>> => Append(queue, c) # <<>> /\ Head(Append(queue, c)) = Head(queue)
<1>1. Append(queue, c) \in Seq(Callers)
  BY AppendProperties
<1>2. ASSUME queue # <<>>
      PROVE  Append(queue, c) # <<>> /\ Head(Append(queue, c)) = Head(queue)
  BY <1>2
<1> QED BY <1>1, <1>2

-----------------------------------------------------------------------------
(* Mutations *)

SessionRows == [lifecycleStatus: {"active", "ended"}, stateVersion: Nat,
                nextEventSeq: Nat, currentHandId: Nat,
                snapshot: [stateVersion: Nat, handId: Nat], handsInProgress: SUBSET Nat]

Lifecycles == {"active", "ended"}

\* A mutation replaces the whole session row and appends well-formed events.
LEMMA PersistType ==
  ASSUME ExecutionInv, NEW size \in 1..MaxBatch, NEW version \in Nat,
         NEW lifecycle \in Lifecycles, NEW id \in CommandIds \cup {NoCommand}, NEW hand \in Nat,
         Persist(size, version, lifecycle, hand, id)
  PROVE  /\ session' \in SessionRows /\ Numbered'
         /\ session'.nextEventSeq = session.nextEventSeq + size
         /\ session'.stateVersion = version
         /\ session'.lifecycleStatus = lifecycle
         /\ events' = events \cup NewEvents(size, version, id)
         /\ events' \subseteq EventRows
<1>1. /\ session.nextEventSeq \in Nat /\ session.stateVersion \in Nat /\ Numbered
      /\ size \in Nat /\ size >= 1
  BY SessionCommandsAssumption DEF ExecutionInv, TypeOK
<1>2. session.nextEventSeq + size \in Nat /\ session.nextEventSeq + size >= 2
  BY <1>1 DEF Numbered
<1>3. /\ session' \in SessionRows
      /\ session'.nextEventSeq = session.nextEventSeq + size
      /\ session'.stateVersion = version
      /\ session'.lifecycleStatus = lifecycle
  <2>1. SnapshotAfter(version, hand) \in [stateVersion: Nat, handId: Nat]
    BY DEF SnapshotAfter, ExecutionInv, TypeOK
  <2>2. HandRows(hand) \in SUBSET Nat
    BY DEF HandRows, ExecutionInv, TypeOK
  <2> QED BY <1>2, <2>1, <2>2 DEF Persist, SessionRows, Lifecycles
<1>4. NewEvents(size, version, id) \subseteq EventRows
  BY <1>1 DEF NewEvents, EventRows
<1>5. events' = events \cup NewEvents(size, version, id)
  BY DEF Persist
<1>6. events' \subseteq EventRows
  BY <1>4, <1>5 DEF ExecutionInv, TypeOK
<1> QED BY <1>2, <1>3, <1>5, <1>6 DEF Numbered

LEMMA BatchType ==
  ASSUME ExecutionInv, NEW size \in 1..MaxBatch, NEW caller \in Callers \cup {Nobody}
  PROVE  BatchOf(size, caller) \in BatchRows /\ BatchOf(size, caller).caller = caller
<1>1. session.nextEventSeq \in Nat /\ size \in Nat /\ size >= 1
  BY SessionCommandsAssumption DEF ExecutionInv, TypeOK
<1>2. session.nextEventSeq + size - 1 \in Nat
  BY <1>1
<1> QED BY <1>1, <1>2 DEF BatchOf, BatchRows

\* A finished row: typed, registered, and with an answer of its own status.
LEMMA RowType ==
  ASSUME NEW payload \in Payloads, NEW status \in {"completed", "failed"},
         NEW first \in Nat, NEW version \in Nat, NEW seq \in Nat
  PROVE  LET response == [kind |-> status, stateVersion |-> version, eventSeq |-> seq]
             row == [status |-> status, payload |-> payload, firstEventSeq |-> first,
                     response |-> response]
         IN /\ response \in Answers /\ response.kind = status
            /\ row \in LedgerRows /\ row.status = status /\ row.payload = payload
            /\ row.response = response
<1> DEFINE response == [kind |-> status, stateVersion |-> version, eventSeq |-> seq]
<1>1. response \in Answers /\ response.kind = status
  BY DEF Answers
<1> HIDE DEF response
<1>2. [status |-> status, payload |-> payload, firstEventSeq |-> first,
       response |-> response] \in LedgerRows
  BY <1>1 DEF LedgerRows
<1> QED BY <1>1, <1>2 DEF response

LedgerOK == ledger \in [CommandIds -> LedgerRows] /\ RowsComplete

\* One absent row is decided; every other row stays.
LEMMA DecideRow ==
  ASSUME ExecutionInv, NEW id \in CommandIds, NEW row \in LedgerRows,
         row.status # "absent", row.payload \in Payloads, row.response \in Answers,
         row.response.kind = row.status, ledger' = [ledger EXCEPT ![id] = row]
  PROVE  /\ LedgerOK' /\ ledger'[id] = row
         /\ \A other \in CommandIds : other # id => ledger'[other] = ledger[other]
<1>1. ledger \in [CommandIds -> LedgerRows]
  BY DEF ExecutionInv, TypeOK
<1>2. /\ ledger' \in [CommandIds -> LedgerRows] /\ ledger'[id] = row
      /\ \A other \in CommandIds : other # id => ledger'[other] = ledger[other]
  BY <1>1
<1>3. RowsComplete'
  BY <1>2 DEF ExecutionInv, RowsComplete
<1> QED BY <1>2, <1>3 DEF LedgerOK

-----------------------------------------------------------------------------
(* The steps keep the execution consistent *)

AnswerRows == [id: CommandIds, payload: Payloads, response: Answers]

\* What the durable side of a step must provide.
StoreOK == /\ session \in SessionRows /\ Numbered
           /\ events \subseteq EventRows /\ LedgerOK
           /\ answers \subseteq AnswerRows
           /\ serving \in BOOLEAN /\ requests \in 0..MaxRequests
           /\ incidents \in 0..MaxIncidents

LEMMA StoreIsOK == ASSUME ExecutionInv PROVE StoreOK
BY DEF ExecutionInv, TypeOK, StoreOK, SessionRows, LedgerOK, AnswerRows

LEMMA StoreKept ==
  ASSUME ExecutionInv
  PROVE  /\ UNCHANGED session => session' \in SessionRows /\ Numbered'
         /\ UNCHANGED events => events' \subseteq EventRows
         /\ UNCHANGED ledger => LedgerOK'
         /\ UNCHANGED answers => answers' \subseteq AnswerRows
         /\ UNCHANGED serving => serving' \in BOOLEAN
         /\ UNCHANGED requests => requests' \in 0..MaxRequests
         /\ UNCHANGED incidents \/ Incident => incidents' \in 0..MaxIncidents
<1>1. Incident => incidents' \in 0..MaxIncidents
  BY SessionCommandsAssumption DEF ExecutionInv, TypeOK, Incident
<1> QED BY <1>1, StoreIsOK DEF StoreOK, Numbered, LedgerOK, RowsComplete

\* The head of the chain ends its task, with or without a result.
LEMMA FinishStep ==
  ASSUME ExecutionInv, NEW c \in Callers, queue # <<>>, Head(queue) = c, Finish(c), StoreOK',
         unpublished' \subseteq unpublished, \A b \in unpublished' : b.caller # c
  PROVE  ExecutionInv'
<1>1. /\ calls' \in [Callers -> CallStates] /\ queue' \in Seq(Callers)
      /\ \A d \in Callers : calls'[d].pc # "publishing"
  BY FinishChain
<1>2. unpublished' \subseteq BatchRows
  BY DEF ExecutionInv, TypeOK
<1>3. \A b \in unpublished' : b.caller = Nobody
  BY DEF ExecutionInv, TypeOK, BatchesOwned, HeadPublishes, BatchRows
<1> QED BY <1>1, <1>2, <1>3 DEF StoreOK, ExecutionInv, TypeOK, SessionRows, LedgerOK,
        AnswerRows, HeadPublishes, BatchesOwned

\* Callers and chain stay as they are, and no registered row changes.
LEMMA ChainKept ==
  ASSUME ExecutionInv, UNCHANGED <<calls, queue, ledger>>, StoreOK',
         unpublished' \subseteq BatchRows,
         \A b \in unpublished' : b.caller = Nobody \/ b \in unpublished
  PROVE  ExecutionInv'
<1>1. /\ calls' \in [Callers -> CallStates] /\ queue' \in Seq(Callers)
  BY DEF ExecutionInv, TypeOK
<1>2. HeadPublishes'
  BY DEF ExecutionInv, HeadPublishes
<1>3. BatchesOwned'
  BY DEF ExecutionInv, BatchesOwned
<1> QED BY <1>1, <1>2, <1>3 DEF StoreOK, ExecutionInv, TypeOK, SessionRows, LedgerOK,
        AnswerRows

\* An answer of a registered row is an answer of its command.
LEMMA TellType ==
  ASSUME ExecutionInv, NEW id \in CommandIds, NEW payload \in Payloads,
         NEW response \in Answers, Tell(id, payload, response)
  PROVE  answers' \subseteq AnswerRows
<1>1. [id |-> id, payload |-> payload, response |-> response] \in AnswerRows
  BY DEF AnswerRows
<1> QED BY <1>1, StoreIsOK DEF Tell, StoreOK

LEMMA ReceiveExecution == ASSUME ExecutionInv, NEW c \in Callers, Receive(c) PROVE ExecutionInv'
<1>1. PICK id \in CommandIds, p \in Payloads :
        calls' = [calls EXCEPT ![c] = [pc |-> "waiting", id |-> id, payload |-> p]]
  BY DEF Receive, PayloadsOf
<1>2. /\ calls \in [Callers -> CallStates] /\ queue \in Seq(Callers) /\ calls[c].pc = "idle"
  BY IdleCallType DEF ExecutionInv, TypeOK, Receive
<1>3. [pc |-> "waiting", id |-> id, payload |-> p] \in CallStates
  BY DEF CallStates
<1>4. /\ calls' \in [Callers -> CallStates] /\ calls'[c].pc = "waiting"
      /\ \A d \in Callers : d # c => calls'[d] = calls[d]
  BY <1>1, <1>2, <1>3
<1>5. /\ queue' \in Seq(Callers)
      /\ queue # <<>> => queue' # <<>> /\ Head(queue') = Head(queue)
  BY <1>2, AppendKeepsHead DEF Receive
<1>6. HeadPublishes'
  BY <1>4, <1>5 DEF ExecutionInv, HeadPublishes, Receive
<1>7. BatchesOwned'
  BY <1>2, <1>4 DEF ExecutionInv, TypeOK, BatchesOwned, BatchRows, Receive
<1>8. requests' \in 0..MaxRequests
  BY SessionCommandsAssumption DEF ExecutionInv, TypeOK, Receive
<1>9. StoreOK'
  BY <1>8, StoreKept DEF Receive, StoreOK
<1>10. unpublished' \subseteq BatchRows
  BY DEF ExecutionInv, TypeOK, Receive
<1> QED BY <1>4, <1>5, <1>6, <1>7, <1>9, <1>10 DEF StoreOK, ExecutionInv, TypeOK,
        SessionRows, LedgerOK, AnswerRows

LEMMA ReplayExecution == ASSUME ExecutionInv, NEW c \in Callers, Replay(c) PROVE ExecutionInv'
<1>1. Turn(c) /\ Finish(c) /\ Registered(c)
  BY DEF Replay
<1>2. /\ queue # <<>> /\ Head(queue) = c
      /\ calls[c].id \in CommandIds /\ calls[c].payload \in Payloads
      /\ \A b \in unpublished : b.caller = Nobody
  BY <1>1, TurnAlone
<1>3. ledger[calls[c].id].response \in Answers
  BY <1>1, <1>2 DEF ExecutionInv, RowsComplete, Registered
<1>4. answers' \subseteq AnswerRows
  BY <1>2, <1>3, TellType DEF Replay
<1>5. StoreOK'
  BY <1>4, StoreKept DEF Replay, StoreOK
<1>6. unpublished' = unpublished
  BY DEF Replay
<1>7. \A b \in unpublished' : b.caller # c
  BY <1>2, <1>6, SessionCommandsAssumption
<1> QED BY <1>1, <1>2, <1>5, <1>6, <1>7, FinishStep

LEMMA QuietExecution ==
  ASSUME ExecutionInv, NEW c \in Callers, Decline(c) \/ RollBack(c)
  PROVE  ExecutionInv'
<1>1. Turn(c) /\ Finish(c) /\ UNCHANGED <<session, events, ledger, unpublished, answers,
                                          serving, requests>>
  BY DEF Decline, RollBack
<1>2. UNCHANGED incidents \/ Incident
  BY DEF Decline, RollBack
<1>3. /\ queue # <<>> /\ Head(queue) = c
      /\ \A b \in unpublished : b.caller = Nobody
  BY <1>1, TurnAlone
<1>4. StoreOK'
  BY <1>1, <1>2, StoreKept DEF StoreOK
<1>5. \A b \in unpublished' : b.caller # c
  BY <1>1, <1>3, SessionCommandsAssumption
<1> QED BY <1>1, <1>3, <1>4, <1>5, FinishStep

LEMMA RejectExecution == ASSUME ExecutionInv, NEW c \in Callers, Reject(c) PROVE ExecutionInv'
<1> DEFINE response == [kind |-> "failed", stateVersion |-> session.stateVersion,
                        eventSeq |-> session.nextEventSeq - 1]
           row == [status |-> "failed", payload |-> calls[c].payload, firstEventSeq |-> 0,
                   response |-> response]
<1>1. Turn(c) /\ Finish(c) /\ ledger' = [ledger EXCEPT ![calls[c].id] = row]
  BY DEF Reject, Executable
<1>2. /\ queue # <<>> /\ Head(queue) = c
      /\ calls[c].id \in CommandIds /\ calls[c].payload \in Payloads
      /\ \A b \in unpublished : b.caller = Nobody
  BY <1>1, TurnAlone
<1>3. session.stateVersion \in Nat /\ session.nextEventSeq - 1 \in Nat
  BY DEF ExecutionInv, TypeOK, Numbered
<1>4. /\ response \in Answers /\ response.kind = "failed"
      /\ row \in LedgerRows /\ row.status = "failed" /\ row.payload = calls[c].payload
      /\ row.response = response
  BY <1>2, <1>3, RowType
<1>5. \/ Learnt /\ Tell(calls[c].id, calls[c].payload, response)
      \/ NotLearnt /\ UNCHANGED answers
  BY DEF Reject
<1> HIDE DEF response, row
<1>6. LedgerOK'
  BY <1>1, <1>2, <1>4, DecideRow
<1>7. answers' \subseteq AnswerRows
  BY <1>2, <1>4, <1>5, TellType, StoreKept
<1>8. UNCHANGED <<session, events, unpublished, serving, requests>>
      /\ (UNCHANGED incidents \/ Incident)
  BY <1>5 DEF Reject, Learnt, NotLearnt
<1>9. StoreOK'
  BY <1>6, <1>7, <1>8, StoreKept DEF StoreOK
<1>10. \A b \in unpublished' : b.caller # c
  BY <1>2, <1>8, SessionCommandsAssumption
<1> QED BY <1>1, <1>2, <1>8, <1>9, <1>10, FinishStep

LEMMA EffectType ==
  ASSUME ExecutionInv, NEW payload, NEW effect \in Effects(payload)
  PROVE  /\ effect[1] \in Lifecycles /\ effect[2] \in Nat
         /\ effect[2] \in {session.stateVersion, session.stateVersion + 1}
         /\ effect[3] \in Nat
         /\ effect[2] = session.stateVersion \/ effect[1] = "ended" => effect[3] = NoHand
         /\ effect[2] = session.stateVersion => session.snapshot.handId = NoHand
         /\ effect[1] = "ended" <=> payload.type = "end"
<1>1. session.stateVersion \in Nat /\ session.snapshot.handId \in Nat /\ NoHand \in Nat
  BY DEF ExecutionInv, TypeOK, NoHand
<1>2. CASE payload.type = "end"
  <2>1. effect = <<"ended", session.stateVersion + (IF InHand THEN 1 ELSE 0), NoHand>>
    BY <1>2 DEF Effects
  <2> QED BY <1>1, <1>2, <2>1 DEF InHand, Lifecycles
<1>3. CASE payload.type # "end"
  <2>1. effect \in {"active"} \X {session.stateVersion + 1} \X HandsAfter(payload)
    BY <1>3 DEF Effects
  <2>2. HandsAfter(payload) \subseteq Nat
    BY <1>1 DEF HandsAfter
  <2>3. /\ effect[1] = "active" /\ effect[2] = session.stateVersion + 1
        /\ effect[3] \in HandsAfter(payload)
    BY <2>1
  <2> QED BY <1>1, <1>3, <2>2, <2>3 DEF Lifecycles
<1> QED BY <1>2, <1>3

\* The row and the response of an applied command.
AppliedResponse(size, version) ==
  [kind |-> "completed", stateVersion |-> version,
   eventSeq |-> session.nextEventSeq + size - 1]

AppliedRow(c, size, version) ==
  [status |-> "completed", payload |-> calls[c].payload,
   firstEventSeq |-> session.nextEventSeq, response |-> AppliedResponse(size, version)]

\* What an applied command does, whether its caller learns of it or not.
LEMMA ApplyEffects ==
  ASSUME ExecutionInv, NEW c \in Callers, Apply(c)
  PROVE  \E size \in 1..MaxBatch, effect \in Effects(calls[c].payload) :
           LET row == AppliedRow(c, size, effect[2]) IN
           /\ Persist(size, effect[2], effect[1], effect[3], calls[c].id)
           /\ ledger' = [ledger EXCEPT ![calls[c].id] = row]
           /\ row \in LedgerRows /\ row.status = "completed"
           /\ row.payload = calls[c].payload /\ row.response \in Answers
           /\ row.response.kind = "completed"
           /\ \/ /\ Learnt /\ unpublished' = unpublished \cup {BatchOf(size, c)}
                 /\ calls' = [calls EXCEPT ![c].pc = "publishing"] /\ UNCHANGED queue
              \/ NotLearnt /\ Finish(c) /\ UNCHANGED unpublished
<1>1. PICK size \in 1..MaxBatch, effect \in Effects(calls[c].payload) :
        LET response == [kind |-> "completed", stateVersion |-> effect[2],
                         eventSeq |-> session.nextEventSeq + size - 1] IN
        /\ Persist(size, effect[2], effect[1], effect[3], calls[c].id)
        /\ ledger' = [ledger EXCEPT ![calls[c].id] =
             [status |-> "completed", payload |-> calls[c].payload,
              firstEventSeq |-> session.nextEventSeq, response |-> response]]
        /\ \/ /\ Learnt
              /\ unpublished' = unpublished \cup {BatchOf(size, c)}
              /\ calls' = [calls EXCEPT ![c].pc = "publishing"]
              /\ UNCHANGED queue
           \/ /\ NotLearnt /\ Finish(c)
              /\ UNCHANGED unpublished
  BY DEF Apply
<1>2. calls[c].payload \in Payloads
  BY TurnAlone DEF Apply, Executable
<1>3. /\ session.nextEventSeq \in Nat /\ session.nextEventSeq + size - 1 \in Nat
      /\ effect[2] \in Nat
  BY SessionCommandsAssumption, EffectType DEF ExecutionInv, TypeOK
<1>4. LET row == AppliedRow(c, size, effect[2]) IN
      /\ row \in LedgerRows /\ row.status = "completed"
      /\ row.payload = calls[c].payload /\ row.response \in Answers
      /\ row.response.kind = "completed"
  BY <1>2, <1>3, RowType DEF AppliedRow, AppliedResponse
<1>5. ledger' = [ledger EXCEPT ![calls[c].id] = AppliedRow(c, size, effect[2])]
  BY <1>1 DEF AppliedRow, AppliedResponse
<1> QED BY <1>1, <1>4, <1>5

LEMMA ApplyExecution == ASSUME ExecutionInv, NEW c \in Callers, Apply(c) PROVE ExecutionInv'
<1>1. PICK size \in 1..MaxBatch, effect \in Effects(calls[c].payload) :
        LET row == AppliedRow(c, size, effect[2]) IN
        /\ Persist(size, effect[2], effect[1], effect[3], calls[c].id)
        /\ ledger' = [ledger EXCEPT ![calls[c].id] = row]
        /\ row \in LedgerRows /\ row.status = "completed"
        /\ row.payload = calls[c].payload /\ row.response \in Answers
        /\ row.response.kind = "completed"
        /\ \/ /\ Learnt /\ unpublished' = unpublished \cup {BatchOf(size, c)}
              /\ calls' = [calls EXCEPT ![c].pc = "publishing"] /\ UNCHANGED queue
           \/ NotLearnt /\ Finish(c) /\ UNCHANGED unpublished
  BY ApplyEffects
<1> DEFINE row == AppliedRow(c, size, effect[2])
<1>row. /\ row \in LedgerRows /\ row.status = "completed" /\ row.payload = calls[c].payload
        /\ row.response \in Answers /\ row.response.kind = "completed"
        /\ ledger' = [ledger EXCEPT ![calls[c].id] = row]
  BY <1>1
<1> HIDE DEF row
<1>2. /\ queue # <<>> /\ Head(queue) = c
      /\ calls[c] \in CallStates /\ calls[c].pc = "waiting"
      /\ calls[c].id \in CommandIds /\ calls[c].payload \in Payloads
      /\ \A d \in Callers : calls[d].pc # "publishing"
      /\ \A b \in unpublished : b.caller = Nobody
  BY TurnAlone DEF Apply, Executable
<1>3. session' \in SessionRows /\ Numbered' /\ events' \subseteq EventRows
  BY <1>1, <1>2, EffectType, PersistType
<1>4. LedgerOK' /\ ledger'[calls[c].id] = row
  <2>1. row.status # "absent" /\ row.payload \in Payloads /\ row.response.kind = row.status
    BY <1>row, <1>2
  <2> QED BY <1>row, <1>2, <2>1, DecideRow, Zenon
<1>5. UNCHANGED <<answers, serving, requests>> /\ (UNCHANGED incidents \/ Incident)
  BY <1>1 DEF Apply, Learnt, NotLearnt
<1>6. StoreOK'
  BY <1>3, <1>4, <1>5, StoreKept DEF StoreOK
<1>7. CASE NotLearnt /\ Finish(c) /\ UNCHANGED unpublished
  <2>1. \A b \in unpublished' : b.caller # c
    BY <1>2, <1>7, SessionCommandsAssumption
  <2> QED BY <1>2, <1>6, <1>7, <2>1, FinishStep
<1>8. CASE /\ Learnt /\ unpublished' = unpublished \cup {BatchOf(size, c)}
           /\ calls' = [calls EXCEPT ![c].pc = "publishing"] /\ UNCHANGED queue
  <2>1. /\ calls \in [Callers -> CallStates] /\ queue \in Seq(Callers)
        /\ unpublished \subseteq BatchRows
    BY DEF ExecutionInv, TypeOK
  <2>2. /\ calls' \in [Callers -> CallStates] /\ calls'[c].pc = "publishing"
        /\ calls'[c].id = calls[c].id /\ calls'[c].payload = calls[c].payload
        /\ \A d \in Callers : d # c => calls'[d] = calls[d]
    BY <1>2, <1>8, <2>1, PublishingType
  <2>3. HeadPublishes'
    BY <1>row, <1>2, <1>4, <1>8, <2>2 DEF HeadPublishes
  <2>4. BatchOf(size, c) \in BatchRows /\ BatchOf(size, c).caller = c
    BY BatchType
  <2>5. unpublished' \subseteq BatchRows /\ BatchesOwned'
    BY <1>2, <1>8, <2>1, <2>2, <2>4 DEF BatchesOwned
  <2> QED BY <1>6, <1>8, <2>1, <2>2, <2>3, <2>5 DEF StoreOK, ExecutionInv, TypeOK,
          SessionRows, LedgerOK, AnswerRows
<1> QED BY <1>1, <1>7, <1>8

LEMMA PublishExecution ==
  ASSUME ExecutionInv, NEW c \in Callers, PublishAndAnswer(c)
  PROVE  ExecutionInv'
<1>1. /\ calls[c] \in CallStates /\ calls[c].pc = "publishing"
      /\ queue # <<>> /\ Head(queue) = c
      /\ ledger[calls[c].id].status = "completed"
  BY DEF ExecutionInv, TypeOK, HeadPublishes, PublishAndAnswer
<1>2. calls[c].id \in CommandIds /\ calls[c].payload \in Payloads
  BY <1>1, CallType
<1>3. ledger[calls[c].id].response \in Answers
  BY <1>1, <1>2 DEF ExecutionInv, RowsComplete
<1>4. answers' \subseteq AnswerRows
  BY <1>2, <1>3, TellType DEF PublishAndAnswer
<1>5. StoreOK'
  BY <1>4, StoreKept DEF PublishAndAnswer, StoreOK
<1>6. /\ Finish(c) /\ unpublished' \subseteq unpublished
      /\ \A b \in unpublished' : b.caller # c
  BY DEF PublishAndAnswer
<1> QED BY <1>1, <1>5, <1>6, FinishStep

LEMMA CoordinatorExecution ==
  ASSUME ExecutionInv, Coordinate \/ StartCorrection \/ PublishCoordination
  PROVE  ExecutionInv'
<1>1. unpublished \subseteq BatchRows
  BY DEF ExecutionInv, TypeOK
<1>2. ASSUME Coordinate \/ StartCorrection
      PROVE  session' \in SessionRows /\ Numbered' /\ events' \subseteq EventRows
  <2>1. /\ Persist(1, session.stateVersion, "active", session.currentHandId, NoCommand)
        /\ session.stateVersion \in Nat /\ session.currentHandId \in Nat
        /\ 1 \in 1..MaxBatch
    BY <1>2, SessionCommandsAssumption DEF Coordinate, StartCorrection, ExecutionInv, TypeOK
  <2> QED BY <2>1, PersistType DEF Lifecycles
<1>3. CASE Coordinate
  <2>1. UNCHANGED <<ledger, calls, queue, answers, serving, requests>>
        /\ (UNCHANGED incidents \/ Incident)
    BY <1>3 DEF Coordinate, Learnt, NotLearnt
  <2>2. StoreOK'
    BY <1>2, <1>3, <2>1, StoreKept DEF StoreOK
  <2>3. BatchOf(1, Nobody) \in BatchRows /\ BatchOf(1, Nobody).caller = Nobody
    BY SessionCommandsAssumption, BatchType
  <2>4. /\ unpublished' \subseteq BatchRows
        /\ \A b \in unpublished' : b.caller = Nobody \/ b \in unpublished
    BY <1>1, <1>3, <2>3 DEF Coordinate
  <2> QED BY <2>1, <2>2, <2>4, ChainKept
<1>4. CASE StartCorrection
  <2>1. StoreOK'
    BY <1>2, <1>4, StoreKept DEF StoreOK, StartCorrection
  <2> QED BY <1>1, <1>4, <2>1, ChainKept DEF StartCorrection
<1>5. CASE PublishCoordination
  <2>1. StoreOK'
    BY <1>5, StoreKept DEF StoreOK, PublishCoordination
  <2>2. unpublished' \subseteq unpublished
    BY <1>5 DEF PublishCoordination
  <2> QED BY <1>1, <1>5, <2>1, <2>2, ChainKept DEF PublishCoordination
<1> QED BY <1>3, <1>4, <1>5

LEMMA ProcessExecution == ASSUME ExecutionInv, Crash \/ Restart PROVE ExecutionInv'
<1>1. CASE Crash
  <2>1. StoreOK'
    BY <1>1, StoreKept DEF StoreOK, Crash
  <2>2. /\ calls' \in [Callers -> CallStates] /\ queue' \in Seq(Callers) /\ unpublished' = {}
        /\ \A c \in Callers : calls'[c].pc = "idle"
    BY <1>1, IdleCallType DEF Crash
  <2> QED BY <2>1, <2>2 DEF StoreOK, ExecutionInv, TypeOK, SessionRows, LedgerOK, AnswerRows,
          HeadPublishes, BatchesOwned
<1>2. CASE Restart
  <2>1. StoreOK'
    BY <1>2, StoreKept DEF StoreOK, Restart
  <2>2. unpublished' = unpublished /\ unpublished \subseteq BatchRows
    BY <1>2 DEF Restart, ExecutionInv, TypeOK
  <2> QED BY <1>2, <2>1, <2>2, ChainKept DEF Restart
<1> QED BY <1>1, <1>2

LEMMA NextExecution == ExecutionInv /\ [Next]_vars => ExecutionInv'
<1> SUFFICES ASSUME ExecutionInv, [Next]_vars PROVE ExecutionInv'
  OBVIOUS
<1>1. ASSUME NEW c \in Callers, Task(c)
      PROVE  ExecutionInv'
  BY <1>1, ReplayExecution, QuietExecution, RejectExecution, ApplyExecution,
     PublishExecution DEF Task
<1>2. CASE UNCHANGED vars
  BY <1>2 DEF vars, ExecutionInv, TypeOK, Numbered, RowsComplete, HeadPublishes, BatchesOwned
<1> QED BY <1>1, <1>2, ReceiveExecution, CoordinatorExecution, ProcessExecution DEF Next

\* Every row keeps its shape in every behaviour.
THEOREM TypeCorrect == Spec => []TypeOK
<1>1. ExecutionInv => TypeOK
  BY DEF ExecutionInv
<1> QED BY <1>1, InitExecution, NextExecution, PTL DEF Spec

-----------------------------------------------------------------------------
(* One command publishes at a time *)

PublishInv == ExecutionInv /\ OneCommandPublishes

LEMMA NextPublish == PublishInv /\ [Next]_vars => PublishInv'
<1> SUFFICES ASSUME PublishInv, [Next]_vars PROVE OneCommandPublishes'
  BY NextExecution DEF PublishInv
<1>1. ExecutionInv
  BY DEF PublishInv
<1>2. ASSUME unpublished' \subseteq unpublished
      PROVE  OneCommandPublishes'
  BY <1>2 DEF PublishInv, OneCommandPublishes
<1>3. ASSUME NEW c \in Callers, Apply(c)
      PROVE  OneCommandPublishes'
  <2>1. \A b \in unpublished : b.caller = Nobody
    BY <1>1, <1>3, TurnAlone DEF Apply, Executable
  <2>2. \E size \in 1..MaxBatch : unpublished' \subseteq unpublished \cup {BatchOf(size, c)}
    BY <1>3 DEF Apply
  <2> QED BY <2>1, <2>2 DEF OneCommandPublishes
<1>4. ASSUME Coordinate
      PROVE  OneCommandPublishes'
  <2>1. unpublished' \subseteq unpublished \cup {BatchOf(1, Nobody)}
    BY <1>4 DEF Coordinate
  <2>2. BatchOf(1, Nobody).caller = Nobody
    BY DEF BatchOf
  <2> QED BY <2>1, <2>2 DEF PublishInv, OneCommandPublishes
<1>5. ASSUME NEW c \in Callers,
             Receive(c) \/ Replay(c) \/ Decline(c) \/ Reject(c) \/ RollBack(c)
      PROVE  unpublished' \subseteq unpublished
  BY <1>5 DEF Receive, Replay, Decline, Reject, RollBack
<1>6. ASSUME (\E c \in Callers : PublishAndAnswer(c)) \/ PublishCoordination
      PROVE  unpublished' \subseteq unpublished
  BY <1>6 DEF PublishAndAnswer, PublishCoordination
<1>7. ASSUME StartCorrection \/ Crash \/ Restart \/ UNCHANGED vars
      PROVE  unpublished' \subseteq unpublished
  BY <1>7 DEF StartCorrection, Crash, Restart, vars
<1> QED BY <1>2, <1>3, <1>4, <1>5, <1>6, <1>7 DEF Next, Task

LEMMA InitPublish == Init => PublishInv
BY InitExecution DEF PublishInv, Init, OneCommandPublishes

\* While the events of a command are on their way to the hub, those of no
\* other command are: the chain of the session covers publication.
THEOREM OnePublishes == Spec => []OneCommandPublishes
<1>1. PublishInv => OneCommandPublishes
  BY DEF PublishInv
<1> QED BY <1>1, InitPublish, NextPublish, PTL DEF Spec

-----------------------------------------------------------------------------
(* Answers *)

\* A decided row is never touched again.
RowsFinal ==
  \A id \in CommandIds : ledger[id].status # "absent" => ledger'[id] = ledger[id]

LEMMA DecidedOnce ==
  ASSUME ExecutionInv, NEW id \in CommandIds, ledger[id].status = "absent",
         NEW row, ledger' = [ledger EXCEPT ![id] = row]
  PROVE  RowsFinal
BY DEF ExecutionInv, TypeOK, RowsFinal

LEMMA QuietSteps ==
  ASSUME NEW c \in Callers,
         \/ Receive(c) \/ Replay(c) \/ Decline(c) \/ PublishAndAnswer(c) \/ RollBack(c)
         \/ PublishCoordination \/ Crash \/ Restart
  PROVE  UNCHANGED <<session, events, ledger>>
BY DEF Receive, Replay, Decline, PublishAndAnswer, RollBack, PublishCoordination, Crash, Restart

LEMMA RejectEffects ==
  ASSUME ExecutionInv, NEW c \in Callers, Reject(c)
  PROVE  LET row == [status |-> "failed", payload |-> calls[c].payload, firstEventSeq |-> 0,
                     response |-> [kind |-> "failed", stateVersion |-> session.stateVersion,
                                   eventSeq |-> session.nextEventSeq - 1]] IN
         /\ calls[c].id \in CommandIds /\ calls[c].payload \in Payloads
         /\ ledger[calls[c].id].status = "absent"
         /\ ledger' = [ledger EXCEPT ![calls[c].id] = row]
         /\ ledger'[calls[c].id] = row
         /\ \/ Tell(calls[c].id, calls[c].payload, row.response)
            \/ UNCHANGED answers
         /\ UNCHANGED <<session, events>>
<1>1. calls[c].id \in CommandIds /\ calls[c].payload \in Payloads
  BY TurnAlone DEF Reject, Executable
<1>2. ledger \in [CommandIds -> LedgerRows]
  BY DEF ExecutionInv, TypeOK
<1> QED BY <1>1, <1>2 DEF Reject, Executable, Registered

LEMMA ApplyDecides ==
  ASSUME ExecutionInv, NEW c \in Callers, Apply(c)
  PROVE  /\ calls[c].id \in CommandIds /\ calls[c].payload \in Payloads
         /\ ledger[calls[c].id].status = "absent"
         /\ calls[c].payload.expectedStateVersion = session.stateVersion
         /\ session.lifecycleStatus = "active" /\ UNCHANGED answers
         /\ RowsFinal
<1>1. calls[c].id \in CommandIds /\ calls[c].payload \in Payloads
  BY TurnAlone DEF Apply, Executable
<1>2. /\ ledger[calls[c].id].status = "absent"
      /\ calls[c].payload.expectedStateVersion = session.stateVersion
      /\ session.lifecycleStatus = "active" /\ UNCHANGED answers
  BY DEF Apply, Executable, Registered, CurrentVersion
<1>3. \E row : ledger' = [ledger EXCEPT ![calls[c].id] = row]
  BY DEF Apply
<1> QED BY <1>1, <1>2, <1>3, DecidedOnce

LEMMA NextRowsFinal == ASSUME ExecutionInv, [Next]_vars PROVE RowsFinal
<1>1. ASSUME NEW c \in Callers, Reject(c)
      PROVE  RowsFinal
  BY <1>1, RejectEffects, DecidedOnce
<1>2. ASSUME Coordinate \/ StartCorrection \/ UNCHANGED vars
      PROVE  RowsFinal
  BY <1>2 DEF Coordinate, StartCorrection, vars, RowsFinal
<1>3. ASSUME UNCHANGED ledger
      PROVE  RowsFinal
  BY <1>3 DEF RowsFinal
<1>4. ASSUME PublishCoordination \/ Crash \/ Restart
      PROVE  UNCHANGED ledger
  BY <1>4 DEF PublishCoordination, Crash, Restart
<1> QED BY <1>1, <1>2, <1>3, <1>4, QuietSteps, ApplyDecides DEF Next, Task

\* Every answer given is the answer of a registered row.
AnswersKnown ==
  \A a \in answers : /\ ledger[a.id].status # "absent"
                     /\ ledger[a.id].payload = a.payload
                     /\ ledger[a.id].response = a.response

AnswerInv == ExecutionInv /\ AnswersKnown

\* An answer told from a row that stands after the step is known.
LEMMA TellKnown ==
  ASSUME AnswerInv, RowsFinal, NEW id \in CommandIds, NEW payload, NEW response,
         Tell(id, payload, response), ledger'[id].status # "absent",
         ledger'[id].payload = payload, ledger'[id].response = response
  PROVE  AnswersKnown'
<1>1. answers \subseteq AnswerRows
  BY StoreIsOK DEF AnswerInv, StoreOK
<1>2. \A a \in answers : a.id \in CommandIds
  BY <1>1 DEF AnswerRows
<1>3. \A a \in answers : ledger'[a.id] = ledger[a.id]
  BY <1>2 DEF AnswerInv, AnswersKnown, RowsFinal
<1>4. answers' = answers \cup {[id |-> id, payload |-> payload, response |-> response]}
  BY DEF Tell
<1> QED BY <1>3, <1>4 DEF AnswerInv, AnswersKnown

LEMMA AnswersKept ==
  ASSUME AnswerInv, RowsFinal, UNCHANGED answers
  PROVE  AnswersKnown'
<1>1. \A a \in answers : a.id \in CommandIds
  BY StoreIsOK DEF AnswerInv, StoreOK, AnswerRows
<1> QED BY <1>1 DEF AnswerInv, AnswersKnown, RowsFinal

LEMMA NextAnswers == AnswerInv /\ [Next]_vars => AnswerInv'
<1> SUFFICES ASSUME AnswerInv, [Next]_vars PROVE AnswersKnown'
  BY NextExecution DEF AnswerInv
<1>1. ExecutionInv /\ RowsFinal
  BY NextRowsFinal DEF AnswerInv
<1>2. ASSUME NEW c \in Callers, Replay(c)
      PROVE  AnswersKnown'
  <2>1. calls[c].id \in CommandIds
    BY <1>1, <1>2, TurnAlone DEF Replay
  <2>2. /\ Tell(calls[c].id, calls[c].payload, ledger[calls[c].id].response)
        /\ ledger[calls[c].id].status # "absent"
        /\ ledger[calls[c].id].payload = calls[c].payload /\ UNCHANGED ledger
    BY <1>2 DEF Replay, Registered, SameDigest
  <2> QED BY <1>1, <2>1, <2>2, TellKnown
<1>3. ASSUME NEW c \in Callers, PublishAndAnswer(c)
      PROVE  AnswersKnown'
  <2>1. calls[c] \in CallStates /\ calls[c].pc = "publishing"
    BY <1>1, <1>3 DEF ExecutionInv, TypeOK, PublishAndAnswer
  <2>2. calls[c].id \in CommandIds
    BY <2>1, CallType
  <2>3. /\ Tell(calls[c].id, calls[c].payload, ledger[calls[c].id].response)
        /\ ledger[calls[c].id].status # "absent"
        /\ ledger[calls[c].id].payload = calls[c].payload /\ UNCHANGED ledger
    BY <1>1, <1>3, <2>1 DEF ExecutionInv, HeadPublishes, PublishAndAnswer
  <2> QED BY <1>1, <2>2, <2>3, TellKnown
<1>4. ASSUME NEW c \in Callers, Reject(c)
      PROVE  AnswersKnown'
  <2> DEFINE response == [kind |-> "failed", stateVersion |-> session.stateVersion,
                          eventSeq |-> session.nextEventSeq - 1]
  <2>1. /\ calls[c].id \in CommandIds
        /\ ledger'[calls[c].id] = [status |-> "failed", payload |-> calls[c].payload,
                                   firstEventSeq |-> 0, response |-> response]
        /\ \/ Tell(calls[c].id, calls[c].payload, response)
           \/ UNCHANGED answers
    BY <1>1, <1>4, RejectEffects, Zenon
  <2> HIDE DEF response
  <2>2. /\ ledger'[calls[c].id].status # "absent"
        /\ ledger'[calls[c].id].payload = calls[c].payload
        /\ ledger'[calls[c].id].response = response
    BY <2>1
  <2> QED BY <1>1, <2>1, <2>2, TellKnown, AnswersKept
<1>5. ASSUME UNCHANGED answers
      PROVE  AnswersKnown'
  BY <1>1, <1>5, AnswersKept
<1>6. ASSUME NEW c \in Callers, Receive(c) \/ Decline(c) \/ Apply(c) \/ RollBack(c)
      PROVE  UNCHANGED answers
  BY <1>6 DEF Receive, Decline, Apply, RollBack
<1>7. ASSUME Coordinate \/ StartCorrection \/ PublishCoordination \/ Crash \/ Restart
             \/ UNCHANGED vars
      PROVE  UNCHANGED answers
  BY <1>7 DEF Coordinate, StartCorrection, PublishCoordination, Crash, Restart, vars
<1> QED BY <1>2, <1>3, <1>4, <1>5, <1>6, <1>7 DEF Next, Task

\* Whatever was answered once is what the ledger answers for ever, across
\* repetitions, lost commits and crashes.
THEOREM AnswersFinal == Spec => []AnswersAreFinal
<1>1. Init => AnswerInv
  BY InitExecution DEF Init, AnswerInv, AnswersKnown
<1>2. AnswerInv => AnswersAreFinal
  BY DEF AnswerInv, AnswersKnown, AnswersAreFinal
<1> QED BY <1>1, <1>2, NextAnswers, PTL DEF Spec

-----------------------------------------------------------------------------
(* The stored facts of a session stay recoverable *)

\* The appended events: numbered without a gap, all from and to one version.
LEMMA NewEventFacts ==
  ASSUME ExecutionInv, NEW size \in 1..MaxBatch, NEW version \in Nat, NEW id
  PROVE  LET first == session.nextEventSeq  new == NewEvents(size, version, id) IN
         /\ first \in Nat /\ first >= 2 /\ size \in Nat /\ size >= 1
         /\ \A e \in new : /\ e.seq \in first..(first + size - 1)
                           /\ e.before = session.stateVersion /\ e.after = version
                           /\ e.by = id
         /\ \A s \in first..(first + size - 1) : \E e \in new : e.seq = s
         /\ \A d, e \in new : d.seq = e.seq => d = e
<1>1. /\ session.nextEventSeq \in Nat /\ session.nextEventSeq >= 2
      /\ size \in Nat /\ size >= 1
  BY SessionCommandsAssumption DEF ExecutionInv, TypeOK, Numbered
<1> DEFINE new == NewEvents(size, version, id)
           row(s) == [seq |-> s, before |-> session.stateVersion, after |-> version, by |-> id]
           numbers == session.nextEventSeq..(session.nextEventSeq + size - 1)
<1>2. new = {row(s) : s \in numbers}
  BY DEF NewEvents
<1>3. \A s : /\ row(s).seq = s /\ row(s).before = session.stateVersion
             /\ row(s).after = version /\ row(s).by = id
  OBVIOUS
<1> HIDE DEF row, numbers, new
<1>4. \A e \in new : /\ e.seq \in numbers /\ e.before = session.stateVersion
                     /\ e.after = version /\ e.by = id /\ e = row(e.seq)
  BY <1>2, <1>3
<1>5. \A s \in numbers : \E e \in new : e.seq = s
  BY <1>2, <1>3
<1>6. \A d, e \in new : d.seq = e.seq => d = e
  BY <1>4
<1> QED BY <1>1, <1>4, <1>5, <1>6 DEF new, numbers

LEMMA PersistRecoverable ==
  ASSUME ExecutionInv, Recoverable, NEW size \in 1..MaxBatch, NEW version \in Nat,
         version \in {session.stateVersion, session.stateVersion + 1},
         NEW lifecycle \in Lifecycles, NEW id \in CommandIds \cup {NoCommand}, NEW hand \in Nat,
         version = session.stateVersion => hand = session.currentHandId,
         lifecycle = "ended" => hand = NoHand,
         Persist(size, version, lifecycle, hand, id)
  PROVE  Recoverable'
<1> DEFINE first == session.nextEventSeq
           new == NewEvents(size, version, id)
<1>1. /\ first \in Nat /\ first >= 2 /\ size \in Nat /\ size >= 1
      /\ \A e \in new : /\ e.seq \in first..(first + size - 1)
                        /\ e.before = session.stateVersion /\ e.after = version
      /\ \A s \in first..(first + size - 1) : \E e \in new : e.seq = s
      /\ \A d, e \in new : d.seq = e.seq => d = e
  BY NewEventFacts
<1>2. /\ events' = events \cup new
      /\ session'.nextEventSeq = first + size
      /\ session'.stateVersion = version
  BY PersistType
<1> HIDE DEF new
<1>3. /\ {e.seq : e \in events} = 0..(first - 1)
      /\ \A d, e \in events : d.seq = e.seq => d = e
  BY DEF Recoverable, ExactEventSequence
<1>4. \A e \in events : e.seq \in 0..(first - 1)
  BY <1>3
<1>5. \A s \in 0..(first - 1) : \E e \in events : e.seq = s
  BY <1>3
<1> HIDE DEF first
<1>6. ExactEventSequence'
  <2>1. \A e \in events' : e.seq \in 0..(first + size - 1)
    BY <1>1, <1>2, <1>4
  <2>2. ASSUME NEW s \in 0..(first + size - 1)
        PROVE  \E e \in events' : e.seq = s
    <3>1. CASE s \in 0..(first - 1)
      BY <1>2, <1>5, <3>1
    <3>2. CASE s \in first..(first + size - 1)
      BY <1>1, <1>2, <3>2
    <3> QED BY <1>1, <3>1, <3>2
  <2>3. {e.seq : e \in events'} = 0..(first + size - 1)
    BY <2>1, <2>2
  <2>4. ASSUME NEW d \in events', NEW e \in events', d.seq = e.seq
        PROVE  d = e
    BY <1>1, <1>2, <1>3, <1>4, <2>4
  <2>5. session'.nextEventSeq - 1 = first + size - 1
    BY <1>1, <1>2
  <2> QED BY <2>3, <2>4, <2>5 DEF ExactEventSequence
<1>7. \A e \in events : e.seq = first - 1 => e.after = session.stateVersion
  BY <1>1, <1>4 DEF Recoverable, first
<1>8. ValidVersionChain'
  <2>0. session.stateVersion \in Nat
    BY DEF ExecutionInv, TypeOK
  <2>1. ASSUME NEW e \in events
        PROVE  /\ e.after \in {e.before, e.before + 1}
               /\ e.seq = 0 => e.before = 0
               /\ \A d \in events : d.seq + 1 = e.seq =>
                    (e.before = d.before /\ e.after = d.after) \/ e.before = d.after
    BY DEF Recoverable, ValidVersionChain
  <2>2. ASSUME NEW e \in events, NEW d \in new
        PROVE  d.seq + 1 # e.seq
    BY <1>1, <1>4
  <2>3. ASSUME NEW e \in new
        PROVE  /\ e.after \in {e.before, e.before + 1} /\ e.seq # 0
    BY <1>1
  <2>4. ASSUME NEW e \in new, NEW d \in events, d.seq + 1 = e.seq
        PROVE  e.before = d.after
    BY <1>1, <1>4, <1>7, <2>4
  <2>5. ASSUME NEW e \in new, NEW d \in new
        PROVE  e.before = d.before /\ e.after = d.after
    BY <1>1
  <2> QED BY <1>2, <2>1, <2>2, <2>3, <2>4, <2>5 DEF ValidVersionChain
<1>9. \A e \in events' : e.seq + 1 = session'.nextEventSeq => e.after = session'.stateVersion
  BY <1>1, <1>2, <1>4
<1>10. /\ session'.lifecycleStatus = lifecycle /\ session'.stateVersion = version
       /\ session'.currentHandId = hand
       /\ session'.snapshot = SnapshotAfter(version, hand)
       /\ session'.handsInProgress = HandRows(hand)
  BY DEF Persist
<1>11. /\ session.handsInProgress = {session.snapshot.handId} \ {NoHand}
       /\ session.snapshot.stateVersion = session.stateVersion
       /\ session.currentHandId = session.snapshot.handId
  BY DEF Recoverable, ValidHandRelationship
<1>12. SnapshotAfter(version, hand).stateVersion = version
       /\ SnapshotAfter(version, hand).handId = hand
  BY <1>11 DEF SnapshotAfter
<1>13. HandRows(hand) = {hand} \ {NoHand}
  BY <1>11 DEF HandRows
<1>14. ValidHandRelationship'
  BY <1>10, <1>12, <1>13 DEF ValidHandRelationship
<1> QED BY <1>6, <1>8, <1>9, <1>10, <1>12, <1>14 DEF Recoverable

HistoryInv == ExecutionInv /\ HistoryRecoverable

LEMMA NextHistory == HistoryInv /\ [Next]_vars => HistoryInv'
<1> SUFFICES ASSUME HistoryInv, [Next]_vars PROVE Recoverable'
  BY NextExecution DEF HistoryInv, HistoryRecoverable
<1>1. ExecutionInv /\ Recoverable
  BY DEF HistoryInv, HistoryRecoverable
<1>2. ASSUME UNCHANGED <<session, events>>
      PROVE  Recoverable'
  BY <1>1, <1>2 DEF Recoverable, ExactEventSequence, ValidVersionChain, ValidHandRelationship
<1>3. ASSUME NEW c \in Callers, Apply(c)
      PROVE  Recoverable'
  <2>1. PICK size \in 1..MaxBatch, effect \in Effects(calls[c].payload) :
          Persist(size, effect[2], effect[1], effect[3], calls[c].id)
    BY <1>3 DEF Apply
  <2>2. calls[c].id \in CommandIds
    BY <1>1, <1>3, ApplyDecides
  <2>3. /\ effect[1] \in Lifecycles /\ effect[2] \in Nat /\ effect[3] \in Nat
        /\ effect[2] \in {session.stateVersion, session.stateVersion + 1}
        /\ effect[1] = "ended" => effect[3] = NoHand
        /\ effect[2] = session.stateVersion => effect[3] = session.currentHandId
    BY <1>1, EffectType DEF Recoverable
  <2> QED BY <1>1, <2>1, <2>2, <2>3, PersistRecoverable
<1>4. ASSUME Coordinate \/ StartCorrection
      PROVE  Recoverable'
  <2>1. /\ Persist(1, session.stateVersion, "active", session.currentHandId, NoCommand)
        /\ session.stateVersion \in Nat /\ session.currentHandId \in Nat
        /\ 1 \in 1..MaxBatch
    BY <1>1, <1>4, SessionCommandsAssumption
       DEF Coordinate, StartCorrection, ExecutionInv, TypeOK
  <2> QED BY <1>1, <2>1, PersistRecoverable DEF Lifecycles
<1>5. ASSUME NEW c \in Callers, Reject(c)
      PROVE  UNCHANGED <<session, events>>
  BY <1>5 DEF Reject
<1>6. ASSUME PublishCoordination \/ Crash \/ Restart \/ UNCHANGED vars
      PROVE  UNCHANGED <<session, events>>
  BY <1>6 DEF PublishCoordination, Crash, Restart, vars
<1> QED BY <1>2, <1>3, <1>4, <1>5, <1>6, QuietSteps DEF Next, Task

LEMMA InitHistory == Init => HistoryInv
<1>1. ASSUME Init
      PROVE  Recoverable
  <2>1. /\ session.nextEventSeq = 2 /\ session.stateVersion = 1
        /\ \A e \in events : e.seq \in {0, 1} /\ e.before = 0 /\ e.after = 1
        /\ \A s \in {0, 1} : \E e \in events : e.seq = s
        /\ \A d, e \in events : d.seq = e.seq => d = e
    <3> DEFINE row(s) == [seq |-> s, before |-> 0, after |-> 1, by |-> NoCommand]
    <3>1. events = {row(s) : s \in {0, 1}}
      BY <1>1 DEF Init
    <3>2. \A s : row(s).seq = s /\ row(s).before = 0 /\ row(s).after = 1
      OBVIOUS
    <3> HIDE DEF row
    <3>3. \A e \in events : e.seq \in {0, 1} /\ e.before = 0 /\ e.after = 1 /\ e = row(e.seq)
      BY <3>1, <3>2
    <3>4. \A s \in {0, 1} : \E e \in events : e.seq = s
      BY <3>1, <3>2
    <3>5. session.nextEventSeq = 2 /\ session.stateVersion = 1
      BY <1>1 DEF Init
    <3> QED BY <3>3, <3>4, <3>5
  <2>2. {e.seq : e \in events} = {0, 1} /\ {0, 1} = 0..(2 - 1)
    BY <2>1
  <2>3. /\ session.snapshot.stateVersion = 1 /\ session.snapshot.handId = 1
        /\ session.currentHandId = 1 /\ session.handsInProgress = {1}
        /\ session.lifecycleStatus = "active"
    BY <1>1 DEF Init
  <2>4. ValidHandRelationship
    BY <2>3 DEF ValidHandRelationship, NoHand
  <2> QED BY <2>1, <2>2, <2>3, <2>4 DEF Recoverable, ExactEventSequence, ValidVersionChain
<1> QED BY <1>1, InitExecution DEF HistoryInv, HistoryRecoverable

\* No history of commands, coordination, failures and crashes leaves facts
\* that the recovery would diagnose.
THEOREM AlwaysRecoverable == Spec => []HistoryRecoverable
<1>1. HistoryInv => HistoryRecoverable
  BY DEF HistoryInv
<1> QED BY <1>1, InitHistory, NextHistory, PTL DEF Spec

-----------------------------------------------------------------------------
(* Ledger and event log tell one story *)

Own(id) == {e \in events : e.by = id}

\* LedgerMatchesLog for one command.
Story(id) ==
  /\ ledger[id].status = "completed" =>
       /\ {e.seq : e \in Own(id)} = ledger[id].firstEventSeq..ledger[id].response.eventSeq
       /\ \A e \in Own(id) : /\ e.before = ledger[id].payload.expectedStateVersion
                             /\ e.after = ledger[id].response.stateVersion
  /\ ledger[id].status # "completed" => Own(id) = {}

LEMMA StoryIsLedger == LedgerMatchesLog <=> \A id \in CommandIds : Story(id)
BY DEF LedgerMatchesLog, Story, Own

\* Events of others do not change the story of a command.
LEMMA StoryKept ==
  ASSUME NEW id \in CommandIds, Story(id), ledger'[id] = ledger[id], Own(id)' = Own(id)
  PROVE  Story(id)'
BY DEF Story

LEMMA OthersAppend ==
  ASSUME ExecutionInv, NEW id, NEW by, by # id, NEW size \in 1..MaxBatch,
         NEW version \in Nat, events' = events \cup NewEvents(size, version, by)
  PROVE  Own(id)' = Own(id)
<1>1. \A e \in NewEvents(size, version, by) : e.by = by
  BY NewEventFacts
<1> QED BY <1>1 DEF Own

StoryInv == ExecutionInv /\ LedgerMatchesLog

LEMMA ApplyStory ==
  ASSUME StoryInv, NEW c \in Callers, Apply(c)
  PROVE  \A id \in CommandIds : Story(id)'
<1>1. ExecutionInv /\ \A id \in CommandIds : Story(id)
  BY StoryIsLedger DEF StoryInv
<1>2. PICK size \in 1..MaxBatch, effect \in Effects(calls[c].payload) :
        /\ Persist(size, effect[2], effect[1], effect[3], calls[c].id)
        /\ ledger' = [ledger EXCEPT ![calls[c].id] = AppliedRow(c, size, effect[2])]
  BY <1>1, ApplyEffects
<1>3. /\ calls[c].id \in CommandIds /\ ledger[calls[c].id].status = "absent"
      /\ calls[c].payload.expectedStateVersion = session.stateVersion
  BY <1>1, ApplyDecides
<1>4. ledger \in [CommandIds -> LedgerRows] /\ effect[2] \in Nat
  BY <1>1, EffectType DEF ExecutionInv, TypeOK
<1> PICK own \in CommandIds : own = calls[c].id
  BY <1>3
<1> DEFINE new == NewEvents(size, effect[2], own)
           first == session.nextEventSeq
<1>5. events' = events \cup new
  BY <1>2 DEF Persist
<1>6. /\ first \in Nat /\ size \in Nat
      /\ \A e \in new : /\ e.seq \in first..(first + size - 1)
                        /\ e.before = session.stateVersion /\ e.after = effect[2]
                        /\ e.by = own
      /\ \A s \in first..(first + size - 1) : \E e \in new : e.seq = s
  BY <1>1, <1>4, NewEventFacts
<1>7. ledger'[own] = AppliedRow(c, size, effect[2])
      /\ \A id \in CommandIds : id # own => ledger'[id] = ledger[id]
  BY <1>2, <1>3, <1>4
<1>8. /\ ledger'[own].status = "completed" /\ ledger'[own].payload = calls[c].payload
      /\ ledger'[own].firstEventSeq = first
      /\ ledger'[own].response.eventSeq = first + size - 1
      /\ ledger'[own].response.stateVersion = effect[2]
  BY <1>7 DEF AppliedRow, AppliedResponse
<1>9. ASSUME NEW id \in CommandIds, id # own
      PROVE  Story(id)'
  BY <1>1, <1>4, <1>5, <1>7, <1>9, OthersAppend, StoryKept
<1> HIDE DEF new
<1>10. Own(own) = {}
  BY <1>1, <1>3 DEF Story
<1> HIDE DEF first
<1>11. {e \in events' : e.by = own} = new
  BY <1>5, <1>6, <1>10 DEF Own
<1>12. {e.seq : e \in new} = first..(first + size - 1)
  BY <1>6
<1>13. Story(own)'
  BY <1>3, <1>6, <1>8, <1>11, <1>12 DEF Story, Own
<1> QED BY <1>9, <1>13

LEMMA NextStory == StoryInv /\ [Next]_vars => StoryInv'
<1> SUFFICES ASSUME StoryInv, [Next]_vars PROVE \A id \in CommandIds : Story(id)'
  BY NextExecution, StoryIsLedger DEF StoryInv, LedgerMatchesLog, Story, Own
<1>1. ExecutionInv /\ \A id \in CommandIds : Story(id)
  BY StoryIsLedger DEF StoryInv
<1>2. ASSUME UNCHANGED <<events, ledger>>
      PROVE  \A id \in CommandIds : Story(id)'
  BY <1>1, <1>2, StoryKept DEF Own
<1>3. ASSUME NEW c \in Callers, Reject(c)
      PROVE  \A id \in CommandIds : Story(id)'
  <2> DEFINE row == [status |-> "failed", payload |-> calls[c].payload, firstEventSeq |-> 0,
                     response |-> [kind |-> "failed", stateVersion |-> session.stateVersion,
                                   eventSeq |-> session.nextEventSeq - 1]]
  <2>1. /\ calls[c].id \in CommandIds /\ ledger[calls[c].id].status = "absent"
        /\ UNCHANGED events /\ ledger' = [ledger EXCEPT ![calls[c].id] = row]
    BY <1>1, <1>3, RejectEffects, Zenon
  <2>row. row.status = "failed"
    OBVIOUS
  <2> HIDE DEF row
  <2>2. PICK own \in CommandIds : own = calls[c].id
    BY <2>1
  <2>3. /\ ledger'[own].status = "failed"
        /\ \A id \in CommandIds : id # own => ledger'[id] = ledger[id]
    BY <1>1, <2>1, <2>2, <2>row DEF ExecutionInv, TypeOK
  <2>4. Own(own) = {} /\ \A id \in CommandIds : Own(id)' = Own(id)
    BY <1>1, <2>1, <2>2 DEF Story, Own
  <2>5. Story(own)'
    BY <2>3, <2>4 DEF Story
  <2>6. ASSUME NEW id \in CommandIds, id # own
        PROVE  Story(id)'
    BY <1>1, <2>3, <2>4, <2>6, StoryKept
  <2> QED BY <2>5, <2>6
<1>4. ASSUME Coordinate \/ StartCorrection, NEW id \in CommandIds
      PROVE  Story(id)'
  <2>1. /\ Persist(1, session.stateVersion, "active", session.currentHandId, NoCommand)
        /\ UNCHANGED ledger
        /\ session.stateVersion \in Nat /\ session.currentHandId \in Nat
        /\ 1 \in 1..MaxBatch /\ id # NoCommand
    BY <1>1, <1>4, SessionCommandsAssumption
       DEF Coordinate, StartCorrection, ExecutionInv, TypeOK, CommandIds
  <2>2. events' = events \cup NewEvents(1, session.stateVersion, NoCommand)
    BY <2>1 DEF Persist
  <2> QED BY <1>1, <2>1, <2>2, OthersAppend, StoryKept
<1>5. ASSUME PublishCoordination \/ Crash \/ Restart \/ UNCHANGED vars
      PROVE  UNCHANGED <<events, ledger>>
  BY <1>5 DEF PublishCoordination, Crash, Restart, vars
<1> QED BY <1>2, <1>3, <1>4, <1>5, QuietSteps, ApplyStory DEF Next, Task

LEMMA InitStory == Init => StoryInv
<1>1. ASSUME Init
      PROVE  \A id \in CommandIds : Story(id)
  <2>1. \A e \in events : e.by = NoCommand
    BY <1>1 DEF Init
  <2>2. \A id \in CommandIds : ledger[id].status = "absent" /\ id # NoCommand
    BY <1>1, AbsentRowType, SessionCommandsAssumption DEF Init, CommandIds
  <2> QED BY <2>1, <2>2 DEF Story, Own
<1> QED BY <1>1, InitExecution, StoryIsLedger DEF StoryInv

\* A completed command owns exactly the events of its range, all one step from
\* the version it expected; refused and unknown commands own none.
THEOREM LedgerTellsLog == Spec => []LedgerMatchesLog
<1>1. StoryInv => LedgerMatchesLog
  BY DEF StoryInv
<1> QED BY <1>1, InitStory, NextStory, PTL DEF Spec

-----------------------------------------------------------------------------
(* Commands are decided once: the refinement *)

OutcomeOf(id) == IF ledger[id].status = "absent" THEN [kind |-> "none"] ELSE Decision(id)

Outcome == [id \in CommandIds |-> OutcomeOf(id)]

ReportOf(a) == <<a.id, [kind |-> a.response.kind, payload |-> a.payload,
                        version |-> a.response.stateVersion]>>

Reported == {ReportOf(a) : a \in answers}

DecisionOf(row) == [kind |-> row.status, payload |-> row.payload,
                    version |-> row.response.stateVersion]

\* Deciding an absent row decides the outcome of its command and no other.
LEMMA DecideOutcome ==
  ASSUME ExecutionInv, NEW id \in CommandIds, ledger[id].status = "absent",
         NEW row, row.status # "absent", ledger' = [ledger EXCEPT ![id] = row]
  PROVE  /\ Outcome[id] = [kind |-> "none"]
         /\ Outcome' = [Outcome EXCEPT ![id] = DecisionOf(row)]
<1>1. /\ ledger'[id] = row
      /\ \A other \in CommandIds : other # id => ledger'[other] = ledger[other]
  BY DEF ExecutionInv, TypeOK
<1>2. OutcomeOf(id)' = DecisionOf(row)
  BY <1>1 DEF OutcomeOf, Decision, DecisionOf
<1>3. \A other \in CommandIds : other # id => OutcomeOf(other)' = OutcomeOf(other)
  BY <1>1 DEF OutcomeOf, Decision
<1>4. Outcome' = [other \in CommandIds |-> OutcomeOf(other)']
  BY DEF Outcome
<1>5. Outcome' = [Outcome EXCEPT ![id] = DecisionOf(row)]
  BY <1>2, <1>3, <1>4 DEF Outcome
<1> QED BY <1>5 DEF Outcome, OutcomeOf

\* Telling the answer of a row reports the outcome of its command.
LEMMA TellReports ==
  ASSUME NEW id \in CommandIds, NEW payload, NEW response, Tell(id, payload, response),
         ledger'[id].status # "absent", ledger'[id].payload = payload,
         ledger'[id].response = response, response.kind = ledger'[id].status
  PROVE  Reported' = Reported \cup {<<id, Outcome'[id]>>}
<1> DEFINE told == [id |-> id, payload |-> payload, response |-> response]
<1>1. answers' = answers \cup {told}
  BY DEF Tell
<1>2. ReportOf(told) = <<id, [kind |-> response.kind, payload |-> payload,
                              version |-> response.stateVersion]>>
  BY DEF ReportOf
<1>3. Outcome'[id] = [kind |-> response.kind, payload |-> payload,
                      version |-> response.stateVersion]
  BY DEF Outcome, OutcomeOf, Decision
<1> HIDE DEF told
<1>4. Reported' = Reported \cup {ReportOf(told)}
  BY <1>1 DEF Reported
<1> QED BY <1>2, <1>3, <1>4

\* The abstract actions, said with the names of this module.
LEMMA AbstractReport ==
  ASSUME NEW id
  PROVE  Outcomes!Report(id) <=> Reported' = Reported \cup {<<id, Outcome'[id]>>}
BY DEF Outcomes!Report, Reported, ReportOf, Outcome, OutcomeOf

LEMMA AbstractDecide ==
  ASSUME NEW id \in CommandIds, NEW payload \in Payloads,
         session.lifecycleStatus = "active", Outcome[id] = [kind |-> "none"],
         \/ /\ payload.expectedStateVersion = session.stateVersion
            /\ session'.stateVersion \in {session.stateVersion, session.stateVersion + 1}
            /\ Outcome' = [Outcome EXCEPT ![id] =
                 [kind |-> "completed", payload |-> payload, version |-> session'.stateVersion]]
         \/ /\ Outcome' = [Outcome EXCEPT ![id] =
                 [kind |-> "failed", payload |-> payload, version |-> session.stateVersion]]
            /\ UNCHANGED session,
         UNCHANGED answers \/ Outcomes!Report(id)
  PROVE  Outcomes!Decide
<1>1. Outcomes!Apply(id, payload) <=>
        /\ payload.expectedStateVersion = session.stateVersion
        /\ session'.stateVersion \in {session.stateVersion, session.stateVersion + 1}
        /\ Outcome' = [Outcome EXCEPT ![id] =
             [kind |-> "completed", payload |-> payload, version |-> session'.stateVersion]]
  BY DEF Outcomes!Apply, Outcomes!Applied, Outcome, OutcomeOf
<1>2. UNCHANGED session /\ Outcome' = [Outcome EXCEPT ![id] =
             [kind |-> "failed", payload |-> payload, version |-> session.stateVersion]]
        => Outcomes!Refuse(id, payload)
  BY DEF Outcomes!Refuse, Outcomes!Refused, Outcome, OutcomeOf
<1>3. Outcomes!Apply(id, payload) \/ Outcomes!Refuse(id, payload)
  BY <1>1, <1>2
<1>4. Outcome[id] = Outcomes!Undecided
  BY DEF Outcomes!Undecided
<1> QED BY <1>3, <1>4 DEF Outcomes!Decide, Outcome, OutcomeOf

\* A step that moves neither version, lifecycle, rows nor answers is invisible.
LEMMA InvisibleStep ==
  ASSUME session'.stateVersion = session.stateVersion,
         session'.lifecycleStatus = session.lifecycleStatus,
         UNCHANGED <<ledger, answers>>
  PROVE  UNCHANGED Outcomes!tableVars
BY DEF Outcomes!tableVars, Decision

\* A registered row answers its command.
LEMMA AbstractAnswer ==
  ASSUME ExecutionInv, NEW id \in CommandIds, NEW payload, ledger[id].status # "absent",
         ledger[id].payload = payload, Tell(id, payload, ledger[id].response),
         UNCHANGED <<session, ledger>>
  PROVE  Outcomes!Answer
<1>1. ledger[id].response.kind = ledger[id].status
  BY DEF ExecutionInv, RowsComplete
<1>2. Outcomes!Report(id)
  BY <1>1, TellReports, AbstractReport
<1>3. Outcome[id] # Outcomes!Undecided
  <2>1. Outcome[id].kind = ledger[id].status
    BY DEF Outcome, OutcomeOf, Decision
  <2>2. ledger[id].status # "none"
    BY DEF ExecutionInv, TypeOK, LedgerRows
  <2> QED BY <2>1, <2>2 DEF Outcomes!Undecided
<1> QED BY <1>2, <1>3 DEF Outcomes!Answer, Outcome, OutcomeOf, Decision

LEMMA ApplyImplements ==
  ASSUME ExecutionInv, NEW c \in Callers, Apply(c)
  PROVE  Outcomes!Decide
<1>1. PICK size \in 1..MaxBatch, effect \in Effects(calls[c].payload) :
        /\ Persist(size, effect[2], effect[1], effect[3], calls[c].id)
        /\ ledger' = [ledger EXCEPT ![calls[c].id] = AppliedRow(c, size, effect[2])]
  BY ApplyEffects
<1>2. /\ calls[c].id \in CommandIds /\ calls[c].payload \in Payloads
      /\ ledger[calls[c].id].status = "absent"
      /\ calls[c].payload.expectedStateVersion = session.stateVersion
      /\ session.lifecycleStatus = "active" /\ UNCHANGED answers
  BY ApplyDecides
<1>3. PICK id \in CommandIds, payload \in Payloads :
        id = calls[c].id /\ payload = calls[c].payload
  BY <1>2
<1>4. /\ session'.stateVersion = effect[2]
      /\ effect[2] \in {session.stateVersion, session.stateVersion + 1}
  BY <1>1, <1>2, EffectType, PersistType
<1> DEFINE row == AppliedRow(c, size, effect[2])
<1>5. /\ row.status = "completed"
      /\ DecisionOf(row) = [kind |-> "completed", payload |-> payload, version |-> effect[2]]
  BY <1>3 DEF AppliedRow, AppliedResponse, DecisionOf
<1>6. ledger' = [ledger EXCEPT ![id] = row]
  BY <1>1, <1>3
<1> HIDE DEF row
<1>7. Outcome[id] = [kind |-> "none"] /\ Outcome' = [Outcome EXCEPT ![id] = DecisionOf(row)]
  BY <1>2, <1>3, <1>5, <1>6, DecideOutcome
<1> QED BY <1>2, <1>3, <1>4, <1>5, <1>7, AbstractDecide

LEMMA RejectImplements ==
  ASSUME ExecutionInv, NEW c \in Callers, Reject(c)
  PROVE  Outcomes!Decide
<1> DEFINE response == [kind |-> "failed", stateVersion |-> session.stateVersion,
                        eventSeq |-> session.nextEventSeq - 1]
           row == [status |-> "failed", payload |-> calls[c].payload, firstEventSeq |-> 0,
                   response |-> response]
<1>1. /\ calls[c].id \in CommandIds /\ calls[c].payload \in Payloads
      /\ ledger[calls[c].id].status = "absent"
      /\ ledger' = [ledger EXCEPT ![calls[c].id] = row] /\ ledger'[calls[c].id] = row
      /\ UNCHANGED <<session, events>>
  BY RejectEffects, Zenon
<1>2. \/ Tell(calls[c].id, calls[c].payload, response)
      \/ UNCHANGED answers
  BY DEF Reject
<1>3. session.lifecycleStatus = "active"
  BY DEF Reject, Executable
<1>4. PICK id \in CommandIds, payload \in Payloads :
        id = calls[c].id /\ payload = calls[c].payload
  BY <1>1
<1>5. /\ row.status = "failed" /\ row.payload = payload /\ row.response = response
      /\ response.kind = "failed"
      /\ DecisionOf(row) = [kind |-> "failed", payload |-> payload,
                            version |-> session.stateVersion]
  BY <1>4 DEF DecisionOf
<1> HIDE DEF row, response
<1>6. Outcome[id] = [kind |-> "none"] /\ Outcome' = [Outcome EXCEPT ![id] = DecisionOf(row)]
  BY <1>1, <1>4, <1>5, DecideOutcome
<1>7. Tell(id, payload, response) => Outcomes!Report(id)
  <2> SUFFICES ASSUME Tell(id, payload, response) PROVE Outcomes!Report(id)
    OBVIOUS
  <2>1. /\ ledger'[id].status # "absent" /\ ledger'[id].payload = payload
        /\ ledger'[id].response = response /\ response.kind = ledger'[id].status
    BY <1>1, <1>4, <1>5
  <2> QED BY <2>1, TellReports, AbstractReport
<1>8. UNCHANGED answers \/ Outcomes!Report(id)
  BY <1>2, <1>4, <1>7
<1> QED BY <1>1, <1>3, <1>5, <1>6, <1>8, AbstractDecide

LEMMA NextOutcomes == ExecutionInv /\ [Next]_vars => [Outcomes!Next]_(Outcomes!tableVars)
<1> SUFFICES ASSUME ExecutionInv, [Next]_vars
             PROVE  Outcomes!Next \/ UNCHANGED Outcomes!tableVars
  OBVIOUS
<1>1. ASSUME NEW c \in Callers, Apply(c) \/ Reject(c)
      PROVE  Outcomes!Next
  BY <1>1, ApplyImplements, RejectImplements DEF Outcomes!Next
<1>2. ASSUME NEW c \in Callers, Replay(c)
      PROVE  Outcomes!Next
  <2>1. calls[c].id \in CommandIds
    BY <1>2, TurnAlone DEF Replay
  <2>2. PICK id \in CommandIds : id = calls[c].id
    BY <2>1
  <2>3. PICK payload : payload = calls[c].payload
    OBVIOUS
  <2>4. /\ ledger[id].status # "absent" /\ ledger[id].payload = payload
        /\ Tell(id, payload, ledger[id].response) /\ UNCHANGED <<session, ledger>>
    BY <1>2, <2>2, <2>3 DEF Replay, Registered, SameDigest
  <2> QED BY <2>4, AbstractAnswer DEF Outcomes!Next
<1>3. ASSUME NEW c \in Callers, PublishAndAnswer(c)
      PROVE  Outcomes!Next
  <2>1. calls[c] \in CallStates /\ calls[c].pc = "publishing"
    BY <1>3 DEF ExecutionInv, TypeOK, PublishAndAnswer
  <2>2. PICK id \in CommandIds : id = calls[c].id
    BY <2>1, CallType
  <2>3. PICK payload : payload = calls[c].payload
    OBVIOUS
  <2>4. /\ ledger[id].status # "absent" /\ ledger[id].payload = payload
        /\ Tell(id, payload, ledger[id].response) /\ UNCHANGED <<session, ledger>>
    BY <1>3, <2>1, <2>2, <2>3 DEF ExecutionInv, HeadPublishes, PublishAndAnswer
  <2> QED BY <2>4, AbstractAnswer DEF Outcomes!Next
<1>4. ASSUME Coordinate \/ StartCorrection
      PROVE  UNCHANGED Outcomes!tableVars
  <2>1. /\ Persist(1, session.stateVersion, "active", session.currentHandId, NoCommand)
        /\ session.lifecycleStatus = "active" /\ UNCHANGED <<ledger, answers>>
    BY <1>4 DEF Coordinate, StartCorrection
  <2>2. session'.stateVersion = session.stateVersion /\ session'.lifecycleStatus = "active"
    BY <2>1 DEF Persist
  <2> QED BY <2>1, <2>2, InvisibleStep
<1>5. ASSUME UNCHANGED <<session, ledger, answers>>
      PROVE  UNCHANGED Outcomes!tableVars
  BY <1>5, InvisibleStep
<1>6. ASSUME NEW c \in Callers, Receive(c) \/ Decline(c) \/ RollBack(c)
      PROVE  UNCHANGED <<session, ledger, answers>>
  BY <1>6 DEF Receive, Decline, RollBack
<1>7. ASSUME PublishCoordination \/ Crash \/ Restart \/ UNCHANGED vars
      PROVE  UNCHANGED <<session, ledger, answers>>
  BY <1>7 DEF PublishCoordination, Crash, Restart, vars
<1> QED BY <1>1, <1>2, <1>3, <1>4, <1>5, <1>6, <1>7 DEF Next, Task

\* Retries, conflicts, rollbacks, unknown commits and crashes are invisible to
\* clients: each command id is decided once, an applied command moves the
\* session from the version it was meant for, and every answer reports that
\* one decision.
THEOREM ExecutionImplementsOutcomes == Spec => ImplementsOutcomes
<1>1. Init => Outcomes!Init
  BY AbsentRowType DEF Init, Outcomes!Init, Outcomes!Undecided
<1> QED BY <1>1, InitExecution, NextExecution, NextOutcomes, PTL
        DEF Spec, ImplementsOutcomes, Outcomes!Spec

-----------------------------------------------------------------------------
(* Commands, coordinator writes, lost acknowledgements and crashes are, to  *)
(* a reader of events, the log of CommittedLog.                             *)

\* The log and the hand-over of CommittedLog, read off the stored rows.
LogEntry(i) == [version |-> EventAt(i).after, ended |-> EndsSession(EventAt(i))]

LogOf == [i \in 1..session.nextEventSeq |-> LogEntry(i)]

PubOf(b) == [first |-> b.first, last |-> b.last, ordered |-> b.caller # Nobody]

Pub == {PubOf(b) : b \in unpublished}

LEMMA LogMapped ==
  /\ Log!LogInit <=> /\ LogOf = [i \in 1..2 |-> [version |-> 1, ended |-> FALSE]]
                     /\ Pub = {}
  /\ Log!LogNext <=> (\E b \in Pub : Log!Publish(b)) \/ Log!LoseUnpublished \/ Log!Commit
  /\ Log!LastSeq = Len(LogOf) - 1
  /\ Log!LoseUnpublished <=> Pub' = {} /\ LogOf' = LogOf
BY DEF Log!LogInit, Log!LogNext, Log!LastSeq, Log!logVars, Log!LoseUnpublished, LogOf, LogEntry,
       Pub, PubOf

LEMMA StutterMapped == (UNCHANGED Log!logVars) <=> LogOf' = LogOf /\ Pub' = Pub
BY DEF Log!logVars, LogOf, LogEntry, Pub, PubOf

LEMMA PublishMapped ==
  ASSUME NEW b
  PROVE  Log!Publish(b) <=> b \in Pub /\ Pub' = Pub \ {b} /\ LogOf' = LogOf
BY DEF Log!Publish, LogOf, LogEntry, Pub, PubOf

LEMMA AppendMapped ==
  ASSUME NEW size, NEW version, NEW ends
  PROVE  Log!AppendBatch(size, version, ends) <=>
           /\ ~LogOf[Len(LogOf)].ended /\ Len(LogOf) + size <= MaxSafeInteger
           /\ LogOf' = LogOf \o [i \in 1..size |-> [version |-> version, ended |-> ends]]
BY DEF Log!AppendBatch, Log!Last, LogOf, LogEntry

LEMMA HandOverMapped ==
  ASSUME NEW size, NEW ordered
  PROVE  Log!HandOver(size, ordered) <=>
           Pub' = Pub \cup {[first |-> Len(LogOf) - 1 + 1, last |-> Len(LogOf) - 1 + size,
                             ordered |-> ordered]}
BY DEF Log!HandOver, Log!LastSeq, LogOf, LogEntry, Pub, PubOf

LEMMA CommandBatchMapped ==
  ASSUME NEW size
  PROVE  Log!CommandBatch(size) <=>
           \E version \in {LogOf[Len(LogOf)].version, LogOf[Len(LogOf)].version + 1},
              ends \in BOOLEAN : Log!AppendBatch(size, version, ends)
BY DEF Log!CommandBatch, Log!Last, LogOf, LogEntry

LEMMA CoordinatorBatchMapped ==
  Log!CoordinatorBatch <=> Log!AppendBatch(1, LogOf[Len(LogOf)].version, FALSE)
BY DEF Log!CoordinatorBatch, Log!Last, LogOf, LogEntry

LEMMA CommitMapped ==
  /\ Log!Commit <=> Log!CommandCommits \/ Log!CoordinatorCommits \/ Log!CorrectionStarts
                    \/ Log!CommitUnlearnt
  /\ Log!CommandCommits <=> /\ \A b \in Pub : ~b.ordered
                            /\ \E size \in 1..MaxBatch :
                                 Log!HandOver(size, TRUE) /\ Log!CommandBatch(size)
  /\ Log!CoordinatorCommits <=> Log!HandOver(1, FALSE) /\ Log!CoordinatorBatch
  /\ Log!CorrectionStarts <=> Pub' = Pub /\ Log!CoordinatorBatch
  /\ Log!CommitUnlearnt <=> Pub' = Pub /\ \E size \in 1..MaxBatch : Log!CommandBatch(size)
BY DEF Log!Commit, Log!CommandCommits, Log!CoordinatorCommits, Log!CorrectionStarts,
       Log!CommitUnlearnt, Pub, PubOf

-----------------------------------------------------------------------------
(* The rows behind the log *)

\* What is asked for fits the command id: Player decisions are asked for by
\* their own ids.
CallsFit ==
  \A c \in Callers : calls[c].pc # "idle" => calls[c].payload \in PayloadsOf(calls[c].id)

\* The last event ends the session exactly when the session has ended.
EndedLast ==
  \A e \in events : e.seq + 1 = session.nextEventSeq =>
    (EndsSession(e) <=> session.lifecycleStatus = "ended")

\* Exact numbers and owned events keep the log's entries, EndedLast keeps it
\* from growing behind its end, and one command publishes at a time.
LogInv == /\ HistoryInv /\ StoryInv /\ PublishInv
          /\ CallsFit /\ EndedLast

LEMMA ChosenEvent ==
  ASSUME NEW rows, NEW e \in rows, \A d \in rows : d.seq = e.seq => d = e
  PROVE  (CHOOSE d \in rows : d.seq = e.seq) = e
OBVIOUS

LEMMA LoggedEvent ==
  ASSUME HistoryInv, NEW i \in 1..session.nextEventSeq
  PROVE  EventAt(i) \in events /\ EventAt(i).seq = i - 1
<1>1. session.nextEventSeq \in Nat /\ {e.seq : e \in events} = 0..(session.nextEventSeq - 1)
  BY DEF HistoryInv, ExecutionInv, TypeOK, HistoryRecoverable, Recoverable, ExactEventSequence
<1>2. i - 1 \in 0..(session.nextEventSeq - 1)
  BY <1>1
<1>3. \E e \in events : e.seq = i - 1
  BY <1>1, <1>2
<1> QED BY <1>3 DEF EventAt

LEMMA ListIsSeq ==
  ASSUME NEW S, NEW n \in Nat, NEW f \in [1..n -> S]
  PROVE  f \in Seq(S) /\ Len(f) = n
OBVIOUS

LEMMA LogShape ==
  ASSUME LogInv
  PROVE  /\ session.nextEventSeq \in Nat /\ session.nextEventSeq >= 2
         /\ LogOf \in Seq([version: Nat, ended: BOOLEAN])
         /\ Len(LogOf) = session.nextEventSeq
         /\ LogOf[Len(LogOf)].version = session.stateVersion
         /\ LogOf[Len(LogOf)].ended <=> session.lifecycleStatus = "ended"
<1>1. session.nextEventSeq \in Nat /\ session.nextEventSeq >= 2 /\ events \subseteq EventRows
  BY DEF LogInv, HistoryInv, ExecutionInv, TypeOK, Numbered
<1>2. \A i \in 1..session.nextEventSeq : EventAt(i) \in events /\ EventAt(i).seq = i - 1
  BY LoggedEvent DEF LogInv
<1>3. \A i \in 1..session.nextEventSeq : EventAt(i).after \in Nat
  BY <1>1, <1>2 DEF EventRows
<1>4. \A e : EndsSession(e) \in BOOLEAN
  BY DEF EndsSession
<1>5. \A i \in 1..session.nextEventSeq : LogEntry(i) \in [version: Nat, ended: BOOLEAN]
  BY <1>3, <1>4 DEF LogEntry
<1>6. LogOf \in Seq([version: Nat, ended: BOOLEAN]) /\ Len(LogOf) = session.nextEventSeq
  <2>1. LogOf \in [1..session.nextEventSeq -> [version: Nat, ended: BOOLEAN]]
    BY <1>5 DEF LogOf
  <2> QED BY <1>1, <2>1, ListIsSeq
<1>7. session.nextEventSeq \in 1..session.nextEventSeq
  BY <1>1
<1>8. LogOf[Len(LogOf)] = LogEntry(session.nextEventSeq)
  BY <1>6, <1>7 DEF LogOf
<1> DEFINE e == EventAt(session.nextEventSeq)
<1>9. e \in events /\ e.seq + 1 = session.nextEventSeq
  BY <1>1, <1>2, <1>7
<1>10. /\ e.after = session.stateVersion
       /\ EndsSession(e) <=> session.lifecycleStatus = "ended"
  BY <1>9 DEF LogInv, HistoryInv, HistoryRecoverable, Recoverable, EndedLast
<1>11. LogEntry(session.nextEventSeq).version = e.after
       /\ (LogEntry(session.nextEventSeq).ended <=> EndsSession(e))
  BY DEF LogEntry
<1> QED BY <1>1, <1>6, <1>8, <1>10, <1>11

\* The row of a command with events is decided and keeps its payload.
LEMMA EndsKept ==
  ASSUME LogInv, RowsFinal, NEW e \in events
  PROVE  EndsSession(e)' = EndsSession(e)
<1>1. ASSUME e.by \in ClientIds
      PROVE  ledger'[e.by] = ledger[e.by]
  <2>1. e.by \in CommandIds /\ e \in Own(e.by)
    BY <1>1 DEF CommandIds, Own
  <2>2. Story(e.by)
    BY <2>1, StoryIsLedger DEF LogInv, StoryInv
  <2>3. ledger[e.by].status # "absent"
    BY <2>1, <2>2 DEF Story
  <2> QED BY <2>1, <2>3 DEF RowsFinal
<1> QED BY <1>1 DEF EndsSession

-----------------------------------------------------------------------------
(* A mutation appends a batch *)

\* The event at a place of the log after a step, once it is known.
LEMMA EntryOf ==
  ASSUME ExactEventSequence', NEW i, NEW e \in events', e.seq = i - 1
  PROVE  /\ LogEntry(i)'.version = e.after
         /\ LogEntry(i)' = [version |-> e.after, ended |-> EndsSession(e)']
<1>1. \A d \in events' : d.seq = e.seq => d = e
  BY DEF ExactEventSequence
<1>2. EventAt(i)' = e
  BY <1>1, ChosenEvent DEF EventAt
<1>3. EndsSession(EventAt(i))' = EndsSession(e)'
  BY <1>2 DEF EndsSession
<1> QED BY <1>2, <1>3 DEF LogEntry

LEMMA EntryKept ==
  ASSUME LogInv, RowsFinal, ExactEventSequence', events \subseteq events',
         NEW i \in 1..session.nextEventSeq
  PROVE  LogEntry(i)' = LogEntry(i)
<1>1. PICK e \in events : e = EventAt(i) /\ e.seq = i - 1
  BY LoggedEvent DEF LogInv
<1>2. EndsSession(e)' = EndsSession(e)
  BY EndsKept
<1>3. LogEntry(i)' = [version |-> e.after, ended |-> EndsSession(e)']
  BY <1>1, EntryOf
<1>4. LogEntry(i) = [version |-> e.after, ended |-> EndsSession(e)]
  BY <1>1 DEF LogEntry
<1> QED BY <1>2, <1>3, <1>4

\* Steps that leave the stored rows alone leave the log alone.
LEMMA LogKept ==
  ASSUME LogInv, RowsFinal, UNCHANGED <<session, events>>
  PROVE  LogOf' = LogOf
<1>1. ExactEventSequence'
  BY DEF LogInv, HistoryInv, HistoryRecoverable, Recoverable, ExactEventSequence
<1>2. \A i \in 1..session.nextEventSeq : LogEntry(i)' = LogEntry(i)
  BY <1>1, EntryKept
<1> QED BY <1>2 DEF LogOf

LEMMA PersistAppends ==
  ASSUME LogInv, RowsFinal, ExactEventSequence', NEW size \in 1..MaxBatch, NEW version \in Nat,
         NEW lifecycle \in Lifecycles, NEW id \in CommandIds \cup {NoCommand}, NEW hand \in Nat,
         Persist(size, version, lifecycle, hand, id), session.lifecycleStatus = "active",
         NEW ends \in BOOLEAN,
         \A e \in NewEvents(size, version, id) : EndsSession(e)' = ends
  PROVE  Log!AppendBatch(size, version, ends)
<1> DEFINE first == session.nextEventSeq
           entry == [version |-> version, ended |-> ends]
           Entries == [version: Nat, ended: BOOLEAN]
           batch == [i \in 1..size |-> entry]
           new == NewEvents(size, version, id)
<1>1. /\ first \in Nat /\ first >= 2 /\ size \in Nat /\ size >= 1
      /\ \A e \in new : e.after = version
      /\ \A s \in first..(first + size - 1) : \E e \in new : e.seq = s
  BY NewEventFacts DEF LogInv, HistoryInv
<1>2. events' = events \cup new /\ session'.nextEventSeq = first + size
      /\ first + size <= MaxSafeInteger
  BY PersistType DEF LogInv, HistoryInv, Persist, Fits
<1>3. /\ LogOf \in Seq(Entries) /\ Len(LogOf) = first
      /\ ~LogOf[Len(LogOf)].ended
  BY LogShape
<1>4. entry \in Entries
  OBVIOUS
<1> HIDE DEF entry, Entries
<1>5. batch \in Seq(Entries) /\ Len(batch) = size /\ \A i \in 1..size : batch[i] = entry
  <2>1. batch \in [1..size -> Entries]
    BY <1>4
  <2> QED BY <1>1, <2>1, ListIsSeq
<1> HIDE DEF batch, new
<1>6. /\ LogOf \o batch \in Seq(Entries) /\ Len(LogOf \o batch) = first + size
      /\ \A i \in 1..(first + size) :
           (LogOf \o batch)[i] = IF i <= first THEN LogOf[i] ELSE batch[i - first]
  <2>1. /\ LogOf \o batch \in Seq(Entries) /\ Len(LogOf \o batch) = Len(LogOf) + Len(batch)
        /\ \A i \in 1..(Len(LogOf) + Len(batch)) :
             (LogOf \o batch)[i] = IF i <= Len(LogOf) THEN LogOf[i] ELSE batch[i - Len(LogOf)]
    BY <1>3, <1>5, ConcatProperties, Zenon
  <2>2. Len(LogOf) = first /\ Len(batch) = size
    BY <1>3, <1>5
  <2> QED BY <2>1, <2>2, Zenon
<1>7. \A i \in 1..first : LogOf[i] = LogEntry(i)
  BY DEF LogOf
<1>8. \A i \in 1..first : LogEntry(i)' = LogEntry(i)
  BY <1>2, EntryKept
<1>9. ASSUME NEW i \in (first + 1)..(first + size)
      PROVE  LogEntry(i)' = entry
  <2>1. i - 1 \in first..(first + size - 1)
    BY <1>1
  <2>2. PICK e \in new : e.seq = i - 1
    BY <1>1, <2>1
  <2>3. e \in events' /\ e.after = version /\ EndsSession(e)' = ends
    BY <1>1, <1>2 DEF new
  <2>4. LogEntry(i)' = [version |-> e.after, ended |-> EndsSession(e)']
    BY <2>2, <2>3, EntryOf
  <2> QED BY <2>3, <2>4 DEF entry
<1>10. LogOf' = [i \in 1..(first + size) |-> LogEntry(i)']
  BY <1>2 DEF LogOf
<1> HIDE DEF first
<1>11. \A i \in 1..(first + size) : LogEntry(i)' = (LogOf \o batch)[i]
  <2> SUFFICES ASSUME NEW i \in 1..(first + size) PROVE LogEntry(i)' = (LogOf \o batch)[i]
    OBVIOUS
  <2>1. CASE i <= first
    <3>1. i \in 1..first
      BY <1>1, <2>1
    <3> QED BY <1>6, <1>7, <1>8, <2>1, <3>1
  <2>2. CASE ~(i <= first)
    <3>1. i \in (first + 1)..(first + size) /\ i - first \in 1..size
      BY <1>1, <2>2
    <3> QED BY <1>5, <1>6, <1>9, <2>2, <3>1
  <2> QED BY <2>1, <2>2
<1>12. LogOf' \in [1..(first + size) -> Entries]
  <2>1. \A i \in 1..(first + size) : (LogOf \o batch)[i] \in Entries
    BY <1>1, <1>6, ElementOfSeq
  <2> QED BY <1>10, <1>11, <2>1
<1>13. /\ LogOf' \in Seq(Entries) /\ Len(LogOf') = first + size
       /\ \A i \in 1..(first + size) : LogOf'[i] = (LogOf \o batch)[i]
  <2>1. first + size \in Nat
    BY <1>1
  <2>2. LogOf' \in Seq(Entries) /\ Len(LogOf') = first + size
    BY <1>12, <2>1, ListIsSeq
  <2>3. \A i \in 1..(first + size) : LogOf'[i] = LogEntry(i)'
    BY <1>10
  <2> QED BY <1>11, <2>2, <2>3
<1>14. LogOf' = LogOf \o batch
  BY <1>6, <1>13, SeqEqual
<1> QED BY <1>2, <1>3, <1>14, AppendMapped DEF batch, entry, first

\* The last event of a mutation speaks for the session it leaves.
LEMMA PersistEnds ==
  ASSUME LogInv, NEW size \in 1..MaxBatch, NEW version \in Nat,
         NEW lifecycle \in Lifecycles, NEW id \in CommandIds \cup {NoCommand}, NEW hand \in Nat,
         Persist(size, version, lifecycle, hand, id),
         \A e \in NewEvents(size, version, id) : EndsSession(e)' = (lifecycle = "ended")
  PROVE  EndedLast'
<1> DEFINE first == session.nextEventSeq
           new == NewEvents(size, version, id)
<1>1. /\ first \in Nat /\ size \in Nat /\ size >= 1
      /\ \A e \in events : e.seq \in 0..(first - 1)
  BY SessionCommandsAssumption
     DEF LogInv, HistoryInv, ExecutionInv, TypeOK, HistoryRecoverable, Recoverable,
         ExactEventSequence
<1>2. /\ events' = events \cup new /\ session'.nextEventSeq = first + size
      /\ session'.lifecycleStatus = lifecycle
  BY PersistType DEF LogInv, HistoryInv
<1> HIDE DEF new
<1>3. ASSUME NEW e \in events', e.seq + 1 = session'.nextEventSeq
      PROVE  e \in new
  BY <1>1, <1>2, <1>3
<1>4. \A e \in new : EndsSession(e)' = (lifecycle = "ended")
  BY DEF new
<1> QED BY <1>2, <1>3, <1>4 DEF EndedLast

\* An applied command ends the session exactly when it is the command to.
LEMMA ApplyEnds ==
  ASSUME LogInv, NEW c \in Callers, Apply(c)
  PROVE  \E size \in 1..MaxBatch, version \in Nat, lifecycle \in Lifecycles, id \in CommandIds,
            hand \in Nat :
           /\ Persist(size, version, lifecycle, hand, id)
           /\ version \in {session.stateVersion, session.stateVersion + 1}
           /\ session.lifecycleStatus = "active"
           /\ \A e \in NewEvents(size, version, id) : EndsSession(e)' = (lifecycle = "ended")
           /\ UNCHANGED unpublished \/ unpublished' = unpublished \cup {BatchOf(size, c)}
<1>1. ExecutionInv
  BY DEF LogInv, HistoryInv
<1>2. PICK size \in 1..MaxBatch, effect \in Effects(calls[c].payload) :
        /\ Persist(size, effect[2], effect[1], effect[3], calls[c].id)
        /\ ledger' = [ledger EXCEPT ![calls[c].id] = AppliedRow(c, size, effect[2])]
        /\ UNCHANGED unpublished \/ unpublished' = unpublished \cup {BatchOf(size, c)}
  BY <1>1, ApplyEffects
<1>3. /\ calls[c].id \in CommandIds /\ session.lifecycleStatus = "active"
  BY <1>1, ApplyDecides
<1>4. PICK id \in CommandIds : id = calls[c].id
  BY <1>3
<1>5. /\ effect[1] \in Lifecycles /\ effect[2] \in Nat /\ effect[3] \in Nat
      /\ effect[2] \in {session.stateVersion, session.stateVersion + 1}
  BY <1>1, EffectType
<1>6. ledger'[id].payload = calls[c].payload
  BY <1>1, <1>2, <1>4 DEF ExecutionInv, TypeOK, AppliedRow
<1>7. calls[c].payload \in PayloadsOf(id)
  BY <1>1, <1>4, TurnAlone DEF LogInv, CallsFit, Apply, Executable
<1>8. effect[1] = "ended" <=> calls[c].payload.type = "end"
  BY <1>1, EffectType
<1>9. calls[c].payload.type = "end" => id \in ClientIds
  BY <1>7 DEF PayloadsOf, Payloads, CommandIds
<1>10. ASSUME NEW e \in NewEvents(size, effect[2], id)
       PROVE  EndsSession(e)' = (effect[1] = "ended")
  <2>1. e.by = id
    BY <1>1, <1>5, NewEventFacts
  <2> QED BY <1>6, <1>8, <1>9, <2>1 DEF EndsSession
<1> QED BY <1>2, <1>3, <1>4, <1>5, <1>10

LEMMA CoordinatorEnds ==
  ASSUME LogInv, Coordinate \/ StartCorrection
  PROVE  /\ Persist(1, session.stateVersion, "active", session.currentHandId, NoCommand)
         /\ session.lifecycleStatus = "active" /\ session.stateVersion \in Nat
         /\ session.currentHandId \in Nat
         /\ 1 \in 1..MaxBatch
         /\ \A e \in NewEvents(1, session.stateVersion, NoCommand) : EndsSession(e)' = FALSE
<1>1. ExecutionInv
  BY DEF LogInv, HistoryInv
<1>2. /\ Persist(1, session.stateVersion, "active", session.currentHandId, NoCommand)
      /\ session.lifecycleStatus = "active" /\ session.stateVersion \in Nat
      /\ session.currentHandId \in Nat
      /\ 1 \in 1..MaxBatch
  BY <1>1, SessionCommandsAssumption DEF Coordinate, StartCorrection, ExecutionInv, TypeOK
<1>3. ASSUME NEW e \in NewEvents(1, session.stateVersion, NoCommand)
      PROVE  EndsSession(e)' = FALSE
  <2>1. e.by = NoCommand
    BY <1>1, <1>2, NewEventFacts
  <2> QED BY <2>1, SessionCommandsAssumption DEF EndsSession
<1> QED BY <1>2, <1>3

-----------------------------------------------------------------------------
(* The invariant *)

LEMMA NextCallsFit ==
  ASSUME LogInv, [Next]_vars
  PROVE  CallsFit'
<1>1. calls \in [Callers -> CallStates] /\ CallsFit
  BY DEF LogInv, HistoryInv, ExecutionInv, TypeOK
<1>2. ASSUME NEW c \in Callers, NEW call,
             call.pc = "idle" \/ call.payload \in PayloadsOf(call.id),
             calls' = [calls EXCEPT ![c] = call]
      PROVE  CallsFit'
  BY <1>1, <1>2 DEF CallsFit
<1>3. ASSUME NEW c \in Callers, Finish(c)
      PROVE  CallsFit'
  BY <1>2, <1>3, IdleCallType DEF Finish
<1>4. ASSUME NEW c \in Callers, Receive(c)
      PROVE  CallsFit'
  <2>1. PICK id \in CommandIds : \E p \in PayloadsOf(id) :
          calls' = [calls EXCEPT ![c] = [pc |-> "waiting", id |-> id, payload |-> p]]
    BY <1>4 DEF Receive
  <2>2. PICK p \in PayloadsOf(id) :
          calls' = [calls EXCEPT ![c] = [pc |-> "waiting", id |-> id, payload |-> p]]
    BY <2>1
  <2> DEFINE call == [pc |-> "waiting", id |-> id, payload |-> p]
  <2>3. call.payload \in PayloadsOf(call.id) /\ calls' = [calls EXCEPT ![c] = call]
    BY <2>2
  <2> HIDE DEF call
  <2> QED BY <1>2, <2>3
<1>5. ASSUME NEW c \in Callers, calls[c].pc = "waiting",
             calls' = [calls EXCEPT ![c].pc = "publishing"]
      PROVE  CallsFit'
  <2>1. /\ calls'[c].payload = calls[c].payload /\ calls'[c].id = calls[c].id
        /\ \A d \in Callers : d # c => calls'[d] = calls[d]
    BY <1>1, <1>5, PublishingType
  <2> QED BY <1>1, <1>5, <2>1 DEF CallsFit
<1>6. ASSUME UNCHANGED calls
      PROVE  CallsFit'
  BY <1>1, <1>6 DEF CallsFit
<1>7. ASSUME NEW c \in Callers, Task(c)
      PROVE  CallsFit'
  BY <1>3, <1>5, <1>7 DEF Task, Replay, Decline, Reject, Apply, Executable, Turn,
     PublishAndAnswer, RollBack
<1>8. ASSUME Crash
      PROVE  CallsFit'
  BY <1>8, IdleCallType DEF Crash, CallsFit
<1>9. ASSUME Coordinate \/ StartCorrection \/ PublishCoordination \/ Restart \/ UNCHANGED vars
      PROVE  UNCHANGED calls
  BY <1>9 DEF Coordinate, StartCorrection, PublishCoordination, Restart, vars
<1> QED BY <1>4, <1>6, <1>7, <1>8, <1>9 DEF Next

LEMMA NextEnds ==
  ASSUME LogInv, [Next]_vars
  PROVE  EndedLast'
<1>1. RowsFinal
  BY NextRowsFinal DEF LogInv, HistoryInv
<1>2. ASSUME UNCHANGED <<session, events>>
      PROVE  EndedLast'
  BY <1>1, <1>2, EndsKept DEF LogInv, EndedLast
<1>3. ASSUME NEW c \in Callers, Apply(c)
      PROVE  EndedLast'
  BY <1>3, ApplyEnds, PersistEnds
<1>4. ASSUME Coordinate \/ StartCorrection
      PROVE  EndedLast'
  BY <1>4, CoordinatorEnds, PersistEnds DEF Lifecycles
<1>5. ASSUME NEW c \in Callers, Reject(c)
      PROVE  UNCHANGED <<session, events>>
  BY <1>5 DEF Reject
<1>6. ASSUME PublishCoordination \/ Crash \/ Restart \/ UNCHANGED vars
      PROVE  UNCHANGED <<session, events>>
  BY <1>6 DEF PublishCoordination, Crash, Restart, vars
<1> QED BY <1>2, <1>3, <1>4, <1>5, <1>6, QuietSteps DEF Next, Task

LEMMA NextLogInv == LogInv /\ [Next]_vars => LogInv'
BY NextHistory, NextStory, NextPublish, NextCallsFit, NextEnds DEF LogInv

-----------------------------------------------------------------------------
(* Every step is a step of the log *)

LEMMA BatchMapped ==
  ASSUME LogInv, NEW size \in 1..MaxBatch, NEW caller
  PROVE  PubOf(BatchOf(size, caller)) =
           [first |-> Len(LogOf) - 1 + 1, last |-> Len(LogOf) - 1 + size,
            ordered |-> caller # Nobody]
<1>1. session.nextEventSeq \in Nat /\ Len(LogOf) = session.nextEventSeq /\ size \in Nat
  BY LogShape
<1>2. /\ Len(LogOf) - 1 + 1 = session.nextEventSeq
      /\ Len(LogOf) - 1 + size = session.nextEventSeq + size - 1
  BY <1>1
<1> QED BY <1>2 DEF PubOf, BatchOf

\* A committed batch is handed over by its caller, or by nobody.
LEMMA HandsOver ==
  ASSUME LogInv, NEW size \in 1..MaxBatch, NEW caller,
         unpublished' = unpublished \cup {BatchOf(size, caller)}
  PROVE  Log!HandOver(size, caller # Nobody)
<1> DEFINE batch == BatchOf(size, caller)
<1>1. PubOf(batch) = [first |-> Len(LogOf) - 1 + 1, last |-> Len(LogOf) - 1 + size,
                      ordered |-> caller # Nobody]
  BY BatchMapped
<1>2. unpublished' = unpublished \cup {batch}
  OBVIOUS
<1> HIDE DEF batch
<1>3. Pub' = {PubOf(b) : b \in unpublished'}
  BY DEF Pub, PubOf
<1>4. Pub' = Pub \cup {PubOf(batch)}
  BY <1>2, <1>3 DEF Pub
<1> QED BY <1>1, <1>4, HandOverMapped

LEMMA ApplyLogs ==
  ASSUME LogInv, NEW c \in Callers, Apply(c), RowsFinal, ExactEventSequence'
  PROVE  Log!Commit
<1>1. PICK size \in 1..MaxBatch, version \in Nat, lifecycle \in Lifecycles, id \in CommandIds,
         hand \in Nat :
        /\ Persist(size, version, lifecycle, hand, id)
        /\ version \in {session.stateVersion, session.stateVersion + 1}
        /\ session.lifecycleStatus = "active"
        /\ \A e \in NewEvents(size, version, id) : EndsSession(e)' = (lifecycle = "ended")
        /\ UNCHANGED unpublished \/ unpublished' = unpublished \cup {BatchOf(size, c)}
  BY ApplyEnds
<1> DEFINE ends == lifecycle = "ended"
<1>2. ends \in BOOLEAN /\ \A e \in NewEvents(size, version, id) : EndsSession(e)' = ends
  BY <1>1
<1> HIDE DEF ends
<1>3. Log!AppendBatch(size, version, ends)
  BY <1>1, <1>2, PersistAppends
<1>4. version \in {LogOf[Len(LogOf)].version, LogOf[Len(LogOf)].version + 1}
  BY <1>1, LogShape
<1>5. Log!CommandBatch(size)
  BY <1>2, <1>3, <1>4, CommandBatchMapped
<1>6. CASE UNCHANGED unpublished
  <2>1. Pub' = Pub
    BY <1>6 DEF Pub
  <2> QED BY <1>5, <2>1, CommitMapped
<1>7. CASE unpublished' = unpublished \cup {BatchOf(size, c)}
  <2>1. c # Nobody
    BY SessionCommandsAssumption
  <2>2. Log!HandOver(size, TRUE)
    <3>1. Log!HandOver(size, c # Nobody)
      BY <1>7, HandsOver
    <3>2. (c # Nobody) = TRUE
      BY <2>1
    <3> QED BY <3>1, <3>2
  <2>3. \A b \in unpublished : b.caller = Nobody
    BY TurnAlone DEF LogInv, HistoryInv, Apply, Executable
  <2>4. ASSUME NEW b \in Pub
        PROVE  ~b.ordered
    <3>1. PICK a \in unpublished : b = PubOf(a)
      BY DEF Pub
    <3>2. PubOf(a).ordered = (a.caller # Nobody)
      BY DEF PubOf
    <3> QED BY <2>3, <3>1, <3>2
  <2> QED BY <1>5, <2>2, <2>4, CommitMapped
<1> QED BY <1>1, <1>6, <1>7

LEMMA CoordinatorLogs ==
  ASSUME LogInv, Coordinate \/ StartCorrection, RowsFinal, ExactEventSequence'
  PROVE  Log!Commit
<1>1. /\ Persist(1, session.stateVersion, "active", session.currentHandId, NoCommand)
      /\ session.lifecycleStatus = "active" /\ session.stateVersion \in Nat
      /\ session.currentHandId \in Nat
      /\ 1 \in 1..MaxBatch
      /\ \A e \in NewEvents(1, session.stateVersion, NoCommand) : EndsSession(e)' = FALSE
  BY CoordinatorEnds
<1>2. Log!AppendBatch(1, session.stateVersion, FALSE)
  BY <1>1, PersistAppends DEF Lifecycles
<1>3. Log!CoordinatorBatch
  BY <1>2, LogShape, CoordinatorBatchMapped
<1>4. CASE UNCHANGED unpublished
  <2>1. Pub' = Pub
    BY <1>4 DEF Pub
  <2> QED BY <1>3, <2>1, CommitMapped
<1>5. CASE unpublished' = unpublished \cup {BatchOf(1, Nobody)}
  <2>1. Log!HandOver(1, Nobody # Nobody)
    BY <1>1, <1>5, HandsOver
  <2>2. (Nobody # Nobody) = FALSE
    OBVIOUS
  <2>3. Log!HandOver(1, FALSE)
    BY <2>1, <2>2
  <2> QED BY <1>3, <2>3, CommitMapped
<1> QED BY <1>4, <1>5 DEF Coordinate, StartCorrection

\* Distinct batches stay distinct in the log's view of the hand-over.
LEMMA PubDistinct ==
  ASSUME LogInv, NEW a \in unpublished, NEW b \in unpublished, PubOf(a) = PubOf(b)
  PROVE  a = b
<1>1. unpublished \subseteq BatchRows /\ OneCommandPublishes
  BY DEF LogInv, PublishInv, ExecutionInv, TypeOK
<1>2. /\ a.first = b.first /\ a.last = b.last
      /\ (a.caller # Nobody) = (b.caller # Nobody)
  BY DEF PubOf
<1>3. CASE a.caller # Nobody
  BY <1>1, <1>2, <1>3 DEF OneCommandPublishes
<1>4. CASE a.caller = Nobody
  BY <1>1, <1>2, <1>4 DEF BatchRows
<1> QED BY <1>3, <1>4

LEMMA PublishLogs ==
  ASSUME LogInv, LogOf' = LogOf, NEW b \in unpublished, unpublished' = unpublished \ {b}
  PROVE  Log!LogNext
<1>1. Pub' = {PubOf(a) : a \in unpublished'}
  BY DEF Pub, PubOf
<1>2. \A a \in unpublished : a # b => PubOf(a) # PubOf(b)
  BY PubDistinct
<1>3. Pub' = Pub \ {PubOf(b)} /\ PubOf(b) \in Pub
  BY <1>1, <1>2 DEF Pub
<1>4. PICK batch \in Pub : batch = PubOf(b)
  BY <1>3
<1>5. Log!Publish(batch)
  BY <1>3, <1>4, PublishMapped
<1> QED BY <1>5, LogMapped

LEMMA AnswerLogs ==
  ASSUME LogInv, LogOf' = LogOf, NEW c \in Callers, PublishAndAnswer(c)
  PROVE  Log!LogNext \/ UNCHANGED Log!logVars
<1>1. unpublished' = {b \in unpublished : b.caller # c}
  BY DEF PublishAndAnswer
<1>2. CASE \E b \in unpublished : b.caller = c
  <2>1. PICK b \in unpublished : b.caller = c
    BY <1>2
  <2>2. \A a \in unpublished : a.caller = c => a = b
    BY <2>1, SessionCommandsAssumption DEF LogInv, PublishInv, OneCommandPublishes
  <2>3. unpublished' = unpublished \ {b}
    BY <1>1, <2>1, <2>2
  <2> QED BY <2>3, PublishLogs
<1>3. CASE ~\E b \in unpublished : b.caller = c
  <2>1. unpublished' = unpublished
    BY <1>1, <1>3
  <2>2. Pub' = Pub
    BY <2>1 DEF Pub
  <2> QED BY <2>2, StutterMapped
<1> QED BY <1>2, <1>3

LEMMA NextLog == LogInv /\ LogInv' /\ [Next]_vars => [Log!LogNext]_(Log!logVars)
<1> SUFFICES ASSUME LogInv, LogInv', [Next]_vars
             PROVE  Log!LogNext \/ UNCHANGED Log!logVars
  OBVIOUS
<1>1. RowsFinal /\ ExactEventSequence'
  BY NextRowsFinal DEF LogInv, HistoryInv, HistoryRecoverable, Recoverable
<1>2. ASSUME NEW c \in Callers, Apply(c)
      PROVE  Log!LogNext
  BY <1>1, <1>2, ApplyLogs, LogMapped
<1>3. ASSUME Coordinate \/ StartCorrection
      PROVE  Log!LogNext
  BY <1>1, <1>3, CoordinatorLogs, LogMapped
<1>4. UNCHANGED <<session, events>> => LogOf' = LogOf
  BY <1>1, LogKept
<1>5. ASSUME UNCHANGED <<session, events, unpublished>>
      PROVE  UNCHANGED Log!logVars
  <2>1. Pub' = Pub
    BY <1>5 DEF Pub
  <2> QED BY <1>4, <1>5, <2>1, StutterMapped
<1>6. ASSUME NEW c \in Callers,
             Receive(c) \/ Replay(c) \/ Decline(c) \/ Reject(c) \/ RollBack(c)
      PROVE  UNCHANGED <<session, events, unpublished>>
  BY <1>6 DEF Receive, Replay, Decline, Reject, RollBack
<1>7. ASSUME Restart \/ UNCHANGED vars
      PROVE  UNCHANGED <<session, events, unpublished>>
  BY <1>7 DEF Restart, vars
<1>8. ASSUME NEW c \in Callers, PublishAndAnswer(c)
      PROVE  Log!LogNext \/ UNCHANGED Log!logVars
  BY <1>4, <1>8, AnswerLogs DEF PublishAndAnswer
<1>9. ASSUME PublishCoordination
      PROVE  Log!LogNext
  BY <1>4, <1>9, PublishLogs DEF PublishCoordination
<1>10. ASSUME Crash
       PROVE  Log!LogNext
  <2>1. Pub' = {} /\ LogOf' = LogOf
    BY <1>4, <1>10 DEF Crash, Pub
  <2> QED BY <2>1, LogMapped
<1> QED BY <1>2, <1>3, <1>5, <1>6, <1>7, <1>8, <1>9, <1>10 DEF Next, Task

LEMMA InitLog == Init => LogInv /\ Log!LogInit
<1> SUFFICES ASSUME Init PROVE LogInv /\ Log!LogInit
  OBVIOUS
<1>1. HistoryInv /\ StoryInv /\ PublishInv
  BY InitHistory, InitStory, InitPublish
<1>2. /\ session.nextEventSeq = 2 /\ session.lifecycleStatus = "active"
      /\ unpublished = {} /\ calls = [c \in Callers |-> IdleCall]
  BY DEF Init
<1>3. \A e \in events : e.after = 1 /\ e.by = NoCommand
  BY DEF Init
<1>4. \A e \in events : EndsSession(e) = FALSE
  BY <1>3, SessionCommandsAssumption DEF EndsSession
<1>5. LogInv
  BY <1>1, <1>2, <1>4, IdleCallType DEF LogInv, CallsFit, EndedLast
<1>6. \A i \in 1..2 : LogEntry(i) = [version |-> 1, ended |-> FALSE]
  BY <1>1, <1>2, <1>3, <1>4, LoggedEvent DEF LogEntry
<1>7. LogOf = [i \in 1..2 |-> LogEntry(i)]
  BY <1>2 DEF LogOf
<1>8. LogOf = [i \in 1..2 |-> [version |-> 1, ended |-> FALSE]]
  BY <1>6, <1>7
<1>9. Pub = {}
  BY <1>2 DEF Pub
<1> QED BY <1>5, <1>8, <1>9, LogMapped

\* To a reader of events, commands, coordinator writes, lost acknowledgements
\* and crashes are a log that grows in whole batches, keeps what it has, stops
\* when the session ends, and hands batches of commands over one at a time.
THEOREM ExecutionImplementsLog == Spec => ImplementsLog
<1> QED BY InitLog, NextLogInv, NextLog, PTL DEF Spec, ImplementsLog, Log!LogSpec
=============================================================================
