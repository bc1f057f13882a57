----------------------- MODULE ServerLifecycle_proof -----------------------
(***************************************************************************)
(* Proofs about ServerLifecycle, for every limit of errors.                *)
(*                                                                         *)
(* Type correctness comes first and is inductive by itself.  LifecycleInv  *)
(* says what each stage of the closing has left behind it, and what the    *)
(* exit code stands for before and after the last stage; the properties    *)
(* follow from it, the two action properties step by step.                 *)
(***************************************************************************)
EXTENDS ServerLifecycle, TLAPS

Workers == [state : States, fatal : BOOLEAN, lane : Lanes, errors : 0..MaxErrors, lost : BOOLEAN]
Dispatchers == [state : States, fatal : BOOLEAN, loop : {"off", "waiting", "working"},
                errors : 0..MaxErrors, hint : BOOLEAN]
Servers == [socket : {"none", "binding", "bound", "broken"}, fatal : BOOLEAN,
            drain : {"none", "pending", "closed", "forced", "failed"}, handler : BOOLEAN]

\* The start comes before everything that is closed later.
Early == boot \in {"database", "runtime", "recovery", "turns"}

\* Until the turns are repaired nothing runs and no port is asked for.
NothingStarted ==
  Early => /\ worker.state = "stopped" /\ worker.lane = "off"
           /\ dispatcher.state = "stopped" /\ dispatcher.loop = "off" /\ ~dispatcher.hint
           /\ http.socket = "none"

\* Closing begins when bootstrap has handed the service over or has failed.
ClosingFollows ==
  /\ closing # "no" => boot \in {"running", "refused"}
  /\ boot = "refused" <=> failure # "none"
  /\ closing = "no" => boot # "refused"

\* What the closing has waited for does not come back.
DispatcherGone ==
  /\ closing # "no" => dispatcher.state # "running"
  /\ closing \notin {"no", "dispatcher"} => dispatcher.loop = "off" /\ ~dispatcher.hint
WorkerGone == closing \in {"http", "database", "done"} => worker.state = "stopped"
ServerGone ==
  /\ http.handler => http.socket = "bound"
  /\ http.drain # "none" => closing # "no"
  /\ http.drain = "closed" => ~http.handler
  /\ http.drain = "failed" => http.socket = "broken"
  /\ closing # "no" /\ http.drain = "none" => http.socket = "none"
  /\ closing \in {"database", "done"} => http.drain # "pending"
DatabaseGone == database = "closed" => closing = "done"

\* The exit code is latched by the death of a resource, and at the end also
\* by what the start or the cleanup met.
ExitTold ==
  /\ heard => boot = "running"
  /\ closing # "done" => (exitCode = 1 <=> heard)
  /\ closing = "done" =>
       (exitCode = 1 <=> failure = "failed" \/ (failure = "none" /\ (heard \/ faulty)))
  /\ process = "over" => closing = "done"

LifecycleInv ==
  /\ TypeOK /\ NothingStarted /\ ClosingFollows
  /\ DispatcherGone /\ WorkerGone /\ ServerGone /\ DatabaseGone /\ ExitTold

-----------------------------------------------------------------------------
(* Type correctness.                                                       *)

USE ErrorsAssumption

LEMMA CleanupStages ==
  {Cleanup[i] : i \in DOMAIN Cleanup} = {"no", "dispatcher", "worker", "http", "database", "done"}
<1>1. DOMAIN Cleanup = 1..6
  BY DEF Cleanup
<1>2. /\ Cleanup[1] = "no" /\ Cleanup[2] = "dispatcher" /\ Cleanup[3] = "worker"
      /\ Cleanup[4] = "http" /\ Cleanup[5] = "database" /\ Cleanup[6] = "done"
  BY DEF Cleanup
<1> QED
  BY <1>1, <1>2

\* What the operators on one record give back.
LEMMA DispatcherTypes ==
  ASSUME NEW d \in Dispatchers
  PROVE  /\ Stopping(d) \in Dispatchers
         /\ Notified(d) \in Dispatchers
         /\ Again(d) \in Dispatchers
  BY DEF Dispatchers, States, Stopping, Notified, Again

LEMMA WorkerTypes ==
  ASSUME NEW w \in Workers
  PROVE  /\ WorkerStopping(w) \in Workers
         /\ SettleFatal(w) \in Workers
         /\ Head(w) \in Workers
  BY DEF Workers, States, Lanes, WorkerStopping, SettleFatal, Head, StopRequested

LEMMA FailsTypes ==
  ASSUME NEW w \in Workers
  PROVE  Fails(w) \subseteq Workers
<1> DEFINE off == [w EXCEPT !.lane = "off"]
           later == [w EXCEPT !.lane = "waiting"]
<1>1. /\ off \in Workers /\ later \in Workers
  BY DEF Workers, Lanes
<1>2. SettleFatal(off) \in Workers
  BY <1>1, WorkerTypes
<1>3. ASSUME NEW v \in Workers, v.errors + 1 < MaxErrors
      PROVE  [v EXCEPT !.errors = @ + 1] \in Workers
  <2>1. v.errors + 1 \in 0..MaxErrors
    BY <1>3 DEF Workers
  <2> QED
    BY <2>1 DEF Workers
<1>4. later.errors = w.errors
  BY DEF Workers
<1>5. w.errors + 1 < MaxErrors => [later EXCEPT !.errors = @ + 1] \in Workers
  BY <1>1, <1>3, <1>4
<1> QED
  BY <1>1, <1>2, <1>5 DEF Fails

\* The type with the records named.
Typed ==
  /\ boot \in Stages /\ failure \in {"none", "aborted", "failed"}
  /\ player \in BOOLEAN /\ database \in {"none", "open", "closed"}
  /\ aborted \in BOOLEAN /\ faulty \in BOOLEAN /\ heard \in BOOLEAN
  /\ worker \in Workers /\ dispatcher \in Dispatchers /\ http \in Servers
  /\ closing \in {"no", "dispatcher", "worker", "http", "database", "done"}
  /\ exitCode \in {0, 1} /\ process \in {"alive", "over", "killed"}

LEMMA Types == (TypeOK <=> Typed) /\ (TypeOK' <=> Typed')
  BY CleanupStages DEF TypeOK, Typed, Workers, Dispatchers, Servers

\* Closing, with any worker and dispatcher, keeps the types it touches.
LEMMA CloseTypes ==
  ASSUME TypeOK, NEW w \in Workers, NEW d \in Dispatchers, Close(w, d)
  PROVE  /\ worker' \in Workers /\ dispatcher' \in Dispatchers /\ http' \in Servers
         /\ closing' = "dispatcher" /\ process' \in {"alive", "over", "killed"}
<1>1. worker' \in Workers /\ dispatcher' \in Dispatchers
  BY DispatcherTypes DEF Close
<1>2. http' \in Servers
  BY DEF Close, TypeOK, Servers
<1> QED
  BY <1>1, <1>2 DEF Close, TypeOK

LEMMA TypeInit == Init => TypeOK
<1> SUFFICES ASSUME Init PROVE TypeOK
  OBVIOUS
<1>1. worker \in Workers
  BY DEF Init, Workers, States, Lanes
<1>2. dispatcher \in Dispatchers
  BY DEF Init, Dispatchers, States
<1>3. http \in Servers
  BY DEF Init, Servers
<1> QED
  BY <1>1, <1>2, <1>3, Types DEF Init, Stages, Typed

LEMMA TypeUnstarted ==
  ASSUME TypeOK, NEW why \in {"aborted", "failed"}, Unstarted(why),
         database' \in {"none", "open", "closed"}, player' \in BOOLEAN,
         UNCHANGED <<aborted, faulty, heard, exitCode>>
  PROVE  TypeOK'
<1>1. Typed
  BY Types
<1>2. Close(worker, dispatcher) /\ boot' = "refused" /\ failure' = why
  BY DEF Unstarted, Refuse
<1>3. /\ worker' \in Workers /\ dispatcher' \in Dispatchers /\ http' \in Servers
      /\ closing' = "dispatcher" /\ process' \in {"alive", "over", "killed"}
  BY <1>1, <1>2, CloseTypes DEF Typed
<1>4. Typed'
  BY <1>1, <1>2, <1>3 DEF Typed, Stages
<1> QED
  BY <1>4, Types

LEMMA TypeGoesOn ==
  ASSUME TypeOK, NEW stage \in Stages, GoesOn(stage),
         database' \in {"none", "open", "closed"}, player' \in BOOLEAN,
         UNCHANGED <<aborted, faulty, heard, exitCode>>
  PROVE  TypeOK'
<1>1. CASE aborted
  BY <1>1, TypeUnstarted DEF GoesOn
<1>2. CASE ~aborted
  <2>1. Typed
    BY Types
  <2>2. Typed'
    BY <1>2, <2>1 DEF GoesOn, Typed
  <2> QED
    BY <2>2, Types
<1> QED
  BY <1>1, <1>2

LEMMA TypeListen ==
  ASSUME TypeOK, NEW w \in Workers, NEW d \in Dispatchers, Listen(w, d), player' \in BOOLEAN,
         UNCHANGED <<database, aborted, faulty, heard, exitCode>>
  PROVE  TypeOK'
<1>1. Typed
  BY Types
<1>2. CASE Refuse("failed", w, d)
  <2>1. Close(w, d) /\ boot' = "refused" /\ failure' = "failed"
    BY <1>2 DEF Refuse
  <2>2. /\ worker' \in Workers /\ dispatcher' \in Dispatchers /\ http' \in Servers
        /\ closing' = "dispatcher" /\ process' \in {"alive", "over", "killed"}
    BY <2>1, CloseTypes
  <2>3. Typed'
    BY <1>1, <2>1, <2>2 DEF Typed, Stages
  <2> QED
    BY <2>3, Types
<1>3. CASE /\ boot' = "ready" /\ http' = [http EXCEPT !.socket = "binding"]
           /\ worker' = w /\ dispatcher' = d
           /\ UNCHANGED <<failure, closing, process>>
  <2>1. http' \in Servers
    BY <1>1, <1>3 DEF Typed, Servers
  <2>2. Typed'
    BY <1>1, <1>3, <2>1 DEF Typed, Stages
  <2> QED
    BY <2>2, Types
<1> QED
  BY <1>2, <1>3 DEF Listen

LEMMA TypeStart == TypeOK /\ Start => TypeOK'
<1> SUFFICES ASSUME TypeOK, Start PROVE TypeOK'
  OBVIOUS
<1>1. Typed
  BY Types
<1>2. CASE Initialized
  BY <1>1, <1>2, TypeGoesOn, TypeUnstarted DEF Initialized, Stages, Typed
<1>3. CASE RuntimeCreated
  BY <1>1, <1>3, TypeGoesOn, TypeUnstarted, TypeListen DEF RuntimeCreated, Stages, Typed
<1>4. CASE Recovered
  BY <1>1, <1>4, TypeGoesOn, TypeUnstarted DEF Recovered, Stages, Typed
<1>5. CASE TurnsReconciled
  <2>1. [worker EXCEPT !.state = "running", !.lane = "claiming"] \in Workers
    BY <1>1 DEF Typed, Workers, States, Lanes
  <2>2. [dispatcher EXCEPT !.state = "running", !.loop = "waiting"] \in Dispatchers
    BY <1>1 DEF Typed, Dispatchers, States
  <2> QED
    BY <1>1, <1>5, <2>1, <2>2, TypeUnstarted, TypeListen DEF TurnsReconciled, Typed
<1>6. CASE Ready
  BY <1>1, <1>6, TypeGoesOn, TypeUnstarted DEF Ready, Stages, Typed
<1> QED
  BY <1>2, <1>3, <1>4, <1>5, <1>6 DEF Start

LEMMA TypeEnd == TypeOK /\ End => TypeOK'
<1> SUFFICES ASSUME TypeOK, End PROVE Typed'
  BY Types
<1>1. Typed
  BY Types
<1>2. CASE DispatcherStops
  <2>1. dispatcher' \in Dispatchers
    BY <1>1, <1>2 DEF DispatcherStops, Typed, Dispatchers, States
  <2> QED
    BY <1>1, <1>2, <2>1, WorkerTypes DEF DispatcherStops, Typed, service
<1>3. CASE WorkerStops
  <2>1. worker' \in Workers
    BY <1>1, <1>3 DEF WorkerStops, Typed, Workers, States
  <2> QED
    BY <1>1, <1>3, <2>1 DEF WorkerStops, Typed, service
<1>4. CASE HttpCloses
  BY <1>1, <1>4 DEF HttpCloses, Typed, service
<1>5. CASE DatabaseCloses
  BY <1>1, <1>5 DEF DatabaseCloses, Typed
<1>6. CASE Exits
  BY <1>1, <1>6 DEF Exits, Typed, service
<1> QED
  BY <1>2, <1>3, <1>4, <1>5, <1>6 DEF End

LEMMA TypeLane == TypeOK /\ Lane => TypeOK'
<1> SUFFICES ASSUME TypeOK, Lane PROVE Typed'
  BY Types
<1>1. Typed
  BY Types
<1>2. worker' \in Workers
  <2>1. ASSUME NEW w \in Workers, NEW lane \in Lanes
        PROVE  [w EXCEPT !.lane = lane] \in Workers
    BY DEF Workers
  <2>2. ASSUME NEW w \in Workers
        PROVE  [w EXCEPT !.errors = 0] \in Workers
    BY DEF Workers
  <2>3. CASE LaneWakes
    BY <1>1, <2>3, WorkerTypes DEF LaneWakes, Typed
  <2>4. CASE Claimed
    <3>1. [worker EXCEPT !.lane = "waiting", !.errors = 0] \in Workers
      <4>1. "waiting" \in Lanes /\ worker \in Workers
        BY <1>1 DEF Lanes, Typed
      <4>2. [worker EXCEPT !.lane = "waiting"] \in Workers
        BY <2>1, <4>1
      <4>3. [[worker EXCEPT !.lane = "waiting"] EXCEPT !.errors = 0] \in Workers
        BY <2>2, <4>2
      <4>4. [worker EXCEPT !.lane = "waiting", !.errors = 0]
              = [[worker EXCEPT !.lane = "waiting"] EXCEPT !.errors = 0]
        OBVIOUS
      <4> QED
        BY <4>3, <4>4
    <3>2. [worker EXCEPT !.lane = "marking"] \in Workers
      BY <1>1, <2>1 DEF Typed, Lanes
    <3>3. Head([worker EXCEPT !.errors = 0]) \in Workers
      BY <1>1, <2>2, WorkerTypes DEF Typed
    <3> QED
      BY <1>1, <2>4, <3>1, <3>2, <3>3, FailsTypes DEF Claimed, Typed
  <2>5. CASE Marked
    <3>1. Head([worker EXCEPT !.errors = 0]) \in Workers
      BY <1>1, <2>2, WorkerTypes DEF Typed
    <3>2. [worker EXCEPT !.lane = "off"] \in Workers /\ [worker EXCEPT !.lane = "executing"] \in Workers
      BY <1>1, <2>1 DEF Typed, Lanes
    <3>3. SettleFatal([worker EXCEPT !.lane = "off"]) \in Workers
      BY <3>2, WorkerTypes
    <3> QED
      BY <2>5, <3>1, <3>2, <3>3 DEF Marked
  <2>6. CASE Executed
    <3>1. [worker EXCEPT !.lane = "off", !.lost = FALSE] \in Workers
      BY <1>1 DEF Typed, Workers, Lanes
    <3>2. SettleFatal([worker EXCEPT !.lane = "off", !.lost = FALSE]) \in Workers
      BY <3>1, WorkerTypes
    <3>3. [worker EXCEPT !.lane = "inspecting"] \in Workers
      BY <1>1, <2>1 DEF Typed, Lanes
    <3> QED
      BY <1>1, <2>6, <3>2, <3>3, WorkerTypes DEF Executed, Typed
  <2>7. CASE Inspected
    <3>1. Head([worker EXCEPT !.errors = 0]) \in Workers
      BY <1>1, <2>2, WorkerTypes DEF Typed
    <3> QED
      BY <1>1, <2>7, <3>1, FailsTypes DEF Inspected, Typed
  <2> QED
    BY <2>3, <2>4, <2>5, <2>6, <2>7 DEF Lane
<1>3. dispatcher' \in Dispatchers
  BY <1>1, DispatcherTypes
  DEF Lane, LaneWakes, Claimed, Marked, Executed, Inspected, MayHint, Typed
<1>4. UNCHANGED <<Others, http>>
  BY DEF Lane, LaneWakes, Claimed, Marked, Executed, Inspected
<1> QED
  BY <1>1, <1>2, <1>3, <1>4 DEF Typed, Others, service

LEMMA TypeLoop == TypeOK /\ (Loop \/ Hint) => TypeOK'
<1> SUFFICES ASSUME TypeOK, Loop \/ Hint PROVE Typed'
  BY Types
<1>1. Typed
  BY Types
<1>2. dispatcher' \in Dispatchers
  <2>1. CASE LoopWakes
    BY <1>1, <2>1 DEF LoopWakes, Typed, Dispatchers
  <2>2. CASE HintFollowed
    BY <1>1, <2>2 DEF HintFollowed, Typed, Dispatchers
  <2>3. CASE LoopEnds
    <3> DEFINE errors == dispatcher.errors + 1
    <3>1. ASSUME NEW n \in 0..MaxErrors
          PROVE  /\ [dispatcher EXCEPT !.errors = n] \in Dispatchers
                 /\ [dispatcher EXCEPT !.loop = "off", !.errors = n] \in Dispatchers
                 /\ [[dispatcher EXCEPT !.loop = "off", !.errors = n]
                       EXCEPT !.state = "fatal", !.fatal = TRUE] \in Dispatchers
      BY <1>1 DEF Typed, Dispatchers, States
    <3>2. errors < MaxErrors \/ errors = MaxErrors => errors \in 0..MaxErrors
      BY <1>1 DEF Typed, Dispatchers
    <3>3. 0 \in 0..MaxErrors
      OBVIOUS
    <3> HIDE DEF errors
    <3>4. \/ dispatcher' = Again([dispatcher EXCEPT !.errors = 0])
          \/ errors < MaxErrors /\ dispatcher' = Again([dispatcher EXCEPT !.errors = errors])
          \/ /\ errors = MaxErrors
             /\ \/ dispatcher' = [dispatcher EXCEPT !.loop = "off", !.errors = errors]
                \/ dispatcher' = [[dispatcher EXCEPT !.loop = "off", !.errors = errors]
                                    EXCEPT !.state = "fatal", !.fatal = TRUE]
      BY <2>3 DEF LoopEnds, errors
    <3> QED
      BY <3>1, <3>2, <3>3, <3>4, DispatcherTypes
  <2> QED
    BY <2>1, <2>2, <2>3 DEF Loop, Hint
<1>3. UNCHANGED <<Others, worker, http>>
  BY DEF Loop, Hint, LoopWakes, LoopEnds, HintFollowed
<1> QED
  BY <1>1, <1>2, <1>3 DEF Typed, Others, service

LEMMA TypeServer == TypeOK /\ (Server \/ ServerFails \/ Requested) => TypeOK'
<1> SUFFICES ASSUME TypeOK, Server \/ ServerFails \/ Requested PROVE Typed'
  BY Types
<1>1. Typed
  BY Types
<1>2. http' \in Servers
  BY <1>1 DEF Server, Drains, HandlerEnds, Binds, ServerFails, Requested, Typed, Servers
<1>3. dispatcher' \in Dispatchers
  BY <1>1, DispatcherTypes
  DEF Server, Drains, HandlerEnds, Binds, ServerFails, Requested, MayHint, Typed
<1>4. UNCHANGED <<Others, worker>>
  BY DEF Server, Drains, HandlerEnds, Binds, ServerFails, Requested, Others
<1> QED
  BY <1>1, <1>2, <1>3, <1>4 DEF Typed, Others, service

LEMMA TypeDeath == TypeOK /\ (FatalHeard \/ Signal \/ HeartbeatDies) => TypeOK'
<1> SUFFICES ASSUME TypeOK, FatalHeard \/ Signal \/ HeartbeatDies PROVE Typed'
  BY Types
<1>1. Typed
  BY Types
<1>2. ASSUME Shutdown
      PROVE  /\ worker' \in Workers /\ dispatcher' \in Dispatchers /\ http' \in Servers
             /\ closing' \in {"no", "dispatcher", "worker", "http", "database", "done"}
             /\ process' \in {"alive", "over", "killed"}
  BY <1>1, <1>2, CloseTypes DEF Shutdown, Typed
<1>3. CASE FatalHeard
  BY <1>1, <1>2, <1>3 DEF FatalHeard, Typed, service
<1>4. CASE Signal
  BY <1>1, <1>2, <1>4 DEF Signal, Typed, service
<1>5. CASE HeartbeatDies
  <2>1. [worker EXCEPT !.lost = TRUE] \in Workers
    BY <1>1 DEF Typed, Workers
  <2> QED
    BY <1>1, <1>5, <2>1, WorkerTypes DEF HeartbeatDies, Typed, Others, service
<1> QED
  BY <1>3, <1>4, <1>5

LEMMA TypeNext == TypeOK /\ [Next]_vars => TypeOK'
<1> SUFFICES ASSUME TypeOK, [Next]_vars PROVE TypeOK'
  OBVIOUS
<1>1. CASE UNCHANGED vars
  <2>1. Typed
    BY Types
  <2>2. Typed'
    BY <1>1, <2>1 DEF Typed, vars, service
  <2> QED
    BY <2>2, Types
<1> QED
  BY <1>1, TypeStart, TypeEnd, TypeLane, TypeLoop, TypeServer, TypeDeath
  DEF Next, Death, Outside

\* Boot stage, resources, closing and exit code keep their shapes.
THEOREM TypeCorrect == Spec => []TypeOK
  BY TypeInit, TypeNext, PTL DEF Spec
-----------------------------------------------------------------------------
(* The invariant.                                                          *)

\* What stopping and hinting leave as it was.
LEMMA DispatcherKept ==
  ASSUME NEW d \in Dispatchers
  PROVE  /\ Stopping(d).state # "running"
         /\ d.state # "running" => Notified(d) = d
         /\ Again(d).state = d.state /\ Again(d).hint = d.hint
  BY DEF Dispatchers, Stopping, Notified, Again

\* A worker that has stopped stays stopped.
LEMMA WorkerKept ==
  ASSUME NEW w \in Workers, w.state = "stopped"
  PROVE  /\ WorkerStopping(w) = w /\ SettleFatal(w) = w
         /\ Head(w) = [w EXCEPT !.lane = "off"]
         /\ Fails(w) = {[w EXCEPT !.lane = "off"]}
  BY DEF Workers, WorkerStopping, SettleFatal, StopRequested, Head, Fails

LEMMA InvInit == Init => LifecycleInv
  BY TypeInit
  DEF Init, LifecycleInv, NothingStarted, Early, ClosingFollows, DispatcherGone, WorkerGone,
      ServerGone, DatabaseGone, ExitTold

\* The first close, from the running service or from a start that failed.
LEMMA CloseInv ==
  ASSUME LifecycleInv, TypeOK', Alive, closing = "no",
         NEW w \in Workers, NEW d \in Dispatchers, Close(w, d),
         boot' \in {"running", "refused"}, boot' = "refused" <=> failure' # "none",
         database' # "closed", heard' => boot' = "running", exitCode' = 1 <=> heard'
  PROVE  LifecycleInv'
<1>1. NothingStarted' /\ ClosingFollows'
  BY DEF NothingStarted, Early, ClosingFollows, Close
<1>2. DispatcherGone' /\ WorkerGone'
  BY DispatcherKept DEF DispatcherGone, WorkerGone, Close
<1>3. ServerGone'
  <2>1. http \in Servers /\ ServerGone
    BY Types DEF LifecycleInv, Typed
  <2>2. /\ http'.socket = http.socket /\ http'.handler = http.handler
        /\ http'.drain = CASE http.socket = "none" -> "none"
                           [] http.socket = "broken" -> "failed"
                           [] OTHER -> "pending"
    BY <2>1 DEF Close, Servers
  <2>3. closing' = "dispatcher"
    BY DEF Close
  <2> QED
    BY <2>1, <2>2, <2>3 DEF ServerGone
<1>4. DatabaseGone' /\ ExitTold'
  BY DEF DatabaseGone, ExitTold, Close, Alive
<1> QED
  BY <1>1, <1>2, <1>3, <1>4 DEF LifecycleInv

LEMMA RefuseInv ==
  ASSUME LifecycleInv, TypeOK', Alive, boot \notin {"running", "refused"},
         NEW why \in {"aborted", "failed"},
         NEW w \in Workers, NEW d \in Dispatchers, Refuse(why, w, d),
         database' # "closed", UNCHANGED <<aborted, faulty, heard, exitCode>>
  PROVE  LifecycleInv'
<1>1. closing = "no" /\ ~heard /\ exitCode # 1
  BY DEF LifecycleInv, ClosingFollows, ExitTold
<1>2. Close(w, d) /\ boot' = "refused" /\ failure' # "none"
  BY DEF Refuse
<1> QED
  BY <1>1, <1>2, CloseInv

\* A step of the start that ended well.
LEMMA GoesOnInv ==
  ASSUME LifecycleInv, TypeOK', Alive, boot \notin {"running", "refused"},
         NEW stage \in Stages \ {"refused"}, GoesOn(stage),
         stage \in {"database", "runtime", "recovery", "turns"} => Early,
         database' # "closed", UNCHANGED <<aborted, faulty, heard, exitCode>>
  PROVE  LifecycleInv'
<1>1. CASE aborted
  <2>1. worker \in Workers /\ dispatcher \in Dispatchers
    BY Types DEF LifecycleInv, Typed
  <2>2. Refuse("aborted", worker, dispatcher)
    BY <1>1 DEF GoesOn, Unstarted
  <2> QED
    BY <2>1, <2>2, RefuseInv
<1>2. CASE ~aborted
  <2>1. boot' = stage /\ UNCHANGED <<failure, worker, dispatcher, http, closing, process>>
    BY <1>2 DEF GoesOn
  <2>2. closing = "no" /\ ~heard /\ failure = "none"
    BY DEF LifecycleInv, ClosingFollows, ExitTold
  <2>3. NothingStarted' /\ ClosingFollows'
    BY <2>1, <2>2 DEF LifecycleInv, NothingStarted, Early, ClosingFollows
  <2>4. DispatcherGone' /\ WorkerGone' /\ ServerGone' /\ DatabaseGone' /\ ExitTold'
    BY <2>1, <2>2 DEF LifecycleInv, DispatcherGone, WorkerGone, ServerGone, DatabaseGone, ExitTold, Alive
  <2> QED
    BY <2>3, <2>4 DEF LifecycleInv
<1> QED
  BY <1>1, <1>2

LEMMA ListenInv ==
  ASSUME LifecycleInv, TypeOK', Alive, Early,
         NEW w \in Workers, NEW d \in Dispatchers, Listen(w, d),
         UNCHANGED <<database, aborted, faulty, heard, exitCode>>
  PROVE  LifecycleInv'
<1>1. closing = "no" /\ ~heard /\ failure = "none" /\ database # "closed" /\ exitCode # 1
  BY DEF LifecycleInv, ClosingFollows, DatabaseGone, ExitTold, Early
<1>2. CASE Refuse("failed", w, d)
  BY <1>1, <1>2, RefuseInv DEF Early
<1>3. CASE /\ boot' = "ready" /\ http' = [http EXCEPT !.socket = "binding"]
           /\ worker' = w /\ dispatcher' = d
           /\ UNCHANGED <<failure, closing, process>>
  <2>1. http \in Servers /\ http.socket = "none" /\ ServerGone
    BY Types DEF LifecycleInv, Typed, NothingStarted
  <2>2. http'.drain = http.drain /\ http'.handler = http.handler /\ http'.socket = "binding"
    BY <1>3, <2>1 DEF Servers
  <2>3. http.drain # "failed" /\ ~http.handler
    BY <2>1 DEF ServerGone
  <2>4. ServerGone'
    BY <1>1, <1>3, <2>1, <2>2, <2>3 DEF ServerGone
  <2>5. NothingStarted' /\ ClosingFollows' /\ DispatcherGone' /\ WorkerGone' /\ DatabaseGone' /\ ExitTold'
    BY <1>1, <1>3
    DEF LifecycleInv, NothingStarted, Early, ClosingFollows, DispatcherGone, WorkerGone, DatabaseGone, ExitTold
  <2> QED
    BY <2>4, <2>5 DEF LifecycleInv
<1> QED
  BY <1>2, <1>3 DEF Listen

LEMMA InvStart == LifecycleInv /\ Start => LifecycleInv'
<1> SUFFICES ASSUME LifecycleInv, Start PROVE LifecycleInv'
  OBVIOUS
<1>1. worker \in Workers /\ dispatcher \in Dispatchers
  BY Types DEF LifecycleInv, Typed
<1>2. TypeOK' /\ Alive
  BY TypeStart DEF LifecycleInv, Start
<1>3. boot \notin {"running", "refused"} /\ database # "closed"
  BY DEF Start, Initialized, RuntimeCreated, Recovered, TurnsReconciled, Ready,
         LifecycleInv, ClosingFollows, DatabaseGone
<1>4. CASE Initialized
  BY <1>1, <1>2, <1>3, <1>4, GoesOnInv, RefuseInv DEF Initialized, Early, Unstarted, Stages
<1>5. CASE RuntimeCreated
  BY <1>1, <1>2, <1>3, <1>5, GoesOnInv, RefuseInv, ListenInv DEF RuntimeCreated, Early, Unstarted, Stages
<1>6. CASE Recovered
  BY <1>1, <1>2, <1>3, <1>6, GoesOnInv, RefuseInv DEF Recovered, Early, Unstarted, Stages
<1>7. CASE TurnsReconciled
  <2>1. [worker EXCEPT !.state = "running", !.lane = "claiming"] \in Workers
    BY <1>1 DEF Workers, States, Lanes
  <2>2. [dispatcher EXCEPT !.state = "running", !.loop = "waiting"] \in Dispatchers
    BY <1>1 DEF Dispatchers, States
  <2> QED
    BY <1>1, <1>2, <1>3, <1>7, <2>1, <2>2, RefuseInv, ListenInv DEF TurnsReconciled, Early, Unstarted
<1>8. CASE Ready
  BY <1>1, <1>2, <1>3, <1>8, GoesOnInv, RefuseInv DEF Ready, Early, Unstarted, Stages
<1> QED
  BY <1>4, <1>5, <1>6, <1>7, <1>8 DEF Start

LEMMA InvEnd == LifecycleInv /\ End => LifecycleInv'
<1> SUFFICES ASSUME LifecycleInv, End PROVE LifecycleInv'
  OBVIOUS
<1>1. worker \in Workers /\ dispatcher \in Dispatchers /\ http \in Servers /\ closing # "no"
  BY Types DEF LifecycleInv, Typed, End, DispatcherStops, WorkerStops, HttpCloses, DatabaseCloses, Exits
<1>2. TypeOK'
  BY TypeEnd DEF LifecycleInv
<1>3. ~Early /\ closing' # "no" /\ UNCHANGED <<boot, failure, http, heard>>
  BY <1>1
  DEF End, DispatcherStops, WorkerStops, HttpCloses, DatabaseCloses, Exits, service,
      LifecycleInv, ClosingFollows, Early
<1>4. NothingStarted' /\ ClosingFollows'
  BY <1>1, <1>3 DEF LifecycleInv, NothingStarted, Early, ClosingFollows
<1>5. DispatcherGone'
  <2>1. CASE DispatcherStops
    BY <1>1, <2>1 DEF DispatcherStops, DispatcherGone, Dispatchers
  <2>2. CASE ~DispatcherStops
    BY <2>2
    DEF End, WorkerStops, HttpCloses, DatabaseCloses, Exits, LifecycleInv, DispatcherGone
  <2> QED
    BY <2>1, <2>2
<1>6. WorkerGone'
  <2>1. CASE WorkerStops
    BY <1>1, <2>1 DEF WorkerStops, WorkerGone, Workers
  <2>2. CASE ~WorkerStops
    BY <2>2
    DEF End, DispatcherStops, HttpCloses, DatabaseCloses, Exits, LifecycleInv, WorkerGone
  <2> QED
    BY <2>1, <2>2
<1>7. ServerGone'
  BY <1>3
  DEF End, DispatcherStops, WorkerStops, HttpCloses, DatabaseCloses, Exits, LifecycleInv, ServerGone
<1>8. DatabaseGone'
  BY DEF End, DispatcherStops, WorkerStops, HttpCloses, DatabaseCloses, Exits, service,
         LifecycleInv, DatabaseGone
<1>9. ExitTold'
  <2>1. CASE DatabaseCloses
    BY <1>3, <2>1, Types
    DEF DatabaseCloses, LifecycleInv, ExitTold, ClosingFollows, End, Alive, Typed
  <2>2. CASE ~DatabaseCloses
    BY <1>3, <2>2
    DEF End, Alive, DispatcherStops, WorkerStops, HttpCloses, Exits, LifecycleInv, ExitTold, service
  <2> QED
    BY <2>1, <2>2
<1> QED
  BY <1>2, <1>4, <1>5, <1>6, <1>7, <1>8, <1>9 DEF LifecycleInv

\* Steps of lane, loop and server change neither stage nor closing: what
\* they must keep are the rests of the resources themselves.
LEMMA ResourceStep ==
  ASSUME LifecycleInv, TypeOK', UNCHANGED Others,
         Early => /\ worker'.state = "stopped" /\ worker'.lane = "off"
                  /\ dispatcher'.state = "stopped" /\ dispatcher'.loop = "off" /\ ~dispatcher'.hint
                  /\ http'.socket = "none",
         DispatcherGone', WorkerGone', ServerGone'
  PROVE  LifecycleInv'
<1>1. NothingStarted'
  BY DEF NothingStarted, Early, Others, service
<1>2. ClosingFollows' /\ DatabaseGone' /\ ExitTold'
  BY DEF LifecycleInv, ClosingFollows, DatabaseGone, ExitTold, Others, service
<1> QED
  BY <1>1, <1>2 DEF LifecycleInv

LEMMA InvLane == LifecycleInv /\ (Lane \/ HeartbeatDies) => LifecycleInv'
<1> SUFFICES ASSUME LifecycleInv, Lane \/ HeartbeatDies PROVE LifecycleInv'
  OBVIOUS
<1>1. worker \in Workers /\ dispatcher \in Dispatchers /\ http \in Servers
  BY Types DEF LifecycleInv, Typed
<1>2. TypeOK'
  BY TypeLane, TypeDeath DEF LifecycleInv
<1>3. /\ worker.lane # "off" /\ UNCHANGED <<Others, http>>
      /\ dispatcher' \in {dispatcher, Notified(dispatcher)}
  BY DEF Lane, LaneWakes, Claimed, Marked, Executed, Inspected, HeartbeatDies, MayHint
<1>4. ~Early
  BY <1>3 DEF LifecycleInv, NothingStarted
<1>5. worker.state = "stopped" => worker'.state = "stopped"
  <2> SUFFICES ASSUME worker.state = "stopped" PROVE worker'.state = "stopped"
    OBVIOUS
  <2>1. ASSUME NEW w \in Workers, w.state = "stopped"
        PROVE  /\ Head(w).state = "stopped" /\ SettleFatal(w).state = "stopped"
               /\ \A v \in Fails(w) : v.state = "stopped"
    BY <2>1, WorkerKept DEF Workers
  <2>2. /\ Head([worker EXCEPT !.errors = 0]).state = "stopped"
        /\ [worker EXCEPT !.lane = "waiting", !.errors = 0].state = "stopped"
        /\ [worker EXCEPT !.lane = "off"].state = "stopped"
    <3>1. /\ [worker EXCEPT !.errors = 0] \in Workers
          /\ [worker EXCEPT !.errors = 0].state = "stopped"
      BY <1>1 DEF Workers
    <3> QED
      BY <1>1, <2>1, <3>1 DEF Workers
  <2>3. SettleFatal([worker EXCEPT !.lane = "off", !.lost = FALSE]).state = "stopped"
    <3>1. /\ [worker EXCEPT !.lane = "off", !.lost = FALSE] \in Workers
          /\ [worker EXCEPT !.lane = "off", !.lost = FALSE].state = "stopped"
      BY <1>1 DEF Workers, Lanes
    <3> QED
      BY <2>1, <3>1
  <2>4. CASE LaneWakes
    BY <1>1, <2>1, <2>4 DEF LaneWakes
  <2>5. CASE Claimed
    BY <1>1, <2>1, <2>2, <2>5 DEF Claimed
  <2>6. CASE Marked
    BY <1>1, <2>1, <2>2, <2>6 DEF Marked, StopRequested
  <2>7. CASE Executed
    BY <1>1, <2>1, <2>3, <2>7 DEF Executed
  <2>8. CASE Inspected
    BY <1>1, <2>1, <2>2, <2>8 DEF Inspected
  <2>9. CASE HeartbeatDies
    BY <2>9 DEF HeartbeatDies
  <2> QED
    BY <2>4, <2>5, <2>6, <2>7, <2>8, <2>9 DEF Lane
<1>6. DispatcherGone'
  BY <1>1, <1>3, DispatcherKept DEF LifecycleInv, DispatcherGone, Others
<1>7. WorkerGone' /\ ServerGone'
  BY <1>3, <1>5 DEF LifecycleInv, WorkerGone, ServerGone, Others
<1> QED
  BY <1>2, <1>3, <1>4, <1>6, <1>7, ResourceStep

LEMMA InvLoop == LifecycleInv /\ (Loop \/ Hint) => LifecycleInv'
<1> SUFFICES ASSUME LifecycleInv, Loop \/ Hint PROVE LifecycleInv'
  OBVIOUS
<1>1. worker \in Workers /\ dispatcher \in Dispatchers /\ http \in Servers
  BY Types DEF LifecycleInv, Typed
<1>2. TypeOK'
  BY TypeLoop DEF LifecycleInv
<1>3. UNCHANGED <<Others, worker, http>> /\ (dispatcher.loop # "off" \/ dispatcher.hint)
  BY DEF Loop, Hint, LoopWakes, LoopEnds, HintFollowed
<1>4. ~Early
  BY <1>3 DEF LifecycleInv, NothingStarted
<1>5. DispatcherGone'
  <2>1. closing \in {"no", "dispatcher"}
    BY <1>3 DEF LifecycleInv, DispatcherGone
  <2>2. dispatcher.state # "running" => dispatcher'.state # "running"
    <3>1. CASE LoopWakes
      BY <1>1, <3>1 DEF LoopWakes, Dispatchers
    <3>2. CASE HintFollowed
      BY <1>1, <3>2 DEF HintFollowed, Dispatchers
    <3>3. CASE LoopEnds
      <4> SUFFICES ASSUME dispatcher.state # "running" PROVE dispatcher'.state # "running"
        OBVIOUS
      <4> DEFINE errors == dispatcher.errors + 1
      <4>1. ASSUME NEW n
            PROVE  /\ [dispatcher EXCEPT !.errors = n].state # "running"
                   /\ [dispatcher EXCEPT !.loop = "off", !.errors = n].state # "running"
                   /\ Again([dispatcher EXCEPT !.errors = n]).state # "running"
        BY <1>1 DEF Dispatchers, Again
      <4> HIDE DEF errors
      <4>2. \/ dispatcher' = Again([dispatcher EXCEPT !.errors = 0])
            \/ dispatcher' = Again([dispatcher EXCEPT !.errors = errors])
            \/ dispatcher' = [dispatcher EXCEPT !.loop = "off", !.errors = errors]
        BY <3>3 DEF LoopEnds, errors
      <4> QED
        BY <4>1, <4>2
    <3> QED
      BY <3>1, <3>2, <3>3 DEF Loop, Hint
  <2> QED
    BY <1>3, <2>1, <2>2 DEF LifecycleInv, DispatcherGone, Others
<1>6. WorkerGone' /\ ServerGone'
  BY <1>3 DEF LifecycleInv, WorkerGone, ServerGone, Others
<1> QED
  BY <1>2, <1>3, <1>4, <1>5, <1>6, ResourceStep

LEMMA InvServer == LifecycleInv /\ (Server \/ ServerFails \/ Requested) => LifecycleInv'
<1> SUFFICES ASSUME LifecycleInv, Server \/ ServerFails \/ Requested PROVE LifecycleInv'
  OBVIOUS
<1>1. dispatcher \in Dispatchers /\ http \in Servers
  BY Types DEF LifecycleInv, Typed
<1>2. TypeOK'
  BY TypeServer DEF LifecycleInv
<1>3. /\ UNCHANGED <<Others, worker>> /\ (http.socket # "none" \/ http.drain = "pending")
      /\ dispatcher' \in {dispatcher, Notified(dispatcher)}
  BY DEF Server, Drains, HandlerEnds, Binds, ServerFails, Requested, Others, MayHint,
         LifecycleInv, ServerGone
<1>4. ~Early
  BY <1>3 DEF LifecycleInv, NothingStarted, ServerGone, ClosingFollows, Early
<1>5. DispatcherGone'
  BY <1>1, <1>3, DispatcherKept DEF LifecycleInv, DispatcherGone, Others
<1>6. WorkerGone'
  BY <1>3 DEF LifecycleInv, WorkerGone, Others
<1>7. ServerGone'
  <2>1. UNCHANGED closing /\ ServerGone
    BY <1>3 DEF Others, LifecycleInv
  <2>2. CASE Drains
    <3>1. /\ http'.drain = IF http.handler THEN "forced" ELSE "closed"
          /\ http'.handler = http.handler /\ http'.socket = http.socket
      BY <1>1, <2>2 DEF Drains, Servers
    <3> QED
      BY <2>1, <2>2, <3>1 DEF ServerGone, Drains
  <2>3. CASE HandlerEnds
    <3>1. http'.drain = http.drain /\ ~http'.handler /\ http'.socket = http.socket
      BY <1>1, <2>3 DEF HandlerEnds, Servers
    <3> QED
      BY <2>1, <3>1 DEF ServerGone
  <2>4. CASE Binds
    <3>1. http'.drain = http.drain /\ http'.handler = http.handler /\ http'.socket # "none"
      BY <1>1, <2>4 DEF Binds, Servers
    <3> QED
      BY <2>1, <2>4, <3>1 DEF ServerGone, Binds
  <2>5. CASE ServerFails
    <3>1. http'.drain = http.drain /\ http'.handler = http.handler /\ http'.socket = http.socket
      BY <1>1, <2>5 DEF ServerFails, Servers
    <3> QED
      BY <2>1, <3>1 DEF ServerGone
  <2>6. CASE Requested
    <3>1. http'.drain = http.drain /\ http.socket = "bound" /\ http'.socket = http.socket
      BY <1>1, <2>6 DEF Requested, Servers
    <3> QED
      BY <2>1, <2>6, <3>1 DEF ServerGone, Requested
  <2> QED
    BY <2>2, <2>3, <2>4, <2>5, <2>6 DEF Server
<1> QED
  BY <1>2, <1>3, <1>4, <1>5, <1>6, <1>7, ResourceStep

LEMMA InvDeath == LifecycleInv /\ Alive /\ (FatalHeard \/ Signal) => LifecycleInv'
<1> SUFFICES ASSUME LifecycleInv, Alive, FatalHeard \/ Signal PROVE LifecycleInv'
  OBVIOUS
<1>1. worker \in Workers /\ dispatcher \in Dispatchers
  BY Types DEF LifecycleInv, Typed
<1>2. TypeOK'
  BY TypeDeath DEF LifecycleInv
<1>3. /\ UNCHANGED <<service, faulty>>
      /\ heard' => boot' = "running"
      /\ exitCode' = 1 <=> heard' \/ (closing = "done" /\ exitCode = 1)
  BY DEF FatalHeard, Signal, service, LifecycleInv, ExitTold, ClosingFollows
<1>4. CASE closing = "no" /\ boot = "running"
  <2>1. Close(worker, dispatcher)
    BY <1>4 DEF FatalHeard, Signal, Shutdown
  <2>2. database' # "closed" /\ boot' = "running" /\ failure' = "none"
    BY <1>3, <1>4 DEF service, LifecycleInv, DatabaseGone, ClosingFollows
  <2> QED
    BY <1>1, <1>2, <1>3, <1>4, <2>1, <2>2, CloseInv
<1>5. CASE ~(closing = "no" /\ boot = "running")
  <2>1. UNCHANGED <<closing, worker, dispatcher, http, process>>
    BY <1>5 DEF FatalHeard, Signal, Shutdown
  <2>2. /\ NothingStarted' /\ ClosingFollows' /\ DispatcherGone' /\ WorkerGone'
        /\ ServerGone' /\ DatabaseGone'
    BY <1>3, <2>1
    DEF service, LifecycleInv, NothingStarted, Early, ClosingFollows, DispatcherGone,
        WorkerGone, ServerGone, DatabaseGone
  <2>3. ExitTold'
    <3>1. CASE FatalHeard
      BY <2>1, <3>1 DEF FatalHeard, service, LifecycleInv, ExitTold, ClosingFollows, Alive
    <3>2. CASE Signal
      BY <2>1, <3>2 DEF Signal, service, LifecycleInv, ExitTold
    <3> QED
      BY <3>1, <3>2
  <2> QED
    BY <1>2, <2>2, <2>3 DEF LifecycleInv
<1> QED
  BY <1>4, <1>5

LEMMA InvNext == LifecycleInv /\ [Next]_vars => LifecycleInv'
<1> SUFFICES ASSUME LifecycleInv, [Next]_vars PROVE LifecycleInv'
  OBVIOUS
<1>1. CASE UNCHANGED vars
  <2>1. TypeOK'
    BY <1>1, TypeNext DEF LifecycleInv
  <2> QED
    BY <1>1, <2>1
    DEF vars, service, LifecycleInv, NothingStarted, Early, ClosingFollows, DispatcherGone,
        WorkerGone, ServerGone, DatabaseGone, ExitTold
<1> QED
  BY <1>1, InvStart, InvEnd, InvLane, InvLoop, InvServer, InvDeath
  DEF Next, Death, Outside

LEMMA Invariant == Spec => []LifecycleInv
  BY InvInit, InvNext, PTL DEF Spec

-----------------------------------------------------------------------------
(* The properties.                                                         *)

\* Nothing is closed under a user: when the database is closed, dispatcher
\* and worker have stopped and a handler still at work was cut off.
THEOREM DatabaseLast == Spec => []DatabaseOutlivesItsUsers
<1>1. LifecycleInv => DatabaseOutlivesItsUsers
  <2> SUFFICES ASSUME LifecycleInv, database = "closed" PROVE DatabaseOutlivesItsUsers
    BY DEF DatabaseOutlivesItsUsers
  <2>1. closing = "done"
    BY DEF LifecycleInv, DatabaseGone
  <2>2. http \in Servers
    BY Types DEF LifecycleInv, Typed
  <2> QED
    BY <2>1, <2>2
    DEF LifecycleInv, DispatcherGone, WorkerGone, ServerGone, DatabaseOutlivesItsUsers, Servers
<1> QED
  BY <1>1, Invariant, PTL

\* The exit code of a process that is over tells why it ended.
THEOREM ExitCodeIsTrue == Spec => []ExitCodeTells
<1>1. LifecycleInv => ExitCodeTells
  BY DEF LifecycleInv, ExitTold, ExitCodeTells
<1> QED
  BY <1>1, Invariant, PTL

\* What the stages of the closing are, as numbers.
LEMMA StageOrder ==
  /\ DOMAIN Cleanup = 1..6
  /\ Cleanup[1] = "no" /\ Cleanup[2] = "dispatcher" /\ Cleanup[3] = "worker"
  /\ Cleanup[4] = "http" /\ Cleanup[5] = "database" /\ Cleanup[6] = "done"
  BY DEF Cleanup

\* A step that does not begin the closing leaves its stage or goes to the next.
LEMMA ClosingMoves ==
  ASSUME LifecycleInv, [Next]_vars, closing # "no"
  PROVE  \/ closing' = closing
         \/ closing = "dispatcher" /\ closing' = "worker"
         \/ closing = "worker" /\ closing' = "http"
         \/ closing = "http" /\ closing' = "database"
         \/ closing = "database" /\ closing' = "done"
<1>1. CASE Start
  BY <1>1
  DEF Start, Initialized, RuntimeCreated, Recovered, TurnsReconciled, Ready,
      LifecycleInv, ClosingFollows
<1>2. CASE End
  BY <1>2 DEF End, DispatcherStops, WorkerStops, HttpCloses, DatabaseCloses, Exits
<1>3. CASE Lane \/ Loop \/ Hint \/ Server
  BY <1>3
  DEF Lane, LaneWakes, Claimed, Marked, Executed, Inspected, Loop, LoopWakes, LoopEnds, Hint,
      HintFollowed, Server, Drains, HandlerEnds, Binds, Others
<1>4. CASE Death \/ Outside
  BY <1>4 DEF Death, Outside, FatalHeard, Signal, Shutdown, ServerFails, Requested, HeartbeatDies, Others
<1>5. CASE UNCHANGED vars
  BY <1>5 DEF vars
<1> QED
  BY <1>1, <1>2, <1>3, <1>4, <1>5 DEF Next

\* Closing goes through its stages once, in their order, whatever asks for it.
THEOREM ClosesOnce == Spec => CleansUpOnce
<1>1. ASSUME LifecycleInv, [Next]_vars, closing # "no"
      PROVE  \E i, j \in DOMAIN Cleanup : i <= j /\ closing = Cleanup[i] /\ closing' = Cleanup[j]
  <2>1. \E i \in 1..6 : closing = Cleanup[i]
    <3>1. closing \in {Cleanup[i] : i \in DOMAIN Cleanup}
      BY <1>1 DEF LifecycleInv, TypeOK
    <3> QED
      BY <3>1, StageOrder
  <2>2. PICK i \in 1..6 : closing = Cleanup[i]
    BY <2>1
  <2>3. CASE closing' = closing
    BY <2>2, <2>3, StageOrder
  <2>4. CASE closing' # closing
    <3>1. \/ closing = Cleanup[2] /\ closing' = Cleanup[3]
          \/ closing = Cleanup[3] /\ closing' = Cleanup[4]
          \/ closing = Cleanup[4] /\ closing' = Cleanup[5]
          \/ closing = Cleanup[5] /\ closing' = Cleanup[6]
      BY <1>1, <2>4, ClosingMoves, StageOrder
    <3>2. ASSUME NEW n \in 2..5, closing = Cleanup[n], closing' = Cleanup[n + 1]
          PROVE  \E k, j \in DOMAIN Cleanup : k <= j /\ closing = Cleanup[k] /\ closing' = Cleanup[j]
      <4>1. n \in DOMAIN Cleanup /\ n + 1 \in DOMAIN Cleanup /\ n <= n + 1
        BY StageOrder
      <4> QED
        BY <3>2, <4>1
    <3> QED
      BY <3>1, <3>2
  <2> QED
    BY <2>3, <2>4
<1>2. LifecycleInv /\ [Next]_vars =>
        [closing # "no" => \E i, j \in DOMAIN Cleanup :
           i <= j /\ closing = Cleanup[i] /\ closing' = Cleanup[j]]_vars
  BY <1>1
<1> QED
  BY <1>2, Invariant, PTL DEF Spec, CleansUpOnce

\* A stopped lane does not go on, and a stopped dispatcher hears nothing.
LEMMA StoppedLane ==
  ASSUME LifecycleInv, [Next]_vars, worker.state = "stopped", worker.lane # "off"
  PROVE  worker'.lane \in {worker.lane, "waiting", "off"}
<1>1. worker \in Workers /\ ~Early
  BY Types DEF LifecycleInv, Typed, NothingStarted
<1>2. ASSUME NEW w \in Workers, w.state = "stopped"
      PROVE  /\ Head(w).lane = "off" /\ SettleFatal(w) = w /\ WorkerStopping(w) = w
             /\ \A v \in Fails(w) : v.lane = "off"
  BY <1>2, WorkerKept DEF Workers
<1>3. /\ [worker EXCEPT !.errors = 0] \in Workers
      /\ [worker EXCEPT !.errors = 0].state = "stopped"
  BY <1>1 DEF Workers
<1>4. /\ [worker EXCEPT !.lane = "off", !.lost = FALSE] \in Workers
      /\ [worker EXCEPT !.lane = "off", !.lost = FALSE].state = "stopped"
      /\ [worker EXCEPT !.lane = "off", !.lost = FALSE].lane = "off"
  BY <1>1 DEF Workers, Lanes
<1>5. /\ [worker EXCEPT !.lane = "off"].lane = "off"
      /\ [worker EXCEPT !.lane = "waiting", !.errors = 0].lane = "waiting"
      /\ [worker EXCEPT !.state = "stopped"].lane = worker.lane
      /\ [worker EXCEPT !.lost = TRUE] \in Workers
      /\ [worker EXCEPT !.lost = TRUE].lane = worker.lane
      /\ [worker EXCEPT !.lost = TRUE].state = "stopped"
      /\ [worker EXCEPT !.lane = "inspecting"].lane = "inspecting"
  BY <1>1 DEF Workers
<1>6. CASE Start
  <2>1. boot = "ready"
    BY <1>1, <1>6 DEF Start, Initialized, RuntimeCreated, Recovered, TurnsReconciled, Ready, Early
  <2> QED
    BY <1>6, <2>1
    DEF Start, Initialized, RuntimeCreated, Recovered, TurnsReconciled, Ready, GoesOn, Unstarted, Refuse, Close
<1>7. CASE End
  BY <1>2, <1>1, <1>5, <1>7 DEF End, DispatcherStops, WorkerStops, HttpCloses, DatabaseCloses, Exits
<1>8. CASE LaneWakes
  BY <1>1, <1>2, <1>8 DEF LaneWakes
<1>9. CASE Claimed
  BY <1>1, <1>2, <1>3, <1>5, <1>9 DEF Claimed
<1>10. CASE Marked
  BY <1>1, <1>2, <1>3, <1>5, <1>10 DEF Marked, StopRequested
<1>11. CASE Executed
  BY <1>1, <1>2, <1>4, <1>11 DEF Executed
<1>12. CASE Inspected
  BY <1>1, <1>2, <1>3, <1>12 DEF Inspected
<1>13. CASE Outside \/ Death
  BY <1>13 DEF Outside, Death, FatalHeard, Signal, Shutdown, Close, ServerFails, Requested, HeartbeatDies
<1>14. CASE Loop \/ Hint \/ Server \/ UNCHANGED vars
  BY <1>14
  DEF Loop, LoopWakes, LoopEnds, Hint, HintFollowed, Server, Drains, HandlerEnds, Binds, vars
<1> QED
  BY <1>6, <1>7, <1>8, <1>9, <1>10, <1>11, <1>12, <1>13, <1>14 DEF Next, Lane

\* After its stop the worker claims and executes nothing and the dispatcher
\* follows no hint, at every later step.
THEOREM StoppedIsQuiet == Spec => StoppedStaysQuiet
<1>1. ASSUME LifecycleInv, [Next]_vars, closing \notin {"no", "dispatcher"}
      PROVE  ~dispatcher'.hint
  <2>1. LifecycleInv'
    BY <1>1, InvNext
  <2>2. closing' \notin {"no", "dispatcher"}
    BY <1>1, ClosingMoves DEF LifecycleInv
  <2> QED
    BY <2>1, <2>2 DEF LifecycleInv, DispatcherGone
<1>2. LifecycleInv /\ [Next]_vars =>
        [/\ worker.state = "stopped" /\ worker.lane # "off" =>
              worker'.lane \in {worker.lane, "waiting", "off"}
         /\ closing \notin {"no", "dispatcher"} => ~dispatcher'.hint]_vars
  BY <1>1, StoppedLane
<1> QED
  BY <1>2, Invariant, PTL DEF Spec, StoppedStaysQuiet
=============================================================================
