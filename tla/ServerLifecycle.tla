-------------------------- MODULE ServerLifecycle --------------------------
(***************************************************************************)
(* The server process from its start to its end: bootstrap acquires        *)
(* database, runtime, worker, dispatcher and HTTP server one after the     *)
(* other, and closeStartedResources gives them back, while a stop signal,  *)
(* a failing step or a resource that dies may come at any moment.          *)
(*                                                                         *)
(* An action is what runs between two awaits that wait for something       *)
(* outside: what happens in microtasks only is one step.                   *)
(***************************************************************************)
EXTENDS Naturals

\* Bound: how many database errors in a row end the worker, and how many
\* failed passes end the dispatcher (five each in the code).
CONSTANT MaxErrors

ASSUME ErrorsAssumption == MaxErrors \in Nat \ {0}

VARIABLES
  boot,        \* the await that bootstrap is at
  aborted,     \* the stop signal has come
  failure,     \* how bootstrap ended, if it threw
  player,      \* the configured runtime, with worker and dispatcher
  worker, dispatcher, http, database,
  closing,     \* the resource closeStartedResources waits for
  faulty,      \* a resource could not be closed
  heard,       \* the death of a resource has been noticed
  exitCode,
  process

service == <<boot, failure, player, database>>
vars == <<service, aborted, worker, dispatcher, http, closing, faulty, heard, exitCode, process>>

Stages == {"database", "runtime", "recovery", "turns", "ready", "running", "refused"}
States == {"stopped", "running", "stopping", "fatal"}
Lanes == {"off", "waiting", "claiming", "marking", "executing", "inspecting"}
Cleanup == <<"no", "dispatcher", "worker", "http", "database", "done">>

Init ==
  /\ boot = "database" /\ failure = "none" /\ player = FALSE /\ database = "none"
  /\ aborted = FALSE
  /\ worker = [state |-> "stopped", fatal |-> FALSE, lane |-> "off", errors |-> 0, lost |-> FALSE]
  /\ dispatcher = [state |-> "stopped", fatal |-> FALSE, loop |-> "off", errors |-> 0, hint |-> FALSE]
  /\ http = [socket |-> "none", fatal |-> FALSE, drain |-> "none", handler |-> FALSE]
  /\ closing = "no" /\ faulty = FALSE /\ heard = FALSE
  /\ exitCode = 0 /\ process = "alive"

-----------------------------------------------------------------------------
(* Closing.                                                                *)

\* stop() of the dispatcher and of the worker, up to the wait.
Stopping(r) == IF r.state = "running" THEN [r EXCEPT !.state = "stopping"] ELSE r
WorkerStopping(w) == IF w.state = "stopped" THEN w ELSE [w EXCEPT !.state = "stopping"]

\* What ends with the notification of stop() needs no event from outside.
Busy(w, d) == d.loop = "working" \/ d.hint \/ w.lane \notin {"off", "waiting"}

\* A server that never listened or no longer does refuses to close: the
\* drain fails on the next tick.  Nobody awaits it yet while dispatcher or
\* worker are busy, and a rejection nobody awaits ends the process.
Orphaned(w, d, h) == h.socket = "broken" /\ player /\ Busy(w, d)

\* closeStartedResources up to its first await, with worker and dispatcher
\* as they have just become.
Close(w, d) ==
  /\ closing' = "dispatcher"
  /\ worker' = w
  /\ dispatcher' = Stopping(d)
  /\ http' = [http EXCEPT !.drain = CASE http.socket = "none" -> "none"
                                      [] http.socket = "broken" -> "failed"
                                      [] OTHER -> "pending"]
  /\ process' = IF Orphaned(w, d, http) THEN "killed" ELSE process

\* Broken: every call closes.
ShutdownAgain == Close(worker, dispatcher)

\* shutdown: the first call closes, a later one gets the same promise.
Shutdown ==
  IF closing = "no" THEN Close(worker, dispatcher)
  ELSE UNCHANGED <<closing, worker, dispatcher, http, process>>

\* Broken: does not wait for the hint that is being followed.
DispatcherStopsLoopOnly ==
  /\ closing = "dispatcher" /\ dispatcher.loop = "off"
  /\ closing' = "worker"
  /\ dispatcher' = [dispatcher EXCEPT !.state = "stopped"]
  /\ worker' = WorkerStopping(worker)
  /\ UNCHANGED <<service, aborted, http, faulty, heard, exitCode, process>>

\* The loop has ended and the last hint has been followed.
DispatcherStops ==
  /\ closing = "dispatcher" /\ dispatcher.loop = "off" /\ ~dispatcher.hint
  /\ closing' = "worker"
  /\ dispatcher' = [dispatcher EXCEPT !.state = "stopped"]
  /\ worker' = WorkerStopping(worker)
  /\ UNCHANGED <<service, aborted, http, faulty, heard, exitCode, process>>

\* The lane has ended, or ten seconds have passed.
WorkerStops ==
  /\ closing = "worker"
  /\ closing' = "http"
  /\ worker' = [worker EXCEPT !.state = "stopped"]
  /\ UNCHANGED <<service, aborted, dispatcher, http, faulty, heard, exitCode, process>>

\* All connections are closed, or closed by force after ten seconds.
Drains ==
  /\ http.drain = "pending"
  /\ http' = [http EXCEPT !.drain = IF http.handler THEN "forced" ELSE "closed"]
  /\ UNCHANGED <<service, aborted, worker, dispatcher, closing, faulty, heard, exitCode, process>>

HttpCloses ==
  /\ closing = "http" /\ http.drain # "pending"
  /\ closing' = "database"
  /\ faulty' = (faulty \/ http.drain = "failed")
  /\ UNCHANGED <<service, aborted, worker, dispatcher, http, heard, exitCode, process>>

\* database.close(), which may fail; then shutdown rejects, which latches
\* the exit code, or bootstrap throws what made it fail.
DatabaseCloses ==
  /\ closing = "database"
  /\ closing' = "done"
  /\ \/ database = "open" /\ database' = "closed" /\ faulty' = faulty
     \/ database = "open" /\ UNCHANGED database /\ faulty' = TRUE
     \/ database = "none" /\ UNCHANGED <<database, faulty>>
  /\ exitCode' = IF failure = "failed" \/ (failure = "none" /\ faulty') THEN 1 ELSE exitCode
  /\ UNCHANGED <<boot, failure, player, aborted, worker, dispatcher, http, heard, process>>

\* Nothing is left that keeps the process alive.
Exits ==
  /\ closing = "done"
  /\ worker.lane = "off" /\ ~http.handler /\ http.drain # "pending"
  /\ process' = "over"
  /\ UNCHANGED <<service, aborted, worker, dispatcher, http, closing, faulty, heard, exitCode>>
-----------------------------------------------------------------------------
(* The start.                                                              *)

\* bootstrap throws: what was started is closed first.
Refuse(why, w, d) ==
  /\ boot' = "refused" /\ failure' = why
  /\ Close(w, d)

Unstarted(why) == Refuse(why, worker, dispatcher)

\* A step has ended well: bootstrap goes on unless it was told to stop.
GoesOn(stage) ==
  IF aborted THEN Unstarted("aborted")
  ELSE /\ boot' = stage
       /\ UNCHANGED <<failure, worker, dispatcher, http, closing, process>>

Initialized ==
  /\ boot = "database"
  /\ \/ database' = "open" /\ GoesOn("runtime")
     \/ UNCHANGED database /\ Unstarted("failed")
  /\ UNCHANGED <<player, aborted, faulty, heard, exitCode>>

\* listen: the port is asked for, or serve throws.
Listen(w, d) ==
  \/ /\ boot' = "ready"
     /\ http' = [http EXCEPT !.socket = "binding"]
     /\ worker' = w /\ dispatcher' = d
     /\ UNCHANGED <<failure, closing, process>>
  \/ Refuse("failed", w, d)

\* Without a model configuration the server is there for diagnosis only.
RuntimeCreated ==
  /\ boot = "runtime"
  /\ \/ player' = TRUE /\ GoesOn("recovery")
     \/ player' = FALSE /\ aborted /\ Unstarted("aborted")
     \/ player' = FALSE /\ ~aborted /\ Listen(worker, dispatcher)
     \/ UNCHANGED player /\ Unstarted("failed")
  /\ UNCHANGED <<database, aborted, faulty, heard, exitCode>>

\* A failure after the signal counts as the signal.
Recovered ==
  /\ boot = "recovery"
  /\ \/ GoesOn("turns")
     \/ Unstarted(IF aborted THEN "aborted" ELSE "failed")
  /\ UNCHANGED <<player, database, aborted, faulty, heard, exitCode>>

\* After the repair of the turns worker and dispatcher start and the port is
\* asked for without a wait in between.
TurnsReconciled ==
  /\ boot = "turns"
  /\ \/ /\ ~aborted
        /\ Listen([worker EXCEPT !.state = "running", !.lane = "claiming"],
                  [dispatcher EXCEPT !.state = "running", !.loop = "waiting"])
     \/ Unstarted(IF aborted THEN "aborted" ELSE "failed")
  /\ UNCHANGED <<player, database, aborted, faulty, heard, exitCode>>

\* Broken: what comes first decides, also after the signal.
ReadyUnasked ==
  /\ boot = "ready"
  /\ \/ /\ http.socket = "bound"
        /\ boot' = "running"
        /\ UNCHANGED <<failure, worker, dispatcher, http, closing, process>>
     \/ (worker.fatal \/ dispatcher.fatal \/ http.socket # "bound") /\ Unstarted("failed")
  /\ UNCHANGED <<player, database, aborted, faulty, heard, exitCode>>

\* waitForHttpReady: the port is bound, could not be, or was not in time, a
\* resource has died, or the signal has come.
Ready ==
  /\ boot = "ready"
  /\ \/ http.socket = "bound" /\ GoesOn("running")
     \/ ~aborted /\ (worker.fatal \/ dispatcher.fatal \/ http.socket # "bound") /\ Unstarted("failed")
     \/ aborted /\ Unstarted("aborted")
  /\ UNCHANGED <<player, database, aborted, faulty, heard, exitCode>>
-----------------------------------------------------------------------------
(* What happens to the process.                                            *)

\* SIGINT or SIGTERM, the first time.
Signal ==
  /\ ~aborted
  /\ aborted' = TRUE
  /\ IF boot = "running" THEN Shutdown
     ELSE UNCHANGED <<closing, worker, dispatcher, http, process>>
  /\ UNCHANGED <<service, faulty, heard, exitCode>>

Fatal == worker.fatal \/ dispatcher.fatal \/ http.fatal

\* Broken: a service that is closing anyway keeps its exit code.
FatalHeardOnce ==
  /\ boot = "running" /\ Fatal /\ ~heard
  /\ heard' = TRUE
  /\ exitCode' = IF closing = "no" THEN 1 ELSE exitCode
  /\ Shutdown
  /\ UNCHANGED <<service, aborted, faulty>>

\* The running service has lost a resource: the exit code is latched and the
\* service closes, if it does not already.
FatalHeard ==
  /\ boot = "running" /\ Fatal /\ ~heard
  /\ heard' = TRUE
  /\ exitCode' = 1
  /\ Shutdown
  /\ UNCHANGED <<service, aborted, faulty>>

Others == <<service, aborted, closing, faulty, heard, exitCode, process>>

\* The port is bound or taken.
Binds ==
  /\ http.socket = "binding" /\ http.drain = "none"
  /\ \E socket \in {"bound", "broken"} : http' = [http EXCEPT !.socket = socket]
  /\ UNCHANGED <<Others, worker, dispatcher>>

\* An error of the listening server counts unless it is being closed.
ServerFails ==
  /\ http.socket = "bound" /\ http.drain = "none" /\ ~http.fatal
  /\ http' = [http EXCEPT !.fatal = TRUE]
  /\ UNCHANGED <<Others, worker, dispatcher>>

Requested ==
  /\ http.socket = "bound" /\ http.drain = "none" /\ ~http.handler
  /\ http' = [http EXCEPT !.handler = TRUE]
  /\ UNCHANGED <<Others, worker, dispatcher>>

-----------------------------------------------------------------------------
(* The dispatcher.                                                         *)

\* notify: only a running dispatcher follows a hint at once.
Notified(d) == IF d.state = "running" THEN [d EXCEPT !.hint = TRUE] ELSE d

\* A commit hints at the next turn, if it left one.
MayHint == dispatcher' \in {dispatcher, Notified(dispatcher)}

\* The handler's answer ends its connection when the server is closing.
HandlerEnds ==
  /\ http.handler
  /\ http' = [http EXCEPT !.handler = FALSE]
  /\ MayHint
  /\ UNCHANGED <<Others, worker>>

HintFollowed ==
  /\ dispatcher.hint
  /\ dispatcher' = [dispatcher EXCEPT !.hint = FALSE]
  /\ UNCHANGED <<Others, worker, http>>

Again(d) == [d EXCEPT !.loop = IF d.state = "running" THEN "waiting" ELSE "off"]

LoopWakes ==
  /\ dispatcher.loop = "waiting"
  /\ dispatcher' = [dispatcher EXCEPT !.loop = IF dispatcher.state = "running" THEN "working" ELSE "off"]
  /\ UNCHANGED <<Others, worker, http>>

\* Too many failed passes in a row end the dispatcher, which is fatal unless
\* it was told to stop.
LoopEnds ==
  LET errors == dispatcher.errors + 1
      dead == [dispatcher EXCEPT !.loop = "off", !.errors = errors] IN
  /\ dispatcher.loop = "working"
  /\ \/ dispatcher' = Again([dispatcher EXCEPT !.errors = 0])
     \/ errors < MaxErrors /\ dispatcher' = Again([dispatcher EXCEPT !.errors = errors])
     \/ errors = MaxErrors
          /\ dispatcher' = IF dispatcher.state = "running"
                             THEN [dead EXCEPT !.state = "fatal", !.fatal = TRUE] ELSE dead
  /\ UNCHANGED <<Others, worker, http>>

-----------------------------------------------------------------------------
(* The worker.                                                             *)

StopRequested(w) == w.state \in {"stopping", "stopped"}

SettleFatal(w) ==
  IF StopRequested(w) \/ w.fatal THEN w ELSE [w EXCEPT !.state = "fatal", !.fatal = TRUE]

\* Broken: looks only for its own death.
HeadUnstopped(w) == [w EXCEPT !.lane = IF w.state = "fatal" THEN "off" ELSE "claiming"]

\* The head of the lane's loop.
Head(w) == [w EXCEPT !.lane = IF w.state = "running" THEN "claiming" ELSE "off"]

\* What the lane makes of an error: it ends when it was told to stop, waits
\* after a database error or a lost lease, and dies of too many or of others.
Fails(w) ==
  LET off == [w EXCEPT !.lane = "off"]
      later == [w EXCEPT !.lane = "waiting"] IN
  IF StopRequested(w) THEN {off}
  ELSE {later, SettleFatal(off)}
         \union IF w.errors + 1 < MaxErrors THEN {[later EXCEPT !.errors = @ + 1]} ELSE {}

LaneWakes ==
  /\ worker.lane = "waiting"
  /\ worker' = Head(worker)
  /\ UNCHANGED <<Others, dispatcher, http>>

\* claimNext: nothing to do, a run, or an error.  A run claimed after the
\* stop is left to its lease.
Claimed ==
  /\ worker.lane = "claiming"
  /\ worker' \in Fails(worker)
       \union {[worker EXCEPT !.lane = "waiting", !.errors = 0],
               IF worker.state = "running" THEN [worker EXCEPT !.lane = "marking"]
                                           ELSE Head([worker EXCEPT !.errors = 0])}
  /\ UNCHANGED <<Others, dispatcher, http>>

\* markRunning: an error it can recover from only leaves the run.
Marked ==
  /\ worker.lane = "marking"
  /\ worker' \in {Head([worker EXCEPT !.errors = 0]),
                  IF StopRequested(worker) THEN [worker EXCEPT !.lane = "off"]
                                           ELSE SettleFatal([worker EXCEPT !.lane = "off"])}
       \union IF worker.state = "running" THEN {[worker EXCEPT !.lane = "executing"]} ELSE {}
  /\ UNCHANGED <<Others, dispatcher, http>>

\* The heartbeat of the execution fails for good: the worker dies at once,
\* the execution is told and ends when it does.
HeartbeatDies ==
  /\ worker.lane = "executing" /\ ~worker.lost /\ worker.state # "stopped"
  /\ worker' = SettleFatal([worker EXCEPT !.lost = TRUE])
  /\ UNCHANGED <<Others, dispatcher, http>>

\* The executor ends; what it committed may hint at the next turn.
Executed ==
  /\ worker.lane = "executing"
  /\ MayHint
  /\ worker' = IF worker.lost THEN SettleFatal([worker EXCEPT !.lane = "off", !.lost = FALSE])
               ELSE IF worker.state = "stopped" THEN Head(worker)
               ELSE [worker EXCEPT !.lane = "inspecting"]
  /\ UNCHANGED <<Others, http>>

\* inspectSettlement.
Inspected ==
  /\ worker.lane = "inspecting"
  /\ worker' \in Fails(worker) \union {Head([worker EXCEPT !.errors = 0])}
  /\ UNCHANGED <<Others, dispatcher, http>>

-----------------------------------------------------------------------------
Alive == process = "alive"

Start == Alive /\ (Initialized \/ RuntimeCreated \/ Recovered \/ TurnsReconciled \/ Ready)
End == Alive /\ (DispatcherStops \/ WorkerStops \/ HttpCloses \/ DatabaseCloses \/ Exits)
Lane == Alive /\ (LaneWakes \/ Claimed \/ Marked \/ Executed \/ Inspected)
Loop == Alive /\ (LoopWakes \/ LoopEnds)
Hint == Alive /\ HintFollowed
Server == Alive /\ (Drains \/ HandlerEnds \/ Binds)
Death == Alive /\ FatalHeard
Outside == Alive /\ (Signal \/ ServerFails \/ Requested \/ HeartbeatDies)

Next == Start \/ End \/ Lane \/ Loop \/ Hint \/ Server \/ Death \/ Outside

\* What is awaited comes: queries and timers end, handlers answer, and the
\* drain has its ten seconds.  Signals, failures and requests need not come.
Fairness ==
  /\ WF_vars(Start) /\ WF_vars(End) /\ WF_vars(Lane) /\ WF_vars(Loop)
  /\ WF_vars(Hint) /\ WF_vars(Server) /\ WF_vars(Death)

Spec == Init /\ [][Next]_vars /\ Fairness
-----------------------------------------------------------------------------
(* Correctness.                                                            *)

TypeOK ==
  /\ boot \in Stages /\ failure \in {"none", "aborted", "failed"}
  /\ player \in BOOLEAN /\ database \in {"none", "open", "closed"}
  /\ aborted \in BOOLEAN /\ faulty \in BOOLEAN /\ heard \in BOOLEAN
  /\ worker \in [state : States, fatal : BOOLEAN, lane : Lanes, errors : 0..MaxErrors, lost : BOOLEAN]
  /\ dispatcher \in [state : States, fatal : BOOLEAN, loop : {"off", "waiting", "working"},
                     errors : 0..MaxErrors, hint : BOOLEAN]
  /\ http \in [socket : {"none", "binding", "bound", "broken"}, fatal : BOOLEAN,
               drain : {"none", "pending", "closed", "forced", "failed"}, handler : BOOLEAN]
  /\ closing \in {Cleanup[i] : i \in DOMAIN Cleanup}
  /\ exitCode \in {0, 1} /\ process \in {"alive", "over", "killed"}

\* The database is closed after everything that uses it has come to rest: all
\* but a lane the worker has given up waiting for and a handler whose
\* connection was cut.
DatabaseOutlivesItsUsers ==
  database = "closed" =>
    /\ dispatcher.loop = "off" /\ ~dispatcher.hint
    /\ worker.state = "stopped"
    /\ http.handler => http.drain = "forced"

\* After its stop the worker claims and executes nothing more, even when it
\* stopped with a lane still at work, and the dispatcher follows no hint,
\* even of a commit that ends after it.
StoppedStaysQuiet ==
  [][/\ worker.state = "stopped" /\ worker.lane # "off" =>
          worker'.lane \in {worker.lane, "waiting", "off"}
     /\ closing \notin {"no", "dispatcher"} => ~dispatcher'.hint]_vars

\* The exit code tells a requested stop from a failed start, from the death
\* of a resource of the running service, also one that comes while it is
\* closing, and from a shutdown that failed; a start that was stopped is no
\* failure, whatever its cleanup met.
ExitCodeTells ==
  process = "over" =>
    (exitCode = 1 <=> failure = "failed" \/ (failure = "none" /\ (heard \/ faulty)))

\* However many reasons to stop there are, what was started is closed once.
CleansUpOnce ==
  [][closing # "no" => \E i, j \in DOMAIN Cleanup :
       i <= j /\ closing = Cleanup[i] /\ closing' = Cleanup[j]]_vars

\* A signal at any moment of the start or of the service, a step that failed
\* or a resource that died ends the process.
StopsAtLast ==
  (aborted \/ failure # "none" \/ (boot = "running" /\ Fatal)) ~> process # "alive"

=============================================================================
