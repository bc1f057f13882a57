------------------------- MODULE SessionLifecycle -------------------------
(***************************************************************************)
(* How the sessions of an owner come and go: creation (from the catalogue  *)
(* or with the roster of the session that ended last), the transactions of *)
(* commands and of the agent runtime, the deletion of one ended session    *)
(* and the clearing of all data.  Each is one READ COMMITTED transaction   *)
(* over shared rows, and what keeps them apart is only the order and the   *)
(* kind of their row locks: a request is modelled lock by lock, and what   *)
(* it writes becomes visible when it commits.                              *)
(*                                                                         *)
(* A statement that locks a row waits for the transactions that hold it    *)
(* and then works with the row as it has become; PostgreSQL aborts one     *)
(* request of a circle of waiting requests.                                *)
(***************************************************************************)
EXTENDS Integers, Sequences, FiniteSets

CONSTANTS Requests,      \* the transactions that may run at one time
          MaxSessions    \* how many sessions are created at most

ASSUME BoundAssumption == MaxSessions \in Nat

\* Identities are in the order in which ORDER BY id locks them.
Sessions == 1..MaxSessions
NoSession == 0

Owner == <<"owner", NoSession>>
ClaimKey == <<"claim key", NoSession>>
SessionRow(s) == <<"session", s>>
RunRow(s) == <<"run", s>>
RosterRows(s) == <<"roster", s>>
Rows == ({"owner", "claim key"} \X {NoSession})
          \union ({"session", "run", "roster"} \X Sessions)

VARIABLES session,   \* the lifecycle of each session
          endings,   \* the ended sessions in the order of their ended_at
          run,       \* the non-terminal run of each session
          request,   \* what each request is at
          owns,      \* the rows a request has locked FOR UPDATE
          shares     \* the rows a request has locked FOR SHARE

vars == <<session, endings, run, request, owns, shares>>

Lifecycles == {"unborn", "active", "ended", "diagnosed", "deleted"}
RunStates == {"none", "queued", "leased"}
Kinds == {"none", "create", "delete", "clear", "turn", "claim", "observe",
          "remember", "decide"}
Steps == {"idle", "owner", "seek", "active", "source", "insert", "session",
          "sessions", "run", "runs", "roster", "rosters", "claim key", "commit"}

\* todo: rows a statement has still to lock; locked: the sessions it has
\* locked; cancelled: the sessions whose runs it has locked.
NoRequest == [kind |-> "none", step |-> "idle", target |-> NoSession, source |-> NoSession,
              todo |-> {}, locked |-> {}, cancelled |-> {}]

Init ==
  /\ session = [s \in Sessions |-> "unborn"]
  /\ endings = <<>>
  /\ run = [s \in Sessions |-> "none"]
  /\ request = [p \in Requests |-> NoRequest]
  /\ owns = [p \in Requests |-> {}]
  /\ shares = [p \in Requests |-> {}]

-----------------------------------------------------------------------------
(* What a statement sees.                                                  *)

Existing == {s \in Sessions : session[s] \in {"active", "ended", "diagnosed"}}
Active == {s \in Sessions : session[s] = "active"}
Ended == {s \in Sessions : session[s] = "ended"}
Unborn == {s \in Sessions : session[s] = "unborn"}
WithRun == {s \in Sessions : run[s] # "none"}

\* ORDER BY ended_at DESC LIMIT 1
Latest(s) == endings # <<>> /\ s = endings[Len(endings)]
Place(s) == CHOOSE i \in DOMAIN endings : endings[i] = s
Without(s) ==
  IF s \in Ended
    THEN SubSeq(endings, 1, Place(s) - 1) \o SubSeq(endings, Place(s) + 1, Len(endings))
    ELSE endings

\* The next row in the order of ORDER BY id.
First(S) == CHOOSE s \in S : \A t \in S : s <= t

Step(p) == request[p].step
Kind(p) == request[p].kind
Target(p) == request[p].target

-----------------------------------------------------------------------------
(* Locks.                                                                  *)

Free(p, row) == \A q \in Requests \ {p} : row \notin owns[q] /\ row \notin shares[q]
Shareable(p, row) == \A q \in Requests \ {p} : row \notin owns[q]

Own(p, row) == Free(p, row) /\ owns' = [owns EXCEPT ![p] = @ \union {row}] /\ UNCHANGED shares
Share(p, row) == Shareable(p, row) /\ shares' = [shares EXCEPT ![p] = @ \union {row}] /\ UNCHANGED owns

\* COMMIT or ROLLBACK: the locks go and the request is answered.
Release(p) == /\ request' = [request EXCEPT ![p] = NoRequest]
              /\ owns' = [owns EXCEPT ![p] = {}]
              /\ shares' = [shares EXCEPT ![p] = {}]

\* The request goes on to its next statement.
Becomes(p, r) == request' = [request EXCEPT ![p] = r]
GoesTo(p, step) == Becomes(p, [request[p] EXCEPT !.step = step])

Data == <<session, endings, run>>
Locks == <<owns, shares>>

\* The row a request asks for next, if its statement is one that locks.
Asks(p) ==
  {row \in Rows :
     \/ Step(p) = "owner" /\ row = Owner
     \/ Step(p) = "claim key" /\ row = ClaimKey
     \/ Step(p) \in {"active", "session"} /\ row = SessionRow(Target(p))
     \/ Step(p) = "source" /\ row = SessionRow(request[p].source)
     \/ Step(p) = "run" /\ row = RunRow(Target(p))
     \/ Step(p) = "roster" /\ row = RosterRows(Target(p))
     \/ /\ request[p].todo # {}
        /\ \/ Step(p) = "sessions" /\ row = SessionRow(First(request[p].todo))
           \/ Step(p) = "runs" /\ row = RunRow(First(request[p].todo))
           \/ Step(p) = "rosters" /\ row = RosterRows(First(request[p].todo))}

Sharing(p) == \/ Kind(p) = "observe"
              \/ Kind(p) = "remember" /\ Step(p) = "session"
              \/ Kind(p) = "decide" /\ Step(p) = "roster"

\* p waits for q.
WaitsFor(p, q) ==
  /\ p # q
  /\ \E row \in Asks(p) : row \in owns[q] \/ (row \in shares[q] /\ ~Sharing(p))

-----------------------------------------------------------------------------
(* Creation.                                                               *)

\* With the roster of the latest ended session a preflight outside the
\* transaction tells which one that is; without one there is no transaction.
BeginCreate(p) ==
  /\ Step(p) = "idle"
  /\ Unborn # {}
  /\ \E source \in Ended \union {NoSession} :
       /\ source # NoSession => Latest(source)
       /\ Becomes(p, [NoRequest EXCEPT !.kind = "create", !.step = "owner", !.source = source])
  /\ UNCHANGED <<Data, Locks>>

\* The rows of all sessions are selected at the moment the owner is locked.
LockOwner(p) ==
  /\ Step(p) = "owner"
  /\ Own(p, Owner)
  /\ IF Kind(p) = "create"
       THEN GoesTo(p, "seek")
       ELSE Becomes(p, [request[p] EXCEPT !.step = "sessions", !.todo = Existing])
  /\ UNCHANGED Data

\* Without an active session: the source still has to be the latest ended.
AcceptRoster(p) ==
  LET source == request[p].source IN
  \/ source = NoSession /\ GoesTo(p, "insert") /\ UNCHANGED Locks
  \/ source # NoSession /\ Latest(source) /\ GoesTo(p, "source") /\ UNCHANGED Locks
  \/ source # NoSession /\ ~Latest(source) /\ Release(p)

\* Broken: looks for any session that has not ended.
SeekUnended(p) ==
  /\ Step(p) = "seek"
  /\ UNCHANGED Data
  /\ LET unended == Existing \ Ended IN
     \/ /\ \E s \in unended : Becomes(p, [request[p] EXCEPT !.step = "active", !.target = s])
        /\ UNCHANGED Locks
     \/ unended = {} /\ AcceptRoster(p)

\* SELECT the active session, without a lock.
SeekActive(p) ==
  /\ Step(p) = "seek"
  /\ UNCHANGED Data
  /\ \/ /\ \E s \in Active : Becomes(p, [request[p] EXCEPT !.step = "active", !.target = s])
        /\ UNCHANGED Locks
     \/ Active = {} /\ AcceptRoster(p)

\* The session found is locked by its id: it may have gone or changed.
LockActive(p) ==
  /\ Step(p) = "active"
  /\ UNCHANGED Data
  /\ IF Target(p) \in Existing
       THEN /\ Free(p, SessionRow(Target(p)))
            /\ IF Target(p) \in Active
                 THEN Release(p)
                 ELSE Own(p, SessionRow(Target(p))) /\ GoesTo(p, "seek")
       ELSE GoesTo(p, "seek") /\ UNCHANGED Locks

\* Broken: trusts the preflight and copies without a lock.
TrustPreflight(p) ==
  /\ Step(p) = "source"
  /\ UNCHANGED Data
  /\ GoesTo(p, "insert")
  /\ UNCHANGED Locks

\* Once it is locked, the source has to be there and the latest still.
LockSource(p) ==
  /\ Step(p) = "source"
  /\ UNCHANGED Data
  /\ LET source == request[p].source IN
     \/ source \notin Existing /\ Release(p)
     \/ /\ source \in Existing
        /\ Free(p, SessionRow(source))
        /\ \/ Latest(source) /\ Own(p, SessionRow(source)) /\ GoesTo(p, "insert")
           \/ ~Latest(source) /\ Release(p)

\* One INSERT for session and roster; the partial unique index on the active
\* session of an owner refuses a second one.  Without an identity left (the
\* bound) nothing is inserted.
Insert(p) ==
  /\ Step(p) = "insert"
  /\ \/ (Active # {} \/ Unborn = {}) /\ UNCHANGED Data
     \/ /\ Active = {} /\ Unborn # {}
        /\ session' = [session EXCEPT ![First(Unborn)] = "active"]
        /\ UNCHANGED <<endings, run>>
  /\ Release(p)

-----------------------------------------------------------------------------
(* Transactions on one session: a deletion, and those of the commands and  *)
(* of the coordinator (turn), which all lock the session first.            *)

BeginDelete(p) ==
  /\ Step(p) = "idle"
  /\ \E s \in Sessions :
       /\ session[s] # "unborn"
       /\ Becomes(p, [NoRequest EXCEPT !.kind = "delete", !.step = "session", !.target = s])
  /\ UNCHANGED <<Data, Locks>>

BeginTurn(p) ==
  /\ Step(p) = "idle"
  /\ \E s \in Existing :
       Becomes(p, [NoRequest EXCEPT !.kind = "turn", !.step = "session", !.target = s])
  /\ UNCHANGED <<Data, Locks>>

\* Broken: reads the session without locking it.
ReadSession(p) ==
  /\ Step(p) = "session"
  /\ Kind(p) \in {"delete", "turn"}
  /\ UNCHANGED <<Data, Locks>>
  /\ LET s == Target(p) IN
     \/ Kind(p) = "turn" /\ GoesTo(p, "commit")
     \/ Kind(p) = "delete" /\ s \in Ended /\ GoesTo(p, "roster")
     \/ Kind(p) = "delete" /\ s \notin Ended /\ request' = [request EXCEPT ![p] = NoRequest]

\* Not found, or not in the state the request needs: it is refused.
LockSession(p) ==
  /\ Step(p) = "session"
  /\ Kind(p) \in {"delete", "turn"}
  /\ UNCHANGED Data
  /\ LET s == Target(p) IN
     \/ s \notin Existing /\ Release(p)
     \/ /\ s \in Existing
        /\ Free(p, SessionRow(s))
        /\ Kind(p) = "delete" /\ s \notin Ended
        /\ Release(p)
     \/ /\ s \in Existing
        /\ Kind(p) = "delete" => s \in Ended
        /\ Own(p, SessionRow(s))
        /\ \/ s \in WithRun /\ GoesTo(p, "run")
           \/ Kind(p) = "turn" /\ GoesTo(p, "commit")
           \/ Kind(p) = "delete" /\ s \notin WithRun /\ GoesTo(p, "roster")

\* A run that has ended meanwhile is no longer selected.
LockRun(p) ==
  /\ Step(p) = "run"
  /\ Kind(p) \in {"delete", "turn", "claim", "remember", "decide"}
  /\ UNCHANGED Data
  /\ LET s == Target(p)
         next == IF Kind(p) \in {"delete", "remember", "decide"} THEN "roster" ELSE "commit" IN
     \/ s \in WithRun /\ Own(p, RunRow(s)) /\ GoesTo(p, next)
     \/ /\ s \notin WithRun
        /\ IF Kind(p) \in {"delete", "turn"}
             THEN GoesTo(p, next) /\ UNCHANGED Locks
             ELSE Release(p)

\* DELETE cascades to participants and agents of the session, and waits for
\* whoever reads them; a new memory moves the agent's pointer to it.
LockRoster(p) ==
  /\ Step(p) = "roster"
  /\ Kind(p) \in {"delete", "remember"}
  /\ Own(p, RosterRows(Target(p)))
  /\ GoesTo(p, "commit")
  /\ UNCHANGED Data

DeleteCommits(p) ==
  /\ Step(p) = "commit"
  /\ Kind(p) = "delete"
  /\ session' = [session EXCEPT ![Target(p)] = "deleted"]
  /\ run' = [run EXCEPT ![Target(p)] = "none"]
  /\ endings' = Without(Target(p))
  /\ Release(p)

\* What the transactions of a turn make of session and run.  Only those that
\* hold the run end or replace it; a session ends when it has no run; the
\* recovery check at the start of each may put the session under diagnosis
\* and leaves its run as it is.
TurnCommits(p) ==
  /\ Step(p) = "commit"
  /\ Kind(p) = "turn"
  /\ LET s == Target(p) IN
     \/ /\ session[s] = "active"
        /\ RunRow(s) \in owns[p]
        /\ \E state \in {"none", "queued"} : run' = [run EXCEPT ![s] = state]
        /\ UNCHANGED <<session, endings>>
     \/ /\ session[s] = "active"
        /\ run[s] = "none"
        /\ run' = [run EXCEPT ![s] = "queued"]
        /\ UNCHANGED <<session, endings>>
     \/ /\ session[s] = "active"
        /\ run[s] = "none"
        /\ session' = [session EXCEPT ![s] = "ended"]
        /\ endings' = Append(endings, s)
        /\ UNCHANGED run
     \/ /\ session[s] \in {"active", "ended"}
        /\ session' = [session EXCEPT ![s] = "diagnosed"]
        /\ endings' = Without(s)
        /\ UNCHANGED run
     \/ UNCHANGED Data
  /\ Release(p)

-----------------------------------------------------------------------------
(* Clearing all data: the owner, all sessions and all runs, in the order   *)
(* of their ids.                                                           *)

\* Broken: does not lock the owner.
BeginClearAtSessions(p) ==
  /\ Step(p) = "idle"
  /\ Becomes(p, [NoRequest EXCEPT !.kind = "clear", !.step = "sessions", !.todo = Existing])
  /\ UNCHANGED <<Data, Locks>>

BeginClear(p) ==
  /\ Step(p) = "idle"
  /\ Becomes(p, [NoRequest EXCEPT !.kind = "clear", !.step = "owner"])
  /\ UNCHANGED <<Data, Locks>>

\* The next row of the statement; one that was deleted while it waited is
\* left out.
LockNextSession(p) ==
  /\ Step(p) = "sessions"
  /\ request[p].todo # {}
  /\ UNCHANGED Data
  /\ LET s == First(request[p].todo) IN
     IF s \in Existing
       THEN /\ Own(p, SessionRow(s))
            /\ Becomes(p, [request[p] EXCEPT !.todo = @ \ {s}, !.locked = @ \union {s}])
       ELSE /\ Becomes(p, [request[p] EXCEPT !.todo = @ \ {s}])
            /\ UNCHANGED Locks

\* Without a session there is nothing to clear.
SelectRuns(p) ==
  /\ Step(p) = "sessions"
  /\ request[p].todo = {}
  /\ UNCHANGED Data
  /\ IF request[p].locked = {}
       THEN Release(p)
       ELSE /\ Becomes(p, [request[p] EXCEPT !.step = "runs", !.todo = WithRun])
            /\ UNCHANGED Locks

LockNextRun(p) ==
  /\ Step(p) = "runs"
  /\ request[p].todo # {}
  /\ UNCHANGED Data
  /\ LET s == First(request[p].todo) IN
     IF s \in WithRun
       THEN /\ Own(p, RunRow(s))
            /\ Becomes(p, [request[p] EXCEPT !.todo = @ \ {s}, !.cancelled = @ \union {s}])
       ELSE /\ Becomes(p, [request[p] EXCEPT !.todo = @ \ {s}])
            /\ UNCHANGED Locks

\* The updates have to meet exactly the rows that were locked.
CancelAndDetach(p) ==
  /\ Step(p) = "runs"
  /\ request[p].todo = {}
  /\ UNCHANGED Data
  /\ IF WithRun = request[p].cancelled /\ Existing = request[p].locked
       THEN /\ Becomes(p, [request[p] EXCEPT !.step = "rosters", !.todo = request[p].locked])
            /\ UNCHANGED Locks
       ELSE Release(p)

LockNextRoster(p) ==
  /\ Step(p) = "rosters"
  /\ UNCHANGED Data
  /\ IF request[p].todo # {}
       THEN LET s == First(request[p].todo) IN
            /\ Own(p, RosterRows(s))
            /\ Becomes(p, [request[p] EXCEPT !.todo = @ \ {s}])
       ELSE GoesTo(p, "commit") /\ UNCHANGED Locks

ClearCommits(p) ==
  /\ Step(p) = "commit"
  /\ Kind(p) = "clear"
  /\ session' = [s \in Sessions |-> IF s \in Existing THEN "deleted" ELSE session[s]]
  /\ run' = [s \in Sessions |-> "none"]
  /\ endings' = <<>>
  /\ Release(p)

-----------------------------------------------------------------------------
(* The agent runtime's transactions that do not start at the session.      *)

\* The worker claims a run: one claim at a time, and the run row alone.
BeginClaim(p) ==
  /\ Step(p) = "idle"
  /\ \E s \in WithRun :
       Becomes(p, [NoRequest EXCEPT !.kind = "claim", !.step = "claim key", !.target = s])
  /\ UNCHANGED <<Data, Locks>>

LockClaimKey(p) ==
  /\ Step(p) = "claim key"
  /\ Own(p, ClaimKey)
  /\ GoesTo(p, "run")
  /\ UNCHANGED Data

ClaimCommits(p) ==
  /\ Step(p) = "commit"
  /\ Kind(p) = "claim"
  /\ run' = [run EXCEPT ![Target(p)] = "leased"]
  /\ UNCHANGED <<session, endings>>
  /\ Release(p)

\* The executor of a claimed run reads its seat, then the session and the
\* run, under shared locks (loadForRun); by then they may be gone.
BeginObserve(p) ==
  /\ Step(p) = "idle"
  /\ \E s \in Sessions :
       /\ run[s] = "leased"
       /\ Becomes(p, [NoRequest EXCEPT !.kind = "observe", !.step = "roster", !.target = s])
  /\ UNCHANGED <<Data, Locks>>

ObserveRoster(p) ==
  /\ Step(p) = "roster"
  /\ Kind(p) = "observe"
  /\ UNCHANGED Data
  /\ \/ Target(p) \notin Existing /\ Release(p)
     \/ /\ Target(p) \in Existing
        /\ Share(p, RosterRows(Target(p)))
        /\ GoesTo(p, "session")

\* The executor writes the agent's memory before its first decision, under
\* locks in the order of the other transactions: session, run, agent.
BeginRemember(p) ==
  /\ Step(p) = "idle"
  /\ \E s \in Sessions :
       /\ run[s] = "leased"
       /\ Becomes(p, [NoRequest EXCEPT !.kind = "remember", !.step = "session", !.target = s])
  /\ UNCHANGED <<Data, Locks>>

\* Only the observation needs the session to be active.
ShareSession(p) ==
  /\ Step(p) = "session"
  /\ Kind(p) \in {"observe", "remember"}
  /\ UNCHANGED Data
  /\ \/ Target(p) \notin Existing /\ Release(p)
     \/ /\ Target(p) \in Existing \ Active
        /\ Kind(p) = "observe"
        /\ Shareable(p, SessionRow(Target(p)))
        /\ Release(p)
     \/ /\ Target(p) \in Existing
        /\ Kind(p) = "observe" => Target(p) \in Active
        /\ Share(p, SessionRow(Target(p)))
        /\ GoesTo(p, "run")

\* Whatever the run is found to be, the read ends here.
ObserveRun(p) ==
  /\ Step(p) = "run"
  /\ Kind(p) = "observe"
  /\ UNCHANGED Data
  /\ Target(p) \in WithRun => Shareable(p, RunRow(Target(p)))
  /\ Release(p)

\* The executor writes attempts and decisions with the run alone; the new
\* rows refer to the agent, which must not be deleted meanwhile.
BeginDecide(p) ==
  /\ Step(p) = "idle"
  /\ \E s \in Sessions :
       /\ run[s] = "leased"
       /\ Becomes(p, [NoRequest EXCEPT !.kind = "decide", !.step = "run", !.target = s])
  /\ UNCHANGED <<Data, Locks>>

ReferToAgent(p) ==
  /\ Step(p) = "roster"
  /\ Kind(p) = "decide"
  /\ UNCHANGED Data
  /\ Share(p, RosterRows(Target(p)))
  /\ GoesTo(p, "commit")

ExecutorCommits(p) ==
  /\ Step(p) = "commit"
  /\ Kind(p) \in {"remember", "decide"}
  /\ UNCHANGED Data
  /\ Release(p)

-----------------------------------------------------------------------------
(* Circles of waiting requests.                                            *)

\* Each of them waits for one of them, and is waited for by one of them.
InCircle(p) ==
  /\ Asks(p) # {}
  /\ \E circle \in SUBSET Requests :
       /\ p \in circle
       /\ \A q \in circle : /\ \E r \in circle : WaitsFor(q, r)
                            /\ \E r \in circle : WaitsFor(r, q)

\* PostgreSQL ends one of them; the request fails with a database error.
Deadlocked(p) ==
  /\ InCircle(p)
  /\ Release(p)
  /\ UNCHANGED Data

-----------------------------------------------------------------------------
Begin(p) ==
  \/ BeginCreate(p) \/ BeginDelete(p) \/ BeginClear(p) \/ BeginTurn(p)
  \/ BeginClaim(p) \/ BeginObserve(p) \/ BeginRemember(p) \/ BeginDecide(p)

Proceed(p) ==
  \/ LockOwner(p) \/ SeekActive(p) \/ LockActive(p) \/ LockSource(p) \/ Insert(p)
  \/ LockSession(p) \/ LockRun(p) \/ LockRoster(p) \/ DeleteCommits(p) \/ TurnCommits(p)
  \/ LockNextSession(p) \/ SelectRuns(p) \/ LockNextRun(p) \/ CancelAndDetach(p)
  \/ LockNextRoster(p) \/ ClearCommits(p)
  \/ LockClaimKey(p) \/ ClaimCommits(p)
  \/ ObserveRoster(p) \/ ShareSession(p) \/ ObserveRun(p)
  \/ ReferToAgent(p) \/ ExecutorCommits(p)
  \/ Deadlocked(p)

Next == \E p \in Requests : Begin(p) \/ Proceed(p)

\* A statement that can run is run, and PostgreSQL hands a row lock to those
\* who wait for it in the order of their waiting.
Fairness == \A p \in Requests : SF_vars(Proceed(p))

Spec == Init /\ [][Next]_vars /\ Fairness
-----------------------------------------------------------------------------
(* Correctness.                                                            *)

TypeOK ==
  /\ session \in [Sessions -> Lifecycles]
  /\ endings \in Seq(Sessions)
  /\ Ended = {endings[i] : i \in DOMAIN endings}
  /\ run \in [Sessions -> RunStates]
  /\ request \in [Requests -> [kind : Kinds, step : Steps, target : Sessions \union {NoSession},
                               source : Sessions \union {NoSession}, todo : SUBSET Sessions,
                               locked : SUBSET Sessions, cancelled : SUBSET Sessions]]
  /\ owns \in [Requests -> SUBSET Rows]
  /\ shares \in [Requests -> SUBSET Rows]

\* A creation that has found no active session meets none when it inserts, so
\* that the unique index never has to decide between two creations; and the
\* roster it copies is that of the session which is the latest ended one at
\* this very moment, however long ago the preflight was.
CreationIsCurrent ==
  \A p \in Requests : Step(p) = "insert" =>
    /\ Active = {}
    /\ request[p].source # NoSession => Latest(request[p].source)

\* What a request has checked under its locks holds until it commits: a
\* deletion removes an ended session, clearing the data meets exactly the
\* sessions and runs it has locked, nobody writes into a session or a run
\* that has gone.
LockedStaysTrue ==
  \A p \in Requests :
    LET s == Target(p) IN
    Step(p) \in {"roster", "rosters", "commit"} =>
      /\ Kind(p) = "delete" => s \in Ended
      /\ Kind(p) = "clear" => Existing = request[p].locked /\ WithRun = request[p].cancelled
      /\ Kind(p) = "turn" => s \in Existing
      /\ Kind(p) \in {"claim", "remember", "decide"} => s \in Existing \intersect WithRun

\* Only the read of the executor locks against the order of the others:
\* without it requests never wait for each other in a circle.
CirclesPassAnObserver ==
  \A p \in Requests : InCircle(p) => \E q \in Requests : InCircle(q) /\ Kind(q) = "observe"

\* Every request is answered, whichever sessions come and go while it waits
\* or looks again.
RequestsEnd ==
  \A p \in Requests : []<>(Step(p) = "idle")

\* No request ever waits for another in a circle (refuted).
NobodyWaitsInCircle ==
  \A p \in Requests : ~InCircle(p)
=============================================================================
