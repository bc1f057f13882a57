----------------------- MODULE SessionLifecycle_proof -----------------------
(***************************************************************************)
(* Proofs about SessionLifecycle: what a creation has found, and what a    *)
(* transaction has checked under its locks, stays true until it commits;   *)
(* and only the observation of a run can close a circle of waiting         *)
(* requests.                                                               *)
(*                                                                         *)
(* The argument has three layers.  HoldingAt says which rows a request has *)
(* locked when it is at a step, whatever the rows contain.  Exclusive says *)
(* that nobody else has locked them.  KnowsAt says what a request knows of *)
(* the rows it has locked, and is kept because whoever writes a row has    *)
(* locked it.  OrderedAt says which classes of rows a request may have     *)
(* locked, which gives the waits an order.                                 *)
(***************************************************************************)
EXTENDS SessionLifecycle, WellFoundedInduction, SequenceTheorems, TLAPS

Shapes == [kind : Kinds, step : Steps, target : Sessions \union {NoSession},
           source : Sessions \union {NoSession}, todo : SUBSET Sessions,
           locked : SUBSET Sessions, cancelled : SUBSET Sessions]

\* The ended sessions are listed once each, and a session with a run exists.
EndedOnce == \A i, j \in DOMAIN endings : endings[i] = endings[j] => i = j
RunsHaveSessions == WithRun \subseteq Existing

\* A row locked for update is locked by nobody else.
Exclusive ==
  \A p, q \in Requests : p # q =>
    \A row \in owns[p] : row \notin owns[q] /\ row \notin shares[q]

\* The steps of each kind of request.
HasStep(kind, step) ==
  \/ kind = "none" /\ step = "idle"
  \/ kind = "create" /\ step \in {"owner", "seek", "active", "source", "insert"}
  \/ kind = "clear" /\ step \in {"owner", "sessions", "runs", "rosters", "commit"}
  \/ kind \in {"delete", "remember"} /\ step \in {"session", "run", "roster", "commit"}
  \/ kind = "turn" /\ step \in {"session", "run", "commit"}
  \/ kind = "claim" /\ step \in {"claim key", "run", "commit"}
  \/ kind = "observe" /\ step \in {"roster", "session", "run"}
  \/ kind = "decide" /\ step \in {"run", "roster", "commit"}

OneSession == {"delete", "remember", "turn", "claim", "observe", "decide"}

(* Of a request r that owns the rows o and shares the rows h.              *)

PositionedAt(r) ==
  /\ HasStep(r.kind, r.step)
  /\ r.kind \in OneSession => r.target \in Sessions
  /\ r.step = "active" => r.target \in Sessions
  /\ r.step = "source" => r.source \in Sessions

\* What it has locked at least.
HoldingAt(r, o, h) ==
  /\ (r.kind \in {"create", "clear"} /\ r.step # "owner") => Owner \in o
  /\ (r.step = "insert" /\ r.source # NoSession) => SessionRow(r.source) \in o
  /\ (r.kind \in {"delete", "turn"} /\ r.step # "session") => SessionRow(r.target) \in o
  /\ (r.kind = "remember" /\ r.step # "session") => SessionRow(r.target) \in h
  /\ (r.kind \in {"claim", "remember", "decide"} /\ r.step \in {"roster", "commit"}) =>
       RunRow(r.target) \in o
  /\ \A t \in r.locked : SessionRow(t) \in o
  /\ \A t \in r.cancelled : RunRow(t) \in o

\* What it knows of the rows it has locked.
KnowsAt(r, o) ==
  /\ r.step \in {"source", "insert"} => Active = {}
  /\ (r.step = "insert" /\ r.source # NoSession) => Latest(r.source)
  /\ (r.kind = "delete" /\ r.step # "session") => r.target \in Ended
  /\ (r.kind = "delete" /\ r.step \in {"roster", "commit"} /\ r.target \in WithRun) =>
       RunRow(r.target) \in o
  /\ (r.kind \in {"turn", "remember"} /\ r.step # "session") => r.target \in Existing
  /\ (r.kind \in {"claim", "remember", "decide"} /\ r.step \in {"roster", "commit"}) =>
       r.target \in WithRun
  /\ (r.kind = "clear" /\ r.step \in {"rosters", "commit"}) =>
       Existing = r.locked /\ WithRun = r.cancelled

\* The steps at which it may have locked a row of a class.
MayHold(r, class) ==
  /\ class = "owner" => r.kind \in {"create", "clear"} /\ r.step # "owner"
  /\ class = "claim key" => r.kind = "claim" /\ r.step # "claim key"
  /\ class = "session" => \/ r.kind \in {"create", "clear"} /\ r.step # "owner"
                          \/ r.kind \in {"delete", "turn", "remember"} /\ r.step # "session"
                          \/ r.kind = "observe" /\ r.step = "run"
  /\ class = "run" => \/ r.kind = "clear" /\ r.step \in {"runs", "rosters", "commit"}
                      \/ r.kind # "observe" /\ r.step \in {"roster", "commit"}
  /\ class = "roster" => \/ r.kind = "observe"
                         \/ r.step \in {"rosters", "commit"}

OrderedAt(r, o, h) == \A row \in o \union h : MayHold(r, row[1])

-----------------------------------------------------------------------------
Fits(p) ==
  /\ PositionedAt(request[p])
  /\ HoldingAt(request[p], owns[p], shares[p])
  /\ KnowsAt(request[p], owns[p])
  /\ OrderedAt(request[p], owns[p], shares[p])

LifecycleInv ==
  /\ TypeOK /\ EndedOnce /\ RunsHaveSessions /\ Exclusive
  /\ \A p \in Requests : Fits(p)

-----------------------------------------------------------------------------
(* Operators of the model.                                                 *)

\* A set of numbers that is not empty has a first one.
LEMMA Smallest ==
  ASSUME NEW S \in SUBSET Nat, S # {}
  PROVE  First(S) \in S /\ \A t \in S : First(S) <= t
<1> DEFINE R == {ss \in Nat \X Nat : ss[1] < ss[2]}
<1>1. IsWellFoundedOn(R, Nat)
  BY NatLessThanWellFounded DEF OpToRel
<1>2. \E x \in S : \A y \in S : ~(<<y, x>> \in R)
  <2> HIDE DEF R
  <2> QED BY <1>1, WFMin
<1>3. PICK x \in S : \A y \in S : ~(<<y, x>> \in R)
  BY <1>2
<1>4. ASSUME NEW y \in S PROVE x <= y
  <2>1. x \in Nat /\ y \in Nat
    OBVIOUS
  <2>2. ~(<<y, x>> \in R)
    BY <1>3
  <2>3. ~(y < x)
    BY <2>1, <2>2 DEF R
  <2> QED BY <2>1, <2>3
<1> QED BY <1>3, <1>4 DEF First

LEMMA FirstOfSessions ==
  ASSUME NEW S \in SUBSET Sessions, S # {}
  PROVE  First(S) \in S
<1>1. S \in SUBSET Nat
  BY BoundAssumption DEF Sessions
<1> QED BY <1>1, Smallest

\* A session leaves the endings: the others stay, in their order.
LEMMA WithoutOne ==
  ASSUME TypeOK, EndedOnce, NEW s \in Ended
  PROVE  /\ Without(s) \in Seq(Sessions)
         /\ Len(Without(s)) = Len(endings) - 1
         /\ Place(s) \in 1..Len(endings)
         /\ endings[Place(s)] = s
         /\ \A i \in 1..(Len(endings) - 1) :
              Without(s)[i] = IF i < Place(s) THEN endings[i] ELSE endings[i + 1]
<1> DEFINE n == Len(endings)
           k == Place(s)
           A == SubSeq(endings, 1, k - 1)
           B == SubSeq(endings, k + 1, n)
<1>1. endings \in Seq(Sessions) /\ n \in Nat /\ DOMAIN endings = 1..n
  BY DEF TypeOK
<1>2. k \in 1..n /\ endings[k] = s
  <2>1. \E i \in DOMAIN endings : endings[i] = s
    BY DEF TypeOK
  <2> QED BY <1>1, <2>1 DEF Place
<1> HIDE DEF k, n
<1>3. A \in Seq(Sessions) /\ Len(A) = k - 1 /\ \A i \in 1..(k - 1) : A[i] = endings[i]
  BY <1>1, <1>2, SubSeqProperties DEF n
<1>4. B \in Seq(Sessions) /\ Len(B) = n - k /\ \A i \in 1..(n - k) : B[i] = endings[i + k]
  <2>1. k + 1 \in Int /\ n \in Int /\ \A i \in (k + 1)..n : endings[i] \in Sessions
    BY <1>1, <1>2 DEF n
  <2>2. /\ B \in Seq(Sessions)
        /\ Len(B) = IF k + 1 <= n THEN n - (k + 1) + 1 ELSE 0
        /\ \A i \in 1..(n - (k + 1) + 1) : B[i] = endings[(k + 1) + i - 1]
    BY <2>1, SubSeqProperties
  <2>3. n - (k + 1) + 1 = n - k
    BY <1>1, <1>2
  <2>4. \A i \in 1..(n - k) : (k + 1) + i - 1 = i + k
    BY <1>1, <1>2
  <2> QED BY <2>2, <2>3, <2>4, <1>1, <1>2
<1> HIDE DEF A, B
<1>5. A \o B \in Seq(Sessions) /\ Len(A \o B) = n - 1
  <2>1. A \o B \in Seq(Sessions) /\ Len(A \o B) = Len(A) + Len(B)
    BY <1>3, <1>4, ConcatProperties
  <2> QED BY <2>1, <1>1, <1>2, <1>3, <1>4
<1>6. ASSUME NEW i \in 1..(n - 1)
      PROVE  (A \o B)[i] = IF i < k THEN endings[i] ELSE endings[i + 1]
  <2>1. i \in 1..(Len(A) + Len(B))
    BY <1>1, <1>2, <1>3, <1>4
  <2>2. (A \o B)[i] = IF i <= Len(A) THEN A[i] ELSE B[i - Len(A)]
    BY <2>1, <1>3, <1>4, ConcatProperties
  <2>3. CASE i < k
    BY <2>2, <2>3, <1>1, <1>2, <1>3
  <2>4. CASE ~(i < k)
    <3>1. i - (k - 1) \in 1..(n - k) /\ (i - (k - 1)) + k = i + 1 /\ ~(i <= k - 1)
      BY <2>4, <1>1, <1>2
    <3>2. (A \o B)[i] = B[i - (k - 1)]
      BY <2>2, <3>1, <1>3
    <3>3. B[i - (k - 1)] = endings[(i - (k - 1)) + k]
      BY <3>1, <1>4
    <3> QED BY <3>1, <3>2, <3>3, <2>4
  <2> QED BY <2>3, <2>4
<1>7. Without(s) = A \o B
  BY DEF Without, A, B, k, n
<1> QED BY <1>1, <1>2, <1>5, <1>6, <1>7 DEF k, n

LEMMA WithoutKeeps ==
  ASSUME TypeOK, EndedOnce, NEW s \in Sessions, NEW W, W = Without(s)
  PROVE  /\ W \in Seq(Sessions)
         /\ {W[i] : i \in DOMAIN W} = Ended \ {s}
         /\ \A i, j \in DOMAIN W : W[i] = W[j] => i = j
         /\ \A t \in Sessions \ {s} : Latest(t) => W # <<>> /\ t = W[Len(W)]
<1> DEFINE n == Len(endings)
           k == Place(s)
<1>1. /\ endings \in Seq(Sessions) /\ n \in Nat /\ DOMAIN endings = 1..n
      /\ Ended = {endings[i] : i \in 1..n}
      /\ \A i, j \in 1..n : endings[i] = endings[j] => i = j
  BY DEF TypeOK, EndedOnce
<1>2. CASE s \notin Ended
  BY <1>1, <1>2 DEF Without, Latest
<1>3. CASE s \in Ended
  <2>1. /\ W \in Seq(Sessions) /\ Len(W) = n - 1 /\ k \in 1..n /\ endings[k] = s
        /\ \A i \in 1..(n - 1) : W[i] = IF i < k THEN endings[i] ELSE endings[i + 1]
    BY <1>3, WithoutOne
  <2>2. DOMAIN W = 1..(n - 1)
    BY <1>1, <2>1
  <2> HIDE DEF k, n
  <2>3. {W[i] : i \in 1..(n - 1)} = Ended \ {s}
    <3>1. ASSUME NEW i \in 1..(n - 1)
          PROVE  W[i] \in Ended \ {s}
      BY <2>1, <1>1
    <3>2. ASSUME NEW t \in Ended \ {s}
          PROVE  \E i \in 1..(n - 1) : W[i] = t
      <4>1. PICK j \in 1..n : endings[j] = t
        BY <1>1
      <4>2. CASE j < k
        <5>1. j \in 1..(n - 1) /\ W[j] = t
          BY <1>1, <2>1, <4>1, <4>2
        <5> QED BY <5>1
      <4>3. CASE j > k
        <5>1. j - 1 \in 1..(n - 1) /\ ~(j - 1 < k) /\ (j - 1) + 1 = j
          BY <1>1, <2>1, <4>1, <4>3
        <5>2. W[j - 1] = t
          BY <5>1, <2>1, <4>1
        <5> QED BY <5>1, <5>2
      <4> QED BY <4>1, <4>2, <4>3, <2>1, <1>1
    <3> QED BY <3>1, <3>2
  <2>4. ASSUME NEW i \in 1..(n - 1), NEW j \in 1..(n - 1), W[i] = W[j]
        PROVE  i = j
    BY <2>1, <1>1, <2>4
  <2>5. ASSUME NEW t \in Sessions \ {s}, Latest(t)
        PROVE  W # <<>> /\ t = W[Len(W)]
    <3>1. n >= 1 /\ endings[n] = t
      BY <2>5, <1>1 DEF Latest, n
    <3>2. k # n /\ k < n /\ n - 1 \in 1..(n - 1) /\ ~(n - 1 < k) /\ (n - 1) + 1 = n
      BY <3>1, <2>1, <1>1
    <3>3. W[n - 1] = t
      BY <3>1, <3>2, <2>1
    <3> QED BY <3>2, <3>3, <2>1
  <2> QED BY <2>1, <2>2, <2>3, <2>4, <2>5
<1> QED BY <1>2, <1>3

-----------------------------------------------------------------------------
(* Steps.  A step of a request leaves the others what they are and have    *)
(* locked, and what it locks is free.                                      *)

Moves(p, r, o, h) ==
  /\ r \in Shapes
  /\ o \in SUBSET Rows
  /\ h \in SUBSET Rows
  /\ request' = [request EXCEPT ![p] = r]
  /\ owns' = [owns EXCEPT ![p] = o]
  /\ shares' = [shares EXCEPT ![p] = h]
  /\ \A row \in o \ owns[p] : Free(p, row)
  /\ \A row \in h \ shares[p] : Shareable(p, row)
  /\ PositionedAt(r)
  /\ HoldingAt(r, o, h)
  /\ OrderedAt(r, o, h)

\* What is stored has the right form, whoever wrote it.
Stored ==
  /\ session \in [Sessions -> Lifecycles]
  /\ endings \in Seq(Sessions)
  /\ Ended = {endings[i] : i \in DOMAIN endings}
  /\ run \in [Sessions -> RunStates]
  /\ EndedOnce
  /\ RunsHaveSessions

LEMMA TypeParts ==
  ASSUME LifecycleInv
  PROVE  /\ Stored
         /\ request \in [Requests -> Shapes]
         /\ owns \in [Requests -> SUBSET Rows]
         /\ shares \in [Requests -> SUBSET Rows]
BY DEF LifecycleInv, TypeOK, Stored, Shapes

LEMMA Moved ==
  ASSUME LifecycleInv, NEW p \in Requests, NEW r, NEW o, NEW h, Moves(p, r, o, h)
  PROVE  /\ request'[p] = r /\ owns'[p] = o /\ shares'[p] = h
         /\ \A q \in Requests \ {p} :
              request'[q] = request[q] /\ owns'[q] = owns[q] /\ shares'[q] = shares[q]
         /\ request' \in [Requests -> Shapes]
         /\ owns' \in [Requests -> SUBSET Rows]
         /\ shares' \in [Requests -> SUBSET Rows]
BY TypeParts DEF Moves

LEMMA MovesExclusively ==
  ASSUME LifecycleInv, NEW p \in Requests, NEW r, NEW o, NEW h, Moves(p, r, o, h)
  PROVE  Exclusive'
<1>1. Exclusive
  BY DEF LifecycleInv
<1>2. SUFFICES ASSUME NEW a \in Requests, NEW b \in Requests, a # b, NEW row \in owns'[a]
               PROVE  row \notin owns'[b] /\ row \notin shares'[b]
  BY DEF Exclusive
<1>3. /\ \A x \in o \ owns[p] : Free(p, x)
      /\ \A x \in h \ shares[p] : Shareable(p, x)
  BY DEF Moves
<1>4. CASE a = p
  BY <1>1, <1>2, <1>3, <1>4, Moved DEF Exclusive, Free
<1>5. CASE b = p
  BY <1>1, <1>2, <1>3, <1>5, Moved DEF Exclusive, Free, Shareable
<1>6. CASE a # p /\ b # p
  BY <1>1, <1>2, <1>6, Moved DEF Exclusive
<1> QED BY <1>4, <1>5, <1>6

\* The invariant is kept if what is stored stays well formed and if what the
\* request and the others know stays true.
LEMMA StepKeepsInv ==
  ASSUME LifecycleInv, NEW p \in Requests, NEW r, NEW o, NEW h, Moves(p, r, o, h), Stored',
         KnowsAt(r, o)',
         \A q \in Requests \ {p} : KnowsAt(request[q], owns[q])'
  PROVE  LifecycleInv'
<1>1. TypeOK' /\ EndedOnce' /\ RunsHaveSessions'
  BY Moved DEF TypeOK, Stored, Shapes
<1>2. Exclusive'
  BY MovesExclusively
<1>3. ASSUME NEW q \in Requests
      PROVE  Fits(q)'
  <2>1. CASE q = p
    <3>1. request'[q] = r /\ owns'[q] = o /\ shares'[q] = h
      BY Moved, <2>1
    <3>2. PositionedAt(request'[q]) /\ HoldingAt(request'[q], owns'[q], shares'[q])
          /\ OrderedAt(request'[q], owns'[q], shares'[q])
      BY <3>1 DEF Moves
    <3>3. KnowsAt(request[q], owns[q])'
      BY <3>1 DEF KnowsAt
    <3> QED BY <3>2, <3>3 DEF Fits
  <2>2. CASE q # p
    <3>1. request'[q] = request[q] /\ owns'[q] = owns[q] /\ shares'[q] = shares[q]
      BY Moved, <2>2
    <3>2. PositionedAt(request'[q]) /\ HoldingAt(request'[q], owns'[q], shares'[q])
          /\ OrderedAt(request'[q], owns'[q], shares'[q])
      BY <3>1 DEF LifecycleInv, Fits
    <3>3. KnowsAt(request[q], owns[q])'
      BY <2>2
    <3> QED BY <3>2, <3>3 DEF Fits
  <2> QED BY <2>1, <2>2
<1> QED BY <1>1, <1>2, <1>3 DEF LifecycleInv

LEMMA UnchangedKnowledge ==
  ASSUME UNCHANGED Data, NEW r, NEW o
  PROVE  KnowsAt(r, o)' <=> KnowsAt(r, o)
BY DEF KnowsAt, Data, Active, Existing, Ended, WithRun, Latest

\* A step that writes nothing.
LEMMA QuietKeepsInv ==
  ASSUME LifecycleInv, NEW p \in Requests, NEW r, NEW o, NEW h, Moves(p, r, o, h),
         KnowsAt(r, o), UNCHANGED Data
  PROVE  LifecycleInv'
<1>1. Stored'
  BY TypeParts DEF Stored, Data, Ended, EndedOnce, RunsHaveSessions, WithRun, Existing
<1>2. KnowsAt(r, o)'
  BY UnchangedKnowledge
<1>3. ASSUME NEW q \in Requests \ {p}
      PROVE  KnowsAt(request[q], owns[q])'
  <2>1. request'[q] = request[q] /\ owns'[q] = owns[q]
    BY Moved
  <2>2. KnowsAt(request[q], owns[q])
    BY DEF LifecycleInv, Fits
  <2>3. PICK rq, oq : rq = request[q] /\ oq = owns[q]
    OBVIOUS
  <2>4. KnowsAt(rq, oq)'
    BY <2>2, <2>3, UnchangedKnowledge
  <2> QED BY <2>1, <2>3, <2>4 DEF KnowsAt
<1> QED BY <1>1, <1>2, <1>3, StepKeepsInv

LEMMA NoRequestShape ==
  /\ NoRequest \in Shapes
  /\ PositionedAt(NoRequest)
  /\ HoldingAt(NoRequest, {}, {})
  /\ OrderedAt(NoRequest, {}, {})
  /\ KnowsAt(NoRequest, {})
BY DEF NoRequest, Shapes, Kinds, Steps, PositionedAt, HasStep, OneSession, HoldingAt, OrderedAt,
       KnowsAt

LEMMA ReleaseMoves ==
  ASSUME LifecycleInv, NEW p \in Requests, Release(p)
  PROVE  Moves(p, NoRequest, {}, {})
BY NoRequestShape DEF Release, Moves

\* The end of a transaction that has written.
LEMMA CommitKeepsInv ==
  ASSUME LifecycleInv, NEW p \in Requests, Release(p), Stored',
         \A q \in Requests \ {p} : KnowsAt(request[q], owns[q])'
  PROVE  LifecycleInv'
<1>1. Moves(p, NoRequest, {}, {})
  BY ReleaseMoves
<1>2. KnowsAt(NoRequest, {})'
  BY DEF KnowsAt, NoRequest
<1>3. NoRequest' = NoRequest
  BY DEF NoRequest
<1> QED BY <1>1, <1>2, StepKeepsInv

\* The end of one that has not.
LEMMA RefusalKeepsInv ==
  ASSUME LifecycleInv, NEW p \in Requests, Release(p), UNCHANGED Data
  PROVE  LifecycleInv'
BY ReleaseMoves, NoRequestShape, QuietKeepsInv

\* A statement that locks nothing.
LEMMA StatementKeepsInv ==
  ASSUME LifecycleInv, NEW p \in Requests, NEW r \in Shapes, Becomes(p, r),
         UNCHANGED <<Data, Locks>>,
         PositionedAt(r), HoldingAt(r, owns[p], shares[p]),
         OrderedAt(r, owns[p], shares[p]), KnowsAt(r, owns[p])
  PROVE  LifecycleInv'
<1>1. PICK o, h : o = owns[p] /\ h = shares[p]
  OBVIOUS
<1>2. owns' = [owns EXCEPT ![p] = o] /\ shares' = [shares EXCEPT ![p] = h]
  BY <1>1, TypeParts DEF Locks
<1>3. o \in SUBSET Rows /\ h \in SUBSET Rows
  BY <1>1, TypeParts
<1>4. Moves(p, r, o, h)
  BY <1>1, <1>2, <1>3 DEF Moves, Becomes
<1> QED BY <1>1, <1>4, QuietKeepsInv DEF Data

\* One that locks a row for update, and one that locks a row for share.
LEMMA OwnKeepsInv ==
  ASSUME LifecycleInv, NEW p \in Requests, NEW r \in Shapes, Becomes(p, r),
         NEW row \in Rows, Own(p, row), UNCHANGED Data,
         PositionedAt(r), HoldingAt(r, owns[p] \union {row}, shares[p]),
         OrderedAt(r, owns[p], shares[p]), MayHold(r, row[1]),
         KnowsAt(r, owns[p] \union {row})
  PROVE  LifecycleInv'
<1>1. PICK o, h : o = owns[p] \union {row} /\ h = shares[p]
  OBVIOUS
<1>2. owns' = [owns EXCEPT ![p] = o] /\ shares' = [shares EXCEPT ![p] = h]
  BY <1>1, TypeParts DEF Own
<1>3. o \in SUBSET Rows /\ h \in SUBSET Rows
  BY <1>1, TypeParts
<1>4. OrderedAt(r, o, h)
  BY <1>1 DEF OrderedAt
<1>5. \A x \in o \ owns[p] : Free(p, x)
  BY <1>1 DEF Own
<1>6. Moves(p, r, o, h)
  BY <1>1, <1>2, <1>3, <1>4, <1>5 DEF Moves, Becomes
<1> QED BY <1>1, <1>6, QuietKeepsInv

LEMMA ShareKeepsInv ==
  ASSUME LifecycleInv, NEW p \in Requests, NEW r \in Shapes, Becomes(p, r),
         NEW row \in Rows, Share(p, row), UNCHANGED Data,
         PositionedAt(r), HoldingAt(r, owns[p], shares[p] \union {row}),
         OrderedAt(r, owns[p], shares[p]), MayHold(r, row[1]),
         KnowsAt(r, owns[p])
  PROVE  LifecycleInv'
<1>1. PICK o, h : o = owns[p] /\ h = shares[p] \union {row}
  OBVIOUS
<1>2. owns' = [owns EXCEPT ![p] = o] /\ shares' = [shares EXCEPT ![p] = h]
  BY <1>1, TypeParts DEF Share
<1>3. o \in SUBSET Rows /\ h \in SUBSET Rows
  BY <1>1, TypeParts
<1>4. OrderedAt(r, o, h)
  BY <1>1 DEF OrderedAt
<1>5. \A x \in h \ shares[p] : Shareable(p, x)
  BY <1>1 DEF Share
<1>6. Moves(p, r, o, h)
  BY <1>1, <1>2, <1>3, <1>4, <1>5 DEF Moves, Becomes
<1> QED BY <1>1, <1>6, QuietKeepsInv

-----------------------------------------------------------------------------
(* The requests begin.                                                     *)

LEMMA FitsParts ==
  ASSUME LifecycleInv, NEW p \in Requests
  PROVE  /\ request[p] \in Shapes
         /\ owns[p] \in SUBSET Rows
         /\ shares[p] \in SUBSET Rows
         /\ PositionedAt(request[p])
         /\ HoldingAt(request[p], owns[p], shares[p])
         /\ KnowsAt(request[p], owns[p])
         /\ OrderedAt(request[p], owns[p], shares[p])
BY TypeParts DEF LifecycleInv, Fits

LEMMA RowParts ==
  /\ \A row \in Rows : row[1] \in {"owner", "claim key", "session", "run", "roster"}
  /\ Owner \in Rows /\ Owner[1] = "owner"
  /\ ClaimKey \in Rows /\ ClaimKey[1] = "claim key"
  /\ \A s \in Sessions : /\ SessionRow(s) \in Rows /\ SessionRow(s)[1] = "session"
                         /\ RunRow(s) \in Rows /\ RunRow(s)[1] = "run"
                         /\ RosterRows(s) \in Rows /\ RosterRows(s)[1] = "roster"
BY DEF Rows, Owner, ClaimKey, SessionRow, RunRow, RosterRows

LEMMA IdleHoldsNothing ==
  ASSUME LifecycleInv, NEW p \in Requests, Step(p) = "idle"
  PROVE  owns[p] = {} /\ shares[p] = {}
<1>1. request[p].kind = "none"
  BY FitsParts DEF PositionedAt, HasStep, Step
<1>2. \A row \in Rows : ~MayHold(request[p], row[1])
  BY <1>1, RowParts DEF MayHold, Step
<1> QED BY <1>2, FitsParts DEF OrderedAt

\* A new request asks for rows; it has nothing and knows nothing.
LEMMA NewRequestKeepsInv ==
  ASSUME LifecycleInv, NEW p \in Requests, Step(p) = "idle",
         NEW r \in Shapes, Becomes(p, r), UNCHANGED <<Data, Locks>>,
         PositionedAt(r), r.locked = {}, r.cancelled = {},
         \/ r.kind \in {"create", "clear"} /\ r.step = "owner"
         \/ r.kind \in {"delete", "turn", "remember"} /\ r.step = "session"
         \/ r.kind = "claim" /\ r.step = "claim key"
         \/ r.kind = "observe" /\ r.step = "roster"
         \/ r.kind = "decide" /\ r.step = "run"
  PROVE  LifecycleInv'
<1>1. owns[p] = {} /\ shares[p] = {}
  BY IdleHoldsNothing
<1>2. HoldingAt(r, owns[p], shares[p])
  BY DEF HoldingAt
<1>3. OrderedAt(r, owns[p], shares[p])
  BY <1>1 DEF OrderedAt
<1>4. KnowsAt(r, owns[p])
  BY DEF KnowsAt
<1> QED BY <1>2, <1>3, <1>4, StatementKeepsInv

LEMMA BeginKeepsInv ==
  ASSUME LifecycleInv, NEW p \in Requests, Begin(p)
  PROVE  LifecycleInv'
<1>1. CASE BeginCreate(p)
  <2>1. PICK source \in Sessions \union {NoSession} :
          Becomes(p, [NoRequest EXCEPT !.kind = "create", !.step = "owner", !.source = source])
    BY <1>1 DEF BeginCreate, Ended
  <2> DEFINE r == [NoRequest EXCEPT !.kind = "create", !.step = "owner", !.source = source]
  <2>2. /\ r \in Shapes /\ r.kind = "create" /\ r.step = "owner"
        /\ r.locked = {} /\ r.cancelled = {}
    BY DEF NoRequest, Shapes, Kinds, Steps
  <2> HIDE DEF r
  <2>3. PositionedAt(r)
    BY <2>2 DEF PositionedAt, HasStep, OneSession
  <2>4. Becomes(p, r)
    BY <2>1 DEF r
  <2> QED BY <1>1, <2>2, <2>3, <2>4, NewRequestKeepsInv DEF BeginCreate
<1>2. CASE BeginClear(p)
  <2> DEFINE r == [NoRequest EXCEPT !.kind = "clear", !.step = "owner"]
  <2>2. /\ r \in Shapes /\ r.kind = "clear" /\ r.step = "owner"
        /\ r.locked = {} /\ r.cancelled = {}
    BY DEF NoRequest, Shapes, Kinds, Steps
  <2>4. Becomes(p, r)
    BY <1>2 DEF BeginClear
  <2> HIDE DEF r
  <2>3. PositionedAt(r)
    BY <2>2 DEF PositionedAt, HasStep, OneSession
  <2> QED BY <1>2, <2>2, <2>3, <2>4, NewRequestKeepsInv DEF BeginClear
<1>3. ASSUME NEW kind \in OneSession, NEW step \in Steps, NEW s \in Sessions,
             Becomes(p, [NoRequest EXCEPT !.kind = kind, !.step = step, !.target = s]),
             Step(p) = "idle", UNCHANGED <<Data, Locks>>,
             \/ kind \in {"delete", "turn", "remember"} /\ step = "session"
             \/ kind = "claim" /\ step = "claim key"
             \/ kind = "observe" /\ step = "roster"
             \/ kind = "decide" /\ step = "run"
      PROVE  LifecycleInv'
  <2> DEFINE r == [NoRequest EXCEPT !.kind = kind, !.step = step, !.target = s]
  <2>1. /\ r \in Shapes /\ r.kind = kind /\ r.step = step /\ r.target = s
        /\ r.locked = {} /\ r.cancelled = {}
    BY DEF NoRequest, Shapes, Kinds, Steps, OneSession
  <2>2. Becomes(p, r)
    BY <1>3
  <2> HIDE DEF r
  <2>3. PositionedAt(r)
    BY <2>1, <1>3 DEF PositionedAt, HasStep, OneSession
  <2> QED BY <1>3, <2>1, <2>2, <2>3, NewRequestKeepsInv
<1>4. CASE BeginDelete(p)
  BY <1>3, <1>4 DEF BeginDelete, OneSession, Steps
<1>5. CASE BeginTurn(p)
  BY <1>3, <1>5 DEF BeginTurn, OneSession, Steps, Existing
<1>6. CASE BeginClaim(p)
  BY <1>3, <1>6 DEF BeginClaim, OneSession, Steps, WithRun
<1>7. CASE BeginObserve(p)
  BY <1>3, <1>7 DEF BeginObserve, OneSession, Steps
<1>8. CASE BeginRemember(p)
  BY <1>3, <1>8 DEF BeginRemember, OneSession, Steps
<1>9. CASE BeginDecide(p)
  BY <1>3, <1>9 DEF BeginDecide, OneSession, Steps
<1> QED BY <1>1, <1>2, <1>4, <1>5, <1>6, <1>7, <1>8, <1>9 DEF Begin

-----------------------------------------------------------------------------
(* The statements of a creation.                                           *)

LEMMA Stepped ==
  ASSUME NEW a \in Shapes, NEW x \in Steps
  PROVE  LET r == [a EXCEPT !.step = x] IN
         /\ r \in Shapes
         /\ r.step = x /\ r.kind = a.kind /\ r.target = a.target /\ r.source = a.source
         /\ r.todo = a.todo /\ r.locked = a.locked /\ r.cancelled = a.cancelled
BY DEF Shapes

\* What the statement that comes next is about.
Follows(p, r, x) ==
  /\ r \in Shapes
  /\ r.step = x
  /\ r.kind = request[p].kind /\ r.target = request[p].target /\ r.source = request[p].source
  /\ r.todo = request[p].todo /\ r.locked = request[p].locked
  /\ r.cancelled = request[p].cancelled

\* A request that only goes on to another step.
LEMMA GoingKeepsInv ==
  ASSUME LifecycleInv, NEW p \in Requests, NEW x \in Steps, GoesTo(p, x),
         UNCHANGED <<Data, Locks>>,
         \A r : Follows(p, r, x) =>
              /\ PositionedAt(r) /\ HoldingAt(r, owns[p], shares[p])
              /\ OrderedAt(r, owns[p], shares[p]) /\ KnowsAt(r, owns[p])
  PROVE  LifecycleInv'
<1> DEFINE r == [request[p] EXCEPT !.step = x]
<1>1. Becomes(p, r)
  BY DEF GoesTo
<1>2. Follows(p, r, x)
  BY FitsParts, Stepped DEF Follows
<1> HIDE DEF r
<1>3. /\ r \in Shapes /\ PositionedAt(r) /\ HoldingAt(r, owns[p], shares[p])
      /\ OrderedAt(r, owns[p], shares[p]) /\ KnowsAt(r, owns[p])
  BY <1>2 DEF Follows
<1> QED BY <1>1, <1>3, StatementKeepsInv

LEMMA OwningKeepsInv ==
  ASSUME LifecycleInv, NEW p \in Requests, NEW x \in Steps, GoesTo(p, x), UNCHANGED Data,
         NEW row \in Rows, Own(p, row),
         \A r : Follows(p, r, x) =>
              /\ PositionedAt(r) /\ HoldingAt(r, owns[p] \union {row}, shares[p])
              /\ OrderedAt(r, owns[p], shares[p]) /\ MayHold(r, row[1])
              /\ KnowsAt(r, owns[p] \union {row})
  PROVE  LifecycleInv'
<1> DEFINE r == [request[p] EXCEPT !.step = x]
<1>1. Becomes(p, r)
  BY DEF GoesTo
<1>2. Follows(p, r, x)
  BY FitsParts, Stepped DEF Follows
<1> HIDE DEF r
<1>3. /\ r \in Shapes /\ PositionedAt(r) /\ HoldingAt(r, owns[p] \union {row}, shares[p])
      /\ OrderedAt(r, owns[p], shares[p]) /\ MayHold(r, row[1])
      /\ KnowsAt(r, owns[p] \union {row})
  BY <1>2 DEF Follows
<1> QED BY <1>1, <1>3, OwnKeepsInv

LEMMA SharingKeepsInv ==
  ASSUME LifecycleInv, NEW p \in Requests, NEW x \in Steps, GoesTo(p, x), UNCHANGED Data,
         NEW row \in Rows, Share(p, row),
         \A r : Follows(p, r, x) =>
              /\ PositionedAt(r) /\ HoldingAt(r, owns[p], shares[p] \union {row})
              /\ OrderedAt(r, owns[p], shares[p]) /\ MayHold(r, row[1])
              /\ KnowsAt(r, owns[p])
  PROVE  LifecycleInv'
<1> DEFINE r == [request[p] EXCEPT !.step = x]
<1>1. Becomes(p, r)
  BY DEF GoesTo
<1>2. Follows(p, r, x)
  BY FitsParts, Stepped DEF Follows
<1> HIDE DEF r
<1>3. /\ r \in Shapes /\ PositionedAt(r) /\ HoldingAt(r, owns[p], shares[p] \union {row})
      /\ OrderedAt(r, owns[p], shares[p]) /\ MayHold(r, row[1])
      /\ KnowsAt(r, owns[p])
  BY <1>2 DEF Follows
<1> QED BY <1>1, <1>3, ShareKeepsInv

LEMMA AcceptRosterKeepsInv ==
  ASSUME LifecycleInv, NEW p \in Requests, Step(p) = "seek", Active = {},
         AcceptRoster(p), UNCHANGED Data
  PROVE  LifecycleInv'
<1> DEFINE source == request[p].source
<1>1. request[p].kind = "create"
  BY FitsParts DEF PositionedAt, HasStep, Step
<1>2. \A class : MayHold(request[p], class) =>
        \A r \in Shapes : r.kind = "create" /\ r.step \in {"seek", "active", "source", "insert"} =>
          MayHold(r, class)
  BY <1>1 DEF MayHold, Step
<1>3. CASE source = NoSession /\ GoesTo(p, "insert") /\ UNCHANGED Locks
  <2>1. ASSUME NEW r, Follows(p, r, "insert")
        PROVE  /\ PositionedAt(r) /\ HoldingAt(r, owns[p], shares[p])
               /\ OrderedAt(r, owns[p], shares[p]) /\ KnowsAt(r, owns[p])
    <3>1. PositionedAt(r)
      BY <1>1, <2>1 DEF PositionedAt, HasStep, OneSession, Follows
    <3>2. HoldingAt(r, owns[p], shares[p])
      BY <1>1, <1>3, <2>1, FitsParts DEF HoldingAt, Step, Follows
    <3>3. OrderedAt(r, owns[p], shares[p])
      BY <1>1, <1>2, <2>1, FitsParts DEF OrderedAt, Follows
    <3>4. KnowsAt(r, owns[p])
      BY <1>1, <1>3, <2>1 DEF KnowsAt, Follows
    <3> QED BY <3>1, <3>2, <3>3, <3>4
  <2> QED BY <1>3, <2>1, GoingKeepsInv DEF Steps
<1>4. CASE source # NoSession /\ Latest(source) /\ GoesTo(p, "source") /\ UNCHANGED Locks
  <2>1. ASSUME NEW r, Follows(p, r, "source")
        PROVE  /\ PositionedAt(r) /\ HoldingAt(r, owns[p], shares[p])
               /\ OrderedAt(r, owns[p], shares[p]) /\ KnowsAt(r, owns[p])
    <3>1. PositionedAt(r)
      BY <1>1, <1>4, <2>1, FitsParts DEF PositionedAt, HasStep, OneSession, Follows, Shapes
    <3>2. HoldingAt(r, owns[p], shares[p])
      BY <1>1, <1>4, <2>1, FitsParts DEF HoldingAt, Step, Follows
    <3>3. OrderedAt(r, owns[p], shares[p])
      BY <1>1, <1>2, <2>1, FitsParts DEF OrderedAt, Follows
    <3>4. KnowsAt(r, owns[p])
      BY <1>1, <1>4, <2>1 DEF KnowsAt, Follows
    <3> QED BY <3>1, <3>2, <3>3, <3>4
  <2> QED BY <1>4, <2>1, GoingKeepsInv DEF Steps
<1>5. CASE Release(p)
  BY <1>5, RefusalKeepsInv
<1> QED BY <1>3, <1>4, <1>5 DEF AcceptRoster

LEMMA LockOwnerKeepsInv ==
  ASSUME LifecycleInv, NEW p \in Requests, LockOwner(p)
  PROVE  LifecycleInv'
<1>1. /\ request[p].kind \in {"create", "clear"} /\ request[p].step = "owner"
      /\ Own(p, Owner) /\ UNCHANGED Data
  BY FitsParts DEF LockOwner, PositionedAt, HasStep, Step
<1>2. \A class : MayHold(request[p], class) =>
        class \notin {"owner", "claim key", "session", "run", "roster"}
  BY <1>1 DEF MayHold
<1>3. owns[p] = {} /\ shares[p] = {}
  BY <1>2, FitsParts, RowParts DEF OrderedAt
<1>4. CASE Kind(p) = "create"
  <2>1. ASSUME NEW r, Follows(p, r, "seek")
        PROVE  /\ PositionedAt(r) /\ HoldingAt(r, owns[p] \union {Owner}, shares[p])
               /\ OrderedAt(r, owns[p], shares[p]) /\ MayHold(r, Owner[1])
               /\ KnowsAt(r, owns[p] \union {Owner})
    <3>1. PositionedAt(r)
      BY <1>4, <2>1 DEF PositionedAt, HasStep, OneSession, Follows, Kind
    <3>2. HoldingAt(r, owns[p] \union {Owner}, shares[p])
      BY <1>4, <2>1, FitsParts DEF HoldingAt, Follows, Kind
    <3>3. OrderedAt(r, owns[p], shares[p]) /\ MayHold(r, Owner[1])
      BY <1>3, <1>4, <2>1, RowParts DEF OrderedAt, MayHold, Follows, Kind
    <3>4. KnowsAt(r, owns[p] \union {Owner})
      BY <1>4, <2>1 DEF KnowsAt, Follows, Kind
    <3> QED BY <3>1, <3>2, <3>3, <3>4
  <2> QED BY <1>1, <1>4, <2>1, RowParts, OwningKeepsInv DEF LockOwner, Steps
<1>5. CASE Kind(p) # "create"
  <2> DEFINE r == [request[p] EXCEPT !.step = "sessions", !.todo = Existing]
  <2>1. /\ r \in Shapes /\ r.step = "sessions" /\ r.kind = "clear"
        /\ r.locked = request[p].locked /\ r.cancelled = request[p].cancelled
    BY <1>1, <1>5, FitsParts DEF Shapes, Steps, Existing, Kind
  <2>2. Becomes(p, r)
    BY <1>5 DEF LockOwner
  <2> HIDE DEF r
  <2>3. PositionedAt(r)
    BY <2>1 DEF PositionedAt, HasStep, OneSession
  <2>4. HoldingAt(r, owns[p] \union {Owner}, shares[p])
    BY <2>1, FitsParts DEF HoldingAt
  <2>5. OrderedAt(r, owns[p], shares[p]) /\ MayHold(r, Owner[1])
    BY <1>3, <2>1, RowParts DEF OrderedAt, MayHold
  <2>6. KnowsAt(r, owns[p] \union {Owner})
    BY <2>1 DEF KnowsAt
  <2> QED BY <1>1, <2>1, <2>2, <2>3, <2>4, <2>5, <2>6, RowParts, OwnKeepsInv
<1> QED BY <1>4, <1>5

LEMMA SeekActiveKeepsInv ==
  ASSUME LifecycleInv, NEW p \in Requests, SeekActive(p)
  PROVE  LifecycleInv'
<1>1. request[p].kind = "create" /\ request[p].step = "seek" /\ UNCHANGED Data
  BY FitsParts DEF SeekActive, PositionedAt, HasStep, Step
<1>2. ASSUME NEW s \in Active, UNCHANGED Locks,
             Becomes(p, [request[p] EXCEPT !.step = "active", !.target = s])
      PROVE  LifecycleInv'
  <2> DEFINE r == [request[p] EXCEPT !.step = "active", !.target = s]
  <2>1. /\ r \in Shapes /\ r.step = "active" /\ r.kind = "create" /\ r.target \in Sessions
        /\ r.locked = request[p].locked /\ r.cancelled = request[p].cancelled
    BY <1>1, FitsParts DEF Shapes, Steps, Active
  <2>2. Becomes(p, r)
    BY <1>2
  <2> HIDE DEF r
  <2>3. PositionedAt(r)
    BY <2>1 DEF PositionedAt, HasStep, OneSession
  <2>4. HoldingAt(r, owns[p], shares[p])
    BY <1>1, <2>1, FitsParts DEF HoldingAt
  <2>5. OrderedAt(r, owns[p], shares[p])
    BY <1>1, <2>1, FitsParts DEF OrderedAt, MayHold
  <2>6. KnowsAt(r, owns[p])
    BY <2>1 DEF KnowsAt
  <2> QED BY <1>1, <1>2, <2>1, <2>2, <2>3, <2>4, <2>5, <2>6, StatementKeepsInv
<1>3. CASE Active = {} /\ AcceptRoster(p)
  BY <1>3, <1>1, AcceptRosterKeepsInv DEF Step
<1> QED BY <1>2, <1>3 DEF SeekActive

LEMMA LockActiveKeepsInv ==
  ASSUME LifecycleInv, NEW p \in Requests, LockActive(p)
  PROVE  LifecycleInv'
<1>1. /\ request[p].kind = "create" /\ request[p].step = "active" /\ UNCHANGED Data
      /\ Target(p) \in Sessions
  BY FitsParts DEF LockActive, PositionedAt, HasStep, Step, Target
<1>2. ASSUME NEW r, Follows(p, r, "seek")
      PROVE  /\ PositionedAt(r) /\ OrderedAt(r, owns[p], shares[p])
             /\ MayHold(r, "session")
             /\ \A o : owns[p] \subseteq o => HoldingAt(r, o, shares[p]) /\ KnowsAt(r, o)
  <2>1. PositionedAt(r)
    BY <1>1, <1>2 DEF PositionedAt, HasStep, OneSession, Follows
  <2>2. OrderedAt(r, owns[p], shares[p]) /\ MayHold(r, "session")
    BY <1>1, <1>2, FitsParts DEF OrderedAt, MayHold, Follows
  <2>3. \A o : owns[p] \subseteq o => HoldingAt(r, o, shares[p])
    BY <1>1, <1>2, FitsParts DEF HoldingAt, Follows
  <2>4. \A o : KnowsAt(r, o)
    BY <1>1, <1>2 DEF KnowsAt, Follows
  <2> QED BY <2>1, <2>2, <2>3, <2>4
<1>3. CASE Release(p)
  BY <1>1, <1>3, RefusalKeepsInv
<1>4. CASE Own(p, SessionRow(Target(p))) /\ GoesTo(p, "seek")
  BY <1>1, <1>2, <1>4, RowParts, OwningKeepsInv DEF Steps
<1>5. CASE GoesTo(p, "seek") /\ UNCHANGED Locks
  BY <1>1, <1>2, <1>5, GoingKeepsInv DEF Steps
<1> QED BY <1>3, <1>4, <1>5 DEF LockActive

LEMMA LockSourceKeepsInv ==
  ASSUME LifecycleInv, NEW p \in Requests, LockSource(p)
  PROVE  LifecycleInv'
<1> DEFINE source == request[p].source
<1>1. /\ request[p].kind = "create" /\ request[p].step = "source" /\ UNCHANGED Data
      /\ source \in Sessions
  BY FitsParts DEF LockSource, PositionedAt, HasStep, Step
<1>2. CASE Release(p)
  BY <1>1, <1>2, RefusalKeepsInv
<1>3. CASE Latest(source) /\ Own(p, SessionRow(source)) /\ GoesTo(p, "insert")
  <2>1. ASSUME NEW r, Follows(p, r, "insert")
        PROVE  /\ PositionedAt(r)
               /\ HoldingAt(r, owns[p] \union {SessionRow(source)}, shares[p])
               /\ OrderedAt(r, owns[p], shares[p]) /\ MayHold(r, SessionRow(source)[1])
               /\ KnowsAt(r, owns[p] \union {SessionRow(source)})
    <3>1. PositionedAt(r)
      BY <1>1, <2>1 DEF PositionedAt, HasStep, OneSession, Follows
    <3>2. HoldingAt(r, owns[p] \union {SessionRow(source)}, shares[p])
      BY <1>1, <2>1, FitsParts DEF HoldingAt, Follows
    <3>3. OrderedAt(r, owns[p], shares[p]) /\ MayHold(r, SessionRow(source)[1])
      BY <1>1, <2>1, FitsParts, RowParts DEF OrderedAt, MayHold, Follows
    <3>4. KnowsAt(r, owns[p] \union {SessionRow(source)})
      BY <1>1, <1>3, <2>1, FitsParts DEF KnowsAt, Follows
    <3> QED BY <3>1, <3>2, <3>3, <3>4
  <2> QED BY <1>1, <1>3, <2>1, RowParts, OwningKeepsInv DEF Steps
<1> QED BY <1>2, <1>3 DEF LockSource

-----------------------------------------------------------------------------
(* The statements of the transactions on one session.                      *)

LEMMA LockSessionKeepsInv ==
  ASSUME LifecycleInv, NEW p \in Requests, LockSession(p)
  PROVE  LifecycleInv'
<1> DEFINE s == Target(p)
<1>1. /\ request[p].kind \in {"delete", "turn"} /\ request[p].step = "session" /\ UNCHANGED Data
      /\ s \in Sessions
  BY FitsParts DEF LockSession, PositionedAt, OneSession, Step, Kind, Target
<1>2. CASE Release(p)
  BY <1>1, <1>2, RefusalKeepsInv
<1>3. CASE /\ s \in Existing
           /\ Kind(p) = "delete" => s \in Ended
           /\ Own(p, SessionRow(s))
           /\ \/ s \in WithRun /\ GoesTo(p, "run")
              \/ Kind(p) = "turn" /\ GoesTo(p, "commit")
              \/ Kind(p) = "delete" /\ s \notin WithRun /\ GoesTo(p, "roster")
  <2>1. ASSUME NEW x \in {"run", "commit", "roster"}, NEW r, Follows(p, r, x),
               x = "commit" => Kind(p) = "turn",
               x = "roster" => Kind(p) = "delete" /\ s \notin WithRun
        PROVE  /\ PositionedAt(r)
               /\ HoldingAt(r, owns[p] \union {SessionRow(s)}, shares[p])
               /\ OrderedAt(r, owns[p], shares[p]) /\ MayHold(r, SessionRow(s)[1])
               /\ KnowsAt(r, owns[p] \union {SessionRow(s)})
    <3>1. PositionedAt(r)
      BY <1>1, <2>1 DEF PositionedAt, HasStep, OneSession, Follows, Kind, Target
    <3>2. HoldingAt(r, owns[p] \union {SessionRow(s)}, shares[p])
      BY <1>1, <2>1, FitsParts DEF HoldingAt, Follows, Target
    <3>3. OrderedAt(r, owns[p], shares[p]) /\ MayHold(r, SessionRow(s)[1])
      BY <1>1, <2>1, FitsParts, RowParts DEF OrderedAt, MayHold, Follows
    <3>4. KnowsAt(r, owns[p] \union {SessionRow(s)})
      BY <1>1, <1>3, <2>1 DEF KnowsAt, Follows, Kind, Target
    <3> QED BY <3>1, <3>2, <3>3, <3>4
  <2>2. SessionRow(s) \in Rows
    BY <1>1, RowParts
  <2>3. CASE s \in WithRun /\ GoesTo(p, "run")
    BY <1>1, <1>3, <2>1, <2>2, <2>3, OwningKeepsInv DEF Steps
  <2>4. CASE Kind(p) = "turn" /\ GoesTo(p, "commit")
    BY <1>1, <1>3, <2>1, <2>2, <2>4, OwningKeepsInv DEF Steps
  <2>5. CASE Kind(p) = "delete" /\ s \notin WithRun /\ GoesTo(p, "roster")
    BY <1>1, <1>3, <2>1, <2>2, <2>5, OwningKeepsInv DEF Steps
  <2> QED BY <1>3, <2>3, <2>4, <2>5
<1> QED BY <1>2, <1>3 DEF LockSession

LEMMA LockRunKeepsInv ==
  ASSUME LifecycleInv, NEW p \in Requests, LockRun(p)
  PROVE  LifecycleInv'
<1> DEFINE s == Target(p)
           next == IF Kind(p) \in {"delete", "remember", "decide"} THEN "roster" ELSE "commit"
<1>1. /\ request[p].kind \in {"delete", "turn", "claim", "remember", "decide"}
      /\ request[p].step = "run" /\ UNCHANGED Data /\ s \in Sessions
  BY FitsParts DEF LockRun, PositionedAt, OneSession, Step, Kind, Target
<1>2. /\ next \in {"roster", "commit"}
      /\ next = "roster" => Kind(p) \in {"delete", "remember", "decide"}
      /\ next = "commit" => Kind(p) \in {"turn", "claim"}
  BY <1>1 DEF Kind
<1> HIDE DEF next
<1>3. CASE Release(p)
  BY <1>1, <1>3, RefusalKeepsInv
<1>4. ASSUME NEW r, Follows(p, r, next)
      PROVE  /\ PositionedAt(r)
             /\ OrderedAt(r, owns[p], shares[p]) /\ MayHold(r, "run")
  <2>1. PositionedAt(r)
    BY <1>1, <1>2, <1>4 DEF PositionedAt, HasStep, OneSession, Follows, Kind, Target
  <2>2. OrderedAt(r, owns[p], shares[p]) /\ MayHold(r, "run")
    BY <1>1, <1>2, <1>4, FitsParts DEF OrderedAt, MayHold, Follows, Kind
  <2> QED BY <2>1, <2>2
<1>5. CASE s \in WithRun /\ Own(p, RunRow(s)) /\ GoesTo(p, next)
  <2>1. ASSUME NEW r, Follows(p, r, next)
        PROVE  /\ HoldingAt(r, owns[p] \union {RunRow(s)}, shares[p])
               /\ KnowsAt(r, owns[p] \union {RunRow(s)})
    <3>1. HoldingAt(r, owns[p] \union {RunRow(s)}, shares[p])
      BY <1>1, <1>2, <2>1, FitsParts DEF HoldingAt, Follows, Kind, Target
    <3>2. KnowsAt(r, owns[p] \union {RunRow(s)})
      BY <1>1, <1>2, <1>5, <2>1, FitsParts DEF KnowsAt, Follows, Kind, Target
    <3> QED BY <3>1, <3>2
  <2> QED BY <1>1, <1>2, <1>4, <1>5, <2>1, RowParts, OwningKeepsInv DEF Steps
<1>6. CASE s \notin WithRun /\ Kind(p) \in {"delete", "turn"} /\ GoesTo(p, next) /\ UNCHANGED Locks
  <2>1. ASSUME NEW r, Follows(p, r, next)
        PROVE  HoldingAt(r, owns[p], shares[p]) /\ KnowsAt(r, owns[p])
    <3>1. HoldingAt(r, owns[p], shares[p])
      BY <1>1, <1>2, <1>6, <2>1, FitsParts DEF HoldingAt, Follows, Kind, Target
    <3>2. KnowsAt(r, owns[p])
      BY <1>1, <1>2, <1>6, <2>1, FitsParts DEF KnowsAt, Follows, Kind, Target
    <3> QED BY <3>1, <3>2
  <2> QED BY <1>1, <1>2, <1>4, <1>6, <2>1, GoingKeepsInv DEF Steps
<1> QED BY <1>3, <1>5, <1>6 DEF LockRun, next

LEMMA LockRosterKeepsInv ==
  ASSUME LifecycleInv, NEW p \in Requests, LockRoster(p)
  PROVE  LifecycleInv'
<1> DEFINE row == RosterRows(Target(p))
<1>1. /\ request[p].kind \in {"delete", "remember"} /\ request[p].step = "roster"
      /\ UNCHANGED Data /\ Target(p) \in Sessions /\ Own(p, row) /\ GoesTo(p, "commit")
  BY FitsParts DEF LockRoster, PositionedAt, OneSession, Step, Kind, Target
<1>2. ASSUME NEW r, Follows(p, r, "commit")
      PROVE  /\ PositionedAt(r) /\ HoldingAt(r, owns[p] \union {row}, shares[p])
             /\ OrderedAt(r, owns[p], shares[p]) /\ MayHold(r, row[1])
             /\ KnowsAt(r, owns[p] \union {row})
  <2>1. PositionedAt(r)
    BY <1>1, <1>2 DEF PositionedAt, HasStep, OneSession, Follows, Target
  <2>2. HoldingAt(r, owns[p] \union {row}, shares[p])
    BY <1>1, <1>2, FitsParts DEF HoldingAt, Follows
  <2>3. OrderedAt(r, owns[p], shares[p]) /\ MayHold(r, row[1])
    BY <1>1, <1>2, FitsParts, RowParts DEF OrderedAt, MayHold, Follows
  <2>4. KnowsAt(r, owns[p] \union {row})
    BY <1>1, <1>2, FitsParts DEF KnowsAt, Follows
  <2> QED BY <2>1, <2>2, <2>3, <2>4
<1> QED BY <1>1, <1>2, RowParts, OwningKeepsInv DEF Steps

-----------------------------------------------------------------------------
(* The statements of the agent runtime.                                    *)

LEMMA LockClaimKeyKeepsInv ==
  ASSUME LifecycleInv, NEW p \in Requests, LockClaimKey(p)
  PROVE  LifecycleInv'
<1>1. /\ request[p].kind = "claim" /\ request[p].step = "claim key"
      /\ UNCHANGED Data /\ Target(p) \in Sessions /\ Own(p, ClaimKey) /\ GoesTo(p, "run")
  BY FitsParts DEF LockClaimKey, PositionedAt, HasStep, OneSession, Step, Target
<1>2. ASSUME NEW r, Follows(p, r, "run")
      PROVE  /\ PositionedAt(r) /\ HoldingAt(r, owns[p] \union {ClaimKey}, shares[p])
             /\ OrderedAt(r, owns[p], shares[p]) /\ MayHold(r, ClaimKey[1])
             /\ KnowsAt(r, owns[p] \union {ClaimKey})
  <2>1. PositionedAt(r)
    BY <1>1, <1>2 DEF PositionedAt, HasStep, OneSession, Follows, Target
  <2>2. HoldingAt(r, owns[p] \union {ClaimKey}, shares[p])
    BY <1>1, <1>2, FitsParts DEF HoldingAt, Follows
  <2>3. OrderedAt(r, owns[p], shares[p]) /\ MayHold(r, ClaimKey[1])
    BY <1>1, <1>2, FitsParts, RowParts DEF OrderedAt, MayHold, Follows
  <2>4. KnowsAt(r, owns[p] \union {ClaimKey})
    BY <1>1, <1>2 DEF KnowsAt, Follows
  <2> QED BY <2>1, <2>2, <2>3, <2>4
<1> QED BY <1>1, <1>2, RowParts, OwningKeepsInv DEF Steps

LEMMA ObserveRosterKeepsInv ==
  ASSUME LifecycleInv, NEW p \in Requests, ObserveRoster(p)
  PROVE  LifecycleInv'
<1> DEFINE row == RosterRows(Target(p))
<1>1. /\ request[p].kind = "observe" /\ request[p].step = "roster"
      /\ UNCHANGED Data /\ Target(p) \in Sessions
  BY FitsParts DEF ObserveRoster, PositionedAt, OneSession, Step, Kind, Target
<1>2. CASE Release(p)
  BY <1>1, <1>2, RefusalKeepsInv
<1>3. CASE Share(p, row) /\ GoesTo(p, "session")
  <2>1. ASSUME NEW r, Follows(p, r, "session")
        PROVE  /\ PositionedAt(r) /\ HoldingAt(r, owns[p], shares[p] \union {row})
               /\ OrderedAt(r, owns[p], shares[p]) /\ MayHold(r, row[1])
               /\ KnowsAt(r, owns[p])
    <3>1. PositionedAt(r)
      BY <1>1, <2>1 DEF PositionedAt, HasStep, OneSession, Follows, Target
    <3>2. HoldingAt(r, owns[p], shares[p] \union {row})
      BY <1>1, <2>1, FitsParts DEF HoldingAt, Follows
    <3>3. OrderedAt(r, owns[p], shares[p]) /\ MayHold(r, row[1])
      BY <1>1, <2>1, FitsParts, RowParts DEF OrderedAt, MayHold, Follows
    <3>4. KnowsAt(r, owns[p])
      BY <1>1, <2>1 DEF KnowsAt, Follows
    <3> QED BY <3>1, <3>2, <3>3, <3>4
  <2> QED BY <1>1, <1>3, <2>1, RowParts, SharingKeepsInv DEF Steps
<1> QED BY <1>2, <1>3 DEF ObserveRoster

LEMMA ShareSessionKeepsInv ==
  ASSUME LifecycleInv, NEW p \in Requests, ShareSession(p)
  PROVE  LifecycleInv'
<1> DEFINE row == SessionRow(Target(p))
<1>1. /\ request[p].kind \in {"observe", "remember"} /\ request[p].step = "session"
      /\ UNCHANGED Data /\ Target(p) \in Sessions
  BY FitsParts DEF ShareSession, PositionedAt, OneSession, Step, Kind, Target
<1>2. CASE Release(p)
  BY <1>1, <1>2, RefusalKeepsInv
<1>3. CASE Target(p) \in Existing /\ Share(p, row) /\ GoesTo(p, "run")
  <2>1. ASSUME NEW r, Follows(p, r, "run")
        PROVE  /\ PositionedAt(r) /\ HoldingAt(r, owns[p], shares[p] \union {row})
               /\ OrderedAt(r, owns[p], shares[p]) /\ MayHold(r, row[1])
               /\ KnowsAt(r, owns[p])
    <3>1. PositionedAt(r)
      BY <1>1, <2>1 DEF PositionedAt, HasStep, OneSession, Follows, Target
    <3>2. HoldingAt(r, owns[p], shares[p] \union {row})
      BY <1>1, <2>1, FitsParts DEF HoldingAt, Follows, Target
    <3>3. OrderedAt(r, owns[p], shares[p]) /\ MayHold(r, row[1])
      BY <1>1, <2>1, FitsParts, RowParts DEF OrderedAt, MayHold, Follows
    <3>4. KnowsAt(r, owns[p])
      BY <1>1, <1>3, <2>1 DEF KnowsAt, Follows, Target
    <3> QED BY <3>1, <3>2, <3>3, <3>4
  <2> QED BY <1>1, <1>3, <2>1, RowParts, SharingKeepsInv DEF Steps
<1> QED BY <1>2, <1>3 DEF ShareSession

LEMMA ReferToAgentKeepsInv ==
  ASSUME LifecycleInv, NEW p \in Requests, ReferToAgent(p)
  PROVE  LifecycleInv'
<1> DEFINE row == RosterRows(Target(p))
<1>1. /\ request[p].kind = "decide" /\ request[p].step = "roster"
      /\ UNCHANGED Data /\ Target(p) \in Sessions /\ Share(p, row) /\ GoesTo(p, "commit")
  BY FitsParts DEF ReferToAgent, PositionedAt, OneSession, Step, Kind, Target
<1>2. ASSUME NEW r, Follows(p, r, "commit")
      PROVE  /\ PositionedAt(r) /\ HoldingAt(r, owns[p], shares[p] \union {row})
             /\ OrderedAt(r, owns[p], shares[p]) /\ MayHold(r, row[1])
             /\ KnowsAt(r, owns[p])
  <2>1. PositionedAt(r)
    BY <1>1, <1>2 DEF PositionedAt, HasStep, OneSession, Follows, Target
  <2>2. HoldingAt(r, owns[p], shares[p] \union {row})
    BY <1>1, <1>2, FitsParts DEF HoldingAt, Follows
  <2>3. OrderedAt(r, owns[p], shares[p]) /\ MayHold(r, row[1])
    BY <1>1, <1>2, FitsParts, RowParts DEF OrderedAt, MayHold, Follows
  <2>4. KnowsAt(r, owns[p])
    BY <1>1, <1>2, FitsParts DEF KnowsAt, Follows
  <2> QED BY <2>1, <2>2, <2>3, <2>4
<1> QED BY <1>1, <1>2, RowParts, SharingKeepsInv DEF Steps

-----------------------------------------------------------------------------
(* The statements that clear all data.                                     *)

LEMMA LockNextSessionKeepsInv ==
  ASSUME LifecycleInv, NEW p \in Requests, LockNextSession(p)
  PROVE  LifecycleInv'
<1> DEFINE s == First(request[p].todo)
<1>1. /\ request[p].kind = "clear" /\ request[p].step = "sessions" /\ UNCHANGED Data
      /\ request[p].todo # {}
  BY FitsParts DEF LockNextSession, PositionedAt, HasStep, Step
<1>2. s \in Sessions
  BY <1>1, FitsParts, FirstOfSessions DEF Shapes
<1> HIDE DEF s
<1>3. ASSUME NEW r \in Shapes, r.kind = "clear", r.step = "sessions"
      PROVE  PositionedAt(r) /\ OrderedAt(r, owns[p], shares[p]) /\ MayHold(r, "session")
             /\ \A o : KnowsAt(r, o)
  <2>1. PositionedAt(r)
    BY <1>3 DEF PositionedAt, HasStep, OneSession
  <2>2. OrderedAt(r, owns[p], shares[p]) /\ MayHold(r, "session")
    BY <1>1, <1>3, FitsParts DEF OrderedAt, MayHold
  <2>3. \A o : KnowsAt(r, o)
    BY <1>3 DEF KnowsAt
  <2> QED BY <2>1, <2>2, <2>3
<1>4. CASE /\ Own(p, SessionRow(s))
           /\ Becomes(p, [request[p] EXCEPT !.todo = @ \ {s}, !.locked = @ \union {s}])
  <2> DEFINE r == [request[p] EXCEPT !.todo = @ \ {s}, !.locked = @ \union {s}]
  <2>1. /\ r \in Shapes /\ r.kind = "clear" /\ r.step = "sessions"
        /\ r.locked = request[p].locked \union {s} /\ r.cancelled = request[p].cancelled
    BY <1>1, <1>2, FitsParts DEF Shapes
  <2>2. Becomes(p, r)
    BY <1>4
  <2> HIDE DEF r
  <2>3. HoldingAt(r, owns[p] \union {SessionRow(s)}, shares[p])
    BY <1>1, <2>1, FitsParts DEF HoldingAt
  <2> QED BY <1>1, <1>2, <1>3, <1>4, <2>1, <2>2, <2>3, RowParts, OwnKeepsInv
<1>5. CASE /\ Becomes(p, [request[p] EXCEPT !.todo = @ \ {s}])
           /\ UNCHANGED Locks
  <2> DEFINE r == [request[p] EXCEPT !.todo = @ \ {s}]
  <2>1. /\ r \in Shapes /\ r.kind = "clear" /\ r.step = "sessions"
        /\ r.locked = request[p].locked /\ r.cancelled = request[p].cancelled
    BY <1>1, <1>2, FitsParts DEF Shapes
  <2>2. Becomes(p, r)
    BY <1>5
  <2> HIDE DEF r
  <2>3. HoldingAt(r, owns[p], shares[p])
    BY <1>1, <2>1, FitsParts DEF HoldingAt
  <2> QED BY <1>1, <1>3, <1>5, <2>1, <2>2, <2>3, StatementKeepsInv
<1> QED BY <1>4, <1>5 DEF LockNextSession, s

LEMMA SelectRunsKeepsInv ==
  ASSUME LifecycleInv, NEW p \in Requests, SelectRuns(p)
  PROVE  LifecycleInv'
<1>1. /\ request[p].kind = "clear" /\ request[p].step = "sessions" /\ UNCHANGED Data
  BY FitsParts DEF SelectRuns, PositionedAt, HasStep, Step
<1>2. CASE Release(p)
  BY <1>1, <1>2, RefusalKeepsInv
<1>3. CASE /\ Becomes(p, [request[p] EXCEPT !.step = "runs", !.todo = WithRun])
           /\ UNCHANGED Locks
  <2> DEFINE r == [request[p] EXCEPT !.step = "runs", !.todo = WithRun]
  <2>1. /\ r \in Shapes /\ r.kind = "clear" /\ r.step = "runs"
        /\ r.locked = request[p].locked /\ r.cancelled = request[p].cancelled
    BY <1>1, FitsParts DEF Shapes, Steps, WithRun
  <2>2. Becomes(p, r)
    BY <1>3
  <2> HIDE DEF r
  <2>3. PositionedAt(r)
    BY <2>1 DEF PositionedAt, HasStep, OneSession
  <2>4. HoldingAt(r, owns[p], shares[p])
    BY <1>1, <2>1, FitsParts DEF HoldingAt
  <2>5. OrderedAt(r, owns[p], shares[p])
    BY <1>1, <2>1, FitsParts DEF OrderedAt, MayHold
  <2>6. KnowsAt(r, owns[p])
    BY <2>1 DEF KnowsAt
  <2> QED BY <1>1, <1>3, <2>1, <2>2, <2>3, <2>4, <2>5, <2>6, StatementKeepsInv
<1> QED BY <1>2, <1>3 DEF SelectRuns

LEMMA LockNextRunKeepsInv ==
  ASSUME LifecycleInv, NEW p \in Requests, LockNextRun(p)
  PROVE  LifecycleInv'
<1> DEFINE s == First(request[p].todo)
<1>1. /\ request[p].kind = "clear" /\ request[p].step = "runs" /\ UNCHANGED Data
      /\ request[p].todo # {}
  BY FitsParts DEF LockNextRun, PositionedAt, HasStep, Step
<1>2. s \in Sessions
  BY <1>1, FitsParts, FirstOfSessions DEF Shapes
<1> HIDE DEF s
<1>3. ASSUME NEW r \in Shapes, r.kind = "clear", r.step = "runs"
      PROVE  PositionedAt(r) /\ OrderedAt(r, owns[p], shares[p]) /\ MayHold(r, "run")
             /\ \A o : KnowsAt(r, o)
  <2>1. PositionedAt(r)
    BY <1>3 DEF PositionedAt, HasStep, OneSession
  <2>2. OrderedAt(r, owns[p], shares[p]) /\ MayHold(r, "run")
    BY <1>1, <1>3, FitsParts DEF OrderedAt, MayHold
  <2>3. \A o : KnowsAt(r, o)
    BY <1>3 DEF KnowsAt
  <2> QED BY <2>1, <2>2, <2>3
<1>4. CASE /\ Own(p, RunRow(s))
           /\ Becomes(p, [request[p] EXCEPT !.todo = @ \ {s}, !.cancelled = @ \union {s}])
  <2> DEFINE r == [request[p] EXCEPT !.todo = @ \ {s}, !.cancelled = @ \union {s}]
  <2>1. /\ r \in Shapes /\ r.kind = "clear" /\ r.step = "runs"
        /\ r.locked = request[p].locked /\ r.cancelled = request[p].cancelled \union {s}
    BY <1>1, <1>2, FitsParts DEF Shapes
  <2>2. Becomes(p, r)
    BY <1>4
  <2> HIDE DEF r
  <2>3. HoldingAt(r, owns[p] \union {RunRow(s)}, shares[p])
    BY <1>1, <2>1, FitsParts DEF HoldingAt
  <2> QED BY <1>1, <1>2, <1>3, <1>4, <2>1, <2>2, <2>3, RowParts, OwnKeepsInv
<1>5. CASE /\ Becomes(p, [request[p] EXCEPT !.todo = @ \ {s}])
           /\ UNCHANGED Locks
  <2> DEFINE r == [request[p] EXCEPT !.todo = @ \ {s}]
  <2>1. /\ r \in Shapes /\ r.kind = "clear" /\ r.step = "runs"
        /\ r.locked = request[p].locked /\ r.cancelled = request[p].cancelled
    BY <1>1, <1>2, FitsParts DEF Shapes
  <2>2. Becomes(p, r)
    BY <1>5
  <2> HIDE DEF r
  <2>3. HoldingAt(r, owns[p], shares[p])
    BY <1>1, <2>1, FitsParts DEF HoldingAt
  <2> QED BY <1>1, <1>3, <1>5, <2>1, <2>2, <2>3, StatementKeepsInv
<1> QED BY <1>4, <1>5 DEF LockNextRun, s

LEMMA CancelAndDetachKeepsInv ==
  ASSUME LifecycleInv, NEW p \in Requests, CancelAndDetach(p)
  PROVE  LifecycleInv'
<1>1. /\ request[p].kind = "clear" /\ request[p].step = "runs" /\ UNCHANGED Data
  BY FitsParts DEF CancelAndDetach, PositionedAt, HasStep, Step
<1>2. CASE Release(p)
  BY <1>1, <1>2, RefusalKeepsInv
<1>3. CASE /\ WithRun = request[p].cancelled /\ Existing = request[p].locked
           /\ Becomes(p, [request[p] EXCEPT !.step = "rosters", !.todo = request[p].locked])
           /\ UNCHANGED Locks
  <2> DEFINE r == [request[p] EXCEPT !.step = "rosters", !.todo = request[p].locked]
  <2>1. /\ r \in Shapes /\ r.kind = "clear" /\ r.step = "rosters"
        /\ r.locked = request[p].locked /\ r.cancelled = request[p].cancelled
    BY <1>1, FitsParts DEF Shapes, Steps
  <2>2. Becomes(p, r)
    BY <1>3
  <2> HIDE DEF r
  <2>3. PositionedAt(r)
    BY <2>1 DEF PositionedAt, HasStep, OneSession
  <2>4. HoldingAt(r, owns[p], shares[p])
    BY <1>1, <2>1, FitsParts DEF HoldingAt
  <2>5. OrderedAt(r, owns[p], shares[p])
    BY <1>1, <2>1, FitsParts DEF OrderedAt, MayHold
  <2>6. KnowsAt(r, owns[p])
    BY <1>3, <2>1 DEF KnowsAt
  <2> QED BY <1>1, <1>3, <2>1, <2>2, <2>3, <2>4, <2>5, <2>6, StatementKeepsInv
<1> QED BY <1>2, <1>3 DEF CancelAndDetach

LEMMA LockNextRosterKeepsInv ==
  ASSUME LifecycleInv, NEW p \in Requests, LockNextRoster(p)
  PROVE  LifecycleInv'
<1> DEFINE s == First(request[p].todo)
<1>1. /\ request[p].kind = "clear" /\ request[p].step = "rosters" /\ UNCHANGED Data
  BY FitsParts DEF LockNextRoster, PositionedAt, HasStep, Step
<1>2. ASSUME NEW r \in Shapes, r.kind = "clear", r.step \in {"rosters", "commit"},
             r.locked = request[p].locked, r.cancelled = request[p].cancelled
      PROVE  PositionedAt(r) /\ OrderedAt(r, owns[p], shares[p]) /\ MayHold(r, "roster")
             /\ \A o : owns[p] \subseteq o => HoldingAt(r, o, shares[p]) /\ KnowsAt(r, o)
  <2>1. PositionedAt(r)
    BY <1>2 DEF PositionedAt, HasStep, OneSession
  <2>2. OrderedAt(r, owns[p], shares[p]) /\ MayHold(r, "roster")
    BY <1>1, <1>2, FitsParts DEF OrderedAt, MayHold
  <2>3. \A o : owns[p] \subseteq o => HoldingAt(r, o, shares[p])
    BY <1>1, <1>2, FitsParts DEF HoldingAt
  <2>4. \A o : KnowsAt(r, o)
    BY <1>1, <1>2, FitsParts DEF KnowsAt
  <2> QED BY <2>1, <2>2, <2>3, <2>4
<1>3. CASE request[p].todo # {}
  <2> DEFINE r == [request[p] EXCEPT !.todo = @ \ {s}]
  <2>1. s \in Sessions
    BY <1>3, FitsParts, FirstOfSessions DEF Shapes
  <2>2. Own(p, RosterRows(s)) /\ Becomes(p, r)
    BY <1>3 DEF LockNextRoster
  <2> HIDE DEF s
  <2>3. /\ r \in Shapes /\ r.kind = "clear" /\ r.step = "rosters"
        /\ r.locked = request[p].locked /\ r.cancelled = request[p].cancelled
    BY <1>1, <2>1, FitsParts DEF Shapes
  <2> HIDE DEF r
  <2> QED BY <1>1, <1>2, <2>1, <2>2, <2>3, RowParts, OwnKeepsInv
<1>4. CASE GoesTo(p, "commit") /\ UNCHANGED Locks
  BY <1>1, <1>2, <1>4, GoingKeepsInv DEF Steps, Follows
<1> QED BY <1>3, <1>4 DEF LockNextRoster

-----------------------------------------------------------------------------
(* The commits.  Whoever writes has locked what it writes, so that the     *)
(* others know nothing of it.                                              *)

LEMMA OthersKnow ==
  ASSUME LifecycleInv, NEW p \in Requests, Release(p), NEW q \in Requests \ {p}
  PROVE  /\ request'[q] = request[q] /\ owns'[q] = owns[q]
         /\ request[q] \in Shapes
         /\ PositionedAt(request[q])
         /\ HoldingAt(request[q], owns[q], shares[q])
         /\ KnowsAt(request[q], owns[q])
         /\ \A row \in owns[p] : row \notin owns[q] /\ row \notin shares[q]
<1>1. request'[q] = request[q] /\ owns'[q] = owns[q]
  BY TypeParts DEF Release
<1>2. \A row \in owns[p] : row \notin owns[q] /\ row \notin shares[q]
  BY DEF LifecycleInv, Exclusive
<1> QED BY <1>1, <1>2, FitsParts

LEMMA InsertKeepsInv ==
  ASSUME LifecycleInv, NEW p \in Requests, Insert(p)
  PROVE  LifecycleInv'
<1>1. /\ request[p].kind = "create" /\ Owner \in owns[p] /\ Release(p)
  BY FitsParts DEF Insert, PositionedAt, HasStep, HoldingAt, Step
<1>2. CASE UNCHANGED Data
  BY <1>1, <1>2, RefusalKeepsInv
<1>3. CASE /\ Active = {} /\ Unborn # {}
           /\ session' = [session EXCEPT ![First(Unborn)] = "active"]
           /\ UNCHANGED <<endings, run>>
  <2> DEFINE s == First(Unborn)
  <2>1. s \in Unborn
    BY <1>3, FirstOfSessions DEF Unborn
  <2>2. s \in Sessions /\ session[s] = "unborn" /\ session' = [session EXCEPT ![s] = "active"]
    BY <1>3, <2>1 DEF Unborn
  <2> HIDE DEF s
  <2>3. session \in [Sessions -> Lifecycles] /\ session' \in [Sessions -> Lifecycles]
    BY <2>2, TypeParts DEF Stored, Lifecycles
  <2>4. /\ Ended' = Ended /\ Existing' = Existing \union {s} /\ WithRun' = WithRun
    BY <1>3, <2>2, <2>3 DEF Ended, Existing, WithRun
  <2>5. Stored'
    BY <1>3, <2>3, <2>4, TypeParts DEF Stored, EndedOnce, RunsHaveSessions
  <2>6. ASSUME NEW q \in Requests \ {p}
        PROVE  KnowsAt(request[q], owns[q])'
    <3>1. ~(request[q].kind \in {"create", "clear"} /\ request[q].step # "owner")
      BY <1>1, OthersKnow DEF HoldingAt
    <3>2. request[q].step \notin {"source", "insert"}
      BY <1>1, <3>1, OthersKnow DEF PositionedAt, HasStep
    <3> QED BY <1>1, <2>4, <3>1, <3>2, OthersKnow DEF KnowsAt
  <2> QED BY <1>1, <2>5, <2>6, CommitKeepsInv
<1> QED BY <1>2, <1>3 DEF Insert

LEMMA DeleteCommitsKeepsInv ==
  ASSUME LifecycleInv, NEW p \in Requests, DeleteCommits(p)
  PROVE  LifecycleInv'
<1> DEFINE s == Target(p)
<1>1. /\ request[p].kind = "delete" /\ request[p].step = "commit" /\ Release(p)
      /\ session' = [session EXCEPT ![s] = "deleted"]
      /\ run' = [run EXCEPT ![s] = "none"]
      /\ endings' = Without(s)
  BY DEF DeleteCommits, Step, Kind
<1>2. /\ s \in Sessions /\ s \in Ended /\ SessionRow(s) \in owns[p]
      /\ s \in WithRun => RunRow(s) \in owns[p]
  BY <1>1, FitsParts DEF PositionedAt, HoldingAt, KnowsAt, OneSession, Target
<1>3. TypeOK /\ EndedOnce /\ session \in [Sessions -> Lifecycles] /\ run \in [Sessions -> RunStates]
      /\ RunsHaveSessions
  BY TypeParts DEF Stored, LifecycleInv
<1> HIDE DEF s
<1>4. /\ session' \in [Sessions -> Lifecycles] /\ run' \in [Sessions -> RunStates]
  BY <1>1, <1>2, <1>3 DEF Lifecycles, RunStates
<1>5. /\ Ended' = Ended \ {s} /\ Existing' = Existing \ {s} /\ Active' = Active
      /\ WithRun' = WithRun \ {s} /\ s \in Existing
  BY <1>1, <1>2, <1>3 DEF Ended, Existing, Active, WithRun
<1>6. /\ endings' \in Seq(Sessions)
      /\ {endings'[i] : i \in DOMAIN endings'} = Ended \ {s}
      /\ \A i, j \in DOMAIN endings' : endings'[i] = endings'[j] => i = j
      /\ \A t \in Sessions \ {s} : Latest(t) => Latest(t)'
  BY <1>1, <1>2, <1>3, WithoutKeeps DEF Latest
<1>7. Stored'
  BY <1>3, <1>4, <1>5, <1>6 DEF Stored, EndedOnce, RunsHaveSessions
<1>8. ASSUME NEW q \in Requests \ {p}
      PROVE  KnowsAt(request[q], owns[q])'
  <2> DEFINE rq == request[q]
             oq == owns[q]
  <2>1. SessionRow(s) \notin oq /\ SessionRow(s) \notin shares[q]
        /\ (s \in WithRun => RunRow(s) \notin oq)
    BY <1>1, <1>2, OthersKnow
  <2>2. rq \in Shapes /\ PositionedAt(rq) /\ HoldingAt(rq, oq, shares[q]) /\ KnowsAt(rq, oq)
    BY <1>1, OthersKnow
  <2>3. (rq.step = "insert" /\ rq.source # NoSession) =>
          rq.source \in Sessions \ {s} /\ Latest(rq.source)
    BY <2>1, <2>2 DEF HoldingAt, KnowsAt, Shapes
  <2>4. (rq.kind \in {"delete", "turn", "remember"} /\ rq.step # "session") => rq.target # s
    BY <2>1, <2>2 DEF HoldingAt
  <2>5. (rq.kind \in {"claim", "remember", "decide"} /\ rq.step \in {"roster", "commit"}) =>
          rq.target # s
    BY <2>1, <2>2 DEF HoldingAt, KnowsAt
  <2>6. ~(rq.kind = "clear" /\ rq.step \in {"rosters", "commit"})
    BY <2>1, <2>2, <1>5 DEF HoldingAt, KnowsAt
  <2> HIDE DEF rq, oq
  <2>7. rq' = rq /\ oq' = oq
    BY <1>1, OthersKnow DEF rq, oq
  <2>8. KnowsAt(rq, oq)'
    BY <1>5, <1>6, <2>2, <2>3, <2>4, <2>5, <2>6, <2>7 DEF KnowsAt
  <2> QED BY <2>8 DEF rq, oq
<1> QED BY <1>1, <1>7, <1>8, CommitKeepsInv

LEMMA ClearCommitsKeepsInv ==
  ASSUME LifecycleInv, NEW p \in Requests, ClearCommits(p)
  PROVE  LifecycleInv'
<1>1. /\ request[p].kind = "clear" /\ request[p].step = "commit" /\ Release(p)
      /\ session' = [s \in Sessions |-> IF s \in Existing THEN "deleted" ELSE session[s]]
      /\ run' = [s \in Sessions |-> "none"]
      /\ endings' = <<>>
  BY DEF ClearCommits, Step, Kind
<1>2. /\ Owner \in owns[p]
      /\ \A s \in Existing : SessionRow(s) \in owns[p]
      /\ \A s \in WithRun : RunRow(s) \in owns[p]
  BY <1>1, FitsParts DEF HoldingAt, KnowsAt
<1>3. session \in [Sessions -> Lifecycles]
  BY TypeParts DEF Stored
<1>4. session' \in [Sessions -> Lifecycles] /\ run' \in [Sessions -> RunStates]
  BY <1>1, <1>3 DEF Lifecycles, RunStates
<1>5. Ended' = {} /\ WithRun' = {} /\ Ended \subseteq Existing
  BY <1>1, <1>3 DEF Ended, WithRun, Existing
<1>6. endings' \in Seq(Sessions) /\ DOMAIN endings' = {}
  BY <1>1
<1>7. {endings'[i] : i \in DOMAIN endings'} = {}
  BY <1>6
<1>8. EndedOnce' /\ RunsHaveSessions'
  BY <1>5, <1>6 DEF EndedOnce, RunsHaveSessions
<1>9. Stored'
  BY <1>4, <1>5, <1>6, <1>7, <1>8 DEF Stored
<1>10. ASSUME NEW q \in Requests \ {p}
       PROVE  KnowsAt(request[q], owns[q])'
  <2> DEFINE rq == request[q]
             oq == owns[q]
  <2>1. /\ Owner \notin oq
        /\ \A s \in Existing : SessionRow(s) \notin oq /\ SessionRow(s) \notin shares[q]
        /\ \A s \in WithRun : RunRow(s) \notin oq
    BY <1>1, <1>2, OthersKnow
  <2>2. rq \in Shapes /\ PositionedAt(rq) /\ HoldingAt(rq, oq, shares[q]) /\ KnowsAt(rq, oq)
    BY <1>1, OthersKnow
  <2>3. ~(rq.kind \in {"create", "clear"} /\ rq.step # "owner")
    BY <2>1, <2>2 DEF HoldingAt
  <2>4. rq.step \notin {"source", "insert"}
    BY <2>2, <2>3 DEF PositionedAt, HasStep
  <2>5. ~(rq.kind \in {"delete", "turn", "remember"} /\ rq.step # "session")
    BY <2>1, <2>2, <1>5 DEF HoldingAt, KnowsAt
  <2>6. ~(rq.kind \in {"claim", "remember", "decide"} /\ rq.step \in {"roster", "commit"})
    BY <2>1, <2>2 DEF HoldingAt, KnowsAt
  <2> HIDE DEF rq, oq
  <2>7. rq' = rq /\ oq' = oq
    BY <1>1, OthersKnow DEF rq, oq
  <2>8. KnowsAt(rq, oq)'
    BY <2>3, <2>4, <2>5, <2>6, <2>7 DEF KnowsAt
  <2> QED BY <2>8 DEF rq, oq
<1> QED BY <1>1, <1>9, <1>10, CommitKeepsInv

\* A transaction of a turn has the session, and the run if it ends it.
LEMMA TurnCommitsKeepsInv ==
  ASSUME LifecycleInv, NEW p \in Requests, TurnCommits(p)
  PROVE  LifecycleInv'
<1> DEFINE s == Target(p)
<1>1. /\ request[p].kind = "turn" /\ request[p].step = "commit" /\ Release(p)
  BY DEF TurnCommits, Step, Kind
<1>2. s \in Sessions /\ s \in Existing /\ SessionRow(s) \in owns[p]
  BY <1>1, FitsParts DEF PositionedAt, HoldingAt, KnowsAt, OneSession, Target
<1>3. TypeOK /\ EndedOnce /\ session \in [Sessions -> Lifecycles] /\ run \in [Sessions -> RunStates]
      /\ RunsHaveSessions /\ endings \in Seq(Sessions) /\ Stored
  BY TypeParts DEF Stored, LifecycleInv
<1>4. ASSUME NEW q \in Requests \ {p}
      PROVE  LET rq == request[q]
                 oq == owns[q] IN
             /\ request'[q] = request[q] /\ owns'[q] = owns[q]
             /\ KnowsAt(rq, oq)
             /\ (rq.step = "insert" /\ rq.source # NoSession) =>
                  rq.source \in Sessions \ {s} /\ Latest(rq.source)
             /\ (rq.kind \in {"delete", "turn", "remember"} /\ rq.step # "session") => rq.target # s
             /\ (/\ rq.kind \in {"claim", "remember", "decide"} /\ rq.step \in {"roster", "commit"}
                 /\ RunRow(s) \in owns[p]) => rq.target # s
             /\ ~(rq.kind = "clear" /\ rq.step \in {"rosters", "commit"})
  <2> DEFINE rq == request[q]
             oq == owns[q]
  <2>1. SessionRow(s) \notin oq /\ SessionRow(s) \notin shares[q]
        /\ (RunRow(s) \in owns[p] => RunRow(s) \notin oq)
    BY <1>1, <1>2, OthersKnow
  <2>2. rq \in Shapes /\ PositionedAt(rq) /\ HoldingAt(rq, oq, shares[q]) /\ KnowsAt(rq, oq)
        /\ request'[q] = request[q] /\ owns'[q] = owns[q]
    BY <1>1, OthersKnow
  <2>3. (rq.step = "insert" /\ rq.source # NoSession) =>
          rq.source \in Sessions \ {s} /\ Latest(rq.source)
    BY <2>1, <2>2 DEF HoldingAt, KnowsAt, Shapes
  <2>4. (rq.kind \in {"delete", "turn", "remember"} /\ rq.step # "session") => rq.target # s
    BY <2>1, <2>2 DEF HoldingAt
  <2>5. (/\ rq.kind \in {"claim", "remember", "decide"} /\ rq.step \in {"roster", "commit"}
         /\ RunRow(s) \in owns[p]) => rq.target # s
    BY <2>1, <2>2 DEF HoldingAt, KnowsAt
  <2>6. ~(rq.kind = "clear" /\ rq.step \in {"rosters", "commit"})
    BY <2>1, <2>2, <1>2 DEF HoldingAt, KnowsAt
  <2> QED BY <2>2, <2>3, <2>4, <2>5, <2>6
<1> HIDE DEF s
<1>5. CASE /\ session[s] = "active" /\ RunRow(s) \in owns[p]
           /\ \E state \in {"none", "queued"} : run' = [run EXCEPT ![s] = state]
           /\ UNCHANGED <<session, endings>>
  <2>1. PICK state \in {"none", "queued"} : run' = [run EXCEPT ![s] = state]
    BY <1>5
  <2>2. run' \in [Sessions -> RunStates]
    BY <2>1, <1>3 DEF RunStates
  <2>3. /\ WithRun' \subseteq WithRun \union {s} /\ WithRun \ {s} \subseteq WithRun'
        /\ WithRun' \ {s} \subseteq WithRun
    BY <2>1, <1>2, <1>3 DEF WithRun
  <2>4. Ended' = Ended /\ Existing' = Existing /\ Active' = Active
    BY <1>5 DEF Ended, Existing, Active
  <2>5. \A t : Latest(t)' = Latest(t)
    BY <1>5 DEF Latest
  <2>6. Stored'
    BY <1>2, <1>3, <1>5, <2>2, <2>3, <2>4 DEF Stored, EndedOnce, RunsHaveSessions
  <2>7. ASSUME NEW q \in Requests \ {p}
        PROVE  KnowsAt(request[q], owns[q])'
    BY <1>4, <1>5, <2>3, <2>4, <2>5 DEF KnowsAt
  <2> QED BY <1>1, <2>6, <2>7, CommitKeepsInv
<1>6. CASE /\ session[s] = "active" /\ run[s] = "none"
           /\ run' = [run EXCEPT ![s] = "queued"]
           /\ UNCHANGED <<session, endings>>
  <2>2. run' \in [Sessions -> RunStates]
    BY <1>6, <1>3 DEF RunStates
  <2>3. WithRun' = WithRun \union {s}
    BY <1>6, <1>2, <1>3 DEF WithRun
  <2>4. Ended' = Ended /\ Existing' = Existing /\ Active' = Active
    BY <1>6 DEF Ended, Existing, Active
  <2>5. \A t : Latest(t)' = Latest(t)
    BY <1>6 DEF Latest
  <2>6. Stored'
    BY <1>2, <1>3, <1>6, <2>2, <2>3, <2>4 DEF Stored, EndedOnce, RunsHaveSessions
  <2>7. ASSUME NEW q \in Requests \ {p}
        PROVE  KnowsAt(request[q], owns[q])'
    BY <1>4, <2>3, <2>4, <2>5 DEF KnowsAt
  <2> QED BY <1>1, <2>6, <2>7, CommitKeepsInv
<1>7. CASE /\ session[s] = "active" /\ run[s] = "none"
           /\ session' = [session EXCEPT ![s] = "ended"]
           /\ endings' = Append(endings, s)
           /\ UNCHANGED run
  <2>1. session' \in [Sessions -> Lifecycles]
    BY <1>7, <1>3 DEF Lifecycles
  <2>2. /\ Ended' = Ended \union {s} /\ Existing' = Existing /\ WithRun' = WithRun
        /\ s \in Active /\ s \notin Ended
    BY <1>7, <1>2, <1>3 DEF Ended, Existing, Active, WithRun
  <2>3. /\ endings' \in Seq(Sessions) /\ DOMAIN endings' = 1..(Len(endings) + 1)
        /\ DOMAIN endings = 1..Len(endings) /\ Len(endings) \in Nat
        /\ \A i \in 1..Len(endings) : endings'[i] = endings[i]
        /\ endings'[Len(endings) + 1] = s
    BY <1>2, <1>3, <1>7
  <2>4. Ended = {endings[i] : i \in 1..Len(endings)}
    BY <1>3, <2>3 DEF Stored
  <2>5. {endings'[i] : i \in DOMAIN endings'} = Ended \union {s}
    <3>1. ASSUME NEW i \in DOMAIN endings'
          PROVE  endings'[i] \in Ended \union {s}
      BY <2>3, <2>4
    <3>2. ASSUME NEW t \in Ended \union {s}
          PROVE  \E i \in DOMAIN endings' : endings'[i] = t
      <4>1. CASE t = s
        <5>1. Len(endings) + 1 \in DOMAIN endings'
          BY <2>3
        <5> QED BY <4>1, <5>1, <2>3
      <4>2. CASE t # s
        <5>1. PICK i \in 1..Len(endings) : endings[i] = t
          BY <2>4, <4>2
        <5>2. i \in DOMAIN endings' /\ endings'[i] = t
          BY <2>3, <5>1
        <5> QED BY <5>2
      <4> QED BY <4>1, <4>2
    <3> QED BY <3>1, <3>2
  <2>6. EndedOnce'
    <3>1. ASSUME NEW i \in DOMAIN endings', NEW j \in DOMAIN endings', endings'[i] = endings'[j]
          PROVE  i = j
      BY <3>1, <1>3, <2>2, <2>3, <2>4 DEF EndedOnce
    <3> QED BY <3>1 DEF EndedOnce
  <2>7. Stored'
    BY <1>3, <1>7, <2>1, <2>2, <2>3, <2>5, <2>6 DEF Stored, RunsHaveSessions
  <2>8. ASSUME NEW q \in Requests \ {p}
        PROVE  KnowsAt(request[q], owns[q])'
    BY <1>4, <2>2 DEF KnowsAt
  <2> QED BY <1>1, <2>7, <2>8, CommitKeepsInv
<1>8. CASE /\ session[s] \in {"active", "ended"}
           /\ session' = [session EXCEPT ![s] = "diagnosed"]
           /\ endings' = Without(s)
           /\ UNCHANGED run
  <2>1. session' \in [Sessions -> Lifecycles]
    BY <1>8, <1>3 DEF Lifecycles
  <2>2. /\ Ended' = Ended \ {s} /\ Existing' = Existing /\ WithRun' = WithRun
        /\ Active' \subseteq Active
    BY <1>8, <1>2, <1>3 DEF Ended, Existing, Active, WithRun
  <2>3. /\ endings' \in Seq(Sessions)
        /\ {endings'[i] : i \in DOMAIN endings'} = Ended \ {s}
        /\ \A i, j \in DOMAIN endings' : endings'[i] = endings'[j] => i = j
        /\ \A t \in Sessions \ {s} : Latest(t) => Latest(t)'
    BY <1>2, <1>3, <1>8, WithoutKeeps DEF Latest
  <2>4. Stored'
    BY <1>3, <1>8, <2>1, <2>2, <2>3 DEF Stored, EndedOnce, RunsHaveSessions
  <2>5. ASSUME NEW q \in Requests \ {p}
        PROVE  KnowsAt(request[q], owns[q])'
    BY <1>4, <2>2, <2>3 DEF KnowsAt
  <2> QED BY <1>1, <2>4, <2>5, CommitKeepsInv
<1>9. CASE UNCHANGED Data
  BY <1>1, <1>9, RefusalKeepsInv
<1> QED BY <1>5, <1>6, <1>7, <1>8, <1>9 DEF TurnCommits, s

LEMMA ClaimCommitsKeepsInv ==
  ASSUME LifecycleInv, NEW p \in Requests, ClaimCommits(p)
  PROVE  LifecycleInv'
<1> DEFINE s == Target(p)
<1>1. /\ request[p].kind = "claim" /\ request[p].step = "commit" /\ Release(p)
      /\ run' = [run EXCEPT ![s] = "leased"] /\ UNCHANGED <<session, endings>>
  BY DEF ClaimCommits, Step, Kind
<1>2. s \in Sessions /\ s \in WithRun
  BY <1>1, FitsParts DEF PositionedAt, KnowsAt, OneSession, Target
<1> HIDE DEF s
<1>3. run \in [Sessions -> RunStates] /\ Stored
  BY TypeParts DEF Stored
<1>4. run' \in [Sessions -> RunStates] /\ WithRun' = WithRun
  BY <1>1, <1>2, <1>3 DEF RunStates, WithRun
<1>5. Ended' = Ended /\ Existing' = Existing /\ Active' = Active
  BY <1>1 DEF Ended, Existing, Active
<1>6. Stored'
  BY <1>1, <1>3, <1>4, <1>5 DEF Stored, EndedOnce, RunsHaveSessions
<1>7. ASSUME NEW q \in Requests \ {p}
      PROVE  KnowsAt(request[q], owns[q])'
  BY <1>1, <1>4, <1>5, OthersKnow DEF KnowsAt, Latest
<1> QED BY <1>1, <1>6, <1>7, CommitKeepsInv

-----------------------------------------------------------------------------
(* The invariant.                                                          *)

LEMMA InitLifecycle == Init => LifecycleInv
<1> SUFFICES ASSUME Init PROVE LifecycleInv
  OBVIOUS
<1>1. endings \in Seq(Sessions) /\ DOMAIN endings = {} /\ Ended = {}
  BY DEF Init, Ended
<1>2. Ended = {endings[i] : i \in DOMAIN endings}
  BY <1>1
<1>3. TypeOK
  BY <1>1, <1>2, NoRequestShape DEF Init, TypeOK, Lifecycles, RunStates, Shapes
<1>4. EndedOnce /\ RunsHaveSessions /\ Exclusive
  BY <1>1 DEF Init, EndedOnce, RunsHaveSessions, WithRun, Exclusive
<1>5. ASSUME NEW p \in Requests
      PROVE  Fits(p)
  <2>1. request[p] = NoRequest /\ owns[p] = {} /\ shares[p] = {}
    BY DEF Init
  <2> QED BY <2>1, NoRequestShape DEF Fits
<1> QED BY <1>3, <1>4, <1>5 DEF LifecycleInv

LEMMA ProceedKeepsInv ==
  ASSUME LifecycleInv, NEW p \in Requests, Proceed(p)
  PROVE  LifecycleInv'
<1>1. CASE ObserveRun(p)
  BY <1>1, RefusalKeepsInv DEF ObserveRun
<1>2. CASE ExecutorCommits(p)
  BY <1>2, RefusalKeepsInv DEF ExecutorCommits
<1>3. CASE Deadlocked(p)
  BY <1>3, RefusalKeepsInv DEF Deadlocked
<1>4. CASE LockOwner(p) \/ SeekActive(p) \/ LockActive(p) \/ LockSource(p) \/ Insert(p)
  BY <1>4, LockOwnerKeepsInv, SeekActiveKeepsInv, LockActiveKeepsInv, LockSourceKeepsInv,
     InsertKeepsInv
<1>5. CASE LockSession(p) \/ LockRun(p) \/ LockRoster(p) \/ DeleteCommits(p) \/ TurnCommits(p)
  BY <1>5, LockSessionKeepsInv, LockRunKeepsInv, LockRosterKeepsInv, DeleteCommitsKeepsInv,
     TurnCommitsKeepsInv
<1>6. CASE \/ LockNextSession(p) \/ SelectRuns(p) \/ LockNextRun(p) \/ CancelAndDetach(p)
           \/ LockNextRoster(p) \/ ClearCommits(p)
  BY <1>6, LockNextSessionKeepsInv, SelectRunsKeepsInv, LockNextRunKeepsInv,
     CancelAndDetachKeepsInv, LockNextRosterKeepsInv, ClearCommitsKeepsInv
<1>7. CASE \/ LockClaimKey(p) \/ ClaimCommits(p) \/ ObserveRoster(p) \/ ShareSession(p)
           \/ ReferToAgent(p)
  BY <1>7, LockClaimKeyKeepsInv, ClaimCommitsKeepsInv, ObserveRosterKeepsInv,
     ShareSessionKeepsInv, ReferToAgentKeepsInv
<1> QED BY <1>1, <1>2, <1>3, <1>4, <1>5, <1>6, <1>7 DEF Proceed

LEMMA StutterKeepsInv ==
  ASSUME LifecycleInv, UNCHANGED vars
  PROVE  LifecycleInv'
BY DEF LifecycleInv, vars, TypeOK, Ended, EndedOnce, RunsHaveSessions, WithRun, Existing,
       Exclusive, Fits, KnowsAt, Active, Latest

LEMMA NextKeepsInv == LifecycleInv /\ [Next]_vars => LifecycleInv'
<1> SUFFICES ASSUME LifecycleInv, [Next]_vars PROVE LifecycleInv'
  OBVIOUS
<1>1. CASE UNCHANGED vars
  BY <1>1, StutterKeepsInv
<1>2. ASSUME NEW p \in Requests, Begin(p) PROVE LifecycleInv'
  BY <1>2, BeginKeepsInv
<1>3. ASSUME NEW p \in Requests, Proceed(p) PROVE LifecycleInv'
  BY <1>3, ProceedKeepsInv
<1> QED BY <1>1, <1>2, <1>3 DEF Next

\* In every reachable state the data are well formed, locks exclude each other
\* and every request holds and knows what its step says.
THEOREM LifecycleInvariant == Spec => []LifecycleInv
<1>1. LifecycleInv /\ [Next]_vars => LifecycleInv'
  BY NextKeepsInv
<1> QED BY <1>1, InitLifecycle, PTL DEF Spec

\* The variables have their types, and the endings list the ended sessions.
THEOREM TypeCorrect == Spec => []TypeOK
<1>1. LifecycleInv => TypeOK
  BY DEF LifecycleInv
<1> QED BY <1>1, LifecycleInvariant, PTL

\* A creation inserts when no session is active, with the roster of the
\* session that is the latest ended one at that moment.
THEOREM CreationStaysCurrent == Spec => []CreationIsCurrent
<1>1. LifecycleInv => CreationIsCurrent
  BY FitsParts DEF CreationIsCurrent, KnowsAt, Step
<1> QED BY <1>1, LifecycleInvariant, PTL

\* What a transaction has checked under its locks is true until it commits.
THEOREM LockedStaysTrueAlways == Spec => []LockedStaysTrue
<1>1. LifecycleInv => LockedStaysTrue
  <2> SUFFICES ASSUME LifecycleInv, NEW p \in Requests,
                      Step(p) \in {"roster", "rosters", "commit"}
               PROVE  /\ Kind(p) = "delete" => Target(p) \in Ended
                      /\ Kind(p) = "clear" =>
                           Existing = request[p].locked /\ WithRun = request[p].cancelled
                      /\ Kind(p) = "turn" => Target(p) \in Existing
                      /\ Kind(p) \in {"claim", "remember", "decide"} =>
                           Target(p) \in Existing \intersect WithRun
    BY DEF LockedStaysTrue
  <2>1. WithRun \subseteq Existing
    BY DEF LifecycleInv, RunsHaveSessions
  <2>2. Kind(p) = "delete" => Target(p) \in Ended
    BY FitsParts DEF KnowsAt, Step, Kind, Target
  <2>3. Kind(p) = "clear" => Existing = request[p].locked /\ WithRun = request[p].cancelled
    BY FitsParts DEF KnowsAt, PositionedAt, HasStep, Step, Kind
  <2>4. Kind(p) = "turn" => Target(p) \in Existing
    BY FitsParts DEF KnowsAt, Step, Kind, Target
  <2>5. Kind(p) \in {"claim", "remember", "decide"} => Target(p) \in WithRun
    BY FitsParts DEF KnowsAt, PositionedAt, HasStep, Step, Kind, Target
  <2> QED BY <2>1, <2>2, <2>3, <2>4, <2>5
<1> QED BY <1>1, LifecycleInvariant, PTL

-----------------------------------------------------------------------------
(* Circles.  Along every wait of requests that are not observations the    *)
(* place of the asked row in the order of locks grows, and at the same row *)
(* from those that have not locked the owner to those that have.           *)

Rank(step) ==
  IF step = "owner" THEN 0 ELSE IF step = "claim key" THEN 1
  ELSE IF step = "session" THEN 2 ELSE IF step \in {"active", "source", "sessions"} THEN 3
  ELSE IF step = "run" THEN 4 ELSE IF step = "runs" THEN 5
  ELSE IF step = "roster" THEN 6 ELSE 7

Asked(step, class) ==
  \/ class = "owner" /\ step = "owner"
  \/ class = "claim key" /\ step = "claim key"
  \/ class = "session" /\ step \in {"session", "active", "source", "sessions"}
  \/ class = "run" /\ step \in {"run", "runs"}
  \/ class = "roster" /\ step \in {"roster", "rosters"}

LEMMA AskedClass ==
  ASSUME NEW p \in Requests, NEW row \in Asks(p)
  PROVE  Asked(request[p].step, row[1])
<1>1. /\ Owner[1] = "owner" /\ ClaimKey[1] = "claim key"
      /\ \A s : /\ SessionRow(s)[1] = "session" /\ RunRow(s)[1] = "run"
                /\ RosterRows(s)[1] = "roster"
  BY DEF Owner, ClaimKey, SessionRow, RunRow, RosterRows
<1>2. \/ Step(p) = "owner" /\ row = Owner
      \/ Step(p) = "claim key" /\ row = ClaimKey
      \/ Step(p) \in {"session", "active", "source", "sessions"} /\ \E s : row = SessionRow(s)
      \/ Step(p) \in {"run", "runs"} /\ \E s : row = RunRow(s)
      \/ Step(p) \in {"roster", "rosters"} /\ \E s : row = RosterRows(s)
  BY DEF Asks
<1> QED BY <1>1, <1>2 DEF Asked, Step

LEMMA WaitsUpwards ==
  ASSUME LifecycleInv, NEW q \in Requests, NEW r \in Requests, WaitsFor(q, r),
         Asks(r) # {}, Kind(q) # "observe", Kind(r) # "observe"
  PROVE  Rank(Step(q)) < Rank(Step(r))
<1>1. PICK row \in Asks(q) : row \in owns[r] \union shares[r]
  BY DEF WaitsFor
<1>2. Asked(request[q].step, row[1]) /\ MayHold(request[r], row[1])
  BY <1>1, AskedClass, FitsParts DEF OrderedAt
<1>3. PICK other \in Asks(r) : TRUE
  OBVIOUS
<1>4. Asked(request[r].step, other[1])
  BY <1>3, AskedClass
<1>5. /\ request[q].kind # "observe" /\ request[r].kind # "observe"
      /\ HasStep(request[q].kind, request[q].step)
      /\ HasStep(request[r].kind, request[r].step)
  BY FitsParts DEF PositionedAt, Kind
<1>6. ~(/\ request[q].kind \in {"create", "clear"} /\ request[q].step # "owner"
        /\ request[r].kind \in {"create", "clear"} /\ request[r].step # "owner")
  BY FitsParts DEF HoldingAt, LifecycleInv, Exclusive, WaitsFor
<1> DEFINE waiting == request[q].step
           holding == request[r].step
<1>7. \/ waiting = "owner" /\ holding \in {"active", "source", "sessions", "runs", "rosters"}
      \/ waiting = "claim key" /\ holding = "run"
      \/ waiting = "session" /\ holding \in {"active", "source", "sessions", "runs", "rosters"}
      \/ waiting \in {"session", "active", "source", "sessions"} /\ holding \in {"run", "roster"}
      \/ waiting = "run" /\ holding \in {"runs", "rosters"}
      \/ waiting \in {"run", "runs"} /\ holding = "roster"
      \/ waiting = "roster" /\ holding = "rosters"
  <2> DEFINE class == row[1]
             asks == other[1]
  <2>1. Asked(waiting, class) /\ MayHold(request[r], class) /\ Asked(holding, asks)
    BY <1>2, <1>4
  <2>2. class \in {"owner", "claim key", "session", "run", "roster"}
    BY <2>1 DEF Asked
  <2> HIDE DEF class, asks
  <2>3. CASE class = "owner"
    BY <1>5, <2>1, <2>3 DEF Asked, MayHold, HasStep
  <2>4. CASE class = "claim key"
    BY <1>5, <2>1, <2>4 DEF Asked, MayHold, HasStep
  <2>5. CASE class = "session"
    BY <1>5, <1>6, <2>1, <2>5 DEF Asked, MayHold, HasStep
  <2>6. CASE class = "run"
    BY <1>5, <1>6, <2>1, <2>6 DEF Asked, MayHold, HasStep
  <2>7. CASE class = "roster"
    BY <1>5, <1>6, <2>1, <2>7 DEF Asked, MayHold, HasStep
  <2> QED BY <2>2, <2>3, <2>4, <2>5, <2>6, <2>7
<1> HIDE DEF waiting, holding
<1>8. Rank(waiting) < Rank(holding)
  <2>1. ASSUME NEW x
        PROVE  /\ x = "owner" => Rank(x) = 0
               /\ x = "claim key" => Rank(x) = 1
               /\ x = "session" => Rank(x) = 2
               /\ x \in {"active", "source", "sessions"} => Rank(x) = 3
               /\ x = "run" => Rank(x) = 4
               /\ x = "runs" => Rank(x) = 5
               /\ x = "roster" => Rank(x) = 6
               /\ x = "rosters" => Rank(x) = 7
    BY DEF Rank
  <2>2. /\ waiting = "owner" => Rank(waiting) = 0
        /\ waiting = "claim key" => Rank(waiting) = 1
        /\ waiting = "session" => Rank(waiting) = 2
        /\ waiting \in {"active", "source", "sessions"} => Rank(waiting) = 3
        /\ waiting = "run" => Rank(waiting) = 4
        /\ waiting = "runs" => Rank(waiting) = 5
        /\ waiting = "roster" => Rank(waiting) = 6
    BY <2>1
  <2>3. /\ holding \in {"active", "source", "sessions"} => Rank(holding) = 3
        /\ holding = "run" => Rank(holding) = 4
        /\ holding = "runs" => Rank(holding) = 5
        /\ holding = "roster" => Rank(holding) = 6
        /\ holding = "rosters" => Rank(holding) = 7
    BY <2>1
  <2>4. PICK a, b : a = Rank(waiting) /\ b = Rank(holding)
    OBVIOUS
  <2>5. \/ a = 0 /\ b \in {3, 4, 5, 6, 7}
        \/ a = 1 /\ b = 4
        \/ a = 2 /\ b \in {3, 4, 5, 6, 7}
        \/ a = 3 /\ b \in {4, 6}
        \/ a = 4 /\ b \in {5, 6, 7}
        \/ a = 5 /\ b = 6
        \/ a = 6 /\ b = 7
    BY <1>7, <2>2, <2>3, <2>4
  <2>6. a < b
    BY <2>5
  <2> QED BY <2>4, <2>6
<1> QED BY <1>8 DEF waiting, holding, Step

\* Requests wait in a circle only if one of them reads for the executor.
THEOREM CirclesAlwaysPassAnObserver == Spec => []CirclesPassAnObserver
<1>1. LifecycleInv => CirclesPassAnObserver
  <2>1. SUFFICES ASSUME LifecycleInv, NEW p \in Requests, NEW C \in SUBSET Requests, p \in C,
                      \A q \in C : /\ \E r \in C : WaitsFor(q, r)
                                   /\ \E r \in C : WaitsFor(r, q)
               PROVE  \E q \in Requests : InCircle(q) /\ Kind(q) = "observe"
    BY DEF CirclesPassAnObserver, InCircle
  <2>2. \A q \in C : Asks(q) # {}
    BY <2>1 DEF WaitsFor
  <2>3. \A q \in C : InCircle(q)
    BY <2>1, <2>2 DEF InCircle
  <2>4. SUFFICES ASSUME \A q \in C : Kind(q) # "observe" PROVE FALSE
    BY <2>1, <2>3
  <2> DEFINE Depth(q) == 7 - Rank(Step(q))
             S == {Depth(q) : q \in C}
  <2>5. \A q \in C : Rank(Step(q)) \in 0..7 /\ Depth(q) \in Nat
    <3>1. \A step : Rank(step) \in 0..7
      BY DEF Rank
    <3> QED BY <3>1
  <2>6. S \in SUBSET Nat /\ S # {}
    BY <2>1, <2>5
  <2>7. First(S) \in S /\ \A d \in S : First(S) <= d
    <3> HIDE DEF S
    <3> QED BY <2>6, Smallest
  <2>8. PICK q \in C : First(S) = Depth(q)
    BY <2>7
  <2>9. PICK r \in C : WaitsFor(q, r)
    BY <2>1
  <2>10. Rank(Step(q)) < Rank(Step(r))
    BY <2>1, <2>2, <2>4, <2>9, WaitsUpwards
  <2>11. Depth(r) \in S /\ Depth(r) < Depth(q)
    BY <2>5, <2>10
  <2> HIDE DEF S, Depth
  <2> QED BY <2>5, <2>7, <2>8, <2>11
<1> QED BY <1>1, LifecycleInvariant, PTL
=============================================================================
