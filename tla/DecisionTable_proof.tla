------------------------ MODULE DecisionTable_proof -------------------------
(***************************************************************************)
(* What is computed for an AI seat before it decides is true of the table  *)
(* and always defined, for every set of seats, every stack and every       *)
(* target: nobody who was told that he will not act again does, the spot   *)
(* fits the betting round, what a bet risks is what the settlement would   *)
(* not return, and no position that legal play leads to makes the analysis *)
(* fail.  The steps of DecisionTable are steps of PokerTable, so           *)
(* everything proved of the poker table holds here too.                    *)
(***************************************************************************)
EXTENDS DecisionTable, PokerTable_proof

-----------------------------------------------------------------------------
(* The table goes on as PokerTable says.                                   *)

LEMMA DecisionsArePlay == DecisionInit => Init
BY DEF DecisionInit

LEMMA DecisionIsStep == [DecisionNext]_decisionVars => [Next]_vars
<1>1. DecisionNext => Next
  <2>1. DecideAndAct => Play
    BY DEF DecideAndAct, Play
  <2> QED BY <2>1 DEF DecisionNext, Next
<1> QED BY <1>1 DEF decisionVars, vars

\* Every behaviour of the table with its analyses is one of the table alone.
THEOREM DecisionsPlayTheTable == DecisionSpec => Spec
BY DecisionsArePlay, DecisionIsStep, PTL DEF DecisionSpec, Spec

LEMMA DecisionsKeepTable ==
  /\ DecisionInit => TableInv /\ PlayInv
  /\ TableInv /\ PlayInv /\ [DecisionNext]_decisionVars => (TableInv /\ PlayInv)'
BY DecisionsArePlay, DecisionIsStep, TableInit, PlayInit, TableStep, PlayStep

-----------------------------------------------------------------------------
(* Who was told that he will not act again.                                *)

\* A seat can raise: by a bet or raise of its own, or by an all-in.
Rises(t, s) ==
  LET me == t.seats[s]
      all == me.streetContribution + me.stack
      free == me.betLevel = NotActed \/ t.currentBet - me.betLevel >= t.minInc
  IN  \/ MinTarget(t) <= all - 1 /\ (t.currentBet = 0 \/ free)
      \/ all > t.currentBet /\ free

\* What is offered to the seat whose turn it is, action by action.
LEMMA OfferToTheLast ==
  ASSUME NEW t, Lone(t), NEW legal
  PROVE  LET me == t.seats[t.actor]
             call == AmountToCall(t)
         IN  legal \in LegalActions(t) <=>
                \/ legal = [type |-> "fold", min |-> 0, max |-> 0]
                \/ me.stack > call /\ legal = [type |-> "call", min |-> call, max |-> call]
                \/ /\ ~(me.stack > call)
                   /\ legal = [type |-> "allIn", min |-> AllInTarget(t), max |-> AllInTarget(t)]
BY DEF LegalActions, ActionsFacing, Lone

LEMMA OfferAmongMany ==
  ASSUME NEW t, ~Lone(t), NEW legal
  PROVE  LET me == t.seats[t.actor]
             call == AmountToCall(t)
         IN  legal \in LegalActions(t) <=>
                \/ legal = [type |-> "fold", min |-> 0, max |-> 0]
                \/ call = 0 /\ legal = [type |-> "check", min |-> 0, max |-> 0]
                \/ /\ call # 0 /\ call < me.stack
                   /\ legal = [type |-> "call", min |-> call, max |-> call]
                \/ /\ MinTarget(t) <= AllInTarget(t) - 1
                   /\ t.currentBet = 0 \/ RaiseReopened(t)
                   /\ legal = [type |-> BetType(t), min |-> MinTarget(t), max |-> AllInTarget(t) - 1]
                \/ /\ me.stack <= call \/ RaiseReopened(t)
                   /\ legal = [type |-> "allIn", min |-> AllInTarget(t), max |-> AllInTarget(t)]
<1> DEFINE me == t.seats[t.actor]
           call == AmountToCall(t)
<1>1. legal \in LegalActions(t) <=> legal \in ActionsFacing(t, call)
  BY DEF LegalActions
<1> HIDE DEF call
<1> QED BY <1>1 DEF ActionsFacing, Lone, call

\* What the offer to a seat says of its raises (betting-projection.ts).
LEMMA RaiseOfSeat ==
  ASSUME NEW t \in TableRecords, NEW s \in Actionable(t), Cardinality(Contenders(t)) >= 2,
         \A o \in Seats : SeatSound(t, t.seats[o])
  PROVE  CanRaiseFromSeat(t, s) <=> ~Lone(t) /\ Rises(t, s)
<1> DEFINE there == [t EXCEPT !.actor = s]
           me == t.seats[s]
           call == AmountToCall(there)
<1>1. /\ s \in Seats /\ me \in SeatRecords /\ CanAct(me)
      /\ t.currentBet \in Nat /\ t.minInc \in Nat
  BY DEF Actionable, TableRecords
<1>2. /\ me.stack \in Nat /\ me.stack > 0 /\ me.streetContribution \in Nat
      /\ me.betLevel \in Nat \cup {NotActed} /\ me.streetContribution <= t.currentBet
  BY <1>1 DEF SeatRecords, CanAct, SeatSound
<1>3. /\ there.seats = t.seats /\ there.actor = s /\ there.currentBet = t.currentBet
      /\ there.minInc = t.minInc /\ there.street = t.street
  BY DEF TableRecords
<1>4. Actionable(there) = Actionable(t) /\ Contenders(there) = Contenders(t)
  BY <1>3 DEF Actionable, Contenders
<1> HIDE DEF there
<1>5. CASE Lone(t)
  <2>1. Cardinality(Actionable(there)) = 1
    BY <1>4, <1>5 DEF Lone
  <2>2. me.streetContribution + call <= t.currentBet /\ call \in Int
    <3> DEFINE M == {t.seats[o].streetContribution : o \in Contenders(t) \ {s}}
    <3>1. /\ M \in SUBSET Nat /\ \A k \in M : k <= t.currentBet
      BY DEF TableRecords, SeatRecords, Contenders, SeatSound
    <3>2. M # {}
      <4>1. Contenders(t) \in SUBSET Seats /\ IsFiniteSet(Contenders(t))
        BY SeatsFinite DEF Contenders
      <4>2. Contenders(t) # {s}
        BY FS_Singleton
      <4>3. Contenders(t) # {}
        BY FS_EmptySet
      <4> QED BY <4>2, <4>3
    <3>3. Max(M) \in M
      <4> HIDE DEF M
      <4> QED BY <1>1, <3>1, <3>2, Highest
    <3>4. Max(M) \in Nat /\ Max(M) <= t.currentBet
      <4> HIDE DEF M
      <4> QED BY <3>1, <3>3
    <3>5. call = IF Max(M) > me.streetContribution THEN Max(M) - me.streetContribution ELSE 0
      BY <1>3, <1>4, <2>1 DEF AmountToCall
    <3> HIDE DEF M, call
    <3> QED BY <1>1, <1>2, <3>4, <3>5
  <2>3. \A legal \in LegalActions(there) :
           \/ legal.type \in {"fold", "call"}
           \/ legal.type = "allIn" /\ legal.min = AllInTarget(there) /\ me.stack <= call
    <3>1. Lone(there) /\ there.seats[there.actor] = me
      BY <1>3, <2>1 DEF Lone
    <3> SUFFICES ASSUME NEW legal \in LegalActions(there)
                 PROVE  \/ legal.type \in {"fold", "call"}
                        \/ legal.type = "allIn" /\ legal.min = AllInTarget(there) /\ ~(me.stack > call)
      <4>1. me.stack \in Int /\ call \in Int
        BY <1>2, <2>2
      <4> HIDE DEF me, call
      <4> QED BY <4>1
    <3>2. \/ legal = [type |-> "fold", min |-> 0, max |-> 0]
          \/ me.stack > call /\ legal = [type |-> "call", min |-> call, max |-> call]
          \/ /\ ~(me.stack > call)
             /\ legal = [type |-> "allIn", min |-> AllInTarget(there), max |-> AllInTarget(there)]
      BY <3>1, OfferToTheLast
    <3> HIDE DEF me, call
    <3> QED BY <3>2
  <2>4. AllInTarget(there) = me.streetContribution + me.stack
    BY <1>3 DEF AllInTarget
  <2>5. ~CanRaiseFromSeat(t, s)
    <3> HIDE DEF call, me
    <3> QED BY <1>1, <1>2, <2>2, <2>3, <2>4 DEF CanRaiseFromSeat, there
  <2> QED BY <1>5, <2>5
<1>6. CASE ~Lone(t)
  <2>1. Cardinality(Actionable(there)) # 1
    BY <1>4, <1>6 DEF Lone
  <2>2. BettingOpen(there)
    BY <1>4, <2>1 DEF BettingOpen
  <2>3. call = t.currentBet - me.streetContribution
    BY <1>3, <2>1 DEF AmountToCall
  <2>4. /\ AllInTarget(there) = me.streetContribution + me.stack
        /\ MinTarget(there) = MinTarget(t) /\ MinTarget(t) \in Nat
        /\ RaiseReopened(there) <=> (me.betLevel = NotActed \/ t.currentBet - me.betLevel >= t.minInc)
        /\ BetType(there) \in {"bet", "raise"}
    BY <1>1, <1>3 DEF AllInTarget, MinTarget, RaiseReopened, BetType
  <2>5. (\E legal \in LegalActions(there) : legal.type \in {"bet", "raise"})
          <=> /\ MinTarget(t) <= AllInTarget(there) - 1
              /\ t.currentBet = 0 \/ RaiseReopened(there)
    <3>1. ~Lone(there)
      BY <2>1 DEF Lone
    <3> DEFINE raise == [type |-> BetType(there), min |-> MinTarget(there), max |-> AllInTarget(there) - 1]
    <3>2. raise \in LegalActions(there)
            <=> /\ MinTarget(t) <= AllInTarget(there) - 1
                /\ t.currentBet = 0 \/ RaiseReopened(there)
      BY <1>3, <2>4, <3>1, OfferAmongMany
    <3>3. \A legal \in LegalActions(there) : legal.type \in {"bet", "raise"} => legal = raise
      <4> SUFFICES ASSUME NEW legal \in LegalActions(there), legal.type \in {"bet", "raise"}
                   PROVE  legal = raise
        OBVIOUS
      <4>1. \/ legal.type \in {"fold", "check", "call", "allIn"}
            \/ legal = raise
        BY <3>1, OfferAmongMany
      <4> QED BY <4>1
    <3>4. raise.type \in {"bet", "raise"}
      BY <2>4
    <3> HIDE DEF raise
    <3> QED BY <3>2, <3>3, <3>4
  <2>6. (\E legal \in LegalActions(there) : legal.type = "allIn" /\ legal.min > t.currentBet)
          <=> AllInTarget(there) > t.currentBet /\ (me.stack <= call \/ RaiseReopened(there))
    <3>1. ~Lone(there) /\ there.seats[there.actor] = me
      BY <1>3, <2>1 DEF Lone
    <3> DEFINE push == [type |-> "allIn", min |-> AllInTarget(there), max |-> AllInTarget(there)]
    <3>2. push \in LegalActions(there) <=> me.stack <= call \/ RaiseReopened(there)
      BY <2>4, <3>1, OfferAmongMany
    <3>3. \A legal \in LegalActions(there) : legal.type = "allIn" => legal = push
      <4> SUFFICES ASSUME NEW legal \in LegalActions(there), legal.type = "allIn"
                   PROVE  legal = push
        OBVIOUS
      <4>1. \/ legal.type \in {"fold", "check", "call"} \cup {BetType(there)}
            \/ legal = push
        BY <3>1, OfferAmongMany
      <4> QED BY <2>4, <4>1
    <3>4. push.type = "allIn" /\ push.min = AllInTarget(there)
      OBVIOUS
    <3> HIDE DEF push
    <3> QED BY <3>2, <3>3, <3>4
  <2>7. CanRaiseFromSeat(t, s)
          <=> \/ \E legal \in LegalActions(there) : legal.type \in {"bet", "raise"}
              \/ \E legal \in LegalActions(there) : legal.type = "allIn" /\ legal.min > t.currentBet
    BY <2>2 DEF CanRaiseFromSeat, there
  <2>8. AllInTarget(there) > t.currentBet => ~(me.stack <= call)
    <3> HIDE DEF call, me
    <3> QED BY <1>1, <1>2, <2>3, <2>4
  <2> HIDE DEF call
  <2> QED BY <1>6, <2>4, <2>5, <2>6, <2>7, <2>8 DEF Rises
<1> QED BY <1>5, <1>6

\* Once no seat that owes an action can raise, none comes to that by acting:
\* the bet stays, and with it what each of the others may do.
LEMMA NobodyRises ==
  ASSUME NEW t \in TableRecords, NEW u \in TableRecords, NEW s \in Seats,
         u.currentBet = t.currentBet, u.minInc = t.minInc, u.seats[s] = t.seats[s]
  PROVE  /\ Rises(u, s) <=> Rises(t, s)
         /\ StillOwesAction(u, s) <=> StillOwesAction(t, s)
BY DEF Rises, MinTarget, StillOwesAction

\* An action that is no raise of the bet leaves bet and increment as they are.
LEMMA NoRaiseNoChange ==
  ASSUME NEW t \in TableRecords, t.street \in ActionStreets, InPlay(t), BettingOpen(t), NEW action,
         ActionAccepted(t, t.actor, action), ~CanRaiseFromSeat(t, t.actor)
  PROVE  LET u == BettingTransition(t, action)
         IN  u.currentBet = t.currentBet /\ u.minInc = t.minInc
<1> DEFINE me == t.seats[t.actor]
           paid == Delta(t, action)
           level == me.streetContribution + paid
           u == BettingTransition(t, action)
<1>1. /\ t.actor \in Seats /\ me \in SeatRecords /\ t.currentBet \in Nat /\ t.minInc \in Nat
      /\ t.minInc >= 20 /\ paid \in Nat /\ me.streetContribution \in Nat
  BY ActorFacts, ActionShape DEF SeatRecords
<1>2. [t EXCEPT !.actor = t.actor] = t
  BY DEF TableRecords
<1>3. \A legal \in LegalActions(t) :
         /\ legal.type \notin {"bet", "raise"}
         /\ legal.type = "allIn" => ~(legal.min > t.currentBet)
  BY <1>2 DEF CanRaiseFromSeat
<1>4. PICK legal \in LegalActions(t) : legal.type = action.type
  BY DEF ActionAccepted
<1>5. action.type \notin {"bet", "raise"}
  BY <1>3, <1>4
<1>6. ~(level > t.currentBet)
  <2>1. CASE action.type = "allIn"
    <3>1. legal.min = AllInTarget(t)
      <4>1. Lone(t) => legal.min = AllInTarget(t)
        BY <1>4, <2>1, OfferToTheLast
      <4>2. ~Lone(t) => legal.min = AllInTarget(t)
        <5>1. BetType(t) # "allIn"
          BY DEF BetType
        <5> QED BY <1>4, <2>1, <5>1, OfferAmongMany
      <4> QED BY <4>1, <4>2
    <3>2. level = AllInTarget(t)
      BY <2>1, ActionShape DEF AllInTarget
    <3> QED BY <1>3, <1>4, <2>1, <3>1, <3>2
  <2>2. CASE action.type # "allIn"
    <3>1. \/ action.type = "fold" /\ paid = 0
          \/ level <= t.currentBet
      BY <1>1, <1>5, <2>2, ActionShape, ActorFacts
    <3>2. me.streetContribution <= t.currentBet
      BY ActorFacts
    <3> QED BY <1>1, <3>1, <3>2
  <2> QED BY <2>1, <2>2
<1>7. BetAfter(t, action) = t.currentBet
  BY <1>6 DEF BetAfter
<1>8. ~IsFullRaise(t, action)
  BY <1>1, <1>7 DEF IsFullRaise
<1> QED BY <1>7, <1>8, ActionTaken

\* Who was told so has nothing to answer, and nobody who has can raise.
PromiseKept(t, told) ==
  /\ told \in SUBSET Seats
  /\ t.street \in ActionStreets =>
        \A p \in told : CanAct(t.seats[p]) => ~StillOwesAction(t, p) /\ CanRaiseSeats(t) = {}

PromiseInv == PromiseKept(table, promised)

\* What an action leaves while the street goes on.
LEMMA SameStreetLeaves ==
  ASSUME NEW t \in TableRecords, t.street \in ActionStreets, InPlay(t), Stakes(t), NEW action,
         ActionAccepted(t, t.actor, action), Progress(t, action).street = t.street
  PROVE  LET u == BettingTransition(t, action)
             v == Progress(t, action)
         IN  /\ u \in TableRecords /\ v \in TableRecords /\ InPlay(v) /\ Stakes(v)
             /\ v.seats = u.seats /\ v.currentBet = u.currentBet /\ v.minInc = u.minInc
             /\ v.seats[t.actor].betLevel = v.currentBet
             /\ \A s \in Seats \ {t.actor} : v.seats[s] = t.seats[s]
             /\ ~StillOwesAction(v, t.actor)
<1> DEFINE u == BettingTransition(t, action)
           v == Progress(t, action)
<1>1. BettingOpen(t) /\ t.actor \in Seats
  BY DEF Stakes, InPlay
<1>2. v.street \notin EndStreets /\ ~(BoardOf(v.street) > BoardOf(t.street))
  BY DEF ActionStreets, EndStreets, BoardOf
<1>3. /\ v \in TableRecords /\ InPlay(v) /\ v.seats = u.seats
      /\ v.currentBet = u.currentBet /\ v.minInc = u.minInc
  <2> HIDE DEF u, v
  <2>1. \/ /\ v.street = t.street /\ InPlay(v)
           /\ v.seats = BettingTransition(t, action).seats
           /\ v.currentBet = BettingTransition(t, action).currentBet
           /\ v.minInc = BettingTransition(t, action).minInc
        \/ BoardOf(v.street) > BoardOf(t.street)
        \/ v.street \in EndStreets
    BY <1>1, HandProgress DEF v
  <2>2. v \in TableRecords
    BY <1>1, HandProgress DEF v
  <2> QED BY <1>2, <2>1, <2>2 DEF u
<1>4. Stakes(v)
  BY <1>2, PlayIsSound
<1>5. /\ u \in TableRecords /\ u.seats[t.actor].betLevel = u.currentBet
      /\ \A s \in Seats \ {t.actor} : u.seats[s] = t.seats[s]
  BY <1>1, ActionTaken
<1>6. ~StillOwesAction(v, t.actor)
  <2> HIDE DEF u, v
  <2>1. KeepsUp(v.seats[t.actor]) /\ v.seats[t.actor].betLevel = v.currentBet
    BY <1>1, <1>3, <1>5 DEF InPlay
  <2>2. v.currentBet \in Nat
    BY <1>3 DEF TableRecords
  <2>3. v.currentBet # NotActed /\ ~(v.currentBet < v.currentBet)
    BY <2>2 DEF NotActed
  <2> QED BY <2>1, <2>3 DEF KeepsUp, StillOwesAction
<1> QED BY <1>3, <1>4, <1>5, <1>6

LEMMA PromiseGoesOn ==
  ASSUME NEW t \in TableRecords, t.street \in ActionStreets, InPlay(t), Stakes(t), NEW action,
         ActionAccepted(t, t.actor, action), Progress(t, action).street = t.street,
         NEW told, PromiseKept(t, told)
  PROVE  PromiseKept(Progress(t, action),
                     IF CanFaceFurtherAction(t, action) THEN told ELSE told \cup {t.actor})
<1> DEFINE u == BettingTransition(t, action)
           v == Progress(t, action)
<1>1. /\ u \in TableRecords /\ v \in TableRecords /\ InPlay(v) /\ Stakes(v)
      /\ v.seats = u.seats /\ v.currentBet = u.currentBet /\ v.minInc = u.minInc
      /\ \A s \in Seats \ {t.actor} : v.seats[s] = t.seats[s]
      /\ ~StillOwesAction(v, t.actor)
  BY SameStreetLeaves
<1>2. BettingOpen(t) /\ t.actor \in Seats /\ t.actor \in Owing(t) /\ t.actor \in Actionable(t)
  BY DEF Stakes, InPlay, Owing, Actionable, StillOwesAction
<1> HIDE DEF u, v
<1>3. /\ Cardinality(Contenders(v)) >= 2 /\ Cardinality(Contenders(t)) >= 2
      /\ \A s \in Seats : SeatSound(v, v.seats[s]) /\ SeatSound(t, t.seats[s])
  BY <1>1, <1>2 DEF Stakes, BettingOpen, InPlay
<1>4. CanRaiseSeats(u) = CanRaiseSeats(v)
  <2>1. Actionable(u) = Actionable(v) /\ Contenders(u) = Contenders(v) /\ Owing(u) = Owing(v)
    BY <1>1 DEF Actionable, Contenders, Owing, StillOwesAction
  <2>2. \A s \in Seats : SeatSound(u, u.seats[s])
    BY <1>1, <1>3 DEF SeatSound
  <2>3. ASSUME NEW s \in Owing(v)
        PROVE  CanRaiseFromSeat(u, s) <=> CanRaiseFromSeat(v, s)
    <3>1. s \in Actionable(v) /\ s \in Seats
      BY <2>3 DEF Owing, Actionable, StillOwesAction
    <3>2. CanRaiseFromSeat(u, s) <=> ~Lone(u) /\ Rises(u, s)
      BY <1>1, <1>3, <2>1, <2>2, <3>1, RaiseOfSeat
    <3>3. CanRaiseFromSeat(v, s) <=> ~Lone(v) /\ Rises(v, s)
      BY <1>1, <1>3, <3>1, RaiseOfSeat
    <3>4. Rises(u, s) <=> Rises(v, s)
      BY <1>1, <3>1, NobodyRises
    <3>5. Lone(u) <=> Lone(v)
      BY <2>1 DEF Lone
    <3> QED BY <3>2, <3>3, <3>4, <3>5
  <2> QED BY <2>1, <2>3 DEF CanRaiseSeats, Responders
<1>5. ASSUME NEW p \in told, CanAct(v.seats[p])
      PROVE  ~StillOwesAction(v, p) /\ CanRaiseSeats(v) = {}
  <2>1. p \in Seats /\ (CanAct(t.seats[p]) => ~StillOwesAction(t, p) /\ CanRaiseSeats(t) = {})
    BY <1>5 DEF PromiseKept
  <2>2. p # t.actor
    BY <1>2, <2>1 DEF Owing, StillOwesAction
  <2>3. ~StillOwesAction(t, p) /\ CanRaiseSeats(t) = {}
    BY <1>1, <1>5, <2>1, <2>2
  <2>4. ~CanRaiseFromSeat(t, t.actor)
    BY <1>2, <2>3 DEF CanRaiseSeats, Responders
  <2>5. v.currentBet = t.currentBet /\ v.minInc = t.minInc
    BY <1>1, <1>2, <2>4, NoRaiseNoChange DEF u
  <2>6. ~StillOwesAction(v, p)
    BY <1>1, <2>1, <2>2, <2>3, <2>5, NobodyRises
  <2>7. ASSUME NEW s \in Owing(v), CanRaiseFromSeat(v, s)
        PROVE  FALSE
    <3>1. s \in Seats /\ StillOwesAction(v, s) /\ s # t.actor /\ s \in Actionable(v)
      BY <1>1, <2>7 DEF Owing, Actionable, StillOwesAction
    <3>2. Rises(v, s)
      BY <1>1, <1>3, <2>7, <3>1, RaiseOfSeat
    <3>3. Rises(t, s) /\ StillOwesAction(t, s)
      BY <1>1, <2>5, <3>1, <3>2, NobodyRises
    <3>4. s \in Actionable(t) /\ s \in Owing(t)
      BY <3>1, <3>3 DEF Owing, Actionable, StillOwesAction
    <3>5. ~Lone(t)
      <4>1. Actionable(t) \in SUBSET Seats /\ IsFiniteSet(Actionable(t))
        BY SeatsFinite DEF Actionable
      <4>2. ASSUME Cardinality(Actionable(t)) = 1 PROVE FALSE
        <5>1. PICK x : Actionable(t) = {x}
          BY <4>1, <4>2, FS_Singleton
        <5> QED BY <1>2, <3>1, <3>4, <5>1
      <4> QED BY <4>2 DEF Lone
    <3>6. CanRaiseFromSeat(t, s)
      BY <1>3, <3>3, <3>4, <3>5, RaiseOfSeat
    <3> QED BY <2>3, <3>4, <3>6 DEF CanRaiseSeats, Responders
  <2> QED BY <2>6, <2>7 DEF CanRaiseSeats, Responders
<1>6. ASSUME ~CanFaceFurtherAction(t, action), CanAct(v.seats[t.actor])
      PROVE  ~StillOwesAction(v, t.actor) /\ CanRaiseSeats(v) = {}
  <2>1. CanRaiseSeats(u) = {}
    BY <1>1, <1>6 DEF CanFaceFurtherAction, u
  <2> QED BY <1>1, <1>4, <2>1
<1>7. told \in SUBSET Seats
  BY DEF PromiseKept
<1> QED BY <1>2, <1>5, <1>6, <1>7 DEF PromiseKept, v

\* What a decision leaves: the next table of the hand, or the hand is over.
LEMMA DecisionLeaves ==
  ASSUME TableInv, PlayInv, NEW action, action \in ActionsOf(table), table.street \in ActionStreets,
         Act(action)
  PROVE  /\ table \in TableRecords /\ InPlay(table) /\ Stakes(table) /\ BettingOpen(table)
         /\ ActionAccepted(table, table.actor, action)
         /\ \/ table'.street = "betweenHands"
            \/ table' = Progress(table, action) /\ Progress(table, action).street \notin EndStreets
<1>1. /\ table \in TableRecords /\ InPlay(table) /\ Stakes(table) /\ BettingOpen(table)
      /\ ActionAccepted(table, table.actor, action)
  BY DEF TableInv, PlayInv, SoundPlay, Act
<1>2. CASE Progress(table, action).street \in EndStreets
  <2>1. PICK strength \in [Contenders(Progress(table, action)) -> 1 .. HandClasses] :
           table' = Settled(Progress(table, action), strength)
    BY <1>2, ActSettles
  <2>2. Progress(table, action) \in TableRecords
    BY <1>2, ActSettles
  <2>3. table'.street = "betweenHands"
    BY <2>1, <2>2 DEF Settled, Paid, TableRecords
  <2> QED BY <1>1, <2>3
<1>3. CASE Progress(table, action).street \notin EndStreets
  BY <1>1, <1>3, ActGoesOn
<1> QED BY <1>2, <1>3

LEMMA PromiseStep ==
  TableInv /\ PlayInv /\ PromiseInv /\ [DecisionNext]_decisionVars => PromiseInv'
<1> SUFFICES ASSUME TableInv, PlayInv, PromiseInv, [DecisionNext]_decisionVars
             PROVE  PromiseKept(table', promised')
  BY DEF PromiseInv
<1>1. PromiseKept(table', {})
  BY DEF PromiseKept
<1>2. CASE StartHand /\ spot' = FreshSpot /\ promised' = {}
  BY <1>1, <1>2
<1>3. CASE DecideAndAct
  <2>1. PICK action \in ActionsOf(table) :
          /\ table.street \in ActionStreets
          /\ Act(action)
          /\ IF table'.street = "betweenHands" THEN promised' = {}
             ELSE promised' = IF table'.street # table.street THEN {}
                              ELSE IF CanFaceFurtherAction(table, action) THEN promised
                              ELSE promised \union {table.actor}
    BY <1>3 DEF DecideAndAct
  <2>2. CASE table'.street = "betweenHands" \/ table'.street # table.street
    BY <1>1, <2>1, <2>2
  <2>3. CASE table'.street # "betweenHands" /\ table'.street = table.street
    <3>1. /\ table \in TableRecords /\ InPlay(table) /\ Stakes(table)
          /\ ActionAccepted(table, table.actor, action)
          /\ table' = Progress(table, action)
      BY <2>1, <2>3, DecisionLeaves
    <3>2. PromiseKept(table, promised)
      BY DEF PromiseInv
    <3>3. PromiseKept(Progress(table, action),
                      IF CanFaceFurtherAction(table, action) THEN promised
                      ELSE promised \cup {table.actor})
      BY <2>1, <2>3, <3>1, <3>2, PromiseGoesOn
    <3> QED BY <2>1, <2>3, <3>1, <3>3
  <2> QED BY <2>2, <2>3
<1>4. CASE Rebuy /\ UNCHANGED <<spot, promised>>
  <2>1. table'.street = "betweenHands"
    BY <1>4 DEF Rebuy, TableInv, TableRecords
  <2>2. table'.street \notin ActionStreets
    BY <2>1 DEF ActionStreets
  <2> QED BY <1>4, <2>2 DEF PromiseInv, PromiseKept
<1>5. CASE UNCHANGED decisionVars
  BY <1>5 DEF decisionVars, PromiseInv, PromiseKept
<1> QED BY <1>2, <1>3, <1>4, <1>5 DEF DecisionNext

\* A seat that was told it cannot face further action on the street does not
\* come to act on it again, whatever the others do (candidate-outcomes.ts).
THEOREM PromisesAreTrue == DecisionSpec => []ToldTheTruth
<1>1. DecisionInit => PromiseInv
  BY DEF DecisionInit, Init, PromiseInv, PromiseKept, ActionStreets
<1>2. TableInv /\ PromiseInv => ToldTheTruth
  BY DEF TableInv, InPlay, StillOwesAction, PromiseInv, PromiseKept, ToldTheTruth, Deciding
<1> QED BY <1>1, <1>2, DecisionsKeepTable, PromiseStep, PTL DEF DecisionSpec

-----------------------------------------------------------------------------
(* The spot fits the betting round.                                        *)

SpotRecords ==
  [fullRaises : Nat, limpers : Nat, callers : Nat, shortAllIn : BOOLEAN, calledSince : BOOLEAN,
   squeezed : BOOLEAN, aggressor : Seats \cup {NoSeat}, target : Nat, increment : Nat]

\* While the last full raise is the bet, who made it is in the hand and has
\* nothing to answer; it is never more than the bet.
SpotKept(t, s) ==
  /\ s \in SpotRecords
  /\ t.street \in ActionStreets =>
       /\ t.street = "preflop" => (t.currentBet = BigBlind <=> ~s.shortAllIn /\ s.fullRaises = 0)
       /\ s.increment = t.minInc
       /\ s.target <= t.currentBet
       /\ s.aggressor # NoSeat /\ s.target = t.currentBet =>
             InHand(t.seats[s.aggressor]) /\ ~StillOwesAction(t, s.aggressor)

SpotInv == SpotKept(table, spot)

\* Whether an action is a full raise, as the spot counts it.
MakesFullRaise(t, action) == action.type \in {"bet", "raise", "allIn"} /\ IsFullRaise(t, action)

\* The fold of one action into the spot (decision-spot.ts).
LEMMA SpotMoves ==
  ASSUME NEW s \in SpotRecords, NEW t \in TableRecords, NEW action, NEW v,
         t.actor \in Seats, BetAfter(t, action) \in Nat,
         MakesFullRaise(t, action) => BetAfter(t, action) - t.currentBet \in Nat
  PROVE  LET new == SpotAfter(s, t, action, v)
             full == MakesFullRaise(t, action)
             preflop == t.street = "preflop"
         IN  /\ new \in SpotRecords
             /\ new.fullRaises = s.fullRaises + (IF preflop /\ full THEN 1 ELSE 0)
             /\ new.shortAllIn <=> \/ s.shortAllIn
                                   \/ /\ preflop /\ action.type = "allIn" /\ ~full
                                      /\ BetAfter(t, action) > t.currentBet
             /\ v.street = t.street =>
                  /\ new.aggressor = IF full THEN t.actor ELSE s.aggressor
                  /\ new.target = IF full THEN BetAfter(t, action) ELSE s.target
                  /\ new.increment = IF full THEN BetAfter(t, action) - t.currentBet ELSE s.increment
             /\ v.street # t.street => /\ new.aggressor = NoSeat /\ new.target = 0
                                       /\ new.increment = 20
<1> DEFINE preflop == t.street = "preflop"
           full == MakesFullRaise(t, action)
           limp == action.type = "call" /\ s.fullRaises = 0 /\ t.currentBet = BigBlind
           short == preflop /\ action.type = "allIn" /\ ~full /\ BetAfter(t, action) > t.currentBet
           a == s.fullRaises + (IF preflop /\ full THEN 1 ELSE 0)
           b == s.limpers + (IF preflop /\ limp THEN 1 ELSE 0)
           c == s.callers + (IF preflop /\ action.type = "call" /\ ~limp THEN 1 ELSE 0)
           d == s.shortAllIn \/ short
           e == s.calledSince \/ (preflop /\ action.type = "call" /\ s.fullRaises = 1)
           f == s.squeezed \/ (preflop /\ full /\ s.fullRaises = 1 /\ s.calledSince)
           g == IF full THEN t.actor ELSE s.aggressor
           h == IF full THEN BetAfter(t, action) ELSE s.target
           i == IF full THEN BetAfter(t, action) - t.currentBet ELSE s.increment
           moved == [s EXCEPT !.fullRaises = a, !.limpers = b, !.callers = c, !.shortAllIn = d,
                              !.calledSince = e, !.squeezed = f, !.aggressor = g, !.target = h,
                              !.increment = i]
           next == [moved EXCEPT !.aggressor = NoSeat, !.target = 0, !.increment = 20]
<1>1. SpotAfter(s, t, action, v) = IF v.street = t.street THEN moved ELSE next
  BY DEF SpotAfter, MakesFullRaise, SpotRecords
<1>2. /\ a \in Nat /\ b \in Nat /\ c \in Nat /\ d \in BOOLEAN /\ e \in BOOLEAN /\ f \in BOOLEAN
      /\ g \in Seats \cup {NoSeat} /\ h \in Nat /\ i \in Nat
  <2> HIDE DEF full, short, limp
  <2> QED BY DEF SpotRecords, full
<1>3. d <=> s.shortAllIn \/ short
  OBVIOUS
<1> HIDE DEF a, b, c, d, e, f, g, h, i
<1>4. /\ moved \in SpotRecords
      /\ moved.fullRaises = a /\ moved.shortAllIn = d
      /\ moved.aggressor = g /\ moved.target = h /\ moved.increment = i
  <2> DEFINE m1 == [s EXCEPT !.fullRaises = a, !.limpers = b, !.callers = c]
             m2 == [m1 EXCEPT !.shortAllIn = d, !.calledSince = e, !.squeezed = f]
  <2>1. moved = [m2 EXCEPT !.aggressor = g, !.target = h, !.increment = i]
    BY DEF moved, SpotRecords
  <2>2. m1 \in SpotRecords /\ m1.fullRaises = a
    BY <1>2 DEF SpotRecords
  <2> HIDE DEF m1
  <2>3. m2 \in SpotRecords /\ m2.fullRaises = a /\ m2.shortAllIn = d
    BY <1>2, <2>2 DEF SpotRecords
  <2> HIDE DEF m2, moved
  <2> QED BY <1>2, <2>1, <2>3 DEF SpotRecords
<1> HIDE DEF moved
<1>8. /\ next \in SpotRecords
      /\ next.fullRaises = a /\ next.shortAllIn = d
      /\ next.aggressor = NoSeat /\ next.target = 0 /\ next.increment = 20
  BY <1>4 DEF SpotRecords
<1> HIDE DEF next
<1>5. a = s.fullRaises + (IF preflop /\ full THEN 1 ELSE 0)
  BY DEF a
<1>6. g = (IF full THEN t.actor ELSE s.aggressor) /\ h = IF full THEN BetAfter(t, action) ELSE s.target
  BY DEF g, h
<1>7. i = IF full THEN BetAfter(t, action) - t.currentBet ELSE s.increment
  BY DEF i
<1> QED BY <1>1, <1>3, <1>4, <1>5, <1>6, <1>7, <1>8

\* What an action does to the bet, told by its kind.
LEMMA BetRises ==
  ASSUME NEW t \in TableRecords, t.street \in ActionStreets, InPlay(t), BettingOpen(t), NEW action,
         ActionAccepted(t, t.actor, action)
  PROVE  LET bet == BetAfter(t, action)
             full == MakesFullRaise(t, action)
         IN  /\ bet \in Nat /\ bet >= t.currentBet /\ t.currentBet \in Nat
             /\ full <=> IsFullRaise(t, action)
             /\ full => bet > t.currentBet /\ action.type # "fold"
             /\ (t.street = "preflop" /\ bet > t.currentBet /\ ~full) => action.type = "allIn"
<1> DEFINE me == t.seats[t.actor]
           paid == Delta(t, action)
           level == me.streetContribution + paid
           bet == BetAfter(t, action)
<1>1. /\ paid \in Nat /\ me.streetContribution \in Nat /\ t.currentBet \in Nat /\ t.minInc \in Nat
      /\ me.streetContribution <= t.currentBet
  BY ActorFacts, ActionShape DEF SeatRecords
<1>2. \/ action.type = "fold" /\ paid = 0
      \/ action.type \in {"check", "call"} /\ level <= t.currentBet
      \/ action.type \in {"bet", "raise", "allIn"}
  BY <1>1, ActionShape
<1>3. bet = IF level > t.currentBet THEN level ELSE t.currentBet
  BY DEF BetAfter
<1> HIDE DEF paid
<1>4. bet \in Nat /\ bet >= t.currentBet
  BY <1>1, <1>3
<1>5. action.type \notin {"bet", "raise", "allIn"} => bet = t.currentBet
  BY <1>1, <1>2, <1>3
<1> HIDE DEF bet, level
<1>6. IsFullRaise(t, action) => bet > t.currentBet
  BY <1>1, <1>4 DEF IsFullRaise, bet
<1>7. MakesFullRaise(t, action) <=> IsFullRaise(t, action)
  BY <1>1, <1>5, <1>6 DEF MakesFullRaise
<1>8. (t.street = "preflop" /\ action.type \in {"bet", "raise"}) => IsFullRaise(t, action)
  BY FactsAreAccepted DEF FactsAccepted, FactsFit, ActionFacts
<1> QED BY <1>1, <1>4, <1>5, <1>6, <1>7, <1>8 DEF MakesFullRaise, bet

LEMMA SpotGoesOn ==
  ASSUME NEW t \in TableRecords, t.street \in ActionStreets, InPlay(t), Stakes(t), NEW action,
         ActionAccepted(t, t.actor, action), Progress(t, action).street \notin EndStreets,
         NEW s, SpotKept(t, s)
  PROVE  SpotKept(Progress(t, action), SpotAfter(s, t, action, Progress(t, action)))
<1> DEFINE u == BettingTransition(t, action)
           v == Progress(t, action)
           new == SpotAfter(s, t, action, v)
           full == MakesFullRaise(t, action)
           bet == BetAfter(t, action)
<1>1. /\ s \in SpotRecords
      /\ t.street = "preflop" => (t.currentBet = BigBlind <=> ~s.shortAllIn /\ s.fullRaises = 0)
      /\ s.increment = t.minInc /\ s.target <= t.currentBet
      /\ s.aggressor # NoSeat /\ s.target = t.currentBet =>
            InHand(t.seats[s.aggressor]) /\ ~StillOwesAction(t, s.aggressor)
  BY DEF SpotKept
<1>2. BettingOpen(t) /\ t.actor \in Seats /\ t.street \in Streets
  BY DEF Stakes, InPlay, TableRecords
<1>3. /\ bet \in Nat /\ bet >= t.currentBet /\ t.currentBet \in Nat /\ t.minInc \in Nat
      /\ full <=> IsFullRaise(t, action)
      /\ full => bet > t.currentBet /\ action.type # "fold"
      /\ (t.street = "preflop" /\ bet > t.currentBet /\ ~full) => action.type = "allIn"
  BY <1>2, BetRises DEF TableRecords
<1>4. u.currentBet = bet /\ u.minInc = IF full THEN bet - t.currentBet ELSE t.minInc
  BY <1>2, <1>3, ActionTaken
<1>5. /\ new \in SpotRecords
      /\ new.fullRaises = s.fullRaises + (IF t.street = "preflop" /\ full THEN 1 ELSE 0)
      /\ new.shortAllIn <=> \/ s.shortAllIn
                            \/ t.street = "preflop" /\ action.type = "allIn" /\ ~full /\ bet > t.currentBet
      /\ v.street = t.street =>
           /\ new.aggressor = IF full THEN t.actor ELSE s.aggressor
           /\ new.target = IF full THEN bet ELSE s.target
           /\ new.increment = IF full THEN bet - t.currentBet ELSE s.increment
      /\ v.street # t.street => new.aggressor = NoSeat /\ new.target = 0 /\ new.increment = 20
  <2>1. full => bet - t.currentBet \in Nat
    BY <1>3
  <2> HIDE DEF v
  <2> QED BY <1>1, <1>2, <1>3, <2>1, SpotMoves
<1>6. \/ v.street = t.street
      \/ /\ v.street # t.street /\ v.street # "preflop" /\ v.street \in ActionStreets
         /\ v.minInc = BigBlind /\ v.currentBet \in Nat
  <2>1. v \in TableRecords
    BY <1>2, HandProgress
  <2>2. \/ v.street = t.street
        \/ v.street \in ActionStreets /\ BoardOf(v.street) > BoardOf(t.street) /\ v.minInc = BigBlind
    BY <1>2, HandProgress
  <2> HIDE DEF v
  <2> QED BY <2>1, <2>2 DEF ActionStreets, BoardOf, TableRecords
<1>7. CASE v.street # t.street
  <2> HIDE DEF v, new
  <2> QED BY <1>5, <1>6, <1>7 DEF SpotKept, BigBlind, v, new
<1>8. CASE v.street = t.street
  <2>1. /\ v.seats = u.seats /\ v.currentBet = bet /\ v.minInc = u.minInc
        /\ \A o \in Seats \ {t.actor} : v.seats[o] = t.seats[o]
        /\ ~StillOwesAction(v, t.actor) /\ v.seats[t.actor].status = StatusAfter(action)
    <3>1. u.seats[t.actor].status = StatusAfter(action)
      BY <1>2, ActorAfter
    <3> QED BY <1>4, <1>8, <3>1, SameStreetLeaves
  <2> HIDE DEF u, v, new, bet, full
  <2>2. new.increment = v.minInc
    BY <1>1, <1>4, <1>5, <1>8, <2>1
  <2>3. new.target <= v.currentBet
    BY <1>1, <1>3, <1>5, <1>8, <2>1 DEF SpotRecords
  <2>4. v.street = "preflop" => (v.currentBet = BigBlind <=> ~new.shortAllIn /\ new.fullRaises = 0)
    <3>1. t.street = "preflop" => t.currentBet >= BigBlind
      BY DEF InPlay
    <3>2. s.fullRaises \in Nat /\ BigBlind \in Nat
      BY <1>1 DEF SpotRecords, BigBlind
    <3> QED BY <1>1, <1>3, <1>5, <1>8, <2>1, <3>1, <3>2
  <2>5. ASSUME new.aggressor # NoSeat, new.target = v.currentBet
        PROVE  InHand(v.seats[new.aggressor]) /\ ~StillOwesAction(v, new.aggressor)
    <3>1. CASE full
      <4>1. StatusAfter(action) \in {"active", "allIn"}
        BY <1>3, <3>1 DEF StatusAfter
      <4> QED BY <1>5, <1>8, <2>1, <3>1, <4>1 DEF InHand
    <3>2. CASE ~full
      <4>1. new.aggressor = s.aggressor /\ s.aggressor \in Seats /\ s.target = bet /\ s.target \in Nat
        BY <1>1, <1>5, <1>8, <2>1, <2>5, <3>2 DEF SpotRecords
      <4>2. s.target = t.currentBet /\ v.currentBet = t.currentBet
        BY <1>1, <1>3, <2>1, <4>1
      <4>3. InHand(t.seats[s.aggressor]) /\ ~StillOwesAction(t, s.aggressor)
        BY <1>1, <2>5, <4>1, <4>2
      <4>4. s.aggressor # t.actor
        BY <4>3 DEF InPlay
      <4>5. v.seats[s.aggressor] = t.seats[s.aggressor]
        BY <2>1, <4>1, <4>4
      <4> QED BY <4>1, <4>2, <4>3, <4>5 DEF StillOwesAction
    <3> QED BY <3>1, <3>2
  <2> QED BY <1>5, <2>2, <2>3, <2>4, <2>5 DEF SpotKept, v, new
<1> QED BY <1>7, <1>8

LEMMA SpotOpens ==
  ASSUME NEW t \in TableRecords, t.street = "preflop", t.currentBet = BigBlind, t.minInc = BigBlind
  PROVE  SpotKept(t, FreshSpot)
BY DEF SpotKept, FreshSpot, SpotRecords, BigBlind

LEMMA SpotStep ==
  TableInv /\ PlayInv /\ SpotInv /\ [DecisionNext]_decisionVars => SpotInv'
<1> SUFFICES ASSUME TableInv, PlayInv, SpotInv, [DecisionNext]_decisionVars
             PROVE  SpotKept(table', spot')
  BY DEF SpotInv
<1>1. FreshSpot \in SpotRecords
  BY DEF FreshSpot, SpotRecords, BigBlind
<1>2. CASE StartHand /\ spot' = FreshSpot /\ promised' = {}
  <2>1. TableInv' /\ table'.street = "preflop"
    BY <1>2, StartKeepsTable
  <2>2. table' \in TableRecords
    BY <2>1 DEF TableInv
  <2>3. table' = StartedHand(AutoRebought(table), handCount)
    BY <1>2 DEF StartHand
  <2>4. table'.currentBet = BigBlind /\ table'.minInc = BigBlind
    BY <2>3 DEF StartedHand
  <2> HIDE DEF TableInv
  <2> QED BY <1>2, <2>1, <2>2, <2>4, SpotOpens
<1>3. CASE DecideAndAct
  <2>1. PICK action \in ActionsOf(table) :
          /\ table.street \in ActionStreets
          /\ Act(action)
          /\ spot' = IF table'.street = "betweenHands" THEN FreshSpot
                     ELSE SpotAfter(spot, table, action, table')
    BY <1>3 DEF DecideAndAct
  <2>2. CASE table'.street = "betweenHands"
    <3>1. "betweenHands" \notin ActionStreets
      BY DEF ActionStreets
    <3> QED BY <1>1, <2>1, <2>2, <3>1 DEF SpotKept
  <2>3. CASE table'.street # "betweenHands"
    <3>1. /\ table \in TableRecords /\ InPlay(table) /\ Stakes(table)
          /\ ActionAccepted(table, table.actor, action)
          /\ table' = Progress(table, action) /\ Progress(table, action).street \notin EndStreets
      BY <2>1, <2>3, DecisionLeaves
    <3>2. SpotKept(table, spot)
      BY DEF SpotInv
    <3>3. SpotKept(Progress(table, action), SpotAfter(spot, table, action, Progress(table, action)))
      BY <2>1, <3>1, <3>2, SpotGoesOn
    <3> QED BY <2>1, <2>3, <3>1, <3>3
  <2> QED BY <2>2, <2>3
<1>4. CASE Rebuy /\ UNCHANGED <<spot, promised>>
  <2>1. table'.street = "betweenHands"
    BY <1>4 DEF Rebuy, TableInv, TableRecords
  <2>2. table'.street \notin ActionStreets
    BY <2>1 DEF ActionStreets
  <2> QED BY <1>4, <2>2 DEF SpotInv, SpotKept
<1>5. CASE UNCHANGED decisionVars
  BY <1>5 DEF decisionVars, SpotInv, SpotKept
<1> QED BY <1>2, <1>3, <1>4, <1>5 DEF DecisionNext

\* When the big blind has its option, nobody else has a turn left.
LEMMA OptionIsLast ==
  ASSUME NEW t \in TableRecords, InPlay(t), Stakes(t), BigBlindOption(t)
  PROVE  Owing(t) = {t.actor}
<1> DEFINE bb == BigBlindSeat(t.button)
<1>1. t.street = "preflop" /\ t.actor = bb /\ t.currentBet = BigBlind
  BY DEF BigBlindOption
<1>2. t.actor \in Owing(t) /\ bb \in Seats /\ t.button \in Seats
  BY <1>1 DEF InPlay, Owing, TableRecords
<1>3. ASSUME NEW s \in Owing(t), s # t.actor PROVE FALSE
  <2>1. s \in Actionable(t) /\ s \in Seats /\ CanAct(t.seats[s])
    BY <1>3 DEF Owing, Actionable, StillOwesAction
  <2>2. CASE ~Acted(t.seats[s])
    <3>1. s \in Waiting(t)
      BY <2>1, <2>2 DEF Waiting
    <3>2. Offset(bb, t.actor) <= Offset(bb, s)
      BY <1>1, <3>1 DEF Stakes, InOrder
    <3>3. Offset(bb, bb) = 8
      BY <1>2, BlindsComeLast
    <3>4. Offset(bb, s) # Offset(bb, bb) /\ Offset(bb, s) \in 0 .. 8
      BY <1>1, <1>2, <1>3, <2>1, PlacesDiffer
    <3> HIDE DEF bb
    <3> QED BY <1>1, <3>2, <3>3, <3>4
  <2>3. CASE Acted(t.seats[s])
    <3>1. t.seats[s].betLevel = t.seats[s].streetContribution
      BY <2>1, <2>3 DEF Acted, InPlay, KeepsUp
    <3>2. t.seats[s].betLevel >= Opening(t)
      BY <2>1, <2>3 DEF Stakes, StakesSound, LevelsSound
    <3>3. t.seats[s].streetContribution < t.currentBet
      BY <1>3, <2>1, <2>3 DEF Owing, StillOwesAction, Acted
    <3>4. t.seats[s].streetContribution \in Nat
      BY <2>1 DEF TableRecords, SeatRecords
    <3> QED BY <1>1, <3>1, <3>2, <3>3, <3>4 DEF Opening, BigBlind
  <2> QED BY <2>2, <2>3
<1> QED BY <1>2, <1>3

LEMMA SpotFits == TableInv /\ PlayInv /\ SpotInv /\ Deciding => SpotFitsTable
<1> SUFFICES ASSUME TableInv, PlayInv, SpotInv, Deciding
             PROVE  SpotFitsTable
  OBVIOUS
<1>1. table \in TableRecords /\ InPlay(table) /\ Stakes(table) /\ table.street \in ActionStreets
  BY DEF TableInv, PlayInv, SoundPlay, Deciding
<1>2. /\ spot \in SpotRecords
      /\ table.street = "preflop" => (table.currentBet = BigBlind <=> ~spot.shortAllIn /\ spot.fullRaises = 0)
      /\ spot.increment = table.minInc
      /\ spot.aggressor # NoSeat /\ spot.target = table.currentBet => InHand(table.seats[spot.aggressor])
  BY <1>1 DEF SpotInv, SpotKept
<1>3. PreflopNode(table, spot) \in {"unopened", "limped"}
        <=> table.street = "preflop" /\ ~spot.shortAllIn /\ spot.fullRaises = 0
  <2>1. CASE table.street # "preflop"
    BY <2>1 DEF PreflopNode
  <2>2. CASE table.street = "preflop" /\ spot.shortAllIn
    BY <2>2 DEF PreflopNode
  <2>3. CASE table.street = "preflop" /\ ~spot.shortAllIn /\ spot.fullRaises = 0
    BY <2>3 DEF PreflopNode
  <2>4. CASE table.street = "preflop" /\ ~spot.shortAllIn /\ spot.fullRaises # 0
    BY <2>4 DEF PreflopNode
  <2> QED BY <2>1, <2>2, <2>3, <2>4
<1>4. BigBlindOption(table) => Owing(table) = {table.actor}
  BY <1>1, OptionIsLast
<1> QED BY <1>2, <1>3, <1>4 DEF SpotFitsTable

-----------------------------------------------------------------------------
(* What a bet risks.                                                       *)

\* What a seat can win is the pot up to what it has put in itself
\* (contestable-pot.ts cuts the layers, the sum over the seats is the same).
LEMMA ContestableIs ==
  ASSUME NEW seats \in [Seats -> SeatRecords], NEW hero \in Seats, InHand(seats[hero])
  PROVE  /\ ContestablePot(seats, hero) = ChipSum(Capped(seats, Paying(seats, hero)))
         /\ ContestablePot(seats, hero) \in Nat
         /\ ContestablePot(seats, hero) >= Paying(seats, hero)
<1> DEFINE S == Levels(seats)
           c == Paying(seats, hero)
           low == UpTo(seats, c)
           a(l) == IF hero \in Layer(seats, l).eligible THEN Layer(seats, l).amount ELSE 0
           b == [l \in S |-> a(l)]
           K == CHOOSE k : k = [t \in SUBSET S |-> IF t = {} THEN 0
                   ELSE a(Chosen(t)) + k[t \ {Chosen(t)}]]
<1>1. IsFiniteSet(S)
  BY LevelsFinite
<1>2. \E k : SumsUp(k, b, S)
  <2> HIDE DEF b, S
  <2> QED BY <1>1, SumExists
<1>3. \A k : SumsUp(k, b, S) <=> k = [t \in SUBSET S |-> IF t = {} THEN 0
                   ELSE a(Chosen(t)) + k[t \ {Chosen(t)}]]
  <2> SUFFICES ASSUME NEW k
               PROVE  [t \in SUBSET S |-> IF t = {} THEN 0 ELSE b[Chosen(t)] + k[t \ {Chosen(t)}]]
                      = [t \in SUBSET S |-> IF t = {} THEN 0
                           ELSE a(Chosen(t)) + k[t \ {Chosen(t)}]]
    BY DEF SumsUp
  <2>1. \A t \in SUBSET S : t # {} => Chosen(t) \in S
    BY DEF Chosen
  <2> HIDE DEF a
  <2>2. \A t \in SUBSET S : t # {} => b[Chosen(t)] = a(Chosen(t))
    BY <2>1
  <2> HIDE DEF b, S
  <2> QED BY <2>2
<1>4. SumsUp(K, b, S)
  <2> HIDE DEF b, S, a
  <2> QED BY <1>2, <1>3
<1>5. ContestablePot(seats, hero) = K[S]
  BY DEF ContestablePot, MapThenSumSet, MapThenFoldSet, Chosen
<1> HIDE DEF K
<1>6. SumOver(b, S) = K[S]
  <2> HIDE DEF b, S
  <2> QED BY <1>1, <1>4, AnySum
<1>7. c \in Nat /\ (\A l \in S : l \in Nat) /\ low \in SUBSET S
  BY LevelsFinite DEF Paying, SeatRecords, UpTo
<1>8. \A l \in S : b[l] = IF l <= c THEN Amounts(seats)[l] ELSE 0
  <2> SUFFICES ASSUME NEW l \in S PROVE b[l] = IF l <= c THEN Amounts(seats)[l] ELSE 0
    OBVIOUS
  <2>1. hero \in Layer(seats, l).eligible <=> c >= l
    BY DEF Layer, Paying
  <2>2. Amounts(seats)[l] = Layer(seats, l).amount
    BY DEF Amounts
  <2> HIDE DEF c, S
  <2> QED BY <1>7, <2>1, <2>2
<1>9. \A l \in S : b[l] \in Int
  <2> SUFFICES ASSUME NEW l \in S PROVE b[l] \in Int
    OBVIOUS
  <2>1. Amounts(seats)[l] \in Nat
    BY LayerBounds DEF Amounts
  <2> HIDE DEF b, c, S
  <2> QED BY <1>8, <2>1
<1>10. \A l \in S \ low : b[l] = 0
  <2> HIDE DEF b, c
  <2> QED BY <1>8 DEF UpTo
<1>11. SumOver(b, S) = SumOver(b, low)
  <2> HIDE DEF b, S, low
  <2> QED BY <1>1, <1>7, <1>9, <1>10, SumOfPart
<1>12. \A l \in low : b[l] = Amounts(seats)[l]
  <2> HIDE DEF b, c
  <2> QED BY <1>8 DEF UpTo
<1>13. SumOver(b, low) = SumOver(Amounts(seats), low)
  <2>1. IsFiniteSet(low)
    <3> HIDE DEF low, S
    <3> QED BY <1>1, <1>7, FS_Subset
  <2> HIDE DEF b, low
  <2> QED BY <1>12, <2>1, SumOfSame
<1>14. SumOver(Amounts(seats), low) = ChipSum(Capped(seats, c))
  <2>1. c \in {0} \cup S
    BY DEF Paying, Levels
  <2> HIDE DEF c
  <2> QED BY <2>1, LayersUpTo
<1>15. ContestablePot(seats, hero) = ChipSum(Capped(seats, c))
  <2> HIDE DEF b, S, low, c
  <2> QED BY <1>5, <1>6, <1>11, <1>13, <1>14
<1>16. ChipSum(Capped(seats, c)) \in Nat /\ c <= ChipSum(Capped(seats, c))
  <2>1. Capped(seats, c) \in [Seats -> Nat]
    <3>1. \A s \in Seats : Paying(seats, s) \in Nat
      BY DEF Paying, SeatRecords
    <3> QED BY <1>7, <3>1 DEF Capped
  <2>2. Capped(seats, c)[hero] = c
    BY <1>7 DEF Capped
  <2> HIDE DEF c
  <2> QED BY <2>1, <2>2, ChipsNat
<1> HIDE DEF c
<1> QED BY <1>7, <1>15, <1>16 DEF c

\* The highest of the others, if there is any.
LEMMA MostOfOthers ==
  ASSUME NEW f \in [Seats -> Nat], NEW hero \in Seats
  PROVE  LET most == Max({0} \cup {f[s] : s \in Seats \ {hero}})
         IN  /\ most \in Nat
             /\ \A s \in Seats \ {hero} : f[s] <= most
             /\ most = 0 \/ \E s \in Seats \ {hero} : most = f[s]
<1> DEFINE R == {0} \cup {f[s] : s \in Seats \ {hero}}
<1>1. ChipSum(f) \in Nat /\ \A s \in Seats : f[s] <= ChipSum(f)
  BY ChipsNat
<1>2. R \in SUBSET Nat /\ R # {}
  OBVIOUS
<1>3. \A k \in R : k <= ChipSum(f)
  <2>1. \A k \in R : k = 0 \/ \E s \in Seats : k = f[s]
    OBVIOUS
  <2> HIDE DEF R
  <2> QED BY <1>1, <2>1
<1>4. Max(R) \in R /\ \A k \in R : k <= Max(R)
  <2> HIDE DEF R
  <2> QED BY <1>1, <1>2, <1>3, Highest
<1>5. \A s \in Seats \ {hero} : f[s] \in R
  OBVIOUS
<1>6. \A k \in R : k = 0 \/ \E s \in Seats \ {hero} : k = f[s]
  OBVIOUS
<1> HIDE DEF R
<1>7. Max(R) \in Nat /\ (\A s \in Seats \ {hero} : f[s] <= Max(R))
      /\ (Max(R) = 0 \/ \E s \in Seats \ {hero} : Max(R) = f[s])
  BY <1>2, <1>4, <1>5, <1>6
<1> QED BY <1>7 DEF R

\* What the others can reach bounds what they have put in.
LEMMA OthersReach ==
  ASSUME NEW seats \in [Seats -> SeatRecords], NEW hero \in Seats
  PROVE  LET most == MostOthersReach(seats, hero)
         IN  /\ most \in Nat
             /\ \A s \in Seats : Reach(seats[s]) \in Nat /\ Paying(seats, s) <= Reach(seats[s])
             /\ \A s \in Seats \ {hero} : Reach(seats[s]) <= most
<1> DEFINE f == [s \in Seats |-> Reach(seats[s])]
<1>1. \A s \in Seats : Reach(seats[s]) \in Nat /\ Paying(seats, s) <= Reach(seats[s])
  <2> SUFFICES ASSUME NEW s \in Seats
               PROVE  Reach(seats[s]) \in Nat /\ Paying(seats, s) <= Reach(seats[s])
    OBVIOUS
  <2>1. seats[s].totalContribution \in Nat /\ seats[s].stack \in Nat
    BY DEF SeatRecords
  <2> QED BY <2>1 DEF Reach, Paying
<1>2. f \in [Seats -> Nat]
  BY <1>1
<1>3. \A s \in Seats : f[s] = Reach(seats[s])
  OBVIOUS
<1>4. MostOthersReach(seats, hero) = Max({0} \cup {f[s] : s \in Seats \ {hero}})
  <2>1. {f[s] : s \in Seats \ {hero}} = {Reach(seats[s]) : s \in Seats \ {hero}}
    OBVIOUS
  <2> QED BY <2>1 DEF MostOthersReach
<1> HIDE DEF f
<1> QED BY <1>1, <1>2, <1>3, <1>4, MostOfOthers

\* A seat that gets part of its bet back.
LEMMA SeatGivenBack ==
  ASSUME NEW seat \in SeatRecords, NEW back \in Nat, back <= seat.streetContribution,
         back <= seat.totalContribution
  PROVE  LET new == NotAllIn(Refunded(seat, back))
         IN  /\ new \in SeatRecords
             /\ new.status = IF seat.status = "allIn" THEN "active" ELSE seat.status
             /\ new.stack = seat.stack + back
             /\ new.totalContribution = seat.totalContribution - back
<1> DEFINE r == Refunded(seat, back)
           new == NotAllIn(r)
<1>1. /\ seat.stack + back \in Nat /\ seat.streetContribution - back \in Nat
      /\ seat.totalContribution - back \in Nat
  BY DEF SeatRecords
<1>2. /\ r \in SeatRecords /\ r.status = seat.status /\ r.stack = seat.stack + back
      /\ r.totalContribution = seat.totalContribution - back
  BY <1>1 DEF SeatRecords, Refunded
<1> HIDE DEF r
<1>3. /\ new \in SeatRecords /\ new.status = IF r.status = "allIn" THEN "active" ELSE r.status
      /\ new.stack = r.stack /\ new.totalContribution = r.totalContribution
  BY <1>2 DEF NotAllIn, SeatRecords, Statuses
<1> HIDE DEF new
<1> QED BY <1>2, <1>3 DEF r, new

\* What a decision risks, in numbers: all that anybody else can still match.
LEMMA RiskFacts ==
  ASSUME NEW t \in TableRecords, t.street \in ActionStreets, InPlay(t), Stakes(t), NEW action,
         ActionAccepted(t, t.actor, action)
  PROVE  LET me == t.seats[t.actor]
             paid == Delta(t, action)
             most == MostOthersReach(t.seats, t.actor)
             back == GuaranteedReturn(t, action)
             adjusted == RiskAdjusted(t, action)
         IN  /\ most \in Nat /\ me.totalContribution \in Nat /\ me.totalContribution <= most
             /\ paid \in Nat /\ me.totalContribution + paid \in Nat
             /\ back = IF me.totalContribution + paid > most
                       THEN me.totalContribution + paid - most ELSE 0
             /\ back \in Nat /\ back <= paid
             /\ adjusted.seats \in [Seats -> SeatRecords]
             /\ \A s \in Seats \ {t.actor} : adjusted.seats[s] = t.seats[s]
             /\ Paying(adjusted.seats, t.actor) = me.totalContribution + paid - back
             /\ adjusted.pot = BettingTransition(t, action).pot - back
             /\ action.type # "fold" => InHand(adjusted.seats[t.actor])
<1> DEFINE me == t.seats[t.actor]
           u == BettingTransition(t, action)
           new == u.seats[t.actor]
           paid == Delta(t, action)
           most == MostOthersReach(t.seats, t.actor)
           back == GuaranteedReturn(t, action)
           seat == NotAllIn(Refunded(new, back))
<1>1. BettingOpen(t) /\ t.actor \in Seats /\ t.seats \in [Seats -> SeatRecords]
  BY DEF Stakes, InPlay, TableRecords
<1>2. /\ u \in TableRecords /\ u.actor = t.actor
      /\ \A s \in Seats \ {t.actor} : u.seats[s] = t.seats[s]
  BY <1>1, ActionTaken
<1>3. /\ new \in SeatRecords /\ paid \in Nat
      /\ new.streetContribution = me.streetContribution + paid
      /\ new.totalContribution = me.totalContribution + paid
      /\ action.type # "fold" => InHand(new)
  BY <1>1, ActorAfter
<1>4. /\ me.totalContribution \in Nat /\ me.streetContribution \in Nat
      /\ new.totalContribution \in Nat /\ new.streetContribution \in Nat /\ new.stack \in Nat
  BY <1>1, <1>3 DEF SeatRecords
<1>5. most \in Nat /\ me.totalContribution <= most
  <2>1. PICK h \in Contenders(t) \ {t.actor} : Paying(t.seats, h) >= Paying(t.seats, t.actor)
    BY ActorIsCovered
  <2>2. h \in Seats \ {t.actor}
    BY <2>1 DEF Contenders
  <2>3. /\ most \in Nat /\ Reach(t.seats[h]) \in Nat /\ Paying(t.seats, h) <= Reach(t.seats[h])
        /\ Reach(t.seats[h]) <= most
    BY <1>1, <2>2, OthersReach
  <2>4. Paying(t.seats, h) \in Nat /\ Paying(t.seats, t.actor) = me.totalContribution
    BY <1>1, <2>2 DEF Paying, SeatRecords
  <2> HIDE DEF most, me
  <2> QED BY <1>4, <2>1, <2>3, <2>4
<1>6. MostOthersReach(u.seats, t.actor) = most
  <2>1. {Reach(u.seats[s]) : s \in Seats \ {t.actor}} = {Reach(t.seats[s]) : s \in Seats \ {t.actor}}
    BY <1>2
  <2> QED BY <2>1 DEF MostOthersReach
<1>7. back = IF me.totalContribution + paid > most THEN me.totalContribution + paid - most ELSE 0
  <2>1. Unmatchable(u.seats, t.actor) = AtLeastZero(new.totalContribution - most)
    BY <1>6 DEF Unmatchable
  <2>2. back = Least(paid, AtLeastZero(new.totalContribution - most))
    BY <2>1 DEF GuaranteedReturn
  <2> HIDE DEF most, paid, back, new, me
  <2> QED BY <1>3, <1>4, <1>5, <2>2 DEF Least, AtLeastZero
<1>8. back \in Nat /\ back <= paid
  <2> HIDE DEF most, paid, back, new, me
  <2> QED BY <1>3, <1>4, <1>5, <1>7
<1>9. CASE back = 0
  <2>1. RiskAdjusted(t, action) = u
    BY <1>9 DEF RiskAdjusted, GivenBack
  <2>2. Paying(u.seats, t.actor) = me.totalContribution + paid
    BY <1>3 DEF Paying
  <2>3. u.seats \in [Seats -> SeatRecords] /\ u.pot \in Nat
    BY <1>2 DEF TableRecords
  <2>4. u.pot = u.pot - back /\ me.totalContribution + paid = me.totalContribution + paid - back
    <3> HIDE DEF u, back, paid, me
    <3> QED BY <1>3, <1>4, <1>9, <2>3
  <2>5. me.totalContribution + paid \in Nat
    BY <1>3, <1>4
  <2> HIDE DEF u, back, paid, me, most, new
  <2> QED BY <1>2, <1>3, <1>4, <1>5, <1>7, <1>8, <2>1, <2>2, <2>3, <2>4, <2>5 DEF u, back, paid, me, most, new
<1>10. CASE back # 0
  <2>1. RiskAdjusted(t, action) = [u EXCEPT !.pot = @ - back, !.seats[t.actor] = seat]
    <3>1. u.seats \in [Seats -> SeatRecords]
      BY <1>2 DEF TableRecords
    <3> HIDE DEF u, back
    <3>2. GivenBack(u, t.actor, back) = [u EXCEPT !.pot = @ - back, !.seats[t.actor] = seat]
      BY <1>2, <1>10, <3>1 DEF GivenBack, TableRecords
    <3> QED BY <3>2 DEF RiskAdjusted, u, back
  <2>2. /\ seat \in SeatRecords /\ seat.status = IF new.status = "allIn" THEN "active" ELSE new.status
        /\ seat.totalContribution = new.totalContribution - back
    <3>1. back <= new.streetContribution /\ back <= new.totalContribution
      <4> HIDE DEF new, back, paid, me
      <4> QED BY <1>3, <1>4, <1>8
    <3> HIDE DEF new, back
    <3> QED BY <1>3, <1>8, <3>1, SeatGivenBack
  <2>3. seat.totalContribution = me.totalContribution + paid - back
    <3> HIDE DEF seat, new, back, paid, me
    <3> QED BY <1>3, <1>4, <1>8, <2>2
  <2>5. InHand(new) => InHand(seat)
    <3> HIDE DEF seat, new, back
    <3> QED BY <2>2 DEF InHand
  <2> HIDE DEF seat, new, back, paid, me
  <2> DEFINE adjusted == RiskAdjusted(t, action)
  <2>6. /\ adjusted.pot = u.pot - back /\ adjusted.seats = [u.seats EXCEPT ![t.actor] = seat]
    <3> HIDE DEF u
    <3> QED BY <1>2, <2>1 DEF TableRecords
  <2>7. u.seats \in [Seats -> SeatRecords]
    BY <1>2 DEF TableRecords
  <2>8. /\ adjusted.seats \in [Seats -> SeatRecords] /\ adjusted.seats[t.actor] = seat
        /\ \A s \in Seats \ {t.actor} : adjusted.seats[s] = u.seats[s]
    <3> HIDE DEF u, adjusted
    <3> QED BY <1>1, <2>2, <2>6, <2>7
  <2>9. me.totalContribution + paid \in Nat
    BY <1>3, <1>4
  <2>10. Paying(adjusted.seats, t.actor) = me.totalContribution + paid - back
    BY <2>3, <2>8 DEF Paying
  <2> HIDE DEF u, most, adjusted
  <2> QED BY <1>2, <1>3, <1>4, <1>5, <1>7, <1>8, <2>5, <2>6, <2>8, <2>9, <2>10
          DEF u, back, paid, me, most, new, adjusted
<1> QED BY <1>9, <1>10

\* The bet is cut where the others cannot follow, so what can be won of it is
\* no more than the pot that can still be played for.
LEMMA RiskIsPlayedFor ==
  ASSUME NEW t \in TableRecords, t.street \in ActionStreets, InPlay(t), Stakes(t), NEW action,
         ActionAccepted(t, t.actor, action), action.type # "fold"
  PROVE  ContestablePot(RiskAdjusted(t, action).seats, t.actor) <= MaximumContestable(t.seats, t.actor)
<1> DEFINE me == t.seats[t.actor]
           paid == Delta(t, action)
           most == MostOthersReach(t.seats, t.actor)
           back == GuaranteedReturn(t, action)
           seats == RiskAdjusted(t, action).seats
           mine == Paying(seats, t.actor)
           matched == Least(Reach(me), most)
           f == Capped(seats, mine)
           g == [s \in Seats |-> Least(matched, Reach(t.seats[s]))]
<1>1. /\ most \in Nat /\ me.totalContribution \in Nat /\ me.totalContribution <= most
      /\ paid \in Nat
      /\ back = IF me.totalContribution + paid > most THEN me.totalContribution + paid - most ELSE 0
      /\ seats \in [Seats -> SeatRecords]
      /\ \A s \in Seats \ {t.actor} : seats[s] = t.seats[s]
      /\ mine = me.totalContribution + paid - back
      /\ InHand(seats[t.actor])
  BY RiskFacts
<1>2. BettingOpen(t) /\ t.actor \in Seats /\ t.seats \in [Seats -> SeatRecords]
  BY DEF Stakes, InPlay, TableRecords
<1>3. paid <= me.stack /\ me.stack \in Nat /\ me.status = "active"
  BY <1>2, ActionShape, ActorFacts DEF SeatRecords
<1>4. Reach(me) = me.totalContribution + me.stack
  BY <1>3 DEF Reach
<1>5. mine \in Nat /\ mine <= matched /\ matched \in Nat
  <2> HIDE DEF me, paid, most, back, seats, mine
  <2> QED BY <1>1, <1>3, <1>4 DEF Least
<1>6. ContestablePot(seats, t.actor) = ChipSum(f)
  <2> HIDE DEF seats
  <2> QED BY <1>1, <1>2, ContestableIs
<1>7. MaximumContestable(t.seats, t.actor) = ChipSum(g)
  BY DEF MaximumContestable
<1>8. ASSUME NEW s \in Seats PROVE f[s] \in Nat /\ g[s] \in Nat /\ f[s] <= g[s]
  <2>1. Reach(t.seats[s]) \in Nat /\ Paying(t.seats, s) <= Reach(t.seats[s]) /\ Paying(t.seats, s) \in Nat
    BY <1>2, OthersReach DEF Paying, SeatRecords
  <2>2. f[s] = IF Paying(seats, s) <= mine THEN Paying(seats, s) ELSE mine
    BY DEF Capped
  <2>3. g[s] = Least(matched, Reach(t.seats[s]))
    OBVIOUS
  <2>4. CASE s = t.actor
    <3>1. f[s] = mine
      BY <1>5, <2>2, <2>4
    <3>2. mine <= Reach(me)
      <4> HIDE DEF me, paid, most, back, seats, mine, matched
      <4> QED BY <1>1, <1>3, <1>4
    <3>3. g[s] = Least(matched, Reach(me)) /\ Reach(me) \in Nat
      BY <2>1, <2>3, <2>4
    <3> HIDE DEF me, paid, most, back, seats, mine, matched, f, g
    <3> QED BY <1>5, <3>1, <3>2, <3>3 DEF Least
  <2>5. CASE s # t.actor
    <3>1. Paying(seats, s) = Paying(t.seats, s)
      BY <1>1, <2>5 DEF Paying
    <3> HIDE DEF me, paid, most, back, seats, mine, matched, f, g
    <3> QED BY <1>5, <2>1, <2>2, <2>3, <3>1 DEF Least
  <2> QED BY <2>4, <2>5
<1>9. f \in [Seats -> Nat] /\ g \in [Seats -> Nat]
  <2>1. \A s \in Seats : f[s] \in Nat /\ g[s] \in Nat
    BY <1>8
  <2>2. DOMAIN f = Seats /\ DOMAIN g = Seats /\ f = [s \in Seats |-> f[s]] /\ g = [s \in Seats |-> g[s]]
    BY DEF Capped
  <2> HIDE DEF f, g
  <2> QED BY <2>1, <2>2
<1>10. ChipSum(f) <= ChipSum(g)
  <2> HIDE DEF f, g
  <2> QED BY <1>8, <1>9, ChipsGrow
<1> QED BY <1>6, <1>7, <1>10

\* A seat that has put in more than any other is the one that gets back what
\* nobody matches.
LEMMA SoleTop ==
  ASSUME NEW seats \in [Seats -> SeatRecords], NEW x \in Seats,
         \A o \in Seats \ {x} : Paying(seats, o) < Paying(seats, x)
  PROVE  UncalledReturn(seats).seat = x
<1> DEFINE level == Max(Levels(seats))
           top == Layer(seats, level)
<1>1. \A s \in Seats : Paying(seats, s) \in Nat
  BY DEF Paying, SeatRecords
<1>2. Paying(seats, x) > 0
  <2>1. PICK o \in Seats \ {x} : TRUE
    BY SeatsLeft
  <2> QED BY <1>1, <2>1
<1>3. Paying(seats, x) \in Levels(seats)
  <2>1. Paying(seats, x) # 0
    BY <1>1, <1>2
  <2> QED BY <2>1 DEF Levels, Paying
<1>4. level \in Levels(seats) /\ \A s \in Seats : Paying(seats, s) <= level
  BY <1>3, TopLevel
<1>5. \E s \in Seats : Paying(seats, s) = level
  BY <1>4 DEF Levels, Paying
<1>6. top.contributors = {s \in Seats : Paying(seats, s) >= level}
  BY DEF Layer, Paying
<1>7. UncalledReturn(seats)
        = IF Cardinality(top.contributors) = 1
          THEN [seat |-> CHOOSE s \in top.contributors : TRUE, amount |-> top.amount]
          ELSE [seat |-> NoSeat, amount |-> 0]
  BY DEF UncalledReturn
<1> HIDE DEF level, top
<1>8. Paying(seats, x) = level
  <2>1. PICK s \in Seats : Paying(seats, s) = level
    BY <1>5
  <2>2. Paying(seats, s) \in Nat /\ Paying(seats, x) \in Nat /\ Paying(seats, x) <= level
    BY <1>1, <1>4
  <2>3. s # x => Paying(seats, s) < Paying(seats, x)
    OBVIOUS
  <2> QED BY <2>1, <2>2, <2>3
<1>9. top.contributors = {x}
  <2>1. \A o \in Seats \ {x} : ~(Paying(seats, o) >= level)
    BY <1>1, <1>8
  <2> QED BY <1>1, <1>6, <1>8, <2>1
<1>10. Cardinality({x}) = 1
  BY FS_Singleton
<1> QED BY <1>7, <1>9, <1>10

-----------------------------------------------------------------------------
(* What comes back of a bet.                                               *)

\* What a seat can have put in on this street, or when it was the last.
Later(seat, terminal) ==
  seat.totalContribution + (IF ~terminal /\ seat.status = "active" THEN seat.stack ELSE 0)

\* The amount is what the seat has put in beyond all that the others can.
LEMMA ReturnNowIs ==
  ASSUME NEW u \in TableRecords, Levels(u.seats) # {}, TopInHand(u.seats), NEW terminal \in BOOLEAN
  PROVE  LET top == UncalledReturn(u.seats)
             back == ReturnNow(u, terminal)
         IN  /\ back.seat = top.seat /\ back.amount \in Nat
             /\ back.amount > 0 =>
                   /\ back.seat \in Seats /\ InHand(u.seats[back.seat])
                   /\ back.amount <= Paying(u.seats, back.seat)
                   /\ \A o \in Seats \ {back.seat} :
                         Paying(u.seats, o) <= Paying(u.seats, back.seat) - back.amount
             /\ back.seat \in Seats =>
                   back.amount = AtLeastZero(Paying(u.seats, back.seat)
                     - Max({0} \cup {Later(u.seats[s], terminal) : s \in Seats \ {back.seat}}))
<1> DEFINE top == UncalledReturn(u.seats)
           back == ReturnNow(u, terminal)
           x == top.seat
           f == [s \in Seats |-> Later(u.seats[s], terminal)]
           reach == Max({0} \cup {Later(u.seats[s], terminal) : s \in Seats \ {x}})
<1>1. u.seats \in [Seats -> SeatRecords]
  BY DEF TableRecords
<1>2. \/ top = [seat |-> NoSeat, amount |-> 0]
      \/ x \in Seats /\ x # NoSeat /\ InHand(u.seats[x]) /\ top.amount \in Nat
  BY <1>1, UncalledFits DEF ReturnFits
<1>3. NoSeat \notin Seats
  BY SeatsFinite DEF NoSeat
<1>4. back = IF x = NoSeat THEN top
             ELSE [top EXCEPT !.amount = AtLeastZero(Paying(u.seats, x) - reach)]
  BY DEF ReturnNow, Later, Paying
<1>5. CASE x = NoSeat
  <2>1. back.seat = NoSeat /\ back.amount = 0
    <3> HIDE DEF back, top
    <3> QED BY <1>2, <1>4, <1>5
  <2> HIDE DEF back, top
  <2> QED BY <1>3, <1>5, <2>1 DEF back, top
<1>6. CASE x # NoSeat
  <2>1. x \in Seats /\ InHand(u.seats[x])
    <3> HIDE DEF top
    <3> QED BY <1>2, <1>6
  <2>2. top = [seat |-> x, amount |-> top.amount]
    BY <1>6 DEF UncalledReturn
  <2>3. back.seat = x /\ back.amount = AtLeastZero(Paying(u.seats, x) - reach)
    <3> HIDE DEF back, top, reach
    <3> QED BY <1>4, <1>6, <2>2 DEF x
  <2> HIDE DEF back, top, x
  <2>4. \A s \in Seats : /\ Later(u.seats[s], terminal) \in Nat /\ Paying(u.seats, s) \in Nat
                         /\ Paying(u.seats, s) <= Later(u.seats[s], terminal)
    <3> SUFFICES ASSUME NEW s \in Seats
                 PROVE  /\ Later(u.seats[s], terminal) \in Nat /\ Paying(u.seats, s) \in Nat
                        /\ Paying(u.seats, s) <= Later(u.seats[s], terminal)
      OBVIOUS
    <3>1. u.seats[s].totalContribution \in Nat /\ u.seats[s].stack \in Nat
      BY <1>1 DEF SeatRecords
    <3> QED BY <3>1 DEF Later, Paying
  <2>5. f \in [Seats -> Nat] /\ \A s \in Seats : f[s] = Later(u.seats[s], terminal)
    BY <2>4
  <2>6. reach = Max({0} \cup {f[s] : s \in Seats \ {x}})
    <3>1. {f[s] : s \in Seats \ {x}} = {Later(u.seats[s], terminal) : s \in Seats \ {x}}
      OBVIOUS
    <3> HIDE DEF f
    <3> QED BY <3>1
  <2>7. reach \in Nat /\ \A s \in Seats \ {x} : f[s] <= reach
    <3> HIDE DEF f, reach
    <3> QED BY <2>1, <2>5, <2>6, MostOfOthers
  <2>8. reach \in Nat /\ \A o \in Seats \ {x} : Paying(u.seats, o) <= reach
    <3> HIDE DEF f, reach
    <3> QED BY <2>4, <2>5, <2>7
  <2>9. /\ back.amount \in Nat
        /\ back.amount > 0 => Paying(u.seats, x) - back.amount = reach /\ back.amount <= Paying(u.seats, x)
    <3> HIDE DEF f, reach
    <3> QED BY <2>1, <2>3, <2>4, <2>8 DEF AtLeastZero
  <2> HIDE DEF f
  <2>10. /\ back.seat \in Seats /\ InHand(u.seats[back.seat])
         /\ back.amount = AtLeastZero(Paying(u.seats, back.seat)
                     - Max({0} \cup {Later(u.seats[s], terminal) : s \in Seats \ {back.seat}}))
    BY <2>1, <2>3
  <2>11. back.amount > 0 =>
             /\ back.amount <= Paying(u.seats, back.seat)
             /\ \A o \in Seats \ {back.seat} :
                   Paying(u.seats, o) <= Paying(u.seats, back.seat) - back.amount
    <3> HIDE DEF reach
    <3> QED BY <2>3, <2>8, <2>9
  <2> HIDE DEF reach
  <2> QED BY <2>3, <2>9, <2>10, <2>11 DEF back, top, x
<1> QED BY <1>5, <1>6

\* What the analysis takes for certain to come back is what the outcome of the
\* action gives back.
LEMMA ReturnsAgree ==
  ASSUME NEW t \in TableRecords, t.street \in ActionStreets, InPlay(t), Stakes(t), NEW action,
         ActionAccepted(t, t.actor, action), GuaranteedReturn(t, action) > 0
  PROVE  ReturnNow(BettingTransition(t, action), FALSE).amount = GuaranteedReturn(t, action)
<1> DEFINE me == t.seats[t.actor]
           u == BettingTransition(t, action)
           paid == Delta(t, action)
           most == MostOthersReach(t.seats, t.actor)
           back == GuaranteedReturn(t, action)
<1>1. /\ most \in Nat /\ me.totalContribution \in Nat /\ paid \in Nat
      /\ back = IF me.totalContribution + paid > most THEN me.totalContribution + paid - most ELSE 0
  BY RiskFacts
<1>2. BettingOpen(t) /\ t.actor \in Seats /\ t.seats \in [Seats -> SeatRecords]
  BY DEF Stakes, InPlay, TableRecords
<1>3. /\ u \in TableRecords /\ u.seats \in [Seats -> SeatRecords]
      /\ \A s \in Seats \ {t.actor} : u.seats[s] = t.seats[s]
      /\ u.pot > 0 /\ u.pot = ChipSum(Totals(u))
  BY <1>2, ActionTaken DEF TableRecords
<1>4. Paying(u.seats, t.actor) = me.totalContribution + paid
  BY <1>2, ActorAfter DEF Paying
<1>5. Levels(u.seats) # {} /\ TopInHand(u.seats)
  BY <1>2, <1>3, ChipsOfPot, TopStaysInHand
<1>6. \A o \in Seats \ {t.actor} : Paying(u.seats, o) \in Nat /\ Paying(u.seats, o) <= most
  <2> SUFFICES ASSUME NEW o \in Seats \ {t.actor}
               PROVE  Paying(u.seats, o) \in Nat /\ Paying(u.seats, o) <= most
    OBVIOUS
  <2>1. Paying(u.seats, o) = Paying(t.seats, o)
    BY <1>3 DEF Paying
  <2>2. /\ Reach(t.seats[o]) \in Nat /\ Paying(t.seats, o) <= Reach(t.seats[o])
        /\ Reach(t.seats[o]) <= most /\ Paying(t.seats, o) \in Nat
    BY <1>2, OthersReach DEF Paying, SeatRecords
  <2> HIDE DEF most
  <2> QED BY <1>1, <2>1, <2>2
<1>7. back > 0 /\ back = me.totalContribution + paid - most
      /\ Paying(u.seats, t.actor) > most /\ Paying(u.seats, t.actor) \in Nat
  <2>1. back > 0
    OBVIOUS
  <2> HIDE DEF most, paid, back, me, u
  <2> QED BY <1>1, <1>4, <2>1
<1>8. UncalledReturn(u.seats).seat = t.actor
  <2>1. \A o \in Seats \ {t.actor} : Paying(u.seats, o) < Paying(u.seats, t.actor)
    <3> HIDE DEF most, u
    <3> QED BY <1>1, <1>6, <1>7
  <2> HIDE DEF u
  <2> QED BY <1>2, <1>3, <2>1, SoleTop
<1>9. ReturnNow(u, FALSE).seat = t.actor
      /\ ReturnNow(u, FALSE).amount = AtLeastZero(Paying(u.seats, t.actor)
            - Max({0} \cup {Later(u.seats[s], FALSE) : s \in Seats \ {t.actor}}))
  <2> HIDE DEF u
  <2>1. LET a == ReturnNow(u, FALSE)
        IN  /\ a.seat = UncalledReturn(u.seats).seat
            /\ a.seat \in Seats => a.amount = AtLeastZero(Paying(u.seats, a.seat)
                  - Max({0} \cup {Later(u.seats[s], FALSE) : s \in Seats \ {a.seat}}))
    BY <1>3, <1>5, ReturnNowIs
  <2> QED BY <1>2, <1>8, <2>1
<1>10. Max({0} \cup {Later(u.seats[s], FALSE) : s \in Seats \ {t.actor}}) = most
  <2>1. \A s \in Seats \ {t.actor} : Later(u.seats[s], FALSE) = Reach(t.seats[s])
    <3> SUFFICES ASSUME NEW s \in Seats \ {t.actor}
                 PROVE  Later(u.seats[s], FALSE) = Reach(t.seats[s])
      OBVIOUS
    <3>1. u.seats[s] = t.seats[s] /\ t.seats[s].totalContribution \in Nat
      BY <1>2, <1>3 DEF SeatRecords
    <3> HIDE DEF u
    <3> QED BY <3>1 DEF Later, Reach
  <2>2. {Later(u.seats[s], FALSE) : s \in Seats \ {t.actor}}
          = {Reach(t.seats[s]) : s \in Seats \ {t.actor}}
    <3> HIDE DEF u
    <3> QED BY <2>1
  <2> QED BY <2>2 DEF MostOthersReach
<1>11. AtLeastZero(Paying(u.seats, t.actor) - most) = back
  <2> HIDE DEF most, paid, back, me, u
  <2> QED BY <1>1, <1>4, <1>7 DEF AtLeastZero
<1> QED BY <1>9, <1>10, <1>11

\* The candidates are actions of the round.
LEMMA CandidatesAreOffered ==
  ASSUME NEW t \in TableRecords, t.street \in ActionStreets, InPlay(t), BettingOpen(t),
         NEW action \in Candidates(t)
  PROVE  action \in ActionsOf(t) /\ ActionAccepted(t, t.actor, action)
<1>1. action \in ActionsOf(t)
  BY DEF Candidates, ActionsOf, Targets
<1> QED BY <1>1, OfferedIsAccepted

LEMMA AnalysisFits ==
  ASSUME TableInv, PlayInv, SpotInv
  PROVE  AnalysisFitsTable
<1> SUFFICES ASSUME Deciding PROVE AnalysisFitsTable
  BY DEF AnalysisFitsTable
<1>1. SpotFitsTable
  BY SpotFits
<1>2. table.street \in ActionStreets /\ table \in TableRecords /\ InPlay(table) /\ Stakes(table)
  BY DEF Deciding, TableInv, PlayInv, SoundPlay
<1>3. ASSUME NEW action \in Candidates(table), action.type \in {"bet", "raise", "allIn"}
      PROVE  RiskIsWhatOthersCanMatch(action)
  <2>1. ActionAccepted(table, table.actor, action)
    BY <1>2, CandidatesAreOffered DEF Stakes
  <2>2. ContestablePot(RiskAdjusted(table, action).seats, table.actor)
          <= MaximumContestable(table.seats, table.actor)
    BY <1>2, <1>3, <2>1, RiskIsPlayedFor
  <2>3. GuaranteedReturn(table, action) > 0 =>
           ReturnNow(BettingTransition(table, action), FALSE).amount = GuaranteedReturn(table, action)
    BY <1>2, <2>1, ReturnsAgree
  <2> QED BY <2>2, <2>3 DEF RiskIsWhatOthersCanMatch
<1> QED BY <1>1, <1>3 DEF AnalysisFitsTable

\* What is computed for a decision by other means than the engine's (the spot
\* folded out of the public actions in decision-spot.ts, the risk of a bet in
\* decision-metrics.ts) agrees with the betting round and the settlement, in
\* every position, at every table.
THEOREM AnalysisIsTrue == DecisionSpec => []AnalysisFitsTable
<1>1. DecisionInit => SpotInv
  <2> SUFFICES ASSUME DecisionInit PROVE SpotInv
    OBVIOUS
  <2>1. table.street = "betweenHands" /\ spot = FreshSpot
    BY DEF DecisionInit, Init
  <2>2. table.street \notin ActionStreets /\ table.street # "preflop"
    BY <2>1 DEF ActionStreets
  <2> QED BY <2>1, <2>2 DEF SpotInv, SpotKept, FreshSpot, SpotRecords, BigBlind
<1>2. TableInv /\ PlayInv /\ SpotInv => AnalysisFitsTable
  BY AnalysisFits
<1> QED BY <1>1, <1>2, DecisionsKeepTable, SpotStep, PTL DEF DecisionSpec

-----------------------------------------------------------------------------
(* Nothing of the analysis fails.                                          *)

\* After the flop somebody has put in chips on an earlier street.
EarlierPaid(t) ==
  t.street \in ActionStreets /\ t.street # "preflop" => \E s \in Seats : Base(t.seats[s]) > 0

EarlierInv == EarlierPaid(table)

LEMMA EarlierGoesOn ==
  ASSUME NEW t \in TableRecords, t.street \in ActionStreets, InPlay(t), Stakes(t), NEW action,
         ActionAccepted(t, t.actor, action), EarlierPaid(t),
         Progress(t, action).street \notin EndStreets
  PROVE  EarlierPaid(Progress(t, action))
<1> DEFINE u == BettingTransition(t, action)
           v == Progress(t, action)
           c == Continuation(u)
<1>1. BettingOpen(t)
  BY DEF Stakes
<1>2. u \in TableRecords /\ AfterAction(u) /\ u.street = t.street
  BY <1>1, ActionTaken, ActionLeaves
<1>3. \A s \in Seats : Base(u.seats[s]) = Base(t.seats[s])
  BY <1>1, ChipsGoIn
<1>4. StakesSound(u) /\ v = Continued(u)
  BY StakesKept DEF Progress
<1>5. c = "sameStreet" \/ c = "nextStreet"
  <2>1. c \in EndStreets => Settleable(v)
    <3> HIDE DEF u
    <3> QED BY <1>2, <1>4, EndCanBeSettled DEF u
  <2>2. c \in EndStreets \/ c = "sameStreet" \/ c = "nextStreet"
    BY <1>2, WhoIsNext
  <2> QED BY <2>1, <2>2 DEF Settleable
<1>6. CASE c = "sameStreet"
  <2>1. v = [u EXCEPT !.actor = NextResponder(u)]
    BY <1>4, <1>6 DEF Continued, EndStreets
  <2>2. v.street = t.street /\ v.seats = u.seats
    BY <1>2, <2>1 DEF TableRecords
  <2> QED BY <1>3, <2>2 DEF EarlierPaid
<1>7. CASE c = "nextStreet"
  <2>1. v = AdvancedStreet(u)
    BY <1>4, <1>7 DEF Continued, EndStreets
  <2>2. v.seats = [s \in Seats |-> [u.seats[s] EXCEPT !.streetContribution = 0,
                                                      !.betLevel = NotActed]]
    BY <1>2, <2>1 DEF AdvancedStreet, TableRecords
  <2>3. \A s \in Seats : /\ v.seats[s].streetContribution = 0
                         /\ v.seats[s].totalContribution = Paying(u.seats, s)
                         /\ Paying(u.seats, s) \in Nat
    <3> SUFFICES ASSUME NEW s \in Seats
                 PROVE  /\ v.seats[s].streetContribution = 0
                        /\ v.seats[s].totalContribution = Paying(u.seats, s)
                        /\ Paying(u.seats, s) \in Nat
      OBVIOUS
    <3>1. u.seats[s] \in SeatRecords
      BY <1>2 DEF TableRecords
    <3>2. v.seats[s] = [u.seats[s] EXCEPT !.streetContribution = 0, !.betLevel = NotActed]
      BY <2>2
    <3> HIDE DEF u, v
    <3> QED BY <3>1, <3>2 DEF SeatRecords, Paying
  <2>4. PICK s \in Seats : Paying(u.seats, s) > 0
    BY <1>4 DEF StakesSound, TwoPaid
  <2>5. Base(v.seats[s]) > 0
    BY <2>3, <2>4 DEF Base
  <2> QED BY <2>5 DEF EarlierPaid
<1> QED BY <1>5, <1>6, <1>7

LEMMA EarlierStep ==
  TableInv /\ PlayInv /\ EarlierInv /\ [DecisionNext]_decisionVars => EarlierInv'
<1> SUFFICES ASSUME TableInv, PlayInv, EarlierInv, [DecisionNext]_decisionVars
             PROVE  EarlierPaid(table')
  BY DEF EarlierInv
<1>1. CASE StartHand
  BY <1>1, StartKeepsTable DEF EarlierPaid
<1>2. CASE DecideAndAct
  <2>1. PICK action \in ActionsOf(table) : Act(action)
    BY <1>2 DEF DecideAndAct
  <2>2. /\ table \in TableRecords /\ InPlay(table) /\ Stakes(table)
        /\ table.street \in ActionStreets /\ ActionAccepted(table, table.actor, action)
        /\ \/ table'.street = "betweenHands"
           \/ table' = Progress(table, action) /\ Progress(table, action).street \notin EndStreets
    BY <1>2, <2>1, DecisionLeaves DEF DecideAndAct
  <2> QED BY <2>2, EarlierGoesOn DEF EarlierPaid, EarlierInv, ActionStreets
<1>3. CASE Rebuy
  <2>1. table'.street \notin ActionStreets
    BY <1>3 DEF Rebuy, TableInv, TableRecords, ActionStreets
  <2> QED BY <2>1 DEF EarlierPaid
<1>4. CASE UNCHANGED decisionVars
  BY <1>4 DEF decisionVars, EarlierInv
<1> QED BY <1>1, <1>2, <1>3, <1>4 DEF DecisionNext

\* So who is to act after the flop has put in something already; before the
\* flop it has if it may check.
LEMMA ActorHasPaid ==
  ASSUME NEW t \in TableRecords, t.street \in ActionStreets, InPlay(t), Stakes(t), EarlierPaid(t)
  PROVE  /\ Paying(t.seats, t.actor) \in Nat
         /\ t.street # "preflop" => Paying(t.seats, t.actor) > 0
         /\ t.seats[t.actor].streetContribution = t.currentBet => Paying(t.seats, t.actor) > 0
<1> DEFINE me == t.seats[t.actor]
<1>1. BettingOpen(t) /\ t.actor \in Seats
  BY DEF Stakes, InPlay
<1>2. CanAct(me) /\ SeatSound(t, me) /\ me \in SeatRecords
  BY <1>1 DEF InPlay, StillOwesAction, TableRecords
<1>3. /\ me.totalContribution \in Nat /\ me.streetContribution \in Nat
      /\ me.streetContribution <= me.totalContribution
  BY <1>2 DEF SeatSound, SeatRecords
<1>4. t.street # "preflop" => Paying(t.seats, t.actor) > 0
  <2> SUFFICES ASSUME t.street # "preflop" PROVE Paying(t.seats, t.actor) > 0
    OBVIOUS
  <2>1. PICK s \in Seats : Base(t.seats[s]) > 0
    BY DEF EarlierPaid
  <2>2. Base(t.seats[s]) <= Base(me)
    BY <1>1, <1>2 DEF Stakes, StakesSound, BasesSound, TopBase
  <2>3. t.seats[s].totalContribution \in Nat /\ t.seats[s].streetContribution \in Nat
    BY DEF TableRecords, SeatRecords
  <2> HIDE DEF me
  <2> QED BY <1>3, <2>1, <2>2, <2>3 DEF Base, Paying, me
<1>5. t.street = "preflop" => t.currentBet >= BigBlind
  BY DEF InPlay
<1> HIDE DEF me
<1> QED BY <1>3, <1>4, <1>5 DEF Paying, BigBlind, me

\* What is left of the pot once the sure return is taken out of it: each of its
\* layers has a winner, and the actor can win what it could before, and
\* something if it has paid.
LEMMA WinnableAfter ==
  ASSUME NEW t \in TableRecords, t.street \in ActionStreets, InPlay(t), Stakes(t), NEW action,
         ActionAccepted(t, t.actor, action), action.type # "fold"
  PROVE  LET adjusted == RiskAdjusted(t, action)
             winnable == ContestablePot(adjusted.seats, t.actor)
         IN  /\ ContestableKnown(adjusted.seats, adjusted.pot, t.actor)
             /\ winnable >= ContestablePot(t.seats, t.actor)
             /\ winnable \in Nat /\ winnable >= Paying(t.seats, t.actor)
             /\ Delta(t, action) > 0 => winnable > 0
<1> DEFINE me == t.seats[t.actor]
           u == BettingTransition(t, action)
           paid == Delta(t, action)
           most == MostOthersReach(t.seats, t.actor)
           back == GuaranteedReturn(t, action)
           adjusted == RiskAdjusted(t, action)
           seats == adjusted.seats
           mine == Paying(seats, t.actor)
           before == Paying(t.seats, t.actor)
<1>1. /\ most \in Nat /\ before \in Nat /\ before <= most
      /\ paid \in Nat /\ before + paid \in Nat
      /\ back = IF before + paid > most THEN before + paid - most ELSE 0
      /\ back \in Nat /\ back <= paid
      /\ seats \in [Seats -> SeatRecords]
      /\ \A s \in Seats \ {t.actor} : seats[s] = t.seats[s]
      /\ mine = before + paid - back
      /\ adjusted.pot = u.pot - back
      /\ InHand(seats[t.actor])
  BY RiskFacts DEF Paying
<1>2. BettingOpen(t) /\ t.actor \in Seats /\ t.seats \in [Seats -> SeatRecords] /\ InHand(me)
  BY DEF Stakes, InPlay, TableRecords, StillOwesAction, CanAct, InHand
<1>3. /\ u \in TableRecords /\ u.seats \in [Seats -> SeatRecords] /\ u.pot \in Nat
      /\ u.pot = ChipSum(Totals(u))
      /\ \A s \in Seats \ {t.actor} : u.seats[s] = t.seats[s]
  BY <1>2, ActionTaken DEF TableRecords
<1>4. Paying(u.seats, t.actor) = before + paid
  BY <1>2, ActorAfter DEF Paying
<1>5. \A s \in Seats : /\ Paying(seats, s) \in Nat /\ Paying(u.seats, s) \in Nat
                       /\ Paying(t.seats, s) \in Nat
  BY <1>1, <1>2, <1>3 DEF Paying, SeatRecords
<1>6. mine \in Nat /\ mine >= before
  <2> HIDE DEF mine, before, paid, back, most, seats, adjusted
  <2> QED BY <1>1
<1>7. adjusted.pot = ChipSum([s \in Seats |-> seats[s].totalContribution])
  <2> DEFINE f == Totals(u)
             g == [s \in Seats |-> seats[s].totalContribution]
  <2>1. /\ \A s \in Seats : f[s] = Paying(u.seats, s) /\ g[s] = Paying(seats, s)
        /\ f = [s \in Seats |-> f[s]] /\ g = [s \in Seats |-> g[s]]
    BY DEF Totals, Paying
  <2>2. \A s \in Seats \ {t.actor} : Paying(seats, s) = Paying(u.seats, s)
    BY <1>1, <1>3 DEF Paying
  <2>3. Paying(seats, t.actor) = Paying(u.seats, t.actor) + (-back)
    <3> HIDE DEF before, paid, back, most, seats, adjusted, u
    <3> QED BY <1>1, <1>4
  <2> HIDE DEF f, g, seats, adjusted
  <2>4. f \in [Seats -> Int] /\ g \in [Seats -> Int]
    <3>1. \A s \in Seats : f[s] \in Int /\ g[s] \in Int
      BY <1>5, <2>1
    <3> QED BY <2>1, <3>1
  <2>5. -back \in Int
    <3> HIDE DEF back
    <3> QED BY <1>1
  <2>6. g[t.actor] = f[t.actor] + (-back) /\ \A o \in Seats \ {t.actor} : g[o] = f[o]
    BY <1>2, <2>1, <2>2, <2>3
  <2>7. ChipSum(g) = ChipSum(f) + (-back)
    <3> HIDE DEF back
    <3> QED BY <1>2, <2>4, <2>5, <2>6, ChipsChange
  <2>8. ChipSum(g) = u.pot - back
    <3> HIDE DEF back, u
    <3> QED BY <1>1, <1>3, <2>7 DEF f
  <2> QED BY <1>1, <2>8 DEF g, seats, adjusted
<1>8. TopInHand(seats)
  <2>1. CASE back = 0
    <3>1. adjusted = u
      BY <2>1 DEF RiskAdjusted, GivenBack
    <3> QED BY <1>2, <3>1, TopStaysInHand
  <2>2. CASE back # 0
    <3>1. mine = most
      <4> HIDE DEF mine, before, paid, back, most, seats, adjusted
      <4> QED BY <1>1, <2>2
    <3>2. \A s \in Seats \ {t.actor} : Paying(seats, s) <= most
      <4> SUFFICES ASSUME NEW s \in Seats \ {t.actor} PROVE Paying(seats, s) <= most
        OBVIOUS
      <4>1. Paying(seats, s) = Paying(t.seats, s)
        BY <1>1 DEF Paying
      <4>2. /\ Reach(t.seats[s]) \in Nat /\ Paying(t.seats, s) <= Reach(t.seats[s])
            /\ Reach(t.seats[s]) <= most /\ Paying(t.seats, s) \in Nat
        BY <1>2, <1>5, OthersReach
      <4> HIDE DEF most, seats
      <4> QED BY <1>1, <4>1, <4>2
    <3> HIDE DEF seats, most, adjusted
    <3> QED BY <1>1, <1>2, <1>6, <3>1, <3>2 DEF TopInHand
  <2> QED BY <2>1, <2>2
<1>9. ContestableKnown(seats, adjusted.pot, t.actor)
  <2> HIDE DEF seats, adjusted
  <2> QED BY <1>1, <1>7, <1>8, LayersAreValid DEF ContestableKnown
<1>10. /\ ContestablePot(seats, t.actor) = ChipSum(Capped(seats, mine))
       /\ ContestablePot(seats, t.actor) \in Nat /\ ContestablePot(seats, t.actor) >= mine
       /\ ContestablePot(t.seats, t.actor) = ChipSum(Capped(t.seats, before))
  <2> HIDE DEF seats, adjusted
  <2> QED BY <1>1, <1>2, ContestableIs
<1>11. ChipSum(Capped(t.seats, before)) <= ChipSum(Capped(seats, mine))
  <2> DEFINE f == Capped(t.seats, before)
             g == Capped(seats, mine)
  <2>1. ASSUME NEW s \in Seats PROVE f[s] \in Nat /\ g[s] \in Nat /\ f[s] <= g[s]
    <3>1. /\ f[s] = IF Paying(t.seats, s) <= before THEN Paying(t.seats, s) ELSE before
          /\ g[s] = IF Paying(seats, s) <= mine THEN Paying(seats, s) ELSE mine
      BY DEF Capped
    <3>2. s # t.actor => Paying(seats, s) = Paying(t.seats, s)
      BY <1>1 DEF Paying
    <3>3. s = t.actor => Paying(seats, s) = mine /\ Paying(t.seats, s) = before
      OBVIOUS
    <3>4. Paying(seats, s) \in Nat /\ Paying(t.seats, s) \in Nat
      BY <1>5
    <3> HIDE DEF f, g, mine, before, seats, adjusted
    <3> QED BY <1>1, <1>6, <3>1, <3>2, <3>3, <3>4
  <2>2. f = [s \in Seats |-> f[s]] /\ g = [s \in Seats |-> g[s]]
    BY DEF Capped
  <2> HIDE DEF f, g
  <2>3. f \in [Seats -> Nat] /\ g \in [Seats -> Nat]
    BY <2>1, <2>2
  <2>4. ChipSum(f) <= ChipSum(g)
    BY <2>1, <2>3, ChipsGrow
  <2> QED BY <2>4 DEF f, g
<1>12. paid > 0 => mine > 0
  <2>1. PICK o \in Seats \ {t.actor} : Paying(t.seats, o) > 0
    BY DEF Stakes, StakesSound, TwoPaid
  <2>2. /\ Reach(t.seats[o]) \in Nat /\ Paying(t.seats, o) <= Reach(t.seats[o])
        /\ Reach(t.seats[o]) <= most /\ Paying(t.seats, o) \in Nat
    BY <1>2, <1>5, OthersReach
  <2> HIDE DEF mine, before, paid, back, most, seats, adjusted
  <2> QED BY <1>1, <2>1, <2>2
<1> HIDE DEF mine, before, paid, back, most, seats
<1>13. /\ ContestablePot(seats, t.actor) >= ContestablePot(t.seats, t.actor)
       /\ ContestablePot(seats, t.actor) \in Nat /\ ContestablePot(seats, t.actor) >= before
       /\ paid > 0 => ContestablePot(seats, t.actor) > 0
  BY <1>1, <1>6, <1>10, <1>11, <1>12
<1> QED BY <1>9, <1>13 DEF seats, paid, before

\* The pot without that excess still has a winner for every layer.
LEMMA RestIsValid ==
  ASSUME NEW seats \in [Seats -> SeatRecords], NEW x \in Seats, InHand(seats[x]),
         NEW n \in Nat, n <= Paying(seats, x),
         \A o \in Seats \ {x} : Paying(seats, o) <= Paying(seats, x) - n
  PROVE  LayersValid([seats EXCEPT ![x].totalContribution = @ - n],
                     ChipSum([s \in Seats |-> seats[s].totalContribution]) - n)
<1> DEFINE rest == [seats EXCEPT ![x].totalContribution = @ - n]
           f == [s \in Seats |-> seats[s].totalContribution]
           g == [s \in Seats |-> rest[s].totalContribution]
<1>1. \A s \in Seats : Paying(seats, s) \in Nat
  BY DEF Paying, SeatRecords
<1>2. seats[x].totalContribution - n \in Nat
  BY <1>1 DEF Paying
<1>3. /\ rest \in [Seats -> SeatRecords] /\ Paying(rest, x) = Paying(seats, x) - n
      /\ rest[x].status = seats[x].status
      /\ \A o \in Seats \ {x} : rest[o] = seats[o]
  BY <1>2 DEF SeatRecords, Paying
<1> HIDE DEF rest
<1>4. TopInHand(rest)
  <2>1. InHand(rest[x])
    BY <1>3 DEF InHand
  <2>2. \A o \in Seats \ {x} : Paying(rest, o) = Paying(seats, o)
    BY <1>3 DEF Paying
  <2>3. \A s \in Seats : Paying(rest, s) <= Paying(rest, x)
    BY <1>1, <1>3, <2>2
  <2>4. \A s \in Seats : Paying(rest, s) \in Nat
    BY <1>3 DEF Paying, SeatRecords
  <2> QED BY <2>1, <2>3, <2>4 DEF TopInHand
<1>5. /\ \A s \in Seats : f[s] = Paying(seats, s) /\ g[s] = Paying(rest, s)
      /\ f = [s \in Seats |-> f[s]] /\ g = [s \in Seats |-> g[s]]
  BY DEF Paying
<1>6. \A o \in Seats \ {x} : Paying(rest, o) = Paying(seats, o)
  BY <1>3 DEF Paying
<1> HIDE DEF f, g
<1>7. Paying(rest, x) = Paying(seats, x) + (-n) /\ -n \in Int
  BY <1>1, <1>3
<1>8. \A s \in Seats : f[s] \in Int /\ g[s] \in Int
  BY <1>1, <1>5, <1>6, <1>7
<1>9. f \in [Seats -> Int] /\ g \in [Seats -> Int]
  BY <1>5, <1>8
<1>10. g[x] = f[x] + (-n) /\ \A o \in Seats \ {x} : g[o] = f[o]
  BY <1>5, <1>6, <1>7
<1>11. ChipSum(g) = ChipSum(f) + (-n) /\ ChipSum(f) \in Int
  BY <1>7, <1>9, <1>10, ChipsChange, ChipsAdd
<1>12. ChipSum(g) = ChipSum(f) - n
  BY <1>11
<1>13. LayersValid(rest, ChipSum(g))
  BY <1>3, <1>4, LayersAreValid DEF g
<1> QED BY <1>12, <1>13 DEF rest, f

\* What comes back after the action, and who is to act then, is defined.
LEMMA ContinuationIsKnown ==
  ASSUME NEW t \in TableRecords, t.street \in ActionStreets, InPlay(t), Stakes(t), NEW action,
         ActionAccepted(t, t.actor, action)
  PROVE  ContinuationKnown(BettingTransition(t, action), Continuation(BettingTransition(t, action)))
<1> DEFINE u == BettingTransition(t, action)
           v == Progress(t, action)
           c == Continuation(u)
<1>1. BettingOpen(t)
  BY DEF Stakes
<1>2. /\ u \in TableRecords /\ AfterAction(u) /\ u.seats \in [Seats -> SeatRecords]
      /\ u.pot > 0 /\ u.pot = ChipSum(Totals(u))
      /\ \A s \in Seats : SeatSound(u, u.seats[s])
  BY <1>1, ActionTaken, ActionLeaves DEF TableRecords
<1>3. TopInHand(u.seats) /\ SharedBase(u.seats) /\ StakesSound(u)
  BY <1>1, StakesKept DEF StakesSound, BasesSound
<1>4. StreetInTotal(u.seats)
  BY <1>2 DEF StreetInTotal, SeatSound
<1>5. Levels(u.seats) # {}
  BY <1>2, ChipsOfPot
<1>6. u.pot = ChipSum([s \in Seats |-> u.seats[s].totalContribution])
  BY <1>2 DEF Totals
<1> HIDE DEF u
<1>7. LayersValid(u.seats, u.pot)
  BY <1>2, <1>3, <1>6, LayersAreValid
<1>8. OutcomePotsKnown(u, c \in EndStreets)
  <2> DEFINE terminal == c \in EndStreets
             back == ReturnNow(u, terminal)
  <2>1. terminal \in BOOLEAN
    OBVIOUS
  <2>2. /\ back.amount \in Nat
        /\ back.amount > 0 =>
                   /\ back.seat \in Seats /\ InHand(u.seats[back.seat])
                   /\ back.amount <= Paying(u.seats, back.seat)
                   /\ \A o \in Seats \ {back.seat} :
                         Paying(u.seats, o) <= Paying(u.seats, back.seat) - back.amount
    <3> HIDE DEF terminal
    <3> QED BY <1>2, <1>3, <1>5, <2>1, ReturnNowIs
  <2> HIDE DEF back
  <2>3. ASSUME back.amount > 0
        PROVE  /\ back.amount <= u.seats[back.seat].streetContribution
               /\ LayersValid([u.seats EXCEPT ![back.seat].totalContribution = @ - back.amount],
                              u.pot - back.amount)
    BY <1>2, <1>3, <1>4, <1>6, <2>2, <2>3, ExcessIsRecent, RestIsValid
  <2> QED BY <1>7, <2>3 DEF OutcomePotsKnown, back
<1>9. v = Continued(u)
  BY DEF Progress, u
<1>10. ASSUME c = "sameStreet" PROVE BettingOpen([u EXCEPT !.actor = NextResponder(u)])
  <2>1. Stakes(v)
    BY <1>10, SameStreetGoesOn DEF u
  <2>2. v = [u EXCEPT !.actor = NextResponder(u)]
    BY <1>9, <1>10 DEF Continued, EndStreets
  <2> QED BY <2>1, <2>2 DEF Stakes
<1>11. ASSUME c = "nextStreet" PROVE BettingOpen(AdvancedStreet(u))
  <2>1. Stakes(Continued(u))
    BY <1>2, <1>3, <1>11, NextStreetOpens
  <2>2. Continued(u) = AdvancedStreet(u)
    BY <1>11 DEF Continued, EndStreets
  <2> QED BY <2>1, <2>2 DEF Stakes
<1> QED BY <1>8, <1>10, <1>11 DEF ContinuationKnown, u

\* The pot on the table has a winner for each of its layers, and the actor can
\* win at least what it has put in.
LEMMA PotIsKnown ==
  ASSUME NEW t \in TableRecords, InPlay(t), Stakes(t)
  PROVE  /\ ContestableKnown(t.seats, t.pot, t.actor)
         /\ ContestablePot(t.seats, t.actor) \in Nat
         /\ ContestablePot(t.seats, t.actor) >= Paying(t.seats, t.actor)
<1>1. /\ t.actor \in Seats /\ t.seats \in [Seats -> SeatRecords] /\ InHand(t.seats[t.actor])
      /\ t.pot = ChipSum([s \in Seats |-> t.seats[s].totalContribution])
      /\ TopInHand(t.seats)
  BY DEF InPlay, TableRecords, StillOwesAction, CanAct, InHand, Totals, Stakes, StakesSound
<1> QED BY <1>1, LayersAreValid, ContestableIs DEF ContestableKnown

\* Whoever has something to call is offered to call it, be it by an all-in.
LEMMA CallIsOffered ==
  ASSUME NEW t \in TableRecords, InPlay(t), BettingOpen(t), AmountToCall(t) > 0
  PROVE  \E call \in Candidates(t) : \/ call.type = "call"
                                     \/ call.type = "allIn" /\ call.target <= t.currentBet
<1> DEFINE me == t.seats[t.actor]
           owed == AmountToCall(t)
           all == AllInTarget(t)
           toCall == [type |-> "call", min |-> owed, max |-> owed]
           toShove == [type |-> "allIn", min |-> all, max |-> all]
<1>1. /\ me \in SeatRecords /\ owed \in Nat /\ owed > 0 /\ t.currentBet \in Nat
      /\ me.streetContribution + owed <= t.currentBet
  BY ActorFacts
<1>2. me.stack \in Nat /\ me.streetContribution \in Nat /\ all = me.streetContribution + me.stack
  BY <1>1 DEF SeatRecords, AllInTarget
<1>3. CASE me.stack > owed
  <2>1. owed # 0 /\ owed < me.stack
    <3> HIDE DEF me, owed
    <3> QED BY <1>1, <1>2, <1>3
  <2>2. toCall \in LegalActions(t)
    BY <1>3, <2>1, OfferToTheLast, OfferAmongMany
  <2>3. [type |-> toCall.type, target |-> toCall.min] \in Candidates(t)
    BY <2>2 DEF Candidates
  <2> QED BY <2>3
<1>4. CASE ~(me.stack > owed)
  <2>1. me.stack <= owed /\ all <= t.currentBet
    <3> HIDE DEF me, owed, all
    <3> QED BY <1>1, <1>2, <1>4
  <2>2. toShove \in LegalActions(t)
    BY <1>4, <2>1, OfferToTheLast, OfferAmongMany
  <2>3. [type |-> toShove.type, target |-> toShove.min] \in Candidates(t)
    BY <2>2 DEF Candidates
  <2> HIDE DEF all
  <2> QED BY <2>1, <2>3
<1> QED BY <1>3, <1>4

\* There is always a fold.
LEMMA SomeCandidate == ASSUME NEW t PROVE Candidates(t) # {}
<1> DEFINE fold == [type |-> "fold", min |-> 0, max |-> 0]
<1>1. fold \in LegalActions(t)
  BY OfferToTheLast, OfferAmongMany
<1>2. [type |-> fold.type, target |-> fold.min] \in Candidates(t)
  BY <1>1 DEF Candidates
<1> QED BY <1>2

\* The metrics of the position are defined (decision-metrics.ts).
LEMMA MetricsAreKnown ==
  ASSUME NEW t \in TableRecords, t.street \in ActionStreets, InPlay(t), Stakes(t), EarlierPaid(t)
  PROVE  MetricsKnown(t)
<1> DEFINE me == t.seats[t.actor]
<1>1. BettingOpen(t) /\ t.actor \in Seats /\ CanAct(me)
  BY DEF Stakes, InPlay, StillOwesAction
<1>2. Candidates(t) # {}
  BY SomeCandidate
<1>3. ASSUME AmountToCall(t) > 0
      PROVE  \E call \in Candidates(t) :
                /\ \/ call.type = "call"
                   \/ call.type = "allIn" /\ call.target <= t.currentBet
                /\ LayersValid(BettingTransition(t, call).seats, BettingTransition(t, call).pot)
                /\ ContestablePot(BettingTransition(t, call).seats, t.actor) > 0
  <2>1. PICK call \in Candidates(t) : \/ call.type = "call"
                                      \/ call.type = "allIn" /\ call.target <= t.currentBet
    BY <1>1, <1>3, CallIsOffered
  <2> DEFINE u == BettingTransition(t, call)
             paid == Delta(t, call)
  <2>2. ActionAccepted(t, t.actor, call)
    BY <1>1, CandidatesAreOffered
  <2>3. paid \in Nat /\ paid > 0
    BY <1>1, <2>1, <2>2, ActionShape
  <2>4. /\ u.seats \in [Seats -> SeatRecords]
        /\ u.pot = ChipSum([s \in Seats |-> u.seats[s].totalContribution])
        /\ TopInHand(u.seats)
    BY <1>1, <2>2, ActionTaken, TopStaysInHand DEF TableRecords, Totals
  <2>5. /\ InHand(u.seats[t.actor])
        /\ Paying(u.seats, t.actor) = me.totalContribution + paid
    BY <1>1, <2>1, <2>2, ActorAfter DEF Paying
  <2>6. me.totalContribution \in Nat
    BY <1>1 DEF TableRecords, SeatRecords
  <2> HIDE DEF u, paid, me
  <2>7. LayersValid(u.seats, u.pot)
    BY <2>4, LayersAreValid
  <2>8. ContestablePot(u.seats, t.actor) \in Nat
        /\ ContestablePot(u.seats, t.actor) >= Paying(u.seats, t.actor)
    BY <1>1, <2>4, <2>5, ContestableIs
  <2>9. ContestablePot(u.seats, t.actor) > 0
    BY <2>3, <2>5, <2>6, <2>8
  <2> QED BY <2>1, <2>7, <2>9 DEF u
<1>4. ASSUME t.street # "preflop" PROVE ContestablePot(t.seats, t.actor) > 0
  BY <1>4, PotIsKnown, ActorHasPaid
<1>5. Contenders(t) \ {t.actor} # {}
  BY ActorIsCovered
<1>6. ContestableKnown(t.seats, t.pot, t.actor) /\ CanAct(Hero(t))
  BY <1>1, PotIsKnown DEF Hero
<1> QED BY <1>2, <1>3, <1>4, <1>5, <1>6 DEF MetricsKnown

\* So is the outcome of every candidate (candidate-outcomes.ts).
LEMMA OutcomeIsKnown ==
  ASSUME NEW t \in TableRecords, t.street \in ActionStreets, InPlay(t), Stakes(t), NEW action,
         ActionAccepted(t, t.actor, action)
  PROVE  OutcomeKnown(t, action)
<1> DEFINE adjusted == RiskAdjusted(t, action)
           winnable == ContestableAfter(t, action)
<1>1. BettingOpen(t)
  BY DEF Stakes
<1>2. ContestableKnown(t.seats, t.pot, t.actor) /\ t.pot > 0
  BY PotIsKnown DEF InPlay
<1>3. Delta(t, action) >= GuaranteedReturn(t, action)
  BY RiskFacts
<1>4. WinnableKnown(t, action, adjusted, winnable)
  <2>1. CASE action.type = "fold"
    BY <2>1 DEF WinnableKnown, IsCall
  <2>2. CASE action.type # "fold"
    <3>1. winnable = ContestablePot(adjusted.seats, t.actor)
      BY <2>2 DEF ContestableAfter
    <3>2. /\ ContestableKnown(adjusted.seats, adjusted.pot, t.actor)
          /\ winnable >= ContestablePot(t.seats, t.actor)
          /\ Delta(t, action) > 0 => winnable > 0
      BY <2>2, <3>1, WinnableAfter
    <3>3. IsCall(t, action) => Delta(t, action) > 0
      BY <1>1, ActionShape DEF IsCall
    <3> QED BY <2>2, <3>2, <3>3 DEF WinnableKnown
  <2> QED BY <2>1, <2>2
<1>5. ContinuationKnown(BettingTransition(t, action), Continuation(BettingTransition(t, action)))
  BY ContinuationIsKnown
<1> QED BY <1>2, <1>3, <1>4, <1>5 DEF OutcomeKnown

\* And the ratio of the stacks to the pot of the next street, unless a fold by
\* a seat without chips in the pot closes the round before the flop.
LEMMA RatioIsKnown ==
  ASSUME NEW t \in TableRecords, t.street \in ActionStreets, InPlay(t), Stakes(t), EarlierPaid(t),
         NEW action \in Candidates(t)
  PROVE  NextStreetRatioKnown(t, action) \/ (action.type = "fold" /\ ClosesWithoutChips(t))
<1> DEFINE before == Paying(t.seats, t.actor)
<1>1. BettingOpen(t) /\ t.actor \in Seats
  BY DEF Stakes, InPlay
<1>2. ActionAccepted(t, t.actor, action)
  BY <1>1, CandidatesAreOffered
<1>3. /\ before \in Nat
      /\ t.street # "preflop" => before > 0
      /\ t.seats[t.actor].streetContribution = t.currentBet => before > 0
  BY ActorHasPaid
<1>4. CASE action.type = "fold"
  <2>1. action = [type |-> "fold", target |-> 0]
    <3>1. PICK legal \in LegalActions(t) :
             /\ action.type = legal.type
             /\ legal.type \notin {"bet", "raise"}
             /\ action = [type |-> legal.type, target |-> legal.min]
      BY <1>4 DEF Candidates
    <3>2. legal = [type |-> "fold", min |-> 0, max |-> 0]
      <4>1. CASE Lone(t)
        BY <1>4, <3>1, <4>1, OfferToTheLast
      <4>2. CASE ~Lone(t)
        BY <1>4, <3>1, <4>2, OfferAmongMany DEF BetType
      <4> QED BY <4>1, <4>2
    <3> QED BY <3>1, <3>2
  <2>2. CASE before > 0
    <3>1. /\ ContestableAfter(t, action) = ContestablePot(t.seats, t.actor)
          /\ ContestableAfter(t, action) \in Nat /\ ContestableAfter(t, action) >= before
      BY <1>4, PotIsKnown DEF ContestableAfter
    <3> HIDE DEF before
    <3>2. ContestableAfter(t, action) > 0
      BY <1>3, <2>2, <3>1
    <3> QED BY <3>2 DEF NextStreetRatioKnown
  <2>3. CASE ~(before > 0)
    <3>1. t.street = "preflop" /\ before = 0
      <4> HIDE DEF before
      <4> QED BY <1>3, <2>3
    <3>2. t.seats[t.actor].totalContribution = 0
      BY <3>1 DEF Paying
    <3> QED BY <1>4, <2>1, <3>1, <3>2 DEF NextStreetRatioKnown, ClosesWithoutChips
  <2> QED BY <2>2, <2>3
<1>5. CASE action.type # "fold"
  <2>1. /\ ContestableAfter(t, action) = ContestablePot(RiskAdjusted(t, action).seats, t.actor)
        /\ ContestableAfter(t, action) \in Nat /\ ContestableAfter(t, action) >= before
        /\ Delta(t, action) > 0 => ContestableAfter(t, action) > 0
    BY <1>2, <1>5, WinnableAfter DEF ContestableAfter
  <2>2. \/ Delta(t, action) > 0
        \/ t.seats[t.actor].streetContribution = t.currentBet
    <3>1. t.seats[t.actor].streetContribution \in Nat /\ t.currentBet \in Nat
      BY <1>1, ActorFacts DEF SeatRecords
    <3>2. \/ Delta(t, action) > 0
          \/ Delta(t, action) = 0 /\ t.seats[t.actor].streetContribution + Delta(t, action) = t.currentBet
      BY <1>1, <1>2, <1>5, ActionShape
    <3> QED BY <3>1, <3>2
  <2>3. ContestableAfter(t, action) > 0
    <3> HIDE DEF before
    <3> QED BY <1>3, <2>1, <2>2
  <2> QED BY <2>3 DEF NextStreetRatioKnown
<1> QED BY <1>4, <1>5

\* The analysis of a decision does not throw, at any table, in any position
\* that legal play leads to, whatever the stacks: an exception there would fail
\* every attempt of the turn (player-decision-preprocessor.ts).  The ratio the
\* outcome of a fold cannot give is the one known case.
THEOREM AnalysisAlwaysSucceeds == DecisionSpec => []AnalysisSucceeds
<1>1. DecisionInit => EarlierInv
  <2> SUFFICES ASSUME DecisionInit PROVE EarlierInv
    OBVIOUS
  <2>1. table.street = "betweenHands"
    BY DEF DecisionInit, Init
  <2> QED BY <2>1 DEF EarlierInv, EarlierPaid, ActionStreets
<1>2. TableInv /\ PlayInv /\ EarlierInv => AnalysisSucceeds
  <2> SUFFICES ASSUME TableInv, PlayInv, EarlierInv, Deciding PROVE AnalysisSucceeds
    BY DEF AnalysisSucceeds
  <2>1. /\ table \in TableRecords /\ table.street \in ActionStreets /\ InPlay(table)
        /\ Stakes(table) /\ EarlierPaid(table)
    BY DEF Deciding, TableInv, PlayInv, SoundPlay, EarlierInv
  <2>2. MetricsKnown(table)
    BY <2>1, MetricsAreKnown
  <2>3. \A action \in Candidates(table) :
           /\ OutcomeKnown(table, action)
           /\ NextStreetRatioKnown(table, action) \/ (action.type = "fold" /\ ClosesWithoutChips(table))
    BY <2>1, CandidatesAreOffered, OutcomeIsKnown, RatioIsKnown DEF Stakes
  <2> QED BY <2>2, <2>3 DEF AnalysisSucceeds
<1> QED BY <1>1, <1>2, DecisionsKeepTable, EarlierStep, PTL DEF DecisionSpec

-----------------------------------------------------------------------------
(* The weights of the candidates.                                          *)

\* A sum over two parts that have nothing in common.
LEMMA SumOfParts ==
  ASSUME NEW R, IsFiniteSet(R), NEW S, IsFiniteSet(S), R \cap S = {},
         NEW h, \A x \in R \cup S : h[x] \in Int
  PROVE  SumOver(h, R \cup S) = SumOver(h, R) + SumOver(h, S)
<1> DEFINE P == {T \in SUBSET S : SumOver(h, R \cup T) = SumOver(h, R) + SumOver(h, T)}
<1>1. {} \in P
  <2>1. R \cup {} = R /\ SumOver(h, {}) = 0
    BY SumOfNone
  <2>2. \A x \in R : h[x] \in Int
    OBVIOUS
  <2>3. SumOver(h, R) \in Int
    BY <2>2, SumGrows
  <2>4. SumOver(h, R) = SumOver(h, R) + 0
    BY <2>3
  <2> QED BY <2>1, <2>4
<1>2. \A T \in P : \A x \in S \ T : T \cup {x} \in P
  <2> SUFFICES ASSUME NEW T \in SUBSET S, SumOver(h, R \cup T) = SumOver(h, R) + SumOver(h, T),
                      NEW x \in S \ T
               PROVE  SumOver(h, R \cup (T \cup {x})) = SumOver(h, R) + SumOver(h, T \cup {x})
    OBVIOUS
  <2> DEFINE V == R \cup T
  <2>1. IsFiniteSet(T) /\ x \notin T /\ x \notin V /\ R \cup (T \cup {x}) = V \cup {x}
    BY FS_Subset
  <2>2. IsFiniteSet(V)
    BY <2>1, FS_Union
  <2>3. \A y \in V \cup {x} : h[y] \in Int
    OBVIOUS
  <2>4. \A y \in T \cup {x} : h[y] \in Int
    OBVIOUS
  <2>5. \A y \in R : h[y] \in Int
    OBVIOUS
  <2>6. SumOver(h, V) = SumOver(h, R) + SumOver(h, T)
    OBVIOUS
  <2> HIDE DEF V
  <2>7. SumOver(h, V \cup {x}) = SumOver(h, V) + h[x]
    BY <2>1, <2>2, <2>3, SumOfMore
  <2>8. SumOver(h, T) \in Int /\ SumOver(h, T \cup {x}) = SumOver(h, T) + h[x]
    BY <2>1, <2>4, SumOfMore
  <2>9. SumOver(h, R) \in Int /\ h[x] \in Int
    BY <2>3, <2>5, SumGrows
  <2>10. SumOver(h, V \cup {x}) = SumOver(h, R) + SumOver(h, T \cup {x})
    BY <2>6, <2>7, <2>8, <2>9
  <2> QED BY <2>1, <2>10
<1>3. S \in P
  <2>1. P \in SUBSET SUBSET S
    OBVIOUS
  <2> HIDE DEF P
  <2> QED BY <1>1, <1>2, <2>1, FiniteSetsGrow
<1> QED BY <1>3

\* The sum of what is made up of two.
LEMMA SumOfSummed ==
  ASSUME NEW S, IsFiniteSet(S), NEW h, NEW k, NEW l,
         \A x \in S : h[x] \in Int /\ k[x] \in Int /\ l[x] = h[x] + k[x]
  PROVE  SumOver(l, S) = SumOver(h, S) + SumOver(k, S)
<1> DEFINE P == {T \in SUBSET S : SumOver(l, T) = SumOver(h, T) + SumOver(k, T)}
<1>1. {} \in P
  <2>1. SumOver(h, {}) = 0 /\ SumOver(k, {}) = 0 /\ SumOver(l, {}) = 0
    BY SumOfNone
  <2> QED BY <2>1
<1>2. \A T \in P : \A x \in S \ T : T \cup {x} \in P
  <2> SUFFICES ASSUME NEW T \in SUBSET S, SumOver(l, T) = SumOver(h, T) + SumOver(k, T),
                      NEW x \in S \ T
               PROVE  SumOver(l, T \cup {x}) = SumOver(h, T \cup {x}) + SumOver(k, T \cup {x})
    OBVIOUS
  <2>1. IsFiniteSet(T) /\ x \notin T
    BY FS_Subset
  <2>2. \A y \in T \cup {x} : h[y] \in Int
    OBVIOUS
  <2>3. \A y \in T \cup {x} : k[y] \in Int
    OBVIOUS
  <2>4. \A y \in T \cup {x} : l[y] \in Int
    OBVIOUS
  <2>5. SumOver(h, T) \in Int /\ SumOver(h, T \cup {x}) = SumOver(h, T) + h[x]
    BY <2>1, <2>2, SumOfMore
  <2>6. SumOver(k, T) \in Int /\ SumOver(k, T \cup {x}) = SumOver(k, T) + k[x]
    BY <2>1, <2>3, SumOfMore
  <2>7. SumOver(l, T \cup {x}) = SumOver(l, T) + l[x]
    BY <2>1, <2>4, SumOfMore
  <2>8. h[x] \in Int /\ k[x] \in Int /\ l[x] = h[x] + k[x]
    OBVIOUS
  <2> QED BY <2>5, <2>6, <2>7, <2>8
<1>3. S \in P
  <2>1. P \in SUBSET SUBSET S
    OBVIOUS
  <2> HIDE DEF P
  <2> QED BY <1>1, <1>2, <2>1, FiniteSetsGrow
<1> QED BY <1>3

\* The sum of what counts at one place only.
LEMMA SumOfOne ==
  ASSUME NEW S, IsFiniteSet(S), NEW s \in S, NEW h, h[s] \in Int, \A x \in S \ {s} : h[x] = 0
  PROVE  SumOver(h, S) = h[s]
<1>1. IsFiniteSet({}) /\ s \notin {} /\ {} \cup {s} = {s}
  BY FS_EmptySet
<1>2. \A y \in {} \cup {s} : h[y] \in Int
  OBVIOUS
<1>3. SumOver(h, {} \cup {s}) = SumOver(h, {}) + h[s]
  BY <1>1, <1>2, SumOfMore
<1>4. SumOver(h, {s}) = h[s]
  BY <1>1, <1>3, SumOfNone
<1>5. \A x \in S : h[x] \in Int
  OBVIOUS
<1>6. {s} \in SUBSET S /\ \A x \in S \ {s} : h[x] = 0
  OBVIOUS
<1>7. SumOver(h, S) = SumOver(h, {s})
  BY <1>5, <1>6, SumOfPart
<1> QED BY <1>4, <1>7

\* The positions of a list are finitely many, and so is every set of them.
LEMMA Positions ==
  ASSUME NEW n \in Nat, NEW S \in SUBSET (1 .. n)
  PROVE  /\ IsFiniteSet(S) /\ Cardinality(S) \in Nat /\ S \in SUBSET Nat
         /\ S # {} => Cardinality(S) > 0
<1>1. IsFiniteSet(1 .. n)
  BY FS_Interval
<1>2. IsFiniteSet(S)
  BY <1>1, FS_Subset
<1>3. Cardinality(S) \in Nat
  BY <1>2, FS_CardinalityType
<1>4. S # {} => Cardinality(S) # 0
  BY <1>2, FS_EmptySet
<1>5. S \in SUBSET Nat
  OBVIOUS
<1> QED BY <1>2, <1>3, <1>4, <1>5

\* The shares of a total are not negative and add up to it.
LEMMA SharesAddUp ==
  ASSUME NEW n \in Nat, NEW S \in SUBSET (1 .. n), S # {}, NEW total \in Nat,
         NEW h, \A c \in S : h[c] = Share(total, S, c)
  PROVE  /\ \A c \in S : h[c] \in Nat
         /\ SumOver(h, S) = total
<1> DEFINE m == Cardinality(S)
           q == total \div m
           r == total % m
           Part(k) == {c \in S : c <= k}
           size(k) == Cardinality(Part(k))
           Good(k) == SumOver(h, Part(k)) = q * size(k) + Least(size(k), r)
           P == {k \in Nat : Good(k)}
<1>1. IsFiniteSet(S) /\ m \in Nat /\ m > 0 /\ S \in SUBSET Nat
  BY Positions
<1>2. q \in Nat /\ r \in Nat /\ r < m /\ total = m * q + r
  <2> HIDE DEF m
  <2> QED BY <1>1
<1>3. \A k \in Nat : Part(k) \in SUBSET S /\ IsFiniteSet(Part(k)) /\ size(k) \in Nat
  BY <1>1, FS_Subset, FS_CardinalityType
<1>4. \A c \in S : h[c] = q + (IF size(c) <= r THEN 1 ELSE 0)
  BY DEF Share
<1>5. \A c \in S : h[c] \in Nat
  <2> HIDE DEF q, r, size
  <2> QED BY <1>2, <1>4
<1>6. 0 \in P
  <2>1. Part(0) = {}
    <3>1. \A c \in S : c \in 1 .. n
      OBVIOUS
    <3>2. \A c \in S : ~(c <= 0)
      BY <3>1
    <3> QED BY <3>2
  <2>2. size(0) = 0 /\ SumOver(h, Part(0)) = 0
    BY <2>1, FS_EmptySet, SumOfNone
  <2> HIDE DEF q, r, size
  <2>3. 0 = q * 0 + Least(0, r)
    BY <1>2 DEF Least
  <2> HIDE DEF Part
  <2> QED BY <2>2, <2>3
<1>7. \A k \in P : k + 1 \in P
  <2> SUFFICES ASSUME NEW k \in Nat, Good(k) PROVE Good(k + 1)
    <3> HIDE DEF Good
    <3> QED OBVIOUS
  <2> DEFINE R == Part(k)
  <2>1. IsFiniteSet(R) /\ size(k) \in Nat /\ R \in SUBSET S
    BY <1>3
  <2>2. CASE k + 1 \notin S
    <3>1. Part(k + 1) = Part(k)
      <4>1. \A c \in S : c <= k + 1 <=> c <= k
        BY <1>1, <2>2
      <4> QED BY <4>1
    <3> HIDE DEF q, r, Part
    <3> QED BY <3>1
  <2>3. CASE k + 1 \in S
    <3>1. Part(k + 1) = R \cup {k + 1} /\ k + 1 \notin R
      <4>1. \A c \in S : c <= k + 1 <=> (c <= k \/ c = k + 1)
        BY <1>1
      <4>2. ~(k + 1 <= k)
        OBVIOUS
      <4> QED BY <2>3, <4>1, <4>2
    <3> DEFINE x == k + 1
    <3>2. Cardinality(R \cup {x}) = Cardinality(R) + 1
      <4> HIDE DEF R, x
      <4> QED BY <2>1, <3>1, FS_AddElement DEF x
    <3>3. size(x) = size(k) + 1
      BY <3>1, <3>2
    <3>4. SumOver(h, R \cup {x}) = SumOver(h, R) + h[x]
      <4>1. \A y \in R \cup {x} : h[y] \in Int
        BY <1>5, <2>1, <2>3
      <4>2. x \notin R
        BY <3>1
      <4> HIDE DEF R, x
      <4> QED BY <2>1, <4>1, <4>2, SumOfMore
    <3>5. h[x] = q + (IF size(x) <= r THEN 1 ELSE 0)
      BY <1>4, <2>3
    <3>6. SumOver(h, Part(x)) = q * size(k) + Least(size(k), r) + (q + (IF size(x) <= r THEN 1 ELSE 0))
      <4>1. SumOver(h, Part(k)) = q * size(k) + Least(size(k), r)
        OBVIOUS
      <4> HIDE DEF q, r, size
      <4> QED BY <3>1, <3>4, <3>5, <4>1
    <3> DEFINE s == size(k)
    <3>7. q * s + q = q * (s + 1) /\ q * s \in Nat
      <4>1. s \in Nat
        BY <2>1
      <4> HIDE DEF q, s
      <4> QED BY <1>2, <4>1
    <3>8. q * s + Least(s, r) + (q + (IF s + 1 <= r THEN 1 ELSE 0)) = q * (s + 1) + Least(s + 1, r)
      <4>1. s \in Nat
        BY <2>1
      <4>2. Least(s + 1, r) = Least(s, r) + (IF s + 1 <= r THEN 1 ELSE 0) /\ Least(s, r) \in Nat
        <5> HIDE DEF s, r
        <5> QED BY <1>2, <4>1 DEF Least
      <4> DEFINE a == q * s
                 b == q * (s + 1)
                 d == IF s + 1 <= r THEN 1 ELSE 0
      <4>3. a \in Nat /\ a + q = b /\ d \in Nat
        BY <3>7
      <4> HIDE DEF a, b, d, q, s, r
      <4>4. a + Least(s, r) + (q + d) = b + (Least(s, r) + d)
        BY <1>2, <4>2, <4>3
      <4> QED BY <4>2, <4>4 DEF a, b, d
    <3> HIDE DEF q, r, Part, size
    <3> QED BY <3>3, <3>6, <3>8 DEF s
  <2> QED BY <2>2, <2>3
<1>8. P = Nat
  <2> HIDE DEF P
  <2>1. P \in SUBSET Nat
    BY DEF P
  <2> QED BY <1>6, <1>7, <2>1, EveryNumber
<1>9. Part(n) = S
  <2>1. \A c \in S : c \in 1 .. n
    OBVIOUS
  <2>2. \A c \in S : c <= n
    BY <2>1
  <2> QED BY <2>2
<1>10. SumOver(h, S) = q * m + Least(m, r)
  <2>1. Good(n)
    BY <1>8
  <2> HIDE DEF q, r
  <2> QED BY <1>9, <2>1
<1>11. q * m + Least(m, r) = total
  <2> HIDE DEF q, r, m
  <2>1. Least(m, r) = r
    BY <1>1, <1>2 DEF Least
  <2>2. q * m = m * q
    BY <1>1, <1>2
  <2> QED BY <1>2, <2>1, <2>2
<1> QED BY <1>5, <1>10, <1>11

LEMMA LeastPosition ==
  ASSUME NEW n \in Nat, NEW S \in SUBSET (1 .. n), S # {}
  PROVE  Min(S) \in S /\ \A k \in S : Min(S) <= k
<1>1. S \in SUBSET Nat
  OBVIOUS
<1>2. \E m \in S : \A k \in S : m <= k
  BY <1>1, LeastNumber
<1> QED BY <1>2 DEF Min

\* Every candidate belongs to one family, which its first candidate names.
LEMMA OneFamilyEach ==
  ASSUME NEW n \in Nat, NEW list, DOMAIN list = 1 .. n
  PROVE  LET F == FamiliesOf(list)
         IN  /\ F \in SUBSET (1 .. n)
             /\ \A i \in 1 .. n : /\ FamilyOf(list, i) \in SUBSET (1 .. n)
                                  /\ i \in FamilyOf(list, i)
                                  /\ Min(FamilyOf(list, i)) \in F
             /\ \A f \in F : \A i \in 1 .. n : i \in FamilyOf(list, f) <=> Min(FamilyOf(list, i)) = f
             /\ \A f \in F : \A i \in FamilyOf(list, f) : FamilyOf(list, i) = FamilyOf(list, f)
<1> DEFINE fam(i) == FamilyOf(list, i)
           F == FamiliesOf(list)
<1>1. \A i \in 1 .. n : /\ fam(i) \in SUBSET (1 .. n) /\ i \in fam(i)
                        /\ \A j \in fam(i) : fam(j) = fam(i)
  BY DEF FamilyOf, PlacesOf
<1>2. F \in SUBSET (1 .. n) /\ \A i \in 1 .. n : i \in F <=> \A j \in fam(i) : i <= j
  BY DEF FamiliesOf
<1> HIDE DEF fam, F
<1>3. \A i \in 1 .. n : Min(fam(i)) \in fam(i) /\ \A k \in fam(i) : Min(fam(i)) <= k
  BY <1>1, LeastPosition
<1>4. \A i \in 1 .. n : Min(fam(i)) \in F
  <2> SUFFICES ASSUME NEW i \in 1 .. n PROVE Min(fam(i)) \in F
    OBVIOUS
  <2>1. Min(fam(i)) \in 1 .. n /\ fam(Min(fam(i))) = fam(i)
    BY <1>1, <1>3
  <2> QED BY <1>2, <1>3, <2>1
<1>5. \A f \in F : Min(fam(f)) = f
  <2> SUFFICES ASSUME NEW f \in F PROVE Min(fam(f)) = f
    OBVIOUS
  <2>1. f \in 1 .. n /\ f \in fam(f) /\ Min(fam(f)) \in fam(f)
    BY <1>1, <1>2, <1>3
  <2>2. Min(fam(f)) <= f /\ f <= Min(fam(f)) /\ Min(fam(f)) \in 1 .. n
    BY <1>1, <1>2, <1>3, <2>1
  <2> QED BY <2>1, <2>2
<1>6. ASSUME NEW f \in F, NEW i \in 1 .. n PROVE i \in fam(f) <=> Min(fam(i)) = f
  <2>1. i \in fam(f) => Min(fam(i)) = f
    BY <1>1, <1>2, <1>5
  <2>2. Min(fam(i)) = f => i \in fam(f)
    BY <1>1, <1>3
  <2> QED BY <2>1, <2>2
<1> QED BY <1>1, <1>2, <1>4, <1>6 DEF fam, F

\* What is added up family by family is added up candidate by candidate.
LEMMA SumOfFamilies ==
  ASSUME NEW n \in Nat, NEW list, DOMAIN list = 1 .. n,
         NEW w, \A i \in 1 .. n : w[i] \in Nat,
         NEW s, \A f \in FamiliesOf(list) : s[f] \in Nat /\ SumOver(w, FamilyOf(list, f)) = s[f]
  PROVE  SumOver(w, 1 .. n) = SumOver(s, FamiliesOf(list))
<1> DEFINE F == FamiliesOf(list)
           first(i) == Min(FamilyOf(list, i))
           Of(T) == {i \in 1 .. n : first(i) \in T}
           P == {T \in SUBSET F : SumOver(w, Of(T)) = SumOver(s, T)}
<1>1. /\ F \in SUBSET (1 .. n)
      /\ \A i \in 1 .. n : first(i) \in F
      /\ \A f \in F : FamilyOf(list, f) \in SUBSET (1 .. n)
      /\ \A f \in F : \A i \in 1 .. n : i \in FamilyOf(list, f) <=> first(i) = f
  BY OneFamilyEach
<1>2. IsFiniteSet(F)
  BY <1>1, Positions
<1>3. {} \in P
  <2>1. Of({}) = {} /\ SumOver(w, {}) = 0 /\ SumOver(s, {}) = 0
    BY SumOfNone
  <2> HIDE DEF Of
  <2> QED BY <2>1
<1>4. \A T \in P : \A f \in F \ T : T \cup {f} \in P
  <2> SUFFICES ASSUME NEW T \in SUBSET F, SumOver(w, Of(T)) = SumOver(s, T), NEW f \in F \ T
               PROVE  SumOver(w, Of(T \cup {f})) = SumOver(s, T \cup {f})
    <3> HIDE DEF F, Of
    <3> QED OBVIOUS
  <2> DEFINE A == Of(T)
             B == FamilyOf(list, f)
  <2>1. A \in SUBSET (1 .. n) /\ B \in SUBSET (1 .. n) /\ A \cap B = {} /\ Of(T \cup {f}) = A \cup B
    <3>1. \A i \in 1 .. n : i \in B <=> first(i) = f
      BY <1>1
    <3>2. B \in SUBSET (1 .. n)
      BY <1>1
    <3> HIDE DEF first, B
    <3> QED BY <3>1, <3>2
  <2>2. IsFiniteSet(A) /\ IsFiniteSet(B)
    <3> HIDE DEF A, B
    <3> QED BY <2>1, Positions
  <2>3. SumOver(w, A) = SumOver(s, T)
    OBVIOUS
  <2> HIDE DEF Of, F, A, first
  <2>4. SumOver(w, A \cup B) = SumOver(w, A) + SumOver(w, B)
    <3> HIDE DEF B
    <3>1. \A i \in A \cup B : w[i] \in Int
      <4>1. \A i \in A \cup B : i \in 1 .. n
        BY <2>1
      <4> QED BY <4>1
    <3> QED BY <2>1, <2>2, <3>1, SumOfParts
  <2>5. SumOver(w, B) = s[f] /\ s[f] \in Nat
    BY DEF F
  <2>6. SumOver(s, T \cup {f}) = SumOver(s, T) + s[f]
    <3>1. IsFiniteSet(T) /\ f \notin T
      BY <1>2, FS_Subset
    <3>2. \A x \in T \cup {f} : s[x] \in Int
      BY DEF F
    <3> QED BY <3>1, <3>2, SumOfMore
  <2> QED BY <2>1, <2>3, <2>4, <2>5, <2>6
<1>5. F \in P
  <2>1. P \in SUBSET SUBSET F
    OBVIOUS
  <2> HIDE DEF P, F
  <2> QED BY <1>2, <1>3, <1>4, <2>1, FiniteSetsGrow
<1>6. Of(F) = 1 .. n
  <2> HIDE DEF F, first
  <2> QED BY <1>1
<1> HIDE DEF Of
<1> QED BY <1>5, <1>6

\* Without a strategy the weights of every list of candidates are closed.
LEMMA HeuristicIsClosed ==
  ASSUME NEW n \in Nat, n > 0, NEW list, DOMAIN list = 1 .. n
  PROVE  /\ HeuristicWeights(list) \in [1 .. n -> Nat]
         /\ SumOver(HeuristicWeights(list), 1 .. n) = Whole
<1> DEFINE F == FamiliesOf(list)
           first(i) == Min(FamilyOf(list, i))
           s == [f \in F |-> Share(Whole, F, f)]
           w == HeuristicWeights(list)
<1>1. /\ F \in SUBSET (1 .. n)
      /\ \A i \in 1 .. n : first(i) \in F /\ i \in FamilyOf(list, first(i))
      /\ \A f \in F : FamilyOf(list, f) \in SUBSET (1 .. n)
      /\ \A f \in F : \A i \in 1 .. n : i \in FamilyOf(list, f) <=> first(i) = f
      /\ \A f \in F : \A i \in FamilyOf(list, f) : FamilyOf(list, i) = FamilyOf(list, f)
  BY OneFamilyEach
<1>2. F # {}
  <2>1. 1 \in 1 .. n
    OBVIOUS
  <2> HIDE DEF F, first
  <2> QED BY <1>1, <2>1
<1>3. (\A f \in F : s[f] \in Nat) /\ SumOver(s, F) = Whole
  <2>1. Whole \in Nat
    BY DEF Whole
  <2>2. \A f \in F : s[f] = Share(Whole, F, f)
    OBVIOUS
  <2> HIDE DEF F, s
  <2> QED BY <1>1, <1>2, <2>1, <2>2, SharesAddUp
<1>4. ASSUME NEW f \in F
      PROVE  (\A i \in FamilyOf(list, f) : w[i] \in Nat) /\ SumOver(w, FamilyOf(list, f)) = s[f]
  <2> DEFINE B == FamilyOf(list, f)
  <2>1. B \in SUBSET (1 .. n) /\ B # {}
    <3>1. f \in 1 .. n
      BY <1>1
    <3> QED BY <1>1, <3>1, OneFamilyEach
  <2>2. \A i \in B : w[i] = Share(s[f], B, i)
    <3> SUFFICES ASSUME NEW i \in B PROVE w[i] = Share(s[f], B, i)
      OBVIOUS
    <3>1. i \in DOMAIN list /\ FamilyOf(list, i) = B /\ first(i) = f
      BY <1>1, <2>1
    <3>2. w[i] = Share(Share(Whole, F, first(i)), FamilyOf(list, i), i)
      BY <3>1 DEF HeuristicWeights
    <3> HIDE DEF B, w, first, F
    <3> QED BY <3>1, <3>2
  <2>3. s[f] \in Nat
    BY <1>3
  <2> HIDE DEF B, w, s, F
  <2> QED BY <2>1, <2>2, <2>3, SharesAddUp DEF B
<1>5. \A i \in 1 .. n : w[i] \in Nat
  <2> HIDE DEF w, s, F, first
  <2> QED BY <1>1, <1>4
<1>6. w \in [1 .. n -> Nat]
  <2>1. w = [i \in 1 .. n |-> w[i]]
    BY DEF HeuristicWeights
  <2> HIDE DEF w
  <2> QED BY <1>5, <2>1
<1>7. SumOver(w, 1 .. n) = SumOver(s, F)
  <2>1. \A f \in F : s[f] \in Nat /\ SumOver(w, FamilyOf(list, f)) = s[f]
    <3> HIDE DEF F, s, w
    <3> QED BY <1>3, <1>4
  <2> HIDE DEF w, s
  <2> QED BY <1>5, <2>1, SumOfFamilies
<1> QED BY <1>3, <1>6, <1>7

\* Nothing negative adds up to something negative, nor to less than a part.
LEMMA NoNegativeSum ==
  ASSUME NEW S, IsFiniteSet(S), NEW h, \A x \in S : h[x] \in Nat
  PROVE  /\ SumOver(h, S) \in Nat
         /\ \A x \in S : h[x] <= SumOver(h, S)
<1>1. ASSUME NEW x \in S PROVE SumOver(h, S) \in Int /\ h[x] <= SumOver(h, S)
  <2> DEFINE k == [y \in S |-> IF y = x THEN h[x] ELSE 0]
  <2>1. \A y \in S : k[y] \in Int /\ h[y] \in Int /\ k[y] <= h[y]
    OBVIOUS
  <2>2. k[x] = h[x] /\ k[x] \in Int /\ \A y \in S \ {x} : k[y] = 0
    OBVIOUS
  <2> HIDE DEF k
  <2>3. SumOver(k, S) = h[x]
    BY <2>2, SumOfOne
  <2>4. SumOver(h, S) \in Int /\ SumOver(k, S) <= SumOver(h, S)
    BY <2>1, SumGrows
  <2> QED BY <2>3, <2>4
<1>2. SumOver(h, S) \in Nat
  <2>1. CASE S = {}
    BY <2>1, SumOfNone
  <2>2. CASE S # {}
    <3>1. PICK x \in S : TRUE
      BY <2>2
    <3>2. h[x] \in Nat /\ SumOver(h, S) \in Int /\ h[x] <= SumOver(h, S)
      BY <1>1
    <3> QED BY <3>2
  <2> QED BY <2>1, <2>2
<1> QED BY <1>1, <1>2

-----------------------------------------------------------------------------
(* What a persona moves between the candidates.                            *)

\* Weights that make up the whole and are near what they were at first.
Weighted(w, base, n) ==
  /\ w \in [1 .. n -> Nat] /\ base \in [1 .. n -> Nat]
  /\ SumOver(w, 1 .. n) = Whole
  /\ \A i \in 1 .. n : w[i] <= base[i] + Cap /\ base[i] <= w[i] + Cap

WeightedState(state, base, n) ==
  /\ state = [weights |-> state.weights, remaining |-> state.remaining]
  /\ state.remaining \in Nat
  /\ Weighted(state.weights, base, n)

\* What a source can give leaves it no less than it may have.
LEMMA MovableLeaves ==
  ASSUME NEW base, NEW n \in Nat, NEW state, WeightedState(state, base, n), NEW source \in 1 .. n
  PROVE  LET m == Movable(state, base, source)
         IN  /\ m \in Nat /\ m <= state.remaining /\ m <= state.weights[source]
             /\ base[source] <= state.weights[source] - m + Cap
<1> DEFINE w == state.weights[source]
           b == base[source]
           r == state.remaining
<1>1. w \in Nat /\ b \in Nat /\ r \in Nat /\ b <= w + Cap /\ Cap \in Nat
  BY DEF WeightedState, Weighted, Cap
<1>2. Movable(state, base, source) = Least(Least(w, AtLeastZero(w - AtLeastZero(b - Cap))), r)
  BY DEF Movable
<1> HIDE DEF w, b, r
<1>3. LET m == Least(Least(w, AtLeastZero(w - AtLeastZero(b - Cap))), r)
      IN  m \in Nat /\ m <= r /\ m <= w /\ b <= w - m + Cap
  BY <1>1 DEF Least, AtLeastZero
<1> QED BY <1>2, <1>3 DEF w, b, r

\* Moving what others gain away from a source conserves the whole.
LEMMA MovedIsWeighted ==
  ASSUME NEW base, NEW n \in Nat, NEW state, WeightedState(state, base, n), NEW source \in 1 .. n,
         NEW gain \in [1 .. n -> Nat],
         \A c \in 1 .. n : gain[c] = 0 \/ state.weights[c] + gain[c] <= base[c] + Cap,
         SumOver(gain, 1 .. n) \in Nat, SumOver(gain, 1 .. n) <= Movable(state, base, source)
  PROVE  WeightedState(Moved(state, source, gain), base, n)
<1> DEFINE D == 1 .. n
           w == state.weights
           total == SumOver(gain, D)
           back == [c \in D |-> IF c = source THEN 0 - total ELSE 0]
           sum == [c \in D |-> w[c] + gain[c]]
           new == [c \in D |-> w[c] + gain[c] - (IF c = source THEN total ELSE 0)]
<1>1. /\ w \in [D -> Nat] /\ base \in [D -> Nat] /\ SumOver(w, D) = Whole
      /\ \A i \in D : w[i] <= base[i] + Cap /\ base[i] <= w[i] + Cap
      /\ state.remaining \in Nat /\ Cap \in Nat
  BY DEF WeightedState, Weighted, Cap
<1>2. /\ total \in Nat /\ total <= state.remaining /\ total <= w[source]
      /\ base[source] <= w[source] - total + Cap
  <2> DEFINE m == Movable(state, base, source)
             r == state.remaining
             v == w[source]
             b == base[source]
  <2>1. m \in Nat /\ m <= r /\ m <= v /\ b <= v - m + Cap
    BY MovableLeaves
  <2>2. total \in Nat /\ total <= m
    OBVIOUS
  <2>3. b \in Nat /\ v \in Nat /\ r \in Nat /\ Cap \in Nat
    BY <1>1
  <2> HIDE DEF total, m, r, v, b
  <2>4. total \in Nat /\ total <= r /\ total <= v /\ b <= v - total + Cap
    BY <2>1, <2>2, <2>3
  <2> QED BY <2>4 DEF r, v, b
<1>3. Moved(state, source, gain) = [weights |-> new, remaining |-> state.remaining - total]
  <2>1. DOMAIN w = D /\ DOMAIN gain = D
    BY <1>1
  <2>2. SumOf(gain) = total
    BY <2>1 DEF SumOf, SumOver
  <2> QED BY <2>1, <2>2 DEF Moved
<1>4. IsFiniteSet(D)
  BY FS_Interval
<1>5. ASSUME NEW c \in D
      PROVE  /\ w[c] \in Nat /\ gain[c] \in Nat /\ base[c] \in Nat
             /\ new[c] \in Nat /\ new[c] <= base[c] + Cap /\ base[c] <= new[c] + Cap
  <2>1. /\ w[c] \in Nat /\ gain[c] \in Nat /\ base[c] \in Nat
        /\ w[c] <= base[c] + Cap /\ base[c] <= w[c] + Cap
        /\ gain[c] = 0 \/ w[c] + gain[c] <= base[c] + Cap
    BY <1>1
  <2> DEFINE v == w[c]
             g == gain[c]
             b == base[c]
             e == new[c]
  <2>2. e = v + g - (IF c = source THEN total ELSE 0)
    OBVIOUS
  <2>3. c = source => total <= v /\ b <= v - total + Cap
    BY <1>2
  <2>4. /\ v \in Nat /\ g \in Nat /\ b \in Nat /\ total \in Nat /\ Cap \in Nat
        /\ v <= b + Cap /\ b <= v + Cap
        /\ g = 0 \/ v + g <= b + Cap
    BY <1>1, <1>2, <2>1
  <2> HIDE DEF v, g, b, e, total
  <2>5. e \in Nat /\ e <= b + Cap /\ b <= e + Cap
    <3>1. CASE c = source
      <4>1. e = v + g - total /\ total <= v /\ b <= v - total + Cap
        BY <2>2, <2>3, <3>1
      <4> QED BY <2>4, <4>1
    <3>2. CASE c # source
      <4>1. e = v + g - 0
        BY <2>2, <3>2
      <4> QED BY <2>4, <4>1
    <3> QED BY <3>1, <3>2
  <2> QED BY <2>4, <2>5 DEF v, g, b, e
<1>6. SumOver(new, D) = Whole
  <2>1. \A c \in D : w[c] \in Int /\ gain[c] \in Int /\ sum[c] = w[c] + gain[c]
    BY <1>1
  <2>2. \A c \in D : sum[c] \in Int /\ back[c] \in Int /\ new[c] = sum[c] + back[c]
    <3> SUFFICES ASSUME NEW c \in D
                 PROVE  sum[c] \in Int /\ back[c] \in Int /\ new[c] = sum[c] + back[c]
      OBVIOUS
    <3>1. w[c] \in Nat /\ gain[c] \in Nat /\ total \in Nat
      BY <1>2, <1>5
    <3> HIDE DEF w, total
    <3> QED BY <3>1
  <2>3. back[source] = 0 - total /\ back[source] \in Int /\ \A c \in D \ {source} : back[c] = 0
    BY <1>2
  <2>4. source \in D
    OBVIOUS
  <2> HIDE DEF D, w, sum, back, new
  <2>5. SumOver(sum, D) = SumOver(w, D) + total
    BY <1>4, <2>1, SumOfSummed
  <2>6. SumOver(new, D) = SumOver(sum, D) + SumOver(back, D)
    BY <1>4, <2>2, SumOfSummed
  <2>7. SumOver(back, D) = 0 - total
    BY <1>4, <2>3, <2>4, SumOfOne
  <2>8. Whole \in Int
    BY DEF Whole
  <2> HIDE DEF total
  <2> QED BY <1>1, <1>2, <2>5, <2>6, <2>7, <2>8
<1>7. state.remaining - total \in Nat
  <2> DEFINE r == state.remaining
  <2>1. r \in Nat /\ total \in Nat /\ total <= r
    BY <1>1, <1>2
  <2> HIDE DEF total, r
  <2>2. r - total \in Nat
    BY <2>1
  <2> QED BY <2>2 DEF r
<1>8. new \in [D -> Nat]
  BY <1>5
<1>9. Weighted(new, base, n)
  <2> HIDE DEF new, w, total
  <2> QED BY <1>1, <1>5, <1>6, <1>8 DEF Weighted
<1> HIDE DEF new, total
<1> QED BY <1>3, <1>7, <1>9 DEF WeightedState

\* One source gives.
LEMMA MoveIsWeighted ==
  ASSUME NEW base, NEW n \in Nat, NEW state, WeightedState(state, base, n), NEW source \in 1 .. n,
         NEW targets \in SUBSET (1 .. n), targets # {}
  PROVE  WeightedState(MoveFrom(state, base, source, targets), base, n)
<1> DEFINE m == Movable(state, base, source)
           room(c) == AtLeastZero(base[c] + Cap - state.weights[c])
           gain == [c \in 1 .. n |-> IF c \in targets THEN Least(Share(m, targets, c), room(c)) ELSE 0]
           share == [c \in 1 .. n |-> Share(m, targets, c)]
<1>1. m \in Nat
  BY MovableLeaves
<1>2. (\A c \in targets : share[c] \in Nat) /\ SumOver(share, targets) = m
  <2>1. \A c \in targets : share[c] = Share(m, targets, c)
    OBVIOUS
  <2> HIDE DEF share, m
  <2> QED BY <1>1, <2>1, SharesAddUp
<1>3. \A c \in 1 .. n : room(c) \in Nat /\ state.weights[c] + room(c) <= base[c] + Cap
  <2> SUFFICES ASSUME NEW c \in 1 .. n
               PROVE  room(c) \in Nat /\ state.weights[c] + room(c) <= base[c] + Cap
    OBVIOUS
  <2>1. /\ state.weights[c] \in Nat /\ base[c] \in Nat /\ Cap \in Nat
        /\ state.weights[c] <= base[c] + Cap
    BY DEF WeightedState, Weighted, Cap
  <2> QED BY <2>1 DEF AtLeastZero
<1>4. ASSUME NEW c \in 1 .. n
      PROVE  /\ gain[c] \in Nat
             /\ gain[c] = 0 \/ state.weights[c] + gain[c] <= base[c] + Cap
             /\ c \in targets => gain[c] <= share[c]
             /\ c \notin targets => gain[c] = 0
  <2>1. CASE c \notin targets
    BY <2>1
  <2>2. CASE c \in targets
    <3>1. gain[c] = Least(share[c], room(c))
      BY <2>2
    <3>2. /\ share[c] \in Nat /\ room(c) \in Nat /\ state.weights[c] + room(c) <= base[c] + Cap
          /\ state.weights[c] \in Nat /\ base[c] + Cap \in Nat
      <4>1. /\ state.weights[c] \in Nat /\ base[c] \in Nat /\ Cap \in Nat
        BY DEF WeightedState, Weighted, Cap
      <4> HIDE DEF share, room
      <4> QED BY <1>2, <1>3, <2>2, <4>1
    <3> HIDE DEF gain, share, room
    <3> QED BY <2>2, <3>1, <3>2 DEF Least
  <2> QED BY <2>1, <2>2
<1>5. gain \in [1 .. n -> Nat]
  BY <1>4
<1>6. SumOver(gain, 1 .. n) \in Nat /\ SumOver(gain, 1 .. n) <= m
  <2> HIDE DEF gain, share, m
  <2>1. IsFiniteSet(1 .. n) /\ IsFiniteSet(targets)
    BY FS_Interval, Positions
  <2>2. SumOver(gain, 1 .. n) = SumOver(gain, targets)
    <3>1. \A c \in 1 .. n : gain[c] \in Int
      BY <1>4
    <3>2. \A c \in (1 .. n) \ targets : gain[c] = 0
      BY <1>4
    <3> QED BY <2>1, <3>1, <3>2, SumOfPart
  <2>3. \A c \in targets : gain[c] \in Int /\ share[c] \in Int /\ gain[c] <= share[c]
    BY <1>2, <1>4
  <2>4. SumOver(gain, targets) \in Int /\ SumOver(gain, targets) <= SumOver(share, targets)
    BY <2>1, <2>3, SumGrows
  <2>5. SumOver(gain, targets) >= 0
    <3>1. \A c \in targets : gain[c] \in Nat
      BY <1>4
    <3>2. SumOver(gain, targets) \in Nat
      BY <2>1, <3>1, NoNegativeSum
    <3> QED BY <3>2
  <2> QED BY <1>2, <2>2, <2>4, <2>5
<1>7. MoveFrom(state, base, source, targets) = Moved(state, source, gain)
  <2>1. DOMAIN base = 1 .. n
    BY DEF WeightedState, Weighted
  <2> QED BY <2>1 DEF MoveFrom
<1> HIDE DEF gain, m
<1>8. WeightedState(Moved(state, source, gain), base, n)
  BY <1>4, <1>5, <1>6, MovedIsWeighted DEF m
<1> QED BY <1>7, <1>8

\* What one source gives, unless enough has been moved.
Given(base, targets, source, state) ==
  IF state.remaining <= 0 THEN state ELSE MoveFrom(state, base, source, targets)

\* g lets the sources give one after the other, the first one first.
Gives(g, base, targets, start, S) ==
  g = [s \in SUBSET S |-> IF s = {} THEN start ELSE Given(base, targets, Max(s), g[s \ {Max(s)}])]

\* Of positions the last can be taken away.
LEMMA TakeTheLast ==
  ASSUME NEW n \in Nat, NEW S \in SUBSET (1 .. n), NEW s \in SUBSET S
  PROVE  /\ Cardinality(s) \in Nat
         /\ Cardinality(s) = 0 <=> s = {}
         /\ s # {} => /\ Max(s) \in s
                      /\ s \ {Max(s)} \in SUBSET S
                      /\ Cardinality(s \ {Max(s)}) = Cardinality(s) - 1
<1>1. IsFiniteSet(s) /\ Cardinality(s) \in Nat /\ s \in SUBSET Nat
  BY Positions
<1>2. Cardinality(s) = 0 <=> s = {}
  BY <1>1, FS_EmptySet
<1>3. s # {} => Max(s) \in s
  <2>1. \A k \in s : k \in 1 .. n
    OBVIOUS
  <2>2. \A k \in s : k <= n
    BY <2>1
  <2> QED BY <1>1, <2>2, Highest
<1>4. s # {} => Cardinality(s \ {Max(s)}) = Cardinality(s) - 1
  BY <1>1, <1>3, FS_RemoveElement
<1> QED BY <1>1, <1>2, <1>3, <1>4

LEMMA GivesExists ==
  ASSUME NEW n \in Nat, NEW S \in SUBSET (1 .. n), NEW base, NEW targets, NEW start
  PROVE  \E g : Gives(g, base, targets, start, S)
<1> DEFINE Small(m) == {s \in SUBSET S : Cardinality(s) <= m}
           step(s, state) == Given(base, targets, Max(s), state)
           Sofar(g, m) == g = [s \in Small(m) |->
                                 IF s = {} THEN start ELSE step(s, g[s \ {Max(s)}])]
           P == {m \in Nat : \E g : Sofar(g, m)}
<1>1. \A s \in SUBSET S : /\ Cardinality(s) \in Nat
                          /\ Cardinality(s) = 0 <=> s = {}
                          /\ s # {} => /\ Max(s) \in s
                                       /\ s \ {Max(s)} \in SUBSET S
                                       /\ Cardinality(s \ {Max(s)}) = Cardinality(s) - 1
  BY TakeTheLast
<1> HIDE DEF step
<1>2. 0 \in P
  <2>1. \A s : s \in Small(0) <=> s = {}
    <3>1. \A s \in SUBSET S : Cardinality(s) <= 0 <=> s = {}
      <4>1. \A s \in SUBSET S : Cardinality(s) \in Nat
        BY <1>1
      <4>2. \A s \in SUBSET S : Cardinality(s) = 0 <=> s = {}
        BY <1>1
      <4>3. \A s \in SUBSET S : Cardinality(s) <= 0 <=> Cardinality(s) = 0
        BY <4>1
      <4> QED BY <4>2, <4>3
    <3> QED BY <3>1
  <2> DEFINE g == [s \in Small(0) |-> start]
  <2>2. \A s \in Small(0) : s = {}
    BY <2>1
  <2>3. g = [s \in Small(0) |-> IF s = {} THEN start ELSE step(s, g[s \ {Max(s)}])]
    <3> HIDE DEF Small
    <3> QED BY <2>2
  <2> HIDE DEF Small, g
  <2> QED BY <2>3
<1>3. \A m \in P : m + 1 \in P
  <2> SUFFICES ASSUME NEW m \in Nat, NEW g, Sofar(g, m)
               PROVE  \E f : Sofar(f, m + 1)
    <3> HIDE DEF Sofar
    <3> QED OBVIOUS
  <2> DEFINE f == [s \in Small(m + 1) |->
                     IF s = {} THEN start ELSE step(s, g[s \ {Max(s)}])]
  <2>1. \A s \in Small(m) : s \in Small(m + 1) /\ f[s] = g[s]
    <3>1. \A s \in Small(m) : s \in Small(m + 1)
      <4>1. \A s \in SUBSET S : Cardinality(s) \in Nat
        BY <1>1
      <4> QED BY <4>1
    <3> HIDE DEF Small
    <3> QED BY <3>1
  <2>2. \A s \in Small(m + 1) : s # {} => s \ {Max(s)} \in Small(m)
    BY <1>1
  <2>3. f = [s \in Small(m + 1) |-> IF s = {} THEN start ELSE step(s, f[s \ {Max(s)}])]
    <3> HIDE DEF Small
    <3> QED BY <2>1, <2>2
  <2> HIDE DEF Small, f
  <2> QED BY <2>3
<1>4. P = Nat
  <2> HIDE DEF P
  <2>1. P \in SUBSET Nat
    BY DEF P
  <2> QED BY <1>2, <1>3, <2>1, EveryNumber
<1>5. IsFiniteSet(S) /\ Cardinality(S) \in Nat
  BY Positions
<1>6. Small(Cardinality(S)) = SUBSET S
  <2>1. \A s \in SUBSET S : Cardinality(s) <= Cardinality(S)
    BY <1>5, FS_Subset
  <2> QED BY <2>1
<1>7. PICK g : Sofar(g, Cardinality(S))
  <2> HIDE DEF Sofar
  <2> QED BY <1>4, <1>5
<1>8. g = [s \in SUBSET S |-> IF s = {} THEN start ELSE step(s, g[s \ {Max(s)}])]
  <2> HIDE DEF Small
  <2> QED BY <1>6, <1>7
<1> QED BY <1>8 DEF Gives, step

\* What the fold over the sources comes to.
Start(w, requested) == [weights |-> w, remaining |-> Least(1000, requested)]

LEMMA TransferIs ==
  ASSUME NEW n \in Nat, NEW S \in SUBSET (1 .. n), S # {},
         NEW w, NEW base, NEW targets, targets # {}, NEW requested, ~(requested <= 0)
  PROVE  \E g : /\ Gives(g, base, targets, Start(w, requested), S)
                /\ Transfer(w, base, S, targets, requested) = g[S].weights
<1> DEFINE start == Start(w, requested)
           K == CHOOSE k : k = [s \in SUBSET S |-> IF s = {} THEN start
                   ELSE IF k[s \ {Max(s)}].remaining <= 0 THEN k[s \ {Max(s)}]
                        ELSE MoveFrom(k[s \ {Max(s)}], base, Max(s), targets)]
<1>1. \E g : Gives(g, base, targets, start, S)
  BY GivesExists
<1>2. Gives(K, base, targets, start, S)
  BY <1>1 DEF Gives, Given
<1>3. Transfer(w, base, S, targets, requested) = K[S].weights
  BY DEF Transfer, MapThenFoldSet, Start
<1> HIDE DEF K
<1> QED BY <1>2, <1>3

\* A transfer between candidates conserves the whole and keeps every weight
\* near its first, from whatever sources to whatever targets.
LEMMA TransferIsWeighted ==
  ASSUME NEW base, NEW n \in Nat, NEW w, Weighted(w, base, n),
         NEW S \in SUBSET (1 .. n), NEW targets \in SUBSET (1 .. n), NEW requested \in Nat
  PROVE  Weighted(Transfer(w, base, S, targets, requested), base, n)
<1> DEFINE start == Start(w, requested)
<1>1. CASE S = {} \/ targets = {} \/ requested <= 0
  <2>1. Transfer(w, base, S, targets, requested) = w
    BY <1>1, Zenon DEF Transfer
  <2> QED BY <2>1
<1>2. CASE ~(S = {} \/ targets = {} \/ requested <= 0)
  <2>1. PICK g : /\ Gives(g, base, targets, start, S)
                 /\ Transfer(w, base, S, targets, requested) = g[S].weights
    <3>1. S # {} /\ targets # {} /\ ~(requested <= 0)
      BY <1>2
    <3> QED BY <3>1, TransferIs
  <2> DEFINE Good(T) == WeightedState(g[T], base, n)
             P == {k \in Nat : \A T \in SUBSET S : Cardinality(T) = k => Good(T)}
  <2>2. /\ g[{}] = start
        /\ \A T \in SUBSET S : T # {} => g[T] = Given(base, targets, Max(T), g[T \ {Max(T)}])
    <3> HIDE DEF start
    <3> QED BY <2>1 DEF Gives
  <2>3. Good({})
    <3>1. Least(1000, requested) \in Nat
      BY DEF Least
    <3> QED BY <2>2, <3>1 DEF WeightedState, Start
  <2>4. 0 \in P
    <3>1. \A T \in SUBSET S : Cardinality(T) = 0 => T = {}
      BY TakeTheLast
    <3> HIDE DEF Good
    <3> QED BY <2>3, <3>1
  <2>5. \A k \in P : k + 1 \in P
    <3> SUFFICES ASSUME NEW k \in Nat, \A T \in SUBSET S : Cardinality(T) = k => Good(T),
                        NEW T \in SUBSET S, Cardinality(T) = k + 1
                 PROVE  Good(T)
      <4> HIDE DEF Good
      <4> QED OBVIOUS
    <3> DEFINE x == Max(T)
               state == g[T \ {x}]
    <3>1. T # {}
      <4>1. T = {} => Cardinality(T) = 0
        BY FS_EmptySet
      <4> QED BY <4>1
    <3>2. x \in T /\ T \ {x} \in SUBSET S /\ Cardinality(T \ {x}) = k
      <4>1. x \in T /\ T \ {x} \in SUBSET S /\ Cardinality(T \ {x}) = Cardinality(T) - 1
        BY <3>1, TakeTheLast
      <4> HIDE DEF x
      <4> QED BY <4>1
    <3>3. WeightedState(state, base, n)
      <4>1. Good(T \ {x})
        <5> HIDE DEF Good, x
        <5> QED BY <3>2
      <4> QED BY <4>1
    <3>4. x \in 1 .. n
      <4> HIDE DEF x
      <4> QED BY <3>2
    <3>5. g[T] = Given(base, targets, x, state)
      BY <2>2, <3>1
    <3> HIDE DEF x, state
    <3>6. targets # {}
      BY <1>2
    <3>7. WeightedState(MoveFrom(state, base, x, targets), base, n)
      BY <3>3, <3>4, <3>6, MoveIsWeighted
    <3>8. Given(base, targets, x, state) \in {state, MoveFrom(state, base, x, targets)}
      BY DEF Given
    <3> QED BY <3>3, <3>5, <3>7, <3>8
  <2>6. P = Nat
    <3> HIDE DEF P
    <3>1. P \in SUBSET Nat
      BY DEF P
    <3> QED BY <2>4, <2>5, <3>1, EveryNumber
  <2>7. Good(S)
    <3>1. Cardinality(S) \in Nat
      BY Positions
    <3> HIDE DEF Good
    <3> QED BY <2>6, <3>1
  <2> QED BY <2>1, <2>7 DEF WeightedState
<1> QED BY <1>1, <1>2

\* How a trait directs a transfer does not matter for that.
LEMMA DirectedIsWeighted ==
  ASSUME NEW base, NEW n \in Nat, NEW w, Weighted(w, base, n), NEW trait \in 0 .. 100,
         NEW low \in SUBSET (1 .. n), NEW high \in SUBSET (1 .. n)
  PROVE  Weighted(Directed(w, base, trait, low, high), base, n)
<1> DEFINE much == CenteredTransfer(trait)
<1>1. much \in Nat
  BY DEF CenteredTransfer
<1> HIDE DEF much
<1>2. /\ Weighted(Transfer(w, base, low, high, much), base, n)
      /\ Weighted(Transfer(w, base, high, low, much), base, n)
  BY <1>1, TransferIsWeighted
<1>3. Directed(w, base, trait, low, high) \in {Transfer(w, base, low, high, much),
                                               Transfer(w, base, high, low, much)}
  BY DEF Directed, much
<1> QED BY <1>2, <1>3

\* The four rules of a persona.
LEMMA PersonaIsWeighted ==
  ASSUME NEW n \in Nat, NEW list, DOMAIN list = 1 .. n, NEW base, Weighted(base, base, n),
         NEW persona \in [tightness : 0 .. 100, pressureCall : 0 .. 100,
                          aggression : 0 .. 100, riskPreference : 0 .. 100]
  PROVE  Weighted(PersonaWeights(list, base, persona), base, n)
<1> DEFINE of(types) == PlacesOf(list, types)
           going == of({"check", "call", "bet", "raise", "allIn"})
           sizes == of({"bet", "raise"})
           tight == Directed(base, base, persona.tightness, going, of({"fold"}))
           pressed == Directed(tight, base, persona.pressureCall, of({"fold"}), of({"call"}))
           checked == Directed(pressed, base, persona.aggression, of({"check"}), of({"bet"}))
           called == Directed(pressed, base, persona.aggression, of({"call"}), of({"raise"}))
           first == IF persona.aggression >= 50 THEN of({"check"}) ELSE of({"bet"})
           aggressive == IF first # {} THEN checked ELSE called
           ended == Directed(aggressive, base, persona.riskPreference, {Min(sizes)}, {Max(sizes)})
<1>1. \A types : of(types) \in SUBSET (1 .. n)
  BY DEF PlacesOf
<1>2. /\ persona.tightness \in 0 .. 100 /\ persona.pressureCall \in 0 .. 100
      /\ persona.aggression \in 0 .. 100 /\ persona.riskPreference \in 0 .. 100
  OBVIOUS
<1>3. PersonaWeights(list, base, persona) = IF Cardinality(sizes) > 1 THEN ended ELSE aggressive
  BY DEF PersonaWeights
<1> HIDE DEF of
<1>4. Weighted(tight, base, n)
  BY <1>1, <1>2, DirectedIsWeighted
<1> HIDE DEF tight
<1>5. Weighted(pressed, base, n)
  BY <1>1, <1>2, <1>4, DirectedIsWeighted
<1> HIDE DEF pressed
<1>6. Weighted(checked, base, n) /\ Weighted(called, base, n)
  BY <1>1, <1>2, <1>5, DirectedIsWeighted
<1>7. Weighted(aggressive, base, n)
  <2> HIDE DEF checked, called, first
  <2> QED BY <1>6
<1> HIDE DEF aggressive
<1>8. ASSUME Cardinality(sizes) > 1 PROVE Weighted(ended, base, n)
  <2>1. sizes \in SUBSET (1 .. n)
    BY <1>1
  <2> DEFINE low == Min(sizes)
             high == Max(sizes)
  <2>2. sizes # {}
    <3>1. Cardinality({}) = 0 /\ ~(0 > 1)
      BY FS_EmptySet
    <3> QED BY <1>8, <3>1
  <2> HIDE DEF sizes
  <2>3. low \in sizes /\ high \in sizes
    BY <2>1, <2>2, LeastPosition, TakeTheLast
  <2>4. {low} \in SUBSET (1 .. n) /\ {high} \in SUBSET (1 .. n)
    BY <2>1, <2>3
  <2> HIDE DEF low, high
  <2> QED BY <1>2, <1>7, <2>4, DirectedIsWeighted DEF low, high
<1> HIDE DEF ended, sizes
<1> QED BY <1>3, <1>7, <1>8

-----------------------------------------------------------------------------
(* There are finitely many candidates.                                     *)

LEMMA FewAreFinite ==
  ASSUME NEW a, NEW b, NEW c, NEW d, NEW e
  PROVE  IsFiniteSet({a, b, c, d, e})
<1>1. IsFiniteSet({a})
  BY FS_Singleton
<1>2. IsFiniteSet({a} \cup {b})
  BY <1>1, FS_AddElement
<1>3. IsFiniteSet(({a} \cup {b}) \cup {c})
  BY <1>2, FS_AddElement
<1>4. IsFiniteSet((({a} \cup {b}) \cup {c}) \cup {d})
  BY <1>3, FS_AddElement
<1>5. IsFiniteSet(((({a} \cup {b}) \cup {c}) \cup {d}) \cup {e})
  BY <1>4, FS_AddElement
<1>6. ((({a} \cup {b}) \cup {c}) \cup {d}) \cup {e} = {a, b, c, d, e}
  OBVIOUS
<1> QED BY <1>5, <1>6

LEMMA ImageIsFinite ==
  ASSUME NEW S, IsFiniteSet(S), NEW f
  PROVE  IsFiniteSet({f[x] : x \in S})
<1> DEFINE Image(T) == {f[x] : x \in T}
           P == {T \in SUBSET S : IsFiniteSet(Image(T))}
<1>1. {} \in P
  <2>1. Image({}) = {}
    OBVIOUS
  <2> HIDE DEF Image
  <2> QED BY <2>1, FS_EmptySet
<1>2. \A T \in P : \A x \in S \ T : T \cup {x} \in P
  <2> SUFFICES ASSUME NEW T \in SUBSET S, IsFiniteSet(Image(T)), NEW x \in S \ T
               PROVE  IsFiniteSet(Image(T \cup {x}))
    OBVIOUS
  <2>1. Image(T \cup {x}) = Image(T) \cup {f[x]}
    OBVIOUS
  <2>2. IsFiniteSet(Image(T) \cup {f[x]})
    <3> HIDE DEF Image
    <3> QED BY FS_AddElement
  <2> HIDE DEF Image
  <2> QED BY <2>1, <2>2
<1>3. S \in P
  <2>1. P \in SUBSET SUBSET S
    OBVIOUS
  <2> HIDE DEF P
  <2> QED BY <1>1, <1>2, <2>1, FiniteSetsGrow
<1> QED BY <1>3

LEMMA CandidatesAreFinite == ASSUME NEW t PROVE IsFiniteSet(Candidates(t))
<1> DEFINE Only(type, n) == [type |-> type, min |-> n, max |-> n]
           toCall == AmountToCall(t)
           few == {Only("fold", 0), Only("check", 0), Only("call", toCall), Only("allIn", AllInTarget(t)),
                   [type |-> BetType(t), min |-> MinTarget(t), max |-> AllInTarget(t) - 1]}
           Offered(legal) == IF legal.type \in {"bet", "raise"}
                             THEN {[type |-> legal.type, target |-> n] : n \in SuggestedTargets(t, legal)}
                             ELSE {[type |-> legal.type, target |-> legal.min]}
           offers == [legal \in LegalActions(t) |-> Offered(legal)]
<1>1. IsFiniteSet(few)
  BY FewAreFinite
<1>2. LegalActions(t) \in SUBSET few
  BY DEF LegalActions, ActionsFacing
<1> HIDE DEF few
<1>3. IsFiniteSet(LegalActions(t))
  BY <1>1, <1>2, FS_Subset
<1>4. ASSUME NEW legal PROVE IsFiniteSet(Offered(legal))
  <2> DEFINE pot == t.pot + AmountToCall(t)
             at == t.currentBet
             Clamp(n) == IF n < legal.min THEN legal.min ELSE IF n > legal.max THEN legal.max ELSE n
             half == (pot + 2 - 1) \div 2
             twoThirds == (2 * pot + 3 - 1) \div 3
             clamped == [n \in {legal.min, at + half, at + twoThirds, at + pot, at + pot} |-> Clamp(n)]
             named == [n \in SuggestedTargets(t, legal) |-> [type |-> legal.type, target |-> n]]
  <2>1. IsFiniteSet(SuggestedTargets(t, legal))
    <3>1. SuggestedTargets(t, legal) = {clamped[n] : n \in {legal.min, at + half, at + twoThirds,
                                                            at + pot, at + pot}}
      BY DEF SuggestedTargets
    <3>2. IsFiniteSet({legal.min, at + half, at + twoThirds, at + pot, at + pot})
      BY FewAreFinite
    <3> HIDE DEF clamped, half, twoThirds, pot
    <3> QED BY <3>1, <3>2, ImageIsFinite
  <2>2. IsFiniteSet({named[n] : n \in SuggestedTargets(t, legal)})
    <3> HIDE DEF named
    <3> QED BY <2>1, ImageIsFinite
  <2>3. {named[n] : n \in SuggestedTargets(t, legal)}
          = {[type |-> legal.type, target |-> n] : n \in SuggestedTargets(t, legal)}
    OBVIOUS
  <2>4. IsFiniteSet({[type |-> legal.type, target |-> legal.min]})
    BY FS_Singleton
  <2> HIDE DEF named
  <2> QED BY <2>2, <2>3, <2>4
<1>5. Candidates(t) = UNION {offers[legal] : legal \in LegalActions(t)}
  BY DEF Candidates
<1>6. IsFiniteSet({offers[legal] : legal \in LegalActions(t)})
  <2> HIDE DEF offers
  <2> QED BY <1>3, ImageIsFinite
<1>7. \A T \in {offers[legal] : legal \in LegalActions(t)} : IsFiniteSet(T)
  <2>1. \A legal \in LegalActions(t) : offers[legal] = Offered(legal)
    OBVIOUS
  <2> HIDE DEF offers, Offered
  <2> QED BY <1>4, <2>1
<1>8. IsFiniteSet(UNION {offers[legal] : legal \in LegalActions(t)})
  <2> DEFINE all == {offers[legal] : legal \in LegalActions(t)}
  <2>1. IsFiniteSet(all) /\ \A T \in all : IsFiniteSet(T)
    BY <1>6, <1>7
  <2> HIDE DEF all
  <2>2. IsFiniteSet(UNION all)
    BY <2>1, FS_UNION
  <2> QED BY <2>2 DEF all
<1> HIDE DEF offers
<1> QED BY <1>5, <1>8

LEMMA WeightedIsClosed ==
  ASSUME NEW base, NEW n \in Nat, NEW w, Weighted(w, base, n)
  PROVE  WeightsClosed(w) /\ WeightsNear(w, base)
<1>1. w \in [1 .. n -> Nat] /\ base \in [1 .. n -> Nat] /\ SumOver(w, 1 .. n) = Whole
  BY DEF Weighted
<1>2. SumOf(w) = Whole
  BY <1>1 DEF SumOf, SumOver
<1>3. \A i \in 1 .. n : w[i] \in 0 .. Whole
  <2>1. IsFiniteSet(1 .. n) /\ \A i \in 1 .. n : w[i] \in Nat
    <3>1. IsFiniteSet(1 .. n)
      BY FS_Interval
    <3> QED BY <1>1, <3>1
  <2>2. \A i \in 1 .. n : w[i] <= Whole
    BY <1>1, <2>1, NoNegativeSum
  <2>3. Whole \in Nat
    BY DEF Whole
  <2> QED BY <2>1, <2>2, <2>3
<1>4. \A i \in 1 .. n : w[i] - base[i] \in -Cap .. Cap
  <2> SUFFICES ASSUME NEW i \in 1 .. n PROVE w[i] - base[i] \in -Cap .. Cap
    OBVIOUS
  <2> DEFINE v == w[i]
             b == base[i]
  <2>1. v \in Nat /\ b \in Nat /\ v <= b + Cap /\ b <= v + Cap /\ Cap \in Nat
    BY DEF Weighted, Cap
  <2> HIDE DEF v, b
  <2>2. v - b \in -Cap .. Cap
    BY <2>1
  <2> QED BY <2>2 DEF v, b
<1>5. DOMAIN w = 1 .. n
  BY <1>1
<1> QED BY <1>2, <1>3, <1>4, <1>5 DEF WeightsClosed, WeightsNear

\* What is offered to the model (the weights of generateHeuristicCandidates
\* and those applyPersonaDeviationPolicy makes of them) is a distribution, for
\* every list of candidates and every persona, and the transfers, rounded and
\* cut as they are, neither lose nor create weight, nor add up over the four
\* rules to more than the cap.
THEOREM OfferedIsADistribution == DecisionSpec => []WeightsAreADistribution
<1>1. TableInv /\ PlayInv => WeightsAreADistribution
  <2> SUFFICES ASSUME TableInv, PlayInv, Deciding PROVE WeightsAreADistribution
    BY DEF WeightsAreADistribution
  <2> DEFINE list == CandidateList(table)
             n == Cardinality(Candidates(table))
             base == HeuristicWeights(list)
             persona == Personas[table.actor]
             offered == PersonaWeights(list, base, persona)
  <2>1. table.street \in ActionStreets /\ table \in TableRecords /\ InPlay(table) /\ Stakes(table)
    BY DEF Deciding, TableInv, PlayInv, SoundPlay
  <2>2. n \in Nat /\ n > 0
    <3>1. Candidates(table) # {}
      BY SomeCandidate
    <3>2. IsFiniteSet(Candidates(table))
      BY CandidatesAreFinite
    <3>3. n \in Nat /\ n # 0
      BY <3>1, <3>2, FS_CardinalityType, FS_EmptySet
    <3> HIDE DEF n
    <3> QED BY <3>3
  <2>3. DOMAIN list = 1 .. n
    BY DEF CandidateList
  <2>4. persona \in [tightness : 0 .. 100, pressureCall : 0 .. 100,
                     aggression : 0 .. 100, riskPreference : 0 .. 100]
    BY <2>1, PersonasAssumption DEF InPlay
  <2> HIDE DEF list, n, persona
  <2>5. Weighted(base, base, n)
    <3>1. base \in [1 .. n -> Nat] /\ SumOver(base, 1 .. n) = Whole
      BY <2>2, <2>3, HeuristicIsClosed
    <3>2. \A i \in 1 .. n : base[i] <= base[i] + Cap
      <4>1. \A i \in 1 .. n : base[i] \in Nat
        BY <3>1
      <4>2. Cap \in Nat
        BY DEF Cap
      <4> HIDE DEF base
      <4> QED BY <4>1, <4>2
    <3> HIDE DEF base
    <3> QED BY <3>1, <3>2 DEF Weighted
  <2> HIDE DEF base
  <2>6. Weighted(offered, base, n)
    BY <2>2, <2>3, <2>4, <2>5, PersonaIsWeighted
  <2> HIDE DEF offered
  <2>7. WeightsClosed(base) /\ WeightsClosed(offered) /\ WeightsNear(offered, base)
    BY <2>2, <2>5, <2>6, WeightedIsClosed
  <2> QED BY <2>7 DEF WeightsAreADistribution, list, base, offered, persona
<1> QED BY <1>1, DecisionsKeepTable, PTL DEF DecisionSpec

=============================================================================
