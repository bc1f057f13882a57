---------------------------- MODULE DecisionRules ---------------------------
(***************************************************************************)
(* What is computed from a table before an AI seat decides: which part of  *)
(* the pot it can win, what each candidate would lead to, and with which   *)
(* weights the candidates are offered (poker/contestable-pot.ts,           *)
(* candidate-outcomes.ts, decision-metrics.ts, decision-spot.ts and        *)
(* agents/player/player-decision-policies.ts).  The code throws when a     *)
(* table does not fit its expectations; here every such check is a         *)
(* conjunct.                                                               *)
(***************************************************************************)
EXTENDS PokerRules

Hero(t) == t.seats[t.actor]
Least(a, b) == IF a < b THEN a ELSE b
AtLeastZero(n) == IF n < 0 THEN 0 ELSE n

-----------------------------------------------------------------------------
(* The contestable pot.                                                    *)

(* The most a seat can have put in when the hand is over.                  *)
Reach(seat) == IF seat.status = "active" THEN seat.totalContribution + seat.stack
               ELSE seat.totalContribution

(* The layers of the pot the seat could win.                               *)
ContestablePot(seats, hero) ==
    MapThenSumSet(LAMBDA l : IF hero \in Layer(seats, l).eligible THEN Layer(seats, l).amount ELSE 0,
                  Levels(seats))

MostOthersReach(seats, hero) == Max({0} \union {Reach(seats[s]) : s \in Seats \ {hero}})

(* The largest pot the seat can still play for.                            *)
MaximumContestable(seats, hero) ==
    LET matched == Least(Reach(seats[hero]), MostOthersReach(seats, hero))
    IN  ChipSum([s \in Seats |-> Least(matched, Reach(seats[s]))])

ContestableKnown(seats, pot, hero) == InHand(seats[hero]) /\ LayersValid(seats, pot)

-----------------------------------------------------------------------------
(* The outcome of a candidate.                                             *)

(* Broken: what cannot be matched is all that exceeds the current bets.    *)
GuaranteedReturnOfTheBet(t, action) ==
    LET after == BettingTransition(t, action)
    IN  AtLeastZero(after.seats[t.actor].totalContribution
          - Max({0} \union {after.seats[s].totalContribution : s \in Seats \ {t.actor}}))

(* What no opponent can ever match of what a seat has put in.              *)
Unmatchable(seats, hero) ==
    AtLeastZero(seats[hero].totalContribution - MostOthersReach(seats, hero))

(* Of what the action puts in.                                             *)
GuaranteedReturn(t, action) ==
    Least(Delta(t, action), Unmatchable(BettingTransition(t, action).seats, t.actor))

NotAllIn(seat) == [seat EXCEPT !.status = IF @ = "allIn" THEN "active" ELSE @]

(* The table without that part.                                            *)
GivenBack(after, hero, back) ==
    IF back = 0 THEN after
    ELSE [after EXCEPT !.pot = @ - back, !.seats[hero] = NotAllIn(Refunded(@, back))]

RiskAdjusted(t, action) ==
    GivenBack(BettingTransition(t, action), t.actor, GuaranteedReturn(t, action))

(* What goes back of the highest contribution: only what nobody can match  *)
(* any more, which is more once no betting is left.                        *)
ReturnNow(after, terminal) ==
    LET top == UncalledReturn(after.seats)
        reach == Max({0} \union {after.seats[s].totalContribution
                        + (IF ~terminal /\ after.seats[s].status = "active" THEN after.seats[s].stack ELSE 0) :
                          s \in Seats \ {top.seat}})
    IN  IF top.seat = NoSeat THEN top
        ELSE [top EXCEPT !.amount = AtLeastZero(after.seats[top.seat].totalContribution - reach)]

OutcomePotsKnown(after, terminal) ==
    LET back == ReturnNow(after, terminal)
    IN  /\ LayersValid(after.seats, after.pot)
        /\ back.amount > 0 =>
              /\ back.amount <= after.seats[back.seat].streetContribution
              /\ LayersValid([after.seats EXCEPT ![back.seat].totalContribution = @ - back.amount],
                             after.pot - back.amount)

Responders(after) == Owing(after)

CanRaiseFromSeat(after, s) ==
    LET there == [after EXCEPT !.actor = s]
    IN  /\ BettingOpen(there)
        /\ \E legal \in LegalActions(there) :
              \/ legal.type \in {"bet", "raise"}
              \/ legal.type = "allIn" /\ legal.min > after.currentBet

CanRaiseSeats(after) == {s \in Responders(after) : CanRaiseFromSeat(after, s)}

(* Broken: only a full raise is counted as one the actor may have to face. *)
CanFaceFullRaise(t, action) ==
    LET after == BettingTransition(t, action)
    IN  /\ CanAct(after.seats[t.actor])
        /\ \E s \in CanRaiseSeats(after) :
              \E legal \in LegalActions([after EXCEPT !.actor = s]) : legal.type \in {"bet", "raise"}

(* The actor may have to act again on this street.                         *)
CanFaceFurtherAction(t, action) ==
    LET after == BettingTransition(t, action)
    IN  CanAct(after.seats[t.actor]) /\ CanRaiseSeats(after) # {}

IsCall(t, action) ==
    action.type = "call" \/ (action.type = "allIn" /\ BetAfter(t, action) = t.currentBet)

(* The pot the actor can win once the action is done; a fold leaves what   *)
(* it could win before.                                                    *)
ContestableAfter(t, action) ==
    IF action.type = "fold" THEN ContestablePot(t.seats, t.actor)
    ELSE ContestablePot(RiskAdjusted(t, action).seats, t.actor)

(* The stack-to-pot ratio of the next street has a pot to divide by.       *)
NextStreetRatioKnown(t, action) ==
    Continuation(BettingTransition(t, action)) = "nextStreet" /\ t.street # "river" =>
        ContestableAfter(t, action) > 0

(* projectActionOutcome gets through but for that ratio: every layer has a *)
(* winner, what comes back was put in on this street, amounts are not      *)
(* negative and quotients are defined, and the seat that would be next has *)
(* legal actions.                                                          *)
WinnableKnown(t, action, adjusted, winnable) ==
    /\ action.type # "fold" =>
          /\ ContestableKnown(adjusted.seats, adjusted.pot, t.actor)
          /\ winnable >= ContestablePot(t.seats, t.actor)
    /\ IsCall(t, action) => winnable > 0

ContinuationKnown(after, next) ==
    /\ OutcomePotsKnown(after, next \in EndStreets)
    /\ next = "sameStreet" => BettingOpen([after EXCEPT !.actor = NextResponder(after)])
    /\ next = "nextStreet" => BettingOpen(AdvancedStreet(after))

OutcomeKnown(t, action) ==
    LET after == BettingTransition(t, action)
    IN  /\ ContestableKnown(t.seats, t.pot, t.actor)
        /\ t.pot > 0
        /\ Delta(t, action) >= GuaranteedReturn(t, action)
        /\ WinnableKnown(t, action, RiskAdjusted(t, action), ContestableAfter(t, action))
        /\ ContinuationKnown(after, Continuation(after))

-----------------------------------------------------------------------------
(* The candidates: the legal actions with the sizes suggested for them.    *)

Candidates(t) ==
    UNION {IF legal.type \in {"bet", "raise"}
           THEN {[type |-> legal.type, target |-> n] : n \in SuggestedTargets(t, legal)}
           ELSE {[type |-> legal.type, target |-> legal.min]} : legal \in LegalActions(t)}

(* computeDecisionMetrics gets through: the actor can call what it has to  *)
(* call and then has something to win, and after the flop it has an        *)
(* opponent and a pot to relate the stacks to.                             *)
MetricsKnown(t) ==
    /\ CanAct(Hero(t))
    /\ Candidates(t) # {}
    /\ ContestableKnown(t.seats, t.pot, t.actor)
    /\ AmountToCall(t) > 0 =>
          \E call \in Candidates(t) :
             /\ \/ call.type = "call"
                \/ call.type = "allIn" /\ call.target <= t.currentBet
             /\ LayersValid(BettingTransition(t, call).seats, BettingTransition(t, call).pot)
             /\ ContestablePot(BettingTransition(t, call).seats, t.actor) > 0
    /\ t.street # "preflop" =>
          /\ ContestablePot(t.seats, t.actor) > 0
          /\ Contenders(t) \ {t.actor} # {}

-----------------------------------------------------------------------------
(* The spot: how the hand came here, folded out of its public actions.     *)

FreshSpot == [fullRaises |-> 0, limpers |-> 0, callers |-> 0, shortAllIn |-> FALSE,
              calledSince |-> FALSE, squeezed |-> FALSE,
              aggressor |-> NoSeat, target |-> BigBlind, increment |-> BigBlind]

SpotAfter(spot, t, action, after) ==
    LET preflop == t.street = "preflop"
        full == action.type \in {"bet", "raise", "allIn"} /\ IsFullRaise(t, action)
        limp == action.type = "call" /\ spot.fullRaises = 0 /\ t.currentBet = BigBlind
        moved == [spot EXCEPT
            !.fullRaises = @ + (IF preflop /\ full THEN 1 ELSE 0),
            !.limpers = @ + (IF preflop /\ limp THEN 1 ELSE 0),
            !.callers = @ + (IF preflop /\ action.type = "call" /\ ~limp THEN 1 ELSE 0),
            !.shortAllIn = @ \/ (preflop /\ action.type = "allIn" /\ ~full
                                 /\ BetAfter(t, action) > t.currentBet),
            !.calledSince = @ \/ (preflop /\ action.type = "call" /\ spot.fullRaises = 1),
            !.squeezed = @ \/ (preflop /\ full /\ spot.fullRaises = 1 /\ spot.calledSince),
            !.aggressor = IF full THEN t.actor ELSE @,
            !.target = IF full THEN BetAfter(t, action) ELSE @,
            !.increment = IF full THEN BetAfter(t, action) - t.currentBet ELSE @]
    IN  IF after.street = t.street THEN moved
        ELSE [moved EXCEPT !.aggressor = NoSeat, !.target = 0, !.increment = 20]

PreflopNode(t, spot) ==
    CASE t.street # "preflop" -> "notApplicable"
      [] t.street = "preflop" /\ spot.shortAllIn -> "shortAllInTree"
      [] t.street = "preflop" /\ ~spot.shortAllIn /\ spot.fullRaises = 0 ->
            IF spot.limpers > 0 THEN "limped" ELSE "unopened"
      [] t.street = "preflop" /\ ~spot.shortAllIn /\ spot.fullRaises = 1 -> "singleRaised"
      [] t.street = "preflop" /\ ~spot.shortAllIn /\ spot.fullRaises = 2 ->
            IF spot.squeezed THEN "squeezed" ELSE "threeBet"
      [] OTHER -> "fourBetOrMore"

(* The big blind may check or raise although nobody has raised it.         *)
BigBlindOption(t) ==
    /\ t.street = "preflop"
    /\ t.actor = BigBlindSeat(t.button)
    /\ CanAct(Hero(t)) /\ Hero(t).betLevel = NotActed
    /\ t.currentBet = BigBlind
    /\ Hero(t).streetContribution >= t.currentBet
    /\ \E legal \in LegalActions(t) : legal.type = "check"
    /\ \E legal \in LegalActions(t) : \/ legal.type = "raise" /\ legal.max > t.currentBet
                                      \/ legal.type = "allIn" /\ legal.min > t.currentBet

-----------------------------------------------------------------------------
(* Weights of the candidates, in ten-thousandths.                          *)

Whole == 10000
Cap == 2000

(* The share of one of the positions S of a total: equal shares, the first *)
(* positions taking what does not divide.                                  *)
Share(total, S, c) ==
    total \div Cardinality(S)
      + (IF Cardinality({d \in S : d <= c}) <= total % Cardinality(S) THEN 1 ELSE 0)

SumOf(weights) == MapThenSumSet(LAMBDA i : weights[i], DOMAIN weights)

(* The order of the catalogue: fold, check or call, the sizes, all-in.     *)
Place(c) == CASE c.type = "fold" -> -2 [] c.type \in {"check", "call"} -> -1
              [] c.type \in {"bet", "raise"} -> c.target [] c.type = "allIn" -> 1000000

CandidateList(t) ==
    LET offered == Candidates(t)
    IN  [i \in 1 .. Cardinality(offered) |->
            CHOOSE c \in offered : Cardinality({d \in offered : Place(d) < Place(c)}) = i - 1]

PlacesOf(list, types) == {i \in DOMAIN list : list[i].type \in types}

(* The candidates of the same kind; a family is known by its first.        *)
FamilyOf(list, i) == PlacesOf(list, {list[i].type})
FamiliesOf(list) == {i \in DOMAIN list : \A j \in FamilyOf(list, i) : i <= j}

(* Without a strategy every kind of action gets the same weight, shared by *)
(* its sizes.                                                              *)
HeuristicWeights(list) ==
    LET families == FamiliesOf(list)
    IN  [i \in DOMAIN list |->
            LET family == FamilyOf(list, i)
            IN  Share(Share(Whole, families, Min(family)), family, i)]

(* What a source can give: what it has, down to its base weight less the   *)
(* cap, and no more than remains to be moved.                              *)
Movable(state, base, source) ==
    LET w == state.weights[source]
    IN  Least(Least(w, AtLeastZero(w - AtLeastZero(base[source] - Cap))), state.remaining)

Moved(state, source, gain) ==
    LET moved == SumOf(gain)
    IN  [weights |-> [c \in DOMAIN state.weights |->
                         state.weights[c] + gain[c] - (IF c = source THEN moved ELSE 0)],
         remaining |-> state.remaining - moved]

(* Broken: a candidate may gain without limit.                             *)
MoveFromUncapped(state, base, source, targets) ==
    LET movable == Movable(state, base, source)
    IN  Moved(state, source,
              [c \in DOMAIN base |-> IF c \in targets THEN Share(movable, targets, c) ELSE 0])

(* Weight moves from one candidate to others in equal shares, as far as    *)
(* neither side leaves its base weight by more than the cap.               *)
MoveFrom(state, base, source, targets) ==
    LET movable == Movable(state, base, source)
    IN  Moved(state, source,
              [c \in DOMAIN base |->
                  IF c \in targets
                  THEN Least(Share(movable, targets, c), AtLeastZero(base[c] + Cap - state.weights[c]))
                  ELSE 0])

(* One source after the other gives, until enough has been moved.          *)
Transfer(w, base, sources, targets, requested) ==
    IF sources = {} \/ targets = {} \/ requested <= 0 THEN w
    ELSE MapThenFoldSet(LAMBDA source, state : IF state.remaining <= 0 THEN state
                                               ELSE MoveFrom(state, base, source, targets),
                        [weights |-> w, remaining |-> Least(1000, requested)],
                        LAMBDA source : source, LAMBDA S : Max(S), sources).weights

(* How far a trait (0 to 100) is from the middle.                          *)
CenteredTransfer(trait) == ((IF trait < 50 THEN 50 - trait ELSE trait - 50) * 1000) \div 50

Directed(w, base, trait, low, high) ==
    IF trait >= 50 THEN Transfer(w, base, low, high, CenteredTransfer(trait))
    ELSE Transfer(w, base, high, low, CenteredTransfer(trait))

(* The four rules of a persona, one after the other.                       *)
PersonaWeights(list, base, persona) ==
    LET of(types) == PlacesOf(list, types)
        going == of({"check", "call", "bet", "raise", "allIn"})
        sizes == of({"bet", "raise"})
        tight == Directed(base, base, persona.tightness, going, of({"fold"}))
        pressed == Directed(tight, base, persona.pressureCall, of({"fold"}), of({"call"}))
        first == IF persona.aggression >= 50 THEN of({"check"}) ELSE of({"bet"})
        aggressive == IF first # {}
                      THEN Directed(pressed, base, persona.aggression, of({"check"}), of({"bet"}))
                      ELSE Directed(pressed, base, persona.aggression, of({"call"}), of({"raise"}))
    IN  IF Cardinality(sizes) > 1
        THEN Directed(aggressive, base, persona.riskPreference, {Min(sizes)}, {Max(sizes)})
        ELSE aggressive

(* The checks on the weights before they are offered to the model.         *)
WeightsClosed(weights) ==
    /\ SumOf(weights) = Whole
    /\ \A i \in DOMAIN weights : weights[i] \in 0 .. Whole

WeightsNear(weights, base) ==
    \A i \in DOMAIN weights : weights[i] - base[i] \in -Cap .. Cap
=============================================================================
