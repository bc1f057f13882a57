----------------------------- MODULE PokerRules -----------------------------
(***************************************************************************)
(* The rules of one hand of no-limit hold'em as apps/server/src/poker      *)
(* computes them: order of the seats, blinds, legal actions, what an       *)
(* action does, who acts next and when a hand ends, the layers of the pot  *)
(* and their award.  Everything is a pure operator from a table to a       *)
(* table, as in the code, where every function returns a frozen copy.      *)
(*                                                                         *)
(* A table is a record                                                     *)
(*   [street, button, actor, pot, currentBet, minInc, board, seats]        *)
(* and a seat is a record                                                  *)
(*   [status, stack, streetContribution, totalContribution, betLevel].     *)
(* Cards are abstracted to how many lie on the board; how strong a hand is *)
(* is chosen when it is shown.                                             *)
(***************************************************************************)
EXTENDS Integers, Sequences, FiniteSets, FiniteSetsExt, SequencesExt

CONSTANT Seats                        \* the occupied seats of the table

ASSUME SeatsAssumption == Seats \subseteq 0 .. 8 /\ Cardinality(Seats) \in 6 .. 9

SmallBlind == 10
BigBlind == 20
NoSeat == -1
NotActed == -1                        \* betLevelAfterLastAction: null

ActionStreets == {"preflop", "flop", "turn", "river"}
EndStreets == {"showdown", "complete"}
Streets == ActionStreets \union EndStreets \union {"betweenHands"}
Statuses == {"active", "folded", "allIn", "out"}

-----------------------------------------------------------------------------
(* Order of the seats: nine physical seats, clockwise is upwards.          *)

(* How many seats after the anchor a seat is met; the anchor is met last.  *)
Offset(anchor, s) == (s - anchor + 8) % 9

FirstClockwise(anchor, S) ==
    CHOOSE s \in S : \A o \in S : Offset(anchor, s) <= Offset(anchor, o)

(* The button stays for the first hand and then moves to the next seat.    *)
ButtonForHand(button, handsBefore) ==
    IF handsBefore = 0 THEN button ELSE FirstClockwise(button, Seats)

SmallBlindSeat(button) == FirstClockwise(button, Seats \ {button})
BigBlindSeat(button) ==
    FirstClockwise(SmallBlindSeat(button), Seats \ {button, SmallBlindSeat(button)})

(* Logical positions, from the first to act before the flop to the big     *)
(* blind: the index of a seat in the list of position names.               *)
PositionOf(button, s) ==
    Cardinality({o \in Seats : Offset(BigBlindSeat(button), o) < Offset(BigBlindSeat(button), s)})

-----------------------------------------------------------------------------
(* Who is still in the hand, and who can still act.                        *)

InHand(seat) == seat.status \in {"active", "allIn"}
CanAct(seat) == seat.status = "active" /\ seat.stack > 0

Contenders(t) == {s \in Seats : InHand(t.seats[s])}
Actionable(t) == {s \in Seats : CanAct(t.seats[s])}

StillOwesAction(t, s) ==
    /\ CanAct(t.seats[s])
    /\ \/ t.seats[s].betLevel = NotActed
       \/ t.seats[s].streetContribution < t.currentBet

(* The chips of all seats together: reduce over the nine places.           *)
ChipSum(f) ==
    LET sum[n \in 0 .. 9] ==
            IF n = 0 THEN 0 ELSE sum[n - 1] + (IF n - 1 \in DOMAIN f THEN f[n - 1] ELSE 0)
    IN  sum[9]

-----------------------------------------------------------------------------
(* Blinds.  A seat that cannot pay its blind in full is all-in for less;   *)
(* the bet to call is the big blind nevertheless.                          *)

PostBlind(seat, nominal) ==
    LET paid == IF seat.stack < nominal THEN seat.stack ELSE nominal
    IN  [seat EXCEPT !.stack = @ - paid,
                     !.status = IF paid = seat.stack THEN "allIn" ELSE "active",
                     !.streetContribution = @ + paid,
                     !.totalContribution = @ + paid]

PostBlinds(seats, button) ==
    [seats EXCEPT ![SmallBlindSeat(button)] = PostBlind(@, SmallBlind),
                  ![BigBlindSeat(button)] = PostBlind(@, BigBlind)]

(* A hand may only start when every seat has chips.                        *)
ReadySeats(t) ==
    /\ t.street = "betweenHands"
    /\ \A s \in Seats : t.seats[s].status = "active" /\ t.seats[s].stack > 0

StartedHand(t, handsBefore) ==
    LET button == ButtonForHand(t.button, handsBefore)
        seats == PostBlinds([s \in Seats |-> [t.seats[s] EXCEPT !.betLevel = NotActed]], button)
    IN  [street |-> "preflop", button |-> button,
         actor |-> FirstClockwise(BigBlindSeat(button), {s \in Seats : CanAct(seats[s])}),
         pot |-> ChipSum([s \in Seats |-> seats[s].totalContribution]),
         currentBet |-> BigBlind, minInc |-> BigBlind, board |-> 0, seats |-> seats]

-----------------------------------------------------------------------------
(* Legal actions of the seat whose turn it is.                             *)

(* When nobody else can act, only what the others have matched is to call. *)
AmountToCall(t) ==
    LET me == t.seats[t.actor]
        matched == Max({t.seats[s].streetContribution : s \in Contenders(t) \ {t.actor}})
    IN  IF Cardinality(Actionable(t)) = 1
        THEN IF matched > me.streetContribution THEN matched - me.streetContribution ELSE 0
        ELSE t.currentBet - me.streetContribution

(* The guard of getBettingFacts: somebody has to be able to act, and the   *)
(* last one who can must have something to call.                           *)
BettingOpen(t) ==
    /\ Cardinality(Contenders(t)) >= 2
    /\ Actionable(t) # {}
    /\ Cardinality(Actionable(t)) = 1 => AmountToCall(t) > 0

MinTarget(t) == IF t.currentBet = 0 THEN 20 ELSE t.currentBet + t.minInc
AllInTarget(t) == t.seats[t.actor].streetContribution + t.seats[t.actor].stack

(* Broken: an actor may raise again whenever the bet has risen at all.     *)
RaiseReopenedByAnyRaise(t) ==
    \/ t.seats[t.actor].betLevel = NotActed
    \/ t.currentBet > t.seats[t.actor].betLevel

(* Who has acted may raise again only when the bet has since risen by a    *)
(* full raise, be it in several short all-ins.                             *)
RaiseReopened(t) ==
    \/ t.seats[t.actor].betLevel = NotActed
    \/ t.currentBet - t.seats[t.actor].betLevel >= t.minInc

BetType(t) == IF t.currentBet = 0 THEN "bet" ELSE "raise"

(* An action with the smallest and the largest street commitment (for a    *)
(* call: the amount) it may name.                                          *)
ActionsFacing(t, toCall) ==
    LET me == t.seats[t.actor]
        Only(type, n) == {[type |-> type, min |-> n, max |-> n]}
        fold == Only("fold", 0)
        call == IF toCall = 0 THEN Only("check", 0)
                ELSE IF toCall < me.stack THEN Only("call", toCall) ELSE {}
        raise == IF MinTarget(t) <= AllInTarget(t) - 1 /\ (t.currentBet = 0 \/ RaiseReopened(t))
                 THEN {[type |-> BetType(t), min |-> MinTarget(t), max |-> AllInTarget(t) - 1]}
                 ELSE {}
        allIn == IF me.stack <= toCall \/ RaiseReopened(t) THEN Only("allIn", AllInTarget(t)) ELSE {}
    IN  IF Cardinality(Actionable(t)) = 1
        THEN fold \union (IF me.stack > toCall THEN Only("call", toCall) ELSE Only("allIn", AllInTarget(t)))
        ELSE fold \union call \union raise \union allIn

LegalActions(t) == ActionsFacing(t, AmountToCall(t))

(* The sizes offered for a bet or a raise: the minimum, half the pot, two  *)
(* thirds of it and the pot, after the call, rounded up and clamped.       *)
SuggestedTargets(t, legal) ==
    LET potAfterCall == t.pot + AmountToCall(t)
        CeilDivide(a, b) == (a + b - 1) \div b
        Clamp(n) == IF n < legal.min THEN legal.min ELSE IF n > legal.max THEN legal.max ELSE n
    IN  {Clamp(n) : n \in {legal.min, t.currentBet + CeilDivide(potAfterCall, 2),
                           t.currentBet + CeilDivide(2 * potAfterCall, 3),
                           t.currentBet + potAfterCall}}

(* The commands the engine accepts: the type is legal and the target of a  *)
(* bet or a raise lies in its range.                                       *)
ActionAccepted(t, seat, action) ==
    /\ t.street \in ActionStreets
    /\ seat = t.actor
    /\ \E legal \in LegalActions(t) :
          /\ legal.type = action.type
          /\ action.type \in {"bet", "raise"} => action.target \in legal.min .. legal.max

-----------------------------------------------------------------------------
(* What an action does to the table, before it is decided who is next.     *)

Delta(t, action) ==
    LET me == t.seats[t.actor]
    IN  CASE action.type = "call" -> AmountToCall(t)
          [] action.type \in {"bet", "raise"} -> action.target - me.streetContribution
          [] action.type = "allIn" -> me.stack
          [] OTHER -> 0

StatusAfter(action) ==
    CASE action.type = "fold" -> "folded"
      [] action.type = "allIn" -> "allIn"
      [] OTHER -> "active"

BetAfter(t, action) ==
    LET target == t.seats[t.actor].streetContribution + Delta(t, action)
    IN  IF target > t.currentBet THEN target ELSE t.currentBet

IsFullRaise(t, action) ==
    LET increase == BetAfter(t, action) - t.currentBet
    IN  increase > 0 /\ increase >= t.minInc

(* The seat that acts puts chips in and has now acted at a level of        *)
(* betting.                                                                *)
Contributing(seat, paid, status, level) ==
    [seat EXCEPT !.stack = @ - paid, !.status = status,
                 !.streetContribution = @ + paid, !.totalContribution = @ + paid,
                 !.betLevel = level]

(* What the actor puts in may raise the bet.                               *)
PutIn(t, action, paid, bet, level) ==
    [t EXCEPT !.pot = @ + paid,
              !.currentBet = bet,
              !.minInc = IF IsFullRaise(t, action) THEN bet - t.currentBet ELSE @,
              !.seats[t.actor] = Contributing(@, paid, StatusAfter(action), level)]

(* Broken: a check does not count as having acted.                         *)
BettingTransitionForgetful(t, action) ==
    PutIn(t, action, Delta(t, action), BetAfter(t, action),
          IF Delta(t, action) = 0 THEN t.seats[t.actor].betLevel ELSE BetAfter(t, action))

BettingTransition(t, action) ==
    PutIn(t, action, Delta(t, action), BetAfter(t, action), BetAfter(t, action))

-----------------------------------------------------------------------------
(* Who acts next, or how the hand ends, after the action of t.actor.       *)

Owing(t) == {s \in Seats : StillOwesAction(t, s)}

(* The only seat that can still act has more to match.                     *)
LoneActorMustMatch(t) ==
    \E s \in Actionable(t) : \E o \in Contenders(t) \ {s} :
        t.seats[o].streetContribution > t.seats[s].streetContribution

(* Broken: the betting goes on although only one seat can act.             *)
ContinuationWithoutRunout(t) ==
    CASE Cardinality(Contenders(t)) = 1 -> "complete"
      [] Actionable(t) = {} -> "showdown"
      [] Owing(t) # {} -> "sameStreet"
      [] t.street = "river" -> "showdown"
      [] OTHER -> "nextStreet"

Continuation(t) ==
    IF Cardinality(Contenders(t)) = 1 THEN "complete"
    ELSE CASE Actionable(t) = {} -> "showdown"
           [] Cardinality(Actionable(t)) = 1 ->
                 IF LoneActorMustMatch(t) THEN "sameStreet" ELSE "showdown"
           [] Cardinality(Actionable(t)) > 1 /\ Owing(t) # {} -> "sameStreet"
           [] Cardinality(Actionable(t)) > 1 /\ Owing(t) = {} ->
                 IF t.street = "river" THEN "showdown" ELSE "nextStreet"

NextResponder(t) ==
    IF Cardinality(Actionable(t)) = 1 THEN CHOOSE s \in Actionable(t) : TRUE
    ELSE FirstClockwise(t.actor, Owing(t))

NextStreetOf(street) ==
    CASE street = "preflop" -> "flop" [] street = "flop" -> "turn" [] street = "turn" -> "river"

(* How many cards lie on the board of a street; a showdown has them all.   *)
BoardOf(street) ==
    CASE street = "preflop" -> 0 [] street = "flop" -> 3 [] street = "turn" -> 4 [] OTHER -> 5

(* A new street: cards are dealt, the bets of the old street are in the    *)
(* pot, and the first seat after the button that can act opens.            *)
AdvancedStreet(t) ==
    [t EXCEPT !.street = NextStreetOf(@),
              !.board = BoardOf(NextStreetOf(t.street)),
              !.actor = FirstClockwise(t.button, Actionable(t)),
              !.currentBet = 0, !.minInc = 20,
              !.seats = [s \in Seats |-> [@[s] EXCEPT !.streetContribution = 0,
                                                      !.betLevel = NotActed]]]

(* The hand has ended: with all its cards when it comes to a showdown.     *)
TerminalHand(t, street) ==
    [t EXCEPT !.street = street, !.actor = NoSeat, !.currentBet = 0, !.minInc = 20,
              !.board = IF street = "showdown" THEN 5 ELSE @,
              !.seats = [s \in Seats |-> [@[s] EXCEPT !.betLevel = NotActed]]]

Continued(after) ==
    LET next == Continuation(after)
    IN  CASE next \in EndStreets -> TerminalHand(after, next)
          [] next = "sameStreet" -> [after EXCEPT !.actor = NextResponder(after)]
          [] next = "nextStreet" -> AdvancedStreet(after)

Progress(t, action) == Continued(BettingTransition(t, action))

-----------------------------------------------------------------------------
(* The pot, cut into layers at every level at which somebody stopped       *)
(* contributing, and its award.                                            *)

Levels(seats) == {seats[s].totalContribution : s \in Seats} \ {0}

LowerLevel(seats, level) ==
    Max({0} \union {l \in Levels(seats) : l < level})

(* Broken: whoever is still in can win every layer.                        *)
LayerForAll(seats, level) ==
    LET lower == LowerLevel(seats, level)
        contributors == {s \in Seats : seats[s].totalContribution >= level}
    IN  [lower |-> lower, upper |-> level,
         amount |-> (level - lower) * Cardinality(contributors),
         contributors |-> contributors,
         eligible |-> {s \in Seats : InHand(seats[s])}]

Layer(seats, level) ==
    LET lower == LowerLevel(seats, level)
        contributors == {s \in Seats : seats[s].totalContribution >= level}
    IN  [lower |-> lower, upper |-> level,
         amount |-> (level - lower) * Cardinality(contributors),
         contributors |-> contributors,
         eligible |-> {s \in contributors : InHand(seats[s])}]

Layers(seats) == {Layer(seats, level) : level \in Levels(seats)}

LayersTotal(seats) == MapThenSumSet(LAMBDA l : Layer(seats, l).amount, Levels(seats))

(* The code refuses to cut a pot with a layer nobody can win, or whose     *)
(* layers do not add up to it.                                             *)
LayersValid(seats, pot) ==
    /\ \A layer \in Layers(seats) : layer.eligible # {}
    /\ LayersTotal(seats) = pot

(* The part of the highest contribution nobody else matched goes back.     *)
UncalledReturn(seats) ==
    LET top == Layer(seats, Max(Levels(seats)))
    IN  IF Cardinality(top.contributors) = 1
        THEN [seat |-> CHOOSE s \in top.contributors : TRUE, amount |-> top.amount]
        ELSE [seat |-> NoSeat, amount |-> 0]

Refunded(seat, amount) ==
    [seat EXCEPT !.stack = @ + amount, !.streetContribution = @ - amount,
                 !.totalContribution = @ - amount]

Returned(seats) ==
    LET back == UncalledReturn(seats)
    IN  IF back.seat = NoSeat THEN seats
        ELSE [seats EXCEPT ![back.seat] = Refunded(@, back.amount)]

Winners(eligible, strength) ==
    IF Cardinality(eligible) = 1 THEN eligible
    ELSE {s \in eligible : \A o \in eligible : strength[o] <= strength[s]}

(* Broken: the chips that cannot be shared are nobody's.                   *)
AwardWithoutOddChips(layer, strength, button, s) ==
    LET winners == Winners(layer.eligible, strength)
    IN  IF s \notin winners THEN 0 ELSE layer.amount \div Cardinality(winners)

(* What a seat gets from a layer: an equal share, and one of the chips     *)
(* that cannot be shared when it sits early enough after the button.       *)
Award(layer, strength, button, s) ==
    LET winners == Winners(layer.eligible, strength)
        n == Cardinality(winners)
        before == {o \in winners : Offset(button, o) < Offset(button, s)}
    IN  IF s \notin winners THEN 0
        ELSE layer.amount \div n + (IF Cardinality(before) < layer.amount % n THEN 1 ELSE 0)

Awarded(seats, strength, button, s) ==
    MapThenSumSet(LAMBDA l : Award(Layer(seats, l), strength, button, s), Levels(seats))

(* What settleTerminalHand demands of a hand that has ended.               *)
Settleable(t) ==
    LET back == UncalledReturn(t.seats)
    IN  /\ t.street \in EndStreets
        /\ t.pot = ChipSum([s \in Seats |-> t.seats[s].totalContribution])
        /\ IF t.street = "showdown" THEN t.board = 5 /\ Cardinality(Contenders(t)) >= 2
           ELSE Cardinality(Contenders(t)) = 1
        /\ LayersValid(t.seats, t.pot)
        /\ back.seat # NoSeat =>
              /\ InHand(t.seats[back.seat])
              /\ back.amount <= t.seats[back.seat].streetContribution
        /\ LayersValid(Returned(t.seats), t.pot - back.amount)

(* The table after the hand: stacks paid, nobody without chips stays in.   *)
Paid(t, seats, strength) ==
    LET chips == [s \in Seats |-> seats[s].stack + Awarded(seats, strength, t.button, s)]
    IN  [t EXCEPT !.street = "betweenHands", !.pot = 0, !.board = 0,
                  !.seats = [s \in Seats |->
                     [status |-> IF seats[s].status # "out" /\ chips[s] > 0 THEN "active" ELSE "out",
                      stack |-> chips[s], streetContribution |-> 0, totalContribution |-> 0,
                      betLevel |-> NotActed]]]

Settled(t, strength) == Paid(t, Returned(t.seats), strength)
-----------------------------------------------------------------------------
(* The record of a hand.  What its schemas refuse makes the action that    *)
(* ends the hand fail.                                                     *)

(* createStartedHandFacts: button and blinds are three seats.              *)
StartRecorded(t) ==
    Cardinality({t.button, SmallBlindSeat(t.button), BigBlindSeat(t.button)}) = 3

RecordOf(t, seats, strength, settled) ==
    LET Pot(l) == [layer |-> Layer(seats, l), winners |-> Winners(Layer(seats, l).eligible, strength),
                   award |-> [s \in Seats |-> Award(Layer(seats, l), strength, t.button, s)]]
    IN  [reason |-> t.street, button |-> t.button, board |-> t.board,
         starting |-> [s \in Seats |-> t.seats[s].stack + t.seats[s].totalContribution],
         ending |-> [s \in Seats |-> settled.seats[s].stack],
         contribution |-> [s \in Seats |-> t.seats[s].totalContribution],
         back |-> UncalledReturn(t.seats),
         pots |-> {Pot(l) : l \in Levels(seats)},
         evaluated |-> IF t.street = "complete" THEN {}
                       ELSE {s \in Seats : InHand(t.seats[s]) /\ seats[s].totalContribution > 0}]

HandRecord(t, strength, settled) == RecordOf(t, Returned(t.seats), strength, settled)

(* Every seat ends with what it began with, less what it put in, plus what *)
(* it got back and won.                                                    *)
EndingExplained(r) ==
    \A s \in Seats :
        r.ending[s] = r.starting[s] - r.contribution[s]
                        + (IF r.back.seat = s THEN r.back.amount ELSE 0)
                        + MapThenSumSet(LAMBDA p : p.award[s], r.pots)

(* Button and blinds hold the last three positions, and no two seats hold  *)
(* the same one.                                                           *)
PlacesRecorded(r) ==
    LET n == Cardinality(Seats)
    IN  /\ PositionOf(r.button, r.button) = n - 3
        /\ PositionOf(r.button, SmallBlindSeat(r.button)) = n - 2
        /\ PositionOf(r.button, BigBlindSeat(r.button)) = n - 1
        /\ IsInjective([s \in Seats |-> PositionOf(r.button, s)])

ChipsRecorded(r) ==
    /\ \A s \in Seats : r.contribution[s] <= r.starting[s]
    /\ ChipSum(r.starting) = ChipSum(r.ending)
    /\ r.back.seat # NoSeat => r.back.amount \in 1 .. r.contribution[r.back.seat]
    /\ ChipSum(r.contribution) = r.back.amount + MapThenSumSet(LAMBDA p : p.layer.amount, r.pots)

(* At a showdown exactly the seats that could win something show a hand.   *)
ShownRecorded(r) ==
    IF r.reason = "complete" THEN r.evaluated = {}
    ELSE r.board = 5 /\ r.evaluated = UNION {p.layer.eligible : p \in r.pots}

PotsRecorded(r) ==
    /\ r.pots # {}
    /\ \A p \in r.pots :
          /\ p.layer.amount > 0
          /\ p.winners # {} /\ p.winners \subseteq p.layer.eligible
          /\ p.layer.eligible \subseteq p.layer.contributors
          /\ ChipSum(p.award) = p.layer.amount
          /\ \A s \in Seats \ p.winners : p.award[s] = 0

RecordAccepted(r) ==
    EndingExplained(r) /\ PlacesRecorded(r) /\ ChipsRecorded(r) /\ ShownRecorded(r) /\ PotsRecorded(r)
=============================================================================
