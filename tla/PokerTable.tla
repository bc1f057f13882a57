----------------------------- MODULE PokerTable -----------------------------
(***************************************************************************)
(* A table over several hands: hands are started, played action by action  *)
(* and settled, stacks are bought again, and what happened is counted for  *)
(* the statistics.  One step is one committed command of the Session:      *)
(* poker-engine.ts under player-action-handler.ts (the user's and the AI   *)
(* seats' actions), start-next-hand-handler.ts and rebuy-handler.ts.       *)
(***************************************************************************)
EXTENDS PokerRules

CONSTANTS
    BuyIn,            \* what a seat buys in for (2000 in the code)
    HandClasses,      \* how many strengths of hands are told apart
    FirstTables,      \* where a behaviour starts, between two hands: a set of records
    OddTargets,       \* bound: targets above the minimum a user may type
    MaxHands          \* bound: hands played in a behaviour

ASSUME BuyInAssumption == BuyIn \in Nat \ {0}
ASSUME HandClassesAssumption == HandClasses \in Nat \ {0}
ASSUME TablesAssumption ==
    \A first \in FirstTables :
       /\ first.stack \in [Seats -> Nat] /\ first.bought \in [Seats -> Nat]
       /\ first.button \in Seats /\ first.hands \in Nat
       /\ ChipSum(first.stack) = ChipSum(first.bought)

UserSeat == CHOOSE s \in Seats : \A o \in Seats : s <= o     \* seat 0

VARIABLES
    table,            \* the poker part of the authoritative state
    handCount,        \* completedHandCount
    buyIn,            \* seatAccounting: cumulativeBuyIn of each seat
    stats,            \* the facts of the hand's actions that are counted
    reopen,           \* history: what the others raised since a seat acted
    lastHand          \* the completed hand that was settled last

vars == <<table, handCount, buyIn, stats, reopen, lastHand>>

NoHand == [record |-> [reason |-> "none"], played |-> 0]

-----------------------------------------------------------------------------
(* Statistics, counted along the hand from the committed actions.          *)

FreshStats ==
    [fullRaises |-> 0,
     seat |-> [s \in Seats |-> [vpip |-> FALSE, pfr |-> FALSE,
                                threeBets |-> 0, threeBetChances |-> 0, sawFlop |-> FALSE]]]

(* A full raise was open to the actor, as a raise or as an all-in.         *)
CanMakeFullRaise(t) ==
    \E legal \in LegalActions(t) :
        \/ legal.type \in {"bet", "raise"}
        \/ legal.type = "allIn" /\ legal.min - t.currentBet >= t.minInc

(* The statistics of one action, and what the event that carries them      *)
(* demands: before the flop a raise and an all-in are voluntary, a bet or  *)
(* a raise that is no all-in is a full raise, and a call is neither.       *)
ActionFacts(t, action) ==
    LET preflop == t.street = "preflop"
        raise == preflop /\ action.type \in {"bet", "raise", "allIn"}
                 /\ t.seats[t.actor].streetContribution + Delta(t, action) > t.currentBet
    IN  [voluntary |-> preflop /\ action.type \in {"call", "bet", "raise", "allIn"},
         raise |-> raise,
         fullRaise |-> raise /\ IsFullRaise(t, action),
         chance |-> preflop /\ CanMakeFullRaise(t)]

FactsFit(t, action, facts) ==
    /\ facts.raise => facts.voluntary
    /\ facts.fullRaise => facts.raise
    /\ t.street # "preflop" => ~(facts.voluntary \/ facts.raise \/ facts.fullRaise \/ facts.chance)
    /\ action.type \in {"fold", "check"} => ~facts.voluntary
    /\ (t.street = "preflop" /\ action.type = "call") => facts.voluntary /\ ~facts.raise
    /\ (t.street = "preflop" /\ action.type = "allIn") => facts.voluntary
    /\ (t.street = "preflop" /\ action.type \in {"bet", "raise"}) => facts.fullRaise

FactsAccepted(t, action) == FactsFit(t, action, ActionFacts(t, action))

(* What an action adds to the statistics of the hand: before the flop      *)
(* whether it was voluntary, a raise, a full raise, a third bet; and who   *)
(* is still in when the flop comes.                                        *)
Tally(t, facts, after, flop) ==
    LET chance == stats.fullRaises = 1 /\ facts.chance
    IN  [fullRaises |-> stats.fullRaises + (IF facts.fullRaise /\ stats.fullRaises < 2 THEN 1 ELSE 0),
         seat |-> [s \in Seats |->
            LET old == stats.seat[s]
                saw == old.sawFlop \/ (flop /\ InHand(after.seats[s]))
            IN  IF s = t.actor
                THEN [vpip |-> old.vpip \/ facts.voluntary,
                      pfr |-> old.pfr \/ facts.raise,
                      threeBets |-> old.threeBets + (IF chance /\ facts.fullRaise THEN 1 ELSE 0),
                      threeBetChances |-> old.threeBetChances + (IF chance THEN 1 ELSE 0),
                      sawFlop |-> saw]
                ELSE [old EXCEPT !.sawFlop = saw]]]

(* Broken: a flop dealt in a runout is not counted as seen.                *)
CountedWithoutRunout(t, action, after) ==
    Tally(t, ActionFacts(t, action), after, t.street = "preflop" /\ after.street = "flop")

(* The flop also comes in a runout.                                        *)
Counted(t, action, after) ==
    Tally(t, ActionFacts(t, action), after, t.board < 3 /\ after.board >= 3)

-----------------------------------------------------------------------------
FreshReopen == [fullSize |-> BigBlind, fullSince |-> [s \in Seats |-> FALSE]]

(* History: the size of the last full raise of the street by the rules of  *)
(* the game, and who has acted before it.                                  *)
ReopenAfter(t, action, after) ==
    LET rise == BetAfter(t, action) - t.currentBet
        full == rise >= reopen.fullSize
    IN  IF after.street # t.street THEN FreshReopen
        ELSE [fullSize |-> IF full THEN rise ELSE reopen.fullSize,
              fullSince |-> [s \in Seats |-> IF s = t.actor THEN FALSE
                                             ELSE reopen.fullSince[s] \/ full]]

Init ==
    /\ \E first \in FirstTables :
          /\ table = [street |-> "betweenHands", button |-> first.button, actor |-> NoSeat,
                      pot |-> 0, currentBet |-> 0, minInc |-> 20, board |-> 0,
                      seats |-> [s \in Seats |->
                         [status |-> IF first.stack[s] > 0 THEN "active" ELSE "out",
                          stack |-> first.stack[s], streetContribution |-> 0,
                          totalContribution |-> 0, betLevel |-> NotActed]]]
          /\ handCount = first.hands
          /\ buyIn = first.bought
    /\ stats = FreshStats
    /\ reopen = FreshReopen
    /\ lastHand = NoHand

(* AI seats without chips buy in again by themselves when a hand starts.   *)
AutoRebought(t) ==
    [t EXCEPT !.seats = [s \in Seats |->
        IF s # UserSeat /\ @[s].stack = 0 THEN [@[s] EXCEPT !.stack = BuyIn, !.status = "active"]
        ELSE @[s]]]

(* The first hand of a session, and startNextHand between two hands.  The  *)
(* user has to have chips.                                                 *)
StartHand ==
    /\ table.street = "betweenHands"
    /\ lastHand.played < MaxHands
    /\ table.seats[UserSeat].stack > 0
    /\ ReadySeats(AutoRebought(table))
    /\ StartRecorded(StartedHand(AutoRebought(table), handCount))
    /\ table' = StartedHand(AutoRebought(table), handCount)
    /\ buyIn' = [s \in Seats |->
          IF s # UserSeat /\ table.seats[s].stack = 0 THEN buyIn[s] + BuyIn ELSE buyIn[s]]
    /\ stats' = FreshStats
    /\ reopen' = FreshReopen
    /\ UNCHANGED <<handCount, lastHand>>

(* The hand that was settled last: its record, with what the properties    *)
(* want to know besides.                                                   *)
Completed(t, strength, settled) ==
    [record |-> HandRecord(t, strength, settled), played |-> lastHand.played + 1,
     strength |-> strength, inHand |-> Contenders(t)]

(* The hand is settled and recorded.                                       *)
Settles(after, strength, settled) ==
    /\ Settleable(after)
    /\ table' = settled
    /\ lastHand' = Completed(after, strength, settled)
    /\ handCount' = handCount + 1
    /\ reopen' = FreshReopen

(* The betting moves on, or the hand ends and is settled in the same       *)
(* command.                                                                *)
MovesOn(action, after) ==
    /\ stats' = Counted(table, action, after)
    /\ IF after.street \in EndStreets
       THEN \E strength \in [Contenders(after) -> 1 .. HandClasses] :
               /\ after.street = "complete" => \A s \in Contenders(after) : strength[s] = 1
               /\ Settles(after, strength, Settled(after, strength))
       ELSE /\ table' = after
            /\ reopen' = ReopenAfter(table, action, after)
            /\ UNCHANGED <<handCount, lastHand>>

(* One action of the seat whose turn it is.                                *)
Act(action) ==
    /\ ActionAccepted(table, table.actor, action)
    /\ BettingOpen(table)
    /\ FactsAccepted(table, action)
    /\ MovesOn(action, Progress(table, action))
    /\ UNCHANGED buyIn

(* The targets an actor may choose: those suggested, and some a user types. *)
Targets(t, legal) ==
    IF legal.type \in {"bet", "raise"}
    THEN SuggestedTargets(t, legal)
         \union ({legal.min + d : d \in OddTargets} \cap legal.min .. legal.max)
    ELSE {legal.min}

ActionsOf(t) ==
    UNION {{[type |-> legal.type, target |-> n] : n \in Targets(t, legal)} : legal \in LegalActions(t)}

Play == table.street \in ActionStreets /\ \E action \in ActionsOf(table) : Act(action)

(* The user buys chips between hands: a full buy-in when broke, and up to  *)
(* a full buy-in otherwise.                                                *)
RebuyAmountAllowed(stack, amount) ==
    IF stack = 0 THEN amount = BuyIn ELSE stack < BuyIn /\ amount <= BuyIn - stack

Bought(seat, amount) == [seat EXCEPT !.stack = @ + amount, !.status = "active"]

Rebuy ==
    /\ table.street = "betweenHands"
    /\ \E amount \in {BuyIn - table.seats[UserSeat].stack, BuyIn} :
          /\ amount > 0
          /\ RebuyAmountAllowed(table.seats[UserSeat].stack, amount)
          /\ table' = [table EXCEPT !.seats[UserSeat] = Bought(@, amount)]
          /\ buyIn' = [buyIn EXCEPT ![UserSeat] = @ + amount]
    /\ UNCHANGED <<handCount, stats, reopen, lastHand>>

Next == StartHand \/ Play \/ Rebuy

Spec == Init /\ [][Next]_vars

-----------------------------------------------------------------------------
(* Properties.                                                             *)

(* What createPokerTableState demands of every table that is stored: a     *)
(* table that breaks it makes the command fail, and the Session with it.   *)
SeatsValid(t) ==
    \A s \in Seats :
        LET seat == t.seats[s]
        IN  /\ seat.status \in Statuses
            /\ seat.stack >= 0
            /\ seat.streetContribution \in 0 .. seat.totalContribution
            /\ seat.status = "allIn" => seat.stack = 0

PhaseValid(t) ==
    /\ t.street \in Streets /\ t.button \in Seats
    /\ IF t.street = "betweenHands"
       THEN t.pot = 0 /\ \A s \in Seats : (t.seats[s].stack > 0) = (t.seats[s].status = "active")
       ELSE /\ \A s \in Seats : t.seats[s].status # "out"
            /\ t.board = BoardOf(t.street)
            /\ t.pot = ChipSum([s \in Seats |-> t.seats[s].totalContribution])

RoundValid(t) ==
    t.street \in ActionStreets =>
        /\ t.minInc >= 20
        /\ t.street = "preflop" => t.currentBet >= BigBlind
        /\ \A s \in Seats : /\ t.seats[s].streetContribution <= t.currentBet
                            /\ t.seats[s].betLevel \in NotActed .. t.currentBet

ActorValid(t) ==
    IF t.street \in ActionStreets THEN t.actor \in Seats /\ CanAct(t.seats[t.actor])
    ELSE t.actor = NoSeat

ValidTable(t) == SeatsValid(t) /\ PhaseValid(t) /\ RoundValid(t) /\ ActorValid(t)

(* The statistics of a hand can be read: a raise was voluntary, a third    *)
(* bet was a chance, and when the hand is over every seat that showed its  *)
(* cards has seen the flop (a hand that breaks this makes the whole        *)
(* statistics query fail).                                                 *)
StatisticsReadable ==
    \A s \in Seats :
        /\ stats.seat[s].pfr => stats.seat[s].vpip
        /\ stats.seat[s].threeBets <= stats.seat[s].threeBetChances
        /\ stats.seat[s].threeBets > 0 => stats.seat[s].pfr
        /\ (table.street = "betweenHands" /\ lastHand.record.reason = "showdown"
             /\ s \in lastHand.record.evaluated)
              => stats.seat[s].sawFlop

(* Type invariant: what is stored can be read back by every reader.        *)
TypeOK ==
    /\ ValidTable(table)
    /\ StatisticsReadable
    /\ handCount \in Nat
    /\ \A s \in Seats : buyIn[s] \in Nat
    /\ stats.fullRaises \in 0 .. 2
    /\ reopen.fullSize >= BigBlind

(* No chip appears or disappears: what the seats hold and what is in the   *)
(* pot is what everybody has bought in for, through blinds, all-ins, side  *)
(* pots, split pots with odd chips, returned bets and rebuys               *)
(* (private-table-state.ts, "Accounting does not conserve chips").         *)
ChipsConserved ==
    ChipSum([s \in Seats |-> table.seats[s].stack]) + table.pot = ChipSum(buyIn)

(* Whatever legal actions were taken, the seat whose turn it is can act,   *)
(* and when its action ends the hand the settlement accepts it: no layer   *)
(* of the pot is left with folded seats only, a returned bet was made on   *)
(* the last street, and the record that is written of the hand agrees with *)
(* itself.  Otherwise the command fails and the Session cannot go on.      *)
LegalPlaySettles ==
    /\ table.street \in ActionStreets =>
          /\ BettingOpen(table)
          /\ StillOwesAction(table, table.actor)
          /\ \A action \in ActionsOf(table) :
                LET after == Progress(table, action)
                IN  /\ FactsAccepted(table, action)
                    /\ after.street \in EndStreets => Settleable(after)
    /\ (table.street = "betweenHands" /\ lastHand.record.reason # "none") =>
          RecordAccepted(lastHand.record)

(* A seat that has acted on a street may raise again exactly when the      *)
(* others have since made a full raise, or short all-ins that add up to    *)
(* one, measured by the largest full raise of the street.                  *)
RaisesReopenFairly ==
    (table.street \in ActionStreets /\ table.seats[table.actor].betLevel # NotActed
       /\ Cardinality(Actionable(table)) > 1) =>
        LET me == table.seats[table.actor]
            risen == table.currentBet - me.betLevel
            mayRaise == \E legal \in LegalActions(table) :
                           /\ legal.type \in {"bet", "raise", "allIn"}
                           /\ legal.type = "allIn" => legal.min > table.currentBet
        IN  /\ risen > 0
            /\ mayRaise => risen >= reopen.fullSize
            /\ (reopen.fullSince[table.actor] /\ AllInTarget(table) > table.currentBet) => mayRaise

(* The seats divide the pot fairly: nobody wins from another more than     *)
(* both have put in, the best hand shown loses nothing, who folded gets    *)
(* nothing back, and of two equal hands the one that put in more gets at   *)
(* least as much, but for an odd chip of each layer.                       *)
FairShares ==
    lastHand.record.reason # "none" =>
        LET C == lastHand.record.contribution
            Least(a, b) == IF a < b THEN a ELSE b
            MatchedBy(s) == ChipSum([o \in Seats \ {s} |-> Least(C[s], C[o])])
            Net(s) == lastHand.record.ending[s] - lastHand.record.starting[s]
        IN  \A s \in Seats :
               /\ Net(s) <= MatchedBy(s)
               /\ s \notin lastHand.inHand => Net(s) = - C[s]
               /\ s \in lastHand.inHand =>
                    /\ (\A o \in lastHand.inHand : lastHand.strength[o] <= lastHand.strength[s]) =>
                          Net(s) >= 0
                    /\ \A o \in lastHand.inHand :
                          (lastHand.strength[o] = lastHand.strength[s] /\ C[o] <= C[s]) =>
                             Net(s) + C[s] >= Net(o) + C[o] - Cardinality(Seats)

StreetsLeft(t) == 5 - BoardOf(t.street)
Behind(t) == ChipSum([s \in Seats |-> t.seats[s].stack])
TurnsLeft(t) == Cardinality(Owing(t))

(* Every action brings the hand nearer to its end: the street moves on, or *)
(* chips go into the pot, or one seat fewer has a turn left.  So no        *)
(* sequence of legal actions keeps a hand alive forever.                   *)
EveryHandEnds ==
    [][(table.street \in ActionStreets /\ table'.street \in ActionStreets) =>
         \/ StreetsLeft(table') < StreetsLeft(table)
         \/ StreetsLeft(table') = StreetsLeft(table) /\ Behind(table') < Behind(table)
         \/ /\ StreetsLeft(table') = StreetsLeft(table) /\ Behind(table') = Behind(table)
            /\ TurnsLeft(table') < TurnsLeft(table)]_vars
=============================================================================
