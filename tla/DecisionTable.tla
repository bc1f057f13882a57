---------------------------- MODULE DecisionTable ---------------------------
(***************************************************************************)
(* The table of PokerTable together with what is told to the AI seats: at  *)
(* every turn the position is analysed (player-decision-preprocessor.ts    *)
(* and poker/decision-analysis-core.ts), and what the analysis said is     *)
(* remembered, to be compared with how the hand goes on.  An analysis that *)
(* throws makes the attempt fail, every retry fails the same way, and the  *)
(* table stands still.                                                     *)
(***************************************************************************)
EXTENDS PokerTable, DecisionRules

CONSTANT Personas                     \* the persona of each seat

ASSUME PersonasAssumption ==
    \A s \in Seats : Personas[s] \in [tightness : 0 .. 100, pressureCall : 0 .. 100,
                                      aggression : 0 .. 100, riskPreference : 0 .. 100]

VARIABLES
    spot,             \* what the public actions of the hand amount to
    promised          \* seats told that they will not act again on this street

decisionVars == <<table, handCount, buyIn, stats, reopen, lastHand, spot, promised>>

DecisionInit == Init /\ spot = FreshSpot /\ promised = {}

DecideAndAct ==
    /\ table.street \in ActionStreets
    /\ \E action \in ActionsOf(table) :
          /\ Act(action)
          /\ IF table'.street = "betweenHands"
             THEN spot' = FreshSpot /\ promised' = {}
             ELSE /\ spot' = SpotAfter(spot, table, action, table')
                  /\ promised' = IF table'.street # table.street THEN {}
                                 ELSE IF CanFaceFurtherAction(table, action) THEN promised
                                 ELSE promised \union {table.actor}

DecisionNext ==
    \/ StartHand /\ spot' = FreshSpot /\ promised' = {}
    \/ DecideAndAct
    \/ Rebuy /\ UNCHANGED <<spot, promised>>

DecisionSpec == DecisionInit /\ [][DecisionNext]_decisionVars

-----------------------------------------------------------------------------
(* The turns that are analysed.                                            *)
Deciding == table.street \in ActionStreets

(* A seat that has put nothing into the pot and whose fold ends the round  *)
(* before the flop: both blinds are all-in behind it.                      *)
ClosesWithoutChips(t) ==
    /\ t.street = "preflop" /\ t.seats[t.actor].totalContribution = 0
    /\ Continuation(BettingTransition(t, [type |-> "fold", target |-> 0])) = "nextStreet"

(* Every position that legal play leads to can be analysed: the metrics    *)
(* and the outcome of every candidate are defined, and so is the ratio of  *)
(* the stacks to the pot of the next street, but for the fold that closes  *)
(* the round without chips.                                                *)
AnalysisSucceeds ==
    Deciding =>
        /\ MetricsKnown(table)
        /\ \A action \in Candidates(table) :
              /\ OutcomeKnown(table, action)
              /\ NextStreetRatioKnown(table, action)
                   \/ (action.type = "fold" /\ ClosesWithoutChips(table))

(* Every candidate has a complete outcome in every position                *)
(* (2026-08-23-m4-5 design, "每个候选有完整确定性结果").                    *)
EveryCandidateProjected ==
    Deciding => \A action \in Candidates(table) :
                   OutcomeKnown(table, action) /\ NextStreetRatioKnown(table, action)

(* A seat that was told it cannot face further action on the street does   *)
(* not come to act on it again, whatever the others do, short all-ins      *)
(* included (candidate-outcomes.ts, canFaceFurtherAction).                 *)
ToldTheTruth == Deciding => table.actor \notin promised

(* Before the flop the spot counts as unraised exactly while the big blind *)
(* is the bet; the last full raise gives the smallest raise; who made it   *)
(* is still in while nobody has gone over it; and the big blind's option   *)
(* is the last turn of the round.                                          *)
SpotFitsTable ==
    /\ (PreflopNode(table, spot) \in {"unopened", "limped"})
          <=> (table.street = "preflop" /\ table.currentBet = BigBlind)
    /\ spot.increment = table.minInc
    /\ (spot.aggressor # NoSeat /\ spot.target = table.currentBet) =>
          InHand(table.seats[spot.aggressor])
    /\ BigBlindOption(table) => Owing(table) = {table.actor}

(* What is offered to the model is a distribution, in every position and   *)
(* for every persona, and no candidate leaves its base weight by more than *)
(* the cap, whatever the four rules do together.                           *)
WeightsAreADistribution ==
    Deciding =>
        LET list == CandidateList(table)
            base == HeuristicWeights(list)
            offered == PersonaWeights(list, base, Personas[table.actor])
        IN  WeightsClosed(base) /\ WeightsClosed(offered) /\ WeightsNear(offered, base)

(* What comes back of a bet no opponent can match is the same by both of   *)
(* the code's computations, and only the rest is at risk.                  *)
RiskIsWhatOthersCanMatch(action) ==
    LET adjusted == RiskAdjusted(table, action)
    IN  /\ ContestablePot(adjusted.seats, table.actor)
              <= MaximumContestable(table.seats, table.actor)
        /\ GuaranteedReturn(table, action) > 0 =>
              ReturnNow(BettingTransition(table, action), FALSE).amount
                = GuaranteedReturn(table, action)

(* What is computed for a decision by other means than the engine's agrees *)
(* with the engine: the spot, folded out of the public actions, with the   *)
(* betting round, and what a bet risks with what the settlement would      *)
(* return of it.                                                           *)
AnalysisFitsTable ==
    Deciding =>
        /\ SpotFitsTable
        /\ \A action \in Candidates(table) :
              action.type \in {"bet", "raise", "allIn"} => RiskIsWhatOthersCanMatch(action)
=============================================================================
