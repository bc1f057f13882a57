--------------------------- MODULE MCDecisionTable --------------------------
(* Six of the nine seats are occupied.  The buy-in of 20 is one big blind, *)
(* so that all-ins, side pots and short raises meet within a few actions:  *)
(* the first hand of a session, a table where a raise can be short and an  *)
(* AI seat has to buy in, and one where two short raises make a full one.  *)
EXTENDS DecisionTable

MCSeats == {0, 1, 3, 4, 6, 8}

Each(a, b, c, d, e, f) ==
    [s \in Seats |-> CASE s = 0 -> a [] s = 1 -> b [] s = 3 -> c
                       [] s = 4 -> d [] s = 6 -> e [] s = 8 -> f]

(* Both blinds of the next hand have less than they have to post.          *)
MCShortBlinds ==
    {[stack |-> Each(40, 20, 10, 15, 40, 5), bought |-> Each(30, 20, 20, 20, 20, 20),
      button |-> 0, hands |-> 1]}

MCFirstTables ==
    MCShortBlinds \union
    {[stack |-> Each(20, 20, 20, 20, 20, 20), bought |-> Each(20, 20, 20, 20, 20, 20),
      button |-> 0, hands |-> 0],
     [stack |-> Each(45, 0, 15, 5, 45, 10), bought |-> Each(20, 20, 20, 20, 20, 20),
      button |-> 1, hands |-> 1],
     [stack |-> Each(20, 5, 30, 40, 50, 5), bought |-> Each(20, 20, 40, 20, 20, 30),
      button |-> 0, hands |-> 1]}

MCOddTargets == {}

MCPersonas ==
    LET Trait(a, b, c, d) ==
            [tightness |-> a, pressureCall |-> b, aggression |-> c, riskPreference |-> d]
    IN  [s \in Seats |-> CASE s = 0 -> Trait(50, 50, 50, 50) [] s = 1 -> Trait(100, 0, 0, 0)
                           [] s = 3 -> Trait(13, 87, 9, 100) [] s = 4 -> Trait(0, 0, 100, 33)
                           [] s = 6 -> Trait(0, 100, 0, 100) [] s = 8 -> Trait(100, 100, 100, 0)]
=============================================================================
