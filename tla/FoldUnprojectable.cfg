CONSTANTS
    Seats <- MCSeats
    FirstTables <- MCShortBlinds
    OddTargets <- MCOddTargets
    Personas <- MCPersonas
    BuyIn = 20
    HandClasses = 1
    MaxHands = 1
SPECIFICATION DecisionSpec
INVARIANT EveryCandidateProjected
\* The last hand is over.
CHECK_DEADLOCK FALSE
