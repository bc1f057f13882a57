CONSTANTS
    Seats <- MCSeats
    FirstTables <- MCFirstTables
    OddTargets <- MCOddTargets
    Personas <- MCPersonas
    BuyIn = 20
    HandClasses = 2
    MaxHands = 1
SPECIFICATION DecisionSpec
INVARIANTS StatisticsReadable ChipsConserved LegalPlaySettles RaisesReopenFairly FairShares AnalysisSucceeds ToldTheTruth WeightsAreADistribution AnalysisFitsTable
PROPERTIES EveryHandEnds
\* The last hand is over.
CHECK_DEADLOCK FALSE
