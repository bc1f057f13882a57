SPECIFICATION FairSpec
CONSTANTS
  seatA = seatA
  seatB = seatB
  build1 = build1
  build2 = build2
  Actors <- MCOneActor
  User = User
  NoActor = NoActor
  Configs <- MCOneBuild
  MaxVersion = 2
  MaxRuns = 4
  MaxAttempts = 2
  MaxCorrections = 1
  MaxOwnerRuns = 2
  MaxFencingToken = 4
  MaxIncidents = 2
  RetryAgentBound = TRUE
PROPERTIES
  TurnStarts
  TurnResolves
\* The session may end and the incident budget may be spent.
CHECK_DEADLOCK FALSE
