SPECIFICATION FairSpec
CONSTANTS
  seatA = seatA
  seatB = seatB
  build1 = build1
  build2 = build2
  Actors <- MCOneActor
  User = User
  NoActor = NoActor
  Configs <- MCOneBuild
  MaxVersion = 1
  MaxRuns = 3
  MaxAttempts = 2
  MaxCorrections = 1
  MaxOwnerRuns = 2
  MaxFencingToken = 6
  MaxIncidents = 1
  RetryAgentBound = TRUE
PROPERTIES
  OverdueQueuedRunConverges
CHECK_DEADLOCK FALSE
