SPECIFICATION Spec
CONSTANTS
  seatA = seatA
  seatB = seatB
  build1 = build1
  build2 = build2
  Actors <- MCActors
  User = User
  NoActor = NoActor
  Configs <- MCConfigs
  MaxVersion = 2
  MaxRuns = 4
  MaxAttempts = 2
  MaxCorrections = 0
  MaxOwnerRuns = 2
  MaxFencingToken = 3
  MaxIncidents = 3
  RetryAgentBound = TRUE
SYMMETRY Symmetry
INVARIANTS Coordination RunSettlesCompletely ReplacementChain NoReplacementStorm
PROPERTIES ImplementsTable SettledRunStays UncertainCallNotRepeated
\* The session may end and the incident budget may be spent.
CHECK_DEADLOCK FALSE
