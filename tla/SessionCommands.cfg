SPECIFICATION FairSpec
CONSTANTS
  callerA = callerA
  callerB = callerB
  play1 = play1
  ai1 = ai1
  Callers <- MCCallers
  ClientIds <- MCClientIds
  AiIds <- MCAiIds
  NoCommand = NoCommand
  Nobody = Nobody
  Versions <- MCVersions
  MaxBatch = 2
  MaxSafeInteger = 5
  MaxRequests = 3
  MaxIncidents = 1
INVARIANT HistoryRecoverable
PROPERTIES ImplementsOutcomes ImplementsLog EveryCallEnds
\* The session may end, and requests and incidents are bounded.
CHECK_DEADLOCK FALSE
