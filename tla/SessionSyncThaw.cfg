SPECIFICATION Spec
CONSTANTS
  Commands = {"c1"}
  MaxEvents = 2
  MaxFaults = 0
  MaxMoves = 2
INVARIANT BlockedIsBeingResolved
\* The log, the faults and the moves of the player are bounded.
CHECK_DEADLOCK FALSE
