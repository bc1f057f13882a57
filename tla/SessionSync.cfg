SPECIFICATION Spec
CONSTANTS
  Commands = {"c1"}
  MaxEvents = 3
  MaxFaults = 1
  MaxMoves = 1
INVARIANTS HonestServerBelieved ReadyIsCurrent UnansweredIsPending
PROPERTIES CatchesUp ShownNeverGoesBack DeletedStaysGone
\* The log, the faults and the moves of the player are bounded.
CHECK_DEADLOCK FALSE
