SPECIFICATION Spec
CONSTANTS
  r1 = r1
  r2 = r2
  Requests <- MCTwo
  MaxSessions = 1
INVARIANT NobodyWaitsInCircle
