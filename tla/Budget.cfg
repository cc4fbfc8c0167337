SPECIFICATION Spec
CONSTANTS
  t1 = t1
  t2 = t2
  f1 = f1
  None = None
  Threads <- MCThreads
  Prints <- MCPrints
  LimitSets <- MCLimitSets
  Delay = 1
  LongestCall = 2
INVARIANTS
  TypeOK
  RunawayHolds
  OvershootBounded
PROPERTIES
  TripsAreEarned
  GuardLetsGo
