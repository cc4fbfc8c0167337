SPECIFICATION Spec
CONSTANTS
  t1 = t1
  t2 = t2
  a1 = a1
  a2 = a2
  east = east
  west = west
  NoTarget = NoTarget
  NoToken = NoToken
  Tokens <- MCOneToken
  Appliers <- MCAppliers
  Targets <- MCTargets
  OrigTarget <- MCOneOrig
  FirstDefault = east
  FaultCases <- MCOverlap
CHECK_DEADLOCK FALSE
INVARIANTS
  AppliedOnceAlways
