SPECIFICATION FairSpec
CONSTANTS
  t1 = t1
  t2 = t2
  a1 = a1
  a2 = a2
  east = east
  west = west
  NoTarget = NoTarget
  NoToken = NoToken
  Tokens <- MCTokens
  Appliers <- MCAppliers
  Targets <- MCTargets
  OrigTarget <- MCOrigTarget
  FirstDefault = east
  FaultCases <- MCFaultCases
CHECK_DEADLOCK FALSE
INVARIANTS
  AppliedOnce
  SpentMeansSent
  InverseGoesHome
  FailedUndoSentNothing
PROPERTIES
  ApplyEnds
