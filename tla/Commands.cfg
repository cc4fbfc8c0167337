SPECIFICATION MCSpec
CONSTANTS
  v1 = v1
  v2 = v2
  v3 = v3
  n1 = n1
  n2 = n2
  s1 = s1
  s2 = s2
  None = None
  Vmids <- MCVmids
  Nodes <- MCNodes
  Storages <- MCStorages
  Sizes <- MCSizes
  Changes <- MCChanges
  FirstGuests <- MCBothGuests
  MaxSteps = 4
  MaxSetup = 1
  MaxRivals = 2
CHECK_DEADLOCK FALSE
INVARIANTS
  TypeOK
  UndoRestores
  UndoRemovesOwnWork
  RacedTokensInvert
  PreviewsRefuseAlike
PROPERTIES
  NoLossUnasked
