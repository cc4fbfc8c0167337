SPECIFICATION Spec
CONSTANTS
  v1 = v1
  v2 = v2
  v3 = v3
  n1 = n1
  n2 = n2
  s1 = s1
  s2 = s2
  None = None
  Vmids <- MCVmids
  Nodes <- MCNodes
  Storages <- MCStorages
  Sizes <- MCSizes
  Changes <- MCChanges
  FirstGuests <- MCUnsetGuests
  MaxSteps = 3
CHECK_DEADLOCK FALSE
INVARIANT UndoRestoresAlways
