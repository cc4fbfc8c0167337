SPECIFICATION Spec
CONSTANTS
  t1 = t1
  t2 = t2
  p1 = p1
  g1 = g1
  None = None
  Absent = Absent
  Rejected = Rejected
  Threads <- MCThreads
  Order <- MCOrder
  Targets <- MCTargets
  Bodies <- MCBodies
  Hour = 1
  Day = 3
  MaxThreshold = 3
  MaxEdits = 1
SYMMETRY MCSymmetry
INVARIANTS
  TypeOK
  BreaksAreEarned
PROPERTIES
  CapsHold
  BreakerHolds
  RevocationHolds
  ApprovalHolds
