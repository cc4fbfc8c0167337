SPECIFICATION Spec
CONSTANTS
  p1 = p1
  p2 = p2
  w1 = w1
  w2 = w2
  r1 = r1
  NoCall = NoCall
  Procs <- MCProcs
  Calls <- MCWrites
  ProcOf <- MCWriteProcOf
  Writes <- MCWrites
  Interruptible <- MCInterruptible
  Crashable <- MCProcs
  RotateAt = 1
  MaxArchives = 1
CHECK_DEADLOCK FALSE
INVARIANTS
  OkMeansAppliedAlways
