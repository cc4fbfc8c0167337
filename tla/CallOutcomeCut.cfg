SPECIFICATION Spec
CONSTANTS
  MaxAttempts = 2
  WaitBudget = 3
  Faults <- CutFaults
CHECK_DEADLOCK FALSE
INVARIANTS
  NoDoubleApplyAlways
