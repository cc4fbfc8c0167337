SPECIFICATION FairSpec
CONSTANTS
  MaxAttempts = 2
  WaitBudget = 3
  Faults <- AllFaults
CHECK_DEADLOCK FALSE
INVARIANTS
  RowTellsTruth
  TokenTellsTruth
  ExitAgreesWithRow
  NoDoubleApply
PROPERTIES
  KeepsPromise
  CallReturns
