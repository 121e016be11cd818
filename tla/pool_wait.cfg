SPECIFICATION FairSpec
CONSTANTS
  N = 3
  Parallel = 2
  SkipWait = FALSE
INVARIANTS
  LateRestartsBounded
  OutcomesComplete
PROPERTIES
  ImplementsBudget
  QueueReturns
