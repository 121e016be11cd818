SPECIFICATION Spec
CONSTANTS
  N = 1
  Parallel = 1
  MaxAttempts = 2
  MaxChanges = 1
INVARIANTS
  ListIsComplete
