SPECIFICATION FairSpec
CONSTANTS
  N = 2
  Parallel = 2
  MaxAttempts = 2
  MaxChanges = 2
INVARIANTS
  ClaimsAreOurs
  UnlistedIsReported
PROPERTIES
  ForeignCordonsKept
  NilMeansCordoned
  CordonReturns
