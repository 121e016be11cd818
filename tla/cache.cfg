SPECIFICATION CacheSpec
CONSTANTS
  Callers = {c1, c2}
  Names = {n1}
  CacheTTL = 2
  MaxFetch = 1
  MaxTime = 4
  MaxCalls = 3
  MaxClears = 2
SYMMETRY Symmetry
INVARIANTS
  BoundedStaleness
  InvalidationHolds
CHECK_DEADLOCK FALSE
