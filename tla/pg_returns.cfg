SPECIFICATION FairSpec
CONSTANTS
  N = 1
  MaxUid = 2
  MarkAttempts = 3
  UnmarkAttempts = 3
  MaxRetriggers = 3
  MaxMarksByOthers = 1
  SkipWait = FALSE
PROPERTIES
  RestartReturns
