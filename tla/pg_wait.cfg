SPECIFICATION Spec
CONSTANTS
  N = 2
  MaxUid = 2
  MarkAttempts = 2
  UnmarkAttempts = 2
  MaxRetriggers = 1
  MaxMarksByOthers = 1
  SkipWait = FALSE
INVARIANTS
  SuccessMeansRotated
  TouchedAfterMarking
  LeftMarksAreReported
PROPERTIES
  ForeignMarksKept
