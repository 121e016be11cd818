SPECIFICATION Spec
CONSTANTS
  PodSets = {brokers, controllers}
  K = 1
  MaxUid = 2
  MaxScales = 1
  SkipWait = FALSE
SYMMETRY Symmetry
INVARIANTS
  SuccessMeansRolled
  RollsAreWaitedFor
  StopBeforeWaiting
  PollErrorsStop
PROPERTIES
  NilMeansHealthy
CHECK_DEADLOCK FALSE
