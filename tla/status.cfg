SPECIFICATION FairSpec
CONSTANTS
  MaxReplicas = 1
  MaxPods = 2
  MaxChanges = 1
  MaxCrashes = 1
INVARIANTS
  DoneMeansReplaced
PROPERTIES
  DoneMeansServing
  FailureIsOurs
  RolloutRecognised
