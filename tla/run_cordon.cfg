SPECIFICATION FairSpec
CONSTANTS
  Types = 3
  N = 5
  TypeOf <- ThreeNoneTwo
  Parallel = 2
  WithCordon = TRUE
INVARIANTS
  NoTypeAfterFailure
  ZeroMeansDone
  ErrorMeansAccounted
PROPERTIES
  RunImplementsBudget
  RunEnds
