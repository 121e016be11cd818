SPECIFICATION EndingSpec
CONSTANTS
  Namespaces <- TwoNamespaces
  Objects = {"web", "webPrimary", "db"}
  NamespaceOf <- ThreeObjects
  Plain = {"db"}
  PrimaryOf <- Primaries
  Parallel = 2
  MaxUid = 2
  MaxChanges = 1
  Filters = {"label"}
  Versions = {"v1", "v1alpha1"}
  Preferred <- Supported
  Requested = {"v1alpha1"}
INVARIANTS
  PlannedMatched
  NothingLost
  CanaryIsLeftAlone
  PlanUsable
  MissingIsHarmless
