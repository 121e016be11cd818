SPECIFICATION EndingSpec
CONSTANTS
  Nodes = {"a", "b"}
  Pods = {"app", "web", "db"}
  NamespaceOf <- ThreePods
  VolumeOf <- ThreeVolumes
  Keys <- TheKeys
  LabelSets <- ThreeLabelSets
  Namespaces <- TwoNamespaces
  MaxChanges = 1
  NodeLabels <- WorkersOnly
  ExcludeLabels <- DrainExcluded
  Parallelism = 2
INVARIANTS
  TypeOK
  PlannedWithReason
  NothingMissed
  LocalVolumesWarned
  ReportIsComplete
