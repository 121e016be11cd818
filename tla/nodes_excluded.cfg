SPECIFICATION Spec
CONSTANTS
  Nodes = {"a", "b"}
  Pods = {"app", "web", "db"}
  NamespaceOf <- ThreePods
  VolumeOf <- ThreeVolumes
  Keys <- TheKeys
  LabelSets <- ThreeLabelSets
  Namespaces <- TwoNamespaces
  MaxChanges = 1
  NodeLabels <- NoFilter
  ExcludeLabels <- ZonesExcluded
  Parallelism = 2
INVARIANTS
  ExcludedNodesAreKept
CHECK_DEADLOCK FALSE
