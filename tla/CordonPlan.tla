----------------------------- MODULE CordonPlan -----------------------------
(***************************************************************************)
(* PlanCordon (pkg/operations/cluster.go): which nodes CordonNodes would   *)
(* cordon, and which pods on them use storage that stays on the node.  The *)
(* nodes, the pods of each target namespace, the pods of all namespaces    *)
(* and the PersistentVolumes are read one after another, so that the plan  *)
(* mixes several moments of the cluster.                                   *)
(***************************************************************************)
EXTENDS SurveyedCluster

CONSTANTS NodeLabels,     \* --node-labels, as pairs of key and value in the order given
          ExcludeLabels   \* --exclude-node-labels

ASSUME PlanAssumption == /\ NodeLabels \in Seq(Keys \X STRING)
                         /\ ExcludeLabels \in Seq(Keys \X STRING)

VARIABLES
  planAt,      \* the next request, the outcome, or "over"
  cordonAll,   \* --cordon-all-nodes
  namespace,   \* loop variable over the target namespaces
  listed,      \* the nodes listed, with their labels
  podsSeen,    \* the pods of the target namespaces listed, with their nodes
  nodePods,    \* the pods looked at for local volumes, with their nodes
  planned,     \* CordonPlan.Nodes
  warned,      \* CordonPlan.LocalVolumes, as pairs of pod and node
  incomplete,  \* CordonPlan.LocalVolumeCheckIncomplete
  unchecked    \* CordonPlan.LocalVolumeCheckErr

planVars == <<planAt, cordonAll, namespace, listed, podsSeen, nodePods, planned, warned, incomplete, unchecked>>

Sightings == SUBSET (Pods \X Nodes)

PlanTypeOK ==
  /\ planAt \in {"nodes", "pods", "allPods", "volumes", "done", "failed", "over"}
  /\ cordonAll \in BOOLEAN
  /\ namespace \in 1 .. (Len(Namespaces) + 1)
  /\ listed \subseteq Nodes \X LabelSets
  /\ podsSeen \in Sightings
  /\ nodePods \in Sightings
  /\ planned \subseteq Nodes
  /\ warned \in Sightings
  /\ incomplete \in BOOLEAN
  /\ unchecked \in BOOLEAN

PlanInit ==
  /\ planAt = "nodes"
  /\ cordonAll \in BOOLEAN
  /\ namespace = 1
  /\ listed = {}
  /\ podsSeen = {}
  /\ nodePods = {}
  /\ planned = {}
  /\ warned = {}
  /\ incomplete = FALSE
  /\ unchecked = FALSE

\* CordonNodes has used the plan and nothing of it is left.
PlanOver ==
  /\ planAt' = "over"
  /\ cordonAll' = FALSE
  /\ namespace' = 1
  /\ listed' = {}
  /\ podsSeen' = {}
  /\ nodePods' = {}
  /\ planned' = {}
  /\ warned' = {}
  /\ incomplete' = FALSE
  /\ unchecked' = FALSE

------------------------------------------------------------------------------
(* Filters.                                                                *)

\* A filter becomes a map: of two values for one key the last one is kept.
Parsed(filter) ==
  [k \in {filter[i][1] : i \in DOMAIN filter} |->
    LET last == CHOOSE i \in DOMAIN filter :
                  filter[i][1] = k /\ \A j \in DOMAIN filter : filter[j][1] = k => j <= i
    IN filter[last][2]]

Slip_MatchesRequirements(actual, required) ==  \* a missing key reads as the empty value
  \A k \in DOMAIN required : actual[k] = required[k] \/ (actual[k] = NoLabel /\ required[k] = "")

\* A missing key matches no value, not even the empty one.
MatchesRequirements(actual, required) ==
  \A k \in DOMAIN required : actual[k] = required[k]

nodeMatchesFilters(actual, required, excluded) ==
  /\ MatchesRequirements(actual, required)
  /\ \A k \in DOMAIN excluded : actual[k] # excluded[k]

Matches(actual) == nodeMatchesFilters(actual, Parsed(NodeLabels), Parsed(ExcludeLabels))

\* spec.local or hostPath, or an affinity to a hostname or to one Node.
isNodeLocalPV(volume) == volume \in {"local", "hostPath", "hostnameAffinity", "nameAffinity"}

------------------------------------------------------------------------------
(* The requests.                                                           *)

ListNodes ==
  /\ planAt = "nodes"
  /\ listed' = {<<n, labels[n]>> : n \in exists}
  /\ planAt' = "pods"
  /\ UNCHANGED <<clusterVars, cordonAll, namespace, podsSeen, nodePods, planned, warned, incomplete, unchecked>>

\* Any of the first lists fails, and the plan with it.
PlanFails ==
  /\ planAt \in {"nodes", "pods"}
  /\ planAt' = "failed"
  /\ UNCHANGED <<clusterVars, cordonAll, namespace, listed, podsSeen, nodePods, planned, warned, incomplete, unchecked>>

Slip_ListPods ==  \* a namespace that cannot be listed is left out
  /\ planAt = "pods"
  /\ namespace <= Len(Namespaces)
  /\ podsSeen' \in {podsSeen,
                    podsSeen \cup {<<p, place[p]>> : p \in {q \in Pods : /\ NamespaceOf[q] = Namespaces[namespace]
                                                                         /\ place[q] \in Nodes}}}
  /\ namespace' = namespace + 1
  /\ UNCHANGED <<clusterVars, planAt, cordonAll, listed, nodePods, planned, warned, incomplete, unchecked>>

\* A pod that is pending has no node and can be no reason to cordon one.
ListPods ==
  /\ planAt = "pods"
  /\ namespace <= Len(Namespaces)
  /\ podsSeen' = podsSeen \cup {<<p, place[p]>> : p \in {q \in Pods : /\ NamespaceOf[q] = Namespaces[namespace]
                                                                      /\ place[q] \in Nodes}}
  /\ namespace' = namespace + 1
  /\ UNCHANGED <<clusterVars, planAt, cordonAll, listed, nodePods, planned, warned, incomplete, unchecked>>

Candidates == IF cordonAll THEN Nodes ELSE {s[2] : s \in podsSeen}
Selected == {e[1] : e \in {f \in listed : f[1] \in Candidates /\ Matches(f[2])}}

\* The pods are filtered by the nodes selected; without nodes nothing is checked.
SelectNodes ==
  /\ planAt = "pods"
  /\ namespace > Len(Namespaces)
  /\ planned' = Selected
  /\ planAt' = IF Selected = {} THEN "done" ELSE "allPods"
  /\ UNCHANGED <<clusterVars, cordonAll, namespace, listed, podsSeen, nodePods, warned, incomplete, unchecked>>

\* Without a claim on the selected nodes no volume is listed.
CheckVolumes(pods) ==
  LET here == {s \in pods : s[2] \in planned}
  IN /\ nodePods' = here
     /\ planAt' = IF \E s \in here : VolumeOf[s[1]] # "none" THEN "volumes" ELSE "done"

Slip_ListAllPods ==  \* the pods already read will do
  /\ planAt = "allPods"
  /\ CheckVolumes(podsSeen)
  /\ UNCHANGED <<clusterVars, cordonAll, namespace, listed, podsSeen, planned, warned, incomplete, unchecked>>

ListAllPods ==
  /\ planAt = "allPods"
  /\ CheckVolumes({<<p, place[p]>> : p \in {q \in Pods : place[q] \in Nodes}})
  /\ UNCHANGED <<clusterVars, cordonAll, namespace, listed, podsSeen, planned, warned, incomplete, unchecked>>

\* No permission to list the pods of all namespaces: those of the target ones
\* are looked at, and the warning says that the check is incomplete.
ListAllPodsFails ==
  /\ planAt = "allPods"
  /\ incomplete' = TRUE
  /\ CheckVolumes(podsSeen)
  /\ UNCHANGED <<clusterVars, cordonAll, namespace, listed, podsSeen, planned, warned, unchecked>>

ListVolumes ==
  /\ planAt = "volumes"
  /\ warned' = {s \in nodePods : isNodeLocalPV(VolumeOf[s[1]])}
  /\ planAt' = "done"
  /\ UNCHANGED <<clusterVars, cordonAll, namespace, listed, podsSeen, nodePods, planned, incomplete, unchecked>>

ListVolumesFails ==
  /\ planAt = "volumes"
  /\ unchecked' = TRUE
  /\ planAt' = "done"
  /\ UNCHANGED <<clusterVars, cordonAll, namespace, listed, podsSeen, nodePods, planned, warned, incomplete>>

PlanNext ==
  \/ ListNodes \/ PlanFails \/ ListPods \/ SelectNodes
  \/ ListAllPods \/ ListAllPodsFails
  \/ ListVolumes \/ ListVolumesFails

------------------------------------------------------------------------------
(* Properties of a plan when it is made.                                   *)

\* The filters as the documentation has them, not as they are parsed.
Wanted(set) == /\ \A i \in DOMAIN NodeLabels : set[NodeLabels[i][1]] = NodeLabels[i][2]
               /\ \A i \in DOMAIN ExcludeLabels : set[ExcludeLabels[i][1]] # ExcludeLabels[i][2]

\* A node is planned only if it was there, matched both filters and, unless all
\* nodes are to be cordoned, ran a pod of a target namespace, each at some
\* moment of the planning (PlanCordon, nodeMatchesFilters).
PlannedWithReason ==
  planAt = "done" =>
    \A n \in planned :
      /\ \E set \in labelled[n] : Wanted(set)
      /\ cordonAll \/ \E p \in TargetPods : n \in places[p]

\* A node that was there with matching labels all the time, and ran a pod of a
\* target namespace all the time, is in the plan: no list that failed is taken
\* for an empty one (PlanCordon's early returns).
NothingMissed ==
  planAt = "done" =>
    \A n \in Nodes :
      (/\ Remained(n)
       /\ \A set \in labelled[n] : Wanted(set)
       /\ cordonAll \/ \E p \in TargetPods : place[p] = n /\ Stayed(p))
      => n \in planned

\* Without a note that the check failed or is incomplete, every pod of any
\* namespace that stayed on a node of the plan with a node-local volume is in
\* the warning (podsOnNodes, findLocalVolumeUses).
LocalVolumesWarned ==
  planAt = "done" /\ ~ incomplete /\ ~ unchecked =>
    \A p \in Pods :
      place[p] \in planned /\ Stayed(p) /\ isNodeLocalPV(VolumeOf[p]) => <<p, place[p]>> \in warned

\* What the documentation of --exclude-node-labels says: a node that carried one
\* of the labels all the time is not cordoned.  It does not hold when the flag
\* names one key twice: Parsed keeps the last value.
ExcludedNodesAreKept ==
  planAt = "done" =>
    \A n \in planned, i \in DOMAIN ExcludeLabels :
      ~ \A set \in labelled[n] : set[ExcludeLabels[i][1]] = ExcludeLabels[i][2]
=============================================================================
