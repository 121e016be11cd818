-------------------------- MODULE SurveyedCluster --------------------------
(***************************************************************************)
(* The nodes and pods that the cordon plan and the report look at, and what *)
(* others do to them between two requests: pods are scheduled, moved and   *)
(* deleted, nodes are relabelled, removed and added again.                 *)
(***************************************************************************)
EXTENDS Integers, FiniteSets, Sequences

CONSTANTS Nodes,        \* names of nodes
          Pods,         \* pods, of target namespaces and of others
          NamespaceOf,  \* namespace of each pod
          VolumeOf,     \* kind of the PersistentVolume behind each pod's claim, "none" without a claim
          Keys,         \* label keys of nodes that the filters name
          LabelSets,    \* the labels a node may carry: a value for each key, or NoLabel
          Namespaces,   \* the target namespaces, in order
          MaxChanges    \* bound: changes by others

Targets == {Namespaces[i] : i \in DOMAIN Namespaces}
TargetPods == {p \in Pods : NamespaceOf[p] \in Targets}

NoLabel == "absent"
Unplaced == "pending"    \* spec.nodeName is empty
Deleted == "deleted"
Places == Nodes \cup {Unplaced, Deleted}

ASSUME ClusterAssumption == /\ NamespaceOf \in [Pods -> STRING]
                            /\ VolumeOf \in [Pods -> STRING]
                            /\ LabelSets \subseteq [Keys -> STRING]
                            /\ Namespaces \in Seq(STRING)
                            /\ {Unplaced, Deleted} \cap Nodes = {}
                            /\ MaxChanges \in Nat

VARIABLES
  place,    \* where each pod is
  exists,   \* the nodes that exist
  labels,   \* their labels
  changes,  \* counts what others did, up to MaxChanges
  places,   \* history: where each pod was since the survey at hand began
  labelled, \* history: the labels each node had since then, while it existed
  left      \* history: the nodes that were missing at a time since then

realVars == <<place, exists, labels, changes>>
historyVars == <<places, labelled, left>>
clusterVars == <<realVars, historyVars>>

ClusterTypeOK ==
  /\ place \in [Pods -> Places]
  /\ exists \subseteq Nodes
  /\ labels \in [Nodes -> LabelSets]
  /\ changes \in 0 .. MaxChanges
  /\ places \in [Pods -> SUBSET Places]
  /\ labelled \in [Nodes -> SUBSET LabelSets]
  /\ left \subseteq Nodes

\* A pod that is pending or gone is so by a change.
ClusterInit ==
  /\ place \in [Pods -> Nodes]
  /\ exists = Nodes
  /\ labels \in [Nodes -> LabelSets]
  /\ changes = 0
  /\ places = [p \in Pods |-> {place[p]}]
  /\ labelled = [n \in Nodes |-> {labels[n]}]
  /\ left = {}

\* A new survey: the histories begin again.
BeginSurvey ==
  /\ places' = [p \in Pods |-> {place[p]}]
  /\ labelled' = [n \in Nodes |-> IF n \in exists THEN {labels[n]} ELSE {}]
  /\ left' = Nodes \ exists

PodMoves ==
  \E p \in Pods :
    \E there \in exists \cup {Unplaced, Deleted} :
      /\ there # place[p]
      /\ place' = [place EXCEPT ![p] = there]
      /\ places' = [places EXCEPT ![p] = @ \cup {there}]
      /\ UNCHANGED <<exists, labels, labelled, left>>

NodeRelabelled ==
  \E n \in exists :
    \E set \in LabelSets :
      /\ set # labels[n]
      /\ labels' = [labels EXCEPT ![n] = set]
      /\ labelled' = [labelled EXCEPT ![n] = @ \cup {set}]
      /\ UNCHANGED <<place, exists, places, left>>

NodeLeaves ==
  \E n \in exists :
    /\ exists' = exists \ {n}
    /\ left' = left \cup {n}
    /\ UNCHANGED <<place, labels, places, labelled>>

NodeComes ==
  \E n \in Nodes \ exists :
    /\ exists' = exists \cup {n}
    /\ labelled' = [labelled EXCEPT ![n] = @ \cup {labels[n]}]
    /\ UNCHANGED <<place, labels, places, left>>

ClusterChanges ==
  /\ changes < MaxChanges
  /\ changes' = changes + 1
  /\ PodMoves \/ NodeRelabelled \/ NodeLeaves \/ NodeComes

\* Where a pod, or a node with its labels, stayed as it is.
Stayed(p) == places[p] = {place[p]}
Remained(n) == n \in exists \ left
=============================================================================
