------------------------- MODULE WorkloadSelection -------------------------
(***************************************************************************)
(* selectDeployments and selectStatefulSets (pkg/operations/deployments.go, *)
(* statefulsets.go): the workloads of a namespace are listed and filtered; *)
(* with pod filters its pods are listed after them, and the ReplicaSets    *)
(* after those, and what a pod shows counts for the workload instance that *)
(* controls it.  A Deployment controls its pods through a ReplicaSet.      *)
(***************************************************************************)
EXTENDS PlanPool

CONSTANTS PrimaryOf,   \* the object named like this one with "-primary", or "none"
          Filters      \* kinds of pod filters: labels, annotations, images

\* A name and the same with "-primary" are names in one namespace.
ASSUME WorkloadAssumption ==
  /\ PrimaryOf \in [Objects -> Objects \cup {"none"}]
  /\ "none" \notin Objects
  /\ \A o \in Objects : PrimaryOf[o] \in Objects => NamespaceOf[PrimaryOf[o]] = NamespaceOf[o]

VARIABLES
  pod,        \* the pod of each workload: its ReplicaSet, and the filters it satisfies
  sets,       \* the ReplicaSets that exist, by workload instance and revision
  rsSeen,     \* the ReplicaSets of pods that satisfy the filters, by namespace
  active,     \* the pod filters given
  noFlagger,  \* --no-flagger-filter
  was         \* history: what was true of each instance at one time or another

workloadVars == <<pod, sets, was>>
optionVars == <<active, noFlagger>>

Revisions == {1, 2}
ReplicaSets == Instances \X Revisions
Traits == {"eligible", "matched"}

WorkloadTypeOK ==
  /\ pod \in [Objects -> [exists : BOOLEAN, revision : Revisions, satisfies : SUBSET Filters]]
  /\ sets \subseteq ReplicaSets
  /\ rsSeen \in [Indexes -> SUBSET ReplicaSets]
  /\ active \subseteq Filters
  /\ noFlagger \in BOOLEAN
  /\ was \subseteq Instances \X Traits

\* The pod filters, all of those given, on one pod.
Satisfies(p) == p.exists /\ active \subseteq p.satisfies

\* A Deployment controlled by a Flagger Canary and named like a primary.
isFlaggerPrimary(o) == object[o].managed /\ \E t \in Objects : PrimaryOf[t] = o

\* History: the traits of the instances as they are.
TraitsNow ==
  {<<Instance(o), "eligible">> : o \in {q \in Objects : object[q].exists /\ OldEnough(q) /\ ~ object[q].blocked}}
  \cup {<<Instance(o), "matched">> : o \in {q \in Objects : object[q].exists /\ Satisfies(pod[q])}}

WorkloadInit ==
  /\ active \in IF kind \in Workloads THEN SUBSET Filters ELSE {{}}
  /\ noFlagger \in IF kind = "Deployment" THEN BOOLEAN ELSE {TRUE}
  /\ pod \in [Objects -> [exists : {TRUE}, revision : {1}, satisfies : SUBSET active]]
  /\ \A o \in Plain : pod[o].satisfies = active
  /\ sets = {<<<<o, 1>>, 1>> : o \in Objects}
  /\ rsSeen = [i \in Indexes |-> {}]
  /\ was = TraitsNow

------------------------------------------------------------------------------
(* Deployments.                                                            *)

Slip_primaries(here) == {p \in here : isFlaggerPrimary(p) /\ OldEnough(p)}  \* of what the filters leave

primaries(here) == {p \in here : isFlaggerPrimary(p)}

\* A canary's target, whose pods Flagger scales, is left to its primary.
DeploymentCandidates(here) ==
  {o \in here : /\ noFlagger \/ o \in primaries(here) \/ PrimaryOf[o] \notin primaries(here)
                /\ OldEnough(o)}

\* Paused ones are selected by nobody; they are read with the list.
Unblocked(S) == {c \in S : ~ object[c[1]].blocked}

\* Without pod filters, or without candidates, the list is all that is read.
ListDeployments(i) ==
  LET C == {Instance(o) : o \in DeploymentCandidates(Here(i))}
  IN IF active # {} /\ C # {}
       THEN /\ Goes(i, "list", "pods")
            /\ cand' = [cand EXCEPT ![i] = Unblocked(C)]
            /\ UNCHANGED <<picked, errs, rsSeen>>
       ELSE /\ Goes(i, "list", "done")
            /\ Selected(i, Unblocked(C))
            /\ UNCHANGED rsSeen

\* The ReplicaSets that control a pod of namespace i that satisfies the filters.
RsOfMatchingPods(i) ==
  {<<Instance(o), pod[o].revision>> : o \in {q \in Here(i) : Satisfies(pod[q])}}

ListDeploymentPods(i) ==
  IF RsOfMatchingPods(i) = {}
    THEN /\ Goes(i, "pods", "done")
         /\ Selected(i, {})
         /\ UNCHANGED rsSeen
    ELSE /\ Goes(i, "pods", "replicaSets")
         /\ rsSeen' = [rsSeen EXCEPT ![i] = RsOfMatchingPods(i)]
         /\ UNCHANGED <<cand, picked, errs>>

\* The uid of the Deployment that controls a ReplicaSet identifies it.
Slip_deploymentsWithMatchingPods(i) ==  \* its name does
  {c \in cand[i] : \E rs \in rsSeen[i] \cap sets : rs[1][1] = c[1]}

deploymentsWithMatchingPods(i) == {c \in cand[i] : \E rs \in rsSeen[i] \cap sets : rs[1] = c}

ListReplicaSets(i) ==
  /\ Goes(i, "replicaSets", "done")
  /\ Selected(i, deploymentsWithMatchingPods(i))
  /\ rsSeen' = [rsSeen EXCEPT ![i] = {}]

DeploymentStep(i) == ListDeployments(i) \/ ListDeploymentPods(i) \/ ListReplicaSets(i)

------------------------------------------------------------------------------
(* StatefulSets.                                                           *)

\* Those of the PostgreSQL operator and of ECK are not this tool's to restart.
StatefulSetCandidates(here) == {o \in here : ~ object[o].managed /\ OldEnough(o)}

ListStatefulSets(i) ==
  LET C == {Instance(o) : o \in StatefulSetCandidates(Here(i))}
  IN /\ UNCHANGED rsSeen
     /\ IF active # {} /\ C # {}
          THEN /\ Goes(i, "list", "pods")
               /\ cand' = [cand EXCEPT ![i] = Unblocked(C)]
               /\ UNCHANGED <<picked, errs>>
          ELSE /\ Goes(i, "list", "done")
               /\ Selected(i, Unblocked(C))

\* A pod of a StatefulSet names the instance that controls it.
statefulSetsWithMatchingPods(i) == {Instance(o) : o \in {q \in Here(i) : Satisfies(pod[q])}}

ListStatefulSetPods(i) ==
  /\ Goes(i, "pods", "done")
  /\ Selected(i, cand[i] \cap statefulSetsWithMatchingPods(i))
  /\ UNCHANGED rsSeen

StatefulSetStep(i) == ListStatefulSets(i) \/ ListStatefulSetPods(i)

------------------------------------------------------------------------------
(* What others do.                                                         *)

\* A new template: the pod is replaced by one of a new ReplicaSet; the old one
\* is kept or, with a revision history limit of zero, deleted.
RolledOut(o) ==
  /\ object[o].exists
  /\ pod[o].revision = 1
  /\ \E s \in SUBSET active : pod' = [pod EXCEPT ![o] = [exists |-> TRUE, revision |-> 2, satisfies |-> s]]
  /\ sets' \in {sets \cup {<<Instance(o), 2>>}, (sets \ {<<Instance(o), 1>>}) \cup {<<Instance(o), 2>>}}
  /\ UNCHANGED object

\* With the object its ReplicaSets and its pod go, and come.
Gone(o) ==
  /\ Deleted(o)
  /\ pod' = [pod EXCEPT ![o].exists = FALSE]
  /\ sets' = {rs \in sets : rs[1][1] # o}

Again(o) ==
  /\ Recreated(o)
  /\ \E s \in SUBSET active : pod' = [pod EXCEPT ![o] = [exists |-> TRUE, revision |-> 1, satisfies |-> s]]
  /\ sets' = {rs \in sets : rs[1][1] # o} \cup {<<<<o, object[o].uid + 1>>, 1>>}

WorkloadChanges ==
  \E o \in Objects :
    /\ Counted(o)
    /\ \/ RolledOut(o) \/ Gone(o) \/ Again(o)
       \/ (Switched(o) \/ Aged(o)) /\ UNCHANGED <<pod, sets>>
    /\ was' = was \cup TraitsNow'
=============================================================================
