---------------------------- MODULE RolloutStatus ----------------------------
(***************************************************************************)
(* When is a restarted workload restarted?  deploymentRolloutStatus and    *)
(* statefulSetRolloutStatus (pkg/operations) decide it from one read of    *)
(* the object: its generation, and a status the controller wrote some time *)
(* ago, about the pods it saw then, for the spec it saw then.  Meanwhile   *)
(* pods come, go and crash, and others scale the workload or change its    *)
(* template.                                                               *)
(*                                                                         *)
(* The module begins when the restart PATCH has been answered.  A failed   *)
(* poll and --timeout are those of RolloutPool.                            *)
(***************************************************************************)
EXTENDS Integers, FiniteSets

CONSTANTS MaxReplicas,  \* bound: spec.replicas
          MaxPods,      \* bound: pods at the same time, the surge included
          MaxChanges,   \* bound: changes of the spec by others
          MaxCrashes    \* bound: crashes and evictions of pods

ASSUME StatusAssumption ==
  /\ MaxReplicas \in Nat
  /\ MaxPods \in Nat /\ MaxPods > MaxReplicas /\ MaxPods > 1
  /\ MaxChanges \in Nat
  /\ MaxCrashes \in Nat

Unset == 0 - 1  \* spec.replicas is nil
Slots == 1 .. MaxPods
Generations == 1 .. (2 + MaxChanges)

VARIABLES
  kind,     \* "Deployment" or "StatefulSet"
  spec,     \* the object: its generation, template revision and replicas
  exists,   \* the object has not been deleted
  seen,     \* the spec the controller works with
  status,   \* the status it wrote last
  pod,      \* the workload's pods
  crashes,  \* counts crashes and evictions, up to MaxCrashes
  moved,    \* history: pods or spec may have changed since the status was written
  minGeneration, \* the generation the restart PATCH was answered with
  result    \* of the wait

clusterVars == <<spec, exists, seen, status, pod, crashes, moved>>
vars == <<kind, clusterVars, minGeneration, result>>

Specs == [gen : Generations, rev : Generations, replicas : {Unset} \cup 0 .. MaxReplicas]
Statuses == [observed : Generations, update : Generations, current : Generations,
             total : 0 .. MaxPods, updated : 0 .. MaxPods, ready : 0 .. MaxPods,
             available : 0 .. MaxPods, deadline : BOOLEAN]

TypeOK ==
  /\ kind \in {"Deployment", "StatefulSet"}
  /\ spec \in Specs /\ seen \in Specs
  /\ exists \in BOOLEAN
  /\ status \in Statuses
  /\ pod \in [Slots -> [rev : Generations, phase : {"none", "starting", "ready", "available"}]]
  /\ crashes \in 0 .. MaxCrashes
  /\ moved \in BOOLEAN
  /\ minGeneration \in Generations
  /\ result \in {"waiting", "done", "failed"}

------------------------------------------------------------------------------
(* What the controller counts, and what the tool makes of it.              *)

Slip_Desired(s) == IF s.replicas = Unset THEN 0 ELSE s.replicas  \* Go's zero value
\* spec.replicas defaults to one.
Desired(s) == IF s.replicas = Unset THEN 1 ELSE s.replicas

Wanted(s) == IF s.replicas = Unset THEN 1 ELSE s.replicas  \* the controller's view

PodsIn(phases) == {i \in Slots : pod[i].phase \in phases}
Existing == PodsIn({"starting", "ready", "available"})
OfTemplate(s) == {i \in Existing : pod[i].rev = s.rev}

Slip_Observed == TRUE  \* the status is taken as it is
Observed == status.observed >= spec.gen /\ status.observed >= minGeneration

DeadlineExceeded == kind = "Deployment" /\ status.deadline

Slip_CountsAgree ==  \* pods of the old template are not looked at
  LET d == Desired(spec) IN
    status.updated = d /\ status.available >= d /\ status.ready >= d
CountsAgree ==
  LET d == Desired(spec) IN
    status.updated = d /\ status.total = d /\ status.available = d /\ status.ready = d

Complete == Observed /\ CountsAgree /\ (kind = "StatefulSet" => status.current = status.update)

Slip_Failed == DeadlineExceeded  \* the condition may be about an older generation
Failed == Observed /\ DeadlineExceeded

Restarted == minGeneration = 2

\* The restart PATCH was answered with generation 2: the controller has not
\* seen it yet, and its status is about the rollout before, finished or not.
Init ==
  /\ kind \in {"Deployment", "StatefulSet"}
  /\ spec \in [gen : {2}, rev : {2}, replicas : {Unset} \cup 0 .. MaxReplicas]
  /\ exists = TRUE
  /\ seen = [spec EXCEPT !.gen = 1, !.rev = 1]
  /\ \E d \in {Wanted(spec)}, ok \in BOOLEAN :
       /\ pod = [i \in Slots |-> [rev |-> 1, phase |-> IF i > d THEN "none"
                                                       ELSE IF ok THEN "available" ELSE "starting"]]
       /\ \E deadline \in {FALSE, kind = "Deployment" /\ ~ ok} :
            status = [observed |-> 1, update |-> 1, current |-> 1, total |-> d, updated |-> d,
                      ready |-> IF ok THEN d ELSE 0, available |-> IF ok THEN d ELSE 0,
                      deadline |-> deadline]
  /\ crashes = 0
  /\ moved = TRUE
  /\ Restarted
  /\ result = "waiting"

------------------------------------------------------------------------------
(* One poll of waitForRollouts: a GET of the object, and the verdict.      *)

Polling == result = "waiting" /\ UNCHANGED <<kind, clusterVars, minGeneration>>

PollGone == Polling /\ ~ exists /\ result' = "failed"

PollFailed == Polling /\ exists /\ Failed /\ result' = "failed"

PollDone == Polling /\ exists /\ ~ Failed /\ Complete /\ result' = "done"

Poll == PollGone \/ PollFailed \/ PollDone

------------------------------------------------------------------------------
(* The controller, the kubelets, and others.                               *)

ClusterStep == exists /\ UNCHANGED <<kind, minGeneration, result>>

\* The controller's cache catches up with the object.
Observe ==
  /\ ClusterStep
  /\ seen # spec
  /\ seen' = spec
  /\ moved' = TRUE
  /\ UNCHANGED <<spec, exists, status, pod, crashes>>

\* The controller writes what it counts.  A StatefulSet's current revision is
\* the updated one once all its pods are; a Deployment's deadline may pass as
\* long as its rollout is not complete.
WriteStatus ==
  /\ ClusterStep
  /\ LET u == Cardinality(OfTemplate(seen))
         t == Cardinality(Existing)
         r == Cardinality(PodsIn({"ready", "available"}))
         a == Cardinality(PodsIn({"available"}))
         whole == u = t /\ t = Wanted(seen) /\ r = t /\ a = t
     IN \E late \in {FALSE, kind = "Deployment" /\ ~ whole} :
          /\ status.deadline /\ status.update = seen.rev /\ ~ whole => late
          /\ status' = [observed |-> seen.gen, update |-> seen.rev,
                        current |-> IF u = t /\ r = t /\ t = Wanted(seen) THEN seen.rev
                                    ELSE status.current,
                        total |-> t, updated |-> u, ready |-> r, available |-> a,
                        deadline |-> late]
  /\ moved' = (seen # spec)
  /\ UNCHANGED <<spec, exists, seen, pod, crashes>>

PodChanges(i, new) ==
  /\ ClusterStep
  /\ pod' = [pod EXCEPT ![i] = new]
  /\ moved' = TRUE
  /\ UNCHANGED <<spec, exists, seen, status>>

\* New pods are made from the template the controller sees.
Create(i) ==
  /\ pod[i].phase = "none"
  /\ Cardinality(OfTemplate(seen)) < Wanted(seen)
  /\ PodChanges(i, [rev |-> seen.rev, phase |-> "starting"])
  /\ UNCHANGED crashes

Gone == [rev |-> 1, phase |-> "none"]

\* A pod of another template, or one too many, is removed.
Remove(i) ==
  /\ i \in Existing
  /\ i \in OfTemplate(seen) => Cardinality(Existing) > Wanted(seen)
  /\ PodChanges(i, Gone)
  /\ UNCHANGED crashes

\* Ready first, available after minReadySeconds.
Starts(i) ==
  /\ \/ pod[i].phase = "starting" /\ PodChanges(i, [pod[i] EXCEPT !.phase = "ready"])
     \/ pod[i].phase = "ready" /\ PodChanges(i, [pod[i] EXCEPT !.phase = "available"])
  /\ UNCHANGED crashes

Crashes(i) ==
  /\ i \in Existing
  /\ crashes < MaxCrashes
  /\ crashes' = crashes + 1
  /\ PodChanges(i, [pod[i] EXCEPT !.phase = "starting"]) \/ PodChanges(i, Gone)

\* Somebody scales the workload, or changes its template once more; nobody
\* rolls the template back to an older one.
OthersChange ==
  /\ ClusterStep
  /\ spec.gen < 2 + MaxChanges
  /\ \/ \E n \in 0 .. MaxReplicas :
          spec' = [spec EXCEPT !.gen = @ + 1, !.replicas = n]
     \/ spec' = [spec EXCEPT !.gen = @ + 1, !.rev = spec.gen + 1]
  /\ moved' = TRUE
  /\ UNCHANGED <<exists, seen, status, pod, crashes>>

Deleted ==
  /\ ClusterStep
  /\ exists' = FALSE
  /\ UNCHANGED <<spec, seen, status, pod, crashes, moved>>

Others == \/ Observe \/ WriteStatus \/ OthersChange \/ Deleted
          \/ \E i \in Slots : Create(i) \/ Remove(i) \/ Starts(i) \/ Crashes(i)

\* The wait is over, and the cluster at rest.
Next == Poll \/ Others \/ (result # "waiting" /\ UNCHANGED vars)

Spec == Init /\ [][Next]_vars

\* The tool keeps polling, and the cluster does its work: an assumption about
\* Kubernetes, made here to see that a finished rollout is recognised.
FairSpec == /\ Spec
            /\ WF_vars(Poll)
            /\ WF_vars(Observe) /\ WF_vars(WriteStatus)
            /\ \A i \in Slots : WF_vars(Create(i)) /\ WF_vars(Starts(i))
                             /\ WF_vars(Remove(i) /\ i \notin OfTemplate(seen))
            /\ WF_vars(\E i \in Slots : Remove(i))

------------------------------------------------------------------------------
(* Properties.                                                             *)

\* Success means that every pod that is left was made from the restarted
\* template or a later one, whatever status the controller had written before.
DoneMeansReplaced ==
  result = "done" => \A i \in Existing : pod[i].rev >= minGeneration

\* A success about a cluster that has not moved since the controller wrote the
\* status: exactly the desired pods are there, all of the template that is
\* asked for now, and all available.
DoneMeansServing ==
  [][ result = "waiting" /\ result' = "done" /\ ~ moved =>
        /\ Existing = OfTemplate(spec)
        /\ Existing = PodsIn({"available"})
        /\ Cardinality(Existing) = Wanted(spec) ]_vars

\* A rollout is given up only if the object is gone or the deadline has passed
\* for what the PATCH asked for: not for the rollout before it.
FailureIsOurs ==
  [][ result = "waiting" /\ result' = "failed" /\ exists =>
        status.deadline /\ status.update >= minGeneration ]_vars

\* A rollout that completes is recognised: for replicas that are not set, zero,
\* scaled on the way, and after crashes.
RolloutRecognised == <>(result # "waiting")
==============================================================================
