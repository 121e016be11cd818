---------------------------- MODULE KafkaRestart ----------------------------
(***************************************************************************)
(* restartKafkaCluster (pkg/operations/kafka.go): one cluster of Strimzi.  *)
(* Record the pods, annotate each StrimziPodSet of the cluster, and wait   *)
(* until the operator has replaced the recorded pods: a poll lists the     *)
(* pods, then reads the PodSets twice (the desired pods, the annotation)   *)
(* and the Kafka resource, each with a request of its own, while the       *)
(* cluster goes on changing.                                               *)
(*                                                                         *)
(* The operator removes an annotation only after it has replaced the pods  *)
(* there were when the annotation appeared; it owes nothing else.  A new   *)
(* pod that is being deleted counts for as much as one that is gone.       *)
(***************************************************************************)
EXTENDS Integers, FiniteSets

CONSTANTS PodSets,    \* the StrimziPodSets of the cluster
          K,          \* bound: pods of a PodSet
          MaxUid,     \* bound: instances a pod name goes through
          MaxScales,  \* bound: changes of a PodSet's desired pods
          SkipWait    \* --skip-wait

ASSUME KafkaAssumption ==
  /\ IsFiniteSet(PodSets) /\ PodSets # {}
  /\ K \in Nat \ {0}
  /\ MaxUid \in Nat \ {0}
  /\ MaxScales \in Nat
  /\ SkipWait \in BOOLEAN

Names == PodSets \X (1 .. K)
Pods == PodSets \X (1 .. K) \X (1 .. MaxUid)  \* an instance: <<set, index, uid>>

VARIABLES
  pod,       \* the pods of the cluster, one instance at a time per name
  desired,   \* size of spec.pods of each PodSet
  annotated, \* the PodSet carries the manual-rolling-update annotation
  due,       \* pods the annotation asked, or asks, the operator to replace
  inflight,  \* PodSets with a PATCH the client gave up on that may be applied
  scales,    \* counts the changes of desired, up to MaxScales
  moved,     \* history: the cluster may have changed since this poll's list
  pc,        \* where restartKafkaCluster is
  todo,      \* PodSets still to be annotated, or read in this poll
  old,       \* oldUIDs: the pods recorded before the restart
  mutated,   \* PodSets that were, or may have been, annotated
  answered,  \* history: PodSets whose PATCH was answered with success
  clean,     \* the last list showed new pods only, all of them ready
  listed,    \* so many of them, if so
  count,     \* desired pods read so far in this poll
  failed,    \* an error was collected: it will be returned
  tripped,   \* the run-wide stop is set
  pollErr,   \* history: a request of a poll failed, no stop being set, no context over
  over,      \* the context is cancelled, or --timeout has run out
  result     \* what restartKafkaCluster returned

kubeVars == <<pod, desired, annotated, due, inflight, scales>>
clusterVars == <<kubeVars, moved>>
patchVars == <<old, mutated, answered>>
pollVars == <<clean, listed, count>>
endVars == <<failed, tripped, pollErr, result>>
vars == <<clusterVars, pc, todo, patchVars, pollVars, endVars, over>>

TypeOK ==
  /\ pod \in [Names -> [uid : 1 .. MaxUid, phase : {"gone", "starting", "ready"}]]
  /\ desired \in [PodSets -> 0 .. K]
  /\ annotated \in [PodSets -> BOOLEAN]
  /\ due \in [PodSets -> SUBSET Pods]
  /\ inflight \subseteq PodSets
  /\ scales \in 0 .. MaxScales
  /\ moved \in BOOLEAN
  /\ pc \in {"record", "patch", "list", "desired", "annotations", "tick", "returned"}
  /\ todo \subseteq PodSets
  /\ old \subseteq Pods
  /\ mutated \subseteq PodSets /\ answered \subseteq PodSets
  /\ clean \in BOOLEAN
  /\ listed \in 0 .. Cardinality(Names) /\ count \in Nat
  /\ failed \in BOOLEAN /\ tripped \in BOOLEAN
  /\ pollErr \in BOOLEAN /\ over \in BOOLEAN
  /\ result \in {"unset", "nil", "error", "timeout"}

Instance(n) == <<n[1], n[2], pod[n].uid>>
Exists(p) == pod[<<p[1], p[2]>>].uid = p[3] /\ pod[<<p[1], p[2]>>].phase # "gone"
Existing == {p \in Pods : Exists(p)}
PodsOf(s) == {p \in Existing : p[1] = s}
Wanted == {n \in Names : n[2] <= desired[n[1]]}

\* Pods may be missing, and somebody may have annotated a PodSet before: then
\* the operator may have replaced some of its pods already.
Init ==
  /\ pod \in [Names -> [uid : {1}, phase : {"gone", "ready"}]]
  /\ desired = [s \in PodSets |-> K]
  /\ due \in [PodSets -> SUBSET Existing]
  /\ \A s \in PodSets : due[s] \subseteq PodsOf(s)
  /\ annotated \in [PodSets -> BOOLEAN]
  /\ \A s \in PodSets : annotated[s] \/ due[s] = {}
  /\ inflight = {} /\ scales = 0 /\ moved = TRUE
  /\ pc = "record" /\ todo = {}
  /\ old = {} /\ mutated = {} /\ answered = {}
  /\ clean = FALSE /\ listed = 0 /\ count = 0
  /\ failed = FALSE /\ tripped = FALSE /\ result = "unset"
  /\ pollErr = FALSE /\ over = FALSE

------------------------------------------------------------------------------
(* Before anything is touched: the PodSets and their pods.                 *)

Return(r) == pc' = "returned" /\ result' = r

\* A list fails, or there is no PodSet, or no pod.
RecordFails ==
  /\ pc = "record"
  /\ failed' = TRUE
  /\ Return("error")
  /\ UNCHANGED <<clusterVars, todo, patchVars, pollVars, tripped, pollErr, over>>

RecordPods ==
  /\ pc = "record"
  /\ ~ over
  /\ IF SkipWait THEN UNCHANGED old ELSE Existing # {} /\ old' = Existing
  /\ todo' = PodSets
  /\ pc' = "patch"
  /\ UNCHANGED <<clusterVars, mutated, answered, pollVars, endVars, over>>

------------------------------------------------------------------------------
(* The PATCHes, one PodSet after the other: a failure stops new launches   *)
(* in the whole run at once, and the next PodSet is annotated all the same. *)

\* A merge patch: on a PodSet that is annotated already it changes nothing.
Annotate(s) ==
  /\ annotated' = [annotated EXCEPT ![s] = TRUE]
  /\ due' = IF annotated[s] THEN due ELSE [due EXCEPT ![s] = PodsOf(s)]
  /\ moved' = TRUE
  /\ UNCHANGED <<pod, desired, scales>>

NotSent == UNCHANGED <<pod, desired, annotated, due, scales, moved>>

Slip_Fail == failed' = TRUE /\ UNCHANGED tripped  \* the stop is left to the caller
Fail == failed' = TRUE /\ tripped' = TRUE

Patching(s) ==
  /\ pc = "patch"
  /\ s \in todo
  /\ todo' = todo \ {s}
  /\ UNCHANGED <<old, pollVars, pollErr, result, over>>

PatchAnswered(s) ==
  /\ Patching(s)
  /\ ~ over
  /\ Annotate(s)
  /\ mutated' = mutated \cup {s}
  /\ answered' = answered \cup {s}
  /\ UNCHANGED <<pc, inflight, failed, tripped>>

\* mutationDefinitelyFailed: a 4xx answer other than 408.
PatchRejected(s) ==
  /\ Patching(s)
  /\ ~ over
  /\ NotSent
  /\ Fail
  /\ UNCHANGED <<pc, mutated, answered, inflight>>

\* No usable answer, a cancelled context included: applied, lost, or applied
\* later.
PatchUncertain(s) ==
  /\ Patching(s)
  /\ \/ ~ over /\ Annotate(s) /\ UNCHANGED inflight
     \/ NotSent /\ UNCHANGED inflight
     \/ ~ over /\ NotSent /\ inflight' = inflight \cup {s}
  /\ Fail
  /\ mutated' = mutated \cup {s}
  /\ UNCHANGED <<pc, answered>>

Verdict == IF failed THEN "error" ELSE "nil"

Slip_AllPatched ==  \* with an error in hand it does not wait
  /\ pc = "patch"
  /\ todo = {}
  /\ IF mutated = {} \/ SkipWait \/ failed THEN Return(Verdict) ELSE pc' = "list" /\ UNCHANGED result
  /\ UNCHANGED <<clusterVars, todo, patchVars, pollVars, failed, tripped, pollErr, over>>

AllPatched ==
  /\ pc = "patch"
  /\ todo = {}
  /\ IF mutated = {} \/ SkipWait THEN Return(Verdict) ELSE pc' = "list" /\ UNCHANGED result
  /\ UNCHANGED <<clusterVars, todo, patchVars, pollVars, failed, tripped, pollErr, over>>

------------------------------------------------------------------------------
(* waitForClusterRestart: poll until done, or until the context is over.   *)

NextPoll == pc' = "tick" /\ moved' = TRUE

ListedPods == {p \in Existing : p[1] \in mutated}
Ready(p) == pod[<<p[1], p[2]>>].phase = "ready"

\* What evaluatePodReplacement finds out from the list alone.
Evaluate(pods) ==
  IF \A p \in pods : p \notin old /\ Ready(p)
  THEN clean' = TRUE /\ listed' = Cardinality(pods)
  ELSE clean' = FALSE /\ listed' = 0

ListPods ==
  /\ pc = "list"
  /\ ~ over
  /\ Evaluate(ListedPods)
  /\ count' = 0
  /\ todo' = mutated
  /\ moved' = FALSE
  /\ pc' = "desired"
  /\ UNCHANGED <<pod, desired, annotated, due, inflight, scales, patchVars, endVars, over>>

ReadDesired(s) ==
  /\ pc = "desired"
  /\ s \in todo
  /\ ~ over
  /\ count' = count + desired[s]
  /\ todo' = todo \ {s}
  /\ UNCHANGED <<clusterVars, pc, patchVars, clean, listed, endVars, over>>

Slip_Replaced == clean /\ listed = Cardinality({p \in old : p[1] \in mutated})  \* the pods recorded
\* No recorded pod is left, exactly the desired number of pods is there now,
\* and all of them are ready.
Replaced == clean /\ listed = count

Compare ==
  /\ pc = "desired"
  /\ todo = {}
  /\ IF Replaced
     THEN pc' = "annotations" /\ todo' = mutated /\ UNCHANGED moved
     ELSE NextPoll /\ UNCHANGED todo
  /\ clean' = FALSE /\ listed' = 0 /\ count' = 0
  /\ UNCHANGED <<kubeVars, patchVars, endVars, over>>

Slip_ReadAnnotation(s) ==  \* whatever the annotation says
  /\ pc = "annotations"
  /\ s \in todo
  /\ ~ over
  /\ todo' = todo \ {s}
  /\ UNCHANGED <<clusterVars, pc, patchVars, pollVars, endVars, over>>

\* kafkaRollCompleted: the annotations, then the Kafka resource.
ReadAnnotation(s) ==
  /\ pc = "annotations"
  /\ s \in todo
  /\ ~ over
  /\ IF annotated[s]
     THEN NextPoll /\ todo' = {}
     ELSE todo' = todo \ {s} /\ UNCHANGED <<pc, moved>>
  /\ UNCHANGED <<kubeVars, patchVars, pollVars, endVars, over>>

NotReady ==
  /\ pc = "annotations"
  /\ todo = {}
  /\ ~ over
  /\ NextPoll
  /\ UNCHANGED <<kubeVars, todo, patchVars, pollVars, endVars, over>>

\* Done; what failed on the way is still an error.
Done ==
  /\ pc = "annotations"
  /\ todo = {}
  /\ ~ over
  /\ Return(Verdict)
  /\ moved' = TRUE
  /\ UNCHANGED <<kubeVars, todo, patchVars, pollVars, failed, tripped, pollErr, over>>

Slip_PollFails ==  \* the error is returned when the wait ends, and stops nothing before
  /\ pc \in {"list", "desired", "annotations"}
  /\ failed' = (failed \/ ~ over)
  /\ UNCHANGED tripped
  /\ pollErr' = (pollErr \/ (~ over /\ ~ tripped))
  /\ NextPoll
  /\ todo' = {}
  /\ clean' = FALSE /\ listed' = 0 /\ count' = 0
  /\ UNCHANGED <<kubeVars, patchVars, result, over>>

\* Any request of a poll fails.  It stops new launches at once, unless the
\* context is over; either way the loop goes on to its select.
PollFails ==
  /\ pc \in {"list", "desired", "annotations"}
  /\ IF over THEN UNCHANGED <<failed, tripped>> ELSE Fail
  /\ pollErr' = (pollErr \/ (~ over /\ ~ tripped))
  /\ NextPoll
  /\ todo' = {}
  /\ clean' = FALSE /\ listed' = 0 /\ count' = 0
  /\ UNCHANGED <<kubeVars, patchVars, result, over>>

\* When both channels are ready, select takes any of the two.
Tick ==
  /\ pc = "tick"
  /\ pc' = "list"
  /\ UNCHANGED <<clusterVars, todo, patchVars, pollVars, endVars, over>>

GiveUp ==
  /\ pc = "tick"
  /\ over
  /\ failed' = TRUE
  /\ Return("timeout")
  /\ UNCHANGED <<clusterVars, todo, patchVars, pollVars, tripped, pollErr, over>>

Step == \/ RecordFails \/ RecordPods
        \/ \E s \in PodSets : PatchAnswered(s) \/ PatchRejected(s) \/ PatchUncertain(s)
        \/ AllPatched
        \/ ListPods \/ Compare \/ NotReady \/ Done \/ PollFails \/ Tick \/ GiveUp
        \/ \E s \in PodSets : ReadDesired(s) \/ ReadAnnotation(s)

------------------------------------------------------------------------------
(* Everybody else.                                                         *)

toolVars == <<pc, todo, patchVars, pollVars, endVars>>

\* A signal at any time, or --timeout, which runs from the start of the wait:
\* the requests of a poll fail then.
ContextEnds ==
  /\ ~ over
  /\ over' = TRUE
  /\ UNCHANGED <<clusterVars, toolVars>>

\* The API server gets to a PATCH the client gave up on.
LateApply(s) ==
  /\ s \in inflight
  /\ inflight' = inflight \ {s}
  /\ Annotate(s)
  /\ UNCHANGED <<toolVars, over>>

PodChanges(n, new) ==
  /\ pod' = [pod EXCEPT ![n] = new]
  /\ moved' = TRUE
  /\ UNCHANGED <<desired, annotated, due, inflight, scales, toolVars, over>>

\* The operator rolls or removes a pod, or somebody evicts it.
Removed(n) ==
  /\ pod[n].phase # "gone"
  /\ PodChanges(n, [pod[n] EXCEPT !.phase = "gone"])

Created(n) ==
  /\ pod[n].phase = "gone"
  /\ pod[n].uid < MaxUid
  /\ PodChanges(n, [uid |-> pod[n].uid + 1, phase |-> "starting"])

Readiness(n) ==
  /\ pod[n].phase # "gone"
  /\ PodChanges(n, [pod[n] EXCEPT !.phase = IF @ = "ready" THEN "starting" ELSE "ready"])

Scaled(s) ==
  /\ scales < MaxScales
  /\ scales' = scales + 1
  /\ \E k \in 0 .. K : desired' = [desired EXCEPT ![s] = k]
  /\ moved' = TRUE
  /\ UNCHANGED <<pod, annotated, due, inflight, toolVars, over>>

\* The operator has replaced what the annotation asked it to, and removes it.
Rolled(s) ==
  /\ annotated[s]
  /\ due[s] \cap Existing = {}
  /\ annotated' = [annotated EXCEPT ![s] = FALSE]
  /\ moved' = TRUE
  /\ UNCHANGED <<pod, desired, due, inflight, scales, toolVars, over>>

Others == \/ ContextEnds
          \/ \E s \in PodSets : LateApply(s) \/ Scaled(s) \/ Rolled(s)
          \/ \E n \in Names : Removed(n) \/ Created(n) \/ Readiness(n)

Next == Step \/ Others

Spec == Init /\ [][Next]_vars

------------------------------------------------------------------------------
(* Properties.                                                             *)

Waiting == pc \in {"list", "desired", "annotations", "tick"}

\* Success after a wait means that no pod recorded before the restart exists
\* any more, and none that existed when its PodSet was annotated: also not a
\* pod that somebody replaced between the two.
SuccessMeansRolled ==
  result = "nil" /\ ~ SkipWait =>
    /\ old \cap Existing = {}
    /\ \A s \in PodSets : due[s] \cap Existing = {}

\* An error of one PodSet does not abandon the others: unless the wait timed
\* out or was interrupted, whatever the outcome, each PodSet that was annotated
\* for certain has been rolled before the cluster's slot is given back.
RollsAreWaitedFor ==
  pc = "returned" /\ result # "timeout" /\ ~ SkipWait =>
    \A s \in answered : due[s] \cap Existing = {}

\* A PodSet that was not, or perhaps not, annotated stops new launches before
\* the wait for the others begins, and a stop set by this cluster is never
\* followed by its success.
StopBeforeWaiting ==
  /\ Waiting /\ answered # PodSets => tripped
  /\ tripped => result # "nil"

\* A request of a poll that fails while the context is not over stops new
\* launches at once, in the middle of the wait, and no later success of the
\* wait takes the error back.  A signal or --timeout is no such error: of a
\* cluster whose PodSets were all annotated, nothing else sets the stop.
PollErrorsStop ==
  /\ pollErr => tripped /\ result \in {"unset", "error", "timeout"}
  /\ tripped /\ answered = PodSets => pollErr

\* When a poll that nothing interfered with ends the wait with success, the
\* cluster has as many pods as its PodSets want now, all of them new and ready,
\* and no PodSet is annotated.
NilMeansHealthy ==
  [][ result = "unset" /\ result' = "nil" /\ ~ SkipWait /\ ~ moved =>
        /\ \A s \in PodSets : ~ annotated[s]
        /\ \A n \in Names : pod[n].phase # "starting"
        /\ old \cap Existing = {}
        /\ Cardinality(Existing) = Cardinality(Wanted) ]_vars
==============================================================================
