------------------------- MODULE RolloutStatusProofs -------------------------
(***************************************************************************)
(* What the wait makes of a status is right for any number of replicas,    *)
(* pods, changes of the object and crashes.                                *)
(***************************************************************************)
EXTENDS RolloutStatus, FiniteSetTheorems, TLAPS

\* Since the restart the object has asked for the restarted template or a later
\* one, and the controller works with a spec it had at some time.
SpecsAreLater ==
  /\ spec.gen >= 2 /\ spec.rev >= 2
  /\ seen.gen >= 2 => seen.rev >= 2
  /\ minGeneration = 2

\* A status that claims to have seen the restart was written by a controller
\* that had; if it counts no pod of another template, there was none, and there
\* has been none since.
StatusIsLater ==
  /\ status.observed >= 2 => seen.gen >= 2 /\ status.update >= 2
  /\ status.observed >= 2 /\ status.updated = status.total =>
       \A i \in Existing : pod[i].rev >= 2

\* Until something moves, the status is what there is to count.
StatusIsExact ==
  ~ moved =>
    /\ seen = spec
    /\ status.total = Cardinality(Existing)
    /\ status.updated = Cardinality(OfTemplate(spec))
    /\ status.available = Cardinality(PodsIn({"available"}))

DoneStays ==
  result = "done" => seen.gen >= 2 /\ \A i \in Existing : pod[i].rev >= 2

IInv == TypeOK /\ SpecsAreLater /\ StatusIsLater /\ StatusIsExact /\ DoneStays

LEMMA Bounds == /\ MaxReplicas \in Nat /\ MaxPods \in Nat /\ MaxReplicas < MaxPods
                /\ MaxChanges \in Nat /\ MaxCrashes \in Nat
                /\ 1 \in Generations /\ 2 \in Generations /\ Generations \subseteq Nat
BY StatusAssumption DEF Generations

LEMMA SlotSets == /\ IsFiniteSet(Slots) /\ Cardinality(Slots) = MaxPods
<1>1. MaxPods \in Int /\ 1 \in Int /\ ~ 1 > MaxPods
  BY StatusAssumption
<1> QED BY <1>1, FS_Interval DEF Slots

\* Counts of pods are counts of slots.
LEMMA Counts ==
  ASSUME NEW S \in SUBSET Slots
  PROVE  IsFiniteSet(S) /\ Cardinality(S) \in 0 .. MaxPods
<1>1. IsFiniteSet(S) /\ Cardinality(S) <= MaxPods
  BY SlotSets, FS_Subset
<1>2. Cardinality(S) \in Nat
  BY <1>1, FS_CardinalityType
<1> QED BY <1>1, <1>2, Bounds

\* A part that counts as much as the whole is the whole.
LEMMA SameCount ==
  ASSUME NEW T \in SUBSET Slots, NEW S \in SUBSET T, Cardinality(S) = Cardinality(T)
  PROVE  S = T
BY Counts, FS_Subset

LEMMA PodSetsAreSlots ==
  /\ \A phases : PodsIn(phases) \in SUBSET Slots
  /\ Existing \in SUBSET Slots
  /\ \A s : OfTemplate(s) \in SUBSET Existing
  /\ PodsIn({"available"}) \in SUBSET Existing
  /\ PodsIn({"ready", "available"}) \in SUBSET Existing
BY DEF PodsIn, Existing, OfTemplate

LEMMA InitIInv == Init => IInv
<1> SUFFICES ASSUME Init PROVE IInv
  OBVIOUS
<1> USE Bounds
<1>1. spec \in Specs /\ seen \in Specs /\ seen.gen = 1 /\ spec.gen = 2 /\ spec.rev = 2
  BY DEF Init, Specs
<1>2. Wanted(spec) \in 0 .. MaxPods
  BY <1>1 DEF Wanted, Specs, Unset
<1>3. status \in Statuses /\ status.observed = 1
  <2>1. PICK d \in 0 .. MaxPods, ok \in BOOLEAN, late \in BOOLEAN :
          status = [observed |-> 1, update |-> 1, current |-> 1, total |-> d, updated |-> d,
                    ready |-> IF ok THEN d ELSE 0, available |-> IF ok THEN d ELSE 0,
                    deadline |-> late]
    BY <1>2 DEF Init
  <2>2. 0 \in 0 .. MaxPods
    OBVIOUS
  <2>3. (IF ok THEN d ELSE 0) \in 0 .. MaxPods
    BY <2>2
  <2> QED BY <2>1, <2>3 DEF Statuses
<1>4. pod \in [Slots -> [rev : Generations, phase : {"none", "starting", "ready", "available"}]]
  BY DEF Init
<1>5. TypeOK
  BY <1>1, <1>3, <1>4 DEF Init, TypeOK, Restarted
<1>6. SpecsAreLater
  BY <1>1 DEF Init, SpecsAreLater, Restarted
<1> QED BY <1>3, <1>5, <1>6 DEF Init, IInv, StatusIsLater, StatusIsExact, DoneStays

\* A verdict of success: the status was written by a controller that had seen
\* the restart, and counted no pod of another template.
LEMMA PollStep == ASSUME IInv, Poll PROVE IInv'
<1> USE Bounds DEF IInv, Poll, PollGone, PollFailed, PollDone, Polling, clusterVars
<1>1. TypeOK'
  BY DEF TypeOK
<1>2. SpecsAreLater' /\ StatusIsLater' /\ StatusIsExact'
  BY DEF SpecsAreLater, StatusIsLater, StatusIsExact, Existing, OfTemplate, PodsIn
<1>3. DoneStays'
  <2>1. CASE PollDone
    <3>1. status.observed >= 2 /\ status.updated = status.total
      BY <2>1 DEF Complete, Observed, CountsAgree, SpecsAreLater
    <3> QED BY <2>1, <3>1 DEF DoneStays, StatusIsLater, Existing, PodsIn
  <2>2. CASE ~ PollDone
    BY <2>2 DEF DoneStays
  <2> QED BY <2>1, <2>2
<1> QED BY <1>1, <1>2, <1>3

LEMMA ObserveStep == ASSUME IInv, Observe PROVE IInv'
<1> USE Bounds DEF IInv, Observe, ClusterStep
<1>1. TypeOK'
  BY DEF TypeOK
<1>2. SpecsAreLater' /\ StatusIsLater' /\ StatusIsExact' /\ DoneStays'
  BY DEF SpecsAreLater, StatusIsLater, StatusIsExact, DoneStays, Existing, PodsIn
<1> QED BY <1>1, <1>2

LEMMA WriteStatusStep == ASSUME IInv, WriteStatus PROVE IInv'
<1> USE Bounds DEF IInv, WriteStatus, ClusterStep
<1> DEFINE u == Cardinality(OfTemplate(seen))
           t == Cardinality(Existing)
           r == Cardinality(PodsIn({"ready", "available"}))
           a == Cardinality(PodsIn({"available"}))
<1>1. u \in 0 .. MaxPods /\ t \in 0 .. MaxPods /\ r \in 0 .. MaxPods /\ a \in 0 .. MaxPods
  BY PodSetsAreSlots, Counts
<1>2. /\ status'.observed = seen.gen /\ status'.update = seen.rev
      /\ status'.total = t /\ status'.updated = u /\ status'.available = a
      /\ moved' = (seen # spec)
      /\ UNCHANGED <<kind, minGeneration, result, spec, exists, seen, pod, crashes>>
  OBVIOUS
<1>3. seen.gen \in Generations /\ seen.rev \in Generations /\ status.current \in Generations
  BY DEF TypeOK, Specs, Statuses
<1>4. status' \in Statuses
  <2> HIDE DEF u, t, r, a
  <2>1. PICK late \in BOOLEAN, c \in Generations :
          status' = [observed |-> seen.gen, update |-> seen.rev, current |-> c, total |-> t,
                     updated |-> u, ready |-> r, available |-> a, deadline |-> late]
    BY <1>3 DEF u, t, r, a
  <2> QED BY <1>1, <1>3, <2>1 DEF Statuses
<1>5. TypeOK'
  BY <1>2, <1>4 DEF TypeOK
<1>6. SpecsAreLater' /\ DoneStays' /\ StatusIsExact'
  BY <1>2 DEF SpecsAreLater, DoneStays, StatusIsExact, Existing, OfTemplate, PodsIn
<1>7. StatusIsLater'
  <2>1. u = t => OfTemplate(seen) = Existing
    BY PodSetsAreSlots, SameCount
  <2>2. seen.gen >= 2 /\ u = t => \A i \in Existing : pod[i].rev >= 2
    BY <2>1 DEF SpecsAreLater, OfTemplate
  <2> QED BY <1>2, <2>2 DEF StatusIsLater, SpecsAreLater, Existing, PodsIn
<1> QED BY <1>5, <1>6, <1>7

\* A pod that is new, or that was there already, is not of an older template
\* than it was before.
LEMMA PodStep ==
  ASSUME IInv, NEW i \in Slots,
         NEW new \in [rev : Generations, phase : {"none", "starting", "ready", "available"}],
         PodChanges(i, new),
         \/ new.phase = "none"
         \/ new.rev = seen.rev
         \/ i \in Existing /\ new.rev = pod[i].rev,
         crashes' \in 0 .. MaxCrashes
  PROVE  IInv'
<1> USE Bounds DEF IInv, PodChanges, ClusterStep
<1>1. TypeOK'
  BY DEF TypeOK
<1>2. SpecsAreLater' /\ StatusIsExact'
  BY DEF SpecsAreLater, StatusIsExact
<1>3. seen.gen >= 2 /\ (\A j \in Existing : pod[j].rev >= 2) => \A j \in Existing' : pod'[j].rev >= 2
  BY DEF Existing, PodsIn, SpecsAreLater, TypeOK
<1>4. StatusIsLater' /\ DoneStays'
  BY <1>3 DEF StatusIsLater, DoneStays
<1> QED BY <1>1, <1>2, <1>4

LEMMA PodSteps ==
  ASSUME IInv, NEW i \in Slots, Create(i) \/ Remove(i) \/ Starts(i) \/ Crashes(i)
  PROVE  IInv'
<1> DEFINE Pod == [rev : Generations, phase : {"none", "starting", "ready", "available"}]
<1>1. /\ pod[i] \in Pod /\ pod[i].rev \in Generations /\ seen.rev \in Generations
      /\ crashes \in 0 .. MaxCrashes
  BY DEF IInv, TypeOK, Specs
<1>2. i \in Existing <=> pod[i].phase \in {"starting", "ready", "available"}
  BY DEF Existing, PodsIn
<1>3. CASE Create(i)
  <2>1. [rev |-> seen.rev, phase |-> "starting"] \in Pod
    BY <1>1
  <2> QED BY <1>1, <1>3, <2>1, PodStep DEF Create
<1>4. Gone \in Pod /\ Gone.phase = "none"
  BY Bounds DEF Gone
<1>5. CASE Remove(i)
  BY <1>1, <1>4, <1>5, PodStep DEF Remove
<1>6. CASE Starts(i)
  <2>1. \A p \in {"ready", "available"} :
          LET new == [pod[i] EXCEPT !.phase = p] IN new \in Pod /\ new.rev = pod[i].rev
    BY <1>1
  <2>2. PICK p \in {"ready", "available"} : PodChanges(i, [pod[i] EXCEPT !.phase = p])
    BY <1>6 DEF Starts
  <2>3. crashes' \in 0 .. MaxCrashes /\ i \in Existing
    BY <1>1, <1>2, <1>6 DEF Starts
  <2> QED BY <2>1, <2>2, <2>3, PodStep
<1>7. CASE Crashes(i)
  <2>1. LET new == [pod[i] EXCEPT !.phase = "starting"] IN new \in Pod /\ new.rev = pod[i].rev
    BY <1>1
  <2>2. crashes' \in 0 .. MaxCrashes /\ i \in Existing
    BY <1>1, <1>7, Bounds DEF Crashes
  <2> QED BY <1>4, <1>7, <2>1, <2>2, PodStep DEF Crashes
<1> QED BY <1>3, <1>5, <1>6, <1>7

LEMMA OthersChangeStep == ASSUME IInv, OthersChange PROVE IInv'
<1> USE Bounds DEF IInv, OthersChange, ClusterStep
<1>1. spec' \in Specs /\ spec'.gen >= 2 /\ spec'.rev >= 2
  <2>1. /\ spec.gen \in Generations /\ spec.rev \in Generations /\ spec.gen >= 2 /\ spec.rev >= 2
        /\ spec.replicas \in {Unset} \cup 0 .. MaxReplicas
        /\ spec = [gen |-> spec.gen, rev |-> spec.rev, replicas |-> spec.replicas]
    BY DEF TypeOK, SpecsAreLater, Specs
  <2>2. spec.gen + 1 \in Generations /\ spec.gen + 1 >= 2
    <3>1. spec.gen \in Nat /\ spec.gen >= 2 /\ spec.gen < 2 + MaxChanges
      BY <2>1
    <3> HIDE DEF IInv, OthersChange
    <3> QED BY <3>1 DEF Generations
  <2>3. CASE \E n \in 0 .. MaxReplicas : spec' = [spec EXCEPT !.gen = @ + 1, !.replicas = n]
    <3>1. PICK n \in 0 .. MaxReplicas : spec' = [gen |-> spec.gen + 1, rev |-> spec.rev, replicas |-> n]
      BY <2>1, <2>3
    <3> QED BY <2>1, <2>2, <3>1 DEF Specs
  <2>4. CASE spec' = [spec EXCEPT !.gen = @ + 1, !.rev = spec.gen + 1]
    <3>1. spec' = [gen |-> spec.gen + 1, rev |-> spec.gen + 1, replicas |-> spec.replicas]
      BY <2>1, <2>4
    <3> QED BY <2>1, <2>2, <3>1 DEF Specs
  <2> QED BY <2>3, <2>4
<1>2. TypeOK'
  BY <1>1 DEF TypeOK
<1>3. SpecsAreLater' /\ StatusIsLater' /\ StatusIsExact' /\ DoneStays'
  BY <1>1 DEF SpecsAreLater, StatusIsLater, StatusIsExact, DoneStays, Existing, PodsIn
<1> QED BY <1>2, <1>3

LEMMA QuietStep == ASSUME IInv, Deleted \/ UNCHANGED vars PROVE IInv'
BY DEF Deleted, ClusterStep, vars, clusterVars, IInv, TypeOK, SpecsAreLater, StatusIsLater,
   StatusIsExact, DoneStays, Existing, OfTemplate, PodsIn

LEMMA NextStep == ASSUME IInv, [Next]_vars PROVE IInv'
<1>1. CASE Poll
  BY <1>1, PollStep
<1>2. CASE Observe \/ WriteStatus \/ OthersChange
  BY <1>2, ObserveStep, WriteStatusStep, OthersChangeStep
<1>3. ASSUME NEW i \in Slots, Create(i) \/ Remove(i) \/ Starts(i) \/ Crashes(i) PROVE IInv'
  BY <1>3, PodSteps
<1>4. CASE Deleted \/ UNCHANGED vars
  BY <1>4, QuietStep
<1> QED BY <1>1, <1>2, <1>3, <1>4 DEF Next, Others

\* The inductive invariant of a wait for a rollout.
THEOREM StatusIInv == Spec => []IInv
<1>1. Init => IInv
  BY InitIInv
<1>2. IInv /\ [Next]_vars => IInv'
  BY NextStep
<1> QED BY <1>1, <1>2, PTL DEF Spec

\* Every variable of the rollout keeps its type.
THEOREM StatusTypeOK == Spec => []TypeOK
<1>1. IInv => TypeOK
  BY DEF IInv
<1> QED BY <1>1, StatusIInv, PTL

\* After a success every pod that is left is of the restarted template or a
\* later one.
THEOREM StatusDoneMeansReplaced == Spec => []DoneMeansReplaced
<1>1. IInv => DoneMeansReplaced
  BY DEF IInv, DoneStays, SpecsAreLater, DoneMeansReplaced
<1> QED BY <1>1, StatusIInv, PTL

\* A success about a cluster at rest finds exactly the desired pods, all of the
\* wanted template and available.
THEOREM StatusDoneMeansServing == Spec => DoneMeansServing
<1> DEFINE Serving == result = "waiting" /\ result' = "done" /\ ~ moved =>
             /\ Existing = OfTemplate(spec)
             /\ Existing = PodsIn({"available"})
             /\ Cardinality(Existing) = Wanted(spec)
<1>1. ASSUME IInv, [Next]_vars PROVE [Serving]_vars
  <2> SUFFICES ASSUME result = "waiting", result' = "done", ~ moved PROVE Serving
    OBVIOUS
  <2>1. PollDone
    BY <1>1 DEF Next, vars, Others, Poll, PollGone, PollFailed, Observe, WriteStatus, OthersChange, Deleted,
       Create, Remove, Starts, Crashes, PodChanges, ClusterStep
  <2>2. /\ status.total = Wanted(spec) /\ status.updated = Wanted(spec)
        /\ status.available = Wanted(spec)
    BY <2>1 DEF PollDone, Complete, CountsAgree, Desired, Wanted
  <2>3. /\ Cardinality(Existing) = Wanted(spec)
        /\ Cardinality(OfTemplate(spec)) = Cardinality(Existing)
        /\ Cardinality(PodsIn({"available"})) = Cardinality(Existing)
    BY <1>1, <2>2 DEF IInv, StatusIsExact
  <2> QED BY <2>3, PodSetsAreSlots, SameCount
<1> QED BY <1>1, StatusIInv, PTL DEF Spec, DoneMeansServing

\* A failure is reported only for a deadline that passed after the restart.
THEOREM StatusFailureIsOurs == Spec => FailureIsOurs
<1> DEFINE Ours == result = "waiting" /\ result' = "failed" /\ exists =>
             status.deadline /\ status.update >= minGeneration
<1>1. ASSUME IInv, [Next]_vars PROVE [Ours]_vars
  <2> SUFFICES ASSUME result = "waiting", result' = "failed", exists PROVE Ours
    OBVIOUS
  <2>1. PollFailed
    BY <1>1 DEF Next, vars, Others, Poll, PollGone, PollDone, Observe, WriteStatus, OthersChange, Deleted,
       Create, Remove, Starts, Crashes, PodChanges, ClusterStep
  <2> QED BY <1>1, <2>1 DEF PollFailed, Failed, Observed, DeadlineExceeded, IInv, SpecsAreLater, StatusIsLater
<1> QED BY <1>1, StatusIInv, PTL DEF Spec, FailureIsOurs
==============================================================================
