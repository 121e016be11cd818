---------------------------- MODULE PlanningProofs ----------------------------
(***************************************************************************)
(* A plan is sound and leaves nothing out in silence, for any number of    *)
(* namespaces, objects, filters and changes by others, and any --parallel. *)
(***************************************************************************)
EXTENDS Planning, WellFoundedInduction, TLAPS

\* What was looked at was so when it was looked at.
Sound ==
  kind \in Workloads =>
    /\ TraitsNow \subseteq was
    /\ \A i \in Indexes : \A c \in cand[i] \cup picked[i] : <<c, "eligible">> \in was
    /\ \A i \in Indexes : \A rs \in rsSeen[i] : <<rs[1], "matched">> \in was
    /\ active # {} => \A i \in Indexes : \A c \in picked[i] : <<c, "matched">> \in was

\* An undisturbed primary keeps its canary's target out of every step.
LeftToPrimary(o) == /\ PrimaryOf[o] \in Objects \ disturbed
                    /\ object[PrimaryOf[o]].managed
                    /\ ~ isFlaggerPrimary(o)

Canaries ==
  kind = "Deployment" /\ ~ noFlagger =>
    \A i \in Indexes : \A c \in cand[i] \cup picked[i] : ~ LeftToPrimary(c[1])

\* What nobody disturbed is as it was, with its ReplicaSet.
Undisturbed ==
  \A o \in Objects \ disturbed :
    /\ object[o].exists
    /\ kind \in Workloads => <<Instance(o), pod[o].revision>> \in sets

\* What is to be planned goes from step to step of its namespace.
Followed(i, o) ==
  /\ at[i] = "pods" => Instance(o) \in cand[i]
  /\ at[i] = "replicaSets" => Instance(o) \in cand[i] /\ <<Instance(o), pod[o].revision>> \in rsSeen[i]
  /\ at[i] = "done" /\ i \notin errs => Instance(o) \in picked[i]

Kept ==
  \A i \in Indexes : \A o \in Objects \ disturbed :
    NamespaceOf[o] = Namespaces[i] /\ Wanted(o) => Followed(i, o)

\* Every namespace is visited, unless the API is missing, or unknown.
Visits ==
  /\ loop = "before" => next = 1
  /\ \A i \in Indexes : at[i] = "idle" <=> i >= next
  /\ \A i \in Indexes : at[i] = "pods" => kind \in Workloads /\ active # {}
  /\ \A i \in Indexes : at[i] = "replicaSets" => kind = "Deployment" /\ active # {}
  /\ \A i \in Indexes : at[i] = "idle" => picked[i] = {}
  /\ loop = "wait" => next = Len(Namespaces) + 1
  /\ loop = "joined" => Busy = {}
  /\ loop = "joined" => (\A i \in Indexes : at[i] = "done") \/ planErr \/ ~ Installed

\* The APIs of a custom resource.
Discovered ==
  /\ \A g \in GroupsOf(kind) : served[g] \subseteq servedOnce[g] /\ (served[g] = {} => g \in absentOnce)
  /\ discovering # "none" => loop = "before"
  /\ discovering = "kafka" => kind = "Kafka"
  /\ discovering = "podSet" => kind = "Kafka" /\ path["kafka"] # "none"
  /\ discovering = "postgresql" => kind = "PostgreSQL"
  /\ kind = "Kafka" =>
       /\ \A g \in {"kafka", "podSet"} : path[g] # "none" =>
            /\ path[g] \in servedOnce[g]
            /\ path[g] = asked[g] \/ (asked[g] = "auto" /\ \E i \in DOMAIN Preferred : path[g] = Preferred[i])
       /\ loop \in {"loop", "wait"} \/ (loop = "joined" /\ Plan # {}) =>
            /\ path["kafka"] # "none"
            /\ podSetErr = "nil" => path["podSet"] # "none"
       /\ loop = "joined" /\ Plan # {} /\ ~ planErr => podSetErr = "nil"

IInv == TypeOK /\ Sound /\ Canaries /\ Undisturbed /\ Kept /\ Visits /\ Discovered

LEMMA IndexFacts ==
  /\ Len(Namespaces) \in Nat
  /\ Indexes = 1 .. Len(Namespaces)
  /\ \A i \in Indexes : i \in Nat /\ i >= 1
BY PlanPoolAssumption DEF Indexes

LEMMA InstanceFacts ==
  ASSUME TypeOK
  PROVE  /\ \A o \in Objects : Instance(o) \in Instances
         /\ \A i : Here(i) \subseteq Objects
         /\ \A o \in Objects : Instance(o)[1] = o
BY DEF TypeOK, PoolTypeOK, Instance, Instances, Here

\* What the objects show does not depend on where the planning is.
LEMMA Frame ==
  ASSUME Unmoved
  PROVE  /\ TraitsNow' = TraitsNow
         /\ \A o : /\ Instance(o)' = Instance(o)
                   /\ OldEnough(o)' = OldEnough(o)
                   /\ isFlaggerPrimary(o)' = isFlaggerPrimary(o)
                   /\ Wanted(o)' = Wanted(o)
                   /\ LeftToPrimary(o)' = LeftToPrimary(o)
         /\ \A p : Satisfies(p)' = Satisfies(p)
         /\ Undisturbed' = Undisturbed
BY DEF Unmoved, worldVars, objectVars, workloadVars, apiVars, settings, TraitsNow, Instance, OldEnough,
   isFlaggerPrimary, Wanted, LeftToPrimary, Satisfies, Undisturbed

LEMMA InitIInv == Init => IInv
<1> SUFFICES ASSUME Init PROVE IInv
  OBVIOUS
<1> USE IndexFacts DEF Init
<1>1. PoolTypeOK
  <2>1. object \in [Objects -> [exists : BOOLEAN, uid : Uids, old : BOOLEAN, blocked : BOOLEAN, managed : BOOLEAN]]
    <3>1. 1 \in Uids
      BY PlanPoolAssumption DEF Uids
    <3>2. object \in [Objects -> [exists : {TRUE}, uid : {1}, blocked : {FALSE},
                                  old : IF byAge THEN BOOLEAN ELSE {TRUE},
                                  managed : IF kind \in Workloads THEN BOOLEAN ELSE {FALSE}]]
      BY DEF PoolInit
    <3>3. \A o \in Objects : object[o] \in [exists : BOOLEAN, uid : Uids, old : BOOLEAN,
                                            blocked : BOOLEAN, managed : BOOLEAN]
      BY <3>1, <3>2
    <3> QED BY <3>2, <3>3
  <2>2. changes \in 0 .. MaxChanges /\ next \in 1 .. (Len(Namespaces) + 1)
    BY PlanPoolAssumption DEF PoolInit
  <2>3. /\ kind \in Kinds /\ byAge \in BOOLEAN /\ cancelled \in BOOLEAN
        /\ loop \in {"before", "loop", "wait", "joined"}
        /\ disturbed \subseteq Objects /\ errs \subseteq Indexes
    BY DEF PoolInit
  <2>4. /\ at \in [Indexes -> {"idle", "context", "list", "pods", "replicaSets", "done"}]
        /\ cand \in [Indexes -> SUBSET Instances]
        /\ picked \in [Indexes -> SUBSET Instances]
    BY DEF PoolInit
  <2> QED BY <2>1, <2>2, <2>3, <2>4 DEF PoolTypeOK
<1>2. WorkloadTypeOK
  <2>1. /\ active \subseteq Filters /\ noFlagger \in BOOLEAN
        /\ pod \in [Objects -> [exists : BOOLEAN, revision : Revisions, satisfies : SUBSET Filters]]
    BY DEF WorkloadInit, Revisions
  <2>2. sets \subseteq ReplicaSets
    BY PlanPoolAssumption DEF WorkloadInit, ReplicaSets, Instances, Revisions, Uids
  <2>3. \A o \in Objects : Instance(o) \in Instances
    BY <1>1 DEF PoolTypeOK, Instance, Instances
  <2>4. was \subseteq Instances \X Traits
    BY <2>3 DEF WorkloadInit, TraitsNow, Traits
  <2> QED BY <2>1, <2>2, <2>4 DEF WorkloadTypeOK, WorkloadInit
<1>3. CRTypeOK
  BY DEF CRInit, CRTypeOK, Groups, GroupsOf, Automatic
<1>4. Sound /\ Canaries
  BY DEF Sound, Canaries, WorkloadInit, PoolInit
<1>5. Undisturbed
  BY DEF Undisturbed, PoolInit, WorkloadInit, Instance
<1>6. Kept /\ Visits
  BY DEF Kept, Followed, Visits, PoolInit, Workloads
<1>7. Discovered
  <2>1. \A g \in GroupsOf(kind) : served[g] \subseteq servedOnce[g] /\ (served[g] = {} => g \in absentOnce)
    BY DEF CRInit
  <2>2. kind = "Kafka" => loop = "before" /\ discovering = "kafka"
    BY DEF CRInit, PoolInit, Workloads
  <2>3. kind = "PostgreSQL" => loop = "before" /\ discovering = "postgresql"
    BY DEF CRInit, PoolInit, Workloads
  <2>4. kind \in Workloads => discovering = "none"
    BY DEF CRInit, Workloads
  <2>5. kind \in Workloads \cup {"Kafka", "PostgreSQL"}
    BY DEF PoolInit, Kinds, Workloads
  <2>6. path["kafka"] = "none" /\ path["podSet"] = "none"
    BY DEF CRInit, Groups
  <2> QED BY <2>1, <2>2, <2>3, <2>4, <2>5, <2>6 DEF Discovered, Workloads
<1> QED BY <1>1, <1>2, <1>3, <1>4, <1>5, <1>6, <1>7 DEF IInv, TypeOK


\* What a step of the goroutine of namespace i has to see to.
Outcome(i, s, C, P, R, E) ==
  /\ kind \in Workloads =>
       /\ \A c \in C \cup P : <<c, "eligible">> \in was
       /\ \A rs \in R : <<rs[1], "matched">> \in was
       /\ active # {} => \A c \in P : <<c, "matched">> \in was
  /\ kind = "Deployment" /\ ~ noFlagger => \A c \in C \cup P : ~ LeftToPrimary(c[1])
  /\ s = "pods" => kind \in Workloads /\ active # {}
  /\ s = "replicaSets" => kind = "Deployment" /\ active # {}
  /\ \A o \in Objects \ disturbed : NamespaceOf[o] = Namespaces[i] /\ Wanted(o) =>
       /\ s = "pods" => Instance(o) \in C
       /\ s = "replicaSets" => Instance(o) \in C /\ <<Instance(o), pod[o].revision>> \in R
       /\ s = "done" /\ i \notin E => Instance(o) \in P

\* Such a step preserves the invariant.
LEMMA GoroutineStep ==
  ASSUME IInv, Unmoved, NoDiscovery,
         NEW i \in Indexes, at[i] \notin {"idle", "done"},
         NEW s \in {"list", "pods", "replicaSets", "done"},
         NEW C \in SUBSET Instances, NEW P \in SUBSET Instances,
         NEW R \in SUBSET ReplicaSets, NEW E \in SUBSET Indexes,
         at' = [at EXCEPT ![i] = s], cand' = [cand EXCEPT ![i] = C],
         picked' = [picked EXCEPT ![i] = P], rsSeen' = [rsSeen EXCEPT ![i] = R],
         errs \subseteq E, E \subseteq errs \cup {i}, errs' = E,
         UNCHANGED <<loop, next>>,
         Outcome(i, s, C, P, R, E)
  PROVE  IInv'
<1> USE IndexFacts DEF IInv
<1>u. /\ UNCHANGED <<object, changes, disturbed, pod, sets, was, served, servedOnce, absentOnce>>
      /\ UNCHANGED <<byAge, active, noFlagger, asked, kind, cancelled>>
      /\ UNCHANGED <<unanswered, discovering, path, podSetErr, planErr>>
  BY DEF Unmoved, NoDiscovery, worldVars, objectVars, workloadVars, apiVars, settings
<1>v. /\ at' \in [Indexes -> {"idle", "context", "list", "pods", "replicaSets", "done"}]
      /\ cand' \in [Indexes -> SUBSET Instances]
      /\ picked' \in [Indexes -> SUBSET Instances]
      /\ rsSeen' \in [Indexes -> SUBSET ReplicaSets]
      /\ at'[i] = s /\ cand'[i] = C /\ picked'[i] = P /\ rsSeen'[i] = R
      /\ \A j \in Indexes : j # i =>
           at'[j] = at[j] /\ cand'[j] = cand[j] /\ picked'[j] = picked[j] /\ rsSeen'[j] = rsSeen[j]
  BY DEF TypeOK, PoolTypeOK, WorkloadTypeOK
<1>1. TypeOK'
  <2>1. PoolTypeOK'
    BY <1>u, <1>v DEF TypeOK, PoolTypeOK
  <2>2. WorkloadTypeOK'
    BY <1>u, <1>v DEF TypeOK, WorkloadTypeOK
  <2>3. CRTypeOK'
    BY <1>u DEF TypeOK, CRTypeOK
  <2> QED BY <2>1, <2>2, <2>3 DEF TypeOK
<1>2. Sound'
  <2> SUFFICES ASSUME kind \in Workloads PROVE Sound'
    BY <1>u DEF Sound
  <2>1. (TraitsNow \subseteq was)'
    BY <1>u, Frame DEF Sound
  <2>2. \A j \in Indexes : \A c \in cand'[j] \cup picked'[j] : <<c, "eligible">> \in was
    BY <1>v DEF Sound, Outcome
  <2>3. \A j \in Indexes : \A rs \in rsSeen'[j] : <<rs[1], "matched">> \in was
    BY <1>v DEF Sound, Outcome
  <2>4. active # {} => \A j \in Indexes : \A c \in picked'[j] : <<c, "matched">> \in was
    BY <1>v DEF Sound, Outcome
  <2> QED BY <1>u, <2>1, <2>2, <2>3, <2>4 DEF Sound
<1>3. Canaries'
  <2> SUFFICES ASSUME kind = "Deployment", ~ noFlagger, NEW j \in Indexes, NEW c \in cand'[j] \cup picked'[j]
               PROVE  ~ LeftToPrimary(c[1])
    BY <1>u, Frame DEF Canaries
  <2> QED BY <1>v DEF Canaries, Outcome
<1>4. Undisturbed'
  BY Frame
<1>5. Kept'
  <2> SUFFICES ASSUME NEW j \in Indexes, NEW o \in Objects \ disturbed,
                      NamespaceOf[o] = Namespaces[j], Wanted(o)
               PROVE  Followed(j, o)'
    BY <1>u, Frame DEF Kept
  <2>0. Instance(o)' = Instance(o)
    BY Frame
  <2>1. CASE j = i
    BY <2>0, <2>1, <1>u, <1>v DEF Followed, Outcome
  <2>2. CASE j # i
    <3>1. Followed(j, o)
      BY DEF Kept
    <3> QED BY <3>1, <2>0, <2>2, <1>u, <1>v DEF Followed
  <2> QED BY <2>1, <2>2
<1>l. loop \notin {"before", "joined"}
  <2>1. i \in Nat /\ i >= 1 /\ i < next
    BY DEF Visits, TypeOK, PoolTypeOK
  <2>2. loop # "before"
    BY <2>1 DEF Visits
  <2>3. loop # "joined"
    BY DEF Visits, Busy
  <2> QED BY <2>2, <2>3
<1>6. Visits'
  <2>1. \A j \in Indexes : at'[j] = "idle" <=> j >= next
    BY <1>v DEF Visits
  <2>2. \A j \in Indexes : at'[j] = "pods" => kind \in Workloads /\ active # {}
    BY <1>v DEF Visits, Outcome
  <2>3. \A j \in Indexes : at'[j] = "replicaSets" => kind = "Deployment" /\ active # {}
    BY <1>v DEF Visits, Outcome
  <2>4. \A j \in Indexes : at'[j] = "idle" => picked'[j] = {}
    BY <1>v DEF Visits
  <2> QED BY <2>1, <2>2, <2>3, <2>4, <1>u, <1>l DEF Visits
<1>7. Discovered'
  BY <1>u, <1>l DEF Discovered
<1> QED BY <1>1, <1>2, <1>3, <1>4, <1>5, <1>6, <1>7

------------------------------------------------------------------------------
(* The pool.                                                               *)

LEMMA PoolFrame ==
  ASSUME Pool
  PROVE  /\ Unmoved /\ NoDiscovery
         /\ UNCHANGED <<object, changes, disturbed, pod, sets, was, served, servedOnce, absentOnce>>
         /\ UNCHANGED <<byAge, active, noFlagger, asked, kind, cancelled>>
         /\ UNCHANGED <<unanswered, discovering, path, podSetErr, planErr, rsSeen, cand, picked, errs>>
BY DEF Pool, LaunchNamespace, LoopEnds, CheckContext, Unmoved, NoDiscovery, worldVars, objectVars, workloadVars,
   apiVars, settings

\* The loop launches a goroutine or ends.
LEMMA LoopStep == ASSUME IInv, Pool, LaunchNamespace \/ LoopEnds PROVE IInv'
<1> USE IndexFacts, PoolFrame DEF IInv
<1>0. loop = "loop" /\ next \in Nat /\ next <= Len(Namespaces) + 1 /\ next >= 1
  BY DEF LaunchNamespace, LoopEnds, TypeOK, PoolTypeOK
<1>1. /\ at' \in [Indexes -> {"idle", "context", "list", "pods", "replicaSets", "done"}]
      /\ \A i \in Indexes : at'[i] = at[i] \/ at'[i] = "context"
      /\ \A i \in Indexes : at'[i] = "idle" <=> i >= next'
      /\ next' \in 1 .. (Len(Namespaces) + 1)
      /\ loop' \in {"loop", "wait"}
      /\ loop' = "wait" => next' = Len(Namespaces) + 1
  <2>1. CASE LaunchNamespace
    <3>1. next \in Indexes
      BY <1>0, <2>1 DEF LaunchNamespace
    <3>2. /\ at' = [at EXCEPT ![next] = "context"] /\ next' = next + 1 /\ loop' = "loop"
          /\ at \in [Indexes -> {"idle", "context", "list", "pods", "replicaSets", "done"}]
          /\ \A i \in Indexes : at[i] = "idle" <=> i >= next
      BY <1>0, <2>1 DEF LaunchNamespace, TypeOK, PoolTypeOK, Visits
    <3> QED BY <1>0, <3>1, <3>2
  <2>2. CASE LoopEnds
    <3>1. next = Len(Namespaces) + 1 /\ next' = next /\ at' = at /\ loop' = "wait"
      BY <1>0, <2>2 DEF LoopEnds
    <3> QED BY <1>0, <3>1 DEF TypeOK, PoolTypeOK, Visits
  <2> QED BY <2>1, <2>2
<1>2. TypeOK'
  <2>1. PoolTypeOK'
    BY <1>1 DEF TypeOK, PoolTypeOK
  <2>2. WorkloadTypeOK'
    BY DEF TypeOK, WorkloadTypeOK
  <2>3. CRTypeOK'
    BY DEF TypeOK, CRTypeOK
  <2> QED BY <2>1, <2>2, <2>3 DEF TypeOK
<1>3. Sound'
  BY Frame DEF Sound
<1>4. Canaries'
  BY Frame DEF Canaries
<1>5. Undisturbed'
  BY Frame
<1>6. Kept'
  <2> SUFFICES ASSUME NEW j \in Indexes, NEW o \in Objects \ disturbed,
                      NamespaceOf[o] = Namespaces[j], Wanted(o)
               PROVE  Followed(j, o)'
    BY Frame DEF Kept
  <2>1. Followed(j, o) /\ Instance(o)' = Instance(o)
    BY Frame DEF Kept
  <2> QED BY <1>1, <2>1 DEF Followed
<1>7. Visits'
  BY <1>1 DEF Visits
<1>8. Discovered'
  BY <1>0, <1>1 DEF Discovered
<1> QED BY <1>2, <1>3, <1>4, <1>5, <1>6, <1>7, <1>8

\* A step that keeps what its namespace has, or gives it up.
LEMMA SameOutcome ==
  ASSUME IInv, NEW i \in Indexes, NEW s \in {"list", "done"}, NEW C \in SUBSET cand[i],
         NEW R \in SUBSET rsSeen[i], NEW E \in SUBSET Indexes, s = "done" => i \in E
  PROVE  Outcome(i, s, C, picked[i], R, E)
BY DEF IInv, Outcome, Sound, Canaries

LEMMA PoolStep == ASSUME IInv, Pool PROVE IInv'
<1>1. CASE LaunchNamespace \/ LoopEnds
  BY <1>1, LoopStep
<1>2. ASSUME NEW i \in Indexes, CheckContext(i) PROVE IInv'
  <2>1. /\ at[i] = "context" /\ at' = [at EXCEPT ![i] = "list"]
        /\ cand' = [cand EXCEPT ![i] = cand[i]] /\ picked' = [picked EXCEPT ![i] = picked[i]]
        /\ rsSeen' = [rsSeen EXCEPT ![i] = rsSeen[i]]
        /\ errs' = errs /\ errs \in SUBSET Indexes /\ UNCHANGED <<loop, next>>
        /\ cand[i] \in SUBSET Instances /\ picked[i] \in SUBSET Instances /\ rsSeen[i] \in SUBSET ReplicaSets
    BY <1>2, PoolFrame DEF CheckContext, Goes, IInv, TypeOK, PoolTypeOK, WorkloadTypeOK
  <2>2. Outcome(i, "list", cand[i], picked[i], rsSeen[i], errs)
    BY <2>1, SameOutcome
  <2> QED BY <2>1, <2>2, PoolFrame, GoroutineStep
<1> QED BY <1>1, <1>2 DEF Pool

LEMMA FailsStep == ASSUME IInv, Fails PROVE IInv'
<1>0. Unmoved /\ NoDiscovery
  BY DEF Fails
<1>1. PICK i \in Indexes : SelectionFails(i) /\ rsSeen' = [rsSeen EXCEPT ![i] = {}]
  BY DEF Fails
<1>2. /\ at[i] \notin {"idle", "done"} /\ at' = [at EXCEPT ![i] = "done"]
      /\ cand' = [cand EXCEPT ![i] = {}] /\ picked' = [picked EXCEPT ![i] = picked[i]]
      /\ errs' = errs \cup {i} /\ errs \cup {i} \in SUBSET Indexes /\ UNCHANGED <<loop, next>>
      /\ picked[i] \in SUBSET Instances
  BY <1>1 DEF SelectionFails, Goes, IInv, TypeOK, PoolTypeOK
<1>3. Outcome(i, "done", {}, picked[i], {}, errs \cup {i})
  BY <1>2, SameOutcome
<1> QED BY <1>0, <1>1, <1>2, <1>3, GoroutineStep

------------------------------------------------------------------------------
(* Selection.                                                              *)

\* What is true of an object of namespace i as it is looked at.
LEMMA LookedAt ==
  ASSUME IInv, kind \in Workloads, NEW o \in Objects, object[o].exists
  PROVE  /\ OldEnough(o) /\ ~ object[o].blocked => <<Instance(o), "eligible">> \in was
         /\ Satisfies(pod[o]) => <<Instance(o), "matched">> \in was
BY DEF IInv, Sound, TraitsNow

\* A wanted object that nobody disturbed is among the candidates of its list.
LEMMA Candidate ==
  ASSUME IInv, NEW i \in Indexes, NEW o \in Objects \ disturbed,
         NamespaceOf[o] = Namespaces[i], Wanted(o)
  PROVE  /\ o \in Here(i)
         /\ kind = "Deployment" => o \in DeploymentCandidates(Here(i)) /\ ~ object[o].blocked
         /\ kind = "StatefulSet" => o \in StatefulSetCandidates(Here(i)) /\ ~ object[o].blocked
<1>1. o \in Here(i)
  BY DEF Wanted, Here
<1>2. ASSUME kind = "Deployment" PROVE o \in DeploymentCandidates(Here(i)) /\ ~ object[o].blocked
  <2>1. noFlagger \/ o \in primaries(Here(i)) \/ PrimaryOf[o] \notin primaries(Here(i))
    <3>1. CASE PrimaryOf[o] = "none"
      BY <3>1, WorkloadAssumption DEF primaries, Here
    <3>2. CASE ~ isFlaggerPrimary(PrimaryOf[o])
      BY <3>2 DEF primaries
    <3> QED BY <1>1, <1>2, <3>1, <3>2 DEF Wanted, primaries
  <2> QED BY <1>1, <1>2, <2>1 DEF Wanted, DeploymentCandidates, Workloads
<1>3. kind = "StatefulSet" => o \in StatefulSetCandidates(Here(i)) /\ ~ object[o].blocked
  BY <1>1 DEF Wanted, StatefulSetCandidates, Workloads
<1> QED BY <1>1, <1>2, <1>3

\* The target of a canary is no candidate as long as its primary is there.
LEMMA NoCandidate ==
  ASSUME IInv, kind = "Deployment", ~ noFlagger, NEW i \in Indexes, NEW o \in DeploymentCandidates(Here(i))
  PROVE  ~ LeftToPrimary(o)
<1> SUFFICES ASSUME LeftToPrimary(o) PROVE FALSE
  OBVIOUS
<1> DEFINE p == PrimaryOf[o]
<1>1. o \in Objects /\ p \in Objects \ disturbed /\ object[p].managed
  BY DEF LeftToPrimary, DeploymentCandidates, Here
<1>2. object[p].exists
  BY <1>1 DEF IInv, Undisturbed
<1>3. NamespaceOf[p] = Namespaces[i]
  BY <1>1, WorkloadAssumption DEF DeploymentCandidates, Here
<1>4. p \in primaries(Here(i))
  BY <1>1, <1>2, <1>3 DEF primaries, Here, isFlaggerPrimary
<1> QED BY <1>4 DEF LeftToPrimary, DeploymentCandidates, primaries

\* What a step of a selection leaves alone.
LEMMA SelectFrame == ASSUME Select PROVE Unmoved /\ NoDiscovery
BY DEF Select

LEMMA ListDeploymentsStep ==
  ASSUME IInv, Select, kind = "Deployment", NEW i \in Indexes, ListDeployments(i)
  PROVE  IInv'
<1> DEFINE C == {Instance(o) : o \in DeploymentCandidates(Here(i))}
<1> DEFINE S == Unblocked(C)
<1>0. /\ at[i] = "list" /\ UNCHANGED <<loop, next>>
      /\ S \in SUBSET Instances
      /\ cand[i] \in SUBSET Instances /\ picked[i] \in SUBSET Instances /\ rsSeen[i] \in SUBSET ReplicaSets
      /\ errs \in SUBSET Indexes
  <2>1. C \subseteq Instances
    BY InstanceFacts DEF IInv, DeploymentCandidates, Here
  <2> QED BY <2>1 DEF ListDeployments, Goes, Unblocked, IInv, TypeOK, PoolTypeOK, WorkloadTypeOK
<1>1. \A c \in S : /\ <<c, "eligible">> \in was
                   /\ ~ noFlagger => ~ LeftToPrimary(c[1])
  <2> TAKE c \in S
  <2>1. PICK o \in DeploymentCandidates(Here(i)) : c = Instance(o)
    BY DEF Unblocked
  <2>2. o \in Objects /\ object[o].exists /\ OldEnough(o) /\ ~ object[o].blocked /\ c[1] = o
    BY <2>1 DEF Unblocked, DeploymentCandidates, Here, Instance
  <2> QED BY <2>1, <2>2, LookedAt, NoCandidate DEF Workloads
<1>2. \A o \in Objects \ disturbed : NamespaceOf[o] = Namespaces[i] /\ Wanted(o) => Instance(o) \in S
  <2> SUFFICES ASSUME NEW o \in Objects \ disturbed, NamespaceOf[o] = Namespaces[i], Wanted(o)
               PROVE  Instance(o) \in S
    OBVIOUS
  <2>1. o \in DeploymentCandidates(Here(i)) /\ ~ object[o].blocked
    BY Candidate
  <2> QED BY <2>1 DEF Unblocked, Instance
<1>3. \A c \in picked[i] : /\ <<c, "eligible">> \in was
                           /\ ~ noFlagger => ~ LeftToPrimary(c[1])
  BY DEF IInv, Sound, Canaries, Workloads
<1>4. CASE active # {} /\ C # {}
  <2>1. /\ at' = [at EXCEPT ![i] = "pods"] /\ cand' = [cand EXCEPT ![i] = S]
        /\ picked' = [picked EXCEPT ![i] = picked[i]] /\ errs' = errs
        /\ rsSeen' = [rsSeen EXCEPT ![i] = rsSeen[i]]
    BY <1>4 DEF ListDeployments, Goes, IInv, TypeOK, PoolTypeOK, WorkloadTypeOK
  <2>2. Outcome(i, "pods", S, picked[i], rsSeen[i], errs)
    <3>1. /\ \A rs \in rsSeen[i] : <<rs[1], "matched">> \in was
          /\ \A c \in picked[i] : <<c, "matched">> \in was
      BY <1>4 DEF IInv, Sound, Workloads
    <3>2. active # {}
      BY <1>4
    <3> HIDE DEF S, C
    <3>3. \A c \in S \cup picked[i] : <<c, "eligible">> \in was
      BY <1>1, <1>3
    <3>4. ASSUME ~ noFlagger PROVE \A c \in S \cup picked[i] : ~ LeftToPrimary(c[1])
      BY <1>1, <1>3, <3>4
    <3> QED BY <1>2, <3>1, <3>2, <3>3, <3>4 DEF Outcome, Workloads
  <2> HIDE DEF S, C
  <2> QED BY <1>0, <2>1, <2>2, SelectFrame, GoroutineStep
<1>5. CASE ~ (active # {} /\ C # {})
  <2>1. /\ at' = [at EXCEPT ![i] = "done"] /\ cand' = [cand EXCEPT ![i] = {}]
        /\ picked' = [picked EXCEPT ![i] = S] /\ errs' = errs
        /\ rsSeen' = [rsSeen EXCEPT ![i] = rsSeen[i]]
    BY <1>5 DEF ListDeployments, Goes, Selected, IInv, TypeOK, WorkloadTypeOK
  <2>2. active # {} => S = {}
    BY <1>5 DEF Unblocked
  <2>3. Outcome(i, "done", {}, S, rsSeen[i], errs)
    <3>1. \A rs \in rsSeen[i] : <<rs[1], "matched">> \in was
      BY DEF IInv, Sound, Workloads
    <3> QED BY <1>1, <1>2, <2>2, <3>1 DEF Outcome, Workloads
  <2> HIDE DEF S, C
  <2> QED BY <1>0, <2>1, <2>3, SelectFrame, GoroutineStep
<1> QED BY <1>4, <1>5

LEMMA ListDeploymentPodsStep ==
  ASSUME IInv, Select, kind = "Deployment", NEW i \in Indexes, ListDeploymentPods(i)
  PROVE  IInv'
<1> DEFINE R == RsOfMatchingPods(i)
<1>0. /\ at[i] = "pods" /\ UNCHANGED <<loop, next>> /\ active # {}
      /\ cand[i] \in SUBSET Instances /\ picked[i] \in SUBSET Instances /\ rsSeen[i] \in SUBSET ReplicaSets
      /\ errs \in SUBSET Indexes
  BY DEF ListDeploymentPods, Goes, IInv, Visits, TypeOK, PoolTypeOK, WorkloadTypeOK
<1>1. R \in SUBSET ReplicaSets
  <2>1. \A o \in Here(i) : o \in Objects /\ Instance(o) \in Instances /\ pod[o].revision \in Revisions
    BY InstanceFacts DEF IInv, TypeOK, WorkloadTypeOK, Here
  <2> QED BY <2>1 DEF RsOfMatchingPods, ReplicaSets
<1>2. \A rs \in R : <<rs[1], "matched">> \in was
  <2> TAKE rs \in R
  <2>1. PICK o \in Here(i) : Satisfies(pod[o]) /\ rs = <<Instance(o), pod[o].revision>>
    BY DEF RsOfMatchingPods
  <2>2. o \in Objects /\ object[o].exists
    BY DEF Here
  <2> QED BY <2>1, <2>2, LookedAt DEF Workloads
<1>3. \A o \in Objects \ disturbed : NamespaceOf[o] = Namespaces[i] /\ Wanted(o) =>
        Instance(o) \in cand[i] /\ <<Instance(o), pod[o].revision>> \in R
  <2> SUFFICES ASSUME NEW o \in Objects \ disturbed, NamespaceOf[o] = Namespaces[i], Wanted(o)
               PROVE  Instance(o) \in cand[i] /\ <<Instance(o), pod[o].revision>> \in R
    OBVIOUS
  <2>1. Instance(o) \in cand[i]
    BY <1>0 DEF IInv, Kept, Followed
  <2>2. o \in Here(i) /\ Satisfies(pod[o])
    BY <1>0, Candidate DEF Wanted, Workloads
  <2> QED BY <2>1, <2>2 DEF RsOfMatchingPods
<1>4. \A c \in cand[i] \cup picked[i] : <<c, "eligible">> \in was /\ (~ noFlagger => ~ LeftToPrimary(c[1]))
  BY DEF IInv, Sound, Canaries, Workloads
<1>5. \A c \in picked[i] : <<c, "matched">> \in was
  BY <1>0 DEF IInv, Sound, Workloads
<1>6. \A rs \in rsSeen[i] : <<rs[1], "matched">> \in was
  BY DEF IInv, Sound, Workloads
<1>7. CASE R = {}
  <2>1. /\ at' = [at EXCEPT ![i] = "done"] /\ cand' = [cand EXCEPT ![i] = {}]
        /\ picked' = [picked EXCEPT ![i] = {}] /\ errs' = errs
        /\ rsSeen' = [rsSeen EXCEPT ![i] = rsSeen[i]]
    BY <1>7 DEF ListDeploymentPods, Goes, Selected, IInv, TypeOK, WorkloadTypeOK
  <2>2. Outcome(i, "done", {}, {}, rsSeen[i], errs)
    BY <1>3, <1>6, <1>7 DEF Outcome
  <2> QED BY <1>0, <2>1, <2>2, SelectFrame, GoroutineStep
<1>8. CASE R # {}
  <2>1. /\ at' = [at EXCEPT ![i] = "replicaSets"] /\ cand' = [cand EXCEPT ![i] = cand[i]]
        /\ picked' = [picked EXCEPT ![i] = picked[i]] /\ errs' = errs
        /\ rsSeen' = [rsSeen EXCEPT ![i] = R]
    BY <1>8 DEF ListDeploymentPods, Goes, IInv, TypeOK, PoolTypeOK
  <2>2. Outcome(i, "replicaSets", cand[i], picked[i], R, errs)
    BY <1>0, <1>2, <1>3, <1>4, <1>5 DEF Outcome, Workloads
  <2> HIDE DEF R
  <2> QED BY <1>0, <1>1, <2>1, <2>2, SelectFrame, GoroutineStep
<1> QED BY <1>7, <1>8

LEMMA ListReplicaSetsStep ==
  ASSUME IInv, Select, kind = "Deployment", NEW i \in Indexes, ListReplicaSets(i)
  PROVE  IInv'
<1> DEFINE D == deploymentsWithMatchingPods(i)
<1>0. /\ at[i] = "replicaSets" /\ UNCHANGED <<loop, next>> /\ active # {}
      /\ D \in SUBSET Instances /\ errs \in SUBSET Indexes
  BY DEF ListReplicaSets, Goes, IInv, Visits, TypeOK, PoolTypeOK, deploymentsWithMatchingPods
<1>1. /\ at' = [at EXCEPT ![i] = "done"] /\ cand' = [cand EXCEPT ![i] = {}]
      /\ picked' = [picked EXCEPT ![i] = D] /\ errs' = errs
      /\ rsSeen' = [rsSeen EXCEPT ![i] = {}]
  BY DEF ListReplicaSets, Goes, Selected
<1>2. \A c \in D : /\ <<c, "eligible">> \in was /\ <<c, "matched">> \in was
                   /\ ~ noFlagger => ~ LeftToPrimary(c[1])
  BY DEF deploymentsWithMatchingPods, IInv, Sound, Canaries, Workloads
<1>3. \A o \in Objects \ disturbed : NamespaceOf[o] = Namespaces[i] /\ Wanted(o) => Instance(o) \in D
  <2> SUFFICES ASSUME NEW o \in Objects \ disturbed, NamespaceOf[o] = Namespaces[i], Wanted(o)
               PROVE  Instance(o) \in D
    OBVIOUS
  <2>1. Instance(o) \in cand[i] /\ <<Instance(o), pod[o].revision>> \in rsSeen[i]
    BY <1>0 DEF IInv, Kept, Followed
  <2>2. <<Instance(o), pod[o].revision>> \in sets
    BY DEF IInv, Undisturbed, Workloads
  <2> QED BY <2>1, <2>2 DEF deploymentsWithMatchingPods
<1>4. Outcome(i, "done", {}, D, {}, errs)
  BY <1>2, <1>3 DEF Outcome
<1> HIDE DEF D
<1> QED BY <1>0, <1>1, <1>4, SelectFrame, GoroutineStep

LEMMA ListStatefulSetsStep ==
  ASSUME IInv, Select, kind = "StatefulSet", NEW i \in Indexes, ListStatefulSets(i)
  PROVE  IInv'
<1> DEFINE C == {Instance(o) : o \in StatefulSetCandidates(Here(i))}
<1> DEFINE S == Unblocked(C)
<1>0. /\ at[i] = "list" /\ UNCHANGED <<loop, next>>
      /\ S \in SUBSET Instances
      /\ picked[i] \in SUBSET Instances /\ rsSeen[i] \in SUBSET ReplicaSets
      /\ errs \in SUBSET Indexes
  <2>1. C \subseteq Instances
    BY InstanceFacts DEF IInv, StatefulSetCandidates, Here
  <2> QED BY <2>1 DEF ListStatefulSets, Goes, Unblocked, IInv, TypeOK, PoolTypeOK, WorkloadTypeOK
<1>1. \A c \in S : <<c, "eligible">> \in was
  <2> TAKE c \in S
  <2>1. PICK o \in StatefulSetCandidates(Here(i)) : c = Instance(o)
    BY DEF Unblocked
  <2>2. o \in Objects /\ object[o].exists /\ OldEnough(o) /\ ~ object[o].blocked
    BY <2>1 DEF Unblocked, StatefulSetCandidates, Here, Instance
  <2> QED BY <2>1, <2>2, LookedAt DEF Workloads
<1>2. \A o \in Objects \ disturbed : NamespaceOf[o] = Namespaces[i] /\ Wanted(o) => Instance(o) \in S
  <2> SUFFICES ASSUME NEW o \in Objects \ disturbed, NamespaceOf[o] = Namespaces[i], Wanted(o)
               PROVE  Instance(o) \in S
    OBVIOUS
  <2>1. o \in StatefulSetCandidates(Here(i)) /\ ~ object[o].blocked
    BY Candidate
  <2> QED BY <2>1 DEF Unblocked, Instance
<1>3. /\ \A c \in picked[i] : <<c, "eligible">> \in was
      /\ \A rs \in rsSeen[i] : <<rs[1], "matched">> \in was
      /\ active # {} => \A c \in picked[i] : <<c, "matched">> \in was
  BY DEF IInv, Sound, Workloads
<1>4. CASE active # {} /\ C # {}
  <2>1. /\ at' = [at EXCEPT ![i] = "pods"] /\ cand' = [cand EXCEPT ![i] = S]
        /\ picked' = [picked EXCEPT ![i] = picked[i]] /\ errs' = errs
        /\ rsSeen' = [rsSeen EXCEPT ![i] = rsSeen[i]]
    BY <1>4 DEF ListStatefulSets, Goes, IInv, TypeOK, PoolTypeOK, WorkloadTypeOK
  <2>2. Outcome(i, "pods", S, picked[i], rsSeen[i], errs)
    BY <1>1, <1>2, <1>3, <1>4 DEF Outcome, Workloads
  <2> HIDE DEF S, C
  <2> QED BY <1>0, <2>1, <2>2, SelectFrame, GoroutineStep
<1>5. CASE ~ (active # {} /\ C # {})
  <2>1. /\ at' = [at EXCEPT ![i] = "done"] /\ cand' = [cand EXCEPT ![i] = {}]
        /\ picked' = [picked EXCEPT ![i] = S] /\ errs' = errs
        /\ rsSeen' = [rsSeen EXCEPT ![i] = rsSeen[i]]
    BY <1>5 DEF ListStatefulSets, Goes, Selected, IInv, TypeOK, WorkloadTypeOK
  <2>2. active # {} => S = {}
    BY <1>5 DEF Unblocked
  <2>3. Outcome(i, "done", {}, S, rsSeen[i], errs)
    BY <1>1, <1>2, <1>3, <2>2 DEF Outcome
  <2> HIDE DEF S, C
  <2> QED BY <1>0, <2>1, <2>3, SelectFrame, GoroutineStep
<1> QED BY <1>4, <1>5

LEMMA ListStatefulSetPodsStep ==
  ASSUME IInv, Select, kind = "StatefulSet", NEW i \in Indexes, ListStatefulSetPods(i)
  PROVE  IInv'
<1> DEFINE D == cand[i] \cap statefulSetsWithMatchingPods(i)
<1>0. /\ at[i] = "pods" /\ UNCHANGED <<loop, next>> /\ active # {}
      /\ D \in SUBSET Instances /\ errs \in SUBSET Indexes /\ rsSeen[i] \in SUBSET ReplicaSets
  BY DEF ListStatefulSetPods, Goes, IInv, Visits, TypeOK, PoolTypeOK, WorkloadTypeOK
<1>1. /\ at' = [at EXCEPT ![i] = "done"] /\ cand' = [cand EXCEPT ![i] = {}]
      /\ picked' = [picked EXCEPT ![i] = D] /\ errs' = errs
      /\ rsSeen' = [rsSeen EXCEPT ![i] = rsSeen[i]]
  BY DEF ListStatefulSetPods, Goes, Selected, IInv, TypeOK, WorkloadTypeOK
<1>2. \A c \in D : <<c, "eligible">> \in was /\ <<c, "matched">> \in was
  <2> TAKE c \in D
  <2>1. PICK o \in Here(i) : Satisfies(pod[o]) /\ c = Instance(o)
    BY DEF statefulSetsWithMatchingPods
  <2>2. o \in Objects /\ object[o].exists
    BY DEF Here
  <2> QED BY <2>1, <2>2, LookedAt DEF Workloads, IInv, Sound
<1>3. \A o \in Objects \ disturbed : NamespaceOf[o] = Namespaces[i] /\ Wanted(o) => Instance(o) \in D
  <2> SUFFICES ASSUME NEW o \in Objects \ disturbed, NamespaceOf[o] = Namespaces[i], Wanted(o)
               PROVE  Instance(o) \in D
    OBVIOUS
  <2>1. Instance(o) \in cand[i]
    BY <1>0 DEF IInv, Kept, Followed
  <2>2. o \in Here(i) /\ Satisfies(pod[o])
    BY <1>0, Candidate DEF Wanted, Workloads
  <2> QED BY <2>1, <2>2 DEF statefulSetsWithMatchingPods
<1>4. \A rs \in rsSeen[i] : <<rs[1], "matched">> \in was
  BY DEF IInv, Sound, Workloads
<1>5. Outcome(i, "done", {}, D, rsSeen[i], errs)
  BY <1>2, <1>3, <1>4 DEF Outcome
<1> HIDE DEF D
<1> QED BY <1>0, <1>1, <1>5, SelectFrame, GoroutineStep

LEMMA ListCRsStep ==
  ASSUME IInv, Select, kind \in {"Kafka", "PostgreSQL"}, NEW i \in Indexes, NEW g, ListCRs(i, g), UNCHANGED rsSeen
  PROVE  IInv'
<1> DEFINE S == {Instance(o) : o \in {q \in Here(i) : OldEnough(q)}}
<1>0. /\ at[i] = "list" /\ UNCHANGED <<loop, next>>
      /\ S \in SUBSET Instances /\ errs \in SUBSET Indexes /\ rsSeen[i] \in SUBSET ReplicaSets
  <2>1. S \subseteq Instances
    BY InstanceFacts DEF IInv, Here
  <2> QED BY <2>1 DEF ListCRs, Goes, IInv, TypeOK, PoolTypeOK, WorkloadTypeOK
<1>1. /\ at' = [at EXCEPT ![i] = "done"] /\ cand' = [cand EXCEPT ![i] = {}]
      /\ picked' = [picked EXCEPT ![i] = S] /\ errs' = errs
      /\ rsSeen' = [rsSeen EXCEPT ![i] = rsSeen[i]]
  BY DEF ListCRs, Goes, Selected, IInv, TypeOK, WorkloadTypeOK
<1>2. \A o \in Objects : NamespaceOf[o] = Namespaces[i] /\ Wanted(o) => Instance(o) \in S
  BY DEF Wanted, Here
<1>3. Outcome(i, "done", {}, S, rsSeen[i], errs)
  BY <1>2 DEF Outcome, Workloads
<1> HIDE DEF S
<1> QED BY <1>0, <1>1, <1>3, SelectFrame, GoroutineStep

LEMMA SelectStep == ASSUME IInv, Select PROVE IInv'
<1>1. PICK i \in Indexes :
        \/ kind = "Deployment" /\ DeploymentStep(i)
        \/ kind = "StatefulSet" /\ StatefulSetStep(i)
        \/ kind = "Kafka" /\ ListCRs(i, "kafka") /\ UNCHANGED rsSeen
        \/ kind = "PostgreSQL" /\ ListCRs(i, "postgresql") /\ UNCHANGED rsSeen
  BY DEF Select
<1>2. CASE kind = "Deployment" /\ DeploymentStep(i)
  BY <1>2, ListDeploymentsStep, ListDeploymentPodsStep, ListReplicaSetsStep DEF DeploymentStep
<1>3. CASE kind = "StatefulSet" /\ StatefulSetStep(i)
  BY <1>3, ListStatefulSetsStep, ListStatefulSetPodsStep DEF StatefulSetStep
<1>4. CASE kind = "Kafka" /\ ListCRs(i, "kafka") /\ UNCHANGED rsSeen
  BY <1>4, ListCRsStep
<1>5. CASE kind = "PostgreSQL" /\ ListCRs(i, "postgresql") /\ UNCHANGED rsSeen
  BY <1>5, ListCRsStep
<1> QED BY <1>1, <1>2, <1>3, <1>4, <1>5

------------------------------------------------------------------------------
(* Discovery.                                                              *)

\* The preferred version is there to be chosen.
LEMMA FirstPreferred ==
  ASSUME NEW offer, \E i \in DOMAIN Preferred : Preferred[i] \in offer
  PROVE  \E i \in DOMAIN Preferred : /\ Preferred[i] \in offer
                                     /\ \A j \in 1 .. (i - 1) : Preferred[j] \notin offer
<1> DEFINE T == {i \in DOMAIN Preferred : Preferred[i] \in offer}
<1>1. DOMAIN Preferred = 1 .. Len(Preferred) /\ Len(Preferred) \in Nat
  BY VersionAssumption
<1>2. T \subseteq Nat /\ T # {}
  BY <1>1
<1>3. PICK x \in T : \A y \in T : <<y, x>> \notin OpToRel(<, Nat)
  BY <1>2, NatLessThanWellFounded, WFMin
<1>4. \A y \in T : ~ (y < x)
  BY <1>2, <1>3 DEF OpToRel
<1> QED BY <1>1, <1>4

\* What a discovery finds is served, and is supported or was asked for.
LEMMA Resolved ==
  ASSUME NEW offer \in SUBSET Versions, NEW version, version \notin {"none", "error"},
         NEW answer \in {ResolveAPIGroupVersion(offer, version), "error"}
  PROVE  /\ answer \in Versions \/ answer \in {"none", "error"}
         /\ answer \in Versions => /\ answer \in offer
                                   /\ \/ answer = version
                                      \/ version = "auto" /\ \E i \in DOMAIN Preferred : answer = Preferred[i]
         /\ answer = "none" => offer = {}
         /\ answer \notin {"none", "error"} => answer \in Versions
<1>0. "none" \notin Versions /\ "error" \notin Versions /\ "auto" \notin Versions
  BY VersionAssumption
<1>1. CASE answer = "error" \/ offer = {}
  BY <1>0, <1>1 DEF ResolveAPIGroupVersion
<1>2. CASE answer # "error" /\ offer # {} /\ version # "auto"
  BY <1>0, <1>2 DEF ResolveAPIGroupVersion
<1>3. CASE answer # "error" /\ offer # {} /\ version = "auto"
  <2>1. \E i \in DOMAIN Preferred : Preferred[i] \in offer
    BY <1>3 DEF ResolveAPIGroupVersion
  <2> DEFINE First(i) == /\ Preferred[i] \in offer
                         /\ \A j \in 1 .. (i - 1) : Preferred[j] \notin offer
             n == CHOOSE i \in DOMAIN Preferred : First(i)
  <2>2. n \in DOMAIN Preferred /\ First(n)
    <3>1. \E i \in DOMAIN Preferred : First(i)
      BY <2>1, FirstPreferred
    <3> HIDE DEF First
    <3> QED BY <3>1
  <2>3. answer = Preferred[n]
    BY <1>3, <2>1 DEF ResolveAPIGroupVersion
  <2> HIDE DEF n
  <2> QED BY <1>0, <1>3, <2>2, <2>3
<1> QED BY <1>1, <1>2, <1>3

\* What a discovery leaves alone: no goroutine runs before it.
LEMMA DiscoverFrame ==
  ASSUME Discover
  PROVE  /\ Unmoved
         /\ UNCHANGED <<object, changes, disturbed, pod, sets, was, served, servedOnce, absentOnce>>
         /\ UNCHANGED <<byAge, active, noFlagger, asked, kind, cancelled>>
         /\ UNCHANGED <<rsSeen, next, at, cand, picked, errs>>
BY DEF Discover, ResolveKafka, ResolvePodSet, ResolvePostgresql, Unmoved, worldVars, objectVars, workloadVars,
   apiVars, settings

\* A group whose discovery fails is remembered.
LEMMA DiscoverAnswers ==
  ASSUME TypeOK, Discover
  PROVE  unanswered \subseteq unanswered' /\ unanswered' \subseteq Groups
BY DEF Discover, ResolveKafka, ResolvePodSet, ResolvePostgresql, Answered, TypeOK, CRTypeOK, Groups

LEMMA DiscoverKeeps ==
  ASSUME IInv, Discover, loop = "before", loop' \in {"loop", "joined"},
         loop' = "joined" => planErr' \/ ~ Installed
  PROVE  Sound' /\ Canaries' /\ Undisturbed' /\ Kept' /\ Visits' /\ Plan' = {}
<1> USE DiscoverFrame DEF IInv
<1>1. Sound' /\ Canaries' /\ Undisturbed'
  BY Frame DEF Sound, Canaries
<1>2. Kept'
  <2> SUFFICES ASSUME NEW j \in Indexes, NEW o \in Objects \ disturbed,
                      NamespaceOf[o] = Namespaces[j], Wanted(o)
               PROVE  Followed(j, o)'
    BY Frame DEF Kept
  <2>1. Followed(j, o) /\ Instance(o)' = Instance(o)
    BY Frame DEF Kept
  <2> QED BY <2>1 DEF Followed
<1>3. \A i \in Indexes : at[i] = "idle" /\ picked[i] = {}
  BY IndexFacts DEF Visits
<1>4. Busy' = {} /\ Plan' = {}
  BY <1>3 DEF Busy, Plan
<1>5. Installed' = Installed
  BY DEF Installed
<1>6. Visits'
  BY <1>4, <1>5 DEF Visits
<1> QED BY <1>1, <1>2, <1>4, <1>6

\* The APIs that are asked for, and what is known of them.
LEMMA KnownAPIs ==
  ASSUME IInv
  PROVE  /\ \A g \in GroupsOf(kind) : served[g] \in SUBSET Versions
         /\ \A g \in {"kafka", "podSet"} : asked[g] \in Requested \cup {"auto"} /\ asked[g] \notin {"none", "error"}
         /\ "v1" \notin {"none", "error"}
         /\ path \in [Groups -> Versions \cup {"none"}]
         /\ \A v \in Versions : v \notin {"none", "error"}
         /\ \A g \in GroupsOf(kind) : served[g] = {} => g \in absentOnce
BY VersionAssumption DEF IInv, TypeOK, CRTypeOK, Discovered

LEMMA ResolveKafkaStep == ASSUME IInv, Discover, ResolveKafka PROVE IInv'
<1> USE DiscoverFrame DEF IInv
<1>0. kind = "Kafka" /\ loop = "before" /\ discovering = "kafka" /\ "kafka" \in GroupsOf(kind)
  BY DEF Discovered, ResolveKafka, GroupsOf
<1>1. PICK answer \in Answers("kafka", asked["kafka"]) :
        IF answer \in {"none", "error"}
          THEN /\ discovering' = "none"
               /\ loop' = "joined"
               /\ planErr' = (answer = "error")
               /\ UNCHANGED path
          ELSE /\ discovering' = "podSet"
               /\ path' = [path EXCEPT !["kafka"] = answer]
               /\ UNCHANGED <<loop, planErr>>
  BY DEF ResolveKafka
<1>2. UNCHANGED podSetErr
  BY DEF ResolveKafka
<1>3. /\ answer \in Versions \/ answer \in {"none", "error"}
      /\ answer \in Versions => /\ answer \in served["kafka"]
                                /\ \/ answer = asked["kafka"]
                                   \/ asked["kafka"] = "auto" /\ \E i \in DOMAIN Preferred : answer = Preferred[i]
      /\ answer = "none" => served["kafka"] = {}
  BY <1>0, <1>1, KnownAPIs, Resolved DEF Answers
<1>4. CASE answer \in {"none", "error"}
  <2>1. /\ discovering' = "none" /\ loop' = "joined" /\ path' = path
        /\ planErr' = (answer = "error") /\ planErr' \in BOOLEAN
    BY <1>1, <1>4
  <2>2. planErr' \/ ~ Installed
    BY <1>0, <1>3, <1>4, <2>1, KnownAPIs DEF Installed, Workloads
  <2>3. Sound' /\ Canaries' /\ Undisturbed' /\ Kept' /\ Visits' /\ Plan' = {}
    BY <1>0, <2>1, <2>2, DiscoverKeeps
  <2>4. TypeOK'
    <3>1. PoolTypeOK'
      BY <2>1 DEF TypeOK, PoolTypeOK
    <3>2. WorkloadTypeOK'
      BY DEF TypeOK, WorkloadTypeOK
    <3>3. CRTypeOK'
      BY DiscoverAnswers, <1>2, <2>1 DEF TypeOK, CRTypeOK
    <3> QED BY <3>1, <3>2, <3>3 DEF TypeOK
  <2>5. Discovered'
    BY <1>0, <1>2, <2>1, <2>3 DEF Discovered
  <2> QED BY <2>3, <2>4, <2>5
<1>5. CASE answer \notin {"none", "error"}
  <2>1. /\ discovering' = "podSet" /\ loop' = loop /\ planErr' = planErr
        /\ path' = [path EXCEPT !["kafka"] = answer] /\ answer \in Versions
    BY <1>1, <1>3, <1>5
  <2>2. /\ path' \in [Groups -> Versions \cup {"none"}]
        /\ path'["kafka"] = answer /\ path'["podSet"] = path["podSet"]
    BY <2>1, KnownAPIs DEF Groups
  <2>3. Sound' /\ Canaries' /\ Undisturbed'
    BY Frame DEF Sound, Canaries
  <2>4. Kept'
    <3> SUFFICES ASSUME NEW j \in Indexes, NEW o \in Objects \ disturbed,
                        NamespaceOf[o] = Namespaces[j], Wanted(o)
                 PROVE  Followed(j, o)'
      BY Frame DEF Kept
    <3>1. Followed(j, o) /\ Instance(o)' = Instance(o)
      BY Frame DEF Kept
    <3> QED BY <3>1 DEF Followed
  <2>5. Visits'
    BY <1>0, <2>1 DEF Visits
  <2>6. TypeOK'
    <3>1. PoolTypeOK'
      BY <2>1 DEF TypeOK, PoolTypeOK
    <3>2. WorkloadTypeOK'
      BY DEF TypeOK, WorkloadTypeOK
    <3>3. CRTypeOK'
      BY DiscoverAnswers, <1>2, <2>1, <2>2 DEF TypeOK, CRTypeOK, Groups
    <3> QED BY <3>1, <3>2, <3>3 DEF TypeOK
  <2>7. Discovered'
    <3>1. answer \in servedOnce["kafka"] /\ answer # "none"
      BY <1>0, <1>3, <1>5, <2>1 DEF Discovered
    <3>2. /\ path["podSet"] # "none" =>
               /\ path["podSet"] \in servedOnce["podSet"]
               /\ path["podSet"] = asked["podSet"] \/ (asked["podSet"] = "auto" /\ \E i \in DOMAIN Preferred : path["podSet"] = Preferred[i])
      BY <1>0 DEF Discovered
    <3> QED BY <1>0, <1>2, <1>3, <2>1, <2>2, <3>1, <3>2 DEF Discovered
  <2> QED BY <2>3, <2>4, <2>5, <2>6, <2>7
<1> QED BY <1>4, <1>5

LEMMA ResolvePodSetStep == ASSUME IInv, Discover, ResolvePodSet PROVE IInv'
<1> USE DiscoverFrame DEF IInv
<1>0. /\ kind = "Kafka" /\ loop = "before" /\ "podSet" \in GroupsOf(kind) /\ path["kafka"] # "none"
      /\ discovering' = "none" /\ loop' = "loop" /\ planErr' = planErr
  BY DEF Discovered, ResolvePodSet, GroupsOf
<1>1. PICK answer \in Answers("podSet", asked["podSet"]) :
        /\ podSetErr' = CASE answer = "none"  -> "missing"
                          [] answer = "error" -> "error"
                          [] OTHER            -> "nil"
        /\ path' = IF answer \in Versions THEN [path EXCEPT !["podSet"] = answer] ELSE path
  BY DEF ResolvePodSet
<1>3. /\ answer \in Versions \/ answer \in {"none", "error"}
      /\ answer \in Versions => /\ answer \in served["podSet"]
                                /\ \/ answer = asked["podSet"]
                                   \/ asked["podSet"] = "auto" /\ \E i \in DOMAIN Preferred : answer = Preferred[i]
  BY <1>0, <1>1, KnownAPIs, Resolved DEF Answers
<1>4. /\ podSetErr' \in {"nil", "missing", "error"}
      /\ podSetErr' = "nil" => answer \in Versions
      /\ path' \in [Groups -> Versions \cup {"none"}] /\ path'["kafka"] = path["kafka"]
      /\ (path'["podSet"] = answer /\ answer \in Versions) \/ path'["podSet"] = path["podSet"]
      /\ answer \in Versions => path'["podSet"] = answer /\ answer # "none"
  BY <1>1, <1>3, KnownAPIs DEF Groups
<1>5. Sound' /\ Canaries' /\ Undisturbed' /\ Kept' /\ Visits'
  BY <1>0, DiscoverKeeps
<1>6. TypeOK'
  <2>1. PoolTypeOK'
    BY <1>0 DEF TypeOK, PoolTypeOK
  <2>2. WorkloadTypeOK'
    BY DEF TypeOK, WorkloadTypeOK
  <2>3. CRTypeOK'
    BY DiscoverAnswers, <1>0, <1>4 DEF TypeOK, CRTypeOK, Groups
  <2> QED BY <2>1, <2>2, <2>3 DEF TypeOK
<1>7. Discovered'
  <2> DEFINE Good(g, v) == /\ v \in servedOnce[g]
                           /\ v = asked[g] \/ (asked[g] = "auto" /\ \E i \in DOMAIN Preferred : v = Preferred[i])
  <2>1. answer \in Versions => Good("podSet", answer)
    BY <1>0, <1>3 DEF Discovered
  <2>2. \A g \in {"kafka", "podSet"} : path[g] # "none" => Good(g, path[g])
    BY <1>0 DEF Discovered
  <2>3. \A g \in {"kafka", "podSet"} : path'[g] # "none" => Good(g, path'[g])
    <3> HIDE DEF Good
    <3> QED BY <1>4, <2>1, <2>2
  <2>4. \A g \in GroupsOf(kind) : served[g] \subseteq servedOnce[g] /\ (served[g] = {} => g \in absentOnce)
    BY DEF Discovered
  <2> QED BY <1>0, <1>4, <2>3, <2>4 DEF Discovered
<1> QED BY <1>5, <1>6, <1>7

LEMMA ResolvePostgresqlStep == ASSUME IInv, Discover, ResolvePostgresql PROVE IInv'
<1> USE DiscoverFrame DEF IInv
<1>0. /\ kind = "PostgreSQL" /\ loop = "before" /\ "postgresql" \in GroupsOf(kind)
      /\ discovering' = "none" /\ UNCHANGED podSetErr
  BY DEF Discovered, ResolvePostgresql, GroupsOf
<1>1. PICK answer \in Answers("postgresql", "v1") :
        IF answer \in {"none", "error"}
          THEN loop' = "joined" /\ planErr' = (answer = "error") /\ UNCHANGED path
          ELSE loop' = "loop" /\ path' = [path EXCEPT !["postgresql"] = answer] /\ UNCHANGED planErr
  BY DEF ResolvePostgresql
<1>2. /\ answer \in Versions \/ answer \in {"none", "error"}
      /\ answer = "none" => served["postgresql"] = {}
  BY <1>0, <1>1, KnownAPIs, Resolved DEF Answers
<1>3. /\ loop' \in {"loop", "joined"} /\ planErr' \in BOOLEAN
      /\ loop' = "joined" => planErr' \/ ~ Installed
      /\ path' \in [Groups -> Versions \cup {"none"}]
  <2>1. CASE answer \in {"none", "error"}
    <3>1. loop' = "joined" /\ planErr' = (answer = "error") /\ path' = path
      BY <1>1, <2>1
    <3>2. answer = "none" => ~ Installed
      BY <1>0, <1>2, KnownAPIs DEF Installed, Workloads
    <3> QED BY <2>1, <3>1, <3>2, KnownAPIs
  <2>2. CASE answer \notin {"none", "error"}
    <3>1. planErr \in BOOLEAN
      BY DEF TypeOK, CRTypeOK
    <3> QED BY <1>1, <1>2, <2>2, <3>1, KnownAPIs
  <2> QED BY <2>1, <2>2
<1>5. Sound' /\ Canaries' /\ Undisturbed' /\ Kept' /\ Visits'
  BY <1>0, <1>3, DiscoverKeeps
<1>6. TypeOK'
  <2>1. PoolTypeOK'
    BY <1>3 DEF TypeOK, PoolTypeOK
  <2>2. WorkloadTypeOK'
    BY DEF TypeOK, WorkloadTypeOK
  <2>3. CRTypeOK'
    BY DiscoverAnswers, <1>0, <1>3 DEF TypeOK, CRTypeOK, Groups
  <2> QED BY <2>1, <2>2, <2>3 DEF TypeOK
<1>7. Discovered'
  BY <1>0 DEF Discovered
<1> QED BY <1>5, <1>6, <1>7

LEMMA DiscoverStep == ASSUME IInv, Discover PROVE IInv'
BY ResolveKafkaStep, ResolvePodSetStep, ResolvePostgresqlStep DEF Discover

LEMMA JoinsStep == ASSUME IInv, Joins PROVE IInv'
<1> USE IndexFacts DEF IInv
<1>0. /\ UNCHANGED <<object, changes, disturbed, pod, sets, was, served, servedOnce, absentOnce>>
      /\ UNCHANGED <<byAge, active, noFlagger, asked, kind, cancelled>>
      /\ UNCHANGED <<unanswered, discovering, path, podSetErr, rsSeen, next, at, cand, picked, errs>>
      /\ Unmoved
      /\ loop = "wait" /\ Busy = {} /\ loop' = "joined"
      /\ planErr' = IF kind = "Kafka" THEN PodSetProblem ELSE planErr
  BY DEF Joins, JoinKafka, Join, Unmoved, worldVars, objectVars, workloadVars, apiVars, settings
<1>1. TypeOK'
  <2>1. PoolTypeOK'
    BY <1>0 DEF TypeOK, PoolTypeOK
  <2>2. WorkloadTypeOK'
    BY <1>0 DEF TypeOK, WorkloadTypeOK
  <2>3. planErr' \in BOOLEAN
    BY <1>0 DEF TypeOK, CRTypeOK, PodSetProblem
  <2>4. CRTypeOK'
    BY <1>0, <2>3 DEF TypeOK, CRTypeOK
  <2> QED BY <2>1, <2>2, <2>4 DEF TypeOK
<1>2. Sound' /\ Canaries' /\ Undisturbed'
  BY <1>0, Frame DEF Sound, Canaries
<1>3. Kept'
  <2> SUFFICES ASSUME NEW j \in Indexes, NEW o \in Objects \ disturbed,
                      NamespaceOf[o] = Namespaces[j], Wanted(o)
               PROVE  Followed(j, o)'
    BY <1>0, Frame DEF Kept
  <2>1. Followed(j, o) /\ Instance(o)' = Instance(o)
    BY <1>0, Frame DEF Kept
  <2> QED BY <1>0, <2>1 DEF Followed
<1>4. \A i \in Indexes : at[i] = "done"
  <2>1. \A i \in Indexes : at[i] # "idle"
    BY <1>0 DEF Visits
  <2> QED BY <1>0, <2>1 DEF Busy
<1>5. Visits'
  <2>1. Busy' = {}
    BY <1>0, <1>4 DEF Busy
  <2> QED BY <1>0, <1>4, <2>1 DEF Visits
<1>6. Discovered'
  <2>1. Plan' = Plan
    BY <1>0 DEF Plan
  <2>2. kind = "Kafka" /\ Plan # {} /\ ~ planErr' => podSetErr = "nil"
    BY <1>0 DEF PodSetProblem, TypeOK, CRTypeOK
  <2> QED BY <1>0, <2>1, <2>2 DEF Discovered
<1> QED BY <1>1, <1>2, <1>3, <1>5, <1>6

LEMMA PlanStepInv == ASSUME IInv, PlanStep PROVE IInv'
BY DiscoverStep, PoolStep, FailsStep, SelectStep, JoinsStep DEF PlanStep

------------------------------------------------------------------------------
(* What others do.                                                         *)

\* What others leave alone: the planning, and whoever manages an object.
OnlyObject(o) ==
  /\ object' \in [Objects -> [exists : BOOLEAN, uid : Uids, old : BOOLEAN, blocked : BOOLEAN, managed : BOOLEAN]]
  /\ \A q \in Objects : object'[q].managed = object[q].managed
  /\ \A q \in Objects \ {o} : object'[q] = object[q]
  /\ kind \in Workloads => \A q \in Objects \ {o} :
       pod'[q] = pod[q] /\ (<<Instance(q), pod[q].revision>> \in sets => <<Instance(q), pod[q].revision>> \in sets')
  /\ disturbed' = disturbed \cup {o}
  /\ UNCHANGED <<settings, cancelled, poolVars, rsSeen, unanswered, discovering, path, podSetErr, planErr, apiVars>>

LEMMA ObjectChanges ==
  ASSUME IInv, NEW o \in Objects, OnlyObject(o)
  PROVE  Canaries' /\ Undisturbed' /\ Kept' /\ Visits' /\ Discovered'
<1> USE DEF IInv
<1>0. /\ UNCHANGED <<byAge, active, noFlagger, asked, kind, cancelled>>
      /\ UNCHANGED <<loop, next, at, cand, picked, errs, rsSeen, unanswered, discovering, path, podSetErr, planErr>>
      /\ UNCHANGED <<served, servedOnce, absentOnce>>
  BY DEF OnlyObject, settings, poolVars, apiVars
<1>1. \A q \in Objects \ disturbed' : /\ q \in Objects \ disturbed /\ q # o
                                      /\ object'[q] = object[q] /\ Instance(q)' = Instance(q)
                                      /\ kind \in Workloads => pod'[q] = pod[q]
  BY DEF OnlyObject, Instance
<1>2. \A q \in Objects : isFlaggerPrimary(q)' = isFlaggerPrimary(q)
  BY DEF OnlyObject, isFlaggerPrimary
<1>3. Canaries'
  <2> SUFFICES ASSUME kind = "Deployment", ~ noFlagger, NEW j \in Indexes, NEW c \in cand[j] \cup picked[j],
                      LeftToPrimary(c[1])'
               PROVE  FALSE
    BY <1>0 DEF Canaries
  <2>1. c[1] \in Objects
    BY DEF TypeOK, PoolTypeOK, Instances
  <2>2. LeftToPrimary(c[1])
    BY <1>1, <1>2, <2>1 DEF LeftToPrimary
  <2> QED BY <2>2 DEF Canaries
<1>4. Undisturbed'
  BY <1>0, <1>1 DEF Undisturbed, OnlyObject
<1>5. Kept'
  <2> SUFFICES ASSUME NEW j \in Indexes, NEW q \in Objects \ disturbed',
                      NamespaceOf[q] = Namespaces[j], Wanted(q)'
               PROVE  Followed(j, q)'
    BY DEF Kept
  <2>1. Wanted(q)
    <3>1. object[q].exists /\ OldEnough(q)
      BY <1>0, <1>1 DEF Wanted, OldEnough
    <3>2. kind \in Workloads => ~ object[q].blocked /\ (active # {} => Satisfies(pod[q]))
      BY <1>0, <1>1 DEF Wanted, Satisfies
    <3>3. kind = "StatefulSet" => ~ object[q].managed
      BY <1>0, <1>1 DEF Wanted
    <3>4. kind = "Deployment" => \/ noFlagger
                                 \/ isFlaggerPrimary(q)
                                 \/ PrimaryOf[q] = "none"
                                 \/ PrimaryOf[q] \notin disturbed /\ ~ isFlaggerPrimary(PrimaryOf[q])
      <4>1. PrimaryOf[q] = "none" \/ PrimaryOf[q] \in Objects
        BY WorkloadAssumption
      <4>2. disturbed \subseteq disturbed'
        BY DEF OnlyObject
      <4> QED BY <1>0, <1>2, <4>1, <4>2 DEF Wanted
    <3> QED BY <3>1, <3>2, <3>3, <3>4 DEF Wanted
  <2>2. Followed(j, q)
    BY <1>1, <2>1 DEF Kept
  <2>3. at[j] = "replicaSets" => kind \in Workloads
    BY DEF Visits, Workloads
  <2> QED BY <1>0, <1>1, <2>2, <2>3 DEF Followed
<1>6. Visits'
  BY <1>0 DEF Visits, Busy, Installed
<1>7. Discovered'
  BY <1>0 DEF Discovered, Plan
<1> QED BY <1>3, <1>4, <1>5, <1>6, <1>7

LEMMA RecreatedType ==
  ASSUME TypeOK, NEW o \in Objects, Recreated(o)
  PROVE  /\ object' \in [Objects -> [exists : BOOLEAN, uid : Uids, old : BOOLEAN, blocked : BOOLEAN, managed : BOOLEAN]]
         /\ object[o].uid + 1 \in Uids
         /\ \A q \in Objects : object'[q].managed = object[q].managed
         /\ \A q \in Objects \ {o} : object'[q] = object[q]
<1>1. object[o].uid + 1 \in Uids
  BY PlanPoolAssumption DEF TypeOK, PoolTypeOK, Uids, Recreated
<1>2. PICK b \in BOOLEAN :
        object' = [object EXCEPT ![o] = [exists |-> TRUE, uid |-> object[o].uid + 1, old |-> ~ byAge,
                                         blocked |-> b, managed |-> object[o].managed]]
  BY DEF Recreated
<1>3. [exists |-> TRUE, uid |-> object[o].uid + 1, old |-> ~ byAge, blocked |-> b, managed |-> object[o].managed]
        \in [exists : BOOLEAN, uid : Uids, old : BOOLEAN, blocked : BOOLEAN, managed : BOOLEAN]
  BY <1>1 DEF TypeOK, PoolTypeOK
<1> QED BY <1>1, <1>2, <1>3 DEF TypeOK, PoolTypeOK

LEMMA FieldChanged ==
  ASSUME TypeOK, NEW o \in Objects, Aged(o) \/ Switched(o) \/ Deleted(o)
  PROVE  /\ object' \in [Objects -> [exists : BOOLEAN, uid : Uids, old : BOOLEAN, blocked : BOOLEAN, managed : BOOLEAN]]
         /\ \A q \in Objects : object'[q].managed = object[q].managed
         /\ \A q \in Objects \ {o} : object'[q] = object[q]
<1>1. CASE Aged(o)
  BY <1>1 DEF TypeOK, PoolTypeOK, Aged
<1>2. CASE Switched(o)
  BY <1>2 DEF TypeOK, PoolTypeOK, Switched
<1>3. CASE Deleted(o)
  BY <1>3 DEF TypeOK, PoolTypeOK, Deleted
<1> QED BY <1>1, <1>2, <1>3

LEMMA WorkloadStep == ASSUME IInv, Others, kind \in Workloads PROVE IInv'
<1> USE DEF IInv
<1>0. /\ UNCHANGED <<settings, cancelled, poolVars, rsSeen, unanswered, discovering, path, podSetErr, planErr, apiVars>>
      /\ UNCHANGED <<byAge, active, noFlagger, asked, kind, cancelled>>
      /\ UNCHANGED <<loop, next, at, cand, picked, errs, rsSeen, unanswered, discovering, path, podSetErr, planErr>>
      /\ UNCHANGED <<served, servedOnce, absentOnce>>
      /\ WorkloadChanges
  BY DEF Others, settings, poolVars, apiVars
<1>1. PICK o \in Objects :
        /\ Counted(o)
        /\ \/ RolledOut(o) \/ Gone(o) \/ Again(o)
           \/ (Switched(o) \/ Aged(o)) /\ UNCHANGED <<pod, sets>>
        /\ was' = was \cup TraitsNow'
  BY <1>0 DEF WorkloadChanges
<1>2. changes' \in 0 .. MaxChanges /\ disturbed' = disturbed \cup {o}
  BY <1>1, PlanPoolAssumption DEF Counted, TypeOK, PoolTypeOK
<1>3. /\ object' \in [Objects -> [exists : BOOLEAN, uid : Uids, old : BOOLEAN, blocked : BOOLEAN, managed : BOOLEAN]]
      /\ \A q \in Objects : object'[q].managed = object[q].managed
      /\ \A q \in Objects \ {o} : object'[q] = object[q]
  <2>1. CASE RolledOut(o)
    BY <2>1 DEF RolledOut, TypeOK, PoolTypeOK
  <2> QED BY <1>1, <2>1, FieldChanged, RecreatedType DEF Gone, Again
<1>4. Instance(o) \in Instances /\ \A q \in Objects : Instance(q)[1] = q
  BY InstanceFacts
<1>5. /\ pod' \in [Objects -> [exists : BOOLEAN, revision : Revisions, satisfies : SUBSET Filters]]
      /\ sets' \subseteq ReplicaSets
      /\ \A q \in Objects \ {o} : pod'[q] = pod[q]
      /\ \A rs \in sets : rs[1][1] # o => rs \in sets'
  <2>0. /\ pod \in [Objects -> [exists : BOOLEAN, revision : Revisions, satisfies : SUBSET Filters]]
        /\ sets \subseteq ReplicaSets /\ active \subseteq Filters
        /\ \A r \in Revisions : \A s \in SUBSET active :
             [exists |-> TRUE, revision |-> r, satisfies |-> s]
               \in [exists : BOOLEAN, revision : Revisions, satisfies : SUBSET Filters]
        /\ 1 \in Revisions /\ 2 \in Revisions
    BY DEF TypeOK, WorkloadTypeOK, Revisions
  <2>1. CASE RolledOut(o)
    <3>1. PICK s \in SUBSET active : pod' = [pod EXCEPT ![o] = [exists |-> TRUE, revision |-> 2, satisfies |-> s]]
      BY <2>1 DEF RolledOut
    <3>2. sets' \subseteq ReplicaSets /\ \A rs \in sets : rs[1][1] # o => rs \in sets'
      <4>1. <<Instance(o), 2>> \in ReplicaSets
        BY <1>4, <2>0 DEF ReplicaSets
      <4>2. sets \ {<<Instance(o), 1>>} \subseteq sets'
        BY <2>1 DEF RolledOut
      <4>3. sets' \subseteq sets \cup {<<Instance(o), 2>>}
        BY <2>1 DEF RolledOut
      <4> QED BY <1>4, <2>0, <4>1, <4>2, <4>3
    <3> QED BY <2>0, <3>1, <3>2
  <2>2. CASE Gone(o)
    <3> DEFINE Pods == [exists : BOOLEAN, revision : Revisions, satisfies : SUBSET Filters]
    <3>1. pod \in [Objects -> Pods] /\ pod' = [pod EXCEPT ![o].exists = FALSE]
      BY <2>0, <2>2 DEF Gone
    <3>2. pod' \in [Objects -> Pods] /\ \A q \in Objects \ {o} : pod'[q] = pod[q]
      BY <3>1
    <3>3. sets' = {rs \in sets : rs[1][1] # o}
      BY <2>2 DEF Gone
    <3>4. sets' \subseteq ReplicaSets /\ \A rs \in sets : rs[1][1] # o => rs \in sets'
      BY <2>0, <3>3
    <3> QED BY <3>2, <3>4
  <2>3. CASE Again(o)
    <3>1. PICK s \in SUBSET active : pod' = [pod EXCEPT ![o] = [exists |-> TRUE, revision |-> 1, satisfies |-> s]]
      BY <2>3 DEF Again
    <3>2. sets' = {rs \in sets : rs[1][1] # o} \cup {<<<<o, object[o].uid + 1>>, 1>>}
      BY <2>3 DEF Again
    <3>3. <<<<o, object[o].uid + 1>>, 1>> \in ReplicaSets
      BY <2>0, <2>3, RecreatedType DEF Again, ReplicaSets, Instances
    <3> QED BY <2>0, <3>1, <3>2, <3>3
  <2>4. CASE (Switched(o) \/ Aged(o)) /\ UNCHANGED <<pod, sets>>
    BY <2>0, <2>4
  <2> QED BY <1>1, <2>1, <2>2, <2>3, <2>4
<1>6. PoolTypeOK'
  BY <1>0, <1>2, <1>3 DEF TypeOK, PoolTypeOK
<1>7. TypeOK'
  <2>1. \A q \in Objects : Instance(q)' \in Instances
    BY <1>6 DEF PoolTypeOK, Instance, Instances
  <2>2. was' \subseteq Instances \X Traits
    BY <1>1, <2>1 DEF TypeOK, WorkloadTypeOK, TraitsNow, Traits
  <2>3. WorkloadTypeOK'
    BY <1>0, <1>5, <2>2 DEF TypeOK, WorkloadTypeOK
  <2>4. CRTypeOK'
    BY <1>0 DEF TypeOK, CRTypeOK
  <2> QED BY <1>6, <2>3, <2>4 DEF TypeOK
<1>8. Sound'
  <2>1. was \subseteq was' /\ TraitsNow' \subseteq was'
    BY <1>1
  <2> QED BY <1>0, <2>1 DEF Sound
<1>9. OnlyObject(o)
  BY <1>0, <1>2, <1>3, <1>4, <1>5 DEF OnlyObject
<1> QED BY <1>7, <1>8, <1>9, ObjectChanges

LEMMA ResourceStep == ASSUME IInv, Others, kind \notin Workloads, ResourceChanges, UNCHANGED apiVars PROVE IInv'
<1> USE DEF IInv
<1>0. /\ UNCHANGED <<settings, cancelled, poolVars, rsSeen, unanswered, discovering, path, podSetErr, planErr, apiVars>>
      /\ UNCHANGED <<byAge, active, noFlagger, asked, kind, cancelled>>
      /\ UNCHANGED <<loop, next, at, cand, picked, errs, rsSeen, unanswered, discovering, path, podSetErr, planErr>>
      /\ UNCHANGED <<served, servedOnce, absentOnce, pod, sets, was>>
  BY DEF Others, settings, poolVars, apiVars, workloadVars
<1>1. PICK o \in Objects : Counted(o) /\ (Aged(o) \/ Deleted(o) \/ Recreated(o))
  BY DEF ResourceChanges
<1>2. changes' \in 0 .. MaxChanges /\ disturbed' = disturbed \cup {o}
  BY <1>1, PlanPoolAssumption DEF Counted, TypeOK, PoolTypeOK
<1>3. OnlyObject(o)
  BY <1>0, <1>1, <1>2, FieldChanged, RecreatedType DEF OnlyObject
<1>4. TypeOK'
  <2>1. PoolTypeOK'
    BY <1>0, <1>2, <1>3 DEF TypeOK, PoolTypeOK, OnlyObject
  <2>2. WorkloadTypeOK'
    BY <1>0 DEF TypeOK, WorkloadTypeOK
  <2>3. CRTypeOK'
    BY <1>0 DEF TypeOK, CRTypeOK
  <2> QED BY <2>1, <2>2, <2>3 DEF TypeOK
<1>5. Sound'
  BY <1>0 DEF Sound
<1> QED BY <1>3, <1>4, <1>5, ObjectChanges

\* Nothing of the objects, the goroutines or the answers changes.
LEMMA UpgradedStep == ASSUME IInv, Others, kind \notin Workloads, Upgraded, UNCHANGED workloadVars PROVE IInv'
<1> USE DEF IInv
<1>0. /\ UNCHANGED <<byAge, active, noFlagger, asked, kind, cancelled>>
      /\ UNCHANGED <<loop, next, at, cand, picked, errs, rsSeen, unanswered, discovering, path, podSetErr, planErr>>
      /\ UNCHANGED <<pod, sets, was, object, disturbed>>
  BY DEF Others, Upgraded, settings, poolVars, apiVars, workloadVars
<1>1. PICK g \in GroupsOf(kind), offer \in SUBSET Versions :
        /\ changes < MaxChanges
        /\ changes' = changes + 1
        /\ served' = [served EXCEPT ![g] = offer]
        /\ servedOnce' = [servedOnce EXCEPT ![g] = servedOnce[g] \cup offer]
        /\ absentOnce' = IF offer = {} THEN absentOnce \cup {g} ELSE absentOnce
  BY DEF Upgraded
<1>2. g \in Groups
  BY DEF GroupsOf, Groups
<1>3. /\ served' \in [GroupsOf(kind) -> SUBSET Versions]
      /\ servedOnce' \in [GroupsOf(kind) -> SUBSET Versions]
      /\ \A h \in GroupsOf(kind) : servedOnce[h] \subseteq servedOnce'[h]
      /\ \A h \in GroupsOf(kind) : served'[h] \subseteq servedOnce'[h] /\ (served'[h] = {} => h \in absentOnce')
      /\ absentOnce \subseteq absentOnce' /\ absentOnce' \subseteq Groups
  BY <1>1, <1>2 DEF TypeOK, CRTypeOK, Discovered
<1>4. TypeOK'
  <2>1. PoolTypeOK'
    BY <1>0, <1>1, PlanPoolAssumption DEF TypeOK, PoolTypeOK
  <2>2. WorkloadTypeOK'
    BY <1>0 DEF TypeOK, WorkloadTypeOK
  <2>3. CRTypeOK'
    BY <1>0, <1>3 DEF TypeOK, CRTypeOK
  <2> QED BY <2>1, <2>2, <2>3 DEF TypeOK
<1>5. Sound' /\ Canaries' /\ Undisturbed' /\ Kept'
  BY <1>0 DEF Sound, TraitsNow, Canaries, LeftToPrimary, isFlaggerPrimary, Undisturbed, Kept, Wanted, Followed,
              Instance, OldEnough, Satisfies
<1>6. Visits'
  BY <1>0, <1>3 DEF Visits, Busy, Installed
<1>7. Discovered'
  <2>1. kind = "Kafka" => \A h \in {"kafka", "podSet"} : servedOnce[h] \subseteq servedOnce'[h]
    BY <1>3 DEF GroupsOf
  <2> QED BY <1>0, <1>3, <2>1 DEF Discovered, Plan
<1> QED BY <1>4, <1>5, <1>6, <1>7

\* A cancellation, and a step of nobody.
LEMMA QuietStep ==
  ASSUME IInv, cancelled' \in BOOLEAN,
         UNCHANGED <<worldVars, settings, poolVars, rsSeen, unanswered, discovering, path, podSetErr, planErr>>
  PROVE  IInv'
<1> USE DEF IInv
<1>0. /\ UNCHANGED <<byAge, active, noFlagger, asked, kind>>
      /\ UNCHANGED <<loop, next, at, cand, picked, errs, rsSeen, unanswered, discovering, path, podSetErr, planErr>>
      /\ UNCHANGED <<object, changes, disturbed, pod, sets, was, served, servedOnce, absentOnce>>
  BY DEF settings, poolVars, worldVars, objectVars, workloadVars, apiVars
<1>1. TypeOK'
  <2>1. PoolTypeOK'
    BY <1>0 DEF TypeOK, PoolTypeOK
  <2>2. WorkloadTypeOK'
    BY <1>0 DEF TypeOK, WorkloadTypeOK
  <2>3. CRTypeOK'
    BY <1>0 DEF TypeOK, CRTypeOK
  <2> QED BY <2>1, <2>2, <2>3 DEF TypeOK
<1>2. Sound' /\ Canaries' /\ Undisturbed' /\ Kept'
  BY <1>0 DEF Sound, TraitsNow, Canaries, LeftToPrimary, isFlaggerPrimary, Undisturbed, Kept, Wanted, Followed,
              Instance, OldEnough, Satisfies
<1>3. Visits' /\ Discovered'
  BY <1>0 DEF Visits, Busy, Installed, Discovered, Plan
<1> QED BY <1>1, <1>2, <1>3

LEMMA NextIInv == IInv /\ [Next]_vars => IInv'
<1> SUFFICES ASSUME IInv, [Next]_vars PROVE IInv'
  OBVIOUS
<1>1. CASE PlanStep
  BY <1>1, PlanStepInv
<1>2. CASE Others
  BY <1>2, WorkloadStep, ResourceStep, UpgradedStep DEF Others
<1>3. CASE Interrupt
  BY <1>3, QuietStep DEF Interrupt, Cancel
<1>4. CASE UNCHANGED vars
  <2>1. cancelled \in BOOLEAN
    BY DEF IInv, TypeOK, PoolTypeOK
  <2> QED BY <1>4, <2>1, QuietStep DEF vars
<1> QED BY <1>1, <1>2, <1>3, <1>4 DEF Next

------------------------------------------------------------------------------
(* Why a plan has an error of its own.                                     *)

\* The discovery of g failed, or found a version that may not be used.
Unresolved(g) == g \in unanswered \/ \E v \in servedOnce[g] : ~ Usable(g, v)

Blame == \E g \in GroupsOf(kind) : Unresolved(g) \/ (g = "podSet" /\ g \in absentOnce /\ Plan # {})

Causes ==
  /\ podSetErr # "nil" => kind = "Kafka"
  /\ podSetErr = "missing" => "podSet" \in absentOnce
  /\ podSetErr = "error" => Unresolved("podSet")
  /\ planErr => loop = "joined" /\ Blame

\* A version is refused only if one is served that may not be used.
LEMMA Refused ==
  ASSUME NEW offer \in SUBSET Versions, NEW version, version \notin {"none", "error"},
         ResolveAPIGroupVersion(offer, version) = "error"
  PROVE  \E v \in offer : v # version /\ (version = "auto" => \A i \in DOMAIN Preferred : v # Preferred[i])
<1>0. "error" \notin Versions /\ "auto" \notin Versions
  BY VersionAssumption
<1>1. offer # {}
  BY DEF ResolveAPIGroupVersion
<1>2. CASE version # "auto"
  <2>1. version \notin offer
    BY <1>1, <1>2 DEF ResolveAPIGroupVersion
  <2> QED BY <1>1, <1>2, <2>1
<1>3. CASE version = "auto"
  <2>1. ASSUME NEW i \in DOMAIN Preferred, Preferred[i] \in offer PROVE FALSE
    <3> DEFINE First(j) == /\ Preferred[j] \in offer
                           /\ \A k \in 1 .. (j - 1) : Preferred[k] \notin offer
               n == CHOOSE j \in DOMAIN Preferred : First(j)
    <3>1. n \in DOMAIN Preferred /\ First(n)
      <4>1. \E j \in DOMAIN Preferred : First(j)
        BY <2>1, FirstPreferred
      <4> HIDE DEF First
      <4> QED BY <4>1
    <3>2. Preferred[n] = "error"
      BY <1>1, <1>3, <2>1 DEF ResolveAPIGroupVersion
    <3> HIDE DEF n
    <3> QED BY <1>0, <3>1, <3>2
  <2> QED BY <1>0, <1>1, <1>3, <2>1
<1> QED BY <1>2, <1>3

LEMMA FailedDiscovery ==
  ASSUME IInv, NEW g \in GroupsOf(kind), NEW version, version \notin {"none", "error"},
         Answered(g, version, "error")
  PROVE  \/ g \in unanswered'
         \/ \E v \in servedOnce[g] :
              v # version /\ (version = "auto" => \A i \in DOMAIN Preferred : v # Preferred[i])
<1>1. served[g] \in SUBSET Versions /\ served[g] \subseteq servedOnce[g]
  BY KnownAPIs DEF IInv, Discovered
<1>2. CASE ResolveAPIGroupVersion(served[g], version) = "error"
  <2>1. \E v \in served[g] : v # version /\ (version = "auto" => \A i \in DOMAIN Preferred : v # Preferred[i])
    BY <1>1, <1>2, Refused
  <2> QED BY <1>1, <2>1
<1>3. CASE ResolveAPIGroupVersion(served[g], version) # "error"
  BY <1>3 DEF Answered
<1> QED BY <1>2, <1>3

LEMMA DiscoverCauses == ASSUME IInv, Causes, Discover PROVE Causes'
<1> USE DiscoverFrame, DiscoverAnswers
<1>0. /\ TypeOK /\ loop = "before" /\ ~ planErr
      /\ \A g \in {"kafka", "podSet"} : asked[g] \notin {"none", "error"}
  BY KnownAPIs DEF IInv, Causes, Discovered, Discover, ResolveKafka, ResolvePodSet, ResolvePostgresql
<1>m. \A g : Unresolved(g) => Unresolved(g)'
  BY <1>0 DEF Unresolved, Usable
<1>1. CASE ResolveKafka
  <2>1. kind = "Kafka" /\ "kafka" \in GroupsOf(kind)
    BY <1>1 DEF IInv, Discovered, ResolveKafka, GroupsOf
  <2>2. ASSUME planErr' PROVE loop' = "joined" /\ Answered("kafka", asked["kafka"], "error")
    BY <1>0, <1>1, <2>2 DEF ResolveKafka
  <2>3. ASSUME planErr' PROVE Unresolved("kafka")'
    BY <1>0, <2>1, <2>2, <2>3, FailedDiscovery DEF Unresolved, Usable
  <2>4. podSetErr' = podSetErr
    BY <1>1 DEF ResolveKafka
  <2> QED BY <1>m, <2>1, <2>2, <2>3, <2>4 DEF Causes, Blame
<1>2. CASE ResolvePodSet
  <2>1. kind = "Kafka" /\ "podSet" \in GroupsOf(kind) /\ planErr' = planErr
    BY <1>2 DEF IInv, Discovered, ResolvePodSet, GroupsOf
  <2>2. PICK answer \in Answers("podSet", asked["podSet"]) :
          /\ Answered("podSet", asked["podSet"], answer)
          /\ podSetErr' = CASE answer = "none"  -> "missing"
                            [] answer = "error" -> "error"
                            [] OTHER            -> "nil"
    BY <1>2 DEF ResolvePodSet
  <2>3. podSetErr' = "missing" => "podSet" \in absentOnce
    <3>1. answer = "none" => served["podSet"] = {}
      BY <1>0, <2>1, KnownAPIs, Resolved DEF Answers
    <3> QED BY <2>1, <2>2, <3>1, KnownAPIs
  <2>4. ASSUME podSetErr' = "error" PROVE Unresolved("podSet")'
    <3>1. answer = "error"
      BY <2>2, <2>4
    <3> QED BY <1>0, <2>1, <2>2, <3>1, FailedDiscovery DEF Unresolved, Usable
  <2> QED BY <1>0, <2>1, <2>3, <2>4 DEF Causes
<1>3. CASE ResolvePostgresql
  <2>1. kind = "PostgreSQL" /\ "postgresql" \in GroupsOf(kind)
    BY <1>3 DEF IInv, Discovered, ResolvePostgresql, GroupsOf
  <2>2. ASSUME planErr' PROVE loop' = "joined" /\ Answered("postgresql", "v1", "error")
    BY <1>0, <1>3, <2>2 DEF ResolvePostgresql
  <2>3. ASSUME planErr' PROVE Unresolved("postgresql")'
    BY <2>1, <2>2, <2>3, FailedDiscovery DEF Unresolved, Usable
  <2>4. podSetErr' = podSetErr
    BY <1>3 DEF ResolvePostgresql
  <2> QED BY <1>m, <2>1, <2>2, <2>3, <2>4 DEF Causes, Blame
<1> QED BY <1>1, <1>2, <1>3 DEF Discover

\* The plan is only complete, and its error only known, when it is joined.
LEMMA JoinsCauses == ASSUME IInv, Causes, Joins PROVE Causes'
<1>0. /\ UNCHANGED <<kind, asked, servedOnce, absentOnce, unanswered, podSetErr, picked>>
      /\ loop = "wait" /\ loop' = "joined"
      /\ planErr' = IF kind = "Kafka" THEN PodSetProblem ELSE planErr
  BY DEF Joins, JoinKafka, Join, Unmoved, worldVars, apiVars, settings
<1>1. Plan' = Plan /\ \A g : Unresolved(g)' = Unresolved(g)
  BY <1>0 DEF Plan, Unresolved, Usable
<1>2. ASSUME planErr' PROVE Blame'
  <2>1. kind = "Kafka" /\ PodSetProblem
    BY <1>0, <1>2 DEF Causes
  <2>2. "podSet" \in GroupsOf(kind)
    BY <2>1 DEF GroupsOf
  <2>3. Unresolved("podSet") \/ ("podSet" \in absentOnce /\ Plan # {})
    BY <2>1 DEF Causes, PodSetProblem
  <2> QED BY <1>0, <1>1, <2>2, <2>3 DEF Blame
<1> QED BY <1>0, <1>1, <1>2 DEF Causes

LEMMA NextCauses == IInv /\ Causes /\ [Next]_vars => Causes'
<1> SUFFICES ASSUME IInv, Causes, [Next]_vars PROVE Causes'
  OBVIOUS
<1>1. CASE Discover
  BY <1>1, DiscoverCauses
<1>2. CASE Joins
  BY <1>2, JoinsCauses
<1>3. CASE Pool \/ Fails \/ Select
  <2>1. /\ UNCHANGED <<kind, asked, servedOnce, absentOnce, unanswered, podSetErr, planErr>>
    BY <1>3 DEF Pool, Fails, Select, Unmoved, NoDiscovery, worldVars, apiVars, settings
  <2>2. loop # "joined"
    <3>1. CASE Pool
      BY <3>1 DEF Pool, LaunchNamespace, LoopEnds, CheckContext, Goes, IInv, Visits, Busy
    <3>2. CASE Fails
      BY <3>2 DEF Fails, SelectionFails, Goes, IInv, Visits, Busy
    <3>3. CASE Select
      <4>1. \E i \in Indexes : at[i] \notin {"idle", "done"}
        BY <3>3 DEF Select, DeploymentStep, ListDeployments, ListDeploymentPods, ListReplicaSets, StatefulSetStep,
                    ListStatefulSets, ListStatefulSetPods, ListCRs, Goes
      <4> QED BY <4>1 DEF IInv, Visits, Busy
    <3> QED BY <1>3, <3>1, <3>2, <3>3
  <2> QED BY <2>1, <2>2 DEF Causes, Unresolved, Usable
<1>4. CASE Others
  <2>1. UNCHANGED <<kind, asked, unanswered, podSetErr, planErr, loop, picked>>
    BY <1>4 DEF Others, settings, poolVars
  <2>2. /\ absentOnce \subseteq absentOnce'
        /\ \A g \in GroupsOf(kind) : servedOnce[g] \subseteq servedOnce'[g]
    BY <1>4 DEF Others, Upgraded, apiVars, IInv, TypeOK, CRTypeOK
  <2>3. \A g \in GroupsOf(kind) : Unresolved(g) => Unresolved(g)'
    BY <2>1, <2>2 DEF Unresolved, Usable
  <2>4. kind = "Kafka" => "podSet" \in GroupsOf(kind)
    BY DEF GroupsOf
  <2>5. Plan' = Plan
    BY <2>1 DEF Plan
  <2> QED BY <2>1, <2>2, <2>3, <2>4, <2>5 DEF Causes, Blame
<1>5. CASE Interrupt \/ UNCHANGED vars
  <2>1. UNCHANGED <<kind, asked, servedOnce, absentOnce, unanswered, podSetErr, planErr, loop, picked>>
    BY <1>5 DEF Interrupt, vars, worldVars, apiVars, settings, poolVars
  <2> QED BY <2>1 DEF Causes, Blame, Unresolved, Usable, Plan
<1> QED BY <1>1, <1>2, <1>3, <1>4, <1>5 DEF Next, PlanStep

------------------------------------------------------------------------------
(* The theorems.                                                           *)

\* The invariant holds in every state of the planning of a resource type.
THEOREM PlanIInv == Spec => []IInv
BY InitIInv, NextIInv, PTL DEF Spec

\* Every variable of the planning keeps its type (selectAll, selectCRTargets).
THEOREM PlanTypeOK == Spec => []TypeOK
<1>1. IInv => TypeOK
  BY DEF IInv
<1> QED BY <1>1, PlanIInv, PTL

\* What is planned was eligible and, with pod filters, controlled a pod that
\* satisfies all of them (deploymentsWithMatchingPods, statefulSetsWithMatchingPods).
THEOREM PlanPlannedMatched == Spec => []PlannedMatched
<1>1. IInv => PlannedMatched
  BY DEF IInv, Sound, PlannedMatched, Plan
<1> QED BY <1>1, PlanIInv, PTL

\* What the options ask for and nobody disturbed is planned, or there is an error
\* for its namespace or for the plan (forEachBounded, selectAll, selectCRTargets).
THEOREM PlanNothingLost == Spec => []NothingLost
<1>1. IInv => NothingLost
  <2> SUFFICES ASSUME IInv, Planned, Installed, ~ planErr, NEW i \in Indexes \ errs, NEW o \in Objects \ disturbed,
                      NamespaceOf[o] = Namespaces[i], Wanted(o)
               PROVE  Instance(o) \in Plan
    BY DEF NothingLost
  <2>1. at[i] = "done"
    BY DEF IInv, Visits, Planned
  <2>2. Instance(o) \in picked[i]
    BY <2>1 DEF IInv, Kept, Followed
  <2> QED BY <2>2 DEF Plan
<1> QED BY <1>1, PlanIInv, PTL

\* The target of a canary is left alone as long as its primary is there
\* (selectDeployments).
THEOREM PlanCanaryIsLeftAlone == Spec => []CanaryIsLeftAlone
<1>1. IInv => CanaryIsLeftAlone
  BY DEF IInv, Canaries, CanaryIsLeftAlone, LeftToPrimary, Plan
<1> QED BY <1>1, PlanIInv, PTL

\* A Kafka plan with targets and without an error has both APIs, in versions that
\* were served (PlanKafkaClusters, ResolveAPIGroupVersion).
THEOREM PlanPlanUsable == Spec => []PlanUsable
<1>1. IInv => PlanUsable
  BY DEF IInv, Discovered, PlanUsable, Planned
<1> QED BY <1>1, PlanIInv, PTL

\* An installation without the operators, or without a cluster of theirs, does
\* not fail: a plan has an error of its own only after a discovery that failed, a
\* version that may not be used, or a StrimziPodSet API that was missing while
\* there are clusters to restart (PlanKafkaClusters, ResolveAPIGroupVersion).
THEOREM PlanMissingIsHarmless == Spec => []MissingIsHarmless
<1>1. Init => Causes
  BY DEF Init, PoolInit, CRInit, Causes
<1>2. Causes => MissingIsHarmless
  BY DEF Causes, Blame, Unresolved, MissingIsHarmless
<1> QED BY <1>1, <1>2, NextCauses, PlanIInv, PTL DEF Spec

===============================================================================
