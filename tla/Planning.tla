------------------------------ MODULE Planning ------------------------------
(***************************************************************************)
(* The plan of one resource type, of any of the four (planPhases in         *)
(* cmd/root.go makes one after another): PlanDeployments, PlanStatefulSets, *)
(* PlanKafkaClusters or PlanPostgresqlClusters.                             *)
(***************************************************************************)
EXTENDS WorkloadSelection, CRSelection

worldVars == <<objectVars, workloadVars, apiVars>>
settings == <<byAge, active, noFlagger, asked, kind>>
vars == <<worldVars, settings, cancelled, poolVars, rsSeen, unanswered, discovering, path, podSetErr, planErr>>

TypeOK == PoolTypeOK /\ WorkloadTypeOK /\ CRTypeOK

Init == PoolInit /\ WorkloadInit /\ CRInit

------------------------------------------------------------------------------

Unmoved == UNCHANGED <<worldVars, settings, cancelled>>
NoDiscovery == UNCHANGED <<unanswered, discovering, path, podSetErr, planErr>>

Discover == (ResolveKafka \/ ResolvePodSet \/ ResolvePostgresql) /\ Unmoved /\ UNCHANGED rsSeen

Pool ==
  /\ LaunchNamespace \/ LoopEnds \/ \E i \in Indexes : CheckContext(i)
  /\ Unmoved /\ NoDiscovery /\ UNCHANGED rsSeen

Fails ==
  /\ \E i \in Indexes : SelectionFails(i) /\ rsSeen' = [rsSeen EXCEPT ![i] = {}]
  /\ Unmoved /\ NoDiscovery

Select ==
  /\ \E i \in Indexes :
       \/ kind = "Deployment" /\ DeploymentStep(i)
       \/ kind = "StatefulSet" /\ StatefulSetStep(i)
       \/ kind = "Kafka" /\ ListCRs(i, "kafka") /\ UNCHANGED rsSeen
       \/ kind = "PostgreSQL" /\ ListCRs(i, "postgresql") /\ UNCHANGED rsSeen
  /\ Unmoved /\ NoDiscovery

Joins ==
  /\ IF kind = "Kafka" THEN JoinKafka ELSE (Join /\ UNCHANGED planErr)
  /\ Unmoved /\ UNCHANGED <<rsSeen, unanswered, discovering, path, podSetErr>>

PlanStep == Discover \/ Pool \/ Fails \/ Select \/ Joins

Others ==
  /\ UNCHANGED <<settings, cancelled, poolVars, rsSeen, unanswered, discovering, path, podSetErr, planErr>>
  /\ \/ kind \in Workloads /\ WorkloadChanges /\ UNCHANGED apiVars
     \/ kind \notin Workloads /\ ResourceChanges /\ UNCHANGED <<workloadVars, apiVars>>
     \/ kind \notin Workloads /\ Upgraded /\ UNCHANGED workloadVars

Interrupt == Cancel /\ UNCHANGED <<worldVars, settings, poolVars, rsSeen, unanswered, discovering, path, podSetErr, planErr>>

Next == PlanStep \/ Others \/ Interrupt

Spec == Init /\ [][Next]_vars

------------------------------------------------------------------------------
(* Properties.                                                             *)

Planned == loop = "joined"

\* An instance is planned only if it was old enough and open to a restart and,
\* with pod filters, controlled a pod that satisfies all of them, at some moment:
\* never for a pod of another workload, nor of its predecessor or successor of
\* the same name (deploymentsWithMatchingPods, statefulSetsWithMatchingPods).
PlannedMatched ==
  Planned /\ kind \in Workloads =>
    \A c \in Plan : <<c, "eligible">> \in was /\ (active # {} => <<c, "matched">> \in was)

\* What this type restarts among the objects as they are.
Wanted(o) ==
  /\ object[o].exists /\ OldEnough(o)
  /\ kind \in Workloads => ~ object[o].blocked /\ (active # {} => Satisfies(pod[o]))
  /\ kind = "StatefulSet" => ~ object[o].managed
  /\ kind = "Deployment" =>
       \/ noFlagger
       \/ isFlaggerPrimary(o)
       \/ PrimaryOf[o] = "none"
       \/ PrimaryOf[o] \notin disturbed /\ ~ isFlaggerPrimary(PrimaryOf[o])

\* The API group of a custom resource was there all the time.
Installed == \/ kind \in Workloads
             \/ kind = "Kafka" /\ "kafka" \notin absentOnce
             \/ kind = "PostgreSQL" /\ "postgresql" \notin absentOnce

\* A plan leaves nothing out in silence: an object that nobody disturbed and that
\* the options ask for is planned, or its namespace, or the whole plan, has an
\* error; a failed list, an interruption and an API that cannot be resolved are
\* not taken for an empty namespace (selectAll, selectCRTargets).
NothingLost ==
  Planned /\ Installed /\ ~ planErr =>
    \A i \in Indexes \ errs :
      \A o \in Objects \ disturbed :
        NamespaceOf[o] = Namespaces[i] /\ Wanted(o) => Instance(o) \in Plan

\* The target of a canary is left alone as long as its primary is there, even when
\* the primary itself is filtered out (selectDeployments: "so filtering out a
\* primary never causes its canary target to be restarted instead").
CanaryIsLeftAlone ==
  Planned /\ kind = "Deployment" /\ ~ noFlagger =>
    \A o \in Objects :
      /\ PrimaryOf[o] \in Objects \ disturbed
      /\ object[PrimaryOf[o]].managed
      => ~ \E c \in Plan : c[1] = o /\ ~ isFlaggerPrimary(o)

\* A Kafka plan without an error and with targets has both APIs that the restart
\* uses, each in a version that was served and is supported or was asked for: the
\* restart does not begin what it cannot carry out (PlanKafkaClusters).
PlanUsable ==
  Planned /\ kind = "Kafka" /\ Plan # {} /\ ~ planErr =>
    \A g \in {"kafka", "podSet"} :
      /\ path[g] \in servedOnce[g]
      /\ \/ path[g] = asked[g]
         \/ asked[g] = "auto" /\ \E i \in DOMAIN Preferred : path[g] = Preferred[i]

\* A version of a group that a plan may use.
Usable(g, v) ==
  IF g = "postgresql" THEN v = "v1"
  ELSE v = asked[g] \/ (asked[g] = "auto" /\ \E i \in DOMAIN Preferred : v = Preferred[i])

\* An installation without the operators, or without a cluster of theirs, does not
\* fail: a plan has an error of its own only after a discovery that was not
\* answered, a version that may not be used, or a StrimziPodSet API that was
\* missing while there are clusters to restart (PlanKafkaClusters: "simply not
\* installed is an error only when there is a cluster to restart").
MissingIsHarmless ==
  Planned /\ planErr =>
    \E g \in GroupsOf(kind) :
      \/ g \in unanswered
      \/ \E v \in servedOnce[g] : ~ Usable(g, v)
      \/ g = "podSet" /\ g \in absentOnce /\ Plan # {}
=============================================================================
