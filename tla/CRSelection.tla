---------------------------- MODULE CRSelection ----------------------------
(***************************************************************************)
(* PlanKafkaClusters and PlanPostgresqlClusters (pkg/operations/kafka.go,  *)
(* postgresql.go): the version of the operator's API is discovered before  *)
(* the custom resources of the namespaces are listed with it.  Meanwhile   *)
(* the operator may be installed, upgraded or removed.                     *)
(***************************************************************************)
EXTENDS PlanPool

CONSTANTS Versions,    \* versions that an API group may serve
          Preferred,   \* strimziSupportedVersions, in order of preference
          Requested    \* versions that a flag may ask for

ASSUME VersionAssumption == /\ Preferred \in Seq(STRING)
                            /\ (Versions \cup Requested) \cap {"auto", "none", "error"} = {}

Groups == {"kafka", "podSet", "postgresql"}

VARIABLES
  served,      \* the versions each API group serves, none when it is not installed
  servedOnce,  \* history: the versions it served at one time or another
  absentOnce,  \* history: the groups that were not installed at a time
  unanswered,  \* history: the groups whose discovery request failed
  asked,       \* the versions given by --strimzi-kafka-api and --strimzi-podset-api, or "auto"
  discovering, \* the group to be resolved, or "none"
  path,        \* the version each group was resolved to, or "none"
  podSetErr,   \* strimziAPIs.podSetErr: "nil", "missing" (podSetMissing) or "error"
  planErr      \* an error of the plan that is not of one namespace

\* The groups that are looked for.
GroupsOf(k) == CASE k = "Kafka"      -> {"kafka", "podSet"}
                 [] k = "PostgreSQL" -> {"postgresql"}
                 [] OTHER            -> {}

Automatic == [g \in {"kafka", "podSet"} |-> "auto"]

apiVars == <<served, servedOnce, absentOnce>>
discoveryVars == <<asked, unanswered, discovering, path, podSetErr, planErr>>

CRTypeOK ==
  /\ served \in [GroupsOf(kind) -> SUBSET Versions]
  /\ servedOnce \in [GroupsOf(kind) -> SUBSET Versions]
  /\ absentOnce \subseteq Groups /\ unanswered \subseteq Groups
  /\ asked \in [{"kafka", "podSet"} -> Requested \cup {"auto"}]
  /\ discovering \in Groups \cup {"none"}
  /\ path \in [Groups -> Versions \cup {"none"}]
  /\ podSetErr \in {"nil", "missing", "error"}
  /\ planErr \in BOOLEAN

CRInit ==
  /\ served \in [GroupsOf(kind) -> SUBSET Versions]
  /\ servedOnce = served
  /\ absentOnce = {g \in GroupsOf(kind) : served[g] = {}}
  /\ unanswered = {}
  /\ asked \in IF kind = "Kafka" THEN [GroupsOf(kind) -> Requested \cup {"auto"}] ELSE {Automatic}
  /\ discovering = CASE kind = "Kafka" -> "kafka" [] kind = "PostgreSQL" -> "postgresql" [] OTHER -> "none"
  /\ path = [g \in Groups |-> "none"]
  /\ podSetErr = "nil"
  /\ planErr = FALSE

------------------------------------------------------------------------------
(* Discovery.                                                              *)

\* The version to use of those served, "none" when the group is not installed,
\* "error" when what is asked for, or all of what is supported, is not served.
ResolveAPIGroupVersion(offer, version) ==
  IF offer = {} THEN "none"
  ELSE IF version # "auto" THEN IF version \in offer THEN version ELSE "error"
  ELSE IF \A i \in DOMAIN Preferred : Preferred[i] \notin offer THEN "error"
  ELSE Preferred[CHOOSE i \in DOMAIN Preferred : /\ Preferred[i] \in offer
                                                 /\ \A j \in 1 .. (i - 1) : Preferred[j] \notin offer]

\* The answer of a discovery, or its failure.
Answers(group, version) == {ResolveAPIGroupVersion(served[group], version), "error"}

Answered(group, version, answer) ==
  unanswered' = IF answer = ResolveAPIGroupVersion(served[group], version)
                  THEN unanswered ELSE unanswered \cup {group}

\* A Kafka API that is missing ends the planning without a target, a discovery
\* that fails ends it with an error.
ResolveKafka ==
  /\ discovering = "kafka"
  /\ \E answer \in Answers("kafka", asked["kafka"]) :
       /\ Answered("kafka", asked["kafka"], answer)
       /\ IF answer \in {"none", "error"}
            THEN /\ discovering' = "none"
                 /\ loop' = "joined"
                 /\ planErr' = (answer = "error")
                 /\ UNCHANGED path
            ELSE /\ discovering' = "podSet"
                 /\ path' = [path EXCEPT !["kafka"] = answer]
                 /\ UNCHANGED <<loop, planErr>>
  /\ UNCHANGED <<podSetErr, next, at, cand, picked, errs>>

\* The error is kept until it is known whether there is a cluster to restart.
ResolvePodSet ==
  /\ discovering = "podSet"
  /\ \E answer \in Answers("podSet", asked["podSet"]) :
       /\ Answered("podSet", asked["podSet"], answer)
       /\ podSetErr' = CASE answer = "none"  -> "missing"
                         [] answer = "error" -> "error"
                         [] OTHER            -> "nil"
       /\ path' = IF answer \in Versions THEN [path EXCEPT !["podSet"] = answer] ELSE path
  /\ discovering' = "none"
  /\ loop' = "loop"
  /\ UNCHANGED <<planErr, next, at, cand, picked, errs>>

\* The PostgreSQL operator serves one version, v1.
ResolvePostgresql ==
  /\ discovering = "postgresql"
  /\ \E answer \in Answers("postgresql", "v1") :
       /\ Answered("postgresql", "v1", answer)
       /\ IF answer \in {"none", "error"}
            THEN loop' = "joined" /\ planErr' = (answer = "error") /\ UNCHANGED path
            ELSE loop' = "loop" /\ path' = [path EXCEPT !["postgresql"] = answer] /\ UNCHANGED planErr
  /\ discovering' = "none"
  /\ UNCHANGED <<podSetErr, next, at, cand, picked, errs>>

------------------------------------------------------------------------------
(* Selection and join.                                                     *)

\* The custom resources of a namespace, by age; without the version in the path
\* the list fails (SelectionFails).
ListCRs(i, group) ==
  /\ path[group] \in served[group]
  /\ Goes(i, "list", "done")
  /\ Selected(i, {Instance(o) : o \in {q \in Here(i) : OldEnough(q)}})

Slip_PodSetProblem == podSetErr = "error"   \* a missing API is harmless, always
Slip_MissingCounts == podSetErr # "nil"     \* it never is

\* A StrimziPodSet API that is not installed is no error as long as there is no
\* cluster to restart; one that cannot be resolved always is.
PodSetProblem == podSetErr = "error" \/ (podSetErr = "missing" /\ Plan # {})

JoinKafka == Join /\ planErr' = PodSetProblem

------------------------------------------------------------------------------
(* What others do.                                                         *)

Upgraded ==
  \E g \in GroupsOf(kind), offer \in SUBSET Versions :
    /\ loop \in {"before", "loop"}
    /\ changes < MaxChanges
    /\ changes' = changes + 1
    /\ offer # served[g]
    /\ served' = [served EXCEPT ![g] = offer]
    /\ servedOnce' = [servedOnce EXCEPT ![g] = @ \cup offer]
    /\ absentOnce' = IF offer = {} THEN absentOnce \cup {g} ELSE absentOnce
    /\ UNCHANGED <<object, disturbed>>

ResourceChanges ==
  \E o \in Objects : Counted(o) /\ (Aged(o) \/ Deleted(o) \/ Recreated(o))
=============================================================================
