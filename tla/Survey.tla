------------------------------- MODULE Survey -------------------------------
(***************************************************************************)
(* What a run reads of the cluster and tells its user: the cordon plan and, *)
(* after the cordon (module Cordon) and the restarts, the final report of   *)
(* runMaintenance (cmd/root.go); or the report alone, at the beginning of   *)
(* a run.  The cluster changes all the time.                               *)
(***************************************************************************)
EXTENDS CordonPlan, Reporter

vars == <<clusterVars, planVars, reportVars>>

TypeOK == ClusterTypeOK /\ PlanTypeOK /\ ReportTypeOK

Init == ClusterInit /\ PlanInit /\ ReportInit

Planning == PlanNext /\ UNCHANGED reportVars

ToReport(claimed) ==
  /\ cordoned' = claimed
  /\ PlanOver
  /\ BeginSurvey
  /\ UNCHANGED <<realVars, reportAt, nodesSeen, job, worker, index, results, expired, report>>

\* The initial report, or the final one of a run without --cordon: no node has
\* been planned.
NotCordoned == planAt = "nodes" /\ ToReport({})

\* CordonNodes has left the nodes planned cordoned, some by others, and the restarts
\* were successful.  The final report begins.
Cordoned == planAt = "done" /\ \E claimed \in SUBSET planned : ToReport(claimed)

\* The cordon or a restart failed: the run ends without a report, as it does
\* when the plan fails.
RunFails ==
  /\ planAt = "done"
  /\ planAt' = "failed"
  /\ UNCHANGED <<clusterVars, cordonAll, namespace, listed, podsSeen, nodePods, planned, warned,
                 incomplete, unchecked, reportVars>>

Reporting == planAt = "over" /\ ReportStep /\ UNCHANGED planVars

Expiring == planAt = "over" /\ Expire /\ UNCHANGED planVars

\* What happens once a plan or the report is made does not change it.
OthersAct ==
  /\ planAt \notin {"done", "failed"}
  /\ reportAt \notin {"done", "failed"}
  /\ ClusterChanges
  /\ UNCHANGED <<planVars, reportVars>>

Goes == NotCordoned \/ Cordoned \/ RunFails

Next == Planning \/ Goes \/ Reporting \/ Expiring \/ OthersAct

Spec == Init /\ [][Next]_vars
=============================================================================
