---------------------------- MODULE ReadingProofs ----------------------------
(***************************************************************************)
(* What the tool reads of the cluster can be relied on: the cordon plan    *)
(* and the report (Survey), for every cluster, every filter, every number  *)
(* of workers and all changes by others; and what the cache answers        *)
(* (ResourceCache), for every number of callers and names, every lifetime  *)
(* and every duration of a Get.                                            *)
(***************************************************************************)
EXTENDS Survey, ResourceCache, WellFoundedInduction, TLAPS

\* The histories since the survey at hand began hold what there is now, and a
\* node that is not there is one that was missing.
Recorded ==
  /\ \A p \in Pods : place[p] \in places[p]
  /\ \A n \in exists : labels[n] \in labelled[n]
  /\ Nodes \ exists \subseteq left

\* What the plan has read was so when it was read.
Read ==
  /\ \A e \in listed : e[2] \in labelled[e[1]]
  /\ \A s \in podsSeen : s[1] \in TargetPods /\ s[2] \in places[s[1]]

\* What did not change meanwhile was read as it is.
NothingSkipped ==
  /\ planAt \in {"pods", "allPods", "volumes", "done"} =>
       \A n \in Nodes : Remained(n) => \E set \in labelled[n] : <<n, set>> \in listed
  /\ \A i \in DOMAIN Namespaces, p \in Pods :
       i < namespace /\ NamespaceOf[p] = Namespaces[i] /\ place[p] \in Nodes /\ Stayed(p)
         => <<p, place[p]>> \in podsSeen

\* The selection is what the lists say; every pod that stayed on a selected node
\* has been looked at, and every pod looked at has been judged by its volume.
Decided ==
  /\ planAt \in {"allPods", "volumes", "done"} => namespace > Len(Namespaces) /\ planned = Selected
  /\ planAt \in {"nodes", "pods", "allPods"} => nodePods = {}
  /\ planAt \in {"volumes", "done"} /\ ~ incomplete =>
       \A p \in Pods : place[p] \in planned /\ Stayed(p) => <<p, place[p]>> \in nodePods
  /\ planAt = "done" /\ ~ unchecked =>
       \A s \in nodePods : isNodeLocalPV(VolumeOf[s[1]]) => s \in warned

\* The part of a namespace shows every pod that stayed, and the node it stayed on.
Covered(i) ==
  \A p \in Pods :
    NamespaceOf[p] = Namespaces[i] /\ Stayed(p) /\ place[p] # Deleted =>
      /\ p \in results[i].pods
      /\ place[p] \in Nodes => place[p] \in results[i].used

\* A namespace that was sent is still to be listed, has failed, or is covered;
\* the report waits for all of them.
Collected ==
  /\ planAt # "over" => reportAt = "nodes"
  /\ reportAt = "nodes" => job = 1
  /\ reportAt = "wait" => job > Len(Namespaces)
  /\ reportAt \in {"send", "wait", "done"} => \A n \in Nodes : Remained(n) => n \in nodesSeen
  /\ \A w \in Workers : worker[w] # "free" => index[w] \in Indexes
  /\ \A i \in Indexes : i < job =>
       \/ \E w \in Workers : worker[w] \in {"context", "pods"} /\ index[w] = i
       \/ results[i].err
       \/ Covered(i)

IInv == /\ TypeOK
        /\ Recorded
        /\ Read
        /\ NothingSkipped
        /\ Decided
        /\ Collected
        /\ ReportIsComplete

LEMMA NamespaceFacts == /\ Len(Namespaces) \in Nat
                        /\ DOMAIN Namespaces = 1 .. Len(Namespaces)
                        /\ Indexes = 1 .. Len(Namespaces)
BY ClusterAssumption DEF Indexes

LEMMA NothingRead == {} \in Sightings /\ 1 \in 1 .. (Len(Namespaces) + 1)
BY NamespaceFacts DEF Sightings

LEMMA InitIInv == Init => IInv
<1> SUFFICES ASSUME Init PROVE IInv
  OBVIOUS
<1> USE DEF Init
<1>1. ClusterTypeOK /\ Recorded
  BY ClusterAssumption DEF ClusterInit, ClusterTypeOK, Recorded, Places
<1>2. PlanTypeOK
  BY NothingRead DEF PlanInit, PlanTypeOK
<1>3. Read /\ NothingSkipped /\ Decided
  BY NamespaceFacts DEF PlanInit, Read, NothingSkipped, Decided
<1>4. ReportTypeOK
  <2>1. NoResult \in [pods : SUBSET Pods, used : SUBSET Nodes, err : BOOLEAN]
    BY DEF NoResult
  <2>2. NoReport \in [pods : SUBSET Pods, nodes : SUBSET Nodes, ours : SUBSET Nodes]
    BY DEF NoReport
  <2> QED BY <2>1, <2>2, NothingRead DEF ReportInit, ReportTypeOK
<1>5. Collected /\ ReportIsComplete
  BY NamespaceFacts DEF PlanInit, ReportInit, Collected, ReportIsComplete
<1> QED BY <1>1, <1>2, <1>3, <1>4, <1>5 DEF IInv, TypeOK

------------------------------------------------------------------------------
(* The plan.                                                               *)

\* A step of the plan leaves the cluster and the report alone.
LEMMA PlanFrame ==
  ASSUME IInv, UNCHANGED <<clusterVars, reportVars>>, planAt # "over"
  PROVE  ClusterTypeOK' /\ ReportTypeOK' /\ Recorded' /\ Collected' /\ ReportIsComplete'
<1> USE DEF clusterVars, realVars, historyVars, reportVars
<1>1. ClusterTypeOK' /\ ReportTypeOK'
  BY DEF IInv, TypeOK, ClusterTypeOK, ReportTypeOK
<1>2. Recorded'
  BY DEF IInv, Recorded
<1>3. Collected'
  BY DEF IInv, Collected, Covered, Stayed, Remained
<1>4. ReportIsComplete'
  BY DEF IInv, ReportIsComplete, Stayed, Remained
<1> QED BY <1>1, <1>2, <1>3, <1>4

LEMMA ListNodesStep == ASSUME IInv, ListNodes, UNCHANGED reportVars PROVE IInv'
<1> USE DEF ListNodes
<1>0. ClusterTypeOK' /\ ReportTypeOK' /\ Recorded' /\ Collected' /\ ReportIsComplete'
  BY PlanFrame
<1> USE DEF clusterVars, realVars, historyVars
<1>1. PlanTypeOK'
  BY DEF IInv, TypeOK, PlanTypeOK, ClusterTypeOK
<1>2. Read'
  BY DEF IInv, Read, Recorded
<1>3. NothingSkipped'
  BY DEF IInv, NothingSkipped, Remained, Stayed, Recorded
<1>4. Decided'
  BY DEF IInv, Decided
<1> QED BY <1>0, <1>1, <1>2, <1>3, <1>4 DEF IInv, TypeOK

LEMMA PlanFailsStep == ASSUME IInv, PlanFails, UNCHANGED reportVars PROVE IInv'
<1> USE DEF PlanFails
<1>0. ClusterTypeOK' /\ ReportTypeOK' /\ Recorded' /\ Collected' /\ ReportIsComplete'
  BY PlanFrame
<1> USE DEF clusterVars, realVars, historyVars
<1>1. PlanTypeOK'
  BY DEF IInv, TypeOK, PlanTypeOK
<1>2. Read'
  BY DEF IInv, Read
<1>3. NothingSkipped'
  BY DEF IInv, NothingSkipped, Stayed
<1>4. Decided'
  BY DEF IInv, Decided
<1> QED BY <1>0, <1>1, <1>2, <1>3, <1>4 DEF IInv, TypeOK

LEMMA ListPodsStep == ASSUME IInv, ListPods, UNCHANGED reportVars PROVE IInv'
<1> USE DEF ListPods
<1>0. ClusterTypeOK' /\ ReportTypeOK' /\ Recorded' /\ Collected' /\ ReportIsComplete'
  BY PlanFrame
<1> USE DEF clusterVars, realVars, historyVars
<1>1. PlanTypeOK'
  BY NamespaceFacts DEF IInv, TypeOK, PlanTypeOK, Sightings
<1>2. Read'
  BY NamespaceFacts DEF IInv, TypeOK, PlanTypeOK, Read, Recorded, TargetPods, Targets
<1>3. NothingSkipped'
  <2>1. ASSUME NEW i \in DOMAIN Namespaces, NEW p \in Pods, i < namespace', NamespaceOf[p] = Namespaces[i],
               place[p] \in Nodes, Stayed(p)
        PROVE  <<p, place[p]>> \in podsSeen'
    BY <2>1, NamespaceFacts DEF IInv, NothingSkipped, TypeOK, PlanTypeOK
  <2> QED BY <2>1 DEF IInv, NothingSkipped, Remained, Stayed
<1>4. Decided'
  BY DEF IInv, Decided
<1> QED BY <1>0, <1>1, <1>2, <1>3, <1>4 DEF IInv, TypeOK

LEMMA SelectNodesStep == ASSUME IInv, SelectNodes, UNCHANGED reportVars PROVE IInv'
<1> USE DEF SelectNodes
<1>0. ClusterTypeOK' /\ ReportTypeOK' /\ Recorded' /\ Collected' /\ ReportIsComplete'
  BY PlanFrame
<1> USE DEF clusterVars, realVars, historyVars
<1>1. PlanTypeOK'
  BY DEF IInv, TypeOK, PlanTypeOK, Selected
<1>2. Read'
  BY DEF IInv, Read
<1>3. NothingSkipped'
  BY DEF IInv, NothingSkipped, Remained, Stayed
<1>4. Decided'
  <2>1. Selected' = Selected
    BY DEF Selected, Candidates
  <2>2. nodePods = {}
    BY DEF IInv, Decided
  <2> QED BY <2>1, <2>2 DEF Decided
<1> QED BY <1>0, <1>1, <1>2, <1>3, <1>4 DEF IInv, TypeOK


\* The pods of the nodes selected are looked at; what is looked at is all that
\* stayed there, if it is taken from the pods of all namespaces.
LEMMA CheckVolumesStep ==
  ASSUME IInv, NEW pods \in Sightings, CheckVolumes(pods), planAt = "allPods", planAt' # "over",
         UNCHANGED <<clusterVars, reportVars, cordonAll, namespace, listed, podsSeen, planned, warned, unchecked>>,
         incomplete' \in BOOLEAN,
         ~ incomplete' => \A p \in Pods : place[p] \in Nodes => <<p, place[p]>> \in pods
  PROVE  IInv'
<1> USE DEF CheckVolumes
<1>0. ClusterTypeOK' /\ ReportTypeOK' /\ Recorded' /\ Collected' /\ ReportIsComplete'
  BY PlanFrame
<1> USE DEF clusterVars, realVars, historyVars
<1>1. PlanTypeOK'
  BY DEF IInv, TypeOK, PlanTypeOK, Sightings
<1>2. Read'
  BY DEF IInv, Read
<1>3. NothingSkipped'
  BY DEF IInv, NothingSkipped, Remained, Stayed
<1>4. Decided'
  <2>1. namespace' > Len(Namespaces) /\ planned' = Selected'
    BY DEF IInv, Decided, Selected, Candidates
  <2>2. ASSUME ~ incomplete', NEW p \in Pods, place[p] \in planned PROVE <<p, place[p]>> \in nodePods'
    BY <2>2 DEF IInv, TypeOK, PlanTypeOK
  <2>3. ASSUME planAt' = "done", NEW s \in nodePods' PROVE ~ isNodeLocalPV(VolumeOf[s[1]])
    BY <2>3 DEF isNodeLocalPV
  <2>4. planAt' \in {"volumes", "done"}
    OBVIOUS
  <2> QED BY <2>1, <2>2, <2>3, <2>4 DEF Decided
<1> QED BY <1>0, <1>1, <1>2, <1>3, <1>4 DEF IInv, TypeOK

LEMMA ListAllPodsStep ==
  ASSUME IInv, ListAllPods \/ ListAllPodsFails, UNCHANGED reportVars
  PROVE  IInv'
<1>1. CASE ListAllPods
  <2> DEFINE there == {<<p, place[p]>> : p \in {q \in Pods : place[q] \in Nodes}}
  <2>1. there \in Sightings
    BY DEF Sightings
  <2>2. \A p \in Pods : place[p] \in Nodes => <<p, place[p]>> \in there
    OBVIOUS
  <2>3. /\ CheckVolumes(there) /\ planAt = "allPods"
        /\ UNCHANGED <<clusterVars, cordonAll, namespace, listed, podsSeen, planned, warned, incomplete, unchecked>>
    BY <1>1 DEF ListAllPods
  <2>4. planAt' # "over" /\ incomplete' \in BOOLEAN
    BY <2>3 DEF CheckVolumes, IInv, TypeOK, PlanTypeOK
  <2> HIDE DEF there
  <2> QED BY <2>1, <2>2, <2>3, <2>4, CheckVolumesStep
<1>2. CASE ListAllPodsFails
  <2>1. podsSeen \in Sightings
    BY DEF IInv, TypeOK, PlanTypeOK
  <2>2. /\ CheckVolumes(podsSeen) /\ planAt = "allPods" /\ incomplete' = TRUE
        /\ UNCHANGED <<clusterVars, cordonAll, namespace, listed, podsSeen, planned, warned, unchecked>>
    BY <1>2 DEF ListAllPodsFails
  <2>3. planAt' # "over"
    BY <2>2 DEF CheckVolumes
  <2> QED BY <2>1, <2>2, <2>3, CheckVolumesStep
<1> QED BY <1>1, <1>2

LEMMA ListVolumesStep ==
  ASSUME IInv, ListVolumes \/ ListVolumesFails, UNCHANGED reportVars
  PROVE  IInv'
<1> USE DEF ListVolumes, ListVolumesFails
<1>0. ClusterTypeOK' /\ ReportTypeOK' /\ Recorded' /\ Collected' /\ ReportIsComplete'
  BY PlanFrame
<1> USE DEF clusterVars, realVars, historyVars
<1>1. PlanTypeOK'
  BY DEF IInv, TypeOK, PlanTypeOK, Sightings
<1>2. Read'
  BY DEF IInv, Read
<1>3. NothingSkipped'
  BY DEF IInv, NothingSkipped, Remained, Stayed
<1>4. Decided'
  <2>1. /\ planAt = "volumes" /\ planAt' = "done"
        /\ UNCHANGED <<cordonAll, listed, podsSeen, namespace, planned, nodePods, incomplete>>
    OBVIOUS
  <2>2. namespace > Len(Namespaces) /\ planned' = Selected'
    <3>1. Selected' = Selected
      BY <2>1 DEF Selected, Candidates
    <3> QED BY <2>1, <3>1 DEF IInv, Decided
  <2>3. ~ incomplete => \A p \in Pods : place[p] \in planned /\ Stayed(p) => <<p, place[p]>> \in nodePods
    BY <2>1 DEF IInv, Decided
  <2>4. ~ unchecked' => \A s \in nodePods : isNodeLocalPV(VolumeOf[s[1]]) => s \in warned'
    OBVIOUS
  <2> QED BY <2>1, <2>2, <2>3, <2>4 DEF Decided, Stayed
<1> QED BY <1>0, <1>1, <1>2, <1>3, <1>4 DEF IInv, TypeOK

LEMMA PlanningStep == ASSUME IInv, Planning PROVE IInv'
BY ListNodesStep, PlanFailsStep, ListPodsStep, SelectNodesStep, ListAllPodsStep, ListVolumesStep
   DEF Planning, PlanNext

------------------------------------------------------------------------------
(* What comes between the plan and the report.                             *)

\* A new survey begins: nothing is planned, nothing is read yet.
LEMMA ToReportStep ==
  ASSUME IInv, planAt # "over", NEW claimed \in SUBSET Nodes, ToReport(claimed)
  PROVE  IInv'
<1> USE DEF ToReport, PlanOver, BeginSurvey, realVars
<1>1. ClusterTypeOK'
  BY DEF IInv, TypeOK, ClusterTypeOK, Places
<1>2. PlanTypeOK'
  BY NothingRead DEF PlanTypeOK
<1>3. ReportTypeOK'
  BY DEF IInv, TypeOK, ReportTypeOK
<1>4. Recorded'
  BY DEF IInv, TypeOK, ClusterTypeOK, Recorded
<1>5. Read' /\ NothingSkipped' /\ Decided'
  BY NamespaceFacts DEF Read, NothingSkipped, Decided
<1>6. Collected' /\ ReportIsComplete'
  BY NamespaceFacts DEF IInv, Collected, ReportIsComplete
<1> QED BY <1>1, <1>2, <1>3, <1>4, <1>5, <1>6 DEF IInv, TypeOK

LEMMA GoesStep == ASSUME IInv, Goes PROVE IInv'
<1>1. CASE NotCordoned
  BY <1>1, ToReportStep DEF NotCordoned
<1>2. CASE Cordoned
  <2>1. planned \in SUBSET Nodes
    BY DEF IInv, TypeOK, PlanTypeOK
  <2> QED BY <1>2, <2>1, ToReportStep DEF Cordoned
<1>3. CASE RunFails
  <2> USE <1>3 DEF RunFails
  <2>0. ClusterTypeOK' /\ ReportTypeOK' /\ Recorded' /\ Collected' /\ ReportIsComplete'
    BY PlanFrame
  <2> USE DEF clusterVars, realVars, historyVars
  <2>1. PlanTypeOK'
    BY DEF IInv, TypeOK, PlanTypeOK
  <2>2. Read' /\ NothingSkipped' /\ Decided'
    BY DEF IInv, Read, NothingSkipped, Decided, Stayed
  <2> QED BY <2>0, <2>1, <2>2 DEF IInv, TypeOK
<1> QED BY <1>1, <1>2, <1>3 DEF Goes


------------------------------------------------------------------------------
(* The report.                                                             *)

\* A step of the report leaves the cluster and the plan alone.
LEMMA ReportFrame ==
  ASSUME IInv, UNCHANGED <<clusterVars, planVars>>
  PROVE  ClusterTypeOK' /\ PlanTypeOK' /\ Recorded' /\ Read' /\ NothingSkipped' /\ Decided'
<1> USE DEF clusterVars, realVars, historyVars, planVars
<1>1. ClusterTypeOK' /\ PlanTypeOK'
  BY DEF IInv, TypeOK, ClusterTypeOK, PlanTypeOK
<1>2. Recorded' /\ Read'
  BY DEF IInv, Recorded, Read
<1>3. NothingSkipped'
  BY DEF IInv, NothingSkipped, Stayed, Remained
<1>4. Decided'
  <2>1. Selected' = Selected
    BY DEF Selected, Candidates
  <2> QED BY <2>1 DEF IInv, Decided, Stayed
<1> QED BY <1>1, <1>2, <1>3, <1>4

\* The main goroutine, before it joins.
LEMMA ReportLoopStep ==
  ASSUME IInv, planAt = "over", UNCHANGED planVars,
         ListReportNodes \/ ListReportNodesFails \/ CloseJobs \/ Expire
  PROVE  IInv'
<1> USE DEF ListReportNodes, ListReportNodesFails, CloseJobs, Expire
<1>0. ClusterTypeOK' /\ PlanTypeOK' /\ Recorded' /\ Read' /\ NothingSkipped' /\ Decided'
  BY ReportFrame
<1> USE DEF clusterVars, realVars, historyVars, planVars
<1>1. ReportTypeOK'
  BY DEF IInv, TypeOK, ClusterTypeOK, ReportTypeOK
<1>2. Collected'
  BY DEF IInv, Collected, Covered, Stayed, Remained
<1>3. ReportIsComplete'
  BY DEF IInv, ReportIsComplete, Stayed, Remained
<1> QED BY <1>0, <1>1, <1>2, <1>3 DEF IInv, TypeOK

\* What a step of a worker, or a send, has to show of Collected.
LEMMA CollectedFrame ==
  ASSUME IInv, UNCHANGED <<clusterVars, planAt, reportAt, nodesSeen>>,
         reportAt \in {"nodes", "wait"} => job' = job,
         \A w \in Workers : worker'[w] # "free" => index'[w] \in Indexes,
         \A i \in Indexes : i < job' =>
           \/ \E w \in Workers : worker'[w] \in {"context", "pods"} /\ index'[w] = i
           \/ results'[i].err
           \/ Covered(i)'
  PROVE  Collected'
BY DEF clusterVars, realVars, historyVars, IInv, Collected, Remained

LEMMA SendStep ==
  ASSUME IInv, planAt = "over", UNCHANGED planVars, NEW w \in Workers, Send(w)
  PROVE  IInv'
<1> USE DEF Send
<1>0. ClusterTypeOK' /\ PlanTypeOK' /\ Recorded' /\ Read' /\ NothingSkipped' /\ Decided'
  BY ReportFrame
<1> USE DEF clusterVars, realVars, historyVars, planVars
<1>1. ReportTypeOK' /\ job \in Indexes
  BY NamespaceFacts DEF IInv, TypeOK, ReportTypeOK
<1>2. Collected'
  <2>1. ASSUME NEW i \in Indexes, i < job'
        PROVE  \/ \E v \in Workers : worker'[v] \in {"context", "pods"} /\ index'[v] = i
               \/ results'[i].err
               \/ Covered(i)'
    <3>1. CASE i = job
      BY <3>1 DEF IInv, TypeOK, ReportTypeOK
    <3>2. CASE i < job
      BY <3>2 DEF IInv, TypeOK, ReportTypeOK, Collected, Covered, Stayed
    <3> QED BY <3>1, <3>2, <2>1, NamespaceFacts DEF IInv, TypeOK, ReportTypeOK
  <2>2. \A v \in Workers : worker'[v] # "free" => index'[v] \in Indexes
    BY <1>1 DEF IInv, TypeOK, ReportTypeOK, Collected
  <2> QED BY <2>1, <2>2, CollectedFrame
<1>3. ReportIsComplete'
  BY DEF ReportIsComplete
<1> QED BY <1>0, <1>1, <1>2, <1>3 DEF IInv, TypeOK

\* A worker: its part is still to be listed, or listed, or has failed.
LEMMA WorkerStep ==
  ASSUME IInv, planAt = "over", UNCHANGED planVars, NEW w \in Workers,
         CheckContext(w) \/ ListPodStates(w) \/ CountWorkloads(w) \/ CollectFails(w)
  PROVE  IInv'
<1>0. /\ UNCHANGED <<clusterVars, reportAt, nodesSeen, job, expired, cordoned, report>>
      /\ worker[w] # "free" /\ index[w] \in Indexes
  BY DEF CheckContext, ListPodStates, CountWorkloads, CollectFails, Collect, IInv, Collected
<1>1. ClusterTypeOK' /\ PlanTypeOK' /\ Recorded' /\ Read' /\ NothingSkipped' /\ Decided'
  BY <1>0, ReportFrame
<1> USE DEF clusterVars, realVars, historyVars
<1>2. ReportIsComplete'
  BY <1>0 DEF IInv, ReportIsComplete, Stayed, Remained
<1>3. CASE CheckContext(w) \/ CountWorkloads(w)
  <2>1. /\ results' = results
        /\ \/ worker[w] = "context" /\ worker' = [worker EXCEPT ![w] = "pods"] /\ index' = index
           \/ /\ worker[w] = "counts" /\ worker' = [worker EXCEPT ![w] = "free"]
              /\ index' = [index EXCEPT ![w] = 0]
    BY <1>3 DEF CheckContext, CountWorkloads, Collect
  <2>2. ReportTypeOK'
    BY <1>0, <2>1 DEF IInv, TypeOK, ReportTypeOK
  <2>3. Collected'
    <3>1. \A v \in Workers : worker'[v] # "free" => index'[v] \in Indexes
      BY <1>0, <2>1 DEF IInv, TypeOK, ReportTypeOK, Collected
    <3>2. ASSUME NEW i \in Indexes, i < job'
          PROVE  \/ \E v \in Workers : worker'[v] \in {"context", "pods"} /\ index'[v] = i
                 \/ results'[i].err
                 \/ Covered(i)'
      BY <1>0, <2>1, <3>2 DEF IInv, TypeOK, ReportTypeOK, Collected, Covered, Stayed
    <3> QED BY <1>0, <3>1, <3>2, CollectedFrame DEF planVars
  <2> QED BY <1>1, <1>2, <2>2, <2>3 DEF IInv, TypeOK
<1>4. CASE ListPodStates(w)
  <2> DEFINE here == {p \in Pods : NamespaceOf[p] = Namespaces[index[w]] /\ place[p] # Deleted}
             shown == [results[index[w]] EXCEPT !.pods = here, !.used = {place[p] : p \in here} \ {Unplaced}]
  <2>1. /\ results' = [results EXCEPT ![index[w]] = shown]
        /\ worker' = [worker EXCEPT ![w] = "counts"] /\ index' = index
    BY <1>4 DEF ListPodStates
  <2>2. shown \in [pods : SUBSET Pods, used : SUBSET Nodes, err : BOOLEAN]
    <3>1. results[index[w]] \in [pods : SUBSET Pods, used : SUBSET Nodes, err : BOOLEAN]
      BY <1>0 DEF IInv, TypeOK, ReportTypeOK
    <3>2. {place[p] : p \in here} \ {Unplaced} \in SUBSET Nodes
      BY DEF IInv, TypeOK, ClusterTypeOK, Places
    <3> QED BY <3>1, <3>2
  <2>3. /\ shown.pods = here
        /\ shown.used = {place[p] : p \in here} \ {Unplaced}
        /\ shown.err = results[index[w]].err
    BY <1>0 DEF IInv, TypeOK, ReportTypeOK
  <2> HIDE DEF shown
  <2>4. ReportTypeOK'
    BY <1>0, <2>1, <2>2 DEF IInv, TypeOK, ReportTypeOK
  <2>5. Covered(index[w])'
    BY <1>0, <2>1, <2>3, ClusterAssumption DEF Covered, Stayed, IInv, TypeOK, ReportTypeOK
  <2>6. ASSUME NEW i \in Indexes, i < job'
        PROVE  \/ \E v \in Workers : worker'[v] \in {"context", "pods"} /\ index'[v] = i
               \/ results'[i].err
               \/ Covered(i)'
    <3>1. CASE i = index[w]
      BY <2>1, <2>5, <3>1
    <3>2. CASE i # index[w]
      BY <1>0, <2>1, <2>6, <3>2 DEF IInv, TypeOK, ReportTypeOK, Collected, Covered, Stayed
    <3> QED BY <3>1, <3>2
  <2>7. Collected'
    <3>1. \A v \in Workers : worker'[v] # "free" => index'[v] \in Indexes
      BY <1>0, <2>1 DEF IInv, TypeOK, ReportTypeOK, Collected
    <3> QED BY <1>0, <3>1, <2>6, CollectedFrame DEF planVars
  <2> QED BY <1>1, <1>2, <2>4, <2>7 DEF IInv, TypeOK
<1>5. CASE CollectFails(w)
  <2> DEFINE failed == [NoResult EXCEPT !.err = TRUE]
  <2>1. /\ results' = [results EXCEPT ![index[w]] = failed]
        /\ worker' = [worker EXCEPT ![w] = "free"] /\ index' = [index EXCEPT ![w] = 0]
    BY <1>5 DEF CollectFails
  <2>2. failed \in [pods : SUBSET Pods, used : SUBSET Nodes, err : BOOLEAN] /\ failed.err
    BY DEF NoResult
  <2> HIDE DEF failed
  <2>3. ReportTypeOK'
    BY <1>0, <2>1, <2>2 DEF IInv, TypeOK, ReportTypeOK
  <2>4. ASSUME NEW i \in Indexes, i < job'
        PROVE  \/ \E v \in Workers : worker'[v] \in {"context", "pods"} /\ index'[v] = i
               \/ results'[i].err
               \/ Covered(i)'
    <3>1. CASE i = index[w]
      BY <1>0, <2>1, <2>2, <3>1 DEF IInv, TypeOK, ReportTypeOK
    <3>2. CASE i # index[w]
      BY <1>0, <2>1, <2>4, <3>2 DEF IInv, TypeOK, ReportTypeOK, Collected, Covered, Stayed
    <3> QED BY <3>1, <3>2
  <2>5. Collected'
    <3>1. \A v \in Workers : worker'[v] # "free" => index'[v] \in Indexes
      BY <1>0, <2>1 DEF IInv, TypeOK, ReportTypeOK, Collected
    <3> QED BY <1>0, <3>1, <2>4, CollectedFrame DEF planVars
  <2> QED BY <1>1, <1>2, <2>3, <2>5 DEF IInv, TypeOK
<1> QED BY <1>3, <1>4, <1>5

\* When all workers are free, what was sent is covered or has failed.
LEMMA JoinStep ==
  ASSUME IInv, planAt = "over", UNCHANGED planVars, Join
  PROVE  IInv'
<1> USE DEF Join
<1>0. ClusterTypeOK' /\ PlanTypeOK' /\ Recorded' /\ Read' /\ NothingSkipped' /\ Decided'
  BY ReportFrame
<1> USE DEF clusterVars, realVars, historyVars
<1>1. ReportTypeOK'
  BY DEF IInv, TypeOK, ReportTypeOK, Shown
<1>2. Collected'
  <2>1. /\ reportAt = "wait" /\ reportAt' \in {"done", "failed"}
        /\ UNCHANGED <<nodesSeen, job, worker, index, results, place, places, exists, left>>
    OBVIOUS
  <2>2. ASSUME NEW i \in Indexes PROVE Covered(i) => Covered(i)'
    BY <2>1 DEF Covered, Stayed
  <2>3. planAt' = planAt
    BY DEF planVars
  <2> QED BY <2>1, <2>2, <2>3 DEF IInv, Collected, Remained
<1>3. ReportIsComplete'
  <2> SUFFICES ASSUME reportAt' = "done" PROVE ReportIsComplete'
    BY DEF ReportIsComplete
  <2>1. /\ report' = [pods |-> UNION {results[i].pods : i \in Indexes},
                      nodes |-> Shown, ours |-> Shown \cap cordoned]
        /\ reportAt = "wait" /\ ~ \E i \in Indexes : results[i].err
        /\ \A w \in Workers : worker[w] = "free"
    OBVIOUS
  <2>2. \A i \in Indexes : Covered(i)
    BY <2>1, NamespaceFacts DEF IInv, TypeOK, ReportTypeOK, Collected
  <2>3. \A n \in Nodes : Remained(n) => n \in nodesSeen
    BY <2>1 DEF IInv, Collected
  <2>4. ASSUME NEW p \in TargetPods, Stayed(p), place[p] # Deleted
        PROVE  /\ p \in report'.pods
               /\ place[p] \in Nodes /\ Remained(place[p]) => place[p] \in report'.nodes
    <3>1. PICK i \in Indexes : NamespaceOf[p] = Namespaces[i]
      BY DEF TargetPods, Targets, Indexes
    <3>2. p \in results[i].pods /\ (place[p] \in Nodes => place[p] \in Used)
      BY <2>2, <2>4, <3>1 DEF Covered, TargetPods, Used
    <3> QED BY <2>1, <2>3, <3>2 DEF Shown
  <2>5. ASSUME NEW n \in cordoned, Remained(n) PROVE n \in report'.ours
    BY <2>1, <2>3, <2>5 DEF Shown, IInv, TypeOK, ReportTypeOK
  <2> QED BY <2>4, <2>5 DEF ReportIsComplete, Stayed, Remained
<1> QED BY <1>0, <1>1, <1>2, <1>3 DEF IInv, TypeOK

LEMMA ReportingStep == ASSUME IInv, Reporting \/ Expiring PROVE IInv'
BY ReportLoopStep, SendStep, WorkerStep, JoinStep DEF Reporting, Expiring, ReportStep


------------------------------------------------------------------------------
(* The others.                                                             *)

\* What a change by others does to the histories: they grow, and what has not
\* changed since the survey began had not changed before.
LEMMA HistoryGrows ==
  ASSUME TypeOK, Recorded, ClusterChanges
  PROVE  /\ ClusterTypeOK' /\ Recorded'
         /\ \A p \in Pods : /\ places[p] \subseteq places'[p]
                            /\ Stayed(p)' => Stayed(p) /\ place'[p] = place[p]
         /\ \A n \in Nodes : /\ labelled[n] \subseteq labelled'[n]
                             /\ Remained(n)' => Remained(n)
<1> USE DEF TypeOK, ClusterTypeOK, ClusterChanges, Recorded, Stayed, Remained, Places
<1>0. changes' \in 0 .. MaxChanges
  BY ClusterAssumption
<1>1. CASE PodMoves
  <2> PICK p \in Pods, there \in exists \cup {Unplaced, Deleted} :
        /\ there # place[p]
        /\ place' = [place EXCEPT ![p] = there]
        /\ places' = [places EXCEPT ![p] = @ \cup {there}]
        /\ UNCHANGED <<exists, labels, labelled, left>>
    BY <1>1 DEF PodMoves
  <2>1. place'[p] = there /\ places'[p] = places[p] \cup {there}
    OBVIOUS
  <2>2. \A q \in Pods : q # p => place'[q] = place[q] /\ places'[q] = places[q]
    OBVIOUS
  <2>3. places[p] \cup {there} # {there}
    OBVIOUS
  <2> QED BY <1>0, <2>1, <2>2, <2>3
<1>2. CASE NodeRelabelled
  BY <1>0, <1>2 DEF NodeRelabelled
<1>3. CASE NodeLeaves
  BY <1>0, <1>3 DEF NodeLeaves
<1>4. CASE NodeComes
  BY <1>0, <1>4 DEF NodeComes
<1> QED BY <1>1, <1>2, <1>3, <1>4

LEMMA OthersActStep == ASSUME IInv, OthersAct PROVE IInv'
<1> USE DEF OthersAct, planVars, reportVars
<1>1. /\ ClusterTypeOK' /\ Recorded'
      /\ \A p \in Pods : /\ places[p] \subseteq places'[p]
                         /\ Stayed(p)' => Stayed(p) /\ place'[p] = place[p]
      /\ \A n \in Nodes : /\ labelled[n] \subseteq labelled'[n]
                          /\ Remained(n)' => Remained(n)
  BY HistoryGrows DEF IInv
<1>2. PlanTypeOK' /\ ReportTypeOK'
  BY DEF IInv, TypeOK, PlanTypeOK, ReportTypeOK
<1>3. Read'
  BY <1>1 DEF IInv, TypeOK, PlanTypeOK, Sightings, Read, TargetPods
<1>4. NothingSkipped'
  <2>1. ASSUME planAt' \in {"pods", "allPods", "volumes", "done"}, NEW n \in Nodes, Remained(n)'
        PROVE  \E set \in labelled'[n] : <<n, set>> \in listed
    BY <1>1, <2>1 DEF IInv, NothingSkipped
  <2>2. ASSUME NEW i \in DOMAIN Namespaces, NEW p \in Pods,
               i < namespace, NamespaceOf[p] = Namespaces[i], place'[p] \in Nodes, Stayed(p)'
        PROVE  <<p, place'[p]>> \in podsSeen
    BY <1>1, <2>2 DEF IInv, NothingSkipped
  <2> QED BY <2>1, <2>2 DEF NothingSkipped
<1>5. Decided'
  <2>1. Selected' = Selected
    BY DEF Selected, Candidates
  <2>2. ASSUME planAt \in {"volumes", "done"}, ~ incomplete, NEW p \in Pods, place'[p] \in planned, Stayed(p)'
        PROVE  <<p, place'[p]>> \in nodePods
    BY <1>1, <2>2 DEF IInv, Decided
  <2> QED BY <2>1, <2>2 DEF IInv, Decided
<1>6. Collected'
  <2>1. ASSUME NEW i \in Indexes, Covered(i) PROVE Covered(i)'
    BY <1>1, <2>1 DEF Covered
  <2> QED BY <1>1, <2>1 DEF IInv, Collected
<1>7. ReportIsComplete'
  BY DEF ReportIsComplete
<1> QED BY <1>1, <1>2, <1>3, <1>4, <1>5, <1>6, <1>7 DEF IInv, TypeOK

LEMMA StutterStep == ASSUME IInv, UNCHANGED vars PROVE IInv'
<1>1. ClusterTypeOK' /\ PlanTypeOK' /\ Recorded' /\ Read' /\ NothingSkipped' /\ Decided'
  BY ReportFrame DEF vars
<1> USE DEF vars, clusterVars, realVars, historyVars, planVars, reportVars
<1>2. ReportTypeOK'
  BY DEF IInv, TypeOK, ReportTypeOK
<1>3. Collected' /\ ReportIsComplete'
  BY DEF IInv, Collected, Covered, ReportIsComplete, Stayed, Remained
<1> QED BY <1>1, <1>2, <1>3 DEF IInv, TypeOK

------------------------------------------------------------------------------
(* The theorems.                                                           *)

\* The inductive invariant of plan and report.
THEOREM SurveyIInv == Spec => []IInv
<1>1. Init => IInv
  BY InitIInv
<1>2. IInv /\ [Next]_vars => IInv'
  BY PlanningStep, GoesStep, ReportingStep, OthersActStep, StutterStep DEF Next
<1> QED BY <1>1, <1>2, PTL DEF Spec

\* Every variable of the plan, the report and the cluster keeps its type.
THEOREM SurveyTypeOK == Spec => []TypeOK
<1>1. IInv => TypeOK
  BY DEF IInv
<1> QED BY <1>1, SurveyIInv, PTL

\* A report that is made has all its parts (GenerateReport), however many
\* workers collected them.
THEOREM SurveyReportIsComplete == Spec => []ReportIsComplete
<1>1. IInv => ReportIsComplete
  BY DEF IInv
<1> QED BY <1>1, SurveyIInv, PTL

\* Unless the plan says that the check failed or is incomplete, no node-local
\* volume of a pod that stayed on a node of the plan goes without its warning.
THEOREM SurveyLocalVolumesWarned == Spec => []LocalVolumesWarned
<1>1. IInv => LocalVolumesWarned
  BY DEF IInv, Decided, LocalVolumesWarned
<1> QED BY <1>1, SurveyIInv, PTL


\* Of the pairs of a filter with a given key there is a last one, which Parsed
\* takes: what is parsed is one of the pairs given.
LEMMA ParsedPair ==
  ASSUME NEW filter \in Seq(Keys \X STRING)
  PROVE  /\ \A i \in DOMAIN filter : filter[i][1] \in DOMAIN Parsed(filter)
         /\ \A k \in DOMAIN Parsed(filter) : \E i \in DOMAIN filter : filter[i][1] = k /\ filter[i][2] = Parsed(filter)[k]
<1>1. DOMAIN Parsed(filter) = {filter[i][1] : i \in DOMAIN filter}
  BY DEF Parsed
<1>2. ASSUME NEW k \in DOMAIN Parsed(filter)
      PROVE  \E i \in DOMAIN filter : filter[i][1] = k /\ filter[i][2] = Parsed(filter)[k]
  <2> DEFINE last == CHOOSE i \in DOMAIN filter :
                       filter[i][1] = k /\ \A j \in DOMAIN filter : filter[j][1] = k => j <= i
             behind == {Len(filter) - i : i \in {j \in DOMAIN filter : filter[j][1] = k}}
  <2>1. Len(filter) \in Nat /\ DOMAIN filter = 1 .. Len(filter)
    OBVIOUS
  <2>2. behind \subseteq Nat /\ behind # {}
    BY <1>1, <2>1
  <2>3. PICK m \in behind : \A d \in behind : ~ (<<d, m>> \in OpToRel(<, Nat))
    <3> HIDE DEF behind
    <3> QED BY <2>2, NatLessThanWellFounded, WFMin
  <2>4. PICK i \in DOMAIN filter : filter[i][1] = k /\ m = Len(filter) - i
    BY <2>3
  <2>5. ASSUME NEW j \in DOMAIN filter, filter[j][1] = k PROVE j <= i
    <3>1. Len(filter) - j \in behind
      BY <2>5
    <3>2. ~ (Len(filter) - j < m)
      BY <2>2, <2>3, <3>1 DEF OpToRel
    <3> QED BY <2>1, <2>4, <3>2
  <2>6. last \in DOMAIN filter /\ filter[last][1] = k
    BY <2>4, <2>5
  <2>7. Parsed(filter)[k] = filter[last][2]
    BY <1>1 DEF Parsed
  <2> QED BY <2>6, <2>7
<1> QED BY <1>1, <1>2

\* What the documentation wants, the filters that were parsed let through.
LEMMA WantedMatches == ASSUME NEW set, Wanted(set) PROVE Matches(set)
<1>1. MatchesRequirements(set, Parsed(NodeLabels))
  BY PlanAssumption, ParsedPair DEF MatchesRequirements, Wanted
<1>2. \A k \in DOMAIN Parsed(ExcludeLabels) : set[k] # Parsed(ExcludeLabels)[k]
  BY PlanAssumption, ParsedPair DEF Wanted
<1> QED BY <1>1, <1>2 DEF Matches, nodeMatchesFilters

\* A filter that gives no key two values, as flags are meant to be used.
OneValuePerKey(filter) ==
  \A i, j \in DOMAIN filter : filter[i][1] = filter[j][1] => filter[i][2] = filter[j][2]

\* Then the converse holds as well.
LEMMA MatchesWanted ==
  ASSUME OneValuePerKey(NodeLabels), OneValuePerKey(ExcludeLabels), NEW set, Matches(set)
  PROVE  Wanted(set)
<1>1. ASSUME NEW i \in DOMAIN NodeLabels PROVE set[NodeLabels[i][1]] = NodeLabels[i][2]
  <2>1. NodeLabels[i][1] \in DOMAIN Parsed(NodeLabels)
    BY PlanAssumption, ParsedPair
  <2>2. Parsed(NodeLabels)[NodeLabels[i][1]] = NodeLabels[i][2]
    BY <2>1, PlanAssumption, ParsedPair DEF OneValuePerKey
  <2> QED BY <2>1, <2>2 DEF Matches, nodeMatchesFilters, MatchesRequirements
<1>2. ASSUME NEW i \in DOMAIN ExcludeLabels PROVE set[ExcludeLabels[i][1]] # ExcludeLabels[i][2]
  <2>1. ExcludeLabels[i][1] \in DOMAIN Parsed(ExcludeLabels)
    BY PlanAssumption, ParsedPair
  <2>2. Parsed(ExcludeLabels)[ExcludeLabels[i][1]] = ExcludeLabels[i][2]
    BY <2>1, PlanAssumption, ParsedPair DEF OneValuePerKey
  <2> QED BY <2>1, <2>2 DEF Matches, nodeMatchesFilters
<1> QED BY <1>1, <1>2 DEF Wanted

\* A node that was wanted all the time is planned: no list that failed, and no
\* key given twice, makes the plan shorter.
THEOREM SurveyNothingMissed == Spec => []NothingMissed
<1>1. ASSUME IInv PROVE NothingMissed
  <2> SUFFICES ASSUME planAt = "done", NEW n \in Nodes, Remained(n), \A set \in labelled[n] : Wanted(set),
                      cordonAll \/ \E p \in TargetPods : place[p] = n /\ Stayed(p)
               PROVE  n \in planned
    BY DEF NothingMissed
  <2>1. PICK set \in labelled[n] : <<n, set>> \in listed
    BY <1>1 DEF IInv, NothingSkipped
  <2>2. Matches(set)
    BY WantedMatches
  <2>3. n \in Candidates
    <3>1. CASE cordonAll
      BY <3>1 DEF Candidates
    <3>2. ASSUME NEW p \in TargetPods, place[p] = n, Stayed(p) PROVE n \in {s[2] : s \in podsSeen}
      <4>1. PICK i \in DOMAIN Namespaces : NamespaceOf[p] = Namespaces[i]
        BY DEF TargetPods, Targets
      <4>2. i < namespace
        BY <1>1, NamespaceFacts DEF IInv, Decided, TypeOK, PlanTypeOK
      <4>3. <<p, n>> \in podsSeen
        BY <1>1, <3>2, <4>1, <4>2 DEF IInv, NothingSkipped, TargetPods
      <4> QED BY <4>3
    <3> QED BY <3>1, <3>2 DEF Candidates
  <2>4. planned = Selected
    BY <1>1 DEF IInv, Decided
  <2> QED BY <2>1, <2>2, <2>3, <2>4 DEF Selected
<1> QED BY <1>1, SurveyIInv, PTL

\* Whatever the filters, a node of the plan was there with labels that the
\* parsed filters let through and, unless all nodes are to be cordoned, ran a pod of
\* a target namespace.
PlannedAsParsed ==
  planAt = "done" =>
    \A n \in planned : /\ \E set \in labelled[n] : Matches(set)
                       /\ cordonAll \/ \E p \in TargetPods : n \in places[p]

\* That is so for all filters, those included that give a key twice.
THEOREM SurveyPlannedAsParsed == Spec => []PlannedAsParsed
<1>1. ASSUME IInv PROVE PlannedAsParsed
  <2> SUFFICES ASSUME planAt = "done", NEW n \in planned
               PROVE  /\ \E set \in labelled[n] : Matches(set)
                      /\ cordonAll \/ \E p \in TargetPods : n \in places[p]
    BY DEF PlannedAsParsed
  <2>1. PICK e \in listed : e[1] = n /\ n \in Candidates /\ Matches(e[2])
    BY <1>1 DEF IInv, Decided, Selected
  <2>2. e[2] \in labelled[n]
    BY <1>1, <2>1 DEF IInv, Read
  <2>3. cordonAll \/ \E p \in TargetPods : n \in places[p]
    BY <1>1, <2>1 DEF IInv, Read, Candidates
  <2> QED BY <2>1, <2>2, <2>3
<1> QED BY <1>1, SurveyIInv, PTL

\* Of filters without a key given twice, a node of the plan satisfied every pair;
\* run nodes_excluded shows why the condition is needed.
THEOREM SurveyPlannedWithReason ==
  OneValuePerKey(NodeLabels) /\ OneValuePerKey(ExcludeLabels) => (Spec => []PlannedWithReason)
<1> SUFFICES ASSUME OneValuePerKey(NodeLabels), OneValuePerKey(ExcludeLabels)
             PROVE  Spec => []PlannedWithReason
  OBVIOUS
<1>1. PlannedAsParsed => PlannedWithReason
  BY MatchesWanted DEF PlannedAsParsed, PlannedWithReason
<1> QED BY <1>1, SurveyPlannedAsParsed, PTL


------------------------------------------------------------------------------
(* The cache: a specification of its own beside the survey.                *)

LEMMA CacheInitIInv == ASSUME CacheInit PROVE CacheIInv
<1> USE CacheAssumption DEF CacheInit, NotServed, NotFetched, NoEntry
<1>1. WellFormed
  BY DEF WellFormed, CacheTypeOK, Instants, Epochs
<1>2. Ages
  BY DEF Ages, BoundedStaleness
<1>3. Overlaps
  BY DEF Overlaps, InvalidationHolds
<1> QED BY <1>1, <1>2, <1>3 DEF CacheIInv

\* A Get looks its key up: a hit answers from the entry.
LEMMA LookupStep ==
  ASSUME CacheIInv, NEW c \in Callers, NEW k \in CacheKeys, Lookup(c, k)
  PROVE  CacheIInv'
<1> USE CacheAssumption DEF CacheIInv, Lookup, callVars
<1>1. CASE Hit(c, k)
  <2> USE <1>1 DEF Hit, Live
  <2>0. cache[k] \in Entries
    BY DEF WellFormed, CacheTypeOK
  <2>1. WellFormed'
    BY <2>0 DEF WellFormed, CacheTypeOK, Entries
  <2>2. now - cache[k].value < CacheTTL + MaxFetch
    BY <2>0 DEF Ages, Entries, Instants, WellFormed, CacheTypeOK
  <2>3. Ages'
    BY <2>2 DEF Ages, BoundedStaleness
  <2>4. Overlaps'
    BY DEF Overlaps, InvalidationHolds
  <2> QED BY <2>1, <2>3, <2>4
<1>2. CASE Miss(c, k)
  <2> USE <1>2 DEF Miss
  <2>1. WellFormed'
    BY DEF WellFormed, CacheTypeOK
  <2>2. Ages'
    BY DEF Ages, BoundedStaleness, WellFormed, CacheTypeOK
  <2>3. Overlaps'
    BY DEF Overlaps, InvalidationHolds, WellFormed, CacheTypeOK
  <2> QED BY <2>1, <2>2, <2>3
<1> QED BY <1>1, <1>2

\* The four Gets are lookups.
LEMMA GetStep ==
  ASSUME NEW c \in Callers, GetDeployment(c) \/ GetStatefulSet(c) \/ GetNode(c) \/ GetNamespace(c)
  PROVE  \E k \in CacheKeys : Lookup(c, k)
BY DEF GetDeployment, GetStatefulSet, GetNode, GetNamespace, CacheKeys, Kinds

LEMMA LimiterWaitStep ==
  ASSUME CacheIInv, NEW c \in Callers, LimiterWait(c)
  PROVE  CacheIInv'
<1> USE DEF CacheIInv, LimiterWait
<1>1. WellFormed'
  BY DEF WellFormed, CacheTypeOK
<1>2. Ages'
  BY DEF Ages, BoundedStaleness, WellFormed, CacheTypeOK
<1>3. Overlaps'
  BY DEF Overlaps, InvalidationHolds, WellFormed, CacheTypeOK
<1> QED BY <1>1, <1>2, <1>3

\* The API server reads the value: it is new, and no invalidation is missed.
LEMMA RequestStep ==
  ASSUME CacheIInv, NEW c \in Callers, Request(c)
  PROVE  CacheIInv'
<1> USE CacheAssumption DEF CacheIInv, Request
<1>0. /\ key[c] \in CacheKeys
      /\ epoch[key[c]] \in Epochs
      /\ now \in Instants
  BY DEF WellFormed, CacheTypeOK
<1>1. WellFormed'
  BY <1>0 DEF WellFormed, CacheTypeOK, NotFetched, Instants
<1>2. Ages'
  BY <1>0 DEF Ages, BoundedStaleness, WellFormed, CacheTypeOK, Instants
<1>3. Overlaps'
  BY <1>0 DEF Overlaps, InvalidationHolds, WellFormed, CacheTypeOK, Epochs
<1> QED BY <1>1, <1>2, <1>3

LEMMA GetFailsStep ==
  ASSUME CacheIInv, NEW c \in Callers, GetFails(c)
  PROVE  CacheIInv'
<1> USE DEF CacheIInv, GetFails
<1>1. WellFormed'
  BY DEF WellFormed, CacheTypeOK
<1>2. Ages'
  BY DEF Ages, BoundedStaleness, WellFormed, CacheTypeOK
<1>3. Overlaps'
  BY DEF Overlaps, InvalidationHolds, WellFormed, CacheTypeOK
<1> QED BY <1>1, <1>2, <1>3

\* The entry takes over what is known of the value on its way.
LEMMA StoreStep ==
  ASSUME CacheIInv, NEW c \in Callers, Store(c)
  PROVE  CacheIInv'
<1> USE CacheAssumption DEF CacheIInv, Store
<1>0. /\ key[c] \in CacheKeys
      /\ fetched[c] \in [value : Instants, epoch : Epochs]
      /\ now \in Instants
  BY DEF WellFormed, CacheTypeOK
<1>1. WellFormed'
  <2>1. [value |-> fetched[c].value, timestamp |-> now, epoch |-> fetched[c].epoch] \in Entries
    BY <1>0 DEF Entries
  <2> QED BY <1>0, <2>1 DEF WellFormed, CacheTypeOK
<1>2. Ages'
  BY <1>0 DEF Ages, BoundedStaleness, WellFormed, CacheTypeOK
<1>3. Overlaps'
  BY <1>0 DEF Overlaps, InvalidationHolds, WellFormed, CacheTypeOK
<1> QED BY <1>1, <1>2, <1>3

\* Whatever is dropped, the reads of the invalidated keys on their way become
\* late ones; an entry survives only where its key is not invalidated.
LEMMA ClearStep ==
  ASSUME CacheIInv, NEW K \in SUBSET CacheKeys, Clear(K)
  PROVE  CacheIInv'
<1> USE CacheAssumption DEF CacheIInv, Clear, Drop, callVars
<1>0. late \subseteq late'
  OBVIOUS
<1>1. WellFormed'
  <2>1. late' \subseteq CacheKeys \X Epochs
    BY DEF WellFormed, CacheTypeOK, NotFetched
  <2>2. epoch' \in [CacheKeys -> Epochs] /\ \A k \in CacheKeys : epoch'[k] <= clears'
    BY DEF WellFormed, CacheTypeOK, Epochs
  <2>3. cache' \in [CacheKeys -> Entries \cup {NoEntry}]
    BY DEF WellFormed, CacheTypeOK
  <2> QED BY <2>1, <2>2, <2>3 DEF WellFormed, CacheTypeOK
<1>2. Ages'
  BY DEF Ages, BoundedStaleness, WellFormed, CacheTypeOK
<1>3. Overlaps'
  <2>1. ASSUME NEW k \in CacheKeys, cache'[k].epoch < epoch'[k], cache'[k] # NoEntry
        PROVE  <<k, cache'[k].epoch>> \in late'
    BY <2>1, <1>0 DEF Overlaps, WellFormed, CacheTypeOK
  <2>2. ASSUME NEW c \in Callers, pc'[c] = "store", fetched'[c].epoch < epoch'[key'[c]]
        PROVE  <<key'[c], fetched'[c].epoch>> \in late'
    <3>1. key[c] \in CacheKeys
      BY <2>2 DEF WellFormed
    <3>2. CASE key[c] \in K
      BY <2>2, <3>2
    <3>3. CASE key[c] \notin K
      BY <2>2, <3>1, <3>3, <1>0 DEF Overlaps, WellFormed, CacheTypeOK
    <3> QED BY <3>2, <3>3
  <2>3. InvalidationHolds'
    BY <1>0 DEF Overlaps, InvalidationHolds
  <2> QED BY <2>1, <2>2, <2>3 DEF Overlaps
<1> QED BY <1>1, <1>2, <1>3

\* Every invalidation of the program clears the keys it is asked to.
LEMMA InvalidationStep ==
  ASSUME \/ InvalidateCache \/ ClearCache
         \/ InvalidateDeploymentCache \/ InvalidateStatefulSetCache
         \/ InvalidateNodeCache \/ InvalidateNamespaceCache
  PROVE  \E K \in SUBSET CacheKeys : Clear(K)
<1>1. \A n \in Names : /\ {<<"Deployment", n>>} \in SUBSET CacheKeys
                       /\ {<<"StatefulSet", n>>} \in SUBSET CacheKeys
                       /\ {<<"Node", n>>} \in SUBSET CacheKeys
                       /\ {<<"Namespace", n>>} \in SUBSET CacheKeys
  BY DEF CacheKeys, Kinds
<1>2. CacheKeys \in SUBSET CacheKeys
  OBVIOUS
<1> QED
  BY <1>1, <1>2, Zenon DEF InvalidateCache, ClearCache, InvalidateDeploymentCache, InvalidateStatefulSetCache,
     InvalidateNodeCache, InvalidateNamespaceCache

\* Time passes only while the reads on their way are younger than MaxFetch.
LEMMA TickStep == ASSUME CacheIInv, Tick PROVE CacheIInv'
<1> USE CacheAssumption DEF CacheIInv, Tick, callVars
<1>1. WellFormed'
  BY DEF WellFormed, CacheTypeOK, Instants
<1>2. Ages'
  <2>1. ASSUME NEW c \in Callers, pc'[c] = "store" PROVE now' - fetched'[c].value <= MaxFetch
    BY <2>1 DEF WellFormed, CacheTypeOK, Instants
  <2> QED BY <2>1 DEF Ages, BoundedStaleness
<1>3. Overlaps'
  BY DEF Overlaps, InvalidationHolds
<1> QED BY <1>1, <1>2, <1>3

LEMMA CacheStutterStep == ASSUME CacheIInv, UNCHANGED cacheVars PROVE CacheIInv'
BY DEF cacheVars, callVars, CacheIInv, WellFormed, CacheTypeOK, Ages, BoundedStaleness, Overlaps, InvalidationHolds

LEMMA CacheNextStep == ASSUME CacheIInv, [CacheNext]_cacheVars PROVE CacheIInv'
<1>1. ASSUME NEW c \in Callers,
             GetDeployment(c) \/ GetStatefulSet(c) \/ GetNode(c) \/ GetNamespace(c)
      PROVE  CacheIInv'
  BY <1>1, GetStep, LookupStep
<1>2. ASSUME NEW c \in Callers, LimiterWait(c) \/ Request(c) \/ GetFails(c) \/ Store(c)
      PROVE  CacheIInv'
  BY <1>2, LimiterWaitStep, RequestStep, GetFailsStep, StoreStep
<1>3. ASSUME \/ InvalidateCache \/ ClearCache
             \/ InvalidateDeploymentCache \/ InvalidateStatefulSetCache
             \/ InvalidateNodeCache \/ InvalidateNamespaceCache
      PROVE  CacheIInv'
  BY <1>3, InvalidationStep, ClearStep
<1>4. CASE Tick
  BY <1>4, TickStep
<1>5. CASE UNCHANGED cacheVars
  BY <1>5, CacheStutterStep
<1> QED BY <1>1, <1>2, <1>3, <1>4, <1>5 DEF CacheNext

------------------------------------------------------------------------------
(* The theorems about the cache.                                           *)

\* The inductive invariant of the cache, for any number of callers and names.
THEOREM CacheInvariance == CacheSpec => []CacheIInv
<1>1. CacheInit => CacheIInv
  BY CacheInitIInv
<1>2. CacheIInv /\ [CacheNext]_cacheVars => CacheIInv'
  BY CacheNextStep
<1> QED BY <1>1, <1>2, PTL DEF CacheSpec

\* Every variable of the cache keeps its type.
THEOREM CacheTypeCorrect == CacheSpec => []CacheTypeOK
<1>1. CacheIInv => CacheTypeOK
  BY DEF CacheIInv, WellFormed
<1> QED BY <1>1, CacheInvariance, PTL

\* An answer of the cache is younger than CacheTTL + MaxFetch.
THEOREM CacheBoundedStaleness == CacheSpec => []BoundedStaleness
<1>1. CacheIInv => BoundedStaleness
  BY DEF CacheIInv, Ages
<1> QED BY <1>1, CacheInvariance, PTL

\* No entry survives an invalidation of its key.
THEOREM CacheInvalidationHolds == CacheSpec => []InvalidationHolds
<1>1. CacheIInv => InvalidationHolds
  BY DEF CacheIInv, Overlaps
<1> QED BY <1>1, CacheInvariance, PTL
==============================================================================
