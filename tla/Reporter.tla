------------------------------ MODULE Reporter ------------------------------
(***************************************************************************)
(* GenerateReport (pkg/reporter/reporter.go): the nodes are listed, then a *)
(* fixed pool of workers collects the target namespaces, which it takes    *)
(* from an unbuffered channel, and the parts are joined.  It runs before   *)
(* the cordon and again at the end, when the run's own cordons are shown.  *)
(***************************************************************************)
EXTENDS SurveyedCluster

CONSTANTS Parallelism   \* --parallel

VARIABLES
  reportAt,   \* where GenerateReport is
  nodesSeen,  \* the nodes listed
  job,        \* loop variable of the sends on jobs
  worker,     \* the step of each worker of the pool
  index,      \* the namespace each worker collects
  results,    \* namespaceResult of each namespace
  expired,    \* the report's context has ended
  cordoned,   \* the nodes cordoned by this run
  report      \* the report: pods by namespace, nodes, and those cordoned by this run

reportVars == <<reportAt, nodesSeen, job, worker, index, results, expired, cordoned, report>>

Indexes == DOMAIN Namespaces

\* A number below one means the default, which is no less than the namespaces here.
PoolSize == IF Parallelism < 1 \/ Parallelism > Len(Namespaces) THEN Len(Namespaces) ELSE Parallelism

Workers == 1 .. PoolSize

NoResult == [pods |-> {}, used |-> {}, err |-> FALSE]
NoReport == [pods |-> {}, nodes |-> {}, ours |-> {}]

ReportTypeOK ==
  /\ reportAt \in {"nodes", "send", "wait", "done", "failed"}
  /\ nodesSeen \subseteq Nodes
  /\ job \in 1 .. (Len(Namespaces) + 1)
  /\ worker \in [Workers -> {"free", "context", "pods", "counts"}]
  /\ index \in [Workers -> {0} \cup Indexes]
  /\ results \in [Indexes -> [pods : SUBSET Pods, used : SUBSET Nodes, err : BOOLEAN]]
  /\ expired \in BOOLEAN
  /\ cordoned \subseteq Nodes
  /\ report \in [pods : SUBSET Pods, nodes : SUBSET Nodes, ours : SUBSET Nodes]

ReportInit ==
  /\ reportAt = "nodes"
  /\ nodesSeen = {}
  /\ job = 1
  /\ worker = [w \in Workers |-> "free"]
  /\ index = [w \in Workers |-> 0]
  /\ results = [i \in Indexes |-> NoResult]
  /\ expired = FALSE
  /\ cordoned = {}
  /\ report = NoReport

------------------------------------------------------------------------------
(* The goroutine of GenerateReport.                                        *)

ListReportNodes ==
  /\ reportAt = "nodes"
  /\ nodesSeen' = exists
  /\ reportAt' = "send"
  /\ UNCHANGED <<clusterVars, job, worker, index, results, expired, cordoned, report>>

ListReportNodesFails ==
  /\ reportAt = "nodes"
  /\ reportAt' = "failed"
  /\ UNCHANGED <<clusterVars, nodesSeen, job, worker, index, results, expired, cordoned, report>>

\* The channel has no buffer: a send is a receive by a worker that is free.
Send(w) ==
  /\ reportAt = "send"
  /\ job <= Len(Namespaces)
  /\ worker[w] = "free"
  /\ worker' = [worker EXCEPT ![w] = "context"]
  /\ index' = [index EXCEPT ![w] = job]
  /\ job' = job + 1
  /\ UNCHANGED <<clusterVars, reportAt, nodesSeen, results, expired, cordoned, report>>

CloseJobs ==
  /\ reportAt = "send"
  /\ job > Len(Namespaces)
  /\ reportAt' = "wait"
  /\ UNCHANGED <<clusterVars, nodesSeen, job, worker, index, results, expired, cordoned, report>>

Used == UNION {results[i].used : i \in Indexes}

Shown == nodesSeen \cap (Used \cup cordoned)

\* wg.Wait is over when no worker collects; one failed part fails the report.
Join ==
  /\ reportAt = "wait"
  /\ \A w \in Workers : worker[w] = "free"
  /\ IF \E i \in Indexes : results[i].err
       THEN /\ reportAt' = "failed"
            /\ UNCHANGED report
       ELSE /\ reportAt' = "done"
            /\ report' = [pods |-> UNION {results[i].pods : i \in Indexes},
                          nodes |-> Shown, ours |-> Shown \cap cordoned]
  /\ UNCHANGED <<clusterVars, nodesSeen, job, worker, index, results, expired, cordoned>>

------------------------------------------------------------------------------
(* collectNamespace, one worker.                                           *)

Collect(w, at) == worker[w] = at /\ UNCHANGED <<clusterVars, reportAt, nodesSeen, job, expired, cordoned, report>>

CheckContext(w) ==
  /\ Collect(w, "context")
  /\ ~ expired
  /\ worker' = [worker EXCEPT ![w] = "pods"]
  /\ UNCHANGED <<index, results>>

Slip_ListPodStates(w) ==  \* the pods without a node are on a node without a name
  LET here == {p \in Pods : NamespaceOf[p] = Namespaces[index[w]] /\ place[p] # Deleted}
  IN /\ Collect(w, "pods")
     /\ results' = [results EXCEPT ![index[w]] = [@ EXCEPT !.pods = here, !.used = {place[p] : p \in here}]]
     /\ worker' = [worker EXCEPT ![w] = "counts"]
     /\ UNCHANGED index

\* The parts of a namespace are listed; pods without a node use none.
ListPodStates(w) ==
  LET here == {p \in Pods : NamespaceOf[p] = Namespaces[index[w]] /\ place[p] # Deleted}
  IN /\ Collect(w, "pods")
     /\ results' = [results EXCEPT ![index[w]] = [@ EXCEPT !.pods = here,
                                                           !.used = {place[p] : p \in here} \ {Unplaced}]]
     /\ worker' = [worker EXCEPT ![w] = "counts"]
     /\ UNCHANGED index

\* Deployments, StatefulSets and custom resources are counted by a list each.
\* Custom resources that cannot be listed count as none: that is no failure.
CountWorkloads(w) ==
  /\ Collect(w, "counts")
  /\ worker' = [worker EXCEPT ![w] = "free"]
  /\ index' = [index EXCEPT ![w] = 0]
  /\ UNCHANGED results

Slip_CollectFails(w) ==  \* what was read before the failure will do
  /\ \/ Collect(w, "context") /\ expired
     \/ Collect(w, "pods") \/ Collect(w, "counts")
  /\ worker' = [worker EXCEPT ![w] = "free"]
  /\ index' = [index EXCEPT ![w] = 0]
  /\ UNCHANGED results

\* The context has ended, a list fails, or the worker panics and recovers.
CollectFails(w) ==
  /\ \/ Collect(w, "context") /\ expired
     \/ Collect(w, "pods") \/ Collect(w, "counts")
  /\ results' = [results EXCEPT ![index[w]] = [NoResult EXCEPT !.err = TRUE]]
  /\ worker' = [worker EXCEPT ![w] = "free"]
  /\ index' = [index EXCEPT ![w] = 0]

------------------------------------------------------------------------------

Expire ==
  /\ reportAt \in {"nodes", "send", "wait"}
  /\ ~ expired
  /\ expired' = TRUE
  /\ UNCHANGED <<clusterVars, reportAt, nodesSeen, job, worker, index, results, cordoned, report>>

ReportStep ==
  \/ ListReportNodes \/ ListReportNodesFails \/ CloseJobs \/ Join
  \/ \E w \in Workers : Send(w) \/ CheckContext(w) \/ ListPodStates(w) \/ CountWorkloads(w)
                        \/ CollectFails(w)

ReportNext == ReportStep \/ Expire

------------------------------------------------------------------------------
(* Properties.                                                             *)

\* A report is only made of all its parts: it has every pod of a target
\* namespace that was there all the time, the nodes they stayed on, and the nodes
\* cordoned by this run that did not leave, marked as such even when the restart
\* has emptied them; whichever worker collected which namespace, and whatever
\* failed (GenerateReport: "plus every node cordoned by this run").
ReportIsComplete ==
  reportAt = "done" =>
    /\ \A p \in TargetPods :
         Stayed(p) /\ place[p] # Deleted =>
           /\ p \in report.pods
           /\ place[p] \in Nodes /\ Remained(place[p]) => place[p] \in report.nodes
    /\ \A n \in cordoned : Remained(n) => n \in report.ours
=============================================================================
