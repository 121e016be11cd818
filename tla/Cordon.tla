------------------------------- MODULE Cordon -------------------------------
(***************************************************************************)
(* CordonNodes (pkg/operations/cluster.go) after node selection:           *)
(* forEachNode runs one cordonNode per selected node, at most Parallel at  *)
(* once.  A worker reads its node and cordons it by one PATCH that carries *)
(* the resourceVersion it read and this run's marker annotation; on a      *)
(* conflict it reads again, and when the answer of the PATCH is lost it    *)
(* looks the node up once more.  Administrators, the autoscaler and the    *)
(* kubelet change the same nodes at any time.                              *)
(*                                                                         *)
(* A resourceVersion is only ever compared with the one the worker read    *)
(* last, so fresh[n] stands for "the two are equal".                       *)
(***************************************************************************)
EXTENDS Integers, FiniteSets

CONSTANTS N,            \* number of selected nodes, in the order of their names
          Parallel,     \* --parallel
          MaxAttempts,  \* maxNodePatchAttempts
          MaxChanges    \* bound: changes of schedulability, deletions and recreations by others

ASSUME CordonAssumption == /\ N \in Nat \ {0}
                           /\ Parallel \in Int
                           /\ MaxAttempts \in Nat \ {0}
                           /\ MaxChanges \in Nat

Nodes == 1 .. N

\* errgroup.SetLimit(max(c.parallel, 1))
Limit == IF Parallel < 1 THEN 1 ELSE Parallel

\* Instances a node name can go through; 0 stands for none.
Uids == 1 .. (MaxChanges + 1)
NoUid == 0

VARIABLES
  node,      \* the Node objects: spec.unschedulable, and "marked" with this run's ID
  fresh,     \* the node has not changed since the worker read it
  inflight,  \* the worker gave up on its PATCH, the API server may still apply it
  pc,        \* where the worker of each node is
  attempt,   \* attempt of cordonNode
  seen,      \* uid the worker read last
  tracked,   \* ClusterOperations.nodes: uid of each node claimed, 0 if not in the map
  result,    \* the error the worker of each node returned
  next,      \* loop variable of forEachNode
  disp,      \* where forEachNode is
  cancelled, \* the run's context is cancelled
  changes,   \* counts what others did, up to MaxChanges
  made       \* history: the <<name, uid>> that this run's PATCH made unschedulable

workerVars == <<pc, attempt, seen, tracked, result>>
dispVars == <<next, disp>>
vars == <<node, fresh, inflight, workerVars, dispVars, cancelled, changes, made>>

TypeOK ==
  /\ node \in [Nodes -> [uid : Uids, exists : BOOLEAN, unschedulable : BOOLEAN, marked : BOOLEAN]]
  /\ fresh \in [Nodes -> BOOLEAN]
  /\ inflight \in [Nodes -> BOOLEAN]
  /\ pc \in [Nodes -> {"idle", "read", "patch", "track", "verify", "done"}]
  /\ attempt \in [Nodes -> 0 .. MaxAttempts]
  /\ seen \in [Nodes -> {NoUid} \cup Uids]
  /\ tracked \in [Nodes -> {NoUid} \cup Uids]
  /\ result \in [Nodes -> {"unset", "nil", "error", "notProcessed"}]
  /\ next \in 1 .. (N + 1)
  /\ disp \in {"check", "go", "wait", "returned"}
  /\ cancelled \in BOOLEAN
  /\ changes \in 0 .. MaxChanges
  /\ made \subseteq Nodes \X Uids

\* The nodes exist when they are selected; some are cordoned already, and
\* marked by nobody of this run.
Init ==
  /\ node \in [Nodes -> [uid : {1}, exists : {TRUE}, unschedulable : BOOLEAN, marked : {FALSE}]]
  /\ fresh = [n \in Nodes |-> FALSE]
  /\ inflight = [n \in Nodes |-> FALSE]
  /\ pc = [n \in Nodes |-> "idle"]
  /\ attempt = [n \in Nodes |-> 0]
  /\ seen = [n \in Nodes |-> NoUid]
  /\ tracked = [n \in Nodes |-> NoUid]
  /\ result = [n \in Nodes |-> "unset"]
  /\ next = 1
  /\ disp = "check"
  /\ cancelled \in BOOLEAN
  /\ changes = 0
  /\ made = {}

------------------------------------------------------------------------------
(* forEachNode.                                                            *)

Running == {n \in Nodes : pc[n] \in {"read", "patch", "track", "verify"}}

\* The context is looked at before errgroup's Go, which blocks while Limit
\* workers run: a node let through here is processed after a cancellation too.
LetThrough ==
  /\ disp = "check"
  /\ next <= N
  /\ ~ cancelled
  /\ disp' = "go"
  /\ UNCHANGED <<node, fresh, inflight, workerVars, next, cancelled, changes, made>>

StopDispatch ==
  /\ disp = "check"
  /\ next <= N
  /\ cancelled
  /\ result' = [n \in Nodes |-> IF n >= next THEN "notProcessed" ELSE result[n]]
  /\ disp' = "wait"
  /\ UNCHANGED <<node, fresh, inflight, pc, attempt, seen, tracked, next, cancelled, changes, made>>

StartWorker ==
  /\ disp = "go"
  /\ Cardinality(Running) < Limit
  /\ pc' = [pc EXCEPT ![next] = "read"]
  /\ attempt' = [attempt EXCEPT ![next] = 1]
  /\ next' = next + 1
  /\ disp' = "check"
  /\ UNCHANGED <<node, fresh, inflight, seen, tracked, result, cancelled, changes, made>>

AllDispatched ==
  /\ disp = "check"
  /\ next > N
  /\ disp' = "wait"
  /\ UNCHANGED <<node, fresh, inflight, workerVars, next, cancelled, changes, made>>

WaitAll ==
  /\ disp = "wait"
  /\ Running = {}
  /\ disp' = "returned"
  /\ UNCHANGED <<node, fresh, inflight, workerVars, next, cancelled, changes, made>>

Dispatcher == LetThrough \/ StopDispatch \/ StartWorker \/ AllDispatched \/ WaitAll

------------------------------------------------------------------------------
(* cordonNode.                                                             *)

Return(n, err) ==
  /\ pc' = [pc EXCEPT ![n] = "done"]
  /\ result' = [result EXCEPT ![n] = err]

Track(n, uid) == tracked' = [tracked EXCEPT ![n] = uid]

\* getNode: a request under the run's context fails once that is cancelled.
ReadFails(n) ==
  /\ pc[n] = "read"
  /\ Return(n, "error")
  /\ UNCHANGED <<node, fresh, inflight, attempt, seen, tracked, dispVars, cancelled, changes, made>>

ReadAbsent(n) ==
  /\ pc[n] = "read"
  /\ ~ cancelled
  /\ ~ node[n].exists
  /\ Return(n, "nil")
  /\ UNCHANGED <<node, fresh, inflight, attempt, seen, tracked, dispVars, cancelled, changes, made>>

Slip_ReadCordoned(n) ==  \* whoever cordoned the node, it is claimed
  /\ pc[n] = "read"
  /\ ~ cancelled
  /\ node[n].exists
  /\ node[n].unschedulable
  /\ Track(n, node[n].uid)
  /\ Return(n, "nil")
  /\ UNCHANGED <<node, fresh, inflight, attempt, seen, dispVars, cancelled, changes, made>>

\* Cordoned already: claimed only if it carries this run's marker.
ReadCordoned(n) ==
  /\ pc[n] = "read"
  /\ ~ cancelled
  /\ node[n].exists
  /\ node[n].unschedulable
  /\ IF node[n].marked THEN Track(n, node[n].uid) ELSE UNCHANGED tracked
  /\ Return(n, "nil")
  /\ UNCHANGED <<node, fresh, inflight, attempt, seen, dispVars, cancelled, changes, made>>

ReadSchedulable(n) ==
  /\ pc[n] = "read"
  /\ ~ cancelled
  /\ node[n].exists
  /\ ~ node[n].unschedulable
  /\ seen' = [seen EXCEPT ![n] = node[n].uid]
  /\ fresh' = [fresh EXCEPT ![n] = TRUE]
  /\ pc' = [pc EXCEPT ![n] = "patch"]
  /\ UNCHANGED <<node, inflight, attempt, tracked, result, dispVars, cancelled, changes, made>>

\* The API server takes the PATCH only for the resourceVersion it carries.
Slip_Accepts(n) == node[n].exists  \* the PATCH carries no resourceVersion
Accepts(n) == fresh[n]

Apply(n) ==
  /\ Accepts(n)
  /\ node' = [node EXCEPT ![n] = [@ EXCEPT !.unschedulable = TRUE, !.marked = TRUE]]
  /\ fresh' = [fresh EXCEPT ![n] = FALSE]
  /\ made' = made \cup {<<n, node[n].uid>>}

NotApplied == UNCHANGED <<node, fresh, made>>

\* The API server has cordoned the node before the worker claims it: a forced
\* exit in between prints a list without it.
PatchAnswered(n) ==
  /\ pc[n] = "patch"
  /\ ~ cancelled
  /\ Apply(n)
  /\ pc' = [pc EXCEPT ![n] = "track"]
  /\ UNCHANGED <<inflight, attempt, seen, tracked, result, dispVars, cancelled, changes>>

Slip_Tracks(n) ==  \* a run that is being interrupted lists nothing more
  /\ pc[n] = "track"
  /\ IF cancelled THEN UNCHANGED tracked ELSE Track(n, seen[n])
  /\ Return(n, "nil")
  /\ UNCHANGED <<node, fresh, inflight, attempt, seen, dispVars, cancelled, changes, made>>

\* Claimed is the instance that was read, whatever its name stands for by now,
\* and also after a cancellation.
Tracks(n) ==
  /\ pc[n] = "track"
  /\ Track(n, seen[n])
  /\ Return(n, "nil")
  /\ UNCHANGED <<node, fresh, inflight, attempt, seen, dispVars, cancelled, changes, made>>

Slip_Conflict(n) ==  \* the attempts are not counted
  /\ pc' = [pc EXCEPT ![n] = "read"]
  /\ UNCHANGED <<attempt, result>>

\* 409: read again, MaxAttempts times at most.
Conflict(n) ==
  IF attempt[n] >= MaxAttempts
  THEN Return(n, "error") /\ UNCHANGED attempt
  ELSE /\ attempt' = [attempt EXCEPT ![n] = @ + 1]
       /\ pc' = [pc EXCEPT ![n] = "read"]
       /\ UNCHANGED result

PatchConflicts(n) ==
  /\ pc[n] = "patch"
  /\ ~ cancelled
  /\ ~ fresh[n]
  /\ node[n].exists
  /\ Conflict(n)
  /\ NotApplied
  /\ UNCHANGED <<inflight, seen, tracked, dispVars, cancelled, changes>>

\* client-go repeats a request answered by 5xx with Retry-After: the first try
\* was applied, the second one conflicts with it.
PatchConflictsWithItself(n) ==
  /\ pc[n] = "patch"
  /\ ~ cancelled
  /\ Apply(n)
  /\ Conflict(n)
  /\ UNCHANGED <<inflight, seen, tracked, dispVars, cancelled, changes>>

PatchNotFound(n) ==
  /\ pc[n] = "patch"
  /\ ~ cancelled
  /\ ~ node[n].exists
  /\ Return(n, "nil")
  /\ NotApplied
  /\ UNCHANGED <<inflight, attempt, seen, tracked, dispVars, cancelled, changes>>

\* Any other 4xx.
PatchRejected(n) ==
  /\ pc[n] = "patch"
  /\ ~ cancelled
  /\ Return(n, "error")
  /\ NotApplied
  /\ UNCHANGED <<inflight, attempt, seen, tracked, dispVars, cancelled, changes>>

\* isUncertainErr: 5xx, a broken connection or a cancelled context.  The PATCH
\* was applied, never will be, or is still on its way.
PatchUncertain(n) ==
  /\ pc[n] = "patch"
  /\ pc' = [pc EXCEPT ![n] = "verify"]
  /\ \/ Apply(n) /\ UNCHANGED inflight
     \/ NotApplied /\ UNCHANGED inflight
     \/ NotApplied /\ inflight' = [inflight EXCEPT ![n] = TRUE]
  /\ UNCHANGED <<attempt, seen, tracked, result, dispVars, cancelled, changes>>

Slip_OwnCordon(n) ==  \* the marker alone is enough
  node[n].exists /\ node[n].marked

OwnCordon(n) ==
  /\ node[n].exists
  /\ node[n].uid = seen[n]
  /\ node[n].marked
  /\ node[n].unschedulable

\* verifyOwnCordon reads under a context of its own; after a cancellation the
\* node is claimed, yet the cordon counts as failed.
VerifyOwn(n) ==
  /\ pc[n] = "verify"
  /\ OwnCordon(n)
  /\ Track(n, node[n].uid)
  /\ Return(n, IF cancelled THEN "error" ELSE "nil")
  /\ UNCHANGED <<node, fresh, inflight, attempt, seen, dispVars, cancelled, changes, made>>

Slip_VerifyNot(n) ==  \* "not ours" is taken for "somebody else's", which is fine
  /\ pc[n] = "verify"
  /\ Return(n, "nil")
  /\ UNCHANGED <<node, fresh, inflight, attempt, seen, tracked, dispVars, cancelled, changes, made>>

\* The node does not carry our cordon, or the read failed.
VerifyNot(n) ==
  /\ pc[n] = "verify"
  /\ Return(n, "error")
  /\ UNCHANGED <<node, fresh, inflight, attempt, seen, tracked, dispVars, cancelled, changes, made>>

Worker(n) ==
  \/ ReadFails(n) \/ ReadAbsent(n) \/ ReadCordoned(n) \/ ReadSchedulable(n)
  \/ PatchAnswered(n) \/ Tracks(n) \/ PatchConflicts(n) \/ PatchConflictsWithItself(n)
  \/ PatchNotFound(n) \/ PatchRejected(n) \/ PatchUncertain(n)
  \/ VerifyOwn(n) \/ VerifyNot(n)

------------------------------------------------------------------------------
(* Everybody else: the signal, the API server finishing an abandoned       *)
(* request, administrators, the autoscaler and the kubelet.                *)

Cancel ==
  /\ ~ cancelled
  /\ cancelled' = TRUE
  /\ UNCHANGED <<node, fresh, inflight, workerVars, dispVars, changes, made>>

LateApply(n) ==
  /\ inflight[n]
  /\ Apply(n)
  /\ inflight' = [inflight EXCEPT ![n] = FALSE]
  /\ UNCHANGED <<workerVars, dispVars, cancelled, changes>>

\* A heartbeat, a label: any write moves the resourceVersion.
Heartbeat(n) ==
  /\ fresh[n]
  /\ fresh' = [fresh EXCEPT ![n] = FALSE]
  /\ UNCHANGED <<node, inflight, workerVars, dispVars, cancelled, changes, made>>

Change(n, new) ==
  /\ changes < MaxChanges
  /\ changes' = changes + 1
  /\ new # node[n]
  /\ node' = [node EXCEPT ![n] = new]
  /\ fresh' = [fresh EXCEPT ![n] = FALSE]
  /\ UNCHANGED <<inflight, workerVars, dispVars, cancelled, made>>

\* kubectl cordon and uncordon leave annotations alone; the rollback the tool
\* prints removes the marker as well.
OthersCordon(n) ==
  node[n].exists /\ Change(n, [node[n] EXCEPT !.unschedulable = TRUE])

OthersUncordon(n) ==
  /\ node[n].exists
  /\ \E m \in {node[n].marked, FALSE} :
       Change(n, [node[n] EXCEPT !.unschedulable = FALSE, !.marked = m])

\* Names can come back with a new uid.
Deleted(n) ==
  /\ node[n].exists
  /\ Change(n, [node[n] EXCEPT !.exists = FALSE])

Recreated(n) ==
  /\ ~ node[n].exists
  /\ \E b \in BOOLEAN :
       Change(n, [uid |-> node[n].uid + 1, exists |-> TRUE, unschedulable |-> b, marked |-> FALSE])

Others(n) == \/ LateApply(n) \/ Heartbeat(n)
             \/ OthersCordon(n) \/ OthersUncordon(n)
             \/ Deleted(n) \/ Recreated(n)

\* CordonNodes has returned; the cluster goes on.
Returned == disp = "returned" /\ UNCHANGED vars

Next == \/ Dispatcher
        \/ \E n \in Nodes : Worker(n) \/ Others(n)
        \/ Cancel
        \/ Returned

Spec == Init /\ [][Next]_vars

\* Goroutines that can run do run, and every request is answered or given up
\* by the client after its timeout.  The others may never do anything.
FairSpec == /\ Spec
            /\ WF_vars(Dispatcher)
            /\ \A n \in Nodes : WF_vars(Worker(n))

------------------------------------------------------------------------------
(* Properties.                                                             *)

\* A node is listed as cordoned by this run only if this run's own PATCH made
\* that very instance of it unschedulable; a cordon by somebody else, or on a
\* node recreated under the same name, is never claimed.  This holds at every
\* moment, so also for the list a forced exit prints.
ClaimsAreOurs ==
  \A n \in Nodes : tracked[n] # NoUid => <<n, tracked[n]>> \in made

\* The marker is never written on a node that somebody else has cordoned, not
\* even by a PATCH that is applied long after it was given up.
ForeignCordonsKept ==
  [][\A n \in Nodes : node'[n].marked /\ ~ node[n].marked => ~ node[n].unschedulable]_vars

\* At every moment, so also in the list a forced exit prints: a node that
\* carries this run's cordon and is not listed is one whose worker is still at
\* work on it, before CordonNodes returns, or whose cordon was reported as
\* failed, which keeps every restart from starting.  A worker that has succeeded
\* leaves nothing to be listed later.
UnlistedIsReported ==
  \A n \in Nodes :
    node[n].exists /\ node[n].marked /\ node[n].unschedulable /\ tracked[n] # node[n].uid
      => (n \in Running /\ disp # "returned") \/ result[n] = "error"

\* A worker decides on success only of a node that is unschedulable, or gone,
\* at that moment: no pod that is restarted afterwards lands on it again.
Succeeds(n) == \/ pc[n] = "patch" /\ pc'[n] = "track"
               \/ pc[n] # "track" /\ result[n] = "unset" /\ result'[n] = "nil"
NilMeansCordoned ==
  [][\A n \in Nodes : Succeeds(n) => node'[n].unschedulable \/ ~ node'[n].exists]_vars

\* When CordonNodes returns, every selected node has an outcome; a node that
\* was not processed is one of the last in order, after a cancellation.
NodesAccounted ==
  disp = "returned" =>
    \A n \in Nodes :
      /\ result[n] # "unset"
      /\ result[n] = "notProcessed" <=> n >= next
      /\ n >= next => cancelled

\* Why they hold.  A marker is on a node only through this run's PATCH; the
\* resourceVersion still being current means the node is the schedulable
\* instance that was read; what a worker is about to claim is what it cordoned,
\* and nothing else is marked under that name; and once a worker is done, a
\* marked node is claimed or failed, an abandoned PATCH that may still be
\* applied belonging to a worker that reports an error.
MarkersAreOurs ==
  \A n \in Nodes : node[n].marked => <<n, node[n].uid>> \in made /\ pc[n] # "idle"

FreshIsSchedulable ==
  \A n \in Nodes : fresh[n] => /\ node[n].exists
                               /\ ~ node[n].unschedulable
                               /\ node[n].uid = seen[n]
                               /\ pc[n] # "idle"

TrackedIsCordoned ==
  \A n \in Nodes : pc[n] = "track" =>
    /\ <<n, seen[n]>> \in made
    /\ node[n].exists /\ node[n].marked => node[n].uid = seen[n]
    /\ ~ fresh[n]

DoneIsSettled ==
  \A n \in Nodes : pc[n] = "done" /\ result[n] = "nil" =>
    /\ node[n].exists /\ node[n].marked => tracked[n] = node[n].uid
    /\ inflight[n] => ~ fresh[n]

ResultsFollowPc ==
  \A n \in Nodes :
    /\ pc[n] = "idle" <=> n >= next
    /\ pc[n] = "done" <=> result[n] \in {"nil", "error"}
    /\ result[n] = "notProcessed" <=> n >= next /\ disp \in {"wait", "returned"}
    /\ result[n] = "notProcessed" => cancelled
    /\ disp = "returned" => pc[n] \in {"idle", "done"}

IInv == /\ TypeOK
        /\ disp = "go" => next <= N
        /\ \A n \in Nodes : node[n].uid <= changes + 1
        /\ ClaimsAreOurs
        /\ MarkersAreOurs
        /\ FreshIsSchedulable
        /\ TrackedIsCordoned
        /\ DoneIsSettled
        /\ ResultsFollowPc

\* "CordonedNodes returns the sorted names of the nodes cordoned by this run"
\* (cluster.go:385), taken literally once CordonNodes has returned.
ListIsComplete ==
  disp = "returned" =>
    \A n \in Nodes : node[n].exists /\ node[n].marked /\ node[n].unschedulable
                        => tracked[n] = node[n].uid

\* CordonNodes returns although the nodes may change between every read and
\* the PATCH that follows it.
CordonReturns == <>(disp = "returned")
==============================================================================
