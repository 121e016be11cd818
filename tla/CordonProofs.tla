---------------------------- MODULE CordonProofs ----------------------------
(***************************************************************************)
(* What Cordon keeps, for any number of nodes, workers, attempts and       *)
(* changes by others: IInv is inductive, and implies that claims are this  *)
(* run's own, that a cordoned node missing from the list was reported as   *)
(* failed, that every node has an outcome, and that a foreign cordon is    *)
(* never overwritten.                                                      *)
(***************************************************************************)
EXTENDS Cordon, TLAPS

USE CordonAssumption DEF Nodes, Uids, NoUid

NodeType == [uid : Uids, exists : BOOLEAN, unschedulable : BOOLEAN, marked : BOOLEAN]

\* TypeOK in three parts.
ClusterTypes == /\ node \in [Nodes -> NodeType]
                /\ fresh \in [Nodes -> BOOLEAN]
                /\ inflight \in [Nodes -> BOOLEAN]
                /\ changes \in 0 .. MaxChanges
                /\ made \subseteq Nodes \X Uids
WorkerTypes == /\ pc \in [Nodes -> {"idle", "read", "patch", "track", "verify", "done"}]
               /\ attempt \in [Nodes -> 0 .. MaxAttempts]
               /\ seen \in [Nodes -> {NoUid} \cup Uids]
               /\ tracked \in [Nodes -> {NoUid} \cup Uids]
               /\ result \in [Nodes -> {"unset", "nil", "error", "notProcessed"}]
DispatcherTypes == /\ next \in 1 .. (N + 1)
                   /\ disp \in {"check", "go", "wait", "returned"}
                   /\ cancelled \in BOOLEAN

LEMMA TypeParts == TypeOK <=> ClusterTypes /\ WorkerTypes /\ DispatcherTypes
BY DEF TypeOK, ClusterTypes, WorkerTypes, DispatcherTypes, NodeType

LEMMA TypePartsNext ==
  ClusterTypes' /\ WorkerTypes' /\ DispatcherTypes' => TypeOK'
BY DEF TypeOK, ClusterTypes, WorkerTypes, DispatcherTypes, NodeType

------------------------------------------------------------------------------
(* Cordoning one node, by this run or by others.                           *)

\* This run's PATCH hits the schedulable instance that was read and leaves its
\* uid alone.
Applied(n) ==
         /\ node[n].exists /\ ~ node[n].unschedulable /\ node[n].uid = seen[n]
         /\ node'[n].uid = node[n].uid /\ node'[n].marked
         /\ \A m \in Nodes \ {n} : node'[m] = node[m]
         /\ node' \in [Nodes -> NodeType]
         /\ fresh' = [fresh EXCEPT ![n] = FALSE]
         /\ made' = made \cup {<<n, node[n].uid>>}
         /\ made' \subseteq Nodes \X Uids
         /\ node[n].uid \in Uids
         /\ fresh[n] /\ pc[n] # "idle"

LEMMA ApplyNode == ASSUME IInv, NEW n \in Nodes, Apply(n) PROVE Applied(n)
<1>1. node[n] \in NodeType
  BY DEF IInv, TypeOK, NodeType
<1>2. [node[n] EXCEPT !.unschedulable = TRUE, !.marked = TRUE] \in NodeType
  BY <1>1 DEF NodeType
<1>3. node' \in [Nodes -> NodeType]
  BY <1>2 DEF Apply, IInv, TypeOK, NodeType
<1>4. <<n, node[n].uid>> \in Nodes \X Uids
  BY <1>1 DEF NodeType
<1>5. /\ node[n].exists /\ ~ node[n].unschedulable /\ node[n].uid = seen[n]
      /\ fresh[n] /\ pc[n] # "idle"
  BY DEF Apply, Accepts, IInv, FreshIsSchedulable
<1>6. node' = [node EXCEPT ![n] = [node[n] EXCEPT !.unschedulable = TRUE, !.marked = TRUE]]
  BY DEF Apply
<1>7. node'[n] = [node[n] EXCEPT !.unschedulable = TRUE, !.marked = TRUE]
  BY <1>6 DEF IInv, TypeOK
<1>8. \A m \in Nodes \ {n} : node'[m] = node[m]
  BY <1>6 DEF IInv, TypeOK
<1>9. node'[n].uid = node[n].uid /\ node'[n].marked
  BY <1>1, <1>7 DEF NodeType
<1>10. /\ fresh' = [fresh EXCEPT ![n] = FALSE]
       /\ made' = made \cup {<<n, node[n].uid>>}
       /\ made' \subseteq Nodes \X Uids
       /\ node[n].uid \in Uids
  BY <1>1, <1>4 DEF Apply, IInv, TypeOK, NodeType
<1> QED
  BY <1>3, <1>5, <1>8, <1>9, <1>10 DEF Applied

\* A change by others spends one of MaxChanges and outdates what was read.
LEMMA ChangeNode ==
  ASSUME IInv, NEW n \in Nodes, NEW new \in NodeType, Change(n, new),
         new.uid <= changes + 2
  PROVE  /\ TypeOK'
         /\ (\A m \in Nodes : node[m].uid <= changes + 1)'
         /\ node' = [node EXCEPT ![n] = new]
         /\ fresh' = [fresh EXCEPT ![n] = FALSE]
         /\ changes < MaxChanges
<1>1. node \in [Nodes -> NodeType]
  BY DEF IInv, TypeOK, NodeType
<1>2. node' \in [Nodes -> NodeType]
  BY <1>1 DEF Change
<1>3. /\ fresh' \in [Nodes -> BOOLEAN]
      /\ changes' \in 0 .. MaxChanges
  BY DEF Change, IInv, TypeOK
<1>4. TypeOK'
  BY <1>2, <1>3 DEF Change, IInv, TypeOK, NodeType, workerVars, dispVars
<1>5. \A m \in Nodes : node[m].uid \in Int /\ node'[m].uid \in Int
  BY <1>1, <1>2 DEF NodeType
<1>6. (\A m \in Nodes : node[m].uid <= changes + 1)'
  BY <1>1, <1>5 DEF Change, IInv, TypeOK
<1> QED
  BY <1>4, <1>6 DEF Change

------------------------------------------------------------------------------
(* The dispatcher.                                                         *)

LEMMA LetThroughInv == ASSUME IInv, LetThrough PROVE IInv'
BY SMTT(30) DEF IInv, TypeOK, ClaimsAreOurs, MarkersAreOurs, FreshIsSchedulable, TrackedIsCordoned,
                DoneIsSettled, ResultsFollowPc,
                LetThrough, workerVars

LEMMA StopDispatchInv == ASSUME IInv, StopDispatch PROVE IInv'
<1> USE DEF IInv
<1>1. TypeOK'
  BY SMTT(20) DEF TypeOK, StopDispatch
<1>2. (disp = "go" => next <= N)'
  BY SMTT(20) DEF TypeOK, StopDispatch
<1>3. (\A m \in Nodes : node[m].uid <= changes + 1)'
  BY SMTT(20) DEF TypeOK, StopDispatch
<1>4. MarkersAreOurs'
  BY SMTT(20) DEF TypeOK, MarkersAreOurs, StopDispatch
<1>5. ClaimsAreOurs'
  BY SMTT(20) DEF TypeOK, ClaimsAreOurs, MarkersAreOurs, StopDispatch
<1>6. FreshIsSchedulable'
  BY SMTT(20) DEF TypeOK, FreshIsSchedulable, StopDispatch
<1>7. DoneIsSettled'
  BY SMTT(20) DEF TypeOK, DoneIsSettled, FreshIsSchedulable, ResultsFollowPc, StopDispatch
<1>8. ResultsFollowPc'
  BY SMTT(20) DEF TypeOK, ResultsFollowPc, StopDispatch
<1>9. TrackedIsCordoned'
  BY SMTT(20) DEF TypeOK, TrackedIsCordoned, FreshIsSchedulable, ResultsFollowPc, StopDispatch
<1> QED BY <1>1, <1>2, <1>3, <1>4, <1>5, <1>6, <1>7, <1>8, <1>9

LEMMA StartWorkerInv == ASSUME IInv, StartWorker PROVE IInv'
<1> USE DEF IInv
<1>1. TypeOK'
  BY SMTT(20) DEF TypeOK, StartWorker
<1>2. (disp = "go" => next <= N)'
  BY SMTT(20) DEF TypeOK, StartWorker
<1>3. (\A m \in Nodes : node[m].uid <= changes + 1)'
  BY SMTT(20) DEF TypeOK, StartWorker
<1>4. MarkersAreOurs'
  BY SMTT(20) DEF TypeOK, MarkersAreOurs, StartWorker
<1>5. ClaimsAreOurs'
  BY SMTT(20) DEF TypeOK, ClaimsAreOurs, MarkersAreOurs, StartWorker
<1>6. FreshIsSchedulable'
  BY SMTT(20) DEF TypeOK, FreshIsSchedulable, StartWorker
<1>7. DoneIsSettled'
  BY SMTT(20) DEF TypeOK, DoneIsSettled, FreshIsSchedulable, ResultsFollowPc, StartWorker
<1>8. ResultsFollowPc'
  BY SMTT(20) DEF TypeOK, ResultsFollowPc, StartWorker
<1>9. TrackedIsCordoned'
  BY SMTT(20) DEF TypeOK, TrackedIsCordoned, FreshIsSchedulable, ResultsFollowPc, StartWorker
<1> QED BY <1>1, <1>2, <1>3, <1>4, <1>5, <1>6, <1>7, <1>8, <1>9

LEMMA AllDispatchedInv == ASSUME IInv, AllDispatched PROVE IInv'
<1> USE DEF IInv
<1>1. TypeOK'
  BY SMTT(20) DEF TypeOK, AllDispatched, workerVars
<1>2. (disp = "go" => next <= N)'
  BY SMTT(20) DEF TypeOK, AllDispatched, workerVars
<1>3. (\A m \in Nodes : node[m].uid <= changes + 1)'
  BY SMTT(20) DEF TypeOK, AllDispatched, workerVars
<1>4. MarkersAreOurs'
  BY DEF MarkersAreOurs, AllDispatched, workerVars
<1>5. ClaimsAreOurs'
  BY SMTT(20) DEF TypeOK, ClaimsAreOurs, MarkersAreOurs, AllDispatched, workerVars
<1>6. FreshIsSchedulable'
  BY SMTT(20) DEF TypeOK, FreshIsSchedulable, AllDispatched, workerVars
<1>7. DoneIsSettled'
  BY SMTT(20) DEF TypeOK, DoneIsSettled, FreshIsSchedulable, ResultsFollowPc, AllDispatched, workerVars
<1>8. ResultsFollowPc'
  BY SMTT(20) DEF TypeOK, ResultsFollowPc, AllDispatched, workerVars
<1>9. TrackedIsCordoned'
  BY SMTT(20) DEF TypeOK, TrackedIsCordoned, FreshIsSchedulable, ResultsFollowPc, AllDispatched, workerVars
<1> QED BY <1>1, <1>2, <1>3, <1>4, <1>5, <1>6, <1>7, <1>8, <1>9

LEMMA WaitAllInv == ASSUME IInv, WaitAll PROVE IInv'
<1> USE DEF IInv
<1>1. TypeOK'
  BY SMTT(20) DEF TypeOK, WaitAll, workerVars
<1>2. (disp = "go" => next <= N)'
  BY SMTT(20) DEF TypeOK, WaitAll, workerVars
<1>3. (\A m \in Nodes : node[m].uid <= changes + 1)'
  BY SMTT(20) DEF TypeOK, WaitAll, workerVars
<1>4. MarkersAreOurs'
  BY SMTT(20) DEF TypeOK, MarkersAreOurs, WaitAll, workerVars
<1>5. ClaimsAreOurs'
  BY SMTT(20) DEF TypeOK, ClaimsAreOurs, MarkersAreOurs, WaitAll, workerVars
<1>6. FreshIsSchedulable'
  BY SMTT(20) DEF TypeOK, FreshIsSchedulable, WaitAll, workerVars
<1>7. DoneIsSettled'
  BY SMTT(20) DEF TypeOK, DoneIsSettled, FreshIsSchedulable, ResultsFollowPc, WaitAll, workerVars
<1>8. ResultsFollowPc'
  <2>1. \A m \in Nodes : pc[m] \in {"idle", "done"}
    BY DEF WaitAll, Running, TypeOK
  <2> QED
    BY <2>1 DEF WaitAll, workerVars, TypeOK, ResultsFollowPc
<1>9. TrackedIsCordoned'
  BY SMTT(20) DEF TypeOK, TrackedIsCordoned, FreshIsSchedulable, ResultsFollowPc, WaitAll, workerVars
<1> QED BY <1>1, <1>2, <1>3, <1>4, <1>5, <1>6, <1>7, <1>8, <1>9

------------------------------------------------------------------------------
(* The worker of one node.                                                 *)

LEMMA ReadFailsInv == ASSUME IInv, NEW n \in Nodes, ReadFails(n) PROVE IInv'
BY SMTT(30) DEF IInv, TypeOK, ClaimsAreOurs, MarkersAreOurs, FreshIsSchedulable, TrackedIsCordoned,
                DoneIsSettled, ResultsFollowPc,
                ReadFails, dispVars, Return

LEMMA ReadAbsentInv == ASSUME IInv, NEW n \in Nodes, ReadAbsent(n) PROVE IInv'
BY SMTT(30) DEF IInv, TypeOK, ClaimsAreOurs, MarkersAreOurs, FreshIsSchedulable, TrackedIsCordoned,
                DoneIsSettled, ResultsFollowPc,
                ReadAbsent, dispVars, Return

LEMMA ReadCordonedInv == ASSUME IInv, NEW n \in Nodes, ReadCordoned(n) PROVE IInv'
<1> USE DEF IInv
<1>1. TypeOK'
  <2>1. ClusterTypes'
    BY TypeParts DEF ClusterTypes, ReadCordoned, dispVars, Return, Track, ClusterTypes, NodeType
  <2>2. WorkerTypes'
    BY TypeParts DEF WorkerTypes, ReadCordoned, dispVars, Return, Track, ClusterTypes, NodeType
  <2>3. DispatcherTypes'
    BY TypeParts DEF DispatcherTypes, ReadCordoned, dispVars, Return, Track, ClusterTypes, NodeType
  <2> QED BY <2>1, <2>2, <2>3, TypePartsNext
<1>2. (disp = "go" => next <= N)'
  BY SMTT(20) DEF TypeOK, ReadCordoned, dispVars, Return, Track
<1>3. (\A m \in Nodes : node[m].uid <= changes + 1)'
  BY SMTT(20) DEF TypeOK, ReadCordoned, dispVars, Return, Track
<1>4. MarkersAreOurs'
  BY SMTT(20) DEF TypeOK, MarkersAreOurs, ReadCordoned, dispVars, Return, Track
<1>5. ClaimsAreOurs'
  BY SMTT(20) DEF TypeOK, ClaimsAreOurs, MarkersAreOurs, ReadCordoned, dispVars, Return, Track
<1>6. FreshIsSchedulable'
  BY SMTT(20) DEF TypeOK, FreshIsSchedulable, ReadCordoned, dispVars, Return, Track
<1>7. DoneIsSettled'
  BY SMTT(20) DEF TypeOK, DoneIsSettled, FreshIsSchedulable, ResultsFollowPc, ReadCordoned, dispVars, Return, Track
<1>8. ResultsFollowPc'
  BY SMTT(20) DEF TypeOK, ResultsFollowPc, ReadCordoned, dispVars, Return, Track
<1>9. TrackedIsCordoned'
  BY SMTT(20) DEF TypeOK, TrackedIsCordoned, FreshIsSchedulable, ResultsFollowPc, ReadCordoned, dispVars, Return, Track
<1> QED BY <1>1, <1>2, <1>3, <1>4, <1>5, <1>6, <1>7, <1>8, <1>9

LEMMA ReadSchedulableInv == ASSUME IInv, NEW n \in Nodes, ReadSchedulable(n) PROVE IInv'
BY SMTT(30) DEF IInv, TypeOK, ClaimsAreOurs, MarkersAreOurs, FreshIsSchedulable, TrackedIsCordoned,
                DoneIsSettled, ResultsFollowPc,
                ReadSchedulable, dispVars

\* The attempts stay within their bound.
LEMMA ConflictTypes ==
  ASSUME IInv, NEW n \in Nodes, Conflict(n)
  PROVE  /\ pc' \in [Nodes -> {"idle", "read", "patch", "track", "verify", "done"}]
         /\ attempt' \in [Nodes -> 0 .. MaxAttempts]
         /\ result' \in [Nodes -> {"unset", "nil", "error", "notProcessed"}]
<1>1. CASE attempt[n] >= MaxAttempts
  BY <1>1 DEF Conflict, Return, IInv, TypeOK
<1>2. CASE ~ (attempt[n] >= MaxAttempts)
  <2>1. attempt[n] + 1 \in 0 .. MaxAttempts
    BY <1>2 DEF IInv, TypeOK
  <2>2. attempt' = [attempt EXCEPT ![n] = attempt[n] + 1]
    BY <1>2 DEF Conflict
  <2>3. attempt' \in [Nodes -> 0 .. MaxAttempts]
    BY <2>1, <2>2 DEF IInv, TypeOK
  <2> QED BY <1>2, <2>3 DEF Conflict, IInv, TypeOK
<1> QED BY <1>1, <1>2

\* A conflict sends the worker back to its read, or ends it.
LEMMA ConflictLeavesTracking ==
  ASSUME IInv, NEW n \in Nodes, pc[n] = "patch", Conflict(n), NEW m \in Nodes, pc'[m] = "track"
  PROVE  m # n /\ pc[m] = "track"
BY DEF Conflict, Return, IInv, TypeOK

\* The worker's place and its result change together.
LEMMA ConflictResults ==
  ASSUME IInv, NEW n \in Nodes, pc[n] = "patch", Conflict(n), UNCHANGED <<next, disp, cancelled>>
  PROVE  ResultsFollowPc'
<1>1. /\ n < next
      /\ result[n] # "notProcessed" /\ result[n] \notin {"nil", "error"}
      /\ disp # "returned"
  BY DEF IInv, TypeOK, ResultsFollowPc
<1>2. CASE attempt[n] >= MaxAttempts
  <2>1. pc' = [pc EXCEPT ![n] = "done"] /\ result' = [result EXCEPT ![n] = "error"]
    BY <1>2 DEF Conflict, Return
  <2> QED BY <1>1, <2>1 DEF IInv, TypeOK, ResultsFollowPc
<1>3. CASE ~ (attempt[n] >= MaxAttempts)
  <2>1. pc' = [pc EXCEPT ![n] = "read"] /\ UNCHANGED result
    BY <1>3 DEF Conflict
  <2> QED BY <1>1, <2>1 DEF IInv, TypeOK, ResultsFollowPc
<1> QED BY <1>2, <1>3

LEMMA PatchAnsweredInv == ASSUME IInv, NEW n \in Nodes, PatchAnswered(n) PROVE IInv'
<1> USE DEF IInv
<1>a. Applied(n)
  BY ApplyNode DEF PatchAnswered
<1>1. TypeOK'
  <2>1. ClusterTypes'
    BY <1>a, TypeParts DEF Applied, ClusterTypes, PatchAnswered, dispVars
  <2>2. WorkerTypes'
    BY <1>a, TypeParts DEF Applied, WorkerTypes, PatchAnswered, dispVars
  <2>3. DispatcherTypes'
    BY TypeParts DEF DispatcherTypes, PatchAnswered, dispVars
  <2> QED BY <2>1, <2>2, <2>3, TypePartsNext
<1>2. (disp = "go" => next <= N)'
  BY DEF PatchAnswered, dispVars
<1>3. (\A m \in Nodes : node[m].uid <= changes + 1)'
  <2>1. \A m \in Nodes : node'[m].uid = node[m].uid
    BY <1>a DEF Applied
  <2>2. UNCHANGED changes
    BY DEF PatchAnswered, dispVars
  <2> QED BY <2>1, <2>2
<1>4. MarkersAreOurs'
  BY <1>a, SMTT(20) DEF Applied, TypeOK, MarkersAreOurs, PatchAnswered, dispVars
<1>5. ClaimsAreOurs'
  BY <1>a, SMTT(20) DEF Applied, TypeOK, ClaimsAreOurs, PatchAnswered, dispVars
<1>6. FreshIsSchedulable'
  BY <1>a, SMTT(20) DEF Applied, TypeOK, FreshIsSchedulable, PatchAnswered, dispVars
<1>7. DoneIsSettled'
  BY <1>a, SMTT(20) DEF Applied, TypeOK, DoneIsSettled, ResultsFollowPc, PatchAnswered, dispVars
<1>8. ResultsFollowPc'
  BY SMTT(20) DEF TypeOK, ResultsFollowPc, PatchAnswered, dispVars
<1>9. TrackedIsCordoned'
  BY <1>a, SMTT(20) DEF Applied, TypeOK, TrackedIsCordoned, FreshIsSchedulable, ResultsFollowPc, PatchAnswered, dispVars
<1> QED BY <1>1, <1>2, <1>3, <1>4, <1>5, <1>6, <1>7, <1>8, <1>9

LEMMA TracksInv == ASSUME IInv, NEW n \in Nodes, Tracks(n) PROVE IInv'
<1> USE DEF IInv
<1>1. TypeOK'
  <2>1. ClusterTypes'
    BY TypeParts DEF ClusterTypes, Tracks, dispVars, Return, Track, ClusterTypes, NodeType
  <2>2. WorkerTypes'
    BY TypeParts DEF WorkerTypes, Tracks, dispVars, Return, Track, ClusterTypes, NodeType
  <2>3. DispatcherTypes'
    BY TypeParts DEF DispatcherTypes, Tracks, dispVars, Return, Track, ClusterTypes, NodeType
  <2> QED BY <2>1, <2>2, <2>3, TypePartsNext
<1>2. (disp = "go" => next <= N)'
  BY DEF Tracks, dispVars
<1>3. (\A m \in Nodes : node[m].uid <= changes + 1)'
  BY DEF Tracks, dispVars
<1>4. MarkersAreOurs'
  BY SMTT(20) DEF TypeOK, MarkersAreOurs, Tracks, dispVars, Return, Track
<1>5. ClaimsAreOurs'
  BY SMTT(20) DEF TypeOK, ClaimsAreOurs, MarkersAreOurs, TrackedIsCordoned, Tracks, dispVars, Return, Track
<1>6. FreshIsSchedulable'
  BY SMTT(20) DEF TypeOK, FreshIsSchedulable, Tracks, dispVars, Return, Track
<1>7. DoneIsSettled'
  <2>1. /\ tracked' = [tracked EXCEPT ![n] = seen[n]] /\ UNCHANGED <<node, fresh, inflight>>
        /\ pc' = [pc EXCEPT ![n] = "done"] /\ result' = [result EXCEPT ![n] = "nil"]
    BY DEF Tracks, Track, Return
  <2>2. /\ node[n].exists /\ node[n].marked => tracked'[n] = node[n].uid
        /\ ~ fresh[n]
    BY <2>1 DEF Tracks, TrackedIsCordoned, TypeOK
  <2> QED BY <2>1, <2>2 DEF DoneIsSettled, TypeOK
<1>8. ResultsFollowPc'
  BY SMTT(20) DEF TypeOK, ResultsFollowPc, Tracks, dispVars, Return, Track
<1>9. TrackedIsCordoned'
  BY SMTT(20) DEF TypeOK, TrackedIsCordoned, Tracks, dispVars, Return, Track
<1> QED BY <1>1, <1>2, <1>3, <1>4, <1>5, <1>6, <1>7, <1>8, <1>9

LEMMA PatchConflictsInv == ASSUME IInv, NEW n \in Nodes, PatchConflicts(n) PROVE IInv'
<1> USE DEF IInv
<1>1. TypeOK'
  <2>1. ClusterTypes'
    BY TypeParts DEF ClusterTypes, PatchConflicts, dispVars, Return, Conflict, NotApplied
  <2>2. WorkerTypes'
    BY TypeParts, ConflictTypes DEF WorkerTypes, PatchConflicts
  <2>3. DispatcherTypes'
    BY TypeParts DEF DispatcherTypes, PatchConflicts, dispVars, Return, Conflict, NotApplied
  <2> QED BY <2>1, <2>2, <2>3, TypePartsNext
<1>2. (disp = "go" => next <= N)'
  BY SMTT(20) DEF TypeOK, PatchConflicts, dispVars, Return, Conflict, NotApplied
<1>3. (\A m \in Nodes : node[m].uid <= changes + 1)'
  BY SMTT(20) DEF TypeOK, PatchConflicts, dispVars, Return, Conflict, NotApplied
<1>4. MarkersAreOurs'
  BY SMTT(20) DEF TypeOK, MarkersAreOurs, PatchConflicts, dispVars, Return, Conflict, NotApplied
<1>5. ClaimsAreOurs'
  BY SMTT(20) DEF TypeOK, ClaimsAreOurs, MarkersAreOurs, PatchConflicts, dispVars, Return, Conflict, NotApplied
<1>6. FreshIsSchedulable'
  BY SMTT(20) DEF TypeOK, FreshIsSchedulable, PatchConflicts, dispVars, Return, Conflict, NotApplied
<1>7. DoneIsSettled'
  BY SMTT(20) DEF TypeOK, DoneIsSettled, FreshIsSchedulable, ResultsFollowPc, PatchConflicts, dispVars, Return, Conflict, NotApplied
<1>8. ResultsFollowPc'
  BY ConflictResults DEF PatchConflicts, dispVars
<1>9. TrackedIsCordoned'
  BY ConflictLeavesTracking DEF NotApplied, TypeOK, TrackedIsCordoned, PatchConflicts
<1> QED BY <1>1, <1>2, <1>3, <1>4, <1>5, <1>6, <1>7, <1>8, <1>9

LEMMA PatchConflictsWithItselfInv == ASSUME IInv, NEW n \in Nodes, PatchConflictsWithItself(n) PROVE IInv'
<1> USE DEF IInv
<1>a. Applied(n)
  BY ApplyNode DEF PatchConflictsWithItself
<1>1. TypeOK'
  <2>1. ClusterTypes'
    BY <1>a, TypeParts DEF Applied, ClusterTypes, PatchConflictsWithItself, Return, Conflict, dispVars
  <2>2. WorkerTypes'
    BY TypeParts, ConflictTypes DEF WorkerTypes, PatchConflictsWithItself
  <2>3. DispatcherTypes'
    BY TypeParts DEF DispatcherTypes, PatchConflictsWithItself, Return, Conflict, dispVars
  <2> QED BY <2>1, <2>2, <2>3, TypePartsNext
<1>2. (disp = "go" => next <= N)'
  BY DEF PatchConflictsWithItself, Return, Conflict, dispVars
<1>3. (\A m \in Nodes : node[m].uid <= changes + 1)'
  <2>1. \A m \in Nodes : node'[m].uid = node[m].uid
    BY <1>a DEF Applied
  <2>2. UNCHANGED changes
    BY DEF PatchConflictsWithItself, Return, Conflict, dispVars
  <2> QED BY <2>1, <2>2
<1>4. MarkersAreOurs'
  BY <1>a, SMTT(20) DEF Applied, TypeOK, MarkersAreOurs, PatchConflictsWithItself, Return, Conflict, dispVars
<1>5. ClaimsAreOurs'
  BY <1>a, SMTT(20) DEF Applied, TypeOK, ClaimsAreOurs, PatchConflictsWithItself, Return, Conflict, dispVars
<1>6. FreshIsSchedulable'
  BY <1>a, SMTT(20) DEF Applied, TypeOK, FreshIsSchedulable, PatchConflictsWithItself, Return, Conflict, dispVars
<1>7. DoneIsSettled'
  BY <1>a, SMTT(20) DEF Applied, TypeOK, DoneIsSettled, ResultsFollowPc, PatchConflictsWithItself, Return, Conflict, dispVars
<1>8. ResultsFollowPc'
  BY ConflictResults DEF PatchConflictsWithItself, dispVars
<1>9. TrackedIsCordoned'
  <2> SUFFICES ASSUME NEW m \in Nodes, pc'[m] = "track"
               PROVE  /\ <<m, seen[m]>> \in made'
                      /\ node'[m].exists /\ node'[m].marked => node'[m].uid = seen[m]
                      /\ ~ fresh'[m]
    BY DEF TrackedIsCordoned, PatchConflictsWithItself
  <2>1. m # n /\ pc[m] = "track"
    BY ConflictLeavesTracking DEF PatchConflictsWithItself
  <2> QED BY <1>a, <2>1 DEF Applied, TypeOK, TrackedIsCordoned
<1> QED BY <1>1, <1>2, <1>3, <1>4, <1>5, <1>6, <1>7, <1>8, <1>9

LEMMA PatchNotFoundInv == ASSUME IInv, NEW n \in Nodes, PatchNotFound(n) PROVE IInv'
<1> USE DEF IInv
<1>1. TypeOK'
  BY SMTT(20) DEF TypeOK, PatchNotFound, dispVars, Return, NotApplied
<1>2. (disp = "go" => next <= N)'
  BY SMTT(20) DEF TypeOK, PatchNotFound, dispVars, Return, NotApplied
<1>3. (\A m \in Nodes : node[m].uid <= changes + 1)'
  BY SMTT(20) DEF TypeOK, PatchNotFound, dispVars, Return, NotApplied
<1>4. MarkersAreOurs'
  BY SMTT(20) DEF TypeOK, MarkersAreOurs, PatchNotFound, dispVars, Return, NotApplied
<1>5. ClaimsAreOurs'
  BY SMTT(20) DEF TypeOK, ClaimsAreOurs, MarkersAreOurs, PatchNotFound, dispVars, Return, NotApplied
<1>6. FreshIsSchedulable'
  BY SMTT(20) DEF TypeOK, FreshIsSchedulable, PatchNotFound, dispVars, Return, NotApplied
<1>7. DoneIsSettled'
  BY SMTT(20) DEF TypeOK, DoneIsSettled, FreshIsSchedulable, ResultsFollowPc, PatchNotFound, dispVars, Return, NotApplied
<1>8. ResultsFollowPc'
  BY SMTT(20) DEF TypeOK, ResultsFollowPc, PatchNotFound, dispVars, Return, NotApplied
<1>9. TrackedIsCordoned'
  BY SMTT(20) DEF TypeOK, TrackedIsCordoned, FreshIsSchedulable, ResultsFollowPc, PatchNotFound, dispVars, Return, NotApplied
<1> QED BY <1>1, <1>2, <1>3, <1>4, <1>5, <1>6, <1>7, <1>8, <1>9

LEMMA PatchRejectedInv == ASSUME IInv, NEW n \in Nodes, PatchRejected(n) PROVE IInv'
BY SMTT(30) DEF IInv, TypeOK, ClaimsAreOurs, MarkersAreOurs, FreshIsSchedulable, TrackedIsCordoned,
                DoneIsSettled, ResultsFollowPc,
                PatchRejected, dispVars, Return, NotApplied

LEMMA PatchUncertainAppliedInv == ASSUME IInv, NEW n \in Nodes, PatchUncertain(n), Apply(n) PROVE IInv'
<1> USE DEF IInv
<1>a. Applied(n)
  BY ApplyNode
<1>1. TypeOK'
  <2>1. ClusterTypes'
    BY <1>a, TypeParts DEF Applied, ClusterTypes, PatchUncertain, dispVars
  <2>2. WorkerTypes'
    BY <1>a, TypeParts DEF Applied, WorkerTypes, PatchUncertain, dispVars
  <2>3. DispatcherTypes'
    BY TypeParts DEF DispatcherTypes, PatchUncertain, dispVars
  <2> QED BY <2>1, <2>2, <2>3, TypePartsNext
<1>2. (disp = "go" => next <= N)'
  BY DEF PatchUncertain, dispVars
<1>3. (\A m \in Nodes : node[m].uid <= changes + 1)'
  <2>1. \A m \in Nodes : node'[m].uid = node[m].uid
    BY <1>a DEF Applied
  <2>2. UNCHANGED changes
    BY DEF PatchUncertain, dispVars
  <2> QED BY <2>1, <2>2
<1>4. MarkersAreOurs'
  BY <1>a, SMTT(20) DEF Applied, TypeOK, MarkersAreOurs, PatchUncertain, dispVars
<1>5. ClaimsAreOurs'
  BY <1>a, SMTT(20) DEF Applied, TypeOK, ClaimsAreOurs, PatchUncertain, dispVars
<1>6. FreshIsSchedulable'
  BY <1>a, SMTT(20) DEF Applied, TypeOK, FreshIsSchedulable, PatchUncertain, dispVars
<1>7. DoneIsSettled'
  BY <1>a, SMTT(20) DEF Applied, TypeOK, DoneIsSettled, ResultsFollowPc, PatchUncertain, dispVars
<1>8. ResultsFollowPc'
  BY SMTT(20) DEF TypeOK, ResultsFollowPc, PatchUncertain, dispVars
<1>9. TrackedIsCordoned'
  BY <1>a, SMTT(20) DEF Applied, TypeOK, TrackedIsCordoned, FreshIsSchedulable, ResultsFollowPc, PatchUncertain, dispVars
<1> QED BY <1>1, <1>2, <1>3, <1>4, <1>5, <1>6, <1>7, <1>8, <1>9

LEMMA PatchUncertainPendingInv == ASSUME IInv, NEW n \in Nodes, PatchUncertain(n), NotApplied PROVE IInv'
<1> USE DEF IInv
<1>1. TypeOK'
  <2>1. ClusterTypes'
    BY TypeParts DEF ClusterTypes, PatchUncertain, dispVars, NotApplied
  <2>2. WorkerTypes'
    BY TypeParts DEF WorkerTypes, PatchUncertain, dispVars, NotApplied
  <2>3. DispatcherTypes'
    BY TypeParts DEF DispatcherTypes, PatchUncertain, dispVars, NotApplied
  <2> QED BY <2>1, <2>2, <2>3, TypePartsNext
<1>2. (disp = "go" => next <= N)'
  BY SMTT(20) DEF TypeOK, PatchUncertain, dispVars, NotApplied
<1>3. (\A m \in Nodes : node[m].uid <= changes + 1)'
  BY SMTT(20) DEF TypeOK, PatchUncertain, dispVars, NotApplied
<1>4. MarkersAreOurs'
  BY SMTT(20) DEF TypeOK, MarkersAreOurs, PatchUncertain, dispVars, NotApplied
<1>5. ClaimsAreOurs'
  BY SMTT(20) DEF TypeOK, ClaimsAreOurs, MarkersAreOurs, PatchUncertain, dispVars, NotApplied
<1>6. FreshIsSchedulable'
  BY SMTT(20) DEF TypeOK, FreshIsSchedulable, PatchUncertain, dispVars, NotApplied
<1>7. DoneIsSettled'
  BY SMTT(20) DEF TypeOK, DoneIsSettled, FreshIsSchedulable, ResultsFollowPc, PatchUncertain, dispVars, NotApplied
<1>8. ResultsFollowPc'
  BY SMTT(20) DEF TypeOK, ResultsFollowPc, PatchUncertain, dispVars, NotApplied
<1>9. TrackedIsCordoned'
  BY SMTT(20) DEF TypeOK, TrackedIsCordoned, FreshIsSchedulable, ResultsFollowPc, PatchUncertain, dispVars, NotApplied
<1> QED BY <1>1, <1>2, <1>3, <1>4, <1>5, <1>6, <1>7, <1>8, <1>9

LEMMA VerifyOwnInv == ASSUME IInv, NEW n \in Nodes, VerifyOwn(n) PROVE IInv'
<1> USE DEF IInv
<1>1. TypeOK'
  <2>1. ClusterTypes'
    BY TypeParts DEF ClusterTypes, VerifyOwn, dispVars, Return, Track, OwnCordon, ClusterTypes, NodeType
  <2>2. WorkerTypes'
    BY TypeParts DEF WorkerTypes, VerifyOwn, dispVars, Return, Track, OwnCordon, ClusterTypes, NodeType
  <2>3. DispatcherTypes'
    BY TypeParts DEF DispatcherTypes, VerifyOwn, dispVars, Return, Track, OwnCordon, ClusterTypes, NodeType
  <2> QED BY <2>1, <2>2, <2>3, TypePartsNext
<1>2. (disp = "go" => next <= N)'
  BY DEF VerifyOwn, dispVars
<1>3. (\A m \in Nodes : node[m].uid <= changes + 1)'
  BY DEF VerifyOwn, dispVars
<1>4. MarkersAreOurs'
  BY SMTT(20) DEF TypeOK, MarkersAreOurs, VerifyOwn, dispVars, Return, Track, OwnCordon
<1>5. ClaimsAreOurs'
  BY SMTT(20) DEF TypeOK, ClaimsAreOurs, MarkersAreOurs, TrackedIsCordoned, VerifyOwn, dispVars, Return, Track, OwnCordon
<1>6. FreshIsSchedulable'
  BY SMTT(20) DEF TypeOK, FreshIsSchedulable, VerifyOwn, dispVars, Return, Track, OwnCordon
<1>7. DoneIsSettled'
  BY SMTT(20) DEF TypeOK, DoneIsSettled, FreshIsSchedulable, TrackedIsCordoned, ResultsFollowPc, VerifyOwn, dispVars, Return, Track, OwnCordon
<1>8. ResultsFollowPc'
  BY SMTT(20) DEF TypeOK, ResultsFollowPc, VerifyOwn, dispVars, Return, Track, OwnCordon
<1>9. TrackedIsCordoned'
  BY SMTT(20) DEF TypeOK, TrackedIsCordoned, VerifyOwn, dispVars, Return, Track, OwnCordon
<1> QED BY <1>1, <1>2, <1>3, <1>4, <1>5, <1>6, <1>7, <1>8, <1>9

LEMMA VerifyNotInv == ASSUME IInv, NEW n \in Nodes, VerifyNot(n) PROVE IInv'
BY SMTT(30) DEF IInv, TypeOK, ClaimsAreOurs, MarkersAreOurs, FreshIsSchedulable, TrackedIsCordoned,
                DoneIsSettled, ResultsFollowPc,
                VerifyNot, dispVars, Return

------------------------------------------------------------------------------
(* Everybody else.                                                         *)

LEMMA CancelInv == ASSUME IInv, Cancel PROVE IInv'
BY SMTT(30) DEF IInv, TypeOK, ClaimsAreOurs, MarkersAreOurs, FreshIsSchedulable, TrackedIsCordoned,
                DoneIsSettled, ResultsFollowPc,
                Cancel, workerVars, dispVars

LEMMA LateApplyInv == ASSUME IInv, NEW n \in Nodes, LateApply(n) PROVE IInv'
<1> USE DEF IInv
<1>a. Applied(n)
  BY ApplyNode DEF LateApply
<1>1. TypeOK'
  <2>1. ClusterTypes'
    BY <1>a, TypeParts DEF Applied, ClusterTypes, LateApply, workerVars, dispVars
  <2>2. WorkerTypes'
    BY <1>a, TypeParts DEF Applied, WorkerTypes, LateApply, workerVars, dispVars
  <2>3. DispatcherTypes'
    BY TypeParts DEF DispatcherTypes, LateApply, workerVars, dispVars
  <2> QED BY <2>1, <2>2, <2>3, TypePartsNext
<1>2. (disp = "go" => next <= N)'
  BY DEF LateApply, workerVars, dispVars
<1>3. (\A m \in Nodes : node[m].uid <= changes + 1)'
  <2>1. \A m \in Nodes : node'[m].uid = node[m].uid
    BY <1>a DEF Applied
  <2>2. UNCHANGED changes
    BY DEF LateApply, workerVars, dispVars
  <2> QED BY <2>1, <2>2
<1>4. MarkersAreOurs'
  BY <1>a, SMTT(20) DEF Applied, TypeOK, MarkersAreOurs, LateApply, workerVars, dispVars
<1>5. ClaimsAreOurs'
  BY <1>a, SMTT(20) DEF Applied, TypeOK, ClaimsAreOurs, LateApply, workerVars, dispVars
<1>6. FreshIsSchedulable'
  BY <1>a, SMTT(20) DEF Applied, TypeOK, FreshIsSchedulable, LateApply, workerVars, dispVars
<1>7. DoneIsSettled'
  BY <1>a, SMTT(20) DEF Applied, TypeOK, DoneIsSettled, ResultsFollowPc, LateApply, workerVars, dispVars
<1>8. ResultsFollowPc'
  BY SMTT(20) DEF TypeOK, ResultsFollowPc, LateApply, workerVars, dispVars
<1>9. TrackedIsCordoned'
  BY <1>a, SMTT(20) DEF Applied, TypeOK, TrackedIsCordoned, FreshIsSchedulable, ResultsFollowPc, LateApply, workerVars, dispVars
<1> QED BY <1>1, <1>2, <1>3, <1>4, <1>5, <1>6, <1>7, <1>8, <1>9

LEMMA HeartbeatInv == ASSUME IInv, NEW n \in Nodes, Heartbeat(n) PROVE IInv'
<1> USE DEF IInv
<1>1. TypeOK'
  BY SMTT(20) DEF TypeOK, Heartbeat, workerVars, dispVars
<1>2. (disp = "go" => next <= N)'
  BY SMTT(20) DEF TypeOK, Heartbeat, workerVars, dispVars
<1>3. (\A m \in Nodes : node[m].uid <= changes + 1)'
  BY SMTT(20) DEF TypeOK, Heartbeat, workerVars, dispVars
<1>4. MarkersAreOurs'
  BY SMTT(20) DEF TypeOK, MarkersAreOurs, Heartbeat, workerVars, dispVars
<1>5. ClaimsAreOurs'
  BY SMTT(20) DEF TypeOK, ClaimsAreOurs, MarkersAreOurs, Heartbeat, workerVars, dispVars
<1>6. FreshIsSchedulable'
  BY SMTT(20) DEF TypeOK, FreshIsSchedulable, Heartbeat, workerVars, dispVars
<1>7. DoneIsSettled'
  BY SMTT(20) DEF TypeOK, DoneIsSettled, FreshIsSchedulable, ResultsFollowPc, Heartbeat, workerVars, dispVars
<1>8. ResultsFollowPc'
  BY SMTT(20) DEF TypeOK, ResultsFollowPc, Heartbeat, workerVars, dispVars
<1>9. TrackedIsCordoned'
  BY SMTT(20) DEF TypeOK, TrackedIsCordoned, FreshIsSchedulable, ResultsFollowPc, Heartbeat, workerVars, dispVars
<1> QED BY <1>1, <1>2, <1>3, <1>4, <1>5, <1>6, <1>7, <1>8, <1>9

\* Whatever others do to a node, they never add this run's marker, and an
\* instance that comes back has a new uid and no marker.
LEMMA ChangeInv ==
  ASSUME IInv, NEW n \in Nodes, NEW new \in NodeType, Change(n, new),
         new.uid <= changes + 2,
         new.marked => node[n].marked /\ new.uid = node[n].uid,
         new.exists /\ new.marked => node[n].exists
  PROVE  IInv'
<1> USE DEF IInv
<1>1. /\ TypeOK'
      /\ (\A m \in Nodes : node[m].uid <= changes + 1)'
  BY ChangeNode
<1>2. (disp = "go" => next <= N)'
  BY DEF Change, dispVars
<1>3. MarkersAreOurs'
  BY ChangeNode DEF TypeOK, MarkersAreOurs, Change, workerVars
<1>4. ClaimsAreOurs'
  BY DEF ClaimsAreOurs, Change, workerVars
<1>5. FreshIsSchedulable'
  BY ChangeNode DEF TypeOK, FreshIsSchedulable, Change, workerVars
<1>6. DoneIsSettled'
  BY ChangeNode DEF TypeOK, DoneIsSettled, Change, workerVars
<1>7. ResultsFollowPc'
  BY DEF ResultsFollowPc, Change, workerVars, dispVars
<1>8. TrackedIsCordoned'
  BY ChangeNode DEF TypeOK, TrackedIsCordoned, Change, workerVars
<1> QED BY <1>1, <1>2, <1>3, <1>4, <1>5, <1>6, <1>7, <1>8

LEMMA OthersInv ==
  ASSUME IInv, NEW n \in Nodes, Others(n)
  PROVE  IInv'
<1>1. /\ node[n] \in NodeType
      /\ node[n].uid \in Int
      /\ changes \in Int
      /\ node[n].uid <= changes + 1
  BY DEF IInv, TypeOK, NodeType
<1>2. CASE LateApply(n)
  BY <1>2, LateApplyInv
<1>3. CASE Heartbeat(n)
  BY <1>3, HeartbeatInv
<1>4. CASE OthersCordon(n)
  <2> DEFINE new == [node[n] EXCEPT !.unschedulable = TRUE]
  <2>1. Change(n, new)
    BY <1>4 DEF OthersCordon
  <2>2. /\ new \in NodeType /\ new.uid = node[n].uid
        /\ new.marked = node[n].marked /\ new.exists = node[n].exists
    BY <1>1 DEF NodeType
  <2> HIDE DEF new
  <2> QED BY <1>1, <2>1, <2>2, ChangeInv
<1>5. CASE OthersUncordon(n)
  <2>1. PICK m \in {node[n].marked, FALSE} :
          Change(n, [node[n] EXCEPT !.unschedulable = FALSE, !.marked = m])
    BY <1>5 DEF OthersUncordon
  <2> DEFINE new == [node[n] EXCEPT !.unschedulable = FALSE, !.marked = m]
  <2>2. Change(n, new)
    BY <2>1
  <2>3. /\ new \in NodeType /\ new.uid = node[n].uid
        /\ new.marked => node[n].marked
        /\ new.exists = node[n].exists
    BY <1>1 DEF NodeType
  <2> HIDE DEF new
  <2> QED BY <1>1, <2>2, <2>3, ChangeInv
<1>6. CASE Deleted(n)
  <2> DEFINE new == [node[n] EXCEPT !.exists = FALSE]
  <2>1. Change(n, new)
    BY <1>6 DEF Deleted
  <2>2. /\ new \in NodeType /\ new.uid = node[n].uid
        /\ new.marked = node[n].marked /\ new.exists = FALSE
    BY <1>1 DEF NodeType
  <2> HIDE DEF new
  <2> QED BY <1>1, <2>1, <2>2, ChangeInv
<1>7. CASE Recreated(n)
  <2>1. PICK b \in BOOLEAN :
          Change(n, [uid |-> node[n].uid + 1, exists |-> TRUE, unschedulable |-> b, marked |-> FALSE])
    BY <1>7 DEF Recreated
  <2> DEFINE new == [uid |-> node[n].uid + 1, exists |-> TRUE, unschedulable |-> b, marked |-> FALSE]
  <2>2. Change(n, new) /\ changes < MaxChanges
    BY <2>1 DEF Change
  <2>3. /\ new \in NodeType /\ new.uid = node[n].uid + 1
        /\ new.marked = FALSE
    BY <1>1, <2>2 DEF NodeType
  <2> HIDE DEF new
  <2> QED BY <1>1, <2>2, <2>3, ChangeInv
<1> QED BY <1>2, <1>3, <1>4, <1>5, <1>6, <1>7 DEF Others

------------------------------------------------------------------------------
(* The specification.                                                      *)

LEMMA InitInv == Init => IInv
<1> SUFFICES ASSUME Init PROVE IInv
  OBVIOUS
<1>1. \A n \in Nodes : /\ node[n] \in [uid : {1}, exists : {TRUE}, unschedulable : BOOLEAN, marked : {FALSE}]
                        /\ node[n].uid = 1
                        /\ ~ node[n].marked
  BY DEF Init
<1>2. node \in [Nodes -> NodeType]
  <2>1. [uid : {1}, exists : {TRUE}, unschedulable : BOOLEAN, marked : {FALSE}] \subseteq NodeType
    <3>1. 1 \in Uids
      OBVIOUS
    <3> QED BY <3>1 DEF NodeType
  <2> QED BY <2>1 DEF Init
<1>3. TypeOK
  BY <1>2 DEF Init, TypeOK, NodeType
<1>4. ClaimsAreOurs /\ MarkersAreOurs /\ FreshIsSchedulable /\ TrackedIsCordoned /\ DoneIsSettled
  BY <1>1 DEF Init, ClaimsAreOurs, MarkersAreOurs, FreshIsSchedulable, TrackedIsCordoned, DoneIsSettled
<1>5. ResultsFollowPc
  BY DEF Init, ResultsFollowPc
<1>6. \A n \in Nodes : node[n].uid <= changes + 1
  <2>1. changes = 0
    BY DEF Init
  <2>2. \A n \in Nodes : node[n].uid = 1
    BY <1>1
  <2> QED BY <2>1, <2>2
<1> QED
  BY <1>3, <1>4, <1>5, <1>6 DEF Init, IInv

LEMMA WorkerInv == ASSUME IInv, NEW n \in Nodes, Worker(n) PROVE IInv'
<1>1. CASE PatchUncertain(n)
  <2>1. Apply(n) \/ NotApplied
    BY <1>1 DEF PatchUncertain
  <2> QED BY <1>1, <2>1, PatchUncertainAppliedInv, PatchUncertainPendingInv
<1>2. CASE ReadFails(n) \/ ReadAbsent(n) \/ ReadCordoned(n) \/ ReadSchedulable(n)
  BY <1>2, ReadFailsInv, ReadAbsentInv, ReadCordonedInv, ReadSchedulableInv
<1>3. CASE PatchAnswered(n) \/ Tracks(n) \/ PatchConflicts(n) \/ PatchConflictsWithItself(n)
  BY <1>3, PatchAnsweredInv, TracksInv, PatchConflictsInv, PatchConflictsWithItselfInv
<1>4. CASE PatchNotFound(n) \/ PatchRejected(n) \/ VerifyOwn(n) \/ VerifyNot(n)
  BY <1>4, PatchNotFoundInv, PatchRejectedInv, VerifyOwnInv, VerifyNotInv
<1> QED BY <1>1, <1>2, <1>3, <1>4 DEF Worker

LEMMA StepInv == IInv /\ [Next]_vars => IInv'
<1> SUFFICES ASSUME IInv, [Next]_vars PROVE IInv'
  OBVIOUS
<1>1. CASE Dispatcher
  BY <1>1, LetThroughInv, StopDispatchInv, StartWorkerInv, AllDispatchedInv, WaitAllInv
     DEF Dispatcher
<1>2. CASE \E n \in Nodes : Worker(n) \/ Others(n)
  BY <1>2, WorkerInv, OthersInv
<1>3. CASE Cancel
  BY <1>3, CancelInv
<1>4. CASE UNCHANGED vars
  BY <1>4 DEF vars, workerVars, dispVars, IInv, TypeOK, ClaimsAreOurs, MarkersAreOurs,
              FreshIsSchedulable, TrackedIsCordoned, DoneIsSettled, ResultsFollowPc
<1> QED BY <1>1, <1>2, <1>3, <1>4 DEF Next, Returned

\* Whatever happens to the nodes, the inductive invariant holds.
THEOREM Invariance == Spec => []IInv
BY InitInv, StepInv, PTL DEF Spec

\* Types, for every number of nodes, workers and attempts.
THEOREM TypeCorrect == Spec => []TypeOK
<1>1. IInv => TypeOK
  BY DEF IInv
<1> QED BY <1>1, Invariance, PTL

\* CordonedNodes only ever lists nodes this run's PATCH made unschedulable
\* (cordonNode, verifyOwnCordon, track).
THEOREM OnlyOwnNodesAreClaimed == Spec => []ClaimsAreOurs
<1>1. IInv => ClaimsAreOurs
  BY DEF IInv
<1> QED BY <1>1, Invariance, PTL

\* A node that carries this run's cordon at any moment, a forced exit's
\* included, and is not listed is still being cordoned, or made CordonNodes fail
\* (cordonNode tracks the node after the PATCH that cordons it).
THEOREM NothingIsSilentlyCordoned == Spec => []UnlistedIsReported
<1>1. IInv => UnlistedIsReported
  <2> SUFFICES ASSUME IInv, NEW n \in Nodes,
                      node[n].exists, node[n].marked, tracked[n] # node[n].uid,
                      n \notin Running \/ disp = "returned"
               PROVE  result[n] = "error"
    BY DEF UnlistedIsReported
  <2>1. pc[n] # "idle"
    BY DEF IInv, MarkersAreOurs
  <2>2. CASE n \notin Running
    BY <2>1, <2>2 DEF IInv, TypeOK, Running, DoneIsSettled, ResultsFollowPc
  <2>3. CASE disp = "returned"
    <3>1. pc[n] = "done" \/ pc[n] = "idle"
      BY <2>3 DEF IInv, ResultsFollowPc
    <3> QED BY <2>1, <3>1 DEF IInv, DoneIsSettled, ResultsFollowPc
  <2> QED BY <2>2, <2>3
<1> QED BY <1>1, Invariance, PTL

\* Every selected node has its outcome when CordonNodes returns.
THEOREM EveryNodeHasItsOutcome == Spec => []NodesAccounted
<1>1. IInv => NodesAccounted
  BY DEF IInv, TypeOK, NodesAccounted, ResultsFollowPc
<1> QED BY <1>1, Invariance, PTL

\* Only this run's conditional PATCH adds the marker, and it finds the node
\* schedulable; changes by others never add it.
THEOREM ForeignCordonsAreKept == Spec => ForeignCordonsKept
<1>1. ASSUME IInv, [Next]_vars, NEW m \in Nodes, node'[m].marked, ~ node[m].marked
      PROVE  ~ node[m].unschedulable
  <2>1. CASE UNCHANGED node
    BY <1>1, <2>1
  <2>2. ASSUME NEW n \in Nodes, Apply(n) PROVE ~ node[m].unschedulable
    BY <1>1, <2>2, ApplyNode DEF Applied
  <2>3. ASSUME NEW n \in Nodes, NEW new \in NodeType, Change(n, new),
               new.marked => node[n].marked
        PROVE  FALSE
    <3>1. node' = [node EXCEPT ![n] = new]
      BY <2>3 DEF Change
    <3> QED BY <1>1, <2>3, <3>1 DEF IInv, TypeOK
  <2>4. CASE Dispatcher \/ Cancel \/ UNCHANGED vars
    BY <1>1, <2>1, <2>4 DEF Dispatcher, LetThrough, StopDispatch, StartWorker, AllDispatched,
                            WaitAll, Cancel, vars
  <2>5. ASSUME NEW n \in Nodes, Worker(n) PROVE ~ node[m].unschedulable
    <3>1. Apply(n) \/ UNCHANGED node
      BY <2>5 DEF Worker, ReadFails, ReadAbsent, ReadCordoned, ReadSchedulable, PatchAnswered, Tracks,
                  PatchConflicts, PatchConflictsWithItself, PatchNotFound, PatchRejected,
                  PatchUncertain, VerifyOwn, VerifyNot, NotApplied
    <3> QED BY <2>1, <2>2, <3>1
  <2>6. ASSUME NEW n \in Nodes, Others(n) PROVE ~ node[m].unschedulable
    <3>1. /\ node[n] \in NodeType
          /\ node[n].uid \in Int
          /\ changes \in Int
          /\ node[n].uid <= changes + 1
      BY <1>1 DEF IInv, TypeOK, NodeType
    <3>2. CASE LateApply(n) \/ Heartbeat(n)
      BY <2>1, <2>2, <3>2 DEF LateApply, Heartbeat
    <3>3. CASE OthersCordon(n)
      <4> DEFINE new == [node[n] EXCEPT !.unschedulable = TRUE]
      <4>1. Change(n, new)
        BY <3>3 DEF OthersCordon
      <4>2. new \in NodeType /\ new.marked = node[n].marked
        BY <3>1 DEF NodeType
      <4> HIDE DEF new
      <4> QED BY <2>3, <4>1, <4>2
    <3>4. CASE OthersUncordon(n)
      <4>1. PICK b \in {node[n].marked, FALSE} :
              Change(n, [node[n] EXCEPT !.unschedulable = FALSE, !.marked = b])
        BY <3>4 DEF OthersUncordon
      <4> DEFINE new == [node[n] EXCEPT !.unschedulable = FALSE, !.marked = b]
      <4>2. Change(n, new)
        BY <4>1
      <4>3. new \in NodeType /\ (new.marked => node[n].marked)
        BY <3>1 DEF NodeType
      <4> HIDE DEF new
      <4> QED BY <2>3, <4>2, <4>3
    <3>5. CASE Deleted(n)
      <4> DEFINE new == [node[n] EXCEPT !.exists = FALSE]
      <4>1. Change(n, new)
        BY <3>5 DEF Deleted
      <4>2. new \in NodeType /\ new.marked = node[n].marked
        BY <3>1 DEF NodeType
      <4> HIDE DEF new
      <4> QED BY <2>3, <4>1, <4>2
    <3>6. CASE Recreated(n)
      <4>1. PICK b \in BOOLEAN :
              Change(n, [uid |-> node[n].uid + 1, exists |-> TRUE, unschedulable |-> b, marked |-> FALSE])
        BY <3>6 DEF Recreated
      <4> DEFINE new == [uid |-> node[n].uid + 1, exists |-> TRUE, unschedulable |-> b, marked |-> FALSE]
      <4>2. Change(n, new) /\ changes < MaxChanges
        BY <4>1 DEF Change
      <4>3. new \in NodeType /\ new.marked = FALSE
        BY <3>1, <4>2 DEF NodeType
      <4> HIDE DEF new
      <4> QED BY <2>3, <4>2, <4>3
    <3> QED BY <2>6, <3>2, <3>3, <3>4, <3>5, <3>6 DEF Others
  <2> QED BY <1>1, <2>4, <2>5, <2>6 DEF Next, Returned
<1>2. IInv /\ [Next]_vars =>
        [\A n \in Nodes : node'[n].marked /\ ~ node[n].marked => ~ node[n].unschedulable]_vars
  BY <1>1
<1> QED BY <1>2, Invariance, PTL DEF Spec, ForeignCordonsKept

\* No worker takes a node for cordoned that is still schedulable (cordonNode's
\* returns without an error): success comes with a read, a PATCH answered or a
\* verification of that very moment, and is only recorded after it.
THEOREM SuccessIsCordoned == Spec => NilMeansCordoned
<1>1. ASSUME IInv, [Next]_vars, NEW m \in Nodes, Succeeds(m)
      PROVE  node'[m].unschedulable \/ ~ node'[m].exists
  <2>1. /\ result \in [Nodes -> {"unset", "nil", "error", "notProcessed"}]
        /\ pc \in [Nodes -> {"idle", "read", "patch", "track", "verify", "done"}]
        /\ node \in [Nodes -> NodeType]
    BY <1>1 DEF IInv, TypeOK, NodeType
  <2>2. ASSUME UNCHANGED result, \/ UNCHANGED pc
                                 \/ \E n \in Nodes, v \in {"read", "verify"} : pc' = [pc EXCEPT ![n] = v]
        PROVE  FALSE
    BY <1>1, <2>1, <2>2 DEF Succeeds
  <2>3. CASE Dispatcher \/ Cancel \/ UNCHANGED vars
    BY <1>1, <2>1, <2>3 DEF Succeeds, Dispatcher, LetThrough, StopDispatch, StartWorker,
                            AllDispatched, WaitAll, Cancel, workerVars, vars
  <2>4. ASSUME NEW n \in Nodes, Others(n) PROVE FALSE
    BY <2>2, <2>4 DEF Others, LateApply, Heartbeat, OthersCordon, OthersUncordon, Deleted, Recreated,
                      Change, workerVars
  <2>5. ASSUME NEW n \in Nodes, Worker(n) PROVE node'[m].unschedulable \/ ~ node'[m].exists
    <3>1. CASE ReadFails(n) \/ PatchRejected(n) \/ VerifyNot(n)
      BY <1>1, <2>1, <3>1 DEF Succeeds, ReadFails, PatchRejected, VerifyNot, Return
    <3>2. CASE ReadSchedulable(n) \/ PatchUncertain(n)
      BY <1>1, <2>1, <3>2 DEF Succeeds, ReadSchedulable, PatchUncertain
    <3>3. CASE PatchConflicts(n) \/ PatchConflictsWithItself(n)
      BY <1>1, <2>1, <3>3 DEF Succeeds, PatchConflicts, PatchConflictsWithItself, Conflict, Return
    <3>4. CASE ReadAbsent(n) \/ ReadCordoned(n) \/ PatchNotFound(n)
      BY <1>1, <2>1, <3>4 DEF Succeeds, ReadAbsent, ReadCordoned, PatchNotFound, Return, NotApplied
    <3>5. CASE PatchAnswered(n)
      <4>1. m = n
        BY <1>1, <2>1, <3>5 DEF Succeeds, PatchAnswered
      <4> QED BY <2>1, <3>5, <4>1 DEF PatchAnswered, Apply, NodeType
    <3>6. CASE Tracks(n)
      BY <1>1, <2>1, <3>6 DEF Succeeds, Tracks, Return
    <3>7. CASE VerifyOwn(n)
      <4>1. m = n
        BY <1>1, <2>1, <3>7 DEF Succeeds, VerifyOwn, Return
      <4> QED BY <3>7, <4>1 DEF VerifyOwn, OwnCordon
    <3> QED BY <2>5, <3>1, <3>2, <3>3, <3>4, <3>5, <3>6, <3>7 DEF Worker
  <2> QED BY <1>1, <2>3, <2>4, <2>5 DEF Next, Returned
<1>2. IInv /\ [Next]_vars =>
        [\A n \in Nodes : Succeeds(n) => node'[n].unschedulable \/ ~ node'[n].exists]_vars
  BY <1>1
<1> QED BY <1>2, Invariance, PTL DEF Spec, NilMeansCordoned
==============================================================================
