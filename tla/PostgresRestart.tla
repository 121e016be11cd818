--------------------------- MODULE PostgresRestart ---------------------------
(***************************************************************************)
(* restartPostgresqlCluster (pkg/operations/postgresql.go): one cluster of *)
(* the Zalando operator.  Check the cluster, mark each of its pods, touch  *)
(* the custom resource so that the operator syncs, wait until the operator *)
(* has replaced the marked pods, and after a failure take the markers back.*)
(* The operator replaces marked pods whenever it likes: a sync nobody      *)
(* asked for does it too.                                                  *)
(*                                                                         *)
(* The marker and its owner annotation are set and removed by one PATCH,   *)
(* so they are one mark here: none, this run's ("us") or somebody else's   *)
(* ("other").  The custom resource's status is read and used at once, and    *)
(* says anything: a read picks it.  A pod being deleted and a name without *)
(* a pod count for as much as a pod that is not ready.                     *)
(***************************************************************************)
EXTENDS Integers

CONSTANTS N,                \* spec.numberOfInstances, which nobody changes
          MaxUid,           \* bound: instances a pod name goes through
          MarkAttempts,     \* postgresqlMarkAttempts
          UnmarkAttempts,   \* postgresqlUnmarkAttempts
          MaxRetriggers,    \* postgresqlMaxRetriggers
          MaxMarksByOthers, \* bound: marks set by the operator or another run
          SkipWait          \* --skip-wait

ASSUME PostgresAssumption ==
  /\ N \in Nat \ {0}
  /\ MaxUid \in Nat \ {0}
  /\ MarkAttempts \in Nat \ {0}
  /\ UnmarkAttempts \in Nat \ {0}
  /\ MaxRetriggers \in Nat
  /\ MaxMarksByOthers \in Nat
  /\ SkipWait \in BOOLEAN

Names == 1 .. N
Pods == Names \X (1 .. MaxUid)  \* a pod instance: <<name, uid>>

VARIABLES
  pod,       \* the cluster's pods, one per name
  fresh,     \* the pod has not changed since it was listed for marking
  inflight,  \* PATCHes the client gave up on that may still be applied
  others,    \* counts the marks set by others, up to MaxMarksByOthers
  touched,   \* the custom resource was, or may have been, touched
  pc,        \* where restartPostgresqlCluster is
  attempt,   \* attempt of markPods; 0 in preflight
  pending,   \* pods still to be marked in this attempt
  stale,     \* a pod changed under this attempt
  marked,    \* pods that were, or may have been, marked
  retriggers,\* re-triggered syncs
  expired,   \* --timeout has run out
  failed,    \* an error was collected: it will be returned
  tripped,   \* the run-wide stop is set
  left,      \* pending of removeMarkers: pods not known to be clean
  round,     \* attempt of removeMarkers
  todo,      \* pods whose marker this round removes
  report,    \* what the summary says of each pod
  result,    \* what restartPostgresqlCluster returned
  cancelled, \* the run's context is cancelled
  planned,   \* history: pods of the preflight
  applied,   \* history: pods that ever carried this run's mark
  unseen     \* history: marks applied late, or answered as a conflict

clusterVars == <<pod, fresh, inflight, others, touched>>
markVars == <<attempt, pending, stale, marked>>
waitVars == <<retriggers, expired>>
endVars == <<failed, tripped, result>>
cleanVars == <<left, round, todo, report>>
history == <<planned, applied, unseen>>
vars == <<clusterVars, pc, markVars, waitVars, endVars, cleanVars, cancelled, history>>

TypeOK ==
  /\ pod \in [Names -> [uid : 1 .. MaxUid, ready : BOOLEAN, mark : {"none", "us", "other"}]]
  /\ fresh \in [Names -> BOOLEAN]
  /\ inflight \subseteq [op : {"mark", "unmark"}, pod : Pods]
  /\ others \in 0 .. MaxMarksByOthers
  /\ touched \in BOOLEAN
  /\ pc \in {"plan", "mark", "trigger", "observe", "retrigger", "tick",
             "listMarked", "unmark", "returned"}
  /\ attempt \in 0 .. MarkAttempts
  /\ pending \subseteq Pods /\ marked \subseteq Pods
  /\ stale \in BOOLEAN
  /\ retriggers \in 0 .. MaxRetriggers
  /\ expired \in BOOLEAN /\ cancelled \in BOOLEAN
  /\ failed \in BOOLEAN /\ tripped \in BOOLEAN
  /\ left \subseteq Pods /\ todo \subseteq Pods
  /\ round \in 1 .. (UnmarkAttempts + 1)
  /\ report \in [Pods -> {"none", "rotated", "removed", "neverMarked", "foreign", "stillMarked"}]
  /\ result \in {"unset", "nil", "error"}
  /\ planned \subseteq Pods /\ applied \subseteq Pods /\ unseen \subseteq Pods

Init ==
  /\ pod \in [Names -> [uid : {1}, ready : {TRUE}, mark : {"none", "other"}]]
  /\ fresh = [n \in Names |-> FALSE]
  /\ inflight = {}
  /\ others = 0
  /\ touched = FALSE
  /\ pc = "plan"
  /\ attempt = 0 /\ pending = {} /\ stale = FALSE /\ marked = {}
  /\ retriggers = 0 /\ expired = FALSE
  /\ failed = FALSE /\ tripped = FALSE /\ result = "unset"
  /\ left = {} /\ round = 1 /\ todo = {} /\ report = [p \in Pods |-> "none"]
  /\ cancelled = FALSE
  /\ planned = {} /\ applied = {} /\ unseen = {}

------------------------------------------------------------------------------
(* The pods as the API server has them, and PATCHes on them.               *)

Instance(n) == <<n, pod[n].uid>>
Exists(p) == pod[p[1]].uid = p[2]
Existing == {p \in Pods : Exists(p)}
MarkOf(p) == pod[p[1]].mark
Ours == {p \in Existing : MarkOf(p) = "us"}  \* pods that carry this run's mark

\* The JSON patches test the uid and, to mark, the resourceVersion listed
\* last, or, to unmark, that the mark is this run's.
Slip_CanMark(p) == Exists(p)  \* the resourceVersion is not tested
CanMark(p) == Exists(p) /\ fresh[p[1]]
CanUnmark(p) == Exists(p) /\ MarkOf(p) = "us"

SetMark(p, m) ==
  /\ pod' = [pod EXCEPT ![p[1]].mark = m]
  /\ fresh' = [fresh EXCEPT ![p[1]] = FALSE]
  /\ applied' = IF m = "us" THEN applied \cup {p} ELSE applied

NotSent == UNCHANGED <<pod, fresh, applied>>

------------------------------------------------------------------------------
(* Failures set the run-wide stop first; then markers are taken back.      *)

Fail == failed' = TRUE /\ tripped' = TRUE

Return(r) == pc' = "returned" /\ result' = r

\* removeMarkers(ms); with no pod to clean it returns at once.
Cleanup(ms) ==
  /\ left' = ms
  /\ IF ms = {} THEN Return("error") ELSE pc' = "listMarked" /\ UNCHANGED result

------------------------------------------------------------------------------
(* healthyPods, for preflight (attempt 0) and for each refresh.            *)

\* "skipped, no pods were marked", or "cluster changed while being marked".
PlanFails ==
  /\ pc = "plan"
  /\ Fail
  /\ Cleanup(marked)
  /\ UNCHANGED <<clusterVars, markVars, waitVars, round, todo, report, cancelled, history>>

ToMark == {p \in Existing : p \notin marked}

\* Status Running, all pods there and Ready, and none of those that are to be
\* marked carries a mark.
PodsHealthy ==
  /\ pc = "plan"
  /\ ~ cancelled
  /\ \A n \in Names : pod[n].ready
  /\ \A p \in ToMark : MarkOf(p) = "none"
  /\ pending' = ToMark
  /\ fresh' = [n \in Names |-> Instance(n) \in ToMark]
  /\ attempt' = attempt + 1
  /\ stale' = FALSE
  /\ planned' = IF attempt = 0 THEN Existing ELSE planned
  /\ pc' = "mark"
  /\ UNCHANGED <<pod, inflight, others, touched, marked, waitVars, endVars, cleanVars,
                 cancelled, applied, unseen>>

------------------------------------------------------------------------------
(* markPods.                                                               *)

\* Pods are marked in the order of their names.
Marking(p) ==
  /\ pc = "mark"
  /\ p \in pending
  /\ \A q \in pending : p[1] <= q[1]
  /\ pending' = pending \ {p}
  /\ UNCHANGED <<others, touched, attempt, waitVars, round, todo, report, cancelled, planned>>

MarkAnswered(p) ==
  /\ Marking(p)
  /\ ~ cancelled
  /\ CanMark(p)
  /\ SetMark(p, "us")
  /\ marked' = marked \cup {p}
  /\ UNCHANGED <<inflight, pc, stale, endVars, left, unseen>>

\* 404, 409 or 422: the pod changed since it was listed.
MarkIsStale(p) ==
  /\ Marking(p)
  /\ ~ cancelled
  /\ ~ CanMark(p)
  /\ NotSent
  /\ stale' = TRUE
  /\ UNCHANGED <<inflight, pc, marked, endVars, left, unseen>>

\* client-go repeats a request answered by 5xx with Retry-After: the first try
\* was applied, the second one fails the test of the resourceVersion.
MarkMissesItself(p) ==
  /\ Marking(p)
  /\ ~ cancelled
  /\ CanMark(p)
  /\ SetMark(p, "us")
  /\ stale' = TRUE
  /\ unseen' = unseen \cup {p}
  /\ UNCHANGED <<inflight, pc, marked, endVars, left>>

\* Any other 4xx.
MarkRejected(p) ==
  /\ Marking(p)
  /\ ~ cancelled
  /\ NotSent
  /\ Fail
  /\ Cleanup(marked)
  /\ UNCHANGED <<inflight, stale, marked, unseen>>

\* 5xx, a broken connection, a cancelled context: applied, never, or later.
MarkUncertain(p) ==
  /\ Marking(p)
  /\ \/ CanMark(p) /\ SetMark(p, "us") /\ UNCHANGED inflight
     \/ NotSent /\ UNCHANGED inflight
     \/ NotSent /\ inflight' = inflight \cup {[op |-> "mark", pod |-> p]}
  /\ marked' = marked \cup {p}
  /\ Fail
  /\ Cleanup(marked')
  /\ UNCHANGED <<stale, unseen>>

\* Some pods changed: the plan is refreshed, a bounded number of times.
Refresh ==
  /\ pc = "mark"
  /\ pending = {}
  /\ stale
  /\ IF attempt >= MarkAttempts
     THEN Fail /\ Cleanup(marked)
     ELSE pc' = "plan" /\ UNCHANGED <<endVars, left>>
  /\ UNCHANGED <<clusterVars, markVars, waitVars, round, todo, report, cancelled, history>>

Slip_AllMarked ==  \* a pod that changed was replaced anyway
  /\ pc = "mark"
  /\ pending = {}
  /\ pc' = "trigger"
  /\ UNCHANGED <<clusterVars, markVars, waitVars, endVars, cleanVars, cancelled, history>>

AllMarked ==
  /\ pc = "mark"
  /\ pending = {}
  /\ ~ stale
  /\ pc' = "trigger"
  /\ UNCHANGED <<clusterVars, markVars, waitVars, endVars, cleanVars, cancelled, history>>

------------------------------------------------------------------------------
(* triggerSync.                                                            *)

TriggerAnswered ==
  /\ pc = "trigger"
  /\ ~ cancelled
  /\ touched' = TRUE
  /\ IF SkipWait THEN Return("nil") ELSE pc' = "observe" /\ UNCHANGED result
  /\ UNCHANGED <<pod, fresh, inflight, others, markVars, waitVars, failed, tripped, cleanVars,
                 cancelled, history>>

TriggerRejected ==
  /\ pc = "trigger"
  /\ ~ cancelled
  /\ Fail
  /\ Cleanup(marked)
  /\ UNCHANGED <<clusterVars, markVars, waitVars, round, todo, report, cancelled, history>>

\* The rotation is waited for all the same; with --skip-wait nobody does.
TriggerUncertain ==
  /\ pc = "trigger"
  /\ touched' = TRUE
  /\ Fail
  /\ IF SkipWait THEN Cleanup(marked) ELSE pc' = "observe" /\ UNCHANGED <<result, left>>
  /\ UNCHANGED <<pod, fresh, inflight, others, markVars, waitVars, round, todo, report,
                 cancelled, history>>

------------------------------------------------------------------------------
(* waitForRotation: observe, perhaps re-trigger, wait for the ticker.      *)

\* A request fails for sure once the context is done, and then it is the
\* context's end that counts, not the error.
ObserveFails ==
  /\ pc = "observe"
  /\ pc' = "tick"
  /\ IF expired \/ cancelled THEN UNCHANGED <<failed, tripped>> ELSE Fail
  /\ UNCHANGED <<clusterVars, markVars, waitVars, result, cleanVars, cancelled, history>>

Observing ==
  /\ pc = "observe"
  /\ ~ expired /\ ~ cancelled
  /\ UNCHANGED <<clusterVars, markVars, expired, failed, tripped, cleanVars, cancelled, history>>

Slip_RotationDone ==  \* the pods are ready: which pods is not asked
  \A n \in Names : pod[n].ready

RotationDone ==
  /\ marked \cap Existing = {}
  /\ \A n \in Names : pod[n].ready /\ pod[n].mark = "none"

Done ==
  /\ Observing
  /\ RotationDone
  /\ Return(IF failed THEN "error" ELSE "nil")
  /\ UNCHANGED retriggers

\* The pods, or the status, are not there yet.
NotDone ==
  /\ Observing
  /\ pc' = "tick"
  /\ UNCHANGED <<retriggers, result>>

\* The status is one of a failed sync, or no pod was replaced for a while.
Stalled ==
  /\ Observing
  /\ retriggers < MaxRetriggers
  /\ retriggers' = retriggers + 1
  /\ pc' = "retrigger"
  /\ UNCHANGED result

Retrigger ==
  /\ pc = "retrigger"
  /\ \/ ~ expired /\ ~ cancelled /\ UNCHANGED <<failed, tripped>>
     \/ Fail
  /\ pc' = "tick"
  /\ UNCHANGED <<clusterVars, markVars, waitVars, result, cleanVars, cancelled, history>>

\* select picks at random when the ticker and the context are both ready.
Tick ==
  /\ pc = "tick"
  /\ pc' = "observe"
  /\ UNCHANGED <<clusterVars, markVars, waitVars, endVars, cleanVars, cancelled, history>>

Slip_GiveUp ==  \* waits for the rotation as long as it takes, or for the signal
  /\ pc = "tick"
  /\ cancelled
  /\ Fail
  /\ Cleanup(marked)
  /\ UNCHANGED <<clusterVars, markVars, waitVars, round, todo, report, cancelled, history>>

GiveUp ==
  /\ pc = "tick"
  /\ expired \/ cancelled
  /\ Fail
  /\ Cleanup(marked)
  /\ UNCHANGED <<clusterVars, markVars, waitVars, round, todo, report, cancelled, history>>

------------------------------------------------------------------------------
(* removeMarkers, under a context of its own.                              *)

ListFails ==
  /\ pc = "listMarked"
  /\ left # {} /\ round <= UnmarkAttempts
  /\ round' = round + 1
  /\ UNCHANGED <<clusterVars, pc, markVars, waitVars, endVars, left, todo, report, cancelled, history>>

\* Each pod left is gone, carries no mark, carries somebody else's, or ours.
Verdict(p) == CASE ~ Exists(p) -> "rotated"
                [] Exists(p) /\ MarkOf(p) = "none" -> "neverMarked"
                [] Exists(p) /\ MarkOf(p) = "other" -> "foreign"
                [] Exists(p) /\ MarkOf(p) = "us" -> "none"

ListMarked ==
  /\ pc = "listMarked"
  /\ left # {} /\ round <= UnmarkAttempts
  /\ report' = [p \in Pods |-> IF p \in left THEN Verdict(p) ELSE report[p]]
  /\ todo' = {p \in left : Verdict(p) = "none"}
  /\ left' = todo'
  /\ pc' = "unmark"
  /\ UNCHANGED <<clusterVars, markVars, waitVars, endVars, round, cancelled, history>>

Unmarking(p) ==
  /\ pc = "unmark"
  /\ p \in todo
  /\ todo' = todo \ {p}
  /\ UNCHANGED <<pc, others, touched, markVars, waitVars, endVars, round, cancelled, planned, unseen>>

Unmarked(p) ==
  /\ Unmarking(p)
  /\ CanUnmark(p)
  /\ SetMark(p, "none")
  /\ report' = [report EXCEPT ![p] = "removed"]
  /\ left' = left \ {p}
  /\ UNCHANGED inflight

Slip_UnmarkFails(p) ==  \* sent is as good as done
  /\ Unmarking(p)
  /\ \/ CanUnmark(p) /\ SetMark(p, "none") /\ UNCHANGED inflight
     \/ NotSent /\ UNCHANGED inflight
     \/ NotSent /\ inflight' = inflight \cup {[op |-> "unmark", pod |-> p]}
  /\ report' = [report EXCEPT ![p] = "removed"]
  /\ left' = left \ {p}

\* Rejected (the pod is gone, say) or without a usable answer: tried again in
\* the next round.
UnmarkFails(p) ==
  /\ Unmarking(p)
  /\ \/ CanUnmark(p) /\ SetMark(p, "none") /\ UNCHANGED inflight
     \/ NotSent /\ UNCHANGED inflight
     \/ NotSent /\ inflight' = inflight \cup {[op |-> "unmark", pod |-> p]}
  /\ UNCHANGED <<report, left>>

NextRound ==
  /\ pc = "unmark"
  /\ todo = {}
  /\ round' = round + 1
  /\ pc' = "listMarked"
  /\ UNCHANGED <<clusterVars, markVars, waitVars, endVars, left, todo, report, cancelled, history>>

\* Nothing is left, the rounds are used up, or the cleanup timed out.
CleanupEnds ==
  /\ pc = "listMarked"
  /\ left = {} \/ round > 1
  /\ report' = [p \in Pods |-> IF p \in left THEN "stillMarked" ELSE report[p]]
  /\ Return("error")
  /\ UNCHANGED <<clusterVars, markVars, waitVars, failed, tripped, left, round, todo, cancelled, history>>

Step == \/ PlanFails \/ PodsHealthy
        \/ \E p \in Pods : \/ MarkAnswered(p) \/ MarkIsStale(p) \/ MarkMissesItself(p)
                           \/ MarkRejected(p) \/ MarkUncertain(p)
        \/ Refresh \/ AllMarked
        \/ TriggerAnswered \/ TriggerRejected \/ TriggerUncertain
        \/ ObserveFails \/ Done \/ NotDone \/ Stalled \/ Retrigger \/ Tick \/ GiveUp
        \/ ListFails \/ ListMarked \/ NextRound \/ CleanupEnds
        \/ \E p \in Pods : Unmarked(p) \/ UnmarkFails(p)

------------------------------------------------------------------------------
(* Everybody else.                                                         *)

Cancel ==
  /\ ~ cancelled
  /\ cancelled' = TRUE
  /\ UNCHANGED <<clusterVars, pc, markVars, waitVars, endVars, cleanVars, history>>

\* --timeout runs from the start of the wait.
Expire ==
  /\ pc \in {"observe", "retrigger", "tick"}
  /\ ~ expired
  /\ expired' = TRUE
  /\ UNCHANGED <<clusterVars, pc, markVars, retriggers, endVars, cleanVars, cancelled, history>>

\* The API server gets to a PATCH the client gave up on.
LateApply(r) ==
  /\ r \in inflight
  /\ inflight' = inflight \ {r}
  /\ IF r.op = "mark"
     THEN CanMark(r.pod) /\ SetMark(r.pod, "us") /\ unseen' = unseen \cup {r.pod}
     ELSE CanUnmark(r.pod) /\ SetMark(r.pod, "none") /\ UNCHANGED unseen
  /\ UNCHANGED <<others, touched, pc, markVars, waitVars, endVars, cleanVars, cancelled, planned>>

PodChanges(n, new) ==
  /\ pod' = [pod EXCEPT ![n] = new]
  /\ fresh' = [fresh EXCEPT ![n] = FALSE]
  /\ UNCHANGED <<inflight, touched, pc, markVars, waitVars, endVars, cleanVars, cancelled, history>>

\* The operator deletes a marked pod, and anybody may evict any pod; one of the
\* same name, without annotations, takes its place.
Replaced(n) ==
  /\ pod[n].uid < MaxUid
  /\ PodChanges(n, [uid |-> pod[n].uid + 1, ready |-> FALSE, mark |-> "none"])
  /\ UNCHANGED others

Readiness(n) ==
  /\ PodChanges(n, [pod[n] EXCEPT !.ready = ~ @])
  /\ UNCHANGED others

\* A status or a label: any write moves the resourceVersion.
Heartbeat(n) ==
  /\ fresh[n]
  /\ PodChanges(n, pod[n])
  /\ UNCHANGED others

\* The operator, or another run, wants the pod rotated.
OthersMark(n) ==
  /\ others < MaxMarksByOthers
  /\ others' = others + 1
  /\ pod[n].mark = "none"
  /\ PodChanges(n, [pod[n] EXCEPT !.mark = "other"])

Others == \/ Cancel \/ Expire
          \/ \E r \in inflight : LateApply(r)
          \/ \E n \in Names : \/ Replaced(n) \/ Readiness(n)
                              \/ Heartbeat(n) \/ OthersMark(n)

Next == Step \/ Others

Spec == Init /\ [][Next]_vars

\* Every request is answered or times out, --timeout runs out, and a select
\* that finds both channels ready again and again takes each of them in the
\* end.  Operator, kubelet and StatefulSet controller owe nothing.
FairSpec == /\ Spec
            /\ WF_vars(Step)
            /\ WF_vars(Expire)
            /\ SF_vars(GiveUp)

------------------------------------------------------------------------------
(* Properties.                                                             *)

\* A pod marked by the operator or by another run is neither taken over nor
\* cleaned up, by no PATCH of this run, however late it is applied.
ForeignMarksKept ==
  [][\A n \in Names : pod[n].mark = "other" /\ pod'[n].uid = pod[n].uid
       => pod'[n].mark = "other"]_vars

\* Success means that each pod found by the preflight has been replaced, and
\* that no mark of this run is left in the cluster or on its way to it.
SuccessMeansRotated ==
  result = "nil" /\ ~ SkipWait =>
    /\ planned \cap Existing = {}
    /\ Ours = {}
    /\ inflight = {}

\* The custom resource is touched only when every pod of the preflight has
\* carried this run's mark or is gone: no pod of the plan is left out.
TouchedAfterMarking == touched => planned \cap Existing \subseteq applied

\* Before any marker is taken back, and before a failure is returned, the
\* run-wide stop is set: no other restart starts during a long cleanup.
StopBeforeCleanup ==
  pc \in {"listMarked", "unmark"} \/ result = "error" => tripped

\* After a failure no pod carries a mark of this run that the summary does not
\* show, unless its PATCH took effect unnoticed: late, or taken for a conflict.
LeftMarksAreReported ==
  result = "error" => \A p \in Ours : report[p] = "stillMarked" \/ p \in unseen

\* What the summary says is true for good: a pod reported as rotated is gone, a
\* pod reported as removed was marked by this run and is not any more.
SummaryIsTrue ==
  \A p \in Pods :
    /\ report[p] = "rotated" => p \notin Existing
    /\ report[p] = "removed" => p \in applied \ Ours

\* Why they hold.  A PATCH can only mark a pod that nobody has marked; uids are
\* never used twice; failed and tripped go together, and nothing is on its way
\* unless something failed.
FreshIsUnmarked == \A n \in Names : fresh[n] => pod[n].mark = "none"

Known == planned \cup pending \cup marked \cup applied
UidsAreOld == \A p \in Known : p[2] <= pod[p[1]].uid

FailedIsTripped ==
  /\ tripped = failed
  /\ pc \in {"listMarked", "unmark"} \/ result = "error" => failed
  /\ ~ failed => inflight = {}
  /\ pc = "returned" <=> result # "unset"
  /\ result = "nil" => ~ failed
  /\ pc \in {"plan", "mark", "trigger"} => ~ failed /\ ~ touched

\* There is always one attempt left to make.
AttemptsLeft ==
  /\ pc = "plan" => attempt < MarkAttempts
  /\ pc = "unmark" => round <= UnmarkAttempts

\* What is marked, and what of the preflight's plan still has to be.
MarksAreKnown ==
  /\ applied \subseteq marked \cup unseen
  /\ Ours \subseteq applied
  /\ ~ failed \/ touched => marked \subseteq applied

PlanIsCovered ==
  /\ pc = "mark" /\ ~ stale => planned \cap Existing \subseteq marked \cup pending
  /\ pc \in {"trigger", "observe", "retrigger", "tick"} \/ touched \/ result = "nil"
       => planned \cap Existing \subseteq marked

\* What cleaning up has still to do, and has said.
CleanupInvariant ==
  /\ left \subseteq marked /\ todo \subseteq left
  /\ pc \notin {"listMarked", "unmark", "returned"} => \A p \in Pods : report[p] = "none"
  /\ pc \in {"listMarked", "unmark"} => Ours \subseteq left \cup unseen
  /\ \A p \in Pods : report[p] # "none" => p \in marked
  /\ \A p \in Pods : report[p] = "removed" /\ p \in Existing => ~ fresh[p[1]]

IInv == /\ TypeOK
        /\ AttemptsLeft
        /\ FreshIsUnmarked
        /\ UidsAreOld
        /\ FailedIsTripped
        /\ MarksAreKnown
        /\ PlanIsCovered
        /\ CleanupInvariant
        /\ SuccessMeansRotated
        /\ LeftMarksAreReported
        /\ SummaryIsTrue

\* The restart of one cluster returns, whatever the operator does.
RestartReturns == <>(result # "unset")
==============================================================================
