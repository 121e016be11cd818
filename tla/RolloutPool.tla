----------------------------- MODULE RolloutPool -----------------------------
(***************************************************************************)
(* runRolloutJobs (pkg/operations/helpers.go) and the jobs it runs: a      *)
(* dispatcher launches one goroutine per planned restart, a semaphore      *)
(* bounds how many run at once, and RunStop, shared by everything in the   *)
(* run, stops further launches after a failure.  A job is restartOne of    *)
(* deployments.go / statefulsets.go: look at the context, PATCH the        *)
(* workload, poll its rollout.  The cluster side (rollout) and the API     *)
(* server's answers are nondeterministic.                                  *)
(*                                                                         *)
(* Job i of the model is job i - 1 of the Go slice.                        *)
(***************************************************************************)
EXTENDS Integers, FiniteSets

CONSTANTS N,         \* number of planned jobs (n > 0: callers return early on an empty plan)
          Parallel,  \* --parallel as passed in
          SkipWait   \* --skip-wait

ASSUME PoolAssumption == /\ N \in Nat \ {0}
                         /\ Parallel \in Int
                         /\ SkipWait \in BOOLEAN

Jobs == 1 .. N

\* A limit below one is replaced by one.
Limit == IF Parallel < 1 THEN 1 ELSE Parallel

\* RunStop.cause: nothing yet, the job whose error came first, or a failure
\* recorded before this queue started (selection error, earlier resource type).
NoCause == 0
EarlierFailure == N + 1

VARIABLES
  next,       \* loop variable of the dispatcher
  disp,       \* where the dispatcher is
  slots,      \* tokens in the semaphore channel
  stopped,    \* RunStop.stopped
  cause,      \* RunStop.cause
  cancelled,  \* the run's context is cancelled (first signal)
  pc,         \* where the goroutine of each job is
  errs,       \* errs[i], "unset" until written
  apiErr,     \* apiErr of the job's waitForRollouts
  rollout,    \* the workload's rollout in the cluster
  late        \* history: jobs whose restart PATCH was sent after stopped was set

dispVars == <<next, disp>>
stopVars == <<stopped, cause>>
vars == <<next, disp, slots, stopped, cause, cancelled, pc, errs, apiErr, rollout, late>>

TypeOK ==
  /\ next \in 1 .. (N + 1)
  /\ disp \in {"acquire", "check", "launch", "join", "returned"}
  /\ slots \in 0 .. Limit
  /\ stopped \in BOOLEAN
  /\ cause \in 0 .. (N + 1)
  /\ cancelled \in BOOLEAN
  /\ pc \in [Jobs -> {"idle", "launched", "waiting", "tripping",
                      "returned", "failing", "finished", "released"}]
  /\ errs \in [Jobs -> {"unset", "nil", "failed", "notStarted"}]
  /\ apiErr \in [Jobs -> BOOLEAN]
  /\ rollout \in [Jobs -> {"none", "maybe", "running", "stuck", "complete"}]
  /\ late \in SUBSET Jobs

\* tripOnSelectionErrors, or a resource type that ran before, may have
\* tripped the run-wide stop already.
Init ==
  /\ next = 1
  /\ disp = "acquire"
  /\ slots = 0
  /\ stopped \in BOOLEAN
  /\ cause = IF stopped THEN EarlierFailure ELSE NoCause
  /\ cancelled \in BOOLEAN
  /\ pc = [i \in Jobs |-> "idle"]
  /\ errs = [i \in Jobs |-> "unset"]
  /\ apiErr = [i \in Jobs |-> FALSE]
  /\ rollout = [i \in Jobs |-> "none"]
  /\ late = {}

------------------------------------------------------------------------------
(* The dispatcher: the for loop and wg.Wait of runRolloutJobs.             *)

\* Slip_X is the action X with a plausible programming slip; the slips stand in
\* for X only to show which properties notice them.

Acquire ==
  /\ disp = "acquire"
  /\ next <= N
  /\ slots < Limit
  /\ slots' = slots + 1
  /\ disp' = "check"
  /\ UNCHANGED <<next, stopVars, cancelled, pc, errs, apiErr, rollout, late>>

Slip_GoAhead ==  \* the stop flag is not looked at
  /\ disp = "check"
  /\ disp' = "launch"
  /\ UNCHANGED <<next, slots, stopVars, cancelled, pc, errs, apiErr, rollout, late>>

\* rs.Stopped() read FALSE; the goroutine is started in a later step.
GoAhead ==
  /\ disp = "check"
  /\ ~ stopped
  /\ disp' = "launch"
  /\ UNCHANGED <<next, slots, stopVars, cancelled, pc, errs, apiErr, rollout, late>>

Slip_GiveUp ==  \* off by one: the job whose turn it was is forgotten
  /\ disp = "check"
  /\ stopped
  /\ slots' = slots - 1
  /\ errs' = [j \in Jobs |-> IF j > next THEN "notStarted" ELSE errs[j]]
  /\ disp' = "join"
  /\ UNCHANGED <<next, stopVars, cancelled, pc, apiErr, rollout, late>>

GiveUp ==
  /\ disp = "check"
  /\ stopped
  /\ slots' = slots - 1
  /\ errs' = [j \in Jobs |-> IF j >= next THEN "notStarted" ELSE errs[j]]
  /\ disp' = "join"
  /\ UNCHANGED <<next, stopVars, cancelled, pc, apiErr, rollout, late>>

Launch ==
  /\ disp = "launch"
  /\ pc' = [pc EXCEPT ![next] = "launched"]
  /\ next' = next + 1
  /\ disp' = "acquire"
  /\ UNCHANGED <<slots, stopVars, cancelled, errs, apiErr, rollout, late>>

Exhausted ==
  /\ disp = "acquire"
  /\ next > N
  /\ disp' = "join"
  /\ UNCHANGED <<next, slots, stopVars, cancelled, pc, errs, apiErr, rollout, late>>

Join ==
  /\ disp = "join"
  /\ \A i \in Jobs : pc[i] \in {"idle", "released"}
  /\ disp' = "returned"
  /\ UNCHANGED <<next, slots, stopVars, cancelled, pc, errs, apiErr, rollout, late>>

Dispatcher == Acquire \/ GoAhead \/ GiveUp \/ Launch \/ Exhausted \/ Join

------------------------------------------------------------------------------
(* RunStop.Trip: the cause is stored under the mutex, the first one wins;  *)
(* the flag the dispatcher reads is stored afterwards, in a second step.   *)

RecordCause(i) == cause' = IF cause = NoCause THEN i ELSE cause
SetStopped == stopped' = TRUE

------------------------------------------------------------------------------
(* fn(i): restartOne.                                                      *)

\* fn returns: its error is stored in errs[i].
FnReturns(i, err) ==
  /\ errs' = [errs EXCEPT ![i] = err]
  /\ pc' = [pc EXCEPT ![i] = "returned"]

\* ctx.Err() != nil before the PATCH.
NotRestarted(i) ==
  /\ pc[i] = "launched"
  /\ cancelled
  /\ FnReturns(i, "failed")
  /\ UNCHANGED <<dispVars, slots, stopVars, cancelled, apiErr, rollout, late>>

\* The PATCH is sent: answered, rejected (4xx), or without a usable answer.
\* A PATCH without an answer may have been applied, or be applied later.
Patching(i) ==
  /\ pc[i] = "launched"
  /\ ~ cancelled
  /\ late' = IF stopped THEN late \cup {i} ELSE late
  /\ UNCHANGED <<dispVars, slots, stopVars, cancelled, apiErr>>

PatchApplied(i) ==
  /\ Patching(i)
  /\ rollout' = [rollout EXCEPT ![i] = "running"]
  /\ IF SkipWait
     THEN FnReturns(i, "nil")
     ELSE pc' = [pc EXCEPT ![i] = "waiting"] /\ UNCHANGED errs

PatchRejected(i) ==
  /\ Patching(i)
  /\ FnReturns(i, "failed")
  /\ UNCHANGED rollout

PatchAmbiguous(i) ==
  /\ Patching(i)
  /\ \E r \in {"running", "maybe"} : rollout' = [rollout EXCEPT ![i] = r]
  /\ FnReturns(i, "failed")

------------------------------------------------------------------------------
(* The wait of restartOne: waitForRollouts with one target.                *)

\* The first failed poll records the error and trips the stop at once; the
\* polling goes on.
PollFails(i) ==
  /\ pc[i] = "waiting"
  /\ ~ apiErr[i]
  /\ apiErr' = [apiErr EXCEPT ![i] = TRUE]
  /\ RecordCause(i)
  /\ pc' = [pc EXCEPT ![i] = "tripping"]
  /\ UNCHANGED <<dispVars, slots, stopped, cancelled, errs, rollout, late>>

PollTrips(i) ==
  /\ pc[i] = "tripping"
  /\ SetStopped
  /\ pc' = [pc EXCEPT ![i] = "waiting"]
  /\ UNCHANGED <<dispVars, slots, cause, cancelled, errs, apiErr, rollout, late>>

\* The rollout is done: success unless a poll failed on the way.
WaitReady(i) ==
  /\ pc[i] = "waiting"
  /\ rollout[i] = "complete"
  /\ FnReturns(i, IF apiErr[i] THEN "failed" ELSE "nil")
  /\ UNCHANGED <<dispVars, slots, stopVars, cancelled, apiErr, rollout, late>>

\* A terminal failure (ProgressDeadlineExceeded, the object is gone).
WaitTerminal(i) ==
  /\ pc[i] = "waiting"
  /\ rollout[i] = "stuck"
  /\ FnReturns(i, "failed")
  /\ UNCHANGED <<dispVars, slots, stopVars, cancelled, apiErr, rollout, late>>

\* --timeout expires or the run's context is cancelled, whatever the rollout does.
WaitTimesOut(i) ==
  /\ pc[i] = "waiting"
  /\ FnReturns(i, "failed")
  /\ UNCHANGED <<dispVars, slots, stopVars, cancelled, apiErr, rollout, late>>

------------------------------------------------------------------------------
(* The rest of the goroutine: stopsLaunches(err), Trip, give the slot back. *)

FailureRecorded(i) ==
  /\ pc[i] = "returned"
  /\ errs[i] = "failed"
  /\ RecordCause(i)
  /\ pc' = [pc EXCEPT ![i] = "failing"]
  /\ UNCHANGED <<dispVars, slots, stopped, cancelled, errs, apiErr, rollout, late>>

Slip_FailureStops(i) ==  \* the slot is given back without tripping the stop
  /\ pc[i] = "failing"
  /\ pc' = [pc EXCEPT ![i] = "finished"]
  /\ UNCHANGED <<dispVars, slots, stopVars, cancelled, errs, apiErr, rollout, late>>

FailureStops(i) ==
  /\ pc[i] = "failing"
  /\ SetStopped
  /\ pc' = [pc EXCEPT ![i] = "finished"]
  /\ UNCHANGED <<dispVars, slots, cause, cancelled, errs, apiErr, rollout, late>>

Slip_Release(i) ==  \* a failed job leaves without giving its token back
  /\ \/ pc[i] = "finished"
     \/ pc[i] = "returned" /\ errs[i] = "nil"
  /\ slots' = IF errs[i] = "nil" THEN slots - 1 ELSE slots
  /\ pc' = [pc EXCEPT ![i] = "released"]
  /\ UNCHANGED <<dispVars, stopVars, cancelled, errs, apiErr, rollout, late>>

Release(i) ==
  /\ \/ pc[i] = "finished"
     \/ pc[i] = "returned" /\ errs[i] = "nil"
  /\ slots' = slots - 1
  /\ pc' = [pc EXCEPT ![i] = "released"]
  /\ UNCHANGED <<dispVars, stopVars, cancelled, errs, apiErr, rollout, late>>

Job(i) ==
  \/ NotRestarted(i) \/ PatchApplied(i) \/ PatchRejected(i) \/ PatchAmbiguous(i)
  \/ PollFails(i) \/ PollTrips(i)
  \/ WaitReady(i) \/ WaitTerminal(i) \/ WaitTimesOut(i)
  \/ FailureRecorded(i) \/ FailureStops(i) \/ Release(i)

------------------------------------------------------------------------------
(* The environment: the signal that cancels the context, and the cluster.  *)

Cancel ==
  /\ ~ cancelled
  /\ cancelled' = TRUE
  /\ UNCHANGED <<dispVars, slots, stopVars, pc, errs, apiErr, rollout, late>>

\* A PATCH the client gave up on is applied after all; a rollout completes,
\* or exceeds its progress deadline with its pods still half replaced.
ClusterStep(i) ==
  /\ \/ rollout[i] = "maybe" /\ rollout' = [rollout EXCEPT ![i] = "running"]
     \/ rollout[i] = "running" /\ \E r \in {"complete", "stuck"} :
                                    rollout' = [rollout EXCEPT ![i] = r]
  /\ UNCHANGED <<dispVars, slots, stopVars, cancelled, pc, errs, apiErr, late>>

\* runRolloutJobs has returned; nothing of it runs any more.
Returned == disp = "returned" /\ UNCHANGED vars

Next == \/ Dispatcher
        \/ \E i \in Jobs : Job(i) \/ ClusterStep(i)
        \/ Cancel
        \/ Returned

Spec == Init /\ [][Next]_vars

\* The Go scheduler runs every goroutine that can run; every API request is
\* bounded by the client's request timeout and every wait by --timeout, so a
\* launched job always gets on.  The cluster owes nothing.
FairSpec == /\ Spec
            /\ WF_vars(Dispatcher)
            /\ \A i \in Jobs : WF_vars(Job(i))

------------------------------------------------------------------------------
(* Properties.                                                             *)

Started == {i \in Jobs : pc[i] # "idle"}
Failed == {i \in Jobs : errs[i] = "failed"}
NotStarted == {i \in Jobs : errs[i] = "notStarted"}

\* Jobs whose goroutine holds a token of the semaphore.
Holders == {i \in Jobs : pc[i] \notin {"idle", "released"}}

\* Jobs let through the check that did not succeed: what the slots must pay
\* for, whether or not their tokens were put back.
Busy == {i \in Jobs : \/ pc[i] # "idle" /\ ~ (pc[i] = "released" /\ errs[i] = "nil")
                      \/ disp = "launch" /\ i = next}

\* Jobs let through the check that have not sent their PATCH.
MayPatch == {i \in Jobs : pc[i] = "launched" \/ (disp = "launch" /\ i = next)}

\* At most --parallel rollouts of this queue are in progress in the cluster at
\* any time, counting the ones that timed out, got stuck or were started by a
\* PATCH whose answer was lost: a slot freed by a failure launches nothing.
\* (With --skip-wait nothing is waited for and nothing is promised.)
RolloutsBounded ==
  ~ SkipWait => Cardinality({i \in Jobs : rollout[i] \in {"running", "stuck"}}) <= Limit

\* Restart requests sent after the run-wide stop was set are bounded by the
\* other jobs in flight: with --parallel 1 there is none.
LateRestartsBounded == Cardinality(late) <= Limit - 1

\* A failed job gives its token back only after the stop flag is set, and the
\* flag is never set without a recorded cause.
StopBeforeRelease ==
  /\ \A i \in Failed : pc[i] \in {"finished", "released"} => stopped
  /\ stopped => cause # NoCause

\* When the queue returns, every job has exactly one outcome, the ones not
\* started are a suffix of the plan that never reached the cluster, a success
\* means a completed rollout, and "not started due to earlier failure" is
\* reported only when there is such a failure to show for it.
OutcomesComplete ==
  disp = "returned" =>
    /\ \A i \in Jobs : errs[i] # "unset"
    /\ NotStarted = {i \in Jobs : i >= next}
    /\ \A i \in NotStarted : rollout[i] = "none"
    /\ ~ SkipWait => \A i \in Jobs : errs[i] = "nil" => rollout[i] = "complete"
    /\ NotStarted # {} => cause = EarlierFailure \/ Failed # {}
    /\ slots = 0

\* Why the bounds hold.  The tokens are exactly the running goroutines and the
\* dispatcher's own; a failure sets the flag before its token is put back, so
\* the running and the failed jobs together never exceed the limit; and once
\* the flag is set, the jobs that may still send a PATCH are fewer than that.
SlotAccounting ==
  slots = Cardinality(Holders) + (IF disp \in {"check", "launch"} THEN 1 ELSE 0)

LaunchedInOrder ==
  /\ \A i \in Jobs : pc[i] # "idle" <=> i < next
  /\ disp \in {"check", "launch"} => next <= N

ErrsFollowPc ==
  \A i \in Jobs :
    /\ pc[i] = "idle" => errs[i] \in {"unset", "notStarted"}
    /\ errs[i] = "notStarted" => disp \in {"join", "returned"}
    /\ pc[i] \in {"launched", "waiting", "tripping"} => errs[i] = "unset"
    /\ pc[i] \in {"returned", "released"} => errs[i] \in {"nil", "failed"}
    /\ pc[i] \in {"failing", "finished"} => errs[i] = "failed"
    /\ pc[i] \in {"failing", "tripping"} => cause # NoCause

RolloutFollowsPc ==
  \A i \in Jobs :
    /\ pc[i] \in {"idle", "launched"} => rollout[i] = "none"
    /\ ~ SkipWait /\ errs[i] = "nil" => rollout[i] = "complete"

SlotsPayForFailures == Cardinality(Busy) <= Limit

LateBudget ==
  /\ ~ stopped => late = {}
  /\ stopped => Cardinality(late \cup MayPatch) <= Limit - 1

IInv == /\ TypeOK
        /\ SlotAccounting
        /\ LaunchedInOrder
        /\ ErrsFollowPc
        /\ RolloutFollowsPc
        /\ StopBeforeRelease
        /\ SlotsPayForFailures
        /\ LateBudget

\* The first cause is kept and the stop is never taken back.
TripIsFinal ==
  [][ /\ cause # NoCause => cause' = cause
      /\ stopped => stopped' ]_vars

\* The queue implements the abstract restart budget: what becomes of job i there.
BudgetState(i) ==
  IF errs[i] = "notStarted" THEN "refused"
  ELSE IF i \in Busy THEN IF pc[i] = "released" THEN "kept" ELSE "active"
  ELSE IF pc[i] = "idle" THEN "todo" ELSE "ok"

Budget == INSTANCE BoundedRestarts WITH
            state <- [i \in Jobs |-> BudgetState(i)], closed <- stopped

ImplementsBudget == Budget!Spec

\* The queue always returns: no goroutine waits for ever for a slot, for the
\* API server or for a rollout that never completes.
QueueReturns == <>(disp = "returned")
==============================================================================
