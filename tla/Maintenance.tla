----------------------------- MODULE Maintenance -----------------------------
(***************************************************************************)
(* One execute run (cmd/root.go): runInterruptible starts runMaintenance   *)
(* in a goroutine and listens to signals.  runMaintenance plans every      *)
(* selected resource type, cordons, restarts the types one after the       *)
(* other and prints a report.  The first signal cancels the context and    *)
(* waits, a second one ends the process where it is.                       *)
(*                                                                         *)
(* The queue of one type is seen here through what RolloutPool shows of    *)
(* it: jobs are let in one by one, a failure sets the run-wide stop before *)
(* the job gives its slot back, and then the rest is turned away.          *)
(***************************************************************************)
EXTENDS Integers, FiniteSets

CONSTANTS Types,      \* number of selected resource types, in execution order
          N,          \* number of planned targets, of all types
          TypeOf,     \* the type of each target
          Parallel,   \* --parallel
          WithCordon  \* --cordon

ASSUME RunAssumption ==
  /\ Types \in Nat \ {0}
  /\ N \in Nat
  /\ TypeOf \in [1 .. N -> 1 .. Types]
  /\ \A i, j \in 1 .. N : i < j => TypeOf[i] <= TypeOf[j]
  /\ Parallel \in Nat \ {0}
  /\ WithCordon \in BOOLEAN

Jobs == 1 .. N
JobsOf(t) == {i \in Jobs : TypeOf[i] = t}

VARIABLES
  stage,        \* where runMaintenance is
  type,         \* loop variable over the resource types
  open,         \* the queue of this type is running
  st,           \* what became of each target
  stopped,      \* the RunStop shared by all types
  cordoned,     \* how many of the selected nodes are cordoned
  errs,         \* which kinds of errors runMaintenance has collected
  canceled,     \* one of them wraps context.Canceled
  interrupted,  \* the first signal was received: the context is cancelled
  exit          \* how the process ended

phaseVars == <<type, open>>
vars == <<stage, phaseVars, st, stopped, cordoned, errs, canceled, interrupted, exit>>

TypeOK ==
  /\ stage \in {"plan", "skip", "cordon", "run", "report", "done"}
  /\ type \in 1 .. (Types + 1)
  /\ open \in BOOLEAN
  /\ st \in [Jobs -> {"todo", "launched", "patched", "doomed", "ok", "failed", "refused"}]
  /\ stopped \in BOOLEAN
  /\ cordoned \in {"none", "some", "all"}
  /\ errs \subseteq {"planning", "cordon", "notStarted", "restart", "report"}
  /\ canceled \in BOOLEAN
  /\ interrupted \in BOOLEAN
  /\ exit \in {"none", "ok", "error", "interrupted", "interruptedWithErrors", "forced"}

Init ==
  /\ stage = "plan"
  /\ type = 1
  /\ open = FALSE
  /\ st = [i \in Jobs |-> "todo"]
  /\ stopped = FALSE
  /\ cordoned = "none"
  /\ errs = {}
  /\ canceled = FALSE
  /\ interrupted = FALSE
  /\ exit = "none"

\* The work goroutine runs until the process ends; a request fails once the
\* context is cancelled, and then its error may wrap context.Canceled.
Working(s) == exit = "none" /\ stage = s

Fail(what) ==
  /\ errs' = errs \cup {what}
  /\ canceled' \in {canceled, canceled \/ interrupted}

------------------------------------------------------------------------------
(* planPhases.                                                             *)

PlanType ==
  /\ Working("plan")
  /\ type <= Types
  /\ type' = type + 1
  /\ \/ ~ interrupted /\ UNCHANGED <<errs, canceled>>
     \/ Fail("planning")
  /\ UNCHANGED <<stage, open, st, stopped, cordoned, interrupted, exit>>

\* Every type is planned even after an error; only then the error counts.
Planned ==
  /\ Working("plan")
  /\ type = Types + 1
  /\ stage' = IF errs # {} THEN "skip" ELSE IF WithCordon THEN "cordon" ELSE "run"
  /\ type' = 1
  /\ UNCHANGED <<open, st, stopped, cordoned, errs, canceled, interrupted, exit>>

------------------------------------------------------------------------------
(* notStartedPhaseErr: after a cancellation only the type is named in the  *)
(* error, otherwise each of its targets.                                   *)

Slip_NotStarted ==  \* the type is named, its targets are not
  /\ errs' = IF JobsOf(type) = {} /\ ~ interrupted THEN errs ELSE errs \cup {"notStarted"}
  /\ canceled' = (canceled \/ interrupted)
  /\ UNCHANGED st
  /\ type' = type + 1

NotStarted ==
  /\ IF interrupted
     THEN errs' = errs \cup {"notStarted"} /\ canceled' = TRUE /\ UNCHANGED st
     ELSE /\ st' = [i \in Jobs |-> IF i \in JobsOf(type) THEN "refused" ELSE st[i]]
          /\ errs' = IF JobsOf(type) = {} THEN errs ELSE errs \cup {"notStarted"}
          /\ UNCHANGED canceled
  /\ type' = type + 1

SkipType ==
  /\ Working("skip")
  /\ type <= Types
  /\ NotStarted
  /\ UNCHANGED <<stage, open, stopped, cordoned, interrupted, exit>>

AllSkipped ==
  /\ Working("skip")
  /\ type = Types + 1
  /\ stage' = "done"
  /\ UNCHANGED <<phaseVars, st, stopped, cordoned, errs, canceled, interrupted, exit>>

------------------------------------------------------------------------------
(* Cordon (module Cordon).                                                 *)

CordonNodes ==
  /\ Working("cordon")
  /\ stage' = "run"
  /\ \/ ~ interrupted /\ cordoned' = "all" /\ UNCHANGED <<errs, canceled>>
     \/ cordoned' \in {"none", "some", "all"} /\ Fail("cordon")
  /\ UNCHANGED <<phaseVars, st, stopped, interrupted, exit>>

------------------------------------------------------------------------------
(* The loop over the types.                                                *)

PhaseSkipped ==
  /\ Working("run")
  /\ ~ open
  /\ type <= Types
  /\ errs # {} \/ interrupted
  /\ NotStarted
  /\ UNCHANGED <<stage, open, stopped, cordoned, interrupted, exit>>

Slip_PhaseOpens ==  \* each type is tried, whatever happened before
  /\ Working("run")
  /\ ~ open
  /\ type <= Types
  /\ ~ interrupted
  /\ open' = TRUE
  /\ UNCHANGED <<stage, type, st, stopped, cordoned, errs, canceled, interrupted, exit>>

PhaseOpens ==
  /\ Working("run")
  /\ ~ open
  /\ type <= Types
  /\ errs = {}
  /\ ~ interrupted
  /\ open' = TRUE
  /\ UNCHANGED <<stage, type, st, stopped, cordoned, errs, canceled, interrupted, exit>>

InFlight == {i \in Jobs : st[i] \in {"launched", "patched", "doomed"}}

InQueue(i) == Working("run") /\ open /\ TypeOf[i] = type

\* A job is let in after a cancellation too; it then does not patch.
Launch(i) ==
  /\ InQueue(i)
  /\ st[i] = "todo"
  /\ \A j \in 1 .. (i - 1) : st[j] # "todo"
  /\ Cardinality(InFlight) < Parallel
  /\ ~ stopped
  /\ st' = [st EXCEPT ![i] = "launched"]
  /\ UNCHANGED <<stage, phaseVars, stopped, cordoned, errs, canceled, interrupted, exit>>

Patch(i) ==
  /\ InQueue(i)
  /\ st[i] = "launched"
  /\ ~ interrupted
  /\ st' = [st EXCEPT ![i] = "patched"]
  /\ UNCHANGED <<stage, phaseVars, stopped, cordoned, errs, canceled, interrupted, exit>>

\* Everything that can go wrong with a job sets the stop at once: "not
\* restarted" after a cancellation, a rejected or ambiguous PATCH, a failed
\* poll, a failed, timed-out or interrupted wait.  The job may go on waiting.
Doom(i) ==
  /\ InQueue(i)
  /\ st[i] \in {"launched", "patched"}
  /\ st' = [st EXCEPT ![i] = "doomed"]
  /\ stopped' = TRUE
  /\ UNCHANGED <<stage, phaseVars, cordoned, errs, canceled, interrupted, exit>>

Succeed(i) ==
  /\ InQueue(i)
  /\ st[i] = "patched"
  /\ st' = [st EXCEPT ![i] = "ok"]
  /\ UNCHANGED <<stage, phaseVars, stopped, cordoned, errs, canceled, interrupted, exit>>

Slip_JobFails(i) ==  \* the job leaves without the stop being set
  /\ InQueue(i)
  /\ i \in InFlight
  /\ st' = [st EXCEPT ![i] = "failed"]
  /\ canceled' \in {canceled, canceled \/ interrupted}
  /\ UNCHANGED <<stage, phaseVars, stopped, cordoned, errs, interrupted, exit>>

\* The job of a failure gives its slot back.
JobFails(i) ==
  /\ InQueue(i)
  /\ st[i] = "doomed"
  /\ st' = [st EXCEPT ![i] = "failed"]
  /\ canceled' \in {canceled, canceled \/ interrupted}
  /\ UNCHANGED <<stage, phaseVars, stopped, cordoned, errs, interrupted, exit>>

\* The rest of this type's queue is turned away.
Refuse ==
  /\ Working("run")
  /\ open
  /\ stopped
  /\ \E i \in JobsOf(type) : st[i] = "todo"
  /\ st' = [i \in Jobs |-> IF i \in JobsOf(type) /\ st[i] = "todo" THEN "refused" ELSE st[i]]
  /\ UNCHANGED <<stage, phaseVars, stopped, cordoned, errs, canceled, interrupted, exit>>

Slip_PhaseCloses ==  \* the errors of the type's jobs get lost
  /\ Working("run")
  /\ open
  /\ \A i \in JobsOf(type) : st[i] \in {"ok", "failed", "refused"}
  /\ open' = FALSE
  /\ type' = type + 1
  /\ UNCHANGED <<stage, st, stopped, cordoned, errs, canceled, interrupted, exit>>

PhaseCloses ==
  /\ Working("run")
  /\ open
  /\ \A i \in JobsOf(type) : st[i] \in {"ok", "failed", "refused"}
  /\ errs' = IF \A i \in JobsOf(type) : st[i] = "ok" THEN errs ELSE errs \cup {"restart"}
  /\ open' = FALSE
  /\ type' = type + 1
  /\ UNCHANGED <<stage, st, stopped, cordoned, canceled, interrupted, exit>>

AllTypesDone ==
  /\ Working("run")
  /\ ~ open
  /\ type = Types + 1
  /\ stage' = IF errs # {} THEN "done" ELSE "report"
  /\ UNCHANGED <<phaseVars, st, stopped, cordoned, errs, canceled, interrupted, exit>>

\* The final report; it fails if a lookup does.
Report ==
  /\ Working("report")
  /\ stage' = "done"
  /\ \/ ~ interrupted /\ UNCHANGED <<errs, canceled>>
     \/ Fail("report")
  /\ UNCHANGED <<phaseVars, st, stopped, cordoned, interrupted, exit>>

Job(i) == Launch(i) \/ Patch(i) \/ Doom(i) \/ Succeed(i) \/ JobFails(i)

Sequence == \/ PlanType \/ Planned \/ SkipType \/ AllSkipped \/ CordonNodes
            \/ PhaseSkipped \/ PhaseOpens \/ Refuse \/ PhaseCloses \/ AllTypesDone
            \/ Report

------------------------------------------------------------------------------
(* runInterruptible: the main goroutine.                                   *)

FirstSignal ==
  /\ exit = "none"
  /\ ~ interrupted
  /\ interrupted' = TRUE
  /\ UNCHANGED <<stage, phaseVars, st, stopped, cordoned, errs, canceled, exit>>

SecondSignal ==
  /\ exit = "none"
  /\ interrupted
  /\ exit' = "forced"
  /\ UNCHANGED <<stage, phaseVars, st, stopped, cordoned, errs, canceled, interrupted>>

Slip_WorkReturns ==  \* after a signal only the next signal is waited for
  /\ Working("done")
  /\ ~ interrupted
  /\ exit' = IF errs = {} THEN "ok" ELSE "error"
  /\ UNCHANGED <<stage, phaseVars, st, stopped, cordoned, errs, canceled, interrupted>>

\* After a signal the errors of the work are passed on only if none of them
\* wraps context.Canceled.
WorkReturns ==
  /\ Working("done")
  /\ exit' = IF ~ interrupted
             THEN IF errs = {} THEN "ok" ELSE "error"
             ELSE IF errs = {} \/ canceled THEN "interrupted" ELSE "interruptedWithErrors"
  /\ UNCHANGED <<stage, phaseVars, st, stopped, cordoned, errs, canceled, interrupted>>

Ended == exit # "none" /\ UNCHANGED vars

Next == \/ Sequence
        \/ \E i \in Jobs : Job(i)
        \/ FirstSignal \/ SecondSignal
        \/ WorkReturns
        \/ Ended

Spec == Init /\ [][Next]_vars

\* Requests and waits are bounded (request timeout, --timeout), and the main
\* goroutine receives the result once it is there.  Nobody has to send a signal.
FairSpec == /\ Spec
            /\ WF_vars(Sequence)
            /\ \A i \in Jobs : WF_vars(Job(i))
            /\ WF_vars(WorkReturns)

------------------------------------------------------------------------------
(* Properties.                                                             *)

Touched == {i \in Jobs : st[i] \notin {"todo", "refused"}}

\* A target is touched only when all targets of the types before it were
\* restarted successfully and, with --cordon, all nodes were cordoned.
NoTypeAfterFailure ==
  \A j \in Touched :
    /\ \A i \in Jobs : TypeOf[i] < TypeOf[j] => st[i] = "ok"
    /\ WithCordon => cordoned = "all" /\ "cordon" \notin errs

\* Exit code 0 means that everything planned was done and nobody interrupted.
ZeroMeansDone ==
  exit = "ok" =>
    /\ \A i \in Jobs : st[i] = "ok"
    /\ WithCordon => cordoned = "all"
    /\ ~ interrupted

\* A run that ends with an error of its own has an outcome for every planned
\* target, and something that really failed: a target, the plan, the cordon
\* or the report.
ErrorMeansAccounted ==
  exit = "error" =>
    /\ \A i \in Jobs : st[i] \in {"ok", "failed", "refused"}
    /\ \/ \E i \in Jobs : st[i] = "failed"
       \/ errs \cap {"planning", "cordon", "report"} # {}

\* The whole run, across its resource types, keeps the restart budget.
Closed == stopped \/ errs # {}

BudgetState(i) == CASE st[i] = "todo" -> "todo"
                    [] st[i] \in {"launched", "patched", "doomed"} -> "active"
                    [] st[i] = "ok" -> "ok"
                    [] st[i] = "failed" -> "kept"
                    [] st[i] = "refused" -> "refused"

Budget == INSTANCE BoundedRestarts WITH
            Limit <- Parallel, state <- [i \in Jobs |-> BudgetState(i)], closed <- Closed

RunImplementsBudget == Budget!Spec

\* The run ends, also when it is interrupted.
RunEnds == <>(exit # "none")
==============================================================================
