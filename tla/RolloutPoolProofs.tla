-------------------------- MODULE RolloutPoolProofs --------------------------
(***************************************************************************)
(* Proofs about RolloutPool for every number of jobs and every --parallel. *)
(* IInv is inductive: the counting argument behind the bounds is           *)
(* SlotAccounting (tokens = running goroutines + the dispatcher's own) and *)
(* StopBeforeRelease (a failure closes the queue before its token is back).*)
(***************************************************************************)
EXTENDS RolloutPool, FiniteSetTheorems, TLAPS

LEMMA LimitType == Limit \in Nat \ {0}
BY PoolAssumption DEF Limit

\* Counting facts about sets of jobs, in the form the steps below need.
LEMMA JobSets ==
  ASSUME NEW S, S \subseteq Jobs
  PROVE  IsFiniteSet(S) /\ Cardinality(S) \in Nat
<1>1. IsFiniteSet(Jobs)
  BY FS_Interval, PoolAssumption DEF Jobs
<1> QED BY <1>1, FS_Subset, FS_CardinalityType

LEMMA Smaller ==
  ASSUME NEW T, T \subseteq Jobs, NEW S, S \subseteq T
  PROVE  Cardinality(S) <= Cardinality(T)
BY JobSets, FS_Subset

LEMMA AddOne ==
  ASSUME NEW S, S \subseteq Jobs, NEW i \in Jobs, i \notin S
  PROVE  Cardinality(S \cup {i}) = Cardinality(S) + 1
BY JobSets, FS_AddElement

LEMMA RemoveOne ==
  ASSUME NEW S, S \subseteq Jobs, NEW i \in S
  PROVE  Cardinality(S \ {i}) = Cardinality(S) - 1
BY JobSets, FS_RemoveElement

LEMMA InitInv == Init => IInv
<1> SUFFICES ASSUME Init PROVE IInv
  OBVIOUS
<1>1. Holders = {} /\ Busy = {} /\ late \cup MayPatch = {}
  BY DEF Init, Holders, Busy, MayPatch
<1>2. Cardinality({}) = 0
  BY FS_EmptySet
<1>3. TypeOK
  BY LimitType, PoolAssumption DEF Init, TypeOK, NoCause, EarlierFailure
<1>4. SlotAccounting /\ SlotsPayForFailures /\ LateBudget
  BY <1>1, <1>2, LimitType DEF SlotAccounting, SlotsPayForFailures, LateBudget, Init
<1>5. LaunchedInOrder /\ ErrsFollowPc /\ RolloutFollowsPc /\ StopBeforeRelease
  BY PoolAssumption DEF Init, LaunchedInOrder, ErrsFollowPc, RolloutFollowsPc,
     StopBeforeRelease, Failed, NoCause, EarlierFailure, Jobs
<1> QED BY <1>3, <1>4, <1>5 DEF IInv

\* A step that moves no job in or out of the counted sets keeps the counts.
LEMMA CountsKept ==
  ASSUME IInv, TypeOK', slots' = slots, disp' = disp, stopped' = stopped,
         late' = late, Holders' = Holders, Busy' = Busy, MayPatch' \subseteq MayPatch
  PROVE  SlotAccounting' /\ SlotsPayForFailures' /\ LateBudget'
<1>1. MayPatch \subseteq Jobs /\ late \subseteq Jobs
  BY DEF MayPatch, IInv, TypeOK
<1>2. Cardinality(late' \cup MayPatch') <= Cardinality(late \cup MayPatch)
  BY <1>1, Smaller
<1>3. Cardinality(late' \cup MayPatch') \in Nat /\ Cardinality(late \cup MayPatch) \in Nat
  BY <1>1, JobSets
<1> QED
  BY <1>2, <1>3, LimitType DEF IInv, SlotAccounting, SlotsPayForFailures, LateBudget

\* The dispatcher takes a token: only its own share of the tokens grows.
LEMMA AcquireInv == IInv /\ Acquire => IInv'
<1> SUFFICES ASSUME IInv, Acquire PROVE IInv'
  OBVIOUS
<1>1. TypeOK' /\ LaunchedInOrder' /\ ErrsFollowPc' /\ RolloutFollowsPc' /\ StopBeforeRelease'
  BY LimitType, PoolAssumption DEF IInv, Acquire, TypeOK, LaunchedInOrder, ErrsFollowPc, RolloutFollowsPc,
     StopBeforeRelease, Failed, stopVars
<1>2. Holders' = Holders /\ Busy' = Busy /\ MayPatch' = MayPatch
  BY DEF Acquire, Holders, Busy, MayPatch
<1>3. SlotAccounting' /\ SlotsPayForFailures' /\ LateBudget'
  <2>1. Cardinality(Holders) \in Nat
    BY JobSets DEF Holders
  <2> QED BY <1>2, <2>1 DEF IInv, Acquire, SlotAccounting, SlotsPayForFailures, LateBudget, stopVars
<1> QED BY <1>1, <1>3 DEF IInv

\* The check read FALSE: no failed job has given its token back, so the
\* dispatcher's token is one the failures do not need.
LEMMA GoAheadInv == IInv /\ GoAhead => IInv'
<1> SUFFICES ASSUME IInv, GoAhead PROVE IInv'
  OBVIOUS
<1>1. TypeOK' /\ LaunchedInOrder' /\ ErrsFollowPc' /\ RolloutFollowsPc' /\ StopBeforeRelease'
  BY DEF IInv, GoAhead, TypeOK, LaunchedInOrder, ErrsFollowPc, RolloutFollowsPc,
     StopBeforeRelease, Failed, stopVars
<1>2. SlotAccounting' /\ LateBudget'
  BY DEF IInv, GoAhead, SlotAccounting, LateBudget, Holders, stopVars
<1>3. SlotsPayForFailures'
  <2>1. next \in Jobs \ Holders
    BY PoolAssumption DEF IInv, GoAhead, LaunchedInOrder, TypeOK, Jobs, Holders
  <2>2. Busy' \subseteq Holders \cup {next}
    BY DEF IInv, GoAhead, Busy, Holders, StopBeforeRelease, Failed, ErrsFollowPc, TypeOK, stopVars
  <2>3. Holders \subseteq Jobs
    BY DEF Holders
  <2>4. Cardinality(Holders \cup {next}) = Cardinality(Holders) + 1
    BY <2>1, <2>3, AddOne
  <2>5. Cardinality(Holders \cup {next}) <= Limit
    <3>1. slots = Cardinality(Holders) + 1 /\ slots \in 0 .. Limit
      BY DEF IInv, GoAhead, SlotAccounting, TypeOK
    <3> QED BY <2>4, <3>1
  <2>6. Cardinality(Busy') <= Cardinality(Holders \cup {next})
    BY <2>1, <2>2, <2>3, Smaller
  <2>7. Cardinality(Busy') \in Nat /\ Cardinality(Holders \cup {next}) \in Nat
    BY <2>1, <2>2, <2>3, JobSets
  <2> QED BY <2>5, <2>6, <2>7, LimitType DEF SlotsPayForFailures
<1> QED BY <1>1, <1>2, <1>3 DEF IInv

LEMMA GiveUpInv == IInv /\ GiveUp => IInv'
<1> SUFFICES ASSUME IInv, GiveUp PROVE IInv'
  OBVIOUS
<1>1. Cardinality(Holders) \in Nat
  BY JobSets DEF Holders
<1>2. Holders' = Holders /\ MayPatch' = MayPatch
  BY DEF GiveUp, Holders, MayPatch
<1>3. Busy' = Busy
  BY PoolAssumption DEF IInv, GiveUp, Busy, LaunchedInOrder, TypeOK, Jobs
<1>4. SlotAccounting' /\ SlotsPayForFailures' /\ LateBudget'
  BY <1>1, <1>2, <1>3 DEF IInv, GiveUp, SlotAccounting, SlotsPayForFailures, LateBudget, stopVars, TypeOK
<1>5. TypeOK'
  <2>1. slots' \in 0 .. Limit
    BY <1>1, LimitType DEF IInv, GiveUp, SlotAccounting, TypeOK
  <2> QED BY <2>1 DEF IInv, GiveUp, TypeOK, stopVars
<1>6. LaunchedInOrder' /\ ErrsFollowPc' /\ RolloutFollowsPc' /\ StopBeforeRelease'
  BY DEF IInv, GiveUp, TypeOK, LaunchedInOrder, ErrsFollowPc, RolloutFollowsPc,
     StopBeforeRelease, Failed, stopVars, Jobs
<1> QED BY <1>4, <1>5, <1>6 DEF IInv

\* The dispatcher's token becomes the token of the new goroutine.
LEMMA LaunchInv == IInv /\ Launch => IInv'
<1> SUFFICES ASSUME IInv, Launch PROVE IInv'
  OBVIOUS
<1>1. next \in Jobs /\ next \notin Holders /\ Holders \subseteq Jobs /\ pc[next] = "idle"
  BY PoolAssumption DEF IInv, Launch, LaunchedInOrder, TypeOK, Jobs, Holders
<1>2. Holders' = Holders \cup {next}
  BY <1>1 DEF Launch, Holders, IInv, TypeOK
<1>3. Busy' = Busy
  BY <1>1 DEF Launch, Busy, IInv, TypeOK, ErrsFollowPc
<1>4. MayPatch' = MayPatch
  BY <1>1 DEF Launch, MayPatch, IInv, TypeOK
<1>5. SlotAccounting'
  BY <1>1, <1>2, AddOne, JobSets DEF IInv, Launch, SlotAccounting
<1>6. SlotsPayForFailures' /\ LateBudget'
  BY <1>3, <1>4 DEF IInv, Launch, SlotsPayForFailures, LateBudget, stopVars
<1>7. TypeOK' /\ LaunchedInOrder' /\ ErrsFollowPc' /\ RolloutFollowsPc' /\ StopBeforeRelease'
  <2>1. errs[next] = "unset" \/ errs[next] = "notStarted"
    BY <1>1 DEF IInv, ErrsFollowPc
  <2> QED BY <1>1, PoolAssumption DEF IInv, Launch, TypeOK, LaunchedInOrder, ErrsFollowPc,
             RolloutFollowsPc, StopBeforeRelease, Failed, stopVars, Jobs
<1> QED BY <1>5, <1>6, <1>7 DEF IInv

\* Steps that touch neither jobs nor tokens.
LEMMA IdleInv ==
  ASSUME IInv, Exhausted \/ Join \/ Cancel \/ UNCHANGED vars
  PROVE  IInv'
<1>1. /\ next' = next /\ slots' = slots /\ stopped' = stopped /\ cause' = cause
      /\ pc' = pc /\ errs' = errs /\ apiErr' = apiErr /\ rollout' = rollout /\ late' = late
      /\ cancelled' \in BOOLEAN
      /\ \/ disp' = disp
         \/ disp \in {"acquire", "join"} /\ disp' \in {"join", "returned"}
  BY DEF IInv, TypeOK, Exhausted, Join, Cancel, vars, stopVars, dispVars
<1>2. TypeOK'
  BY <1>1 DEF IInv, TypeOK
<1>3. LaunchedInOrder' /\ ErrsFollowPc' /\ RolloutFollowsPc' /\ StopBeforeRelease'
  BY <1>1 DEF IInv, LaunchedInOrder, ErrsFollowPc, RolloutFollowsPc, StopBeforeRelease, Failed
<1>4. Holders' = Holders /\ Busy' = Busy /\ MayPatch' = MayPatch
  BY <1>1 DEF Holders, Busy, MayPatch
<1>5. SlotAccounting' /\ SlotsPayForFailures' /\ LateBudget'
  BY <1>1, <1>4 DEF IInv, SlotAccounting, SlotsPayForFailures, LateBudget
<1> QED BY <1>2, <1>3, <1>5 DEF IInv

\* fn returns: the job keeps its token and stays in the budget.
LEMMA FnReturnsInv ==
  ASSUME IInv, NEW i \in Jobs, NotRestarted(i) \/ WaitReady(i) \/ WaitTerminal(i) \/ WaitTimesOut(i)
  PROVE  IInv'
<1>1. TypeOK' /\ LaunchedInOrder' /\ ErrsFollowPc' /\ RolloutFollowsPc' /\ StopBeforeRelease'
  BY DEF IInv, NotRestarted, WaitReady, WaitTerminal, WaitTimesOut, FnReturns, TypeOK, LaunchedInOrder,
     ErrsFollowPc, RolloutFollowsPc, StopBeforeRelease, Failed, stopVars, dispVars
<1>2. /\ slots' = slots /\ disp' = disp /\ next' = next /\ stopped' = stopped /\ late' = late
      /\ pc' = [pc EXCEPT ![i] = "returned"]
      /\ pc[i] \in {"launched", "waiting"}
      /\ \A j \in Jobs \ {i} : errs'[j] = errs[j]
  BY DEF IInv, TypeOK, NotRestarted, WaitReady, WaitTerminal, WaitTimesOut, FnReturns, stopVars, dispVars
<1>3. Holders' = Holders /\ Busy' = Busy /\ MayPatch' \subseteq MayPatch
  BY <1>2 DEF Holders, Busy, MayPatch, IInv, TypeOK
<1>4. SlotAccounting' /\ SlotsPayForFailures' /\ LateBudget'
  BY <1>1, <1>2, <1>3, CountsKept
<1> QED BY <1>1, <1>4 DEF IInv

\* The PATCH is sent: after the stop it moves a job from MayPatch to late.
LEMMA PatchInv ==
  ASSUME IInv, NEW i \in Jobs, PatchApplied(i) \/ PatchRejected(i) \/ PatchAmbiguous(i)
  PROVE  IInv'
<1>1. TypeOK' /\ LaunchedInOrder' /\ ErrsFollowPc' /\ RolloutFollowsPc' /\ StopBeforeRelease'
  BY DEF IInv, PatchApplied, PatchRejected, PatchAmbiguous, Patching, FnReturns, TypeOK, LaunchedInOrder,
     ErrsFollowPc, RolloutFollowsPc, StopBeforeRelease, Failed, stopVars, dispVars
<1>2. /\ slots' = slots /\ disp' = disp /\ next' = next /\ stopped' = stopped
      /\ late' = IF stopped THEN late \cup {i} ELSE late
      /\ pc[i] = "launched"
      /\ pc'[i] \in {"returned", "waiting"}
      /\ \A j \in Jobs \ {i} : errs'[j] = errs[j] /\ pc'[j] = pc[j]
  BY DEF IInv, TypeOK, PatchApplied, PatchRejected, PatchAmbiguous, Patching, FnReturns, stopVars, dispVars
<1>3. Holders' = Holders /\ Busy' = Busy
  BY <1>2 DEF Holders, Busy
<1>4. late' \cup MayPatch' \subseteq late \cup MayPatch
  BY <1>2 DEF MayPatch
<1>5. SlotAccounting' /\ SlotsPayForFailures'
  BY <1>2, <1>3 DEF IInv, SlotAccounting, SlotsPayForFailures
<1>6. LateBudget'
  <2>1. late \cup MayPatch \subseteq Jobs
    BY DEF MayPatch, IInv, TypeOK
  <2>2. /\ Cardinality(late' \cup MayPatch') <= Cardinality(late \cup MayPatch)
        /\ Cardinality(late' \cup MayPatch') \in Nat
        /\ Cardinality(late \cup MayPatch) \in Nat
    BY <1>4, <2>1, Smaller, JobSets
  <2> QED BY <1>2, <2>2, LimitType DEF IInv, LateBudget
<1> QED BY <1>1, <1>5, <1>6 DEF IInv

\* The first half of Trip: only the cause is stored.
LEMMA CauseInv ==
  ASSUME IInv, NEW i \in Jobs, PollFails(i) \/ FailureRecorded(i)
  PROVE  IInv'
<1>1. cause' \in 0 .. (N + 1) /\ cause' # NoCause
  BY PoolAssumption DEF IInv, TypeOK, PollFails, FailureRecorded, RecordCause, NoCause, Jobs
<1>2. /\ slots' = slots /\ disp' = disp /\ next' = next /\ stopped' = stopped /\ late' = late
      /\ errs' = errs /\ rollout' = rollout /\ cancelled' = cancelled /\ apiErr' \in [Jobs -> BOOLEAN]
      /\ pc[i] \in {"waiting", "returned"} /\ (pc[i] = "returned" => errs[i] = "failed")
      /\ pc' = [pc EXCEPT ![i] = IF pc[i] = "waiting" THEN "tripping" ELSE "failing"]
  BY DEF IInv, TypeOK, PollFails, FailureRecorded, dispVars
<1>3. TypeOK' /\ LaunchedInOrder' /\ ErrsFollowPc' /\ RolloutFollowsPc' /\ StopBeforeRelease'
  <2>1. TypeOK' /\ LaunchedInOrder' /\ RolloutFollowsPc' /\ StopBeforeRelease'
    BY <1>1, <1>2 DEF IInv, TypeOK, LaunchedInOrder, RolloutFollowsPc, StopBeforeRelease, Failed
  <2>2. ErrsFollowPc'
    BY <1>1, <1>2 DEF IInv, TypeOK, ErrsFollowPc
  <2> QED BY <2>1, <2>2
<1>4. Holders' = Holders /\ Busy' = Busy /\ MayPatch' \subseteq MayPatch
  BY <1>2 DEF Holders, Busy, MayPatch, IInv, TypeOK
<1>5. SlotAccounting' /\ SlotsPayForFailures' /\ LateBudget'
  BY <1>2, <1>3, <1>4, CountsKept
<1> QED BY <1>3, <1>5 DEF IInv

\* The second half of Trip.  The job that sets the flag holds a token and has
\* sent its PATCH (or never will), so at most Limit - 1 others may still send one.
LEMMA StopInv ==
  ASSUME IInv, NEW i \in Jobs, PollTrips(i) \/ FailureStops(i)
  PROVE  IInv'
<1>1. /\ pc[i] \in {"tripping", "failing"} /\ (pc[i] = "failing" => errs[i] = "failed")
      /\ pc' = [pc EXCEPT ![i] = IF pc[i] = "tripping" THEN "waiting" ELSE "finished"]
      /\ slots' = slots /\ disp' = disp /\ next' = next /\ stopped' = TRUE /\ late' = late /\ errs' = errs
      /\ cause' = cause /\ cause # NoCause
  BY DEF IInv, ErrsFollowPc, PollTrips, FailureStops, SetStopped, dispVars
<1>2. TypeOK' /\ LaunchedInOrder' /\ ErrsFollowPc' /\ RolloutFollowsPc' /\ StopBeforeRelease'
  BY <1>1 DEF IInv, PollTrips, FailureStops, SetStopped, TypeOK, LaunchedInOrder,
     ErrsFollowPc, RolloutFollowsPc, StopBeforeRelease, Failed, dispVars
<1>3. Holders' = Holders /\ Busy' = Busy /\ MayPatch' = MayPatch
  BY <1>1 DEF Holders, Busy, MayPatch, IInv, TypeOK
<1>4. SlotAccounting' /\ SlotsPayForFailures'
  BY <1>1, <1>3 DEF IInv, SlotAccounting, SlotsPayForFailures
<1>5. LateBudget'
  <2>1. CASE stopped
    BY <2>1, <1>1, <1>3 DEF IInv, LateBudget
  <2>2. CASE ~ stopped
    <3>1. late = {} /\ Holders \subseteq Jobs /\ i \in Holders
      BY <2>2, <1>1 DEF IInv, LateBudget, Holders
    <3>2. MayPatch \subseteq (Holders \ {i}) \cup (IF disp = "launch" THEN {next} ELSE {})
      BY <1>1 DEF MayPatch, Holders
    <3>3. Cardinality(Holders \ {i}) = Cardinality(Holders) - 1 /\ Cardinality(Holders) \in Nat
      BY <3>1, RemoveOne, JobSets
    <3>4. Cardinality(MayPatch) <= slots - 1 /\ slots <= Limit
      <4>1. CASE disp = "launch"
        <5>1. next \in Jobs /\ next \notin Holders
          BY <4>1, PoolAssumption DEF IInv, LaunchedInOrder, TypeOK, Jobs, Holders
        <5>2. Cardinality((Holders \ {i}) \cup {next}) = Cardinality(Holders \ {i}) + 1
          BY <5>1, <3>1, AddOne
        <5>3. Cardinality(MayPatch) <= Cardinality((Holders \ {i}) \cup {next})
          BY <4>1, <3>1, <3>2, <5>1, Smaller
        <5> QED BY <4>1, <3>3, <5>2, <5>3, LimitType DEF IInv, SlotAccounting, TypeOK
      <4>2. CASE disp # "launch"
        <5>1. Cardinality(MayPatch) <= Cardinality(Holders \ {i})
          BY <4>2, <3>1, <3>2, Smaller
        <5>2. Cardinality(MayPatch) \in Nat
          BY JobSets DEF MayPatch
        <5> QED BY <4>2, <3>3, <5>1, <5>2, LimitType DEF IInv, SlotAccounting, TypeOK
      <4> QED BY <4>1, <4>2
    <3>5. Cardinality(MayPatch) \in Nat /\ slots \in Nat
      BY JobSets, LimitType DEF MayPatch, IInv, TypeOK
    <3>6. Cardinality(MayPatch) <= Limit - 1
      BY <3>4, <3>5, LimitType
    <3>7. late' \cup MayPatch' = MayPatch
      BY <3>1, <1>1, <1>3
    <3> QED BY <3>6, <3>7, <1>1 DEF LateBudget
  <2> QED BY <2>1, <2>2
<1> QED BY <1>2, <1>4, <1>5 DEF IInv

\* The token is put back; only a success leaves the budget.
LEMMA ReleaseInv ==
  ASSUME IInv, NEW i \in Jobs, Release(i)
  PROVE  IInv'
<1>1. /\ Holders \subseteq Jobs /\ i \in Holders
      /\ Busy \subseteq Jobs /\ Busy' \subseteq Busy
      /\ Holders' = Holders \ {i}
      /\ MayPatch' = MayPatch
  BY DEF Release, Holders, Busy, MayPatch, IInv, TypeOK, dispVars
<1>2. Cardinality(Holders') = Cardinality(Holders) - 1 /\ Cardinality(Holders') \in Nat
      /\ Cardinality(Holders) \in Nat
  BY <1>1, RemoveOne, JobSets
<1>3. SlotAccounting'
  BY <1>2 DEF IInv, Release, SlotAccounting, dispVars
<1>4. SlotsPayForFailures'
  <2>1. Cardinality(Busy') <= Cardinality(Busy) /\ Cardinality(Busy') \in Nat /\ Cardinality(Busy) \in Nat
    BY <1>1, Smaller, JobSets
  <2> QED BY <2>1, LimitType DEF IInv, SlotsPayForFailures
<1>5. LateBudget'
  BY <1>1 DEF IInv, LateBudget, Release, stopVars
<1>6. slots' \in 0 .. Limit
  BY <1>2, LimitType DEF IInv, Release, SlotAccounting, TypeOK
<1>7. TypeOK' /\ LaunchedInOrder' /\ ErrsFollowPc' /\ RolloutFollowsPc' /\ StopBeforeRelease'
  BY <1>6 DEF IInv, Release, TypeOK, LaunchedInOrder, ErrsFollowPc, RolloutFollowsPc,
     StopBeforeRelease, Failed, stopVars, dispVars
<1> QED BY <1>3, <1>4, <1>5, <1>7 DEF IInv

\* The cluster moves on its own; completed rollouts stay completed.
LEMMA ClusterInv ==
  ASSUME IInv, NEW i \in Jobs, ClusterStep(i)
  PROVE  IInv'
<1>1. TypeOK' /\ LaunchedInOrder' /\ ErrsFollowPc' /\ RolloutFollowsPc' /\ StopBeforeRelease'
  BY DEF IInv, ClusterStep, TypeOK, LaunchedInOrder, ErrsFollowPc, RolloutFollowsPc,
     StopBeforeRelease, Failed, stopVars, dispVars
<1>2. /\ slots' = slots /\ disp' = disp /\ stopped' = stopped /\ late' = late
      /\ Holders' = Holders /\ Busy' = Busy /\ MayPatch' = MayPatch
  BY DEF ClusterStep, Holders, Busy, MayPatch, stopVars, dispVars
<1>3. SlotAccounting' /\ SlotsPayForFailures' /\ LateBudget'
  BY <1>1, <1>2, CountsKept
<1> QED BY <1>1, <1>3 DEF IInv

\* Every step of the pool keeps IInv.
LEMMA StepInv == IInv /\ [Next]_vars => IInv'
<1>1. ASSUME IInv, NEW i \in Jobs, Job(i) PROVE IInv'
  BY <1>1, FnReturnsInv, PatchInv, CauseInv, StopInv, ReleaseInv DEF Job
<1> QED
  BY <1>1, AcquireInv, GoAheadInv, GiveUpInv, LaunchInv, IdleInv, ClusterInv
     DEF Next, Dispatcher, Returned

\* Every reachable state of runRolloutJobs satisfies the counting invariant.
THEOREM Invariance == Spec => []IInv
BY InitInv, StepInv, PTL DEF Spec

\* Type correctness: in particular the semaphore never holds more than Limit
\* tokens and is never read when empty.
THEOREM TypeCorrect == Spec => []TypeOK
<1>1. IInv => TypeOK
  BY DEF IInv
<1> QED BY <1>1, Invariance, PTL

\* For any number of jobs and any --parallel: at most Limit rollouts of the
\* queue are in progress in the cluster, failed ones included.
THEOREM RolloutsAreBounded == Spec => []RolloutsBounded
<1>1. IInv => RolloutsBounded
  <2> SUFFICES ASSUME IInv, ~ SkipWait
               PROVE  Cardinality({i \in Jobs : rollout[i] \in {"running", "stuck"}}) <= Limit
    BY DEF RolloutsBounded
  <2> DEFINE InProgress == {i \in Jobs : rollout[i] \in {"running", "stuck"}}
  <2>1. InProgress \subseteq Busy
    BY DEF IInv, RolloutFollowsPc, Busy
  <2>2. Busy \subseteq Jobs
    BY DEF Busy
  <2>3. Cardinality(InProgress) <= Cardinality(Busy) /\ Cardinality(InProgress) \in Nat
        /\ Cardinality(Busy) \in Nat
    BY <2>1, <2>2, Smaller, JobSets
  <2>4. Cardinality(Busy) <= Limit
    BY DEF IInv, SlotsPayForFailures
  <2> QED BY <2>3, <2>4, LimitType
<1> QED BY <1>1, Invariance, PTL

\* Fewer than Limit restart requests are sent after the run-wide stop is set;
\* none with --parallel 1.
THEOREM LateRestartsAreBounded == Spec => []LateRestartsBounded
<1>1. IInv => LateRestartsBounded
  <2> SUFFICES ASSUME IInv PROVE Cardinality(late) <= Limit - 1
    BY DEF LateRestartsBounded
  <2>1. CASE ~ stopped
    <3>1. late = {} /\ Cardinality({}) = 0
      BY <2>1, FS_EmptySet DEF IInv, LateBudget
    <3> QED BY <3>1, LimitType
  <2>2. CASE stopped
    <3>1. late \cup MayPatch \subseteq Jobs /\ late \subseteq late \cup MayPatch
      BY DEF IInv, TypeOK, MayPatch
    <3>2. Cardinality(late) <= Cardinality(late \cup MayPatch) /\ Cardinality(late) \in Nat
          /\ Cardinality(late \cup MayPatch) \in Nat
      BY <3>1, Smaller, JobSets
    <3>3. Cardinality(late \cup MayPatch) <= Limit - 1
      BY <2>2 DEF IInv, LateBudget
    <3> QED BY <3>2, <3>3, LimitType
  <2> QED BY <2>1, <2>2
<1> QED BY <1>1, Invariance, PTL

\* The first recorded cause survives every later Trip, and a tripped run-wide
\* stop stays tripped.
THEOREM TripsAreFinal == Spec => TripIsFinal
<1>1. ASSUME [Next]_vars
      PROVE  (cause # NoCause => cause' = cause) /\ (stopped => stopped')
  <2>1. ASSUME NEW i \in Jobs, Job(i)
        PROVE  (cause # NoCause => cause' = cause) /\ (stopped => stopped')
    BY <2>1 DEF Job, NotRestarted, PatchApplied, PatchRejected, PatchAmbiguous, Patching, PollFails,
       PollTrips, WaitReady, WaitTerminal, WaitTimesOut, FailureRecorded, FailureStops, Release,
       RecordCause, SetStopped, stopVars
  <2>2. CASE UNCHANGED vars
    BY <2>2 DEF vars
  <2> QED BY <1>1, <2>1, <2>2 DEF Next, Dispatcher, Acquire, GoAhead, GiveUp, Launch, Exhausted, Join,
             Cancel, ClusterStep, Returned, stopVars
<1> QED BY <1>1, PTL DEF Spec, TripIsFinal

------------------------------------------------------------------------------
(* The queue implements BoundedRestarts: a failed job keeps its slot.       *)

LEMMA BudgetBusy == ASSUME IInv PROVE Budget!Busy = Busy
<1>1. \A i \in Jobs : BudgetState(i) \in {"active", "kept"} <=> i \in Busy
  BY DEF BudgetState, Busy, IInv, ErrsFollowPc, TypeOK
<1>2. Busy \subseteq Jobs
  BY DEF Busy
<1> QED BY <1>1, <1>2 DEF Budget!Busy, Budget!Jobs, Jobs

\* The instance's copy of Cardinality is the library's.
LEMMA BudgetCardinality == ASSUME NEW S PROVE Budget!Cardinality(S) = Cardinality(S)
BY DEF Budget!Cardinality, Cardinality, Budget!IsFiniteSet, IsFiniteSet

LEMMA BudgetInit == Init => Budget!Init
<1> SUFFICES ASSUME Init PROVE Budget!Init
  OBVIOUS
<1>1. \A i \in Jobs : BudgetState(i) = "todo"
  BY DEF Init, BudgetState, Busy
<1> QED BY <1>1 DEF Init, Budget!Init, Budget!Jobs, Jobs

\* The steps below say which jobs change their abstract state, and how.
LEMMA BudgetKept ==
  ASSUME \A i \in Jobs : BudgetState(i)' = BudgetState(i), stopped' = stopped
  PROVE  UNCHANGED Budget!vars
BY DEF Budget!vars

LEMMA BudgetOneMoves ==
  ASSUME NEW i \in Jobs, NEW to, BudgetState(i)' = to,
         \A j \in Jobs \ {i} : BudgetState(j)' = BudgetState(j)
  PROVE  [j \in Jobs |-> BudgetState(j)]' = [[j \in Jobs |-> BudgetState(j)] EXCEPT ![i] = to]
OBVIOUS

\* The check that reads FALSE is where a restart enters the budget.
LEMMA BudgetStart ==
  ASSUME IInv, GoAhead, NEW i \in Jobs, i = next
  PROVE  Budget!Start(i)
<1>1. pc[i] = "idle" /\ errs[i] = "unset" /\ i \notin Busy
  BY PoolAssumption DEF IInv, GoAhead, LaunchedInOrder, ErrsFollowPc, TypeOK, Jobs, Busy
<1>2. BudgetState(i) = "todo" /\ BudgetState(i)' = "active"
  BY <1>1 DEF GoAhead, BudgetState, Busy
<1>3. \A j \in Jobs \ {i} : BudgetState(j)' = BudgetState(j)
  BY DEF GoAhead, BudgetState, Busy
<1>4. \A j \in 1 .. (i - 1) : j \in Jobs /\ BudgetState(j) # "todo"
  BY <1>1, PoolAssumption DEF IInv, LaunchedInOrder, BudgetState, Jobs, TypeOK
<1>5. Cardinality(Busy) < Limit
  <2>1. Busy \subseteq Holders /\ Holders \subseteq Jobs
    BY DEF IInv, GoAhead, Busy, Holders, StopBeforeRelease, Failed, ErrsFollowPc, TypeOK
  <2>2. Cardinality(Busy) <= Cardinality(Holders) /\ Cardinality(Busy) \in Nat
        /\ Cardinality(Holders) \in Nat
    BY <2>1, Smaller, JobSets
  <2>3. slots = Cardinality(Holders) + 1 /\ slots \in 0 .. Limit
    BY DEF IInv, GoAhead, SlotAccounting, TypeOK
  <2> QED BY <2>2, <2>3, LimitType
<1>6. ~ stopped /\ stopped' = stopped
  BY DEF GoAhead, stopVars
<1>7. [j \in Jobs |-> BudgetState(j)]' = [[j \in Jobs |-> BudgetState(j)] EXCEPT ![i] = "active"]
  BY <1>1, <1>2, <1>3, BudgetOneMoves
<1>8. Budget!Cardinality(Budget!Busy) < Limit
  BY <1>5, BudgetBusy, BudgetCardinality
<1> QED BY <1>1, <1>2, <1>4, <1>6, <1>7, <1>8 DEF Budget!Start

\* Giving up turns away exactly the jobs that were never launched.
LEMMA BudgetRefuse == ASSUME IInv, GiveUp PROVE Budget!Refuse(Jobs)
<1>1. \A j \in Jobs : BudgetState(j)' = IF BudgetState(j) = "todo" THEN "refused" ELSE BudgetState(j)
  <2> SUFFICES ASSUME NEW j \in Jobs
               PROVE  BudgetState(j)' = IF BudgetState(j) = "todo" THEN "refused" ELSE BudgetState(j)
    OBVIOUS
  <2>1. errs'[j] = IF j >= next THEN "notStarted" ELSE errs[j]
    BY DEF GiveUp
  <2>2. j >= next <=> pc[j] = "idle"
    BY DEF IInv, LaunchedInOrder, TypeOK, Jobs
  <2>3. pc[j] = "idle" => j \notin Busy /\ BudgetState(j) = "todo"
    BY DEF IInv, GiveUp, ErrsFollowPc, Busy, BudgetState
  <2>4. pc[j] # "idle" => BudgetState(j) # "todo"
    BY DEF BudgetState
  <2>5. Busy' \ {j} = Busy \ {j} /\ (pc[j] # "idle" => (j \in Busy' <=> j \in Busy))
    BY <2>2 DEF GiveUp, Busy, IInv, LaunchedInOrder, TypeOK, Jobs
  <2> QED BY <2>1, <2>2, <2>3, <2>4, <2>5 DEF GiveUp, BudgetState
<1>2. stopped /\ stopped' = stopped
  BY DEF GiveUp, stopVars
<1> QED BY <1>1, <1>2 DEF Budget!Refuse, Budget!Jobs, Jobs

\* Setting the flag closes the queue and moves no job.
LEMMA BudgetClose ==
  ASSUME IInv, NEW i \in Jobs, PollTrips(i) \/ FailureStops(i)
  PROVE  Budget!Close
<1>1. \A j \in Jobs : BudgetState(j)' = BudgetState(j)
  BY DEF PollTrips, FailureStops, BudgetState, Busy, dispVars, IInv, TypeOK
<1>2. stopped' = TRUE
  BY DEF PollTrips, FailureStops, SetStopped
<1> QED BY <1>1, <1>2 DEF Budget!Close

\* Putting a token back: a success leaves the budget, a failure is kept.
LEMMA BudgetRelease ==
  ASSUME IInv, NEW i \in Jobs, Release(i)
  PROVE  Budget!Succeed(i) \/ Budget!Keep(i)
<1>1. pc[i] \in {"finished", "returned"} /\ errs[i] \in {"nil", "failed"} /\ (errs[i] = "failed" => stopped)
  BY DEF Release, IInv, ErrsFollowPc, StopBeforeRelease, Failed
<1>2. pc' = [pc EXCEPT ![i] = "released"] /\ errs' = errs /\ disp' = disp /\ next' = next /\ stopped' = stopped
  BY DEF Release, dispVars, stopVars
<1>3. pc[i] # "idle" /\ (disp = "launch" => i # next)
  BY <1>1 DEF IInv, LaunchedInOrder, TypeOK, Jobs
<1>4. BudgetState(i) = "active" /\ BudgetState(i)' = (IF errs[i] = "nil" THEN "ok" ELSE "kept")
  BY <1>1, <1>2, <1>3 DEF BudgetState, Busy, IInv, TypeOK
<1>5. \A j \in Jobs \ {i} : BudgetState(j)' = BudgetState(j)
  BY <1>2 DEF BudgetState, Busy, IInv, TypeOK
<1> QED BY <1>1, <1>2, <1>4, <1>5, BudgetOneMoves DEF Budget!Succeed, Budget!Keep

\* Every other step is invisible to the budget.
LEMMA BudgetStutter ==
  ASSUME IInv, NEW i \in Jobs,
         \/ Acquire \/ Launch \/ Exhausted \/ Join \/ Cancel \/ UNCHANGED vars
         \/ NotRestarted(i) \/ PatchApplied(i) \/ PatchRejected(i) \/ PatchAmbiguous(i)
         \/ PollFails(i) \/ WaitReady(i) \/ WaitTerminal(i) \/ WaitTimesOut(i)
         \/ FailureRecorded(i) \/ ClusterStep(i)
  PROVE  UNCHANGED Budget!vars
<1>1. CASE Acquire \/ Exhausted \/ Join \/ Cancel \/ UNCHANGED vars \/ ClusterStep(i)
  <2>1. pc' = pc /\ errs' = errs /\ next' = next /\ stopped' = stopped /\ (disp' = "launch" <=> disp = "launch")
    BY <1>1 DEF Acquire, Exhausted, Join, Cancel, vars, ClusterStep, dispVars, stopVars
  <2> QED BY <2>1, BudgetKept DEF BudgetState, Busy
<1>2. CASE Launch
  <2>1. next \in Jobs /\ pc[next] = "idle" /\ errs[next] = "unset"
    BY <1>2, PoolAssumption DEF IInv, Launch, LaunchedInOrder, ErrsFollowPc, TypeOK, Jobs
  <2>2. /\ pc' = [pc EXCEPT ![next] = "launched"] /\ disp' = "acquire" /\ disp = "launch"
        /\ next' = next + 1 /\ errs' = errs /\ stopped' = stopped
    BY <1>2 DEF Launch, stopVars
  <2>3. Busy' = Busy
    BY <2>1, <2>2 DEF Busy, IInv, TypeOK
  <2>4. \A j \in Jobs : BudgetState(j)' = BudgetState(j)
    BY <2>1, <2>2, <2>3 DEF BudgetState, IInv, TypeOK, Busy
  <2> QED BY <2>2, <2>4, BudgetKept
<1>3. CASE \/ NotRestarted(i) \/ PatchApplied(i) \/ PatchRejected(i) \/ PatchAmbiguous(i)
           \/ PollFails(i) \/ WaitReady(i) \/ WaitTerminal(i) \/ WaitTimesOut(i) \/ FailureRecorded(i)
  <2>1. /\ pc[i] \in {"launched", "waiting", "returned"}
        /\ pc'[i] \in {"waiting", "tripping", "returned", "failing"}
        /\ errs[i] # "notStarted" /\ errs'[i] # "notStarted"
        /\ \A j \in Jobs \ {i} : pc'[j] = pc[j] /\ errs'[j] = errs[j]
        /\ disp' = disp /\ next' = next /\ stopped' = stopped
    BY <1>3 DEF NotRestarted, PatchApplied, PatchRejected, PatchAmbiguous, Patching, PollFails, WaitReady,
       WaitTerminal, WaitTimesOut, FailureRecorded, FnReturns, dispVars, stopVars, IInv, TypeOK, ErrsFollowPc
  <2>2. Busy' = Busy /\ i \in Busy
    BY <2>1 DEF Busy
  <2>3. \A j \in Jobs : BudgetState(j)' = BudgetState(j)
    BY <2>1, <2>2 DEF BudgetState
  <2> QED BY <2>1, <2>3, BudgetKept
<1> QED BY <1>1, <1>2, <1>3

LEMMA BudgetStep == IInv /\ [Next]_vars => [Budget!Next]_(Budget!vars)
<1> SUFFICES ASSUME IInv, [Next]_vars PROVE [Budget!Next]_(Budget!vars)
  OBVIOUS
<1>1. Budget!Jobs = Jobs /\ 1 \in Jobs
  BY PoolAssumption DEF Budget!Jobs, Jobs
<1>2. ASSUME NEW i \in Jobs, Job(i) PROVE [Budget!Next]_(Budget!vars)
  BY <1>1, <1>2, BudgetClose, BudgetRelease, BudgetStutter DEF Job, Budget!Next
<1>3. CASE GoAhead
  <2>1. PICK i \in Jobs : i = next
    BY <1>3, PoolAssumption DEF IInv, GoAhead, LaunchedInOrder, TypeOK, Jobs
  <2>2. Budget!Start(i)
    BY <1>3, <2>1, BudgetStart
  <2> QED BY <1>1, <2>2 DEF Budget!Next
<1>4. CASE GiveUp
  <2>1. Budget!Refuse(Jobs)
    BY <1>4, BudgetRefuse
  <2> QED BY <2>1 DEF Budget!Next, Budget!Jobs, Jobs
<1>5. CASE Acquire \/ Launch \/ Exhausted \/ Join \/ Cancel \/ UNCHANGED vars
  BY <1>1, <1>5, BudgetStutter
<1>6. ASSUME NEW i \in Jobs, ClusterStep(i) PROVE [Budget!Next]_(Budget!vars)
  BY <1>6, BudgetStutter
<1> QED BY <1>2, <1>3, <1>4, <1>5, <1>6 DEF Next, Dispatcher, Returned

\* runRolloutJobs implements the abstract budget: tokens are put back by failed
\* jobs, yet no slot of a failed restart is ever given to a new target.
THEOREM Refinement == Spec => ImplementsBudget
BY BudgetInit, BudgetStep, Invariance, PTL DEF Spec, ImplementsBudget, Budget!Spec

------------------------------------------------------------------------------
(* What the queue reports when it returns.                                 *)

\* The dispatcher leaves its loop with all jobs launched, or the rest refused; a
\* cause that is a job is one that has failed or, its poll having failed, will.
Settled ==
  /\ disp \in {"join", "returned"} =>
       next > N \/ (stopped /\ \A j \in Jobs : j >= next => errs[j] = "notStarted")
  /\ disp = "returned" => \A j \in Jobs : pc[j] \in {"idle", "released"}
  /\ \A j \in Jobs : /\ cause = j => apiErr[j] \/ errs[j] = "failed"
                     /\ apiErr[j] => pc[j] \notin {"idle", "launched"} /\ errs[j] # "nil"

LEMMA InitSettled == Init => Settled
BY PoolAssumption DEF Init, Settled, Jobs, NoCause, EarlierFailure

LEMMA SettledDispatch ==
  ASSUME IInv, Settled, IInv', Dispatcher \/ Cancel \/ UNCHANGED vars
  PROVE  Settled'
<1> USE PoolAssumption DEF IInv, TypeOK, Settled, Jobs
<1>1. CASE Acquire
  BY <1>1 DEF Acquire, stopVars
<1>2. CASE GoAhead
  BY <1>2 DEF GoAhead, stopVars
<1>3. CASE GiveUp
  <2>1. \A j \in Jobs : pc[j] # "idle" <=> j < next
    BY DEF LaunchedInOrder
  <2>2. \A j \in Jobs : errs'[j] = IF j >= next THEN "notStarted" ELSE errs[j]
    BY <1>3 DEF GiveUp
  <2>3. UNCHANGED <<next, stopped, cause, pc, apiErr>> /\ disp' = "join" /\ stopped
    BY <1>3 DEF GiveUp, stopVars
  <2>4. \A j \in Jobs : errs[j] = "failed" => pc[j] # "idle"
    BY DEF ErrsFollowPc
  <2> QED BY <2>1, <2>2, <2>3, <2>4
<1>4. CASE Launch
  <2>1. next \in Jobs /\ pc[next] = "idle"
    BY <1>4 DEF Launch, LaunchedInOrder
  <2>2. /\ pc' = [pc EXCEPT ![next] = "launched"] /\ disp' = "acquire"
        /\ UNCHANGED <<errs, stopped, cause, apiErr>>
    BY <1>4 DEF Launch, stopVars
  <2>3. \A j \in Jobs : pc'[j] \in {"idle", "launched"} => pc[j] \in {"idle", "launched"}
    BY <2>1, <2>2
  <2> QED BY <2>2, <2>3
<1>5. CASE Exhausted
  BY <1>5 DEF Exhausted, stopVars
<1>6. CASE Join
  BY <1>6 DEF Join, stopVars
<1>7. CASE Cancel \/ UNCHANGED vars
  BY <1>7 DEF Cancel, dispVars, stopVars, vars
<1> QED BY <1>1, <1>2, <1>3, <1>4, <1>5, <1>6, <1>7 DEF Dispatcher

\* A goroutine moves itself: its error and its failed poll go together.
LEMMA SettledMove ==
  ASSUME IInv, Settled, NEW i \in Jobs, pc[i] \notin {"idle", "released"},
         UNCHANGED <<next, disp>>, stopped => stopped',
         \A j \in Jobs \ {i} : pc'[j] = pc[j] /\ errs'[j] = errs[j] /\ apiErr'[j] = apiErr[j],
         cause' = cause \/ cause' = i,
         apiErr'[i] \/ errs'[i] = "failed" \/ (cause' # i /\ ~ apiErr'[i]),
         apiErr'[i] => pc'[i] # "launched" /\ errs'[i] # "nil",
         pc'[i] # "idle"
  PROVE  Settled'
<1> USE PoolAssumption DEF IInv, TypeOK, Settled
<1>1. disp # "returned" /\ i < next
  BY DEF LaunchedInOrder
<1>2. disp' \in {"join", "returned"} =>
        next' > N \/ (stopped' /\ \A j \in Jobs : j >= next' => errs'[j] = "notStarted")
  BY <1>1 DEF Jobs
<1>3. \A j \in Jobs : cause' = j => apiErr'[j] \/ errs'[j] = "failed"
  OBVIOUS
<1>4. \A j \in Jobs : apiErr'[j] => pc'[j] \notin {"idle", "launched"} /\ errs'[j] # "nil"
  OBVIOUS
<1> QED BY <1>1, <1>2, <1>3, <1>4

LEMMA SettledJob ==
  ASSUME IInv, Settled, NEW i \in Jobs, Job(i)
  PROVE  Settled'
<1> DEFINE Same == /\ UNCHANGED <<next, disp>> /\ (stopped => stopped')
                   /\ \A j \in Jobs \ {i} : pc'[j] = pc[j] /\ errs'[j] = errs[j] /\ apiErr'[j] = apiErr[j]
<1>0. /\ pc \in [Jobs -> {"idle", "launched", "waiting", "tripping", "returned", "failing", "finished", "released"}]
      /\ errs \in [Jobs -> {"unset", "nil", "failed", "notStarted"}] /\ apiErr \in [Jobs -> BOOLEAN]
      /\ cause = i => apiErr[i] \/ errs[i] = "failed"
      /\ apiErr[i] => pc[i] \notin {"idle", "launched"} /\ errs[i] # "nil"
  BY DEF IInv, TypeOK, Settled
<1>1. CASE NotRestarted(i) \/ PatchRejected(i) \/ PatchAmbiguous(i) \/ WaitTerminal(i) \/ WaitTimesOut(i)
  <2>1. /\ pc[i] \in {"launched", "waiting"} /\ pc'[i] = "returned" /\ errs'[i] = "failed"
        /\ cause' = cause /\ Same
    BY <1>0, <1>1 DEF NotRestarted, PatchRejected, PatchAmbiguous, WaitTerminal, WaitTimesOut, Patching, FnReturns,
       dispVars, stopVars
  <2> QED BY <1>0, <2>1, SettledMove
<1>2. CASE PatchApplied(i)
  <2>1. pc[i] = "launched" /\ pc'[i] \in {"returned", "waiting"} /\ cause' = cause /\ apiErr' = apiErr /\ Same
    BY <1>0, <1>2 DEF PatchApplied, Patching, FnReturns, dispVars, stopVars
  <2>2. errs[i] = "unset" /\ ~ apiErr[i] /\ cause # i
    BY <1>0, <2>1 DEF IInv, ErrsFollowPc
  <2> QED BY <1>0, <2>1, <2>2, SettledMove
<1>3. CASE PollFails(i)
  <2>1. /\ pc[i] = "waiting" /\ pc'[i] = "tripping" /\ errs' = errs /\ apiErr'[i] = TRUE
        /\ (cause' = cause \/ cause' = i) /\ Same
    BY <1>0, <1>3 DEF PollFails, RecordCause, dispVars
  <2>2. errs[i] = "unset"
    BY <2>1 DEF IInv, ErrsFollowPc
  <2> QED BY <1>0, <2>1, <2>2, SettledMove
<1>4. CASE PollTrips(i) \/ FailureStops(i) \/ Release(i)
  <2>1. /\ pc[i] \in {"tripping", "failing", "finished", "returned"} /\ pc'[i] \in {"waiting", "finished", "released"}
        /\ UNCHANGED <<errs, apiErr, cause>> /\ Same
    BY <1>0, <1>4 DEF PollTrips, FailureStops, Release, SetStopped, dispVars, stopVars
  <2> QED BY <1>0, <2>1, SettledMove
<1>5. CASE WaitReady(i)
  <2>1. /\ pc[i] = "waiting" /\ pc'[i] = "returned" /\ errs'[i] = (IF apiErr[i] THEN "failed" ELSE "nil")
        /\ cause' = cause /\ apiErr' = apiErr /\ Same
    BY <1>0, <1>5 DEF WaitReady, FnReturns, dispVars, stopVars
  <2>2. errs[i] = "unset"
    BY <2>1 DEF IInv, ErrsFollowPc
  <2> QED BY <1>0, <2>1, <2>2, SettledMove
<1>6. CASE FailureRecorded(i)
  <2>1. /\ pc[i] = "returned" /\ pc'[i] = "failing" /\ errs[i] = "failed" /\ UNCHANGED <<errs, apiErr>>
        /\ (cause' = cause \/ cause' = i) /\ Same
    BY <1>0, <1>6 DEF FailureRecorded, RecordCause, dispVars
  <2> QED BY <1>0, <2>1, SettledMove
<1> QED BY <1>1, <1>2, <1>3, <1>4, <1>5, <1>6 DEF Job

LEMMA SettledNext == IInv /\ Settled /\ IInv' /\ [Next]_vars => Settled'
<1> SUFFICES ASSUME IInv, Settled, IInv', [Next]_vars PROVE Settled'
  OBVIOUS
<1>1. ASSUME NEW i \in Jobs, ClusterStep(i) PROVE Settled'
  BY <1>1 DEF ClusterStep, Settled, dispVars, stopVars
<1> QED BY <1>1, SettledDispatch, SettledJob DEF Next, Returned

\* When the queue returns every job has its outcome, the ones not started never
\* reached the cluster and have a failure to blame, and every token is back
\* (runRolloutJobs, RunStop.Trip).
THEOREM EveryJobHasItsOutcome == Spec => []OutcomesComplete
<1>1. IInv /\ Settled => OutcomesComplete
  <2> SUFFICES ASSUME IInv, Settled, disp = "returned"
               PROVE  /\ \A i \in Jobs : errs[i] # "unset"
                      /\ NotStarted = {i \in Jobs : i >= next}
                      /\ \A i \in NotStarted : rollout[i] = "none"
                      /\ ~ SkipWait => \A i \in Jobs : errs[i] = "nil" => rollout[i] = "complete"
                      /\ NotStarted # {} => cause = EarlierFailure \/ Failed # {}
                      /\ slots = 0
    BY DEF OutcomesComplete
  <2>1. \A i \in Jobs : /\ pc[i] \in {"idle", "released"} /\ (pc[i] = "idle" <=> i >= next)
                        /\ errs[i] = "notStarted" <=> i >= next
                        /\ errs[i] # "unset"
    BY PoolAssumption DEF IInv, Settled, LaunchedInOrder, ErrsFollowPc, TypeOK, Jobs
  <2>2. NotStarted = {i \in Jobs : i >= next}
    BY <2>1 DEF NotStarted
  <2>3. \A i \in NotStarted : rollout[i] = "none"
    BY <2>1 DEF NotStarted, IInv, RolloutFollowsPc
  <2>4. ~ SkipWait => \A i \in Jobs : errs[i] = "nil" => rollout[i] = "complete"
    BY DEF IInv, RolloutFollowsPc
  <2>5. ASSUME NotStarted # {} PROVE cause = EarlierFailure \/ Failed # {}
    <3>1. stopped
      BY <2>1, <2>5, PoolAssumption DEF NotStarted, IInv, TypeOK, Settled, Jobs
    <3>2. cause \in Jobs \/ cause = EarlierFailure
      BY <3>1, PoolAssumption DEF IInv, StopBeforeRelease, TypeOK, NoCause, EarlierFailure, Jobs
    <3>3. ASSUME cause \in Jobs PROVE errs[cause] = "failed"
      BY <2>1, <3>3 DEF IInv, Settled, ErrsFollowPc
    <3> QED BY <3>2, <3>3 DEF Failed
  <2>6. slots = 0
    <3>1. Holders = {}
      BY DEF Holders, Settled
    <3> QED BY <3>1, FS_EmptySet DEF IInv, SlotAccounting
  <2> QED BY <2>1, <2>2, <2>3, <2>4, <2>5, <2>6
<1> QED BY <1>1, InitSettled, SettledNext, Invariance, PTL DEF Spec

------------------------------------------------------------------------------
(* Maintenance sees the queue of one type in fewer steps.  What a run with *)
(* one type shows of it, once the type's queue is open:                    *)

\* A job is let in when the flag reads FALSE; it is doomed when its error, or
\* that of its poll, has set the flag.
TargetState(i) ==
  CASE pc[i] = "idle" -> IF errs[i] = "notStarted" THEN "refused"
                         ELSE IF disp = "launch" /\ i = next THEN "launched" ELSE "todo"
    [] pc[i] = "released" -> IF errs[i] = "nil" THEN "ok" ELSE "failed"
    [] pc[i] = "finished" \/ (apiErr[i] /\ pc[i] \notin {"idle", "released", "tripping"}) -> "doomed"
    [] OTHER -> IF rollout[i] = "none" THEN "launched" ELSE "patched"

TypeErrs == IF disp = "returned" /\ (\E i \in Jobs : errs[i] # "nil") THEN {"restart"} ELSE {}

Run == INSTANCE Maintenance WITH
         Types <- 1, TypeOf <- [i \in Jobs |-> 1], Parallel <- Limit, WithCordon <- FALSE,
         stage <- "run", type <- IF disp = "returned" THEN 2 ELSE 1, open <- disp # "returned",
         st <- [i \in Jobs |-> TargetState(i)], cordoned <- "none", errs <- TypeErrs,
         canceled <- FALSE, interrupted <- cancelled, exit <- "none"

\* A queue that has just been opened, and the steps of Maintenance that stand for
\* it, with the signal.
QueueOpen == \A i \in Jobs : TargetState(i) = "todo" /\ disp # "returned"
QueueStep == (\E i \in Jobs : Run!Job(i)) \/ Run!Refuse \/ Run!PhaseCloses \/ Run!FirstSignal

\* A failed poll is about to set the flag or has set it, and a success has been
\* in the cluster.
Polling ==
  \A j \in Jobs : /\ pc[j] = "tripping" => apiErr[j]
                  /\ apiErr[j] /\ pc[j] # "tripping" => stopped
                  /\ errs[j] = "nil" => rollout[j] # "none"

LEMMA InitPolling == Init => Polling
BY DEF Init, Polling

LEMMA PollingNext == IInv /\ Settled /\ Polling /\ [Next]_vars => Polling'
<1> SUFFICES ASSUME IInv, Settled, Polling, [Next]_vars PROVE Polling'
  OBVIOUS
<1> USE DEF IInv, TypeOK, Polling
<1>1. CASE Acquire \/ GoAhead \/ Exhausted \/ Join \/ Cancel \/ UNCHANGED vars
  BY <1>1 DEF Acquire, GoAhead, Exhausted, Join, Cancel, vars, dispVars, stopVars
<1>2. CASE GiveUp
  BY <1>2 DEF GiveUp, stopVars
<1>3. CASE Launch
  <2>1. next \in Jobs /\ pc[next] = "idle"
    BY <1>3, PoolAssumption DEF Launch, LaunchedInOrder, Jobs
  <2>2. pc' = [pc EXCEPT ![next] = "launched"] /\ UNCHANGED <<apiErr, errs, rollout, stopped>>
    BY <1>3 DEF Launch, stopVars
  <2> QED BY <2>1, <2>2
<1>4. ASSUME NEW i \in Jobs, Job(i) PROVE Polling'
  <2>1. CASE NotRestarted(i) \/ PatchApplied(i) \/ PatchRejected(i) \/ PatchAmbiguous(i)
    BY <2>1 DEF NotRestarted, PatchApplied, PatchRejected, PatchAmbiguous, Patching, FnReturns, dispVars, stopVars
  <2>2. CASE PollFails(i) \/ PollTrips(i)
    BY <2>2 DEF PollFails, PollTrips, SetStopped, dispVars
  <2>3. CASE WaitReady(i) \/ WaitTerminal(i) \/ WaitTimesOut(i)
    BY <2>3 DEF WaitReady, WaitTerminal, WaitTimesOut, FnReturns, dispVars, stopVars
  <2>4. CASE FailureRecorded(i) \/ FailureStops(i) \/ Release(i)
    BY <2>4 DEF FailureRecorded, FailureStops, Release, SetStopped, dispVars, stopVars
  <2> QED BY <1>4, <2>1, <2>2, <2>3, <2>4 DEF Job
<1>5. ASSUME NEW i \in Jobs, ClusterStep(i) PROVE Polling'
  BY <1>5 DEF ClusterStep, dispVars, stopVars
<1> QED BY <1>1, <1>2, <1>3, <1>4, <1>5 DEF Next, Dispatcher, Returned

\* The instance's copies of the library's Cardinality and of Jobs.
LEMMA RunJobs ==
  /\ Run!Jobs = Jobs /\ Run!JobsOf(1) = Jobs
  /\ \A S : Run!Cardinality(S) = Cardinality(S)
<1>1. Run!Jobs = Jobs
  BY DEF Run!Jobs, Jobs
<1>2. Run!JobsOf(1) = Jobs
  BY <1>1 DEF Run!JobsOf
<1>3. \A S : Run!Cardinality(S) = Cardinality(S)
  BY DEF Run!Cardinality, Cardinality, Run!IsFiniteSet, IsFiniteSet
<1> QED BY <1>1, <1>2, <1>3

\* A step that one job takes while the queue is open.
LEMMA RunMove ==
  ASSUME NEW i \in Jobs, disp # "returned", disp' # "returned", UNCHANGED cancelled,
         \A j \in Jobs \ {i} : TargetState(j)' = TargetState(j)
  PROVE  /\ [j \in Jobs |-> TargetState(j)]' = [[j \in Jobs |-> TargetState(j)] EXCEPT ![i] = TargetState(i)']
         /\ TypeErrs = {} /\ TypeErrs' = {}
         /\ TargetState(i)' = TargetState(i) /\ UNCHANGED stopped => UNCHANGED Run!vars
<1>1. [j \in Jobs |-> TargetState(j)]' = [[j \in Jobs |-> TargetState(j)] EXCEPT ![i] = TargetState(i)']
  OBVIOUS
<1>2. TypeErrs = {} /\ TypeErrs' = {}
  BY DEF TypeErrs
<1>3. ASSUME TargetState(i)' = TargetState(i) PROVE [j \in Jobs |-> TargetState(j)]' = [j \in Jobs |-> TargetState(j)]
  BY <1>3
<1> HIDE DEF TargetState
<1> QED BY <1>1, <1>2, <1>3 DEF Run!vars, Run!phaseVars

\* The check that reads FALSE lets the job in.
LEMMA RunLaunch ==
  ASSUME IInv, Settled, GoAhead, NEW i \in Jobs, i = next
  PROVE  Run!Launch(i)
<1>1. pc[i] = "idle" /\ errs[i] = "unset" /\ disp = "check" /\ disp' = "launch" /\ ~ stopped
      /\ UNCHANGED <<next, stopped, cancelled, pc, errs, apiErr, rollout>>
  BY DEF IInv, GoAhead, LaunchedInOrder, ErrsFollowPc, TypeOK, stopVars
<1>2. TargetState(i) = "todo" /\ TargetState(i)' = "launched"
  BY <1>1 DEF TargetState
<1>3. \A j \in Jobs \ {i} : TargetState(j)' = TargetState(j)
  BY <1>1 DEF TargetState
<1>4. ASSUME NEW j \in 1 .. (i - 1) PROVE j \in Jobs /\ TargetState(j) # "todo"
  <2>1. j \in Jobs /\ pc[j] # "idle"
    BY PoolAssumption DEF IInv, LaunchedInOrder, Jobs, TypeOK
  <2> QED BY <2>1 DEF TargetState
<1>5. Cardinality(Run!InFlight) < Limit
  <2>1. Run!InFlight \subseteq Holders
    BY <1>1, RunJobs DEF Run!InFlight, TargetState, Holders
  <2>2. Holders \subseteq Jobs
    BY DEF Holders
  <2>3. Cardinality(Run!InFlight) <= Cardinality(Holders) /\ Cardinality(Holders) \in Nat
        /\ Cardinality(Run!InFlight) \in Nat
    BY <2>1, <2>2, Smaller, JobSets
  <2>4. slots = Cardinality(Holders) + 1 /\ slots \in 0 .. Limit
    BY <1>1 DEF IInv, SlotAccounting, TypeOK
  <2> QED BY <2>3, <2>4, LimitType
<1>6. /\ [j \in Jobs |-> TargetState(j)]' = [[j \in Jobs |-> TargetState(j)] EXCEPT ![i] = "launched"]
      /\ TypeErrs = {} /\ TypeErrs' = {}
  BY <1>1, <1>2, <1>3, RunMove
<1> HIDE DEF TargetState, TypeErrs
<1> QED BY <1>1, <1>2, <1>4, <1>5, <1>6, RunJobs DEF Run!Launch, Run!InQueue, Run!Working, Run!phaseVars

\* The rest is turned away.
LEMMA RunRefuse == ASSUME IInv, Settled, GiveUp PROVE Run!Refuse
<1>1. disp = "check" /\ disp' = "join" /\ stopped /\ UNCHANGED <<next, stopped, cancelled, pc, apiErr, rollout>>
  BY DEF GiveUp, stopVars
<1>2. ASSUME NEW j \in Jobs
      PROVE  TargetState(j)' = IF TargetState(j) = "todo" THEN "refused" ELSE TargetState(j)
  <2>1. errs'[j] = IF j >= next THEN "notStarted" ELSE errs[j]
    BY DEF GiveUp
  <2>2. j >= next <=> pc[j] = "idle"
    BY DEF IInv, LaunchedInOrder, TypeOK, Jobs
  <2>3. pc[j] = "idle" => errs[j] # "notStarted"
    BY <1>1 DEF IInv, ErrsFollowPc
  <2> QED BY <1>1, <2>1, <2>2, <2>3 DEF TargetState
<1>3. next \in Jobs /\ TargetState(next) = "todo"
  BY <1>1, PoolAssumption DEF IInv, LaunchedInOrder, ErrsFollowPc, TypeOK, Jobs, TargetState
<1>4. TypeErrs = {} /\ TypeErrs' = {}
  BY <1>1 DEF TypeErrs
<1> HIDE DEF TargetState, TypeErrs
<1> QED BY <1>1, <1>2, <1>3, <1>4, RunJobs DEF Run!Refuse, Run!Working, Run!phaseVars

\* All goroutines are back: the type is closed, with its errors.
LEMMA RunCloses == ASSUME IInv, Settled, Join PROVE Run!PhaseCloses
<1>1. disp = "join" /\ disp' = "returned" /\ (\A i \in Jobs : pc[i] \in {"idle", "released"})
      /\ UNCHANGED <<next, stopped, cancelled, pc, errs, apiErr, rollout>>
  BY DEF Join, stopVars
<1>2. \A i \in Jobs : TargetState(i) \in {"ok", "failed", "refused"} /\ (TargetState(i) = "ok" <=> errs[i] = "nil")
  <2> SUFFICES ASSUME NEW i \in Jobs
               PROVE  TargetState(i) \in {"ok", "failed", "refused"} /\ (TargetState(i) = "ok" <=> errs[i] = "nil")
    OBVIOUS
  <2>1. CASE pc[i] = "idle"
    <3>1. i >= next /\ ~ (next > N)
      BY <2>1, PoolAssumption DEF IInv, LaunchedInOrder, TypeOK, Jobs
    <3>2. errs[i] = "notStarted"
      BY <1>1, <3>1 DEF Settled
    <3> QED BY <2>1, <3>2 DEF TargetState
  <2>2. CASE pc[i] = "released"
    BY <2>2 DEF TargetState
  <2> QED BY <1>1, <2>1, <2>2
<1>3. \A i \in Jobs : TargetState(i)' = TargetState(i)
  BY <1>1 DEF TargetState
<1>4. TypeErrs = {} /\ TypeErrs' = IF \A i \in Jobs : errs[i] = "nil" THEN {} ELSE {"restart"}
  BY <1>1 DEF TypeErrs
<1> HIDE DEF TargetState, TypeErrs
<1>5. UNCHANGED [i \in Jobs |-> TargetState(i)]
  BY <1>3
<1>6. TypeErrs' = IF \A i \in Jobs : TargetState(i) = "ok" THEN TypeErrs ELSE TypeErrs \cup {"restart"}
  BY <1>2, <1>4
<1>7. /\ \A i \in Run!JobsOf(1) : [j \in Jobs |-> TargetState(j)][i] \in {"ok", "failed", "refused"}
      /\ TypeErrs' = IF \A i \in Run!JobsOf(1) : [j \in Jobs |-> TargetState(j)][i] = "ok"
                     THEN TypeErrs ELSE TypeErrs \cup {"restart"}
  BY <1>2, <1>6, RunJobs
<1> QED BY <1>1, <1>5, <1>7 DEF Run!PhaseCloses, Run!Working

\* The signal; and what Maintenance does not see of the dispatcher and the cluster.
LEMMA RunSignal == ASSUME Cancel PROVE Run!FirstSignal
<1>1. ~ cancelled /\ cancelled' = TRUE /\ UNCHANGED <<next, disp, stopped, pc, errs, apiErr, rollout>>
  BY DEF Cancel, dispVars, stopVars
<1>2. UNCHANGED [i \in Jobs |-> TargetState(i)] /\ UNCHANGED TypeErrs
  BY <1>1 DEF TargetState, TypeErrs
<1> QED BY <1>1, <1>2 DEF Run!FirstSignal, Run!phaseVars

LEMMA RunUnseen ==
  ASSUME IInv, Settled,
         Acquire \/ Launch \/ Exhausted \/ UNCHANGED vars \/ \E i \in Jobs : ClusterStep(i)
  PROVE  UNCHANGED Run!vars
<1>1. UNCHANGED <<stopped, cancelled, errs, apiErr>> /\ (disp = "returned" <=> disp' = "returned")
  BY DEF Acquire, Launch, Exhausted, vars, ClusterStep, dispVars, stopVars
<1>2. CASE Acquire \/ Exhausted \/ UNCHANGED vars
  BY <1>1, <1>2 DEF Acquire, Exhausted, vars, dispVars, stopVars, TargetState, TypeErrs, Run!vars, Run!phaseVars
<1>3. CASE Launch
  <2>1. next \in Jobs /\ pc[next] = "idle" /\ errs[next] = "unset" /\ rollout[next] = "none" /\ ~ apiErr[next]
    BY <1>3, PoolAssumption
       DEF IInv, Launch, LaunchedInOrder, ErrsFollowPc, RolloutFollowsPc, TypeOK, Settled, Jobs
  <2>2. /\ pc' = [pc EXCEPT ![next] = "launched"] /\ disp' = "acquire" /\ disp = "launch"
        /\ next' = next + 1 /\ rollout' = rollout
    BY <1>3 DEF Launch
  <2>3. ASSUME NEW j \in Jobs PROVE TargetState(j)' = TargetState(j)
    BY <1>1, <2>1, <2>2 DEF TargetState, IInv, TypeOK
  <2> QED BY <1>1, <2>3 DEF Run!vars, Run!phaseVars, TypeErrs
<1>4. ASSUME NEW i \in Jobs, ClusterStep(i) PROVE UNCHANGED Run!vars
  <2>1. UNCHANGED <<pc, disp, next>> /\ \A j \in Jobs : rollout'[j] = "none" <=> rollout[j] = "none"
    BY <1>4 DEF ClusterStep, dispVars, IInv, TypeOK
  <2>2. ASSUME NEW j \in Jobs PROVE TargetState(j)' = TargetState(j)
    BY <1>1, <2>1 DEF TargetState
  <2> QED BY <1>1, <2>1, <2>2 DEF Run!vars, Run!phaseVars, TypeErrs
<1> QED BY <1>2, <1>3, <1>4

\* A goroutine's step is a step of its target, or none.
LEMMA RunJob ==
  ASSUME IInv, Settled, Polling, NEW i \in Jobs, Job(i)
  PROVE  Run!Job(i) \/ UNCHANGED Run!vars
<1> DEFINE Was == TargetState(i)
           Is == TargetState(i)'
<1>0. /\ pc \in [Jobs -> {"idle", "launched", "waiting", "tripping", "returned", "failing", "finished", "released"}]
      /\ errs \in [Jobs -> {"unset", "nil", "failed", "notStarted"}] /\ apiErr \in [Jobs -> BOOLEAN]
      /\ rollout \in [Jobs -> {"none", "maybe", "running", "stuck", "complete"}]
  BY DEF IInv, TypeOK
<1>1. /\ UNCHANGED <<disp, next, cancelled>> /\ pc[i] \notin {"idle", "released"}
      /\ \A j \in Jobs \ {i} : /\ pc'[j] = pc[j] /\ errs'[j] = errs[j] /\ apiErr'[j] = apiErr[j]
                               /\ rollout'[j] = rollout[j]
  <2>1. CASE NotRestarted(i) \/ PatchApplied(i) \/ PatchRejected(i) \/ PatchAmbiguous(i)
    BY <1>0, <2>1 DEF NotRestarted, PatchApplied, PatchRejected, PatchAmbiguous, Patching, FnReturns, dispVars, stopVars
  <2>2. CASE PollFails(i) \/ PollTrips(i)
    BY <1>0, <2>2 DEF PollFails, PollTrips, dispVars
  <2>3. CASE WaitReady(i) \/ WaitTerminal(i) \/ WaitTimesOut(i)
    BY <1>0, <2>3 DEF WaitReady, WaitTerminal, WaitTimesOut, FnReturns, dispVars, stopVars
  <2>4. CASE FailureRecorded(i) \/ FailureStops(i) \/ Release(i)
    BY <1>0, <2>4 DEF FailureRecorded, FailureStops, Release, dispVars, stopVars
  <2> QED BY <2>1, <2>2, <2>3, <2>4 DEF Job
<1>2. disp # "returned" /\ disp' # "returned"
  BY <1>1 DEF Settled
<1>3. \A j \in Jobs \ {i} : TargetState(j)' = TargetState(j)
  BY <1>1 DEF TargetState
<1>4. /\ [j \in Jobs |-> TargetState(j)]' = [[j \in Jobs |-> TargetState(j)] EXCEPT ![i] = Is]
      /\ TypeErrs = {} /\ TypeErrs' = {}
      /\ Is = Was /\ UNCHANGED stopped => UNCHANGED Run!vars
  BY <1>1, <1>2, <1>3, RunMove
<1>5. Run!InQueue(i)
  BY <1>2 DEF Run!InQueue, Run!Working
\* What becomes of the target decides which step it is.
<1>6. ASSUME Was = "launched", Is = "patched", ~ cancelled, UNCHANGED stopped PROVE Run!Patch(i)
  <2> HIDE DEF TargetState, TypeErrs
  <2> QED BY <1>1, <1>2, <1>4, <1>5, <1>6 DEF Run!Patch, Run!phaseVars
<1>7. ASSUME Was \in {"launched", "patched"}, Is = "doomed", stopped' = TRUE PROVE Run!Doom(i)
  <2> HIDE DEF TargetState, TypeErrs
  <2> QED BY <1>1, <1>2, <1>4, <1>5, <1>7 DEF Run!Doom, Run!phaseVars
<1>8. ASSUME Was = "patched", Is = "ok", UNCHANGED stopped PROVE Run!Succeed(i)
  <2> HIDE DEF TargetState, TypeErrs
  <2> QED BY <1>1, <1>2, <1>4, <1>5, <1>8 DEF Run!Succeed, Run!phaseVars
<1>9. ASSUME Was = "doomed", Is = "failed", UNCHANGED stopped PROVE Run!JobFails(i)
  <2> HIDE DEF TargetState, TypeErrs
  <2> QED BY <1>1, <1>2, <1>4, <1>5, <1>9 DEF Run!JobFails, Run!phaseVars
<1>10. CASE NotRestarted(i) \/ PatchRejected(i)
  <2>1. /\ pc[i] = "launched" /\ pc'[i] = "returned" /\ ~ apiErr[i] /\ ~ apiErr'[i]
        /\ rollout[i] = "none" /\ rollout'[i] = "none" /\ UNCHANGED stopped
    BY <1>0, <1>10 DEF NotRestarted, PatchRejected, Patching, FnReturns, stopVars, Settled, IInv, RolloutFollowsPc
  <2> QED BY <1>4, <2>1 DEF TargetState
<1>11. CASE PatchApplied(i) \/ PatchAmbiguous(i)
  <2>1. /\ pc[i] = "launched" /\ pc'[i] \in {"waiting", "returned"} /\ ~ apiErr[i] /\ ~ apiErr'[i] /\ ~ cancelled
        /\ rollout[i] = "none" /\ rollout'[i] # "none" /\ UNCHANGED stopped
    BY <1>0, <1>11
       DEF PatchApplied, PatchAmbiguous, Patching, FnReturns, stopVars, Settled, IInv, RolloutFollowsPc
  <2>2. Was = "launched" /\ Is = "patched"
    BY <2>1 DEF TargetState
  <2> QED BY <1>6, <2>1, <2>2 DEF Run!Job
<1>12. CASE PollFails(i)
  <2>1. pc[i] = "waiting" /\ pc'[i] = "tripping" /\ ~ apiErr[i] /\ UNCHANGED <<rollout, stopped>>
    BY <1>0, <1>12 DEF PollFails
  <2> QED BY <1>4, <2>1 DEF TargetState
<1>13. CASE PollTrips(i)
  <2>1. /\ pc[i] = "tripping" /\ pc'[i] = "waiting" /\ apiErr[i] /\ apiErr'[i] /\ stopped' = TRUE
    BY <1>0, <1>13 DEF PollTrips, SetStopped, Polling
  <2>2. Was \in {"launched", "patched"} /\ Is = "doomed"
    BY <2>1 DEF TargetState
  <2> QED BY <1>7, <2>1, <2>2 DEF Run!Job
<1>14. CASE WaitReady(i) \/ WaitTerminal(i) \/ WaitTimesOut(i) \/ FailureRecorded(i)
  <2>1. /\ pc[i] \in {"waiting", "returned"} /\ pc'[i] \in {"returned", "failing"}
        /\ UNCHANGED <<apiErr, rollout, stopped>>
    BY <1>0, <1>14 DEF WaitReady, WaitTerminal, WaitTimesOut, FailureRecorded, FnReturns, stopVars
  <2> QED BY <1>4, <2>1 DEF TargetState
<1>15. CASE FailureStops(i)
  <2>1. pc[i] = "failing" /\ pc'[i] = "finished" /\ stopped' = TRUE /\ (apiErr[i] => stopped)
    BY <1>0, <1>15 DEF FailureStops, SetStopped, Polling
  <2>2. Is = "doomed" /\ (IF apiErr[i] THEN Was = "doomed" ELSE Was \in {"launched", "patched"})
    BY <2>1 DEF TargetState
  <2>3. CASE apiErr[i]
    BY <1>4, <2>1, <2>2, <2>3 DEF IInv, TypeOK
  <2>4. CASE ~ apiErr[i]
    BY <1>7, <2>1, <2>2, <2>4 DEF Run!Job
  <2> QED BY <2>3, <2>4
<1>16. CASE Release(i)
  <2>1. /\ pc'[i] = "released" /\ UNCHANGED <<errs, stopped>>
        /\ \/ pc[i] = "finished" /\ errs[i] = "failed"
           \/ pc[i] = "returned" /\ errs[i] = "nil" /\ ~ apiErr[i] /\ rollout[i] # "none"
    BY <1>0, <1>16 DEF Release, stopVars, IInv, ErrsFollowPc, Settled, Polling
  <2>2. (Was = "doomed" /\ Is = "failed") \/ (Was = "patched" /\ Is = "ok")
    BY <2>1 DEF TargetState
  <2> QED BY <1>8, <1>9, <2>1, <2>2 DEF Run!Job
<1> QED BY <1>10, <1>11, <1>12, <1>13, <1>14, <1>15, <1>16 DEF Job

\* From the moment its queue is open, what runRolloutJobs does is what
\* Maintenance lets the queue of a type do: its reduction loses no step.
THEOREM QueueIsOfRun == Spec => QueueOpen /\ [][QueueStep]_(Run!vars)
<1>0. Init => QueueOpen
  BY DEF Init, QueueOpen, TargetState
<1>1. IInv /\ Settled /\ Polling /\ [Next]_vars => [QueueStep]_(Run!vars)
  <2> SUFFICES ASSUME IInv, Settled, Polling, [Next]_vars PROVE [QueueStep]_(Run!vars)
    OBVIOUS
  <2>1. CASE GoAhead
    <3>1. PICK i \in Jobs : i = next
      BY <2>1, PoolAssumption DEF IInv, GoAhead, LaunchedInOrder, TypeOK, Jobs
    <3> QED BY <2>1, <3>1, RunLaunch DEF QueueStep, Run!Job
  <2>2. CASE GiveUp \/ Join \/ Cancel
    BY <2>2, RunRefuse, RunCloses, RunSignal DEF QueueStep
  <2>3. CASE Acquire \/ Launch \/ Exhausted \/ UNCHANGED vars \/ \E i \in Jobs : ClusterStep(i)
    BY <2>3, RunUnseen
  <2>4. ASSUME NEW i \in Jobs, Job(i) PROVE [QueueStep]_(Run!vars)
    BY <2>4, RunJob DEF QueueStep
  <2> QED BY <2>1, <2>2, <2>3, <2>4 DEF Next, Dispatcher, Returned
<1> QED BY <1>0, <1>1, InitSettled, SettledNext, InitPolling, PollingNext, InitInv, StepInv, PTL DEF Spec
==============================================================================
