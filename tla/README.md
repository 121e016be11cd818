# k8s-rollout-restart in TLA+

`k8s-rollout-restart` restarts Deployments, StatefulSets, Strimzi Kafka clusters and Zalando
PostgreSQL clusters for a maintenance: it plans, cordons nodes if asked to, restarts with at most
`--parallel` rollouts in progress, waits for each, and stops everything after the first failure.
It writes to a cluster that others write to at the same time, over a network that loses answers.
This project states what the tool promises there, model-checks it with TLC on small instances, and
proves what matters most with TLAPS for every instance.

## The system

| part | state it keeps | operations | interacts with |
|---|---|---|---|
| Restart queue and run-wide stop: `helpers.go` (`RunStop`, `runRolloutJobs`), `deployments.go`, `statefulsets.go` | semaphore, loop index, per-job error, stop flag and its cause | let a job in, PATCH, wait, trip, give the slot back, turn the rest away | one `RunStop` shared by all resource types; runs every restart, Kafka and PostgreSQL included |
| Rollout status: `deploymentRolloutStatus`, `statefulSetRolloutStatus`, `waitForRollouts` | `minGeneration` of the PATCH | decide from one read of the object | status written by Kubernetes controllers |
| Node cordoning: `cluster.go` | map of cordoned nodes with uids | select, read, PATCH with resourceVersion and marker, verify | everybody who changes nodes; the list is printed for the rollback, also by a forced exit |
| PostgreSQL restart: `postgresql.go` | marked pods, attempts, re-triggers, what is left to clean | preflight, mark each pod, trigger, wait, clean up | postgres-operator, which may rotate at any sync |
| Kafka restart: `kafka.go` | recorded uids, annotated PodSets | record, annotate each PodSet, wait | Strimzi operator |
| Run sequence and signals: `cmd/root.go` | collected errors, current type, exit code | plan all, cordon, restart type by type, report; signals | everything above |
| Target selection: `forEachBounded`, `selectAll`, `selectDeployments`, `selectStatefulSets`, `selectCRTargets` | per namespace: candidates, selection, error | list and filter every namespace concurrently, join | objects that others change between its requests; its plan is what the run restarts |
| Custom resource discovery: `ResolveAPIGroupVersion`, `resolveAPIs` | the version of each API group, the error kept for later | choose a served version | operators that are installed and upgraded; the selection |
| Cordon plan: `PlanCordon` | nodes and pods as listed | list, filter, warn of node-local storage | `CordonNodes` cordons its nodes |
| Reporter: `GenerateReport` | a worker pool, one result per namespace | collect, join, print | shows the nodes cordoned by this run |
| Resource cache: `CacheManager` | entries with a time each | get, invalidate | callers in several goroutines; without a caller in a run |
| Client construction, logger, flags, RBAC script | none | | |

What is hard here, and what each part must get right:

- *Queue.* The flag is read and the goroutine started in two steps; a failed job gives its slot back;
  a PATCH without an answer may roll pods although its job has failed. Correct: never more rollouts in
  the cluster than `--parallel`, failed and lost ones included; a bounded number of requests after the
  stop; each job with an outcome in the end; the queue returns.
- *Rollout status.* The status read is older than spec and pods, and may be about the rollout before.
  Correct: success means that the pods have been replaced and serve, failure means that this rollout
  failed, and a rollout that completes is recognised.
- *Cordoning.* Between read and PATCH a node may be cordoned, uncordoned, deleted, recreated; the answer may
  be lost and the PATCH applied later. Correct: never claim, nor mark, somebody else's cordon; never lose
  one of one's own without an error.
- *PostgreSQL.* Pods are replaced while they are marked; other runs and the operator mark pods
  too; removing markers fails halfway. Correct: foreign markers are left alone, success means that
  every pod of the plan was replaced, what stays marked is reported, and what is reported is true.
- *Kafka.* A PATCH fails for some PodSets only; a poll is many requests and the cluster moves between
  them. Correct: success means that the pods there were have been rolled, and PodSets annotated already are not abandoned.
- *Run.* Errors of one phase decide about the next ones, and signals arrive anywhere. Correct: nothing is changed
  before the plan is complete, nothing starts after a failure, exit codes are honest, the run ends.

- *Selection.* Workloads, pods and ReplicaSets are read one after another while they are replaced; namespaces
  fail or are cancelled one by one; the Flagger rule needs the objects that other filters remove. Correct: what is planned was
  eligible, nothing is left out in silence, a canary's target is left to its primary, a Kafka plan can be carried out, an operator or a cluster that is not
  there is no error, the planning ends.
- *Cordon plan, report.* A list that fails may pass for an empty one; a worker that leaves its pool blocks the sender. Correct: nodes are planned
  with a reason and none is missed, node-local storage is warned of, a report has all its parts, both end.
- *Cache.* Looking, asking and storing are three steps. Correct: an answer is never older than a lifetime and a request,
  and no entry survives an invalidation unless it was on its way.

`PROJECT.json` lists these hazards at their lines, with the properties that answer to them.

## Modules

| module | models | instance checked |
|---|---|---|
| `BoundedRestarts` | the abstract restart budget: at most `Limit` restarts out, a failed one keeps its slot for ever | as a PROPERTY of `RolloutPool` and `Maintenance` |
| `RolloutPool` | `runRolloutJobs`, `RunStop.Trip`, `restartOne`, the wait for one target | `MCRolloutPool` |
| `RolloutPoolProofs` | theorems about `RolloutPool`, and its composition with `Maintenance` | |
| `RolloutStatus` | the two status functions against a controller that lags behind | `MCRolloutStatus` |
| `Cordon` | `forEachNode`, `cordonNode`, `verifyOwnCordon`, `CordonedNodes` | `MCCordon` |
| `CordonProofs` | theorems about `Cordon` | |
| `PostgresRestart` | `restartPostgresqlCluster` for one cluster | `MCPostgresRestart` |
| `PostgresProofs` | theorems about `PostgresRestart` | |
| `KafkaRestart` | `restartKafkaCluster` and `waitForClusterRestart` for one cluster | `MCKafkaRestart` |
| `KafkaProofs`, `RolloutStatusProofs`, `MaintenanceProofs` | theorems about `KafkaRestart`, `RolloutStatus`, `Maintenance` | |
| `Maintenance` | `runMaintenance` and `runInterruptible`, composed of the queue's and the cordon's promises | `MCMaintenance` |
| `PlanPool` | `forEachBounded`, the join of the selections, the objects of one type and what others do to them | |
| `WorkloadSelection` | `selectDeployments`, `selectStatefulSets`; extends `PlanPool` | |
| `CRSelection` | `ResolveAPIGroupVersion`, `resolveAPIs`, the selection of custom resources; extends `PlanPool` | |
| `Planning` | the plan of any of the four types, composed of the two above | `MCPlanning` |
| `PlanningProofs` | theorems about `Planning` | |
| `SurveyedCluster` | the nodes and pods that plan and report look at, and what others do to them | |
| `CordonPlan`, `Reporter` | `PlanCordon`; `GenerateReport`; both extend `SurveyedCluster` | |
| `Survey` | plan, cordon (in one step) and report in a run | `MCSurvey` |
| `ResourceCache` | `CacheManager` | `MCResourceCache` |
| `ReadingProofs` | theorems about `Survey` and about `ResourceCache`, which share nothing but the reading | |

Each action is one step that other goroutines, other clients or the cluster can come between: a
request with its answer, the reading of the stop flag, the storing of a cause, the storing of the flag. `map`
in `PROJECT.json` gives the lines of each definition. An operator named `Slip_...` is another operator of the
module with a programming slip; no specification uses it. It stands in for that operator, which `mutants` names, to show which property notices.

**RolloutPool.** `disp` and `next` are the loop of `runRolloutJobs`, `slots` the channel, `pc[i]` the
goroutine of job `i`, `errs` the slice it fills, `stopped` and `cause` the two fields of `RunStop`.
`rollout[i]` is the truth in the cluster: `maybe` is a PATCH that was given up on and may still be
applied; `stuck` is a rollout that will not finish. `late` records the requests sent after the stop.
Deployments and StatefulSets share the queue and the shape of `restartOne`; a Kafka or PostgreSQL cluster is a job
of the same queue (`restartCRTargets`).

**RolloutStatus.** `spec` is the object with its generation and template revision, `seen` the spec the
controller has in its cache, `status` what it wrote last, `pod` the pods. Both kinds run in one instance. The
module starts when the PATCH has been answered. Nobody rolls the template back to one from before the restart: then
pods of the old template would rightly count as updated.

**Cordon.** One worker per node. A resourceVersion is only compared with the one the worker read, so `fresh[n]` is
enough. `made` records each `<<node, uid>>` that this run's PATCH made unschedulable. The API server cordons a node in one step
(`PatchAnswered`) and the worker claims it in the next (`Tracks`), for the uid it read: the forced exit of a second signal may print `tracked` between the two.
`UnlistedIsReported` holds in every state, so it says what that list can lack.

**PostgresRestart.** `numberOfInstances` does not change. The marker and the owner annotation are set and
removed together and are one mark. `status.PostgresClusterStatus` is read and used at once: a read picks any value. A pod
that terminates, and a name without a pod, count as a pod that is not ready. Only pods of the cluster are listed. Marks of others stay
until the pod is replaced.

**KafkaRestart.** A poll is `ListPods`, one `ReadDesired` per PodSet, `Compare`, one `ReadAnnotation` per
PodSet, and the read of the Kafka resource (`NotReady` or `Done`): all requests of their own. `PodSets` is the set that
`selectPodSetsForKafka` found. `expected` as recorded is not modelled: `desired` always replaces it before it is used. The operator is
assumed to remove an annotation only after it has replaced the pods that existed when the annotation appeared (`due`);
an annotation that was there already is not a new request. `pollErr` is history: a request of a poll has failed while
no stop was set and the wait was not over.

**Maintenance.** One type's queue is reduced to what `RolloutPool` shows of it: jobs are let in in order
and up to the limit, a failure stops before it gives its slot back (`Doom`, then `JobFails`); that this is all it does is proved (`QueueIsOfRun`, `RestartIsTarget`, `KafkaIsTarget`). `errs` holds kinds of
errors; `canceled` says that one of them wraps `context.Canceled`, which decides how an interrupted run ends.

**Planning.** `loop` and `next` are the loop of `forEachBounded`, `at[i]` the goroutine of namespace `i`, `picked` and `errs` the two slices
of `selectAll`. A list is one step and copies what it reads: `cand` are instances (name and uid), so that a workload recreated under its name
is another one, and what is paused is decided by the copy. A workload has one pod, which its update moves to another ReplicaSet; which filters a pod
satisfies is data of the pod. A *Kafka* or *PostgreSQL* plan first resolves the API groups, which `Upgraded` changes at
any moment; `unanswered` remembers the groups whose discovery failed. A namespace is listed with the version in `path`, and fails when that is no longer served. `was` and `disturbed` are history:
what was true of an instance at a time, and which objects others touched. The age of an object only grows. The operator or the Canary that manages a
workload stays the same.

**Survey.** `CordonPlan` and `Reporter` read the same cluster, `SurveyedCluster`, one request per step. `places`, `labelled` and
`left` are history since the survey at hand began: a plan that is made of several moments can only be held to what was true at one of them, or at all of
them. `Cordoned` is the module `Cordon` in one step: any part of the plan may be claimed. The volume of a pod is its kind only.

**ResourceCache.** What an object looks like is a function of the instant it is read at, so a value is that instant. A lookup, the
wait for the limiter, the request and the store are four steps; sections under the lock are one. `epoch` and `late` are history: the
invalidations of a key, and the reads that an invalidation found between API server and cache.

## Runs

| run | question | distinct states |
|---|---|---|
| `pool_wait` | three restarts, two at once: late requests, outcomes, refinement of `BoundedRestarts`, and the queue returns | 62,408 |
| `status` | both kinds, replicas unset, 0 and 1, a scaling or a new template on the way, a crash or an eviction: what done and failed mean, and that a completed rollout is recognised | 155,940 |
| `cordon_two` | two nodes, two workers, two changes by others, two attempts: claims, what a list printed at any moment lacks, foreign cordons, success, termination | 153,642 |
| `pg_wait` | two pods of two instances each, two attempts of marking and of cleaning, one re-trigger, one foreign mark: the safety of marking, waiting and cleaning | 2,424,080 |
| `pg_returns` | one pod with the code's own bounds (3 marking attempts, 3 cleaning attempts, 3 re-triggers): the restart returns | 77,356 |
| `kafka_wait` | two PodSets of one pod, two instances each, one scaling: success, partial failure, the stop before the wait and at a failed poll, health | 3,159,918 |
| `run_cordon` | three types, the middle one without targets, five targets, a cordon, signals at every moment: order, exit codes, budget across types, termination | 953 |
| `plan` | each type over two namespaces at once, a canary and its primary, one pod filter, one change by others: soundness, completeness, canaries, a usable Kafka plan, errors of a plan | 1,565,274 |
| `survey` | two nodes, three pods, two target namespaces and another, two workers, one change by others: reasons, completeness, warnings, the report's parts | 792,696 |
| `cache` | two callers, one name of each kind, a lifetime of two ticks, three Gets, two invalidations: age of an answer, invalidation | 2,936,280 |
| `cordon_list`, `nodes_excluded` | one sentence of a comment or of the README each, and how the code departs from it | |

Why the bounds are enough for what the runs ask: two workers and three jobs are the least at which a slot is freed by a failure
while another rollout is out and a third job waits; two nodes let the dispatcher block on a worker while the context
is cancelled; two instances per name are a pod, or a workload, before and after its replacement; two attempts are a first and a last one;
two PodSets are one that fails and one that must not be abandoned; five targets in the pattern 3/0/2 give a type with
more targets than slots, an empty one, and one that must not start. Two namespaces are one that fails and one that is planned; `plan` and
`survey` take both at once, so that their lists interleave. A
`--parallel` below 1 never gets that far (`cmd/root.go:173`, `src/README.md:204`); `Limit` and `PoolSize` still have the code's own defaults for it. The other limits, and more changes by
others than one, are covered by the proofs. Two versions of an API, one of them supported, give every outcome of the discovery. In `survey` the labels
are those that two filters tell apart: a required key that is missing or empty, an excluded value that is there or not. In `cache`, three Gets by two callers are two that
overlap and one that reads what they left, and four ticks outlive an entry. The bounds are `MaxChanges`, `MaxUid`,
`MaxMarksByOthers`, `MaxScales`, `MaxReplicas`, `MaxPods`, `MaxCrashes`, `K`, `Plain`, `LabelSets`, `MaxFetch`, `MaxTime`, `MaxCalls` and `MaxClears`: they cap what
the environment does or starts from, and how often it calls, never what the tool
does. `MaxAttempts`, `MarkAttempts`, `UnmarkAttempts` and `MaxRetriggers` are constants of the code, some of
them smaller in a run. `kafka_wait` and `cache` use the symmetry of the names of PodSets and of callers, which is sound: no
property of theirs is temporal beyond one step. `kafka_wait` and `cache` switch deadlock checking off: a restart that has returned, and a clock, calls and changes that
are used up leave nothing to do; so does `nodes_excluded`, which is about a state. `plan` and `survey` (`EndingSpec`) let the specification stutter at its end and nowhere else: a
namespace that kept its slot, or was not counted, a send without a worker to receive it, would be a deadlock; nothing of them repeats for ever. `--skip-wait` has no run of its own: the proofs cover it.

**Fairness.** Weak fairness of a goroutine's steps is the Go scheduler, the client's request timeout, and
`--timeout` of every wait: each lets a step happen in the end. `pg_returns` needs strong fairness of `GiveUp`:
a `select` with both channels ready takes each of them in the end. `plan` and `survey` have no liveness property; their deadlock check stands for it. The
cluster owes nothing in those runs: rollouts may never
complete, operators may fail every sync. `status` is the exception: to ask whether a *completed* rollout is recognised, it
assumes that the controller observes, writes status, and that pods start.

## Findings

Each is a violation run, with the sentence it refutes in `PROJECT.json`.

- `cordon_list`: `CordonedNodes` is said to return the nodes cordoned by this run (`cluster.go:385`); one whose
  answer was lost and whose verification failed, or came too early, is missing. `UnlistedIsReported` shows that its error is reported.
- `nodes_excluded`: "Never cordon nodes with these labels" (`src/README.md:216`). The filter is a map (`helpers.go:49`): of
  `--exclude-node-labels=zone=drain,zone=closed` only the second is left, and a node in zone `drain` is planned.

Three more sentences are not to be taken literally, seen in the models without a run of their own. "No job is started either once rs was tripped elsewhere"
(`helpers.go:225`): the flag is read before the goroutine starts, and `LateRestartsBounded` says what that can cost. `notStartedPhaseErr` "reports every planned
target" also of an interruption (`root.go:588`): after a cancellation it names the type only. "The marking PATCH was never
applied" (`postgresql.go:695`): a pod whose marker was removed by a PATCH whose answer was lost is listed there too.

## Proofs

Eight modules hold theorems, for all constants that satisfy the named assumptions of the modules they extend (`PoolAssumption`, `CordonAssumption`,
`PostgresAssumption`, `KafkaAssumption`, `StatusAssumption`, `RunAssumption`, `PlanPoolAssumption` with `WorkloadAssumption` and
`VersionAssumption`, `ClusterAssumption` with `PlanAssumption`, `CacheAssumption`): any number of jobs, nodes, pods, namespaces or callers, any `--parallel`, with and
without `--skip-wait`, any number of attempts, replacements and changes by others. Each component has an inductive invariant, `IInv`, one lemma or step per action,
and the theorems that follow from it.

*Queue.* What is wanted, `RolloutsBounded` and `LateRestartsBounded`, is not inductive: a rollout that timed
out does not hold a slot any more, so the slots alone bound nothing. The invariant `IInv` adds that `slots` is the number
of goroutines that hold a token plus the dispatcher's own (`SlotAccounting`); that jobs are launched in order; how `errs` and
`rollout` follow `pc`; that a failed job gives its token back only once `stopped` is set (`StopBeforeRelease`); that the jobs let through and
not successful, `Busy`, are at most `Limit` (`SlotsPayForFailures`), because after a failure nothing is let through; and that once the
stop is set the requests sent late together with the jobs that can still send one are at most `Limit - 1` (`LateBudget`), because the job that
stopped is not one of them. Each action has a lemma with one step per conjunct. `TripIsFinal` follows from the
same invariant, and `Refinement` maps each step to a step or a stutter of `BoundedRestarts`.
`OutcomesComplete` of the queue needs one invariant more, `Settled`: the dispatcher leaves its loop with every job launched, or with the rest refused
after the stop; and when a job is the cause of the stop, it has failed or, its poll having failed, is going to.

*Queue in a run.* `Maintenance` looks at the queue of a type through six states of a target. `QueueIsOfRun` justifies that: with `TargetState` every step of
`RolloutPool`, from its first state on, is a step of `Maintenance` with one type (`Launch`, `Patch`, `Doom`, `Succeed`, `JobFails`, `Refuse`, `PhaseCloses`, or the signal), or none that
it sees. Reading the flag and starting the goroutine become one step, at the reading; storing the cause and storing the flag become one, at the flag; a success counts when its
token is back. That needs `Polling`: a goroutine between the two has its poll's error recorded, and after them the flag is set.

*Cluster restarts in a run.* The queue calls `restartPostgresqlCluster` and `restartKafkaCluster` for a target of those types. `RestartIsTarget` and `KafkaIsTarget`
say that until the slot is given back each of them does what `Maintenance` lets a job do with its one target: `Patch`, `Doom`, `Succeed`, the signal, or nothing it sees. A target counts as
patched from the first mark, or annotation, that the client knows of, and as doomed when the restart sets the run-wide stop; so no first PATCH is answered with success after the signal, no
restart that set the stop ends with nil, and nil comes only after a PATCH. The last needs, for PostgreSQL, that there is a pod to mark (`PodsChosen`). An error that a Kafka restart returns
without setting the stop (a failed lookup, a timeout) is doomed by the queue after the return, as in `RolloutPool`.

*Cordon.* `ClaimsAreOurs` and `UnlistedIsReported` need that a marker is on a node only through this run's PATCH, that a
resourceVersion still current means the schedulable instance that was read (`FreshIsSchedulable`), and that a worker done without error leaves
its node claimed, unmarked or gone, with no abandoned PATCH that could still take effect (`DoneIsSettled`). What a
worker is about to claim is what its PATCH cordoned, and nothing else carries a marker under that name (`TrackedIsCordoned`). `NilMeansCordoned` is a property of the
step at which a worker gets its result: each way to a success comes with an answer of that very moment.

*PostgreSQL.* `SuccessMeansRotated`, `LeftMarksAreReported` and `SummaryIsTrue` are parts of the invariant, but none
is inductive alone. A PATCH whose answer was lost may take effect at any later step, so what it can do is part of
the invariant: it marks only a pod that has not changed since it was listed, and such a pod carries no mark
(`FreshIsUnmarked`). A uid this run knows never comes back once its pod was replaced (`UidsAreOld`), so a plan that is gone stays gone.
Every pod this run has marked is in `marked`, or was marked unnoticed (`MarksAreKnown`); every pod of the plan that
still exists is marked or still to be marked (`PlanIsCovered`), which is `TouchedAfterMarking`; the stop is set with the
failure, and without a failure no PATCH is on its way (`FailedIsTripped`), which is `StopBeforeCleanup`; a mark not yet
taken back is in the list of what is left to clean (`CleanupInvariant`). `PodStep(M)` says once what a step that marks the pods
`M` may do to the cluster; each action has a lemma that it is such a step, and one step per conjunct of the invariant.

*Run.* Exit codes are earned over a whole run, so the invariant says at every moment what the errors collected so far stand for: while there is none,
all targets of the types behind are done and, with `--cordon`, all nodes cordoned (`NoErrors`); unless somebody interrupts, every target the run has
passed has its final state, and an error has a failed target, or the planning, the cordon or the report behind it (`Accounted`); the stop has a
cause among the targets, and without it none is turned away (`StopHasCause`). `RunRefinement` maps a run to `BoundedRestarts`: the budget of one
type is not refilled by the next, because a type is opened only after the ones before it closed without a failure.

*Rollout status.* `DoneMeansReplaced` needs that a controller that has seen the generation of the PATCH works with the restart's template or a later
one (`SpecsAreLater`: a template is never rolled back in the model), and that a status that claims to have seen it, with `updated = total`, was
written when no pod of an earlier template was left, and that none can have come since (`StatusIsLater`). `DoneMeansServing` needs that until the
cluster moves the status counts exactly what there is (`StatusIsExact`).

*Kafka.* `SuccessMeansRolled` follows the annotation: a PodSet without the annotation has had every pod replaced that existed when it last appeared
(`Records`), and only a PATCH without an answer can make it appear again later (`Requests`). Such a PATCH has set the stop, which is
`StopBeforeWaiting`; `Polls` carries what each of the two waits has already seen, and `Ends` what each verdict stands for, `RollsAreWaitedFor` among it.
`PollErrorsStop` needs to know what else sets the stop: a PATCH that failed, and is missing among the answered ones for ever (`Causes`, an invariant of its own beside `IInv`).
`NilMeansHealthy` is about a poll whose many requests see one cluster: `Polled` says what they have found as long as nothing has moved since the list, first that the sum of the sizes
read so far is the number of pods wanted of those PodSets (`OneMoreSet`, a bijection per PodSet), then that it equals the number listed and that the annotations read so far are gone.

*Planning.* `PlannedMatched` needs, for each goroutine, that its candidates were eligible and that the ReplicaSets it has seen belonged to matching pods (`Sound`); an instance
is a name with its uid, and so is the owner of a ReplicaSet. `NothingLost` is the converse for what nobody disturbed: as long as a namespace's goroutine
runs without error, every wanted object is among its candidates, its pod is still seen, or it is selected (`Kept`); `Visits` says which namespaces
the loop has passed. `CanaryIsLeftAlone` needs that a primary nobody touched keeps its target out of what is a candidate and what is selected (`Canaries`), and `PlanUsable` that a resolved path was served and preferred
(`Discovered`); that the first preferred version served exists uses the well-foundedness of the naturals. `MissingIsHarmless` is an
invariant of its own (`Causes`): each error of a plan, and the error kept for the StrimziPodSet API, has its reason in the history, and the only way to an error with an answer is a version served that may not be used
(`Refused`). All goroutine steps go through one lemma, `GoroutineStep`, with
the outcome of the step as its parameter.

*Cordon plan and report.* A plan is read request by request, so what is true of it is said against history: what was read was so when it was read (`Read`), and what did not change since the
survey began was read as it is (`NothingSkipped`). The histories hold the present (`Recorded`) and only grow (`HistoryGrows`). `Decided` says that the selection is what the lists say, that each pod that stayed on a selected node
has been looked at, and each pod looked at judged; `NothingMissed` and `LocalVolumesWarned` follow. In the report (`Collected`) every namespace sent is on a worker, has failed, or is covered, whatever the number of
workers. What a node of the plan satisfied is the filter *as parsed*, the last value given for each key (`PlannedAsParsed`, for all filters; that a last one exists uses
the well-foundedness of the naturals). Only if no key is given twice is that the filter as written: `SurveyPlannedWithReason` has this as its condition, and `nodes_excluded` shows that it is needed.

*Cache.* The age of an entry is bounded because a request is followed by its store within `MaxFetch` ticks and an entry is never renewed (`Ages`); a value of an earlier epoch in the cache, or on
its way to it, was counted as late when its key was invalidated (`Overlaps`).

Only model-checked: the liveness properties, `RolloutRecognised` among them (fairness and ENABLED are out of the prover's reach). Every invariant and every step property of a passing run is
proved. Proved but in no run's list, to keep the runs to one property per question: type correctness of the other
modules, `RolloutsBounded`, `TripIsFinal`, `NodesAccounted`, `StopBeforeCleanup`, `SummaryIsTrue`, `PlannedAsParsed`, `QueueIsOfRun`, `RestartIsTarget`, `KafkaIsTarget`.
The step properties of the last three were checked by TLC on the instances of `pool_wait`, `pg_wait` and `kafka_wait`, with either value of `SkipWait`, before they were proved.

## Not modelled

`waitForRollouts` with several targets (no caller), and the list of a Kafka cluster's StrimziPodSets, which is a constant of `KafkaRestart`. Client construction, flags and their
validation, logging and the RBAC script: no state, or pure input and output. The namespaces are taken to be distinct: nothing in the code removes duplicates, so
`-n app,app` plans every target twice. The plan is not read again when its PATCHes are sent, so a workload recreated in between is
restarted by its name: `PlannedMatched` speaks of the moment of the planning. The numbers of the report, and pods with several controllers, are left out. A
second signal's forced exit is modelled in `Maintenance`; what it prints is the list `tracked` of `Cordon` at that moment.

## Plan

Done, in the order of importance:

1. `RolloutPool` with `BoundedRestarts`, `Cordon`: the safety of restarting and cordoning, checked and proved.
2. `Maintenance`: the composition; refines the same budget across types, checked and proved.
3. `PostgresRestart`: marking, waiting and cleaning up against an operator, checked and proved.
4. `KafkaRestart` and `RolloutStatus`: what "completed" means, checked and proved.
5. `Planning`: the selection of all four types with the discovery, checked and proved.
6. `Survey`, `ResourceCache`: the cordon plan, the report and the cache, checked and proved.
7. `RolloutPool`, `PostgresRestart` and `KafkaRestart` inside `Maintenance`: a type's queue, and the restart of one cluster as one of its targets, proved.

Left: the selection of PodSets as a step of `KafkaRestart`, and a run that composes the plan with restarts by name.
