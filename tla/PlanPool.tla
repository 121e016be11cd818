------------------------------ MODULE PlanPool ------------------------------
(***************************************************************************)
(* How the targets of one resource type are looked for in every namespace: *)
(* forEachBounded (pkg/operations/helpers.go) runs one goroutine per       *)
(* namespace, --parallel of them at once, and the selections are joined.   *)
(* And what they look at: objects of the type, which others change, delete *)
(* and create again under the same name at any time.                       *)
(***************************************************************************)
EXTENDS Integers, FiniteSets, Sequences

CONSTANTS Namespaces,   \* the target namespaces, in order
          Objects,      \* namespace/name of the objects of the type
          NamespaceOf,  \* namespace of each
          Plain,        \* bound: objects that are old, unmanaged and have a matching pod at first
          Parallel,     \* --parallel
          MaxUid,       \* bound: instances a name goes through
          MaxChanges    \* bound: changes by others

ASSUME PlanPoolAssumption == /\ Namespaces \in Seq(STRING)
                             /\ Plain \subseteq Objects
                             /\ NamespaceOf \in [Objects -> {Namespaces[i] : i \in DOMAIN Namespaces}]
                             /\ Parallel \in Int
                             /\ MaxUid \in Nat \ {0}
                             /\ MaxChanges \in Nat

Indexes == DOMAIN Namespaces
Uids == 1 .. MaxUid
Instances == Objects \X Uids

Kinds == {"Deployment", "StatefulSet", "Kafka", "PostgreSQL"}
Workloads == {"Deployment", "StatefulSet"}

VARIABLES
  kind,      \* the resource type
  object,    \* the objects: instance, age, a state that rules out a restart, a foreign controller
  changes,   \* counts what others did, up to MaxChanges
  disturbed, \* history: the objects that others changed
  byAge,     \* --older-than is given
  cancelled, \* the context is cancelled
  loop,      \* where forEachBounded is
  next,      \* its loop variable
  at,        \* the step of each namespace's goroutine
  cand,      \* the candidates of each namespace after the cheap filters
  picked,    \* what is selected in each namespace
  errs       \* the namespaces whose selection failed

objectVars == <<object, changes, disturbed>>
poolVars == <<loop, next, at, cand, picked, errs>>

\* blocked: spec.paused of a Deployment, an update strategy of a StatefulSet
\* under which no pod is replaced.  managed: the Flagger Canary that controls a
\* primary; the operator that a StatefulSet belongs to.
PoolTypeOK ==
  /\ kind \in Kinds
  /\ object \in [Objects -> [exists : BOOLEAN, uid : Uids, old : BOOLEAN, blocked : BOOLEAN, managed : BOOLEAN]]
  /\ changes \in 0 .. MaxChanges
  /\ disturbed \subseteq Objects
  /\ byAge \in BOOLEAN
  /\ cancelled \in BOOLEAN
  /\ loop \in {"before", "loop", "wait", "joined"}
  /\ next \in 1 .. (Len(Namespaces) + 1)
  /\ at \in [Indexes -> {"idle", "context", "list", "pods", "replicaSets", "done"}]
  /\ cand \in [Indexes -> SUBSET Instances]
  /\ picked \in [Indexes -> SUBSET Instances]
  /\ errs \subseteq Indexes

PoolInit ==
  /\ kind \in Kinds
  /\ byAge \in BOOLEAN
  /\ object \in [Objects -> [exists : {TRUE}, uid : {1}, blocked : {FALSE},
                             old : IF byAge THEN BOOLEAN ELSE {TRUE},
                             managed : IF kind \in Workloads THEN BOOLEAN ELSE {FALSE}]]
  /\ \A o \in Plain : object[o].old /\ ~ object[o].managed
  /\ changes = 0
  /\ disturbed = {}
  /\ cancelled = FALSE
  /\ loop = IF kind \in Workloads THEN "loop" ELSE "before"
  /\ next = 1
  /\ at = [i \in Indexes |-> "idle"]
  /\ cand = [i \in Indexes |-> {}]
  /\ picked = [i \in Indexes |-> {}]
  /\ errs = {}

------------------------------------------------------------------------------
(* forEachBounded.                                                         *)

Limit == IF Parallel < 1 THEN 1 ELSE Parallel

Busy == {i \in Indexes : at[i] \notin {"idle", "done"}}

LaunchNamespace ==
  /\ loop = "loop"
  /\ next <= Len(Namespaces)
  /\ Cardinality(Busy) < Limit
  /\ at' = [at EXCEPT ![next] = "context"]
  /\ next' = next + 1
  /\ UNCHANGED <<loop, cand, picked, errs>>

\* Every namespace is visited, after a cancellation too.
LoopEnds ==
  /\ loop = "loop"
  /\ next > Len(Namespaces)
  /\ loop' = "wait"
  /\ UNCHANGED <<next, at, cand, picked, errs>>

\* The selections are joined in the order of the namespaces, with the errors.
Join ==
  /\ loop = "wait"
  /\ Busy = {}
  /\ loop' = "joined"
  /\ UNCHANGED <<next, at, cand, picked, errs>>

------------------------------------------------------------------------------
(* The goroutine of namespace i.                                           *)

Goes(i, from, to) == at[i] = from /\ at' = [at EXCEPT ![i] = to] /\ UNCHANGED <<loop, next>>

CheckContext(i) ==
  /\ ~ cancelled
  /\ Goes(i, "context", "list")
  /\ UNCHANGED <<cand, picked, errs>>

Slip_SelectionFails(i) ==  \* a namespace that cannot be listed counts as empty
  /\ at[i] \in {"list", "pods", "replicaSets"} \/ (at[i] = "context" /\ cancelled)
  /\ Goes(i, at[i], "done")
  /\ cand' = [cand EXCEPT ![i] = {}]
  /\ UNCHANGED <<errs, picked>>

\* The context is cancelled, or one of the lists fails.
SelectionFails(i) ==
  /\ at[i] \in {"list", "pods", "replicaSets"} \/ (at[i] = "context" /\ cancelled)
  /\ Goes(i, at[i], "done")
  /\ cand' = [cand EXCEPT ![i] = {}]
  /\ errs' = errs \cup {i}
  /\ UNCHANGED picked

\* i selects the instances of S.
Selected(i, S) ==
  /\ picked' = [picked EXCEPT ![i] = S]
  /\ cand' = [cand EXCEPT ![i] = {}]
  /\ UNCHANGED errs

Here(i) == {o \in Objects : NamespaceOf[o] = Namespaces[i] /\ object[o].exists}
Instance(o) == <<o, object[o].uid>>
OldEnough(o) == byAge => object[o].old

\* The plan: what was selected wherever the selection succeeded.
Plan == UNION {picked[i] : i \in Indexes}

------------------------------------------------------------------------------
(* What others do.                                                         *)

Cancel ==
  /\ loop \in {"before", "loop"}
  /\ ~ cancelled
  /\ cancelled' = TRUE

Aged(o) ==
  /\ byAge /\ object[o].exists /\ ~ object[o].old
  /\ object' = [object EXCEPT ![o].old = TRUE]

Switched(o) ==
  /\ object[o].exists
  /\ object' = [object EXCEPT ![o].blocked = ~ @]

Deleted(o) ==
  /\ object[o].exists
  /\ object' = [object EXCEPT ![o].exists = FALSE]

\* Under the name of an object that is deleted a new one is created.
Recreated(o) ==
  /\ object[o].uid < MaxUid
  /\ \E b \in IF kind \in Workloads THEN BOOLEAN ELSE {FALSE} :
       object' = [object EXCEPT ![o] = [exists |-> TRUE, uid |-> @.uid + 1, old |-> ~ byAge,
                                        blocked |-> b, managed |-> @.managed]]

\* What happens in a namespace after its selection changes nothing of the plan.
Counted(o) ==
  /\ \E i \in Indexes : NamespaceOf[o] = Namespaces[i] /\ at[i] # "done"
  /\ changes < MaxChanges
  /\ changes' = changes + 1
  /\ disturbed' = disturbed \cup {o}
=============================================================================
