--------------------------- MODULE BoundedRestarts ---------------------------
(***************************************************************************)
(* What a restart queue, and a run as a whole, promises to the cluster,    *)
(* however its goroutines keep it: at most Limit restarts are out there,   *)
(* they start in order, and only a restart that SUCCEEDED gives its slot   *)
(* back.  A restart that failed may still be rolling pods, so it keeps its *)
(* slot for ever, and nothing is given up before the queue is closed.      *)
(***************************************************************************)
EXTENDS Integers, FiniteSets

CONSTANTS N,      \* number of planned restarts, a natural number
          Limit   \* how many may be out in the cluster at once, at least one

Jobs == 1 .. N

VARIABLES state,  \* what became of each planned restart
          closed  \* no new restart is let in

vars == <<state, closed>>

TypeOK == /\ state \in [Jobs -> {"todo", "active", "ok", "kept", "refused"}]
          /\ closed \in BOOLEAN

\* The restarts that occupy a slot: under way, or failed and never returned.
Busy == {i \in Jobs : state[i] \in {"active", "kept"}}

Init == /\ state = [i \in Jobs |-> "todo"]
        /\ closed \in BOOLEAN

\* The next planned restart takes a free slot.
Start(i) == /\ ~ closed
            /\ state[i] = "todo"
            /\ \A j \in 1 .. (i - 1) : state[j] # "todo"
            /\ Cardinality(Busy) < Limit
            /\ state' = [state EXCEPT ![i] = "active"]
            /\ UNCHANGED closed

\* Something went wrong: with a restart under way, or before any was started.
Close == /\ closed' = TRUE
         /\ UNCHANGED state

\* A successful restart returns its slot; a failed one keeps it.
Succeed(i) == /\ state[i] = "active"
              /\ state' = [state EXCEPT ![i] = "ok"]
              /\ UNCHANGED closed

Keep(i) == /\ closed
           /\ state[i] = "active"
           /\ state' = [state EXCEPT ![i] = "kept"]
           /\ UNCHANGED closed

\* Once closed, what has not started is turned away, not always all at once.
Refuse(S) == /\ closed
             /\ state' = [i \in Jobs |-> IF i \in S /\ state[i] = "todo" THEN "refused" ELSE state[i]]
             /\ UNCHANGED closed

Next == \/ \E i \in Jobs : Start(i) \/ Succeed(i) \/ Keep(i)
        \/ Close
        \/ \E S \in SUBSET Jobs : Refuse(S)

Spec == Init /\ [][Next]_vars
==============================================================================
