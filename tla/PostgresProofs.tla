--------------------------- MODULE PostgresProofs ---------------------------
(***************************************************************************)
(* What PostgresRestart keeps, for any number of pods, replacements,       *)
(* attempts and marks by others: IInv is inductive, and implies what the   *)
(* restart of one cluster promises about its pods, its marks and its       *)
(* summary.                                                                *)
(***************************************************************************)
EXTENDS PostgresRestart, TLAPS

USE PostgresAssumption DEF Names, Pods

PodType == [uid : 1 .. MaxUid, ready : BOOLEAN, mark : {"none", "us", "other"}]
Requests == [op : {"mark", "unmark"}, pod : Pods]
Reports == {"none", "rotated", "removed", "neverMarked", "foreign", "stillMarked"}

\* TypeOK in four parts.
ClusterTypes ==
  /\ pod \in [Names -> PodType]
  /\ fresh \in [Names -> BOOLEAN]
  /\ inflight \subseteq Requests
  /\ others \in 0 .. MaxMarksByOthers
SetTypes ==
  /\ pending \subseteq Pods /\ marked \subseteq Pods
  /\ left \subseteq Pods /\ todo \subseteq Pods
  /\ planned \subseteq Pods /\ applied \subseteq Pods /\ unseen \subseteq Pods
  /\ report \in [Pods -> Reports]
ScalarTypes ==
  /\ pc \in {"plan", "mark", "trigger", "observe", "retrigger", "tick",
             "listMarked", "unmark", "returned"}
  /\ attempt \in 0 .. MarkAttempts
  /\ retriggers \in 0 .. MaxRetriggers
  /\ round \in 1 .. (UnmarkAttempts + 1)
  /\ result \in {"unset", "nil", "error"}
FlagTypes ==
  /\ touched \in BOOLEAN
  /\ stale \in BOOLEAN
  /\ expired \in BOOLEAN /\ cancelled \in BOOLEAN
  /\ failed \in BOOLEAN /\ tripped \in BOOLEAN

LEMMA TypeParts == TypeOK <=> ClusterTypes /\ SetTypes /\ ScalarTypes /\ FlagTypes
BY DEF TypeOK, ClusterTypes, SetTypes, ScalarTypes, FlagTypes, PodType, Requests, Reports

LEMMA TypePartsNext ==
  ClusterTypes' /\ SetTypes' /\ ScalarTypes' /\ FlagTypes' => TypeOK'
BY DEF TypeOK, ClusterTypes, SetTypes, ScalarTypes, FlagTypes, PodType, Requests, Reports

------------------------------------------------------------------------------
(* What one step can do to the pods: M are the pods it marks.              *)

PodStep(M) ==
  /\ pod' \in [Names -> PodType]
  /\ fresh' \in [Names -> BOOLEAN]
  /\ Known \cap Existing' \subseteq Existing
  /\ Ours' \subseteq Ours \cup M
  /\ applied' = applied \cup M
  /\ \A p \in Known \cup M : p[2] <= pod'[p[1]].uid
  /\ FreshIsUnmarked'
  /\ \A n \in Names : fresh'[n] => fresh[n]
  /\ \A p \in M : p \in Pods /\ p \in Existing /\ fresh[p[1]] /\ ~ fresh'[p[1]]

LEMMA PodsKept == ASSUME IInv, UNCHANGED <<pod, fresh, applied>> PROVE PodStep({})
BY TypeParts DEF IInv, PodStep, ClusterTypes, FreshIsUnmarked, UidsAreOld, Existing, Exists, Ours,
                 MarkOf

\* A PATCH on the marks changes one pod's mark, and its resourceVersion.
LEMMA MarkChanged ==
  ASSUME IInv, NEW p \in Pods, NEW m \in {"none", "us"}, Exists(p), SetMark(p, m)
  PROVE  /\ pod' \in [Names -> PodType]
         /\ fresh' \in [Names -> BOOLEAN]
         /\ \A n \in Names : fresh'[n] => fresh[n] /\ n # p[1]
         /\ \A n \in Names : n # p[1] => pod'[n] = pod[n]
         /\ \A n \in Names : pod'[n].uid = pod[n].uid
         /\ Existing' = Existing
         /\ Ours' = IF m = "us" THEN Ours \cup {p} ELSE Ours \ {p}
<1> USE TypeParts DEF IInv
<1>1. pod[p[1]] \in PodType /\ p[1] \in Names
  BY DEF ClusterTypes
<1>2. pod' = [pod EXCEPT ![p[1]] = [pod[p[1]] EXCEPT !.mark = m]]
  BY DEF SetMark
<1>3. [pod[p[1]] EXCEPT !.mark = m] \in PodType
  BY <1>1 DEF PodType
<1>4. pod' \in [Names -> PodType]
  BY <1>1, <1>2, <1>3 DEF ClusterTypes
<1>5. pod'[p[1]] = [pod[p[1]] EXCEPT !.mark = m]
  BY <1>1, <1>2 DEF ClusterTypes
<1>6. pod'[p[1]].mark = m /\ pod'[p[1]].uid = pod[p[1]].uid
  BY <1>1, <1>5 DEF PodType
<1>7. \A n \in Names : n # p[1] => pod'[n] = pod[n]
  BY <1>1, <1>2 DEF ClusterTypes
<1>8. /\ fresh' \in [Names -> BOOLEAN]
      /\ \A n \in Names : fresh'[n] => fresh[n] /\ n # p[1]
  BY <1>1 DEF SetMark, ClusterTypes
<1>9. \A n \in Names : pod'[n].uid = pod[n].uid
  BY <1>6, <1>7
<1>10. Existing' = Existing
  BY <1>9 DEF Existing, Exists
<1>11. \A q \in Existing : q # p => q[1] # p[1]
  BY DEF Existing, Exists
<1>12. \A q \in Existing : MarkOf(q)' = IF q = p THEN m ELSE MarkOf(q)
  BY <1>6, <1>7, <1>11 DEF MarkOf, Existing
<1>13. p \in Existing
  BY DEF Existing
<1>14. Ours' = {q \in Existing : MarkOf(q)' = "us"}
  BY <1>10 DEF Ours
<1>15. Ours' = IF m = "us" THEN Ours \cup {p} ELSE Ours \ {p}
  BY <1>12, <1>13, <1>14 DEF Ours
<1> QED BY <1>4, <1>7, <1>8, <1>9, <1>10, <1>15

LEMMA Marks == ASSUME IInv, NEW p \in Pods, CanMark(p), SetMark(p, "us") PROVE PodStep({p})
<1>1. Exists(p) /\ fresh[p[1]] /\ p \in Existing
  BY DEF CanMark, Existing
<1>2. applied' = applied \cup {p}
  BY DEF SetMark
<1>3. FreshIsUnmarked'
  BY <1>1, MarkChanged DEF IInv, FreshIsUnmarked
<1>4. \A q \in Known \cup {p} : q[2] <= pod[q[1]].uid
  BY <1>1, TypeParts DEF IInv, UidsAreOld, Exists, ClusterTypes, PodType
<1>5. Known \subseteq Pods
  BY TypeParts DEF IInv, Known, SetTypes
<1>6. \A q \in Known \cup {p} : q[2] <= pod'[q[1]].uid
  BY <1>1, <1>4, <1>5, MarkChanged
<1> QED
  BY <1>1, <1>2, <1>3, <1>6, MarkChanged DEF PodStep

LEMMA Unmarks ==
  ASSUME IInv, NEW p \in Pods, CanUnmark(p), SetMark(p, "none")
  PROVE  PodStep({}) /\ p \in Ours \ Ours' /\ ~ fresh'[p[1]]
<1>1. Exists(p) /\ p \in Ours
  BY DEF CanUnmark, Existing, Ours
<1>2. applied' = applied
  BY DEF SetMark
<1>3. FreshIsUnmarked'
  BY <1>1, MarkChanged DEF IInv, FreshIsUnmarked
<1>5. Known \subseteq Pods
  BY TypeParts DEF IInv, Known, SetTypes
<1>6. \A q \in Known : q[2] <= pod'[q[1]].uid
  BY <1>1, <1>5, MarkChanged DEF IInv, UidsAreOld
<1> QED
  BY <1>1, <1>2, <1>3, <1>6, MarkChanged DEF PodStep

\* Whatever others write of a pod: it keeps its uid and gains no mark of this
\* run, or a new instance without a mark takes its place.
LEMMA Changes ==
  ASSUME IInv, NEW n \in Names, NEW new \in PodType, PodChanges(n, new),
         \/ new.uid = pod[n].uid /\ (new.mark = "us" => pod[n].mark = "us")
         \/ new.uid = pod[n].uid + 1 /\ new.mark # "us"
  PROVE  PodStep({})
<1> USE TypeParts DEF IInv
<1>1. pod[n] \in PodType
  BY DEF ClusterTypes
<1>2. pod' = [pod EXCEPT ![n] = new] /\ fresh' = [fresh EXCEPT ![n] = FALSE] /\ applied' = applied
  BY DEF PodChanges, history
<1>3. /\ pod' \in [Names -> PodType] /\ pod'[n] = new
      /\ \A k \in Names : k # n => pod'[k] = pod[k]
  BY <1>2 DEF ClusterTypes
<1>4. /\ fresh' \in [Names -> BOOLEAN]
      /\ \A k \in Names : fresh'[k] => fresh[k] /\ k # n
  BY <1>2 DEF ClusterTypes
<1>5. FreshIsUnmarked'
  BY <1>3, <1>4 DEF FreshIsUnmarked
<1>6. Known \subseteq Pods
  BY DEF Known, SetTypes
<1>7. \A p \in Known : p[2] <= pod'[p[1]].uid
  BY <1>1, <1>3, <1>6 DEF UidsAreOld, PodType
<1>8. Known \cap Existing' \subseteq Existing
  BY <1>1, <1>3, <1>6 DEF UidsAreOld, PodType, Existing, Exists
<1>9. Ours' \subseteq Ours
  BY <1>1, <1>3 DEF Ours, Existing, Exists, MarkOf, PodType
<1> QED
  BY <1>2, <1>3, <1>4, <1>5, <1>7, <1>8, <1>9 DEF PodStep

LEMMA StutterInv == ASSUME IInv, UNCHANGED vars PROVE IInv'
BY DEF vars, clusterVars, markVars, waitVars, endVars, cleanVars, history, IInv, TypeOK,
       AttemptsLeft, FreshIsUnmarked, UidsAreOld, Known, FailedIsTripped, MarksAreKnown, PlanIsCovered, CleanupInvariant,
       SuccessMeansRotated, LeftMarksAreReported, SummaryIsTrue, Ours, Existing, Exists, MarkOf

------------------------------------------------------------------------------
(* The steps of restartPostgresqlCluster.                                  *)

\* Each step first says what it does to the pods, and then what it leaves true.
USE TypeParts DEF IInv, PodStep, Known, SetTypes, ScalarTypes, FlagTypes, FailedIsTripped

LEMMA PlanFailsInv == ASSUME IInv, PlanFails PROVE IInv'
<1> USE DEF PlanFails, Fail, Cleanup, Return, clusterVars, markVars, waitVars, history
<1>0. PodStep({})
  BY PodsKept
<1>1. ClusterTypes' /\ ScalarTypes' /\ FlagTypes' /\ AttemptsLeft'
  BY <1>0 DEF ClusterTypes, Requests, AttemptsLeft
<1>2. SetTypes'
  BY <1>0 DEF Reports
<1>3. FailedIsTripped' /\ FreshIsUnmarked' /\ UidsAreOld'
  BY <1>0 DEF UidsAreOld
<1>4. MarksAreKnown' /\ PlanIsCovered' /\ CleanupInvariant'
  BY <1>0 DEF MarksAreKnown, PlanIsCovered, CleanupInvariant
<1>5. SuccessMeansRotated' /\ LeftMarksAreReported' /\ SummaryIsTrue'
  BY <1>0 DEF MarksAreKnown, PlanIsCovered, CleanupInvariant, SuccessMeansRotated,
              LeftMarksAreReported, SummaryIsTrue
<1> QED BY <1>1, <1>2, <1>3, <1>4, <1>5, TypePartsNext

LEMMA PodsHealthyInv == ASSUME IInv, PodsHealthy PROVE IInv'
<1> USE DEF PodsHealthy
<1>0. /\ Existing' = Existing /\ Ours' = Ours
      /\ ToMark = Existing \ marked
      /\ planned' \in {planned, Existing}
  BY DEF ToMark, Existing, Exists, Ours, MarkOf
<1>1. ClusterTypes' /\ ScalarTypes' /\ FlagTypes' /\ AttemptsLeft'
  <2>1. ClusterTypes'
    BY DEF ClusterTypes
  <2>2. ScalarTypes' /\ AttemptsLeft'
    BY DEF AttemptsLeft, waitVars, endVars, cleanVars
  <2>3. FlagTypes'
    BY DEF waitVars, endVars
  <2> QED BY <2>1, <2>2, <2>3
<1>2. SetTypes'
  BY <1>0 DEF cleanVars, Existing
<1>3. FailedIsTripped' /\ UidsAreOld'
  <2>1. \A p \in Existing : p[2] <= pod[p[1]].uid
    BY DEF Existing, Exists
  <2>3. Known' \subseteq Known \cup Existing
    BY <1>0
  <2>2. FailedIsTripped'
    BY DEF endVars
  <2> QED
    BY <2>1, <2>2, <2>3 DEF UidsAreOld
<1>4. FreshIsUnmarked'
  <2> SUFFICES ASSUME NEW n \in Names, Instance(n) \in ToMark PROVE pod[n].mark = "none"
    BY DEF FreshIsUnmarked
  <2> QED
    BY DEF ToMark, Instance, MarkOf
<1>5. MarksAreKnown' /\ PlanIsCovered' /\ CleanupInvariant'
  BY <1>0 DEF MarksAreKnown, PlanIsCovered, CleanupInvariant, endVars, cleanVars
<1>6. SuccessMeansRotated' /\ LeftMarksAreReported' /\ SummaryIsTrue'
  BY <1>0 DEF SuccessMeansRotated, LeftMarksAreReported, SummaryIsTrue, endVars, cleanVars
<1> QED BY <1>1, <1>2, <1>3, <1>4, <1>5, <1>6, TypePartsNext

LEMMA MarkIsStaleInv == ASSUME IInv, NEW p \in Pods, MarkIsStale(p) PROVE IInv'
<1> USE DEF MarkIsStale, NotSent, Marking, waitVars, endVars
<1>0. PodStep({})
  BY PodsKept
<1>1. ClusterTypes' /\ ScalarTypes' /\ FlagTypes' /\ AttemptsLeft'
  BY <1>0 DEF ClusterTypes, Requests, AttemptsLeft
<1>2. SetTypes'
  BY <1>0 DEF Reports
<1>3. FailedIsTripped' /\ FreshIsUnmarked' /\ UidsAreOld'
  BY <1>0 DEF UidsAreOld
<1>4. MarksAreKnown' /\ PlanIsCovered' /\ CleanupInvariant'
  BY <1>0 DEF MarksAreKnown, PlanIsCovered, CleanupInvariant
<1>5. SuccessMeansRotated' /\ LeftMarksAreReported' /\ SummaryIsTrue'
  BY <1>0 DEF MarksAreKnown, PlanIsCovered, CleanupInvariant, SuccessMeansRotated,
              LeftMarksAreReported, SummaryIsTrue
<1> QED BY <1>1, <1>2, <1>3, <1>4, <1>5, TypePartsNext

LEMMA MarkAnsweredInv == ASSUME IInv, NEW p \in Pods, MarkAnswered(p) PROVE IInv'
<1> USE DEF MarkAnswered, Marking, waitVars, endVars
<1>0. PodStep({p})
  BY Marks
<1>1. ClusterTypes' /\ ScalarTypes' /\ FlagTypes' /\ AttemptsLeft'
  BY <1>0 DEF ClusterTypes, Requests, AttemptsLeft
<1>2. SetTypes'
  BY <1>0 DEF Reports
<1>3. FailedIsTripped' /\ FreshIsUnmarked' /\ UidsAreOld'
  BY <1>0 DEF UidsAreOld
<1>4. MarksAreKnown' /\ PlanIsCovered' /\ CleanupInvariant'
  BY <1>0 DEF MarksAreKnown, PlanIsCovered, CleanupInvariant
<1>5. SuccessMeansRotated' /\ LeftMarksAreReported' /\ SummaryIsTrue'
  BY <1>0 DEF MarksAreKnown, PlanIsCovered, CleanupInvariant, SuccessMeansRotated,
              LeftMarksAreReported, SummaryIsTrue
<1> QED BY <1>1, <1>2, <1>3, <1>4, <1>5, TypePartsNext

LEMMA MarkMissesItselfInv == ASSUME IInv, NEW p \in Pods, MarkMissesItself(p) PROVE IInv'
<1> USE DEF MarkMissesItself, Marking, waitVars, endVars
<1>0. PodStep({p})
  BY Marks
<1>1. ClusterTypes' /\ ScalarTypes' /\ FlagTypes' /\ AttemptsLeft'
  BY <1>0 DEF ClusterTypes, Requests, AttemptsLeft
<1>2. SetTypes'
  BY <1>0 DEF Reports
<1>3. FailedIsTripped' /\ FreshIsUnmarked' /\ UidsAreOld'
  BY <1>0 DEF UidsAreOld
<1>4. MarksAreKnown' /\ PlanIsCovered' /\ CleanupInvariant'
  BY <1>0 DEF MarksAreKnown, PlanIsCovered, CleanupInvariant
<1>5. SuccessMeansRotated' /\ LeftMarksAreReported' /\ SummaryIsTrue'
  BY <1>0 DEF MarksAreKnown, PlanIsCovered, CleanupInvariant, SuccessMeansRotated,
              LeftMarksAreReported, SummaryIsTrue
<1> QED BY <1>1, <1>2, <1>3, <1>4, <1>5, TypePartsNext

LEMMA MarkUncertainInv == ASSUME IInv, NEW p \in Pods, MarkUncertain(p) PROVE IInv'
<1> USE DEF MarkUncertain, NotSent, Fail, Cleanup, Return, Marking, waitVars
<1>0. PodStep({}) \/ PodStep({p})
  BY Marks, PodsKept
<1>1. ClusterTypes' /\ ScalarTypes' /\ FlagTypes' /\ AttemptsLeft'
  BY <1>0 DEF ClusterTypes, Requests, AttemptsLeft
<1>2. SetTypes'
  BY <1>0 DEF Reports
<1>3. FailedIsTripped' /\ FreshIsUnmarked' /\ UidsAreOld'
  BY <1>0 DEF UidsAreOld
<1>4. MarksAreKnown' /\ PlanIsCovered' /\ CleanupInvariant'
  BY <1>0 DEF MarksAreKnown, PlanIsCovered, CleanupInvariant
<1>5. SuccessMeansRotated' /\ LeftMarksAreReported' /\ SummaryIsTrue'
  BY <1>0 DEF MarksAreKnown, PlanIsCovered, CleanupInvariant, SuccessMeansRotated,
              LeftMarksAreReported, SummaryIsTrue
<1> QED BY <1>1, <1>2, <1>3, <1>4, <1>5, TypePartsNext

LEMMA MarkRejectedInv == ASSUME IInv, NEW p \in Pods, MarkRejected(p) PROVE IInv'
<1> USE DEF MarkRejected, NotSent, Fail, Cleanup, Return, Marking, waitVars
<1>0. PodStep({})
  BY PodsKept
<1>1. ClusterTypes' /\ ScalarTypes' /\ FlagTypes' /\ AttemptsLeft'
  BY <1>0 DEF ClusterTypes, Requests, AttemptsLeft
<1>2. SetTypes'
  BY <1>0 DEF Reports
<1>3. FailedIsTripped' /\ FreshIsUnmarked' /\ UidsAreOld'
  BY <1>0 DEF UidsAreOld
<1>4. MarksAreKnown' /\ PlanIsCovered' /\ CleanupInvariant'
  BY <1>0 DEF MarksAreKnown, PlanIsCovered, CleanupInvariant
<1>5. SuccessMeansRotated' /\ LeftMarksAreReported' /\ SummaryIsTrue'
  BY <1>0 DEF MarksAreKnown, PlanIsCovered, CleanupInvariant, SuccessMeansRotated,
              LeftMarksAreReported, SummaryIsTrue
<1> QED BY <1>1, <1>2, <1>3, <1>4, <1>5, TypePartsNext

LEMMA RefreshInv == ASSUME IInv, Refresh PROVE IInv'
<1> USE DEF Refresh, Fail, Cleanup, Return, clusterVars, markVars, waitVars, endVars, history
<1>0. PodStep({})
  BY PodsKept
<1>1. ClusterTypes' /\ ScalarTypes' /\ FlagTypes' /\ AttemptsLeft'
  <2>1. ClusterTypes' /\ ScalarTypes' /\ AttemptsLeft'
    BY <1>0 DEF ClusterTypes, AttemptsLeft
  <2>2. FlagTypes'
    OBVIOUS
  <2> QED BY <2>1, <2>2
<1>2. SetTypes'
  BY <1>0 DEF Reports
<1>3. FailedIsTripped' /\ FreshIsUnmarked' /\ UidsAreOld'
  BY <1>0 DEF UidsAreOld
<1>4. MarksAreKnown' /\ PlanIsCovered' /\ CleanupInvariant'
  BY <1>0 DEF MarksAreKnown, PlanIsCovered, CleanupInvariant
<1>5. SuccessMeansRotated' /\ LeftMarksAreReported' /\ SummaryIsTrue'
  BY <1>0 DEF MarksAreKnown, PlanIsCovered, CleanupInvariant, SuccessMeansRotated,
              LeftMarksAreReported, SummaryIsTrue
<1> QED BY <1>1, <1>2, <1>3, <1>4, <1>5, TypePartsNext

LEMMA AllMarkedInv == ASSUME IInv, AllMarked PROVE IInv'
<1> USE DEF AllMarked, clusterVars, markVars, waitVars, endVars, cleanVars, history
<1>0. PodStep({})
  BY PodsKept
<1>1. ClusterTypes' /\ ScalarTypes' /\ FlagTypes' /\ AttemptsLeft'
  BY <1>0 DEF ClusterTypes, Requests, AttemptsLeft
<1>2. SetTypes'
  BY <1>0 DEF Reports
<1>3. FailedIsTripped' /\ FreshIsUnmarked' /\ UidsAreOld'
  BY <1>0 DEF UidsAreOld
<1>4. MarksAreKnown' /\ PlanIsCovered' /\ CleanupInvariant'
  BY <1>0 DEF MarksAreKnown, PlanIsCovered, CleanupInvariant
<1>5. SuccessMeansRotated' /\ LeftMarksAreReported' /\ SummaryIsTrue'
  BY <1>0 DEF MarksAreKnown, PlanIsCovered, CleanupInvariant, SuccessMeansRotated,
              LeftMarksAreReported, SummaryIsTrue
<1> QED BY <1>1, <1>2, <1>3, <1>4, <1>5, TypePartsNext

LEMMA TriggerAnsweredInv == ASSUME IInv, TriggerAnswered PROVE IInv'
<1> USE DEF TriggerAnswered, Return, markVars, waitVars, cleanVars, history
<1>0. PodStep({})
  BY PodsKept
<1>1. ClusterTypes' /\ ScalarTypes' /\ FlagTypes' /\ AttemptsLeft'
  BY <1>0 DEF ClusterTypes, Requests, AttemptsLeft
<1>2. SetTypes'
  BY <1>0 DEF Reports
<1>3. FailedIsTripped' /\ FreshIsUnmarked' /\ UidsAreOld'
  BY <1>0 DEF UidsAreOld
<1>4. MarksAreKnown' /\ PlanIsCovered' /\ CleanupInvariant'
  BY <1>0 DEF MarksAreKnown, PlanIsCovered, CleanupInvariant
<1>5. SuccessMeansRotated' /\ LeftMarksAreReported' /\ SummaryIsTrue'
  BY <1>0 DEF MarksAreKnown, PlanIsCovered, CleanupInvariant, SuccessMeansRotated,
              LeftMarksAreReported, SummaryIsTrue
<1> QED BY <1>1, <1>2, <1>3, <1>4, <1>5, TypePartsNext

LEMMA TriggerRejectedInv == ASSUME IInv, TriggerRejected PROVE IInv'
<1> USE DEF TriggerRejected, Fail, Cleanup, Return, clusterVars, markVars, waitVars, history
<1>0. PodStep({})
  BY PodsKept
<1>1. ClusterTypes' /\ ScalarTypes' /\ FlagTypes' /\ AttemptsLeft'
  BY <1>0 DEF ClusterTypes, Requests, AttemptsLeft
<1>2. SetTypes'
  BY <1>0 DEF Reports
<1>3. FailedIsTripped' /\ FreshIsUnmarked' /\ UidsAreOld'
  BY <1>0 DEF UidsAreOld
<1>4. MarksAreKnown' /\ PlanIsCovered' /\ CleanupInvariant'
  BY <1>0 DEF MarksAreKnown, PlanIsCovered, CleanupInvariant
<1>5. SuccessMeansRotated' /\ LeftMarksAreReported' /\ SummaryIsTrue'
  BY <1>0 DEF MarksAreKnown, PlanIsCovered, CleanupInvariant, SuccessMeansRotated,
              LeftMarksAreReported, SummaryIsTrue
<1> QED BY <1>1, <1>2, <1>3, <1>4, <1>5, TypePartsNext

LEMMA TriggerUncertainInv == ASSUME IInv, TriggerUncertain PROVE IInv'
<1> USE DEF TriggerUncertain, Fail, Cleanup, Return, markVars, waitVars, history
<1>0. PodStep({})
  BY PodsKept
<1>1. ClusterTypes' /\ ScalarTypes' /\ FlagTypes' /\ AttemptsLeft'
  BY <1>0 DEF ClusterTypes, Requests, AttemptsLeft
<1>2. SetTypes'
  BY <1>0 DEF Reports
<1>3. FailedIsTripped' /\ FreshIsUnmarked' /\ UidsAreOld'
  BY <1>0 DEF UidsAreOld
<1>4. MarksAreKnown' /\ PlanIsCovered' /\ CleanupInvariant'
  BY <1>0 DEF MarksAreKnown, PlanIsCovered, CleanupInvariant
<1>5. SuccessMeansRotated' /\ LeftMarksAreReported' /\ SummaryIsTrue'
  BY <1>0 DEF MarksAreKnown, PlanIsCovered, CleanupInvariant, SuccessMeansRotated,
              LeftMarksAreReported, SummaryIsTrue
<1> QED BY <1>1, <1>2, <1>3, <1>4, <1>5, TypePartsNext

LEMMA ObserveFailsInv == ASSUME IInv, ObserveFails PROVE IInv'
<1> USE DEF ObserveFails, Fail, clusterVars, markVars, waitVars, cleanVars, history
<1>0. PodStep({})
  BY PodsKept
<1>1. ClusterTypes' /\ ScalarTypes' /\ FlagTypes' /\ AttemptsLeft'
  BY <1>0 DEF ClusterTypes, Requests, AttemptsLeft
<1>2. SetTypes'
  BY <1>0 DEF Reports
<1>3. FailedIsTripped' /\ FreshIsUnmarked' /\ UidsAreOld'
  BY <1>0 DEF UidsAreOld
<1>4. MarksAreKnown' /\ PlanIsCovered' /\ CleanupInvariant'
  BY <1>0 DEF MarksAreKnown, PlanIsCovered, CleanupInvariant
<1>5. SuccessMeansRotated' /\ LeftMarksAreReported' /\ SummaryIsTrue'
  BY <1>0 DEF MarksAreKnown, PlanIsCovered, CleanupInvariant, SuccessMeansRotated,
              LeftMarksAreReported, SummaryIsTrue
<1> QED BY <1>1, <1>2, <1>3, <1>4, <1>5, TypePartsNext

LEMMA DoneInv == ASSUME IInv, Done PROVE IInv'
<1> USE DEF Done, Return, Observing, clusterVars, markVars, cleanVars, history
<1>0. PodStep({})
  BY PodsKept
<1>1. ClusterTypes' /\ ScalarTypes' /\ FlagTypes' /\ AttemptsLeft'
  BY <1>0 DEF ClusterTypes, Requests, AttemptsLeft
<1>2. SetTypes'
  BY <1>0 DEF Reports
<1>3. FailedIsTripped' /\ FreshIsUnmarked' /\ UidsAreOld'
  BY <1>0 DEF UidsAreOld
<1>4. MarksAreKnown' /\ PlanIsCovered' /\ CleanupInvariant'
  BY <1>0 DEF MarksAreKnown, PlanIsCovered, CleanupInvariant
<1>5. SuccessMeansRotated' /\ LeftMarksAreReported' /\ SummaryIsTrue'
  <2>1. marked \cap Existing = {} /\ Ours = {}
    BY DEF RotationDone, Ours, Existing, MarkOf
  <2> QED
    BY <1>0, <2>1 DEF SuccessMeansRotated, LeftMarksAreReported, SummaryIsTrue, CleanupInvariant,
                      PlanIsCovered
<1> QED BY <1>1, <1>2, <1>3, <1>4, <1>5, TypePartsNext

LEMMA NotDoneInv == ASSUME IInv, NotDone PROVE IInv'
<1> USE DEF NotDone, Observing, clusterVars, markVars, cleanVars, history
<1>0. PodStep({})
  BY PodsKept
<1>1. ClusterTypes' /\ ScalarTypes' /\ FlagTypes' /\ AttemptsLeft'
  BY <1>0 DEF ClusterTypes, Requests, AttemptsLeft
<1>2. SetTypes'
  BY <1>0 DEF Reports
<1>3. FailedIsTripped' /\ FreshIsUnmarked' /\ UidsAreOld'
  BY <1>0 DEF UidsAreOld
<1>4. MarksAreKnown' /\ PlanIsCovered' /\ CleanupInvariant'
  BY <1>0 DEF MarksAreKnown, PlanIsCovered, CleanupInvariant
<1>5. SuccessMeansRotated' /\ LeftMarksAreReported' /\ SummaryIsTrue'
  BY <1>0 DEF MarksAreKnown, PlanIsCovered, CleanupInvariant, SuccessMeansRotated,
              LeftMarksAreReported, SummaryIsTrue
<1> QED BY <1>1, <1>2, <1>3, <1>4, <1>5, TypePartsNext

LEMMA StalledInv == ASSUME IInv, Stalled PROVE IInv'
<1> USE DEF Stalled, Observing, clusterVars, markVars, cleanVars, history
<1>0. PodStep({})
  BY PodsKept
<1>1. ClusterTypes' /\ ScalarTypes' /\ FlagTypes' /\ AttemptsLeft'
  BY <1>0 DEF ClusterTypes, Requests, AttemptsLeft
<1>2. SetTypes'
  BY <1>0 DEF Reports
<1>3. FailedIsTripped' /\ FreshIsUnmarked' /\ UidsAreOld'
  BY <1>0 DEF UidsAreOld
<1>4. MarksAreKnown' /\ PlanIsCovered' /\ CleanupInvariant'
  BY <1>0 DEF MarksAreKnown, PlanIsCovered, CleanupInvariant
<1>5. SuccessMeansRotated' /\ LeftMarksAreReported' /\ SummaryIsTrue'
  BY <1>0 DEF MarksAreKnown, PlanIsCovered, CleanupInvariant, SuccessMeansRotated,
              LeftMarksAreReported, SummaryIsTrue
<1> QED BY <1>1, <1>2, <1>3, <1>4, <1>5, TypePartsNext

LEMMA RetriggerInv == ASSUME IInv, Retrigger PROVE IInv'
<1> USE DEF Retrigger, Fail, clusterVars, markVars, waitVars, cleanVars, history
<1>0. PodStep({})
  BY PodsKept
<1>1. ClusterTypes' /\ ScalarTypes' /\ FlagTypes' /\ AttemptsLeft'
  BY <1>0 DEF ClusterTypes, Requests, AttemptsLeft
<1>2. SetTypes'
  BY <1>0 DEF Reports
<1>3. FailedIsTripped' /\ FreshIsUnmarked' /\ UidsAreOld'
  BY <1>0 DEF UidsAreOld
<1>4. MarksAreKnown' /\ PlanIsCovered' /\ CleanupInvariant'
  BY <1>0 DEF MarksAreKnown, PlanIsCovered, CleanupInvariant
<1>5. SuccessMeansRotated' /\ LeftMarksAreReported' /\ SummaryIsTrue'
  BY <1>0 DEF MarksAreKnown, PlanIsCovered, CleanupInvariant, SuccessMeansRotated,
              LeftMarksAreReported, SummaryIsTrue
<1> QED BY <1>1, <1>2, <1>3, <1>4, <1>5, TypePartsNext

LEMMA TickInv == ASSUME IInv, Tick PROVE IInv'
<1> USE DEF Tick, clusterVars, markVars, waitVars, endVars, cleanVars, history
<1>0. PodStep({})
  BY PodsKept
<1>1. ClusterTypes' /\ ScalarTypes' /\ FlagTypes' /\ AttemptsLeft'
  BY <1>0 DEF ClusterTypes, Requests, AttemptsLeft
<1>2. SetTypes'
  BY <1>0 DEF Reports
<1>3. FailedIsTripped' /\ FreshIsUnmarked' /\ UidsAreOld'
  BY <1>0 DEF UidsAreOld
<1>4. MarksAreKnown' /\ PlanIsCovered' /\ CleanupInvariant'
  BY <1>0 DEF MarksAreKnown, PlanIsCovered, CleanupInvariant
<1>5. SuccessMeansRotated' /\ LeftMarksAreReported' /\ SummaryIsTrue'
  BY <1>0 DEF MarksAreKnown, PlanIsCovered, CleanupInvariant, SuccessMeansRotated,
              LeftMarksAreReported, SummaryIsTrue
<1> QED BY <1>1, <1>2, <1>3, <1>4, <1>5, TypePartsNext

LEMMA GiveUpInv == ASSUME IInv, GiveUp PROVE IInv'
<1> USE DEF GiveUp, Fail, Cleanup, Return, clusterVars, markVars, waitVars, history
<1>0. PodStep({})
  BY PodsKept
<1>1. ClusterTypes' /\ ScalarTypes' /\ FlagTypes' /\ AttemptsLeft'
  BY <1>0 DEF ClusterTypes, Requests, AttemptsLeft
<1>2. SetTypes'
  BY <1>0 DEF Reports
<1>3. FailedIsTripped' /\ FreshIsUnmarked' /\ UidsAreOld'
  BY <1>0 DEF UidsAreOld
<1>4. MarksAreKnown' /\ PlanIsCovered' /\ CleanupInvariant'
  BY <1>0 DEF MarksAreKnown, PlanIsCovered, CleanupInvariant
<1>5. SuccessMeansRotated' /\ LeftMarksAreReported' /\ SummaryIsTrue'
  BY <1>0 DEF MarksAreKnown, PlanIsCovered, CleanupInvariant, SuccessMeansRotated,
              LeftMarksAreReported, SummaryIsTrue
<1> QED BY <1>1, <1>2, <1>3, <1>4, <1>5, TypePartsNext

LEMMA ListFailsInv == ASSUME IInv, ListFails PROVE IInv'
<1> USE DEF ListFails, clusterVars, markVars, waitVars, endVars, history
<1>0. PodStep({})
  BY PodsKept
<1>1. ClusterTypes' /\ ScalarTypes' /\ FlagTypes' /\ AttemptsLeft'
  BY <1>0 DEF ClusterTypes, Requests, AttemptsLeft
<1>2. SetTypes'
  BY <1>0 DEF Reports
<1>3. FailedIsTripped' /\ FreshIsUnmarked' /\ UidsAreOld'
  BY <1>0 DEF UidsAreOld
<1>4. MarksAreKnown' /\ PlanIsCovered' /\ CleanupInvariant'
  BY <1>0 DEF MarksAreKnown, PlanIsCovered, CleanupInvariant
<1>5. SuccessMeansRotated' /\ LeftMarksAreReported' /\ SummaryIsTrue'
  BY <1>0 DEF MarksAreKnown, PlanIsCovered, CleanupInvariant, SuccessMeansRotated,
              LeftMarksAreReported, SummaryIsTrue
<1> QED BY <1>1, <1>2, <1>3, <1>4, <1>5, TypePartsNext

LEMMA ListMarkedInv == ASSUME IInv, ListMarked PROVE IInv'
<1> USE DEF ListMarked, clusterVars, markVars, waitVars, endVars, history
<1>0. PodStep({})
  BY PodsKept
<1>1. ClusterTypes' /\ ScalarTypes' /\ FlagTypes' /\ AttemptsLeft'
  BY <1>0 DEF ClusterTypes, Requests, AttemptsLeft
<1>a. \A p \in Pods : /\ Verdict(p) \in Reports \ {"removed", "stillMarked"}
                      /\ Verdict(p) = "rotated" => p \notin Existing
                      /\ p \in Ours => Verdict(p) = "none"
  <2>1. \A p \in Pods : MarkOf(p) \in {"none", "us", "other"}
    BY DEF ClusterTypes, PodType, MarkOf
  <2> QED
    BY <2>1 DEF Verdict, Reports, Ours, Existing
<1>2. SetTypes'
  BY <1>a
<1>3. FailedIsTripped' /\ FreshIsUnmarked' /\ UidsAreOld'
  BY <1>0 DEF UidsAreOld
<1>4. MarksAreKnown' /\ PlanIsCovered' /\ CleanupInvariant'
  BY <1>0, <1>a DEF MarksAreKnown, PlanIsCovered, CleanupInvariant
<1>5. SuccessMeansRotated' /\ LeftMarksAreReported' /\ SummaryIsTrue'
  BY <1>0, <1>a DEF SuccessMeansRotated, LeftMarksAreReported, SummaryIsTrue, CleanupInvariant
<1> QED BY <1>1, <1>2, <1>3, <1>4, <1>5, TypePartsNext

LEMMA NextRoundInv == ASSUME IInv, NextRound PROVE IInv'
<1> USE DEF NextRound, clusterVars, markVars, waitVars, endVars, history
<1>0. PodStep({})
  BY PodsKept
<1>1. ClusterTypes' /\ ScalarTypes' /\ FlagTypes' /\ AttemptsLeft'
  BY <1>0 DEF ClusterTypes, Requests, AttemptsLeft
<1>2. SetTypes'
  BY <1>0 DEF Reports
<1>3. FailedIsTripped' /\ FreshIsUnmarked' /\ UidsAreOld'
  BY <1>0 DEF UidsAreOld
<1>4. MarksAreKnown' /\ PlanIsCovered' /\ CleanupInvariant'
  BY <1>0 DEF MarksAreKnown, PlanIsCovered, CleanupInvariant
<1>5. SuccessMeansRotated' /\ LeftMarksAreReported' /\ SummaryIsTrue'
  BY <1>0 DEF MarksAreKnown, PlanIsCovered, CleanupInvariant, SuccessMeansRotated,
              LeftMarksAreReported, SummaryIsTrue
<1> QED BY <1>1, <1>2, <1>3, <1>4, <1>5, TypePartsNext

LEMMA CleanupEndsInv == ASSUME IInv, CleanupEnds PROVE IInv'
<1> USE DEF CleanupEnds, Return, clusterVars, markVars, waitVars, history
<1>0. PodStep({})
  BY PodsKept
<1>1. ClusterTypes' /\ ScalarTypes' /\ FlagTypes' /\ AttemptsLeft'
  BY <1>0 DEF ClusterTypes, Requests, AttemptsLeft
<1>2. SetTypes'
  BY <1>0 DEF Reports
<1>3. FailedIsTripped' /\ FreshIsUnmarked' /\ UidsAreOld'
  BY <1>0 DEF UidsAreOld
<1>4. MarksAreKnown' /\ PlanIsCovered' /\ CleanupInvariant'
  BY <1>0 DEF MarksAreKnown, PlanIsCovered, CleanupInvariant
<1>5. SuccessMeansRotated' /\ LeftMarksAreReported' /\ SummaryIsTrue'
  BY <1>0 DEF MarksAreKnown, PlanIsCovered, CleanupInvariant, SuccessMeansRotated,
              LeftMarksAreReported, SummaryIsTrue
<1> QED BY <1>1, <1>2, <1>3, <1>4, <1>5, TypePartsNext

LEMMA UnmarkedInv == ASSUME IInv, NEW p \in Pods, Unmarked(p) PROVE IInv'
<1> USE DEF Unmarked, Unmarking, markVars, waitVars, endVars
<1>0. PodStep({}) /\ p \in Ours \ Ours' /\ ~ fresh'[p[1]]
  BY Unmarks
<1>1. ClusterTypes' /\ ScalarTypes' /\ FlagTypes' /\ AttemptsLeft'
  BY <1>0 DEF ClusterTypes, Requests, AttemptsLeft
<1>2. SetTypes'
  BY <1>0 DEF Reports
<1>3. FailedIsTripped' /\ FreshIsUnmarked' /\ UidsAreOld'
  BY <1>0 DEF UidsAreOld
<1>4. MarksAreKnown' /\ PlanIsCovered' /\ CleanupInvariant'
  BY <1>0 DEF MarksAreKnown, PlanIsCovered, CleanupInvariant
<1>5. SuccessMeansRotated' /\ LeftMarksAreReported' /\ SummaryIsTrue'
  BY <1>0 DEF MarksAreKnown, PlanIsCovered, CleanupInvariant, SuccessMeansRotated,
              LeftMarksAreReported, SummaryIsTrue
<1> QED BY <1>1, <1>2, <1>3, <1>4, <1>5, TypePartsNext

LEMMA UnmarkFailsInv == ASSUME IInv, NEW p \in Pods, UnmarkFails(p) PROVE IInv'
<1> USE DEF UnmarkFails, NotSent, Unmarking, markVars, waitVars, endVars
<1>0. PodStep({})
  BY Unmarks, PodsKept
<1>1. ClusterTypes' /\ ScalarTypes' /\ FlagTypes' /\ AttemptsLeft'
  BY <1>0 DEF ClusterTypes, Requests, AttemptsLeft
<1>2. SetTypes'
  BY <1>0 DEF Reports
<1>3. FailedIsTripped' /\ FreshIsUnmarked' /\ UidsAreOld'
  BY <1>0 DEF UidsAreOld
<1>4. MarksAreKnown' /\ PlanIsCovered' /\ CleanupInvariant'
  BY <1>0 DEF MarksAreKnown, PlanIsCovered, CleanupInvariant
<1>5. SuccessMeansRotated' /\ LeftMarksAreReported' /\ SummaryIsTrue'
  BY <1>0 DEF MarksAreKnown, PlanIsCovered, CleanupInvariant, SuccessMeansRotated,
              LeftMarksAreReported, SummaryIsTrue
<1> QED BY <1>1, <1>2, <1>3, <1>4, <1>5, TypePartsNext

------------------------------------------------------------------------------
(* The steps of everybody else.                                            *)

LEMMA CancelInv == ASSUME IInv, Cancel PROVE IInv'
<1> USE DEF Cancel, clusterVars, markVars, waitVars, endVars, cleanVars, history
<1>0. PodStep({})
  BY PodsKept
<1>1. ClusterTypes' /\ ScalarTypes' /\ FlagTypes' /\ AttemptsLeft'
  BY <1>0 DEF ClusterTypes, Requests, AttemptsLeft
<1>2. SetTypes'
  BY <1>0 DEF Reports
<1>3. FailedIsTripped' /\ FreshIsUnmarked' /\ UidsAreOld'
  BY <1>0 DEF UidsAreOld
<1>4. MarksAreKnown' /\ PlanIsCovered' /\ CleanupInvariant'
  BY <1>0 DEF MarksAreKnown, PlanIsCovered, CleanupInvariant
<1>5. SuccessMeansRotated' /\ LeftMarksAreReported' /\ SummaryIsTrue'
  BY <1>0 DEF MarksAreKnown, PlanIsCovered, CleanupInvariant, SuccessMeansRotated,
              LeftMarksAreReported, SummaryIsTrue
<1> QED BY <1>1, <1>2, <1>3, <1>4, <1>5, TypePartsNext

LEMMA ExpireInv == ASSUME IInv, Expire PROVE IInv'
<1> USE DEF Expire, clusterVars, markVars, endVars, cleanVars, history
<1>0. PodStep({})
  BY PodsKept
<1>1. ClusterTypes' /\ ScalarTypes' /\ FlagTypes' /\ AttemptsLeft'
  BY <1>0 DEF ClusterTypes, Requests, AttemptsLeft
<1>2. SetTypes'
  BY <1>0 DEF Reports
<1>3. FailedIsTripped' /\ FreshIsUnmarked' /\ UidsAreOld'
  BY <1>0 DEF UidsAreOld
<1>4. MarksAreKnown' /\ PlanIsCovered' /\ CleanupInvariant'
  BY <1>0 DEF MarksAreKnown, PlanIsCovered, CleanupInvariant
<1>5. SuccessMeansRotated' /\ LeftMarksAreReported' /\ SummaryIsTrue'
  BY <1>0 DEF MarksAreKnown, PlanIsCovered, CleanupInvariant, SuccessMeansRotated,
              LeftMarksAreReported, SummaryIsTrue
<1> QED BY <1>1, <1>2, <1>3, <1>4, <1>5, TypePartsNext

LEMMA LateApplyInv == ASSUME IInv, NEW r \in inflight, LateApply(r) PROVE IInv'
<1> USE DEF LateApply, markVars, waitVars, endVars, cleanVars
<1>0. IF r.op = "mark" THEN PodStep({r.pod}) ELSE PodStep({})
  BY Marks, Unmarks DEF ClusterTypes, Requests
<1>1. ClusterTypes' /\ ScalarTypes' /\ FlagTypes' /\ AttemptsLeft'
  BY <1>0 DEF ClusterTypes, Requests, AttemptsLeft
<1>2. SetTypes'
  BY <1>0 DEF Reports
<1>3. FailedIsTripped' /\ FreshIsUnmarked' /\ UidsAreOld'
  BY <1>0 DEF UidsAreOld
<1>4. MarksAreKnown' /\ PlanIsCovered' /\ CleanupInvariant'
  BY <1>0 DEF MarksAreKnown, PlanIsCovered, CleanupInvariant
<1>5. SuccessMeansRotated' /\ LeftMarksAreReported' /\ SummaryIsTrue'
  BY <1>0 DEF MarksAreKnown, PlanIsCovered, CleanupInvariant, SuccessMeansRotated,
              LeftMarksAreReported, SummaryIsTrue
<1> QED BY <1>1, <1>2, <1>3, <1>4, <1>5, TypePartsNext

LEMMA PodChangesInv ==
  ASSUME IInv, NEW n \in Names, NEW new \in PodType, PodChanges(n, new),
         \/ new.uid = pod[n].uid /\ (new.mark = "us" => pod[n].mark = "us")
         \/ new.uid = pod[n].uid + 1 /\ new.mark # "us",
         others' \in 0 .. MaxMarksByOthers
  PROVE  IInv'
<1> USE DEF PodChanges, clusterVars, markVars, waitVars, endVars, cleanVars, history
<1>0. PodStep({})
  BY Changes
<1>1. ClusterTypes' /\ ScalarTypes' /\ FlagTypes' /\ AttemptsLeft'
  BY <1>0 DEF ClusterTypes, Requests, AttemptsLeft
<1>2. SetTypes'
  BY <1>0 DEF Reports
<1>3. FailedIsTripped' /\ FreshIsUnmarked' /\ UidsAreOld'
  BY <1>0 DEF UidsAreOld
<1>4. MarksAreKnown' /\ PlanIsCovered' /\ CleanupInvariant'
  BY <1>0 DEF MarksAreKnown, PlanIsCovered, CleanupInvariant
<1>5. SuccessMeansRotated' /\ LeftMarksAreReported' /\ SummaryIsTrue'
  BY <1>0 DEF MarksAreKnown, PlanIsCovered, CleanupInvariant, SuccessMeansRotated,
              LeftMarksAreReported, SummaryIsTrue
<1> QED BY <1>1, <1>2, <1>3, <1>4, <1>5, TypePartsNext

------------------------------------------------------------------------------
(* The specification.                                                      *)

LEMMA InitInv == Init => IInv
<1> SUFFICES ASSUME Init PROVE IInv
  OBVIOUS
<1> USE DEF Init
<1>1. TypeOK
  <2>1. ClusterTypes
    <3>1. [uid : {1}, ready : {TRUE}, mark : {"none", "other"}] \subseteq PodType
      <4>1. {1} \subseteq 1 .. MaxUid /\ {TRUE} \subseteq BOOLEAN
        OBVIOUS
      <4> QED BY Zenon, <4>1 DEF PodType
    <3>2. pod \in [Names -> PodType]
      BY <3>1
    <3> QED BY <3>2 DEF ClusterTypes
  <2>2. SetTypes
    BY DEF Reports
  <2>3. ScalarTypes
    OBVIOUS
  <2>4. FlagTypes
    OBVIOUS
  <2> QED BY <2>1, <2>2, <2>3, <2>4
<1>2. Ours = {}
  BY DEF Ours, Existing, MarkOf
<1>3. AttemptsLeft
  BY DEF AttemptsLeft
<1>4. FailedIsTripped
  OBVIOUS
<1> QED
  BY <1>1, <1>2, <1>3, <1>4 DEF FreshIsUnmarked, UidsAreOld, MarksAreKnown, PlanIsCovered,
                              CleanupInvariant, SuccessMeansRotated, LeftMarksAreReported,
                              SummaryIsTrue

LEMMA OthersInv == ASSUME IInv, Others PROVE IInv'
<1>1. CASE Cancel \/ Expire
  BY <1>1, CancelInv, ExpireInv
<1>2. CASE \E r \in inflight : LateApply(r)
  BY <1>2, LateApplyInv
<1>3. ASSUME NEW n \in Names, Replaced(n) \/ Readiness(n) \/ Heartbeat(n) \/ OthersMark(n)
      PROVE  IInv'
  <2>1. pod[n] \in PodType /\ others \in 0 .. MaxMarksByOthers
    BY DEF ClusterTypes
  <2>2. CASE Replaced(n)
    <3> DEFINE new == [uid |-> pod[n].uid + 1, ready |-> FALSE, mark |-> "none"]
    <3>1. new \in PodType /\ new.uid = pod[n].uid + 1 /\ new.mark # "us"
      BY <2>1, <2>2 DEF PodType, Replaced
    <3>2. PodChanges(n, new) /\ others' = others
      BY <2>2 DEF Replaced
    <3> HIDE DEF new
    <3> QED BY <2>1, <3>1, <3>2, PodChangesInv
  <2>3. CASE Readiness(n)
    <3> DEFINE new == [pod[n] EXCEPT !.ready = ~ @]
    <3>1. new \in PodType /\ new.uid = pod[n].uid /\ new.mark = pod[n].mark
      BY <2>1 DEF PodType
    <3>2. PodChanges(n, new) /\ others' = others
      BY <2>3 DEF Readiness
    <3> HIDE DEF new
    <3> QED BY <2>1, <3>1, <3>2, PodChangesInv
  <2>4. CASE Heartbeat(n)
    BY <2>1, <2>4, PodChangesInv DEF Heartbeat
  <2>5. CASE OthersMark(n)
    <3> DEFINE new == [pod[n] EXCEPT !.mark = "other"]
    <3>1. new \in PodType /\ new.uid = pod[n].uid /\ new.mark # "us"
      BY <2>1 DEF PodType
    <3>2. PodChanges(n, new) /\ others' \in 0 .. MaxMarksByOthers
      BY <2>1, <2>5 DEF OthersMark
    <3> HIDE DEF new
    <3> QED BY <3>1, <3>2, PodChangesInv
  <2> QED BY <1>3, <2>2, <2>3, <2>4, <2>5
<1> QED BY <1>1, <1>2, <1>3 DEF Others

LEMMA NextInv == IInv /\ [Next]_vars => IInv'
<1> SUFFICES ASSUME IInv, [Next]_vars PROVE IInv'
  OBVIOUS
<1>1. CASE Step
  BY <1>1, PlanFailsInv, PodsHealthyInv, MarkAnsweredInv, MarkIsStaleInv, MarkMissesItselfInv,
     MarkRejectedInv, MarkUncertainInv, RefreshInv, AllMarkedInv, TriggerAnsweredInv, TriggerRejectedInv,
     TriggerUncertainInv, ObserveFailsInv, DoneInv, NotDoneInv, StalledInv, RetriggerInv, TickInv, GiveUpInv,
     ListFailsInv, ListMarkedInv, NextRoundInv, CleanupEndsInv, UnmarkedInv, UnmarkFailsInv DEF Step
<1>2. CASE UNCHANGED vars
  BY <1>2, StutterInv
<1> QED BY <1>1, <1>2, OthersInv DEF Next

\* Whatever the API server, the operator and everybody else do, the inductive
\* invariant holds.
THEOREM Invariance == Spec => []IInv
BY InitInv, NextInv, PTL DEF Spec

\* Types, for every number of pods, attempts and changes by others: neither the
\* attempts of markPods nor the rounds of removeMarkers exceed their bounds.
THEOREM TypeCorrect == Spec => []TypeOK
<1>1. IInv => TypeOK
  OBVIOUS
<1> QED BY <1>1, Invariance, PTL

\* A nil error of a waiting restartPostgresqlCluster means that the pods of the
\* preflight are gone and no mark of this run is left or on its way.
THEOREM SuccessIsRotation == Spec => []SuccessMeansRotated
<1>1. IInv => SuccessMeansRotated
  OBVIOUS
<1> QED BY <1>1, Invariance, PTL

\* triggerSync touches the custom resource only when no pod of the plan is left
\* unmarked.
THEOREM NothingTouchedBeforeMarking == Spec => []TouchedAfterMarking
<1>1. IInv => TouchedAfterMarking
  BY DEF MarksAreKnown, PlanIsCovered, TouchedAfterMarking
<1> QED BY <1>1, Invariance, PTL

\* The run-wide stop is set before removeMarkers begins and before a failure is
\* returned.
THEOREM StopComesFirst == Spec => []StopBeforeCleanup
<1>1. IInv => StopBeforeCleanup
  BY DEF StopBeforeCleanup
<1> QED BY <1>1, Invariance, PTL

\* After a failure the summary names every pod that still carries a mark of
\* this run, unless its PATCH took effect unnoticed.
THEOREM MarksLeftAreNamed == Spec => []LeftMarksAreReported
<1>1. IInv => LeftMarksAreReported
  OBVIOUS
<1> QED BY <1>1, Invariance, PTL

\* What the summary of removeMarkers says of a pod stays true.
THEOREM SummaryStaysTrue == Spec => []SummaryIsTrue
<1>1. IInv => SummaryIsTrue
  OBVIOUS
<1> QED BY <1>1, Invariance, PTL

\* No PATCH of this run, however late, touches a mark of the operator or of
\* another run: the JSON patches test what they rely on.
THEOREM ForeignMarksAreKept == Spec => ForeignMarksKept
<1> DEFINE Kept(n) == pod[n].mark = "other" /\ pod'[n].uid = pod[n].uid => pod'[n].mark = "other"
<1>1. ASSUME IInv, [Next]_vars, NEW n \in Names PROVE Kept(n)
  <2>1. CASE UNCHANGED pod
    BY <2>1
  <2>2. ASSUME NEW p \in Pods, CanMark(p), SetMark(p, "us") PROVE Kept(n)
    <3>1. n = p[1] => pod[n].mark = "none"
      BY <1>1, <2>2 DEF CanMark, FreshIsUnmarked
    <3>2. n # p[1] => pod'[n] = pod[n]
      BY <1>1, <2>2, MarkChanged DEF CanMark
    <3> QED BY <3>1, <3>2
  <2>3. ASSUME NEW p \in Pods, CanUnmark(p), SetMark(p, "none") PROVE Kept(n)
    <3>1. n = p[1] => pod[n].mark = "us"
      BY <2>3 DEF CanUnmark, MarkOf
    <3>2. n # p[1] => pod'[n] = pod[n]
      BY <1>1, <2>3, MarkChanged DEF CanUnmark
    <3> QED BY <3>1, <3>2
  <2>4. CASE Step
    <3>1. \/ UNCHANGED pod
          \/ \E p \in Pods : \/ CanMark(p) /\ SetMark(p, "us")
                             \/ CanUnmark(p) /\ SetMark(p, "none")
      BY <2>4 DEF Step, PlanFails, PodsHealthy, MarkAnswered, MarkIsStale, MarkMissesItself,
                  MarkRejected, MarkUncertain, Refresh, AllMarked, TriggerAnswered,
                  TriggerRejected, TriggerUncertain, ObserveFails, Done, NotDone, Stalled,
                  Observing, Retrigger, Tick, GiveUp, ListFails, ListMarked, NextRound,
                  CleanupEnds, Unmarked, UnmarkFails, NotSent, clusterVars
    <3> QED BY <2>1, <2>2, <2>3, <3>1
  <2>5. CASE Cancel \/ Expire \/ UNCHANGED vars
    BY <2>1, <2>5 DEF Cancel, Expire, vars, clusterVars
  <2>6. ASSUME NEW r \in inflight, LateApply(r) PROVE Kept(n)
    <3>1. r.pod \in Pods /\ r.op \in {"mark", "unmark"}
      BY <1>1, <2>6 DEF ClusterTypes, Requests
    <3> QED BY <2>2, <2>3, <2>6, <3>1 DEF LateApply
  <2>7. ASSUME NEW k \in Names, Replaced(k) \/ Readiness(k) \/ Heartbeat(k) \/ OthersMark(k)
        PROVE  Kept(n)
    <3>1. pod[n] \in PodType /\ pod[k] \in PodType /\ pod \in [Names -> PodType]
      BY <1>1 DEF ClusterTypes
    <3>2. CASE Replaced(k)
      BY <3>1, <3>2 DEF Replaced, PodChanges, PodType
    <3>3. CASE Readiness(k)
      BY <3>1, <3>3 DEF Readiness, PodChanges, PodType
    <3>4. CASE Heartbeat(k)
      BY <3>1, <3>4 DEF Heartbeat, PodChanges
    <3>5. CASE OthersMark(k)
      BY <3>1, <3>5 DEF OthersMark, PodChanges, PodType
    <3> QED BY <2>7, <3>2, <3>3, <3>4, <3>5
  <2> QED BY <1>1, <2>4, <2>5, <2>6, <2>7 DEF Next, Others
<1>2. IInv /\ [Next]_vars =>
        [\A n \in Names : pod[n].mark = "other" /\ pod'[n].uid = pod[n].uid => pod'[n].mark = "other"]_vars
  BY <1>1
<1> QED BY <1>2, Invariance, PTL DEF Spec, ForeignMarksKept
------------------------------------------------------------------------------
(* The restart of a cluster is one target of a run (module Maintenance).   *)

\* What the run sees of it until its slot is given back: patched by the first
\* mark that the client knows of, doomed by the stop that this restart sets.
TargetState ==
  CASE result = "nil" -> "ok"
    [] result # "nil" /\ tripped -> "doomed"
    [] result # "nil" /\ ~ tripped -> IF marked = {} THEN "launched" ELSE "patched"

Run == INSTANCE Maintenance WITH
         Types <- 1, N <- 1, TypeOf <- [i \in {1} |-> 1], Parallel <- 1, WithCordon <- FALSE,
         stage <- "run", type <- 1, open <- TRUE, st <- [i \in {1} |-> TargetState],
         stopped <- tripped, cordoned <- "none", errs <- {}, canceled <- FALSE,
         interrupted <- cancelled, exit <- "none"

TargetLaunched == TargetState = "launched" /\ ~ tripped
TargetStep == Run!Patch(1) \/ Run!Doom(1) \/ Run!Succeed(1) \/ Run!FirstSignal

\* Nothing is triggered for no pod at all.
PodsChosen ==
  /\ pc = "mark" /\ ~ stale => pending # {} \/ marked # {}
  /\ pc \in {"trigger", "observe", "retrigger", "tick"} => marked # {}

LEMMA InitChosen == Init => PodsChosen
BY DEF Init, PodsChosen

\* Each name has a pod: what is not marked yet is to be marked.
LEMMA HealthyChosen == ASSUME IInv, PodsHealthy PROVE PodsChosen'
<1>1. pod[1].uid \in 1 .. MaxUid
  BY DEF IInv, TypeOK
<1>2. <<1, pod[1].uid>> \in Existing
  BY <1>1 DEF Existing, Exists
<1>3. ToMark # {} \/ marked # {}
  BY <1>2 DEF ToMark
<1> QED BY <1>3 DEF PodsHealthy, PodsChosen

LEMMA ChosenNext == IInv /\ PodsChosen /\ [Next]_vars => PodsChosen'
<1> SUFFICES ASSUME IInv, PodsChosen, [Next]_vars PROVE PodsChosen'
  OBVIOUS
<1> USE DEF clusterVars, markVars, waitVars, endVars, cleanVars
<1>1. ASSUME UNCHANGED <<pc, stale, pending, marked>> PROVE PodsChosen'
  BY <1>1 DEF PodsChosen
<1>2. ASSUME pc' \in {"plan", "listMarked", "unmark", "returned"} PROVE PodsChosen'
  BY <1>2 DEF PodsChosen
<1>3. ASSUME pc \in {"trigger", "observe", "retrigger", "tick"}, UNCHANGED marked, pc' # "mark" PROVE PodsChosen'
  BY <1>3 DEF PodsChosen
<1>4. CASE PlanFails \/ Refresh \/ AllMarked
  BY <1>4 DEF PlanFails, Refresh, AllMarked, Cleanup, Return, PodsChosen
<1>5. ASSUME NEW p \in Pods, MarkAnswered(p) \/ MarkIsStale(p) \/ MarkMissesItself(p) PROVE PodsChosen'
  BY <1>5 DEF MarkAnswered, MarkIsStale, MarkMissesItself, Marking, PodsChosen
<1>6. ASSUME NEW p \in Pods, MarkRejected(p) \/ MarkUncertain(p) PROVE PodsChosen'
  BY <1>6, <1>2 DEF MarkRejected, MarkUncertain, Cleanup, Return
<1>7. CASE TriggerAnswered \/ TriggerRejected \/ TriggerUncertain
  BY <1>7, <1>3 DEF TriggerAnswered, TriggerRejected, TriggerUncertain, Cleanup, Return
<1>8. CASE ObserveFails \/ Done \/ NotDone \/ Stalled \/ Retrigger \/ Tick \/ GiveUp
  BY <1>8, <1>3 DEF ObserveFails, Done, NotDone, Stalled, Observing, Retrigger, Tick, GiveUp, Cleanup, Return
<1>9. CASE ListFails \/ ListMarked \/ NextRound \/ CleanupEnds
  BY <1>9, <1>2 DEF ListFails, ListMarked, NextRound, CleanupEnds, Return
<1>10. ASSUME NEW p \in Pods, Unmarked(p) \/ UnmarkFails(p) PROVE PodsChosen'
  BY <1>10, <1>1 DEF Unmarked, UnmarkFails, Unmarking
<1>11. CASE Cancel \/ Expire \/ UNCHANGED vars
  BY <1>11, <1>1 DEF Cancel, Expire, vars
<1>12. ASSUME NEW r \in inflight, LateApply(r) PROVE PodsChosen'
  BY <1>12, <1>1 DEF LateApply
<1>13. ASSUME NEW n \in Names, Replaced(n) \/ Readiness(n) \/ Heartbeat(n) \/ OthersMark(n) PROVE PodsChosen'
  BY <1>13, <1>1 DEF Replaced, Readiness, Heartbeat, OthersMark, PodChanges
<1> QED BY <1>4, <1>5, <1>6, <1>7, <1>8, <1>9, <1>10, <1>11, <1>12, <1>13, HealthyChosen DEF Next, Step, Others

\* How a step of the restart looks to the run.
LEMMA TargetMoves ==
  ASSUME NEW x, TargetState' = x
  PROVE  [i \in {1} |-> TargetState]' = [[i \in {1} |-> TargetState] EXCEPT ![1] = x]
OBVIOUS

LEMMA TargetUnseen ==
  ASSUME UNCHANGED <<result, tripped, cancelled>>, marked # {} <=> marked' # {}
  PROVE  UNCHANGED Run!vars
BY DEF TargetState, Run!vars, Run!phaseVars

LEMMA TargetPatched ==
  ASSUME UNCHANGED <<result, tripped, cancelled>>, result # "nil", ~ tripped, marked = {}, marked' # {}, ~ cancelled
  PROVE  Run!Patch(1)
<1>1. TargetState = "launched" /\ TargetState' = "patched"
  BY DEF TargetState
<1> HIDE DEF TargetState
<1> QED BY <1>1, TargetMoves DEF Run!Patch, Run!InQueue, Run!Working, Run!phaseVars

LEMMA TargetDoomed ==
  ASSUME result # "nil", result' # "nil", ~ tripped, tripped' = TRUE, UNCHANGED cancelled
  PROVE  Run!Doom(1)
<1>1. TargetState \in {"launched", "patched"} /\ TargetState' = "doomed"
  BY DEF TargetState
<1> HIDE DEF TargetState
<1> QED BY <1>1, TargetMoves DEF Run!Doom, Run!InQueue, Run!Working, Run!phaseVars

LEMMA TargetSucceeds ==
  ASSUME result # "nil", result' = "nil", ~ tripped, UNCHANGED <<tripped, cancelled>>, marked # {}
  PROVE  Run!Succeed(1)
<1>1. TargetState = "patched" /\ TargetState' = "ok"
  BY DEF TargetState
<1> HIDE DEF TargetState
<1> QED BY <1>1, TargetMoves DEF Run!Succeed, Run!InQueue, Run!Working, Run!phaseVars

LEMMA TargetSignal ==
  ASSUME ~ cancelled, cancelled' = TRUE, UNCHANGED <<result, tripped, marked>>
  PROVE  Run!FirstSignal
BY DEF TargetState, Run!FirstSignal, Run!phaseVars

LEMMA ChosenMeansMarked ==
  PodsChosen /\ pc \in {"trigger", "observe", "retrigger", "tick"} => marked # {}
BY DEF PodsChosen

\* The steps of restartPostgresqlCluster.
LEMMA TargetOfStep ==
  ASSUME IInv, PodsChosen, Step
  PROVE  [TargetStep]_(Run!vars)
<1> USE DEF markVars, endVars, TargetStep
<1>0. /\ tripped = failed /\ tripped \in BOOLEAN /\ failed \in BOOLEAN
      /\ pc # "returned" /\ result = "unset"
      /\ pc \in {"plan", "mark", "trigger"} => ~ tripped
  <2>1. pc # "returned"
    BY DEF Step, PlanFails, PodsHealthy, MarkAnswered, MarkIsStale, MarkMissesItself, MarkRejected, MarkUncertain,
       Marking, Refresh, AllMarked, TriggerAnswered, TriggerRejected, TriggerUncertain, ObserveFails, Done, NotDone,
       Stalled, Observing, Retrigger, Tick, GiveUp, ListFails, ListMarked, NextRound, CleanupEnds, Unmarked,
       UnmarkFails, Unmarking
  <2> QED BY <2>1 DEF IInv, FailedIsTripped, TypeOK
\* A failure, or another one, in whatever way the restart goes on.
<1>1. ASSUME Fail, UNCHANGED cancelled, result' # "nil"
      PROVE  [TargetStep]_(Run!vars)
  <2>1. CASE tripped
    <3>1. TargetState = "doomed" /\ TargetState' = "doomed" /\ tripped' = tripped
      BY <1>0, <1>1, <2>1 DEF Fail, TargetState
    <3> HIDE DEF TargetState
    <3> QED BY <1>1, <3>1 DEF Run!vars, Run!phaseVars
  <2>2. CASE ~ tripped
    BY <1>0, <1>1, <2>2, TargetDoomed DEF Fail
  <2> QED BY <1>0, <2>1, <2>2
<1>2. ASSUME UNCHANGED <<tripped, cancelled, marked>>, result' # "nil" PROVE [TargetStep]_(Run!vars)
  <2>1. TargetState' = TargetState
    BY <1>0, <1>2 DEF TargetState
  <2> HIDE DEF TargetState
  <2> QED BY <1>2, <2>1 DEF Run!vars, Run!phaseVars
<1>3. ASSUME UNCHANGED <<tripped, cancelled>>, ~ tripped, result' = "nil", marked # {}
      PROVE  [TargetStep]_(Run!vars)
  BY <1>0, <1>3, TargetSucceeds
<1>4. CASE PlanFails \/ PodsHealthy \/ Refresh \/ AllMarked
  BY <1>0, <1>1, <1>2, <1>4 DEF PlanFails, PodsHealthy, Refresh, AllMarked, Cleanup, Return
<1>5. ASSUME NEW p \in Pods, MarkAnswered(p) PROVE [TargetStep]_(Run!vars)
  <2>1. /\ pc = "mark" /\ ~ cancelled /\ marked' = marked \cup {p}
        /\ UNCHANGED <<result, tripped, cancelled>>
    BY <1>5 DEF MarkAnswered, Marking
  <2>2. CASE marked = {}
    BY <1>0, <2>1, <2>2, TargetPatched
  <2>3. CASE marked # {}
    BY <2>1, <2>3, TargetUnseen
  <2> QED BY <2>2, <2>3
<1>6. ASSUME NEW p \in Pods, MarkIsStale(p) \/ MarkMissesItself(p) \/ MarkRejected(p) \/ MarkUncertain(p)
      PROVE  [TargetStep]_(Run!vars)
  BY <1>0, <1>1, <1>2, <1>6
     DEF MarkIsStale, MarkMissesItself, MarkRejected, MarkUncertain, Marking, Cleanup, Return
<1>7. CASE TriggerAnswered \/ TriggerRejected \/ TriggerUncertain
  BY <1>0, <1>1, <1>2, <1>3, <1>7, ChosenMeansMarked
     DEF TriggerAnswered, TriggerRejected, TriggerUncertain, Cleanup, Return
<1>8. CASE ObserveFails \/ NotDone \/ Stalled \/ Retrigger \/ Tick \/ GiveUp
  BY <1>0, <1>1, <1>2, <1>8
     DEF ObserveFails, NotDone, Stalled, Observing, Retrigger, Tick, GiveUp, Cleanup, Return
<1>9. CASE Done
  BY <1>0, <1>2, <1>3, <1>9, ChosenMeansMarked DEF Done, Observing, Return
<1>10. CASE ListFails \/ ListMarked \/ NextRound \/ CleanupEnds
  BY <1>0, <1>2, <1>10 DEF ListFails, ListMarked, NextRound, CleanupEnds, Return
<1>11. ASSUME NEW p \in Pods, Unmarked(p) \/ UnmarkFails(p) PROVE [TargetStep]_(Run!vars)
  BY <1>0, <1>2, <1>11 DEF Unmarked, UnmarkFails, Unmarking
<1> QED BY <1>4, <1>5, <1>6, <1>7, <1>8, <1>9, <1>10, <1>11 DEF Step

\* Everybody else: the signal, and what the run does not see.
LEMMA TargetOfOthers ==
  ASSUME Others \/ UNCHANGED vars
  PROVE  [TargetStep]_(Run!vars)
<1> USE DEF markVars, endVars, TargetStep
<1>1. CASE Cancel
  BY <1>1, TargetSignal DEF Cancel
<1>2. CASE Expire \/ UNCHANGED vars
  BY <1>2, TargetUnseen DEF Expire, vars
<1>3. ASSUME NEW r \in inflight, LateApply(r) PROVE [TargetStep]_(Run!vars)
  BY <1>3, TargetUnseen DEF LateApply
<1>4. ASSUME NEW n \in Names, Replaced(n) \/ Readiness(n) \/ Heartbeat(n) \/ OthersMark(n)
      PROVE  [TargetStep]_(Run!vars)
  BY <1>4, TargetUnseen DEF Replaced, Readiness, Heartbeat, OthersMark, PodChanges
<1> QED BY <1>1, <1>2, <1>3, <1>4 DEF Others

\* restartPostgresqlCluster does with its cluster what Maintenance lets a job
\* do with its target: no first PATCH succeeds after the signal, a failure sets
\* the run-wide stop, and nil comes only after a PATCH and without a failure.
THEOREM RestartIsTarget == Spec => TargetLaunched /\ [][TargetStep]_(Run!vars)
<1>1. Init => TargetLaunched
  BY DEF Init, TargetLaunched, TargetState
<1>2. IInv /\ PodsChosen /\ [Next]_vars => [TargetStep]_(Run!vars)
  BY TargetOfStep, TargetOfOthers DEF Next
<1> QED BY <1>1, <1>2, InitChosen, ChosenNext, InitInv, NextInv, PTL DEF Spec
==============================================================================
