----------------------------- MODULE KafkaProofs -----------------------------
(***************************************************************************)
(* The restart of a Kafka cluster, for any number of PodSets, pods,        *)
(* replacements and scalings, with and without --skip-wait.                *)
(***************************************************************************)
EXTENDS KafkaRestart, FiniteSetTheorems, TLAPS

\* An instance there is, or there was once: it cannot come back.
Known(p) == p[3] <= pod[<<p[1], p[2]>>].uid
Dead(p) == Known(p) /\ ~ Exists(p)
AllDead(S) == \A p \in S : Dead(p)

Records ==
  /\ \A p \in old : Known(p)
  /\ \A s \in PodSets : \A p \in due[s] : Known(p)
  /\ \A s \in PodSets : ~ annotated[s] => AllDead(due[s])

\* What was not annotated for certain has set the stop, and only such a PATCH
\* may still be applied.
Requests ==
  /\ pc = "record" => mutated = {} /\ answered = {} /\ ~ failed
  /\ answered \subseteq mutated
  /\ inflight \subseteq mutated \ answered
  /\ pc = "patch" => mutated \cap todo = {}
  /\ pc = "patch" /\ answered \cup todo # PodSets => tripped
  /\ Waiting /\ answered # PodSets => tripped
  /\ tripped => failed

Polls ==
  /\ pc = "desired" /\ clean => \A p \in old : p[1] \in mutated => Dead(p)
  /\ pc = "annotations" =>
       /\ \A p \in old : p[1] \in mutated => Dead(p)
       /\ \A s \in answered \ todo : AllDead(due[s])

Ends ==
  /\ pc # "returned" => result = "unset"
  /\ result = "nil" => ~ failed /\ answered = PodSets
  /\ result = "nil" /\ ~ SkipWait => AllDead(old)
  /\ pc = "returned" /\ result # "timeout" /\ ~ SkipWait => \A s \in answered : AllDead(due[s])

IInv == TypeOK /\ Records /\ Requests /\ Polls /\ Ends

LEMMA NameFacts ==
  /\ \A p \in Pods : /\ <<p[1], p[2]>> \in Names /\ p[1] \in PodSets /\ p[3] \in 1 .. MaxUid
                     /\ p = <<p[1], p[2], p[3]>>
  /\ Existing \subseteq Pods
  /\ \A s : PodsOf(s) \subseteq Existing
BY DEF Pods, Names, Existing, PodsOf

LEMMA NamesFinite == IsFiniteSet(Names) /\ Cardinality(Names) \in Nat
<1>1. IsFiniteSet(PodSets) /\ IsFiniteSet(1 .. K)
  BY KafkaAssumption, FS_Interval
<1> QED BY <1>1, FS_Product, FS_CardinalityType DEF Names

\* There is one pod of a name at a time.
LEMMA Counts ==
  ASSUME NEW S \in SUBSET Existing
  PROVE  Cardinality(S) \in 0 .. Cardinality(Names)
<1> DEFINE name == [p \in S |-> <<p[1], p[2]>>]
<1>1. name \in [S -> Names]
  BY NameFacts
<1>2. \A p, q \in S : name[p] = name[q] => p = q
  BY NameFacts DEF Existing, Exists
<1>3. name \in Injection(S, Names)
  BY <1>1, <1>2 DEF Injection, IsInjective
<1>4. IsFiniteSet(S) /\ Cardinality(S) <= Cardinality(Names)
  BY <1>3, NamesFinite, FS_Injection
<1> QED BY <1>4, NamesFinite, FS_CardinalityType

LEMMA ExistingKnown == ASSUME TypeOK, NEW p \in Existing PROVE Known(p)
<1>1. <<p[1], p[2]>> \in Names /\ pod[<<p[1], p[2]>>].uid = p[3] /\ p[3] \in 1 .. MaxUid
  BY NameFacts DEF Existing, Exists
<1> QED BY <1>1 DEF Known

LEMMA DeadIsGone == ASSUME NEW S \in SUBSET Pods, AllDead(S) PROVE S \cap Existing = {}
BY DEF AllDead, Dead, Existing

LEMMA GoneIsDead ==
  ASSUME NEW S \in SUBSET Pods, \A p \in S : Known(p), S \cap Existing = {}
  PROVE  AllDead(S)
BY DEF AllDead, Dead, Existing

LEMMA InitIInv == Init => IInv
<1> SUFFICES ASSUME Init PROVE IInv
  OBVIOUS
<1>1. TypeOK
  <2>1. pod \in [Names -> [uid : 1 .. MaxUid, phase : {"gone", "starting", "ready"}]]
    BY KafkaAssumption DEF Init
  <2>2. desired \in [PodSets -> 0 .. K]
    BY KafkaAssumption DEF Init
  <2>3. due \in [PodSets -> SUBSET Pods]
    BY NameFacts DEF Init
  <2>4. 0 \in 0 .. Cardinality(Names) /\ 0 \in 0 .. MaxScales
    BY NamesFinite, KafkaAssumption
  <2> QED BY <2>1, <2>2, <2>3, <2>4 DEF Init, TypeOK
<1>2. Records
  BY <1>1, ExistingKnown DEF Init, Records, AllDead
<1>3. Requests /\ Polls /\ Ends
  BY DEF Init, Requests, Polls, Ends, Waiting
<1> QED BY <1>1, <1>2, <1>3 DEF IInv

\* A PATCH that is applied: what becomes due was there, and the PodSet is
\* annotated.
LEMMA AnnotateEffect ==
  ASSUME TypeOK, Records, NEW s \in PodSets, Annotate(s)
  PROVE  /\ annotated' \in [PodSets -> BOOLEAN] /\ due' \in [PodSets -> SUBSET Pods]
         /\ pod' = pod /\ desired' = desired /\ scales' = scales /\ moved' = TRUE
         /\ \A r \in PodSets \ {s} : due'[r] = due[r]
         /\ \A r \in PodSets : \A p \in due'[r] : Known(p)
         /\ \A r \in PodSets : ~ annotated'[r] => AllDead(due'[r])
<1> USE DEF Annotate
<1>1. PodsOf(s) \in SUBSET Pods /\ \A p \in PodsOf(s) : Known(p)
  BY NameFacts, ExistingKnown
<1>2. annotated' \in [PodSets -> BOOLEAN] /\ annotated'[s] /\ \A r \in PodSets \ {s} : annotated'[r] = annotated[r]
  BY DEF TypeOK
<1>3. due' \in [PodSets -> SUBSET Pods] /\ due'[s] \in {due[s], PodsOf(s)} /\ \A r \in PodSets \ {s} : due'[r] = due[r]
  BY <1>1 DEF TypeOK
<1>4. \A r \in PodSets : \A p \in due'[r] : Known(p)
  BY <1>1, <1>3 DEF Records
<1>5. \A r \in PodSets : ~ annotated'[r] => AllDead(due'[r])
  BY <1>2, <1>3 DEF Records
<1> QED BY <1>2, <1>3, <1>4, <1>5

LEMMA RecordFailsStep == ASSUME IInv, RecordFails PROVE IInv'
<1> USE KafkaAssumption DEF IInv, RecordFails, Return, clusterVars, kubeVars, patchVars, pollVars, endVars, toolVars
<1>1. TypeOK'
  BY DEF TypeOK
<1>2. Records'
  BY DEF Records, AllDead, Dead, Known, Exists
<1>3. Requests'
  BY DEF Requests, Waiting
<1>4. Polls'
  BY DEF Polls, Requests, AllDead, Dead, Known, Exists
<1>5. Ends'
  BY DEF Ends, Requests, AllDead, Dead, Known, Exists
<1> QED BY <1>1, <1>2, <1>3, <1>4, <1>5

LEMMA RecordPodsStep == ASSUME IInv, RecordPods PROVE IInv'
<1> USE KafkaAssumption DEF IInv, RecordPods, clusterVars, kubeVars, patchVars, pollVars, endVars, toolVars
<1>1. TypeOK'
  BY NameFacts DEF TypeOK
<1>2. Records'
  <2>1. \A p \in old' : Known(p)
    BY ExistingKnown DEF Records
  <2> QED BY <2>1 DEF Records, AllDead, Dead, Known, Exists
<1>3. Requests'
  BY DEF Requests, Waiting
<1>4. Polls'
  BY DEF Polls, Requests, AllDead, Dead, Known, Exists
<1>5. Ends'
  BY DEF Ends, Requests, AllDead, Dead, Known, Exists
<1> QED BY <1>1, <1>2, <1>3, <1>4, <1>5

LEMMA PatchAnsweredStep == ASSUME IInv, NEW s \in PodSets, PatchAnswered(s) PROVE IInv'
<1> USE KafkaAssumption DEF IInv, PatchAnswered, Patching, Annotate, clusterVars, kubeVars, patchVars, pollVars, endVars, toolVars
<1>1. TypeOK'
  <2>1. Annotate(s) => annotated' \in [PodSets -> BOOLEAN] /\ due' \in [PodSets -> SUBSET Pods]
    BY AnnotateEffect
  <2> QED BY <2>1 DEF TypeOK
<1>2. Records'
  <2>1. CASE Annotate(s)
    <3> HIDE DEF Annotate
    <3>1. old' = old /\ pod' = pod
      BY <2>1, AnnotateEffect
    <3>2. \A p : Known(p)' = Known(p) /\ Dead(p)' = Dead(p)
      BY <3>1 DEF Known, Dead, Exists
    <3> QED BY <2>1, <3>1, <3>2, AnnotateEffect DEF Records, AllDead
  <2> QED BY <2>1
<1>3. Requests'
  BY DEF Requests, Waiting
<1>4. Polls'
  BY DEF Polls, Requests, AllDead, Dead, Known, Exists
<1>5. Ends'
  BY DEF Ends, Requests, AllDead, Dead, Known, Exists
<1> QED BY <1>1, <1>2, <1>3, <1>4, <1>5

LEMMA PatchRejectedStep == ASSUME IInv, NEW s \in PodSets, PatchRejected(s) PROVE IInv'
<1> USE KafkaAssumption DEF IInv, PatchRejected, Patching, NotSent, Fail, clusterVars, kubeVars, patchVars, pollVars, endVars, toolVars
<1>1. TypeOK'
  BY DEF TypeOK
<1>2. Records'
  BY DEF Records, AllDead, Dead, Known, Exists
<1>3. Requests'
  BY DEF Requests, Waiting
<1>4. Polls'
  BY DEF Polls, Requests, AllDead, Dead, Known, Exists
<1>5. Ends'
  BY DEF Ends, Requests, AllDead, Dead, Known, Exists
<1> QED BY <1>1, <1>2, <1>3, <1>4, <1>5

LEMMA PatchUncertainStep == ASSUME IInv, NEW s \in PodSets, PatchUncertain(s) PROVE IInv'
<1> USE KafkaAssumption DEF IInv, PatchUncertain, Patching, Annotate, NotSent, Fail, clusterVars, kubeVars, patchVars, pollVars, endVars, toolVars
<1>1. TypeOK'
  <2>1. annotated' \in [PodSets -> BOOLEAN] /\ due' \in [PodSets -> SUBSET Pods]
    BY AnnotateEffect DEF TypeOK
  <2> QED BY <2>1 DEF TypeOK
<1>2. Records'
  <2>1. CASE Annotate(s)
    <3> HIDE DEF Annotate
    <3>1. old' = old /\ pod' = pod
      BY <2>1, AnnotateEffect
    <3>2. \A p : Known(p)' = Known(p) /\ Dead(p)' = Dead(p)
      BY <3>1 DEF Known, Dead, Exists
    <3> QED BY <2>1, <3>1, <3>2, AnnotateEffect DEF Records, AllDead
  <2>2. CASE NotSent
    BY <2>2 DEF Records, AllDead, Dead, Known, Exists
  <2> QED BY <2>1, <2>2
<1>3. Requests'
  BY DEF Requests, Waiting
<1>4. Polls'
  BY DEF Polls, Requests, AllDead, Dead, Known, Exists
<1>5. Ends'
  BY DEF Ends, Requests, AllDead, Dead, Known, Exists
<1> QED BY <1>1, <1>2, <1>3, <1>4, <1>5

LEMMA AllPatchedStep == ASSUME IInv, AllPatched PROVE IInv'
<1> USE KafkaAssumption DEF IInv, AllPatched, Return, Verdict, clusterVars, kubeVars, patchVars, pollVars, endVars, toolVars
<1>1. TypeOK'
  BY DEF TypeOK
<1>2. Records'
  BY DEF Records, AllDead, Dead, Known, Exists
<1>3. Requests'
  BY DEF Requests, Waiting
<1>4. Polls'
  BY DEF Polls, Requests, AllDead, Dead, Known, Exists
<1>5. Ends'
  BY DEF Ends, Requests, AllDead, Dead, Known, Exists
<1> QED BY <1>1, <1>2, <1>3, <1>4, <1>5

LEMMA ListPodsStep == ASSUME IInv, ListPods PROVE IInv'
<1> USE KafkaAssumption DEF IInv, ListPods, Evaluate, clusterVars, kubeVars, patchVars, pollVars, endVars, toolVars
<1>1. TypeOK'
  <2>1. 0 \in 0 .. Cardinality(Names)
    BY NamesFinite
  <2>2. Cardinality(ListedPods) \in 0 .. Cardinality(Names)
    BY Counts DEF ListedPods
  <2> QED BY <2>1, <2>2 DEF TypeOK
<1>2. Records'
  BY DEF Records, AllDead, Dead, Known, Exists
<1>3. Requests'
  BY DEF Requests, Waiting
<1>4. Polls'
  <2>1. ASSUME clean', NEW p \in old, p[1] \in mutated PROVE Dead(p)
    <3>1. \A q \in ListedPods : q \notin old
      BY <2>1
    <3>2. p \notin Existing
      BY <2>1, <3>1 DEF ListedPods
    <3>3. p \in Pods /\ Known(p)
      BY <2>1 DEF TypeOK, Records
    <3> QED BY <3>2, <3>3 DEF Dead, Existing
  <2> QED BY <2>1 DEF Polls, Dead, Known, Exists
<1>5. Ends'
  BY DEF Ends, Requests, AllDead, Dead, Known, Exists
<1> QED BY <1>1, <1>2, <1>3, <1>4, <1>5

LEMMA ReadDesiredStep == ASSUME IInv, NEW s \in PodSets, ReadDesired(s) PROVE IInv'
<1> USE KafkaAssumption DEF IInv, ReadDesired, clusterVars, kubeVars, patchVars, pollVars, endVars, toolVars
<1>1. TypeOK'
  BY DEF TypeOK
<1>2. Records'
  BY DEF Records, AllDead, Dead, Known, Exists
<1>3. Requests'
  BY DEF Requests, Waiting
<1>4. Polls'
  BY DEF Polls, Requests, AllDead, Dead, Known, Exists
<1>5. Ends'
  BY DEF Ends, Requests, AllDead, Dead, Known, Exists
<1> QED BY <1>1, <1>2, <1>3, <1>4, <1>5

LEMMA CompareStep == ASSUME IInv, Compare PROVE IInv'
<1> USE KafkaAssumption DEF IInv, Compare, NextPoll, Replaced, clusterVars, kubeVars, patchVars, pollVars, endVars, toolVars
<1>1. TypeOK'
  <2>1. 0 \in 0 .. Cardinality(Names)
    BY NamesFinite
  <2> QED BY <2>1 DEF TypeOK
<1>2. Records'
  BY DEF Records, AllDead, Dead, Known, Exists
<1>3. Requests'
  BY DEF Requests, Waiting
<1>4. Polls'
  BY DEF Polls, Requests, AllDead, Dead, Known, Exists
<1>5. Ends'
  BY DEF Ends, Requests, AllDead, Dead, Known, Exists
<1> QED BY <1>1, <1>2, <1>3, <1>4, <1>5

LEMMA ReadAnnotationStep == ASSUME IInv, NEW s \in PodSets, ReadAnnotation(s) PROVE IInv'
<1> USE KafkaAssumption DEF IInv, ReadAnnotation, NextPoll, clusterVars, kubeVars, patchVars, pollVars, endVars, toolVars
<1>1. TypeOK'
  BY DEF TypeOK
<1>2. Records'
  BY DEF Records, AllDead, Dead, Known, Exists
<1>3. Requests'
  BY DEF Requests, Waiting
<1>4. Polls'
  <2>1. ~ annotated[s] => AllDead(due[s])
    BY DEF Records
  <2> QED BY <2>1 DEF Polls, Requests, AllDead, Dead, Known, Exists
<1>5. Ends'
  BY DEF Ends, Requests, AllDead, Dead, Known, Exists
<1> QED BY <1>1, <1>2, <1>3, <1>4, <1>5

LEMMA NotReadyStep == ASSUME IInv, NotReady PROVE IInv'
<1> USE KafkaAssumption DEF IInv, NotReady, NextPoll, clusterVars, kubeVars, patchVars, pollVars, endVars, toolVars
<1>1. TypeOK'
  BY DEF TypeOK
<1>2. Records'
  BY DEF Records, AllDead, Dead, Known, Exists
<1>3. Requests'
  BY DEF Requests, Waiting
<1>4. Polls'
  BY DEF Polls, Requests, AllDead, Dead, Known, Exists
<1>5. Ends'
  BY DEF Ends, Requests, AllDead, Dead, Known, Exists
<1> QED BY <1>1, <1>2, <1>3, <1>4, <1>5

LEMMA DoneStep == ASSUME IInv, Done PROVE IInv'
<1> USE KafkaAssumption DEF IInv, Done, Return, Verdict, clusterVars, kubeVars, patchVars, pollVars, endVars, toolVars
<1>1. TypeOK'
  BY DEF TypeOK
<1>2. Records'
  BY DEF Records, AllDead, Dead, Known, Exists
<1>3. Requests'
  BY DEF Requests, Waiting
<1>4. Polls'
  BY DEF Polls, Requests, AllDead, Dead, Known, Exists
<1>5. Ends'
  <2>1. ~ failed => answered = PodSets /\ mutated = PodSets
    BY DEF Requests, Waiting, TypeOK
  <2>2. ~ failed => AllDead(old)
    BY <2>1, NameFacts DEF Polls, AllDead, TypeOK
  <2>3. \A r \in answered : AllDead(due[r])
    BY DEF Polls
  <2> QED BY <2>1, <2>2, <2>3 DEF Ends, AllDead, Dead, Known, Exists
<1> QED BY <1>1, <1>2, <1>3, <1>4, <1>5

LEMMA PollFailsStep == ASSUME IInv, PollFails PROVE IInv'
<1> USE KafkaAssumption DEF IInv, PollFails, NextPoll, Fail, clusterVars, kubeVars, patchVars, pollVars, endVars, toolVars
<1>1. TypeOK'
  <2>1. 0 \in 0 .. Cardinality(Names)
    BY NamesFinite
  <2> QED BY <2>1 DEF TypeOK
<1>2. Records'
  BY DEF Records, AllDead, Dead, Known, Exists
<1>3. Requests'
  BY DEF Requests, Waiting
<1>4. Polls'
  BY DEF Polls, Requests, AllDead, Dead, Known, Exists
<1>5. Ends'
  BY DEF Ends, Requests, AllDead, Dead, Known, Exists
<1> QED BY <1>1, <1>2, <1>3, <1>4, <1>5

LEMMA TickStep == ASSUME IInv, Tick PROVE IInv'
<1> USE KafkaAssumption DEF IInv, Tick, clusterVars, kubeVars, patchVars, pollVars, endVars, toolVars
<1>1. TypeOK'
  BY DEF TypeOK
<1>2. Records'
  BY DEF Records, AllDead, Dead, Known, Exists
<1>3. Requests'
  BY DEF Requests, Waiting
<1>4. Polls'
  BY DEF Polls, Requests, AllDead, Dead, Known, Exists
<1>5. Ends'
  BY DEF Ends, Requests, AllDead, Dead, Known, Exists
<1> QED BY <1>1, <1>2, <1>3, <1>4, <1>5

LEMMA GiveUpStep == ASSUME IInv, GiveUp PROVE IInv'
<1> USE KafkaAssumption DEF IInv, GiveUp, Return, clusterVars, kubeVars, patchVars, pollVars, endVars, toolVars
<1>1. TypeOK'
  BY DEF TypeOK
<1>2. Records'
  BY DEF Records, AllDead, Dead, Known, Exists
<1>3. Requests'
  BY DEF Requests, Waiting
<1>4. Polls'
  BY DEF Polls, Requests, AllDead, Dead, Known, Exists
<1>5. Ends'
  BY DEF Ends, Requests, AllDead, Dead, Known, Exists
<1> QED BY <1>1, <1>2, <1>3, <1>4, <1>5

LEMMA ContextEndsStep == ASSUME IInv, ContextEnds PROVE IInv'
<1> USE KafkaAssumption DEF IInv, ContextEnds, clusterVars, kubeVars, patchVars, pollVars, endVars, toolVars
<1>1. TypeOK'
  BY DEF TypeOK
<1>2. Records'
  BY DEF Records, AllDead, Dead, Known, Exists
<1>3. Requests'
  BY DEF Requests, Waiting
<1>4. Polls'
  BY DEF Polls, Requests, AllDead, Dead, Known, Exists
<1>5. Ends'
  BY DEF Ends, Requests, AllDead, Dead, Known, Exists
<1> QED BY <1>1, <1>2, <1>3, <1>4, <1>5

LEMMA LateApplyStep == ASSUME IInv, NEW s \in PodSets, LateApply(s) PROVE IInv'
<1> USE KafkaAssumption DEF IInv, LateApply, Annotate, clusterVars, kubeVars, patchVars, pollVars, endVars, toolVars
<1>1. TypeOK'
  <2>1. Annotate(s) => annotated' \in [PodSets -> BOOLEAN] /\ due' \in [PodSets -> SUBSET Pods]
    BY AnnotateEffect
  <2> QED BY <2>1 DEF TypeOK
<1>2. Records'
  <2>1. CASE Annotate(s)
    <3> HIDE DEF Annotate
    <3>1. old' = old /\ pod' = pod
      BY <2>1, AnnotateEffect
    <3>2. \A p : Known(p)' = Known(p) /\ Dead(p)' = Dead(p)
      BY <3>1 DEF Known, Dead, Exists
    <3> QED BY <2>1, <3>1, <3>2, AnnotateEffect DEF Records, AllDead
  <2> QED BY <2>1
<1>3. Requests'
  BY DEF Requests, Waiting
<1>4. Polls'
  BY DEF Polls, Requests, AllDead, Dead, Known, Exists
<1>5. Ends'
  BY DEF Ends, Requests, AllDead, Dead, Known, Exists
<1> QED BY <1>1, <1>2, <1>3, <1>4, <1>5

LEMMA ScaledStep == ASSUME IInv, NEW s \in PodSets, Scaled(s) PROVE IInv'
<1> USE KafkaAssumption DEF IInv, Scaled, clusterVars, kubeVars, patchVars, pollVars, endVars, toolVars
<1>1. TypeOK'
  BY DEF TypeOK
<1>2. Records'
  BY DEF Records, AllDead, Dead, Known, Exists
<1>3. Requests'
  BY DEF Requests, Waiting
<1>4. Polls'
  BY DEF Polls, Requests, AllDead, Dead, Known, Exists
<1>5. Ends'
  BY DEF Ends, Requests, AllDead, Dead, Known, Exists
<1> QED BY <1>1, <1>2, <1>3, <1>4, <1>5

LEMMA RolledStep == ASSUME IInv, NEW s \in PodSets, Rolled(s) PROVE IInv'
<1> USE KafkaAssumption DEF IInv, Rolled, clusterVars, kubeVars, patchVars, pollVars, endVars, toolVars
<1>1. TypeOK'
  BY DEF TypeOK
<1>2. Records'
  <2>1. AllDead(due[s])
    <3>1. due[s] \in SUBSET Pods
      BY DEF TypeOK
    <3> QED BY <3>1, GoneIsDead DEF Records
  <2>2. \A r \in PodSets : ~ annotated'[r] => AllDead(due[r])
    BY <2>1 DEF Records, TypeOK
  <2> QED BY <2>2 DEF Records, AllDead, Dead, Known, Exists
<1>3. Requests'
  BY DEF Requests, Waiting
<1>4. Polls'
  BY DEF Polls, Requests, AllDead, Dead, Known, Exists
<1>5. Ends'
  BY DEF Ends, Requests, AllDead, Dead, Known, Exists
<1> QED BY <1>1, <1>2, <1>3, <1>4, <1>5

\* A pod that goes, comes or changes: what is dead stays dead.
LEMMA PodMoves ==
  ASSUME TypeOK, NEW n \in Names, Removed(n) \/ Created(n) \/ Readiness(n)
  PROVE  /\ pod' \in [Names -> [uid : 1 .. MaxUid, phase : {"gone", "starting", "ready"}]]
         /\ \A p \in Pods : (Known(p) => Known(p)') /\ (Dead(p) => Dead(p)')
<1> DEFINE Pod == [uid : 1 .. MaxUid, phase : {"gone", "starting", "ready"}]
<1>1. pod[n] \in Pod /\ pod[n].uid \in 1 .. MaxUid
  BY DEF TypeOK
<1>2. PICK new \in Pod : /\ pod' = [pod EXCEPT ![n] = new]
                         /\ \/ new.uid = pod[n].uid /\ (pod[n].phase = "gone" => new.phase = "gone")
                            \/ new.uid = pod[n].uid + 1
  <2>1. CASE Removed(n)
    <3>1. [pod[n] EXCEPT !.phase = "gone"] \in Pod /\ [pod[n] EXCEPT !.phase = "gone"].uid = pod[n].uid
      BY <1>1
    <3> QED BY <2>1, <3>1 DEF Removed, PodChanges
  <2>2. CASE Created(n)
    <3>1. [uid |-> pod[n].uid + 1, phase |-> "starting"] \in Pod
      BY <1>1, <2>2, KafkaAssumption DEF Created
    <3> QED BY <2>2, <3>1 DEF Created, PodChanges
  <2>3. CASE Readiness(n)
    <3>1. \A ph \in {"starting", "ready"} :
            [pod[n] EXCEPT !.phase = ph] \in Pod /\ [pod[n] EXCEPT !.phase = ph].uid = pod[n].uid
      BY <1>1
    <3>2. PICK ph \in {"starting", "ready"} : pod' = [pod EXCEPT ![n] = [pod[n] EXCEPT !.phase = ph]]
      BY <2>3 DEF Readiness, PodChanges
    <3> QED BY <2>3, <3>1, <3>2 DEF Readiness
  <2> QED BY <2>1, <2>2, <2>3
<1>3. pod' \in [Names -> Pod]
  BY <1>2 DEF TypeOK
<1>4. \A p \in Pods : (Known(p) => Known(p)') /\ (Dead(p) => Dead(p)')
  <2> SUFFICES ASSUME NEW p \in Pods PROVE (Known(p) => Known(p)') /\ (Dead(p) => Dead(p)')
    OBVIOUS
  <2>1. <<p[1], p[2]>> \in Names /\ p[3] \in 1 .. MaxUid
    BY NameFacts
  <2>2. CASE <<p[1], p[2]>> = n
    BY <1>1, <1>2, <2>1, <2>2, KafkaAssumption DEF TypeOK, Known, Dead, Exists
  <2>3. CASE <<p[1], p[2]>> # n
    BY <1>2, <2>1, <2>3 DEF TypeOK, Known, Dead, Exists
  <2> QED BY <2>2, <2>3
<1> QED BY <1>3, <1>4

LEMMA PodStep ==
  ASSUME IInv, NEW n \in Names, Removed(n) \/ Created(n) \/ Readiness(n)
  PROVE  IInv'
<1>1. UNCHANGED <<desired, annotated, due, inflight, scales, toolVars, over>> /\ moved' = TRUE
  BY DEF Removed, Created, Readiness, PodChanges
<1>2. \A p \in Pods : (Known(p) => Known(p)') /\ (Dead(p) => Dead(p)')
  BY PodMoves DEF IInv
<1>3. old \in SUBSET Pods /\ \A s \in PodSets : due[s] \in SUBSET Pods
  BY DEF IInv, TypeOK
<1> USE DEF IInv, toolVars, patchVars, pollVars, endVars
<1>4. TypeOK'
  BY <1>1, PodMoves DEF TypeOK
<1>5. Records'
  BY <1>1, <1>2, <1>3 DEF Records, AllDead
<1>6. Requests'
  BY <1>1 DEF Requests, Waiting
<1>7. Polls'
  BY <1>1, <1>2, <1>3 DEF Polls, AllDead, TypeOK
<1>8. Ends'
  BY <1>1, <1>2, <1>3 DEF Ends, AllDead, TypeOK
<1> QED BY <1>4, <1>5, <1>6, <1>7, <1>8

LEMMA StutterStep == ASSUME IInv, UNCHANGED vars PROVE IInv'
BY DEF vars, clusterVars, kubeVars, patchVars, pollVars, endVars, IInv, TypeOK, Records, Requests, Polls,
   Ends, Waiting, AllDead, Dead, Known, Exists

LEMMA NextStep == ASSUME IInv, [Next]_vars PROVE IInv'
<1>1. ASSUME NEW s \in PodSets,
             PatchAnswered(s) \/ PatchRejected(s) \/ PatchUncertain(s) \/ ReadDesired(s) \/ ReadAnnotation(s)
      PROVE  IInv'
  BY <1>1, PatchAnsweredStep, PatchRejectedStep, PatchUncertainStep, ReadDesiredStep, ReadAnnotationStep
<1>2. CASE RecordFails \/ RecordPods \/ AllPatched \/ ListPods \/ Compare \/ NotReady \/ Done \/ PollFails
           \/ Tick \/ GiveUp
  BY <1>2, RecordFailsStep, RecordPodsStep, AllPatchedStep, ListPodsStep, CompareStep, NotReadyStep, DoneStep,
     PollFailsStep, TickStep, GiveUpStep
<1>3. ASSUME NEW s \in PodSets, LateApply(s) \/ Scaled(s) \/ Rolled(s) PROVE IInv'
  BY <1>3, LateApplyStep, ScaledStep, RolledStep
<1>4. ASSUME NEW n \in Names, Removed(n) \/ Created(n) \/ Readiness(n) PROVE IInv'
  BY <1>4, PodStep
<1>5. CASE ContextEnds
  BY <1>5, ContextEndsStep
<1>6. CASE UNCHANGED vars
  BY <1>6, StutterStep
<1> QED BY <1>1, <1>2, <1>3, <1>4, <1>5, <1>6 DEF Next, Step, Others

\* The inductive invariant of the restart of a Kafka cluster.
THEOREM KafkaIInv == Spec => []IInv
<1>1. Init => IInv
  BY InitIInv
<1>2. IInv /\ [Next]_vars => IInv'
  BY NextStep
<1> QED BY <1>1, <1>2, PTL DEF Spec

\* Every variable of the restart keeps its type.
THEOREM KafkaTypeOK == Spec => []TypeOK
<1>1. IInv => TypeOK
  BY DEF IInv
<1> QED BY <1>1, KafkaIInv, PTL

\* A success that was waited for has left none of the pods there were before
\* the restart, nor of those there were at the annotation.
THEOREM KafkaSuccessMeansRolled == Spec => []SuccessMeansRolled
<1>1. ASSUME IInv PROVE SuccessMeansRolled
  <2> SUFFICES ASSUME result = "nil", ~ SkipWait
               PROVE  old \cap Existing = {} /\ \A s \in PodSets : due[s] \cap Existing = {}
    BY DEF SuccessMeansRolled
  <2>1. AllDead(old) /\ \A s \in PodSets : AllDead(due[s])
    BY <1>1 DEF IInv, Ends
  <2>2. old \in SUBSET Pods /\ \A s \in PodSets : due[s] \in SUBSET Pods
    BY <1>1 DEF IInv, TypeOK
  <2> QED BY <2>1, <2>2, DeadIsGone
<1> QED BY <1>1, KafkaIInv, PTL

\* Whatever failed, a PodSet annotated for certain was rolled before the
\* cluster's slot was given back, unless the wait was cut short.
THEOREM KafkaRollsAreWaitedFor == Spec => []RollsAreWaitedFor
<1>1. ASSUME IInv PROVE RollsAreWaitedFor
  <2> SUFFICES ASSUME pc = "returned", result # "timeout", ~ SkipWait, NEW s \in answered
               PROVE  due[s] \cap Existing = {}
    BY DEF RollsAreWaitedFor
  <2>1. AllDead(due[s])
    BY <1>1 DEF IInv, Ends
  <2>2. due[s] \in SUBSET Pods
    BY <1>1 DEF IInv, TypeOK
  <2> QED BY <2>1, <2>2, DeadIsGone
<1> QED BY <1>1, KafkaIInv, PTL

\* New launches are stopped before the wait begins, and a cluster that set the
\* stop does not succeed.
THEOREM KafkaStopBeforeWaiting == Spec => []StopBeforeWaiting
<1>1. IInv => StopBeforeWaiting
  BY DEF IInv, Requests, Ends, StopBeforeWaiting
<1> QED BY <1>1, KafkaIInv, PTL

------------------------------------------------------------------------------
(* PollErrorsStop: what has set the stop.                                  *)

\* A PATCH that failed is missing among the answered ones for ever; a stop
\* with nothing missing, now or still to come, is a poll's.
Causes ==
  /\ pollErr => tripped
  /\ pc = "patch" /\ tripped => answered \cup todo # PodSets
  /\ pc # "patch" /\ tripped /\ answered = PodSets => pollErr

LEMMA InitCauses == Init => Causes
BY DEF Init, Causes

LEMMA NextCauses == ASSUME IInv, Causes, [Next]_vars PROVE Causes'
<1> USE DEF vars, clusterVars, kubeVars, patchVars, pollVars, endVars, toolVars
<1>1. ASSUME UNCHANGED <<pc, todo, answered, pollErr, tripped>> PROVE Causes'
  BY <1>1 DEF Causes
<1>2. ASSUME UNCHANGED <<answered, pollErr, tripped>>, pc # "patch", pc' # "patch" PROVE Causes'
  BY <1>2 DEF Causes
<1>3. ASSUME NEW s \in PodSets, PatchAnswered(s) PROVE Causes'
  BY <1>3 DEF PatchAnswered, Patching, Causes
<1>4. ASSUME NEW s \in PodSets, PatchRejected(s) \/ PatchUncertain(s) PROVE Causes'
  <2>1. /\ pc = "patch" /\ pc' = "patch" /\ tripped' = TRUE
        /\ s \in todo /\ todo' = todo \ {s} /\ UNCHANGED <<answered, pollErr>>
    BY <1>4 DEF PatchRejected, PatchUncertain, Patching, Fail
  <2>2. s \notin answered
    BY <2>1 DEF IInv, Requests
  <2> QED BY <2>1, <2>2 DEF Causes
<1>5. CASE RecordPods
  <2>1. ~ tripped
    BY <1>5 DEF RecordPods, IInv, Requests
  <2> QED BY <1>5, <2>1 DEF RecordPods, Causes
<1>6. CASE AllPatched
  <2>1. /\ pc = "patch" /\ todo = {} /\ pc' \in {"returned", "list"}
        /\ UNCHANGED <<answered, pollErr, tripped>>
    BY <1>6 DEF AllPatched, Return
  <2> QED BY <2>1 DEF Causes
<1>7. CASE PollFails
  BY <1>7 DEF PollFails, NextPoll, Fail, Causes
<1>8. CASE RecordFails \/ ListPods \/ Compare \/ NotReady \/ Done \/ Tick \/ GiveUp
  BY <1>2, <1>8 DEF RecordFails, ListPods, Compare, NotReady, Done, Tick, GiveUp, NextPoll, Return
<1>9. ASSUME NEW s \in PodSets, ReadDesired(s) \/ ReadAnnotation(s) PROVE Causes'
  BY <1>2, <1>9 DEF ReadDesired, ReadAnnotation, NextPoll
<1>10. CASE Others \/ UNCHANGED vars
  BY <1>1, <1>10 DEF Others, ContextEnds, LateApply, Scaled, Rolled, Removed, Created, Readiness, PodChanges
<1> QED BY <1>3, <1>4, <1>5, <1>6, <1>7, <1>8, <1>9, <1>10 DEF Next, Step

\* An API error of a poll stops new launches at once and is never taken back;
\* that the context is over does neither.
THEOREM KafkaPollErrorsStop == Spec => []PollErrorsStop
<1>1. IInv /\ Causes /\ [Next]_vars => Causes'
  BY NextCauses
<1>2. ASSUME IInv, Causes PROVE PollErrorsStop
  <2>1. pollErr => tripped /\ result \in {"unset", "error", "timeout"}
    BY <1>2 DEF Causes, IInv, TypeOK, Requests, Ends
  <2>2. tripped /\ answered = PodSets => pollErr
    BY <1>2 DEF Causes, IInv, TypeOK
  <2> QED BY <2>1, <2>2 DEF PollErrorsStop
<1> QED BY <1>1, <1>2, InitCauses, KafkaIInv, PTL DEF Spec

------------------------------------------------------------------------------
(* NilMeansHealthy: what a poll has found out so far, as long as nothing   *)
(* has changed since it listed the pods.                                   *)

WantedOf(S) == {n \in Wanted : n[1] \in S}
AllNew == \A p \in ListedPods : p \notin old /\ Ready(p)

Polled ==
  /\ ~ moved => pc \in {"desired", "annotations"}
  /\ pc \in {"desired", "annotations"} => todo \subseteq mutated
  /\ pc = "desired" /\ ~ moved =>
       /\ count = Cardinality(WantedOf(mutated \ todo))
       /\ clean => AllNew /\ listed = Cardinality(ListedPods)
  /\ pc = "annotations" /\ ~ moved =>
       /\ AllNew /\ Cardinality(ListedPods) = Cardinality(WantedOf(mutated))
       /\ \A s \in mutated \ todo : ~ annotated[s]

\* A PodSet more is so many pods more: the sum of the sizes is the number of
\* pods that are wanted.
LEMMA OneMoreSet ==
  ASSUME TypeOK, NEW S, NEW s \in PodSets, s \notin S
  PROVE  Cardinality(WantedOf(S \cup {s})) = Cardinality(WantedOf(S)) + desired[s]
<1> DEFINE d == desired[s]
           new == WantedOf({s})
           name == [i \in 1 .. d |-> <<s, i>>]
<1>1. d \in 0 .. K /\ K \in Nat
  BY KafkaAssumption DEF TypeOK
<1>2. new = {n \in Names : n[1] = s /\ n[2] <= d}
  BY DEF WantedOf, Wanted
<1>3. \A i \in 1 .. d : <<s, i>> \in new
  BY <1>1, <1>2 DEF Names
<1>4. \A n \in new : n[2] \in 1 .. d /\ n = <<s, n[2]>>
  BY <1>1, <1>2 DEF Names
<1> HIDE DEF d, new
<1>5. IsFiniteSet(1 .. d) /\ Cardinality(1 .. d) = d
  BY <1>1, FS_Interval
<1>6. name \in [1 .. d -> new] /\ (\A n \in new : \E i \in 1 .. d : name[i] = n)
  BY <1>3, <1>4
<1>7. \A i, j \in 1 .. d : name[i] = name[j] => i = j
  OBVIOUS
<1>8. name \in Surjection(1 .. d, new) /\ name \in Injection(1 .. d, new)
  BY <1>6, <1>7 DEF Surjection, Injection, IsInjective
<1>9. Cardinality(new) = d
  BY <1>5, <1>8, FS_Surjection
<1>10. IsFiniteSet(new) /\ IsFiniteSet(WantedOf(S))
  BY NamesFinite, FS_Subset DEF new, WantedOf, Wanted
<1>11. new \cap WantedOf(S) = {} /\ WantedOf(S \cup {s}) = WantedOf(S) \cup new
  BY DEF new, WantedOf
<1>12. Cardinality(WantedOf(S \cup {s})) = Cardinality(WantedOf(S)) + Cardinality(new) - Cardinality({})
  BY <1>10, <1>11, FS_Union
<1>13. Cardinality(WantedOf(S)) \in Nat
  BY <1>10, FS_CardinalityType
<1> QED BY <1>1, <1>9, <1>12, <1>13, FS_EmptySet DEF d

\* What the poll has read stays true as long as nobody but the poll moves.
LEMMA SamePods ==
  ASSUME UNCHANGED <<pod, desired, mutated, old>>
  PROVE  /\ ListedPods' = ListedPods /\ AllNew' = AllNew
         /\ \A S : WantedOf(S)' = WantedOf(S)
BY DEF ListedPods, Existing, Exists, AllNew, Ready, WantedOf, Wanted

LEMMA InitPolled == Init => Polled
BY DEF Init, Polled

\* Every step but those of the poll leaves moved TRUE.
LEMMA OutsidePolled ==
  ASSUME IInv, Polled, [Next]_vars,
         ~ ListPods, ~ Compare, \A s \in PodSets : ~ ReadDesired(s) /\ ~ ReadAnnotation(s)
  PROVE  Polled'
<1> USE DEF vars, clusterVars, kubeVars, patchVars, pollVars, endVars, toolVars
<1>1. ASSUME moved' = TRUE, pc' \notin {"desired", "annotations"} \/ UNCHANGED <<pc, todo, mutated>> PROVE Polled'
  BY <1>1 DEF Polled
<1>2. ASSUME UNCHANGED moved, pc \notin {"desired", "annotations"}, pc' \notin {"desired", "annotations"}
      PROVE  Polled'
  BY <1>2 DEF Polled
<1>3. ASSUME UNCHANGED <<clusterVars, toolVars>> PROVE Polled'
  <2>1. UNCHANGED <<pod, desired, mutated, old, moved, pc, todo, annotated, count, clean, listed>>
    BY <1>3
  <2>2. /\ ListedPods' = ListedPods /\ AllNew' = AllNew
        /\ \A S : WantedOf(S)' = WantedOf(S)
    BY <2>1, SamePods
  <2> HIDE DEF ListedPods, AllNew, WantedOf, Ready
  <2>3. Polled' = Polled
    BY <2>1, <2>2 DEF Polled
  <2> QED BY <2>3
<1>4. ASSUME NEW s \in PodSets, PatchAnswered(s) \/ PatchRejected(s) \/ PatchUncertain(s) PROVE Polled'
  BY <1>4 DEF PatchAnswered, PatchRejected, PatchUncertain, Patching, Annotate, NotSent, Polled
<1>5. CASE RecordFails \/ RecordPods \/ AllPatched
  BY <1>5, <1>2 DEF RecordFails, RecordPods, AllPatched, Return
<1>6. CASE NotReady \/ Done \/ PollFails
  BY <1>6, <1>1 DEF NotReady, Done, PollFails, NextPoll, Return
<1>7. CASE Tick \/ GiveUp
  BY <1>7, <1>2 DEF Tick, GiveUp, Return
<1>8. CASE ContextEnds \/ UNCHANGED vars
  BY <1>8, <1>3 DEF ContextEnds
<1>9. ASSUME NEW s \in PodSets, LateApply(s) \/ Scaled(s) \/ Rolled(s) PROVE Polled'
  BY <1>9, <1>1 DEF LateApply, Scaled, Rolled, Annotate
<1>10. ASSUME NEW n \in Names, Removed(n) \/ Created(n) \/ Readiness(n) PROVE Polled'
  BY <1>10, <1>1 DEF Removed, Created, Readiness, PodChanges
<1> QED BY <1>4, <1>5, <1>6, <1>7, <1>8, <1>9, <1>10 DEF Next, Step, Others

LEMMA ListPodsPolled == ASSUME IInv, ListPods PROVE Polled'
<1> USE DEF ListPods, patchVars
<1>1. ListedPods' = ListedPods /\ AllNew' = AllNew
  BY SamePods
<1>2. clean' => AllNew /\ listed' = Cardinality(ListedPods)
  BY DEF Evaluate, AllNew
<1>3. WantedOf(mutated \ todo)' = {}
  BY DEF WantedOf
<1>4. count' = Cardinality(WantedOf(mutated \ todo)')
  BY <1>3, FS_EmptySet
<1> HIDE DEF ListedPods, AllNew, WantedOf
<1> QED BY <1>1, <1>2, <1>4 DEF Polled

LEMMA ReadDesiredPolled == ASSUME IInv, Polled, NEW s \in PodSets, ReadDesired(s) PROVE Polled'
<1> USE DEF ReadDesired, clusterVars, kubeVars, patchVars
<1>1. ListedPods' = ListedPods /\ AllNew' = AllNew /\ \A S : WantedOf(S)' = WantedOf(S)
  BY SamePods
<1>2. s \in mutated /\ mutated' \ todo' = (mutated \ todo) \cup {s} /\ s \notin mutated \ todo
  BY DEF Polled
<1>3. Cardinality(WantedOf((mutated \ todo) \cup {s})) = Cardinality(WantedOf(mutated \ todo)) + desired[s]
  BY <1>2, OneMoreSet DEF IInv
<1>4. WantedOf(mutated \ todo)' = WantedOf((mutated \ todo) \cup {s})
  BY <1>2 DEF WantedOf, Wanted
<1> HIDE DEF ListedPods, AllNew, WantedOf
<1>5. ~ moved => count' = Cardinality(WantedOf(mutated \ todo)')
  BY <1>3, <1>4 DEF Polled
<1> QED BY <1>1, <1>5 DEF Polled

LEMMA ComparePolled == ASSUME IInv, Polled, Compare PROVE Polled'
<1> USE DEF Compare, NextPoll, kubeVars, patchVars
<1>1. CASE ~ Replaced
  BY <1>1 DEF Polled
<1>2. CASE Replaced
  <2>1. ListedPods' = ListedPods /\ AllNew' = AllNew /\ \A S : WantedOf(S)' = WantedOf(S)
    BY SamePods
  <2>2. mutated \ todo = mutated
    OBVIOUS
  <2> HIDE DEF ListedPods, AllNew, WantedOf
  <2>3. ~ moved => AllNew /\ Cardinality(ListedPods) = Cardinality(WantedOf(mutated))
    BY <1>2, <2>2 DEF Replaced, Polled
  <2>4. WantedOf(mutated)' = WantedOf(mutated)
    BY <2>1 DEF WantedOf, Wanted
  <2> QED BY <1>2, <2>1, <2>3, <2>4 DEF Polled
<1> QED BY <1>1, <1>2

LEMMA ReadAnnotationPolled == ASSUME IInv, Polled, NEW s \in PodSets, ReadAnnotation(s) PROVE Polled'
<1> USE DEF ReadAnnotation, NextPoll, kubeVars, patchVars
<1>1. CASE annotated[s]
  BY <1>1 DEF Polled
<1>2. CASE ~ annotated[s]
  <2>1. ListedPods' = ListedPods /\ AllNew' = AllNew
    BY SamePods
  <2>2. WantedOf(mutated)' = WantedOf(mutated)
    BY DEF WantedOf, Wanted
  <2> HIDE DEF ListedPods, AllNew, WantedOf
  <2> QED BY <1>2, <2>1, <2>2 DEF Polled
<1> QED BY <1>1, <1>2

\* If nothing has moved since the list when kafkaRollCompleted says yes, what
\* was read one after the other is true at once.
LEMMA DoneIsHealthy ==
  ASSUME IInv, Polled, Done, result' = "nil", ~ moved
  PROVE  /\ \A s \in PodSets : ~ annotated[s]
         /\ \A n \in Names : pod[n].phase # "starting"
         /\ old \cap Existing = {}
         /\ Cardinality(Existing) = Cardinality(Wanted)
<1>1. pc = "annotations" /\ todo = {} /\ ~ failed
  BY DEF Done, Return, Verdict
<1>2. mutated = PodSets
  BY <1>1 DEF IInv, Requests, Waiting, TypeOK
<1>3. ListedPods = Existing /\ WantedOf(mutated) = Wanted
  BY <1>2, NameFacts DEF ListedPods, WantedOf, Wanted, Names
<1>4. AllNew /\ Cardinality(Existing) = Cardinality(Wanted) /\ \A s \in mutated : ~ annotated[s]
  BY <1>1, <1>3 DEF Polled
<1>5. old \cap Existing = {} /\ \A p \in Existing : Ready(p)
  BY <1>3, <1>4 DEF AllNew
<1>6. ASSUME NEW n \in Names, pod[n].phase = "starting" PROVE FALSE
  <2>1. n = <<n[1], n[2]>> /\ pod[n].uid \in 1 .. MaxUid
    BY DEF IInv, TypeOK, Names
  <2>2. Instance(n) \in Existing
    BY <1>6, <2>1 DEF Instance, Existing, Exists, Pods, Names
  <2> QED BY <1>5, <1>6, <2>1, <2>2 DEF Ready, Instance
<1> QED BY <1>2, <1>4, <1>5, <1>6

\* A success that comes of a poll nothing interfered with finds as many pods
\* as the PodSets want, all of them new and ready, and no annotation left.
THEOREM KafkaNilMeansHealthy == Spec => NilMeansHealthy
<1> DEFINE Healthy == /\ \A s \in PodSets : ~ annotated[s]
                      /\ \A n \in Names : pod[n].phase # "starting"
                      /\ old \cap Existing = {}
                      /\ Cardinality(Existing) = Cardinality(Wanted)
           NilHealthy == result = "unset" /\ result' = "nil" /\ ~ SkipWait /\ ~ moved => Healthy
<1>1. IInv /\ Polled /\ [Next]_vars => Polled'
  BY OutsidePolled, ListPodsPolled, ReadDesiredPolled, ComparePolled, ReadAnnotationPolled
<1>2. IInv /\ Polled /\ [Next]_vars => [NilHealthy]_vars
  <2> SUFFICES ASSUME IInv, Polled, [Next]_vars, result = "unset", result' = "nil", ~ moved
               PROVE  Healthy
    OBVIOUS
  <2>1. pc \in {"desired", "annotations"}
    BY DEF Polled
  <2> USE DEF vars, patchVars, pollVars, endVars, toolVars
  <2>2. Done
    BY <2>1 DEF Next, Step, Others, RecordFails, RecordPods, PatchAnswered, PatchRejected, PatchUncertain, Patching,
       AllPatched, ListPods, Compare, NotReady, PollFails, Tick, GiveUp, ReadDesired, ReadAnnotation,
       ContextEnds, LateApply, Scaled, Rolled, Removed, Created, Readiness, PodChanges
  <2> QED BY <2>2, DoneIsHealthy
<1> QED BY <1>1, <1>2, InitPolled, KafkaIInv, PTL DEF Spec, NilMeansHealthy
------------------------------------------------------------------------------
(* The restart of a cluster is one target of a run (module Maintenance).   *)

\* What the run sees of it until its slot is given back: patched by the first
\* annotation that is answered, doomed by the stop that this restart sets.  A
\* lookup that fails before anything is touched, and a timeout, leave the stop
\* to the queue (module RolloutPool), once the error is returned.
TargetState ==
  CASE result = "nil" -> "ok"
    [] result # "nil" /\ tripped -> "doomed"
    [] result # "nil" /\ ~ tripped -> IF mutated = {} THEN "launched" ELSE "patched"

\* For the run, the end of the context is the signal: nothing is patched after
\* a deadline either, which begins when the PATCHes are over.
Run == INSTANCE Maintenance WITH
         Types <- 1, N <- 1, TypeOf <- [i \in {1} |-> 1], Parallel <- 1, WithCordon <- FALSE,
         stage <- "run", type <- 1, open <- TRUE, st <- [i \in {1} |-> TargetState],
         stopped <- tripped, cordoned <- "none", errs <- {}, canceled <- FALSE,
         interrupted <- over, exit <- "none"

TargetLaunched == TargetState = "launched" /\ ~ tripped
TargetStep == Run!Patch(1) \/ Run!Doom(1) \/ Run!Succeed(1) \/ Run!FirstSignal

\* How a step of the restart looks to the run.
LEMMA TargetMoves ==
  ASSUME NEW x, TargetState' = x
  PROVE  [i \in {1} |-> TargetState]' = [[i \in {1} |-> TargetState] EXCEPT ![1] = x]
OBVIOUS

LEMMA TargetUnseen ==
  ASSUME UNCHANGED <<result, tripped, over>>, mutated # {} <=> mutated' # {}
  PROVE  UNCHANGED Run!vars
BY DEF TargetState, Run!vars, Run!phaseVars

LEMMA TargetPatched ==
  ASSUME UNCHANGED <<result, tripped, over>>, result # "nil", ~ tripped, mutated = {}, mutated' # {}, ~ over
  PROVE  Run!Patch(1)
<1>1. TargetState = "launched" /\ TargetState' = "patched"
  BY DEF TargetState
<1> HIDE DEF TargetState
<1> QED BY <1>1, TargetMoves DEF Run!Patch, Run!InQueue, Run!Working, Run!phaseVars

LEMMA TargetDoomed ==
  ASSUME result # "nil", result' # "nil", ~ tripped, tripped' = TRUE, UNCHANGED over
  PROVE  Run!Doom(1)
<1>1. TargetState \in {"launched", "patched"} /\ TargetState' = "doomed"
  BY DEF TargetState
<1> HIDE DEF TargetState
<1> QED BY <1>1, TargetMoves DEF Run!Doom, Run!InQueue, Run!Working, Run!phaseVars

LEMMA TargetSucceeds ==
  ASSUME result # "nil", result' = "nil", ~ tripped, UNCHANGED <<tripped, over>>, mutated # {}
  PROVE  Run!Succeed(1)
<1>1. TargetState = "patched" /\ TargetState' = "ok"
  BY DEF TargetState
<1> HIDE DEF TargetState
<1> QED BY <1>1, TargetMoves DEF Run!Succeed, Run!InQueue, Run!Working, Run!phaseVars

LEMMA TargetSignal ==
  ASSUME ~ over, over' = TRUE, UNCHANGED <<result, tripped, mutated>>
  PROVE  Run!FirstSignal
BY DEF TargetState, Run!FirstSignal, Run!phaseVars

\* The steps of restartKafkaCluster.
LEMMA TargetOfStep ==
  ASSUME IInv, Step
  PROVE  [TargetStep]_(Run!vars)
<1> USE DEF patchVars, endVars, TargetStep
<1>0. /\ tripped \in BOOLEAN /\ (tripped => failed)
      /\ pc # "returned" /\ result = "unset"
  <2>1. pc # "returned"
    BY DEF Step, RecordFails, RecordPods, PatchAnswered, PatchRejected, PatchUncertain, Patching, AllPatched, ListPods,
       ReadDesired, Compare, ReadAnnotation, NotReady, Done, PollFails, Tick, GiveUp
  <2> QED BY <2>1 DEF IInv, Requests, Ends, TypeOK
<1>1. ASSUME Fail, UNCHANGED over, result' # "nil"
      PROVE  [TargetStep]_(Run!vars)
  <2>1. CASE tripped
    <3>1. TargetState = "doomed" /\ TargetState' = "doomed" /\ tripped' = tripped
      BY <1>0, <1>1, <2>1 DEF Fail, TargetState
    <3> HIDE DEF TargetState
    <3> QED BY <1>1, <3>1 DEF Run!vars, Run!phaseVars
  <2>2. CASE ~ tripped
    BY <1>0, <1>1, <2>2, TargetDoomed DEF Fail
  <2> QED BY <1>0, <2>1, <2>2
<1>2. ASSUME UNCHANGED <<tripped, over, mutated>>, result' # "nil" PROVE [TargetStep]_(Run!vars)
  <2>1. TargetState' = TargetState
    BY <1>0, <1>2 DEF TargetState
  <2> HIDE DEF TargetState
  <2> QED BY <1>2, <2>1 DEF Run!vars, Run!phaseVars
<1>3. ASSUME UNCHANGED <<tripped, over>>, ~ tripped, result' = "nil", mutated # {}
      PROVE  [TargetStep]_(Run!vars)
  BY <1>0, <1>3, TargetSucceeds
<1>4. CASE RecordFails \/ RecordPods
  BY <1>0, <1>2, <1>4 DEF RecordFails, RecordPods, Return
<1>5. ASSUME NEW s \in PodSets, PatchAnswered(s) PROVE [TargetStep]_(Run!vars)
  <2>1. ~ over /\ mutated' = mutated \cup {s} /\ UNCHANGED <<result, tripped, over>>
    BY <1>5 DEF PatchAnswered, Patching
  <2>2. CASE tripped
    <3>1. TargetState = "doomed" /\ TargetState' = "doomed"
      BY <1>0, <2>1, <2>2 DEF TargetState
    <3> HIDE DEF TargetState
    <3> QED BY <2>1, <3>1 DEF Run!vars, Run!phaseVars
  <2>3. CASE ~ tripped /\ mutated = {}
    BY <1>0, <2>1, <2>3, TargetPatched
  <2>4. CASE mutated # {}
    BY <2>1, <2>4, TargetUnseen
  <2> QED BY <2>2, <2>3, <2>4
<1>6. ASSUME NEW s \in PodSets, PatchRejected(s) \/ PatchUncertain(s) PROVE [TargetStep]_(Run!vars)
  BY <1>0, <1>1, <1>6 DEF PatchRejected, PatchUncertain, Patching
\* A nil verdict: nothing failed, so every PodSet was annotated.
<1>7. ASSUME AllPatched \/ Done PROVE [TargetStep]_(Run!vars)
  <2>1. UNCHANGED <<tripped, over, mutated>> /\ result' \in {"unset", "error", "nil"}
    BY <1>0, <1>7 DEF AllPatched, Done, Return, Verdict
  <2>2. CASE result' = "nil"
    <3>1. ~ failed /\ ((pc = "patch" /\ todo = {}) \/ Waiting)
      BY <1>0, <1>7, <2>2 DEF AllPatched, Done, Return, Verdict, Waiting
    <3>2. answered = PodSets /\ answered \subseteq mutated /\ PodSets # {}
      BY <1>0, <3>1, KafkaAssumption DEF IInv, Requests
    <3> QED BY <1>0, <1>3, <2>1, <2>2, <3>1, <3>2
  <2>3. CASE result' # "nil"
    BY <1>2, <2>1, <2>3
  <2> QED BY <2>2, <2>3
<1>8. CASE ListPods \/ Compare \/ NotReady \/ Tick \/ GiveUp
  BY <1>0, <1>2, <1>8 DEF ListPods, Compare, NotReady, Tick, GiveUp, Return
<1>9. CASE PollFails
  BY <1>0, <1>1, <1>2, <1>9 DEF PollFails
<1>10. ASSUME NEW s \in PodSets, ReadDesired(s) \/ ReadAnnotation(s) PROVE [TargetStep]_(Run!vars)
  BY <1>0, <1>2, <1>10 DEF ReadDesired, ReadAnnotation
<1> QED BY <1>4, <1>5, <1>6, <1>7, <1>8, <1>9, <1>10 DEF Step

\* Everybody else: the end of the context, and what the run does not see.
LEMMA TargetOfOthers ==
  ASSUME Others \/ UNCHANGED vars
  PROVE  [TargetStep]_(Run!vars)
<1> USE DEF patchVars, endVars, toolVars, TargetStep
<1>1. CASE ContextEnds
  BY <1>1, TargetSignal DEF ContextEnds
<1>2. ASSUME NEW s \in PodSets, LateApply(s) \/ Scaled(s) \/ Rolled(s) PROVE [TargetStep]_(Run!vars)
  BY <1>2, TargetUnseen DEF LateApply, Scaled, Rolled
<1>3. ASSUME NEW n \in Names, Removed(n) \/ Created(n) \/ Readiness(n) PROVE [TargetStep]_(Run!vars)
  BY <1>3, TargetUnseen DEF Removed, Created, Readiness, PodChanges
<1>4. CASE UNCHANGED vars
  BY <1>4, TargetUnseen DEF vars
<1> QED BY <1>1, <1>2, <1>3, <1>4 DEF Others

\* restartKafkaCluster does with its cluster what Maintenance lets a job do
\* with its target: it patches only while its context lasts, and nil comes only
\* after a PATCH, and never from a cluster that has set the run-wide stop.
THEOREM KafkaIsTarget == Spec => TargetLaunched /\ [][TargetStep]_(Run!vars)
<1>1. Init => TargetLaunched
  BY DEF Init, TargetLaunched, TargetState
<1>2. IInv /\ [Next]_vars => [TargetStep]_(Run!vars)
  BY TargetOfStep, TargetOfOthers DEF Next
<1>3. Init => IInv
  BY InitIInv
<1>4. IInv /\ [Next]_vars => IInv'
  BY NextStep
<1> QED BY <1>1, <1>2, <1>3, <1>4, PTL DEF Spec
==============================================================================
