-------------------------- MODULE MaintenanceProofs --------------------------
(***************************************************************************)
(* A run keeps its promises for any number of resource types and targets,  *)
(* any --parallel, and signals at any moment.                              *)
(***************************************************************************)
EXTENDS Maintenance, TLAPS

\* Where a run has not come to, nothing was touched.
NotYet(i) == \/ stage \in {"plan", "cordon"}
             \/ stage = "skip" /\ TypeOf[i] >= type
             \/ stage = "run" /\ TypeOf[i] >= type /\ (TypeOf[i] = type => ~ open)

Behind(i) == \/ stage \in {"skip", "run"} /\ TypeOf[i] < type
             \/ stage \in {"report", "done"}

Final(i) == st[i] \in {"ok", "failed", "refused"}

\* One queue at a time, of the loop's type, and only as long as nothing failed.
OneQueue ==
  /\ open => stage = "run" /\ type <= Types /\ errs = {}
  /\ \A i \in Jobs : st[i] \in {"launched", "patched", "doomed"} => open /\ TypeOf[i] = type

InOrder ==
  /\ \A i \in Jobs : NotYet(i) => st[i] = "todo"
  /\ stage = "cordon" => type = 1
  /\ stage \in {"plan", "cordon"} => type >= 1
  /\ stage \in {"plan", "skip", "cordon"} => Touched = {}

\* What the errors collected so far say, and what their absence says.
NoErrors ==
  /\ stage \in {"plan", "cordon"} => errs \subseteq {"planning"}
  /\ stage = "cordon" => errs = {}
  /\ stage = "skip" => "planning" \in errs
  /\ stage \in {"run", "report", "done"} /\ errs = {} =>
       /\ \A i \in Jobs : Behind(i) => st[i] = "ok"
       /\ WithCordon => cordoned = "all"

\* As long as nobody interrupts, what the run has passed is accounted for.
Accounted ==
  ~ interrupted =>
    /\ \A i \in Jobs : Behind(i) => Final(i)
    /\ errs # {} => \/ \E i \in Jobs : st[i] = "failed"
                    \/ errs \cap {"planning", "cordon", "report"} # {}

\* The stop has a cause among the targets, and without it none is turned away.
StopHasCause ==
  /\ stopped => \E i \in Jobs : st[i] \in {"doomed", "failed"}
  /\ \A i \in Jobs : st[i] \in {"doomed", "failed"} => stopped
  /\ open => \A i \in Jobs : TypeOf[i] = type /\ st[i] = "refused" => stopped

ExitIsEarned ==
  /\ exit = "ok" => stage = "done" /\ errs = {} /\ ~ interrupted
  /\ exit = "error" => stage = "done" /\ errs # {} /\ ~ interrupted

IInv == /\ TypeOK
        /\ OneQueue
        /\ InOrder
        /\ NoErrors
        /\ Accounted
        /\ StopHasCause
        /\ ExitIsEarned
        /\ NoTypeAfterFailure

LEMMA JobFacts == /\ TypeOf \in [Jobs -> 1 .. Types]
                  /\ Types \in Nat \ {0}
                  /\ Jobs \subseteq Nat
BY RunAssumption DEF Jobs

LEMMA InitIInv == Init => IInv
<1> SUFFICES ASSUME Init PROVE IInv
  OBVIOUS
<1> USE JobFacts DEF Init
<1>1. TypeOK
  <2>1. type \in 1 .. (Types + 1)
    OBVIOUS
  <2> QED BY <2>1 DEF TypeOK
<1>2. OneQueue
  BY DEF OneQueue, TypeOK
<1>3. InOrder
  BY DEF InOrder, NotYet, Touched, OneQueue, TypeOK
<1>4. NoErrors
  BY DEF NoErrors, Behind, OneQueue, InOrder, NotYet, TypeOK
<1>5. Accounted
  BY DEF Accounted, Behind, Final, NoErrors, OneQueue, TypeOK
<1>6. StopHasCause
  BY DEF StopHasCause, OneQueue, InOrder, NotYet, Touched, TypeOK
<1>7. ExitIsEarned
  BY DEF ExitIsEarned
<1>8. NoTypeAfterFailure
  BY DEF NoTypeAfterFailure, Touched, TypeOK, OneQueue, NoErrors, Behind, InOrder, NotYet
<1> QED BY <1>1, <1>2, <1>3, <1>4, <1>5, <1>6, <1>7, <1>8 DEF IInv

LEMMA PlanTypeStep == ASSUME IInv, PlanType PROVE IInv'
<1> USE JobFacts DEF IInv, PlanType, phaseVars, Working, Fail
<1>1. TypeOK'
  <2>1. type' \in 1 .. (Types + 1)
    BY DEF TypeOK
  <2> QED BY <2>1 DEF TypeOK
<1>2. OneQueue'
  BY DEF OneQueue, TypeOK
<1>3. InOrder'
  BY DEF InOrder, NotYet, Touched, OneQueue, TypeOK
<1>4. NoErrors'
  BY DEF NoErrors, Behind, OneQueue, InOrder, NotYet, TypeOK
<1>5. Accounted'
  BY DEF Accounted, Behind, Final, NoErrors, OneQueue, TypeOK
<1>6. StopHasCause'
  BY DEF StopHasCause, OneQueue, InOrder, NotYet, Touched, TypeOK
<1>7. ExitIsEarned'
  BY DEF ExitIsEarned
<1>8. NoTypeAfterFailure'
  BY DEF NoTypeAfterFailure, Touched, TypeOK, OneQueue, NoErrors, Behind, InOrder, NotYet
<1> QED BY <1>1, <1>2, <1>3, <1>4, <1>5, <1>6, <1>7, <1>8

LEMMA PlannedStep == ASSUME IInv, Planned PROVE IInv'
<1> USE JobFacts DEF IInv, Planned, phaseVars, Working
<1>1. TypeOK'
  BY DEF TypeOK
<1>2. OneQueue'
  BY DEF OneQueue, TypeOK
<1>3. InOrder'
  BY DEF InOrder, NotYet, Touched, OneQueue, TypeOK
<1>4. NoErrors'
  <2>1. errs # {} => errs = {"planning"}
    BY DEF NoErrors
  <2>2. \A i \in Jobs : ~ TypeOf[i] < type'
    OBVIOUS
  <2> QED BY <2>1, <2>2 DEF NoErrors, Behind
<1>5. Accounted'
  BY DEF Accounted, Behind, Final, NoErrors, OneQueue, TypeOK
<1>6. StopHasCause'
  BY DEF StopHasCause, OneQueue, InOrder, NotYet, Touched, TypeOK
<1>7. ExitIsEarned'
  BY DEF ExitIsEarned
<1>8. NoTypeAfterFailure'
  BY DEF NoTypeAfterFailure, Touched, TypeOK, OneQueue, NoErrors, Behind, InOrder, NotYet
<1> QED BY <1>1, <1>2, <1>3, <1>4, <1>5, <1>6, <1>7, <1>8

LEMMA SkipTypeStep == ASSUME IInv, SkipType PROVE IInv'
<1> USE JobFacts DEF IInv, SkipType, phaseVars, Working, NotStarted, JobsOf
<1>1. TypeOK'
  <2>1. type' \in 1 .. (Types + 1)
    BY DEF TypeOK
  <2> QED BY <2>1 DEF TypeOK
<1>2. OneQueue'
  BY DEF OneQueue, TypeOK
<1>3. InOrder'
  <2>1. \A i \in Jobs : TypeOf[i] \in Nat /\ type \in Nat /\ (TypeOf[i] < type + 1 <=> TypeOf[i] <= type)
    BY DEF TypeOK

  <2>2. \A i \in Jobs : st[i] \in {"todo", "refused"} /\ st'[i] \in {"todo", "refused"}
    BY DEF InOrder, Touched
  <2>3. \A i \in Jobs : TypeOf[i] >= type + 1 => st[i] = "todo" /\ st'[i] = "todo"
    BY <2>1 DEF InOrder, NotYet
  <2> QED BY <2>2, <2>3 DEF InOrder, NotYet, Touched
<1>4. NoErrors'
  BY DEF NoErrors, Behind, OneQueue, InOrder, NotYet, TypeOK
<1>5. Accounted'
  BY DEF Accounted, Behind, Final, NoErrors, OneQueue, TypeOK
<1>6. StopHasCause'
  BY DEF StopHasCause, OneQueue, InOrder, NotYet, Touched, TypeOK
<1>7. ExitIsEarned'
  BY DEF ExitIsEarned
<1>8. NoTypeAfterFailure'
  BY DEF NoTypeAfterFailure, Touched, TypeOK, OneQueue, NoErrors, Behind, InOrder, NotYet
<1> QED BY <1>1, <1>2, <1>3, <1>4, <1>5, <1>6, <1>7, <1>8

LEMMA AllSkippedStep == ASSUME IInv, AllSkipped PROVE IInv'
<1> USE JobFacts DEF IInv, AllSkipped, phaseVars, Working
<1>1. TypeOK'
  BY DEF TypeOK
<1>2. OneQueue'
  BY DEF OneQueue, TypeOK
<1>3. InOrder'
  BY DEF InOrder, NotYet, Touched, OneQueue, TypeOK
<1>4. NoErrors'
  BY DEF NoErrors, Behind, OneQueue, InOrder, NotYet, TypeOK
<1>5. Accounted'
  BY DEF Accounted, Behind, Final, NoErrors, OneQueue, TypeOK
<1>6. StopHasCause'
  BY DEF StopHasCause, OneQueue, InOrder, NotYet, Touched, TypeOK
<1>7. ExitIsEarned'
  BY DEF ExitIsEarned
<1>8. NoTypeAfterFailure'
  BY DEF NoTypeAfterFailure, Touched, TypeOK, OneQueue, NoErrors, Behind, InOrder, NotYet
<1> QED BY <1>1, <1>2, <1>3, <1>4, <1>5, <1>6, <1>7, <1>8

LEMMA CordonNodesStep == ASSUME IInv, CordonNodes PROVE IInv'
<1> USE JobFacts DEF IInv, CordonNodes, phaseVars, Working, Fail
<1>1. TypeOK'
  BY DEF TypeOK
<1>2. OneQueue'
  BY DEF OneQueue, TypeOK
<1>3. InOrder'
  BY DEF InOrder, NotYet, Touched, OneQueue, TypeOK
<1>4. NoErrors'
  BY DEF NoErrors, Behind, OneQueue, InOrder, NotYet, TypeOK
<1>5. Accounted'
  <2>1. type = 1 /\ errs = {} /\ \A i \in Jobs : ~ TypeOf[i] < type
    BY DEF InOrder, NoErrors
  <2> QED BY <2>1 DEF Accounted, Behind
<1>6. StopHasCause'
  BY DEF StopHasCause, OneQueue, InOrder, NotYet, Touched, TypeOK
<1>7. ExitIsEarned'
  BY DEF ExitIsEarned
<1>8. NoTypeAfterFailure'
  BY DEF NoTypeAfterFailure, Touched, TypeOK, OneQueue, NoErrors, Behind, InOrder, NotYet
<1> QED BY <1>1, <1>2, <1>3, <1>4, <1>5, <1>6, <1>7, <1>8

LEMMA PhaseSkippedStep == ASSUME IInv, PhaseSkipped PROVE IInv'
<1> USE JobFacts DEF IInv, PhaseSkipped, phaseVars, Working, NotStarted, JobsOf
<1>1. TypeOK'
  <2>1. type' \in 1 .. (Types + 1)
    BY DEF TypeOK
  <2> QED BY <2>1 DEF TypeOK
<1>2. OneQueue'
  BY DEF OneQueue, TypeOK
<1>3. InOrder'
  BY DEF InOrder, NotYet, Touched, OneQueue, TypeOK
<1>4. NoErrors'
  BY DEF NoErrors, Behind, OneQueue, InOrder, NotYet, TypeOK
<1>5. Accounted'
  <2>1. \A i \in Jobs : TypeOf[i] \in Nat /\ type \in Nat /\ (TypeOf[i] < type + 1 <=> TypeOf[i] <= type)
    BY DEF TypeOK

  <2>2. CASE ~ interrupted
    <3>1. \A i \in Jobs : TypeOf[i] = type => st[i] = "todo" /\ st'[i] = "refused"
      BY <2>1, <2>2 DEF InOrder, NotYet
    <3>2. \A i \in Jobs : TypeOf[i] # type => st'[i] = st[i]
      BY <2>2
    <3>3. \A i \in Jobs : st[i] = "failed" => st'[i] = "failed"
      BY <3>1, <3>2
    <3> QED BY <2>1, <2>2, <3>1, <3>2, <3>3 DEF Accounted, Behind, Final
  <2> QED BY <2>2 DEF Accounted
<1>6. StopHasCause'
  BY DEF StopHasCause, OneQueue, InOrder, NotYet, Touched, TypeOK
<1>7. ExitIsEarned'
  BY DEF ExitIsEarned
<1>8. NoTypeAfterFailure'
  BY DEF NoTypeAfterFailure, Touched, TypeOK, OneQueue, NoErrors, Behind, InOrder, NotYet
<1> QED BY <1>1, <1>2, <1>3, <1>4, <1>5, <1>6, <1>7, <1>8

LEMMA PhaseOpensStep == ASSUME IInv, PhaseOpens PROVE IInv'
<1> USE JobFacts DEF IInv, PhaseOpens, phaseVars, Working
<1>1. TypeOK'
  BY DEF TypeOK
<1>2. OneQueue'
  BY DEF OneQueue, TypeOK
<1>3. InOrder'
  BY DEF InOrder, NotYet, Touched, OneQueue, TypeOK
<1>4. NoErrors'
  BY DEF NoErrors, Behind, OneQueue, InOrder, NotYet, TypeOK
<1>5. Accounted'
  BY DEF Accounted, Behind, Final, NoErrors, OneQueue, TypeOK
<1>6. StopHasCause'
  BY DEF StopHasCause, OneQueue, InOrder, NotYet, Touched, TypeOK
<1>7. ExitIsEarned'
  BY DEF ExitIsEarned
<1>8. NoTypeAfterFailure'
  BY DEF NoTypeAfterFailure, Touched, TypeOK, OneQueue, NoErrors, Behind, InOrder, NotYet
<1> QED BY <1>1, <1>2, <1>3, <1>4, <1>5, <1>6, <1>7, <1>8

LEMMA LaunchStep == ASSUME IInv, NEW i \in Jobs, Launch(i) PROVE IInv'
<1> USE JobFacts DEF IInv, Launch, phaseVars, Working, InQueue
<1>1. TypeOK'
  BY DEF TypeOK
<1>2. OneQueue'
  BY DEF OneQueue, TypeOK
<1>3. InOrder'
  BY DEF InOrder, NotYet, Touched, OneQueue, TypeOK
<1>4. NoErrors'
  BY DEF NoErrors, Behind, OneQueue, InOrder, NotYet, TypeOK
<1>5. Accounted'
  BY DEF Accounted, Behind, Final, NoErrors, OneQueue, TypeOK
<1>6. StopHasCause'
  BY DEF StopHasCause, OneQueue, InOrder, NotYet, Touched, TypeOK
<1>7. ExitIsEarned'
  BY DEF ExitIsEarned
<1>8. NoTypeAfterFailure'
  BY DEF NoTypeAfterFailure, Touched, TypeOK, OneQueue, NoErrors, Behind, InOrder, NotYet
<1> QED BY <1>1, <1>2, <1>3, <1>4, <1>5, <1>6, <1>7, <1>8

LEMMA PatchStep == ASSUME IInv, NEW i \in Jobs, Patch(i) PROVE IInv'
<1> USE JobFacts DEF IInv, Patch, phaseVars, Working, InQueue
<1>1. TypeOK'
  BY DEF TypeOK
<1>2. OneQueue'
  BY DEF OneQueue, TypeOK
<1>3. InOrder'
  BY DEF InOrder, NotYet, Touched, OneQueue, TypeOK
<1>4. NoErrors'
  BY DEF NoErrors, Behind, OneQueue, InOrder, NotYet, TypeOK
<1>5. Accounted'
  BY DEF Accounted, Behind, Final, NoErrors, OneQueue, TypeOK
<1>6. StopHasCause'
  BY DEF StopHasCause, OneQueue, InOrder, NotYet, Touched, TypeOK
<1>7. ExitIsEarned'
  BY DEF ExitIsEarned
<1>8. NoTypeAfterFailure'
  BY DEF NoTypeAfterFailure, Touched, TypeOK, OneQueue, NoErrors, Behind, InOrder, NotYet
<1> QED BY <1>1, <1>2, <1>3, <1>4, <1>5, <1>6, <1>7, <1>8

LEMMA DoomStep == ASSUME IInv, NEW i \in Jobs, Doom(i) PROVE IInv'
<1> USE JobFacts DEF IInv, Doom, phaseVars, Working, InQueue
<1>1. TypeOK'
  BY DEF TypeOK
<1>2. OneQueue'
  BY DEF OneQueue, TypeOK
<1>3. InOrder'
  BY DEF InOrder, NotYet, Touched, OneQueue, TypeOK
<1>4. NoErrors'
  BY DEF NoErrors, Behind, OneQueue, InOrder, NotYet, TypeOK
<1>5. Accounted'
  BY DEF Accounted, Behind, Final, NoErrors, OneQueue, TypeOK
<1>6. StopHasCause'
  BY DEF StopHasCause, OneQueue, InOrder, NotYet, Touched, TypeOK
<1>7. ExitIsEarned'
  BY DEF ExitIsEarned
<1>8. NoTypeAfterFailure'
  BY DEF NoTypeAfterFailure, Touched, TypeOK, OneQueue, NoErrors, Behind, InOrder, NotYet
<1> QED BY <1>1, <1>2, <1>3, <1>4, <1>5, <1>6, <1>7, <1>8

LEMMA SucceedStep == ASSUME IInv, NEW i \in Jobs, Succeed(i) PROVE IInv'
<1> USE JobFacts DEF IInv, Succeed, phaseVars, Working, InQueue
<1>1. TypeOK'
  BY DEF TypeOK
<1>2. OneQueue'
  BY DEF OneQueue, TypeOK
<1>3. InOrder'
  BY DEF InOrder, NotYet, Touched, OneQueue, TypeOK
<1>4. NoErrors'
  BY DEF NoErrors, Behind, OneQueue, InOrder, NotYet, TypeOK
<1>5. Accounted'
  BY DEF Accounted, Behind, Final, NoErrors, OneQueue, TypeOK
<1>6. StopHasCause'
  BY DEF StopHasCause, OneQueue, InOrder, NotYet, Touched, TypeOK
<1>7. ExitIsEarned'
  BY DEF ExitIsEarned
<1>8. NoTypeAfterFailure'
  BY DEF NoTypeAfterFailure, Touched, TypeOK, OneQueue, NoErrors, Behind, InOrder, NotYet
<1> QED BY <1>1, <1>2, <1>3, <1>4, <1>5, <1>6, <1>7, <1>8

LEMMA JobFailsStep == ASSUME IInv, NEW i \in Jobs, JobFails(i) PROVE IInv'
<1> USE JobFacts DEF IInv, JobFails, phaseVars, Working, InQueue
<1>1. TypeOK'
  BY DEF TypeOK
<1>2. OneQueue'
  BY DEF OneQueue, TypeOK
<1>3. InOrder'
  BY DEF InOrder, NotYet, Touched, OneQueue, TypeOK
<1>4. NoErrors'
  BY DEF NoErrors, Behind, OneQueue, InOrder, NotYet, TypeOK
<1>5. Accounted'
  BY DEF Accounted, Behind, Final, NoErrors, OneQueue, TypeOK
<1>6. StopHasCause'
  BY DEF StopHasCause, OneQueue, InOrder, NotYet, Touched, TypeOK
<1>7. ExitIsEarned'
  BY DEF ExitIsEarned
<1>8. NoTypeAfterFailure'
  BY DEF NoTypeAfterFailure, Touched, TypeOK, OneQueue, NoErrors, Behind, InOrder, NotYet
<1> QED BY <1>1, <1>2, <1>3, <1>4, <1>5, <1>6, <1>7, <1>8

LEMMA RefuseStep == ASSUME IInv, Refuse PROVE IInv'
<1> USE JobFacts DEF IInv, Refuse, phaseVars, Working, JobsOf
<1>1. TypeOK'
  BY DEF TypeOK
<1>2. OneQueue'
  BY DEF OneQueue, TypeOK
<1>3. InOrder'
  BY DEF InOrder, NotYet, Touched, OneQueue, TypeOK
<1>4. NoErrors'
  BY DEF NoErrors, Behind, OneQueue, InOrder, NotYet, TypeOK
<1>5. Accounted'
  BY DEF Accounted, Behind, Final, NoErrors, OneQueue, TypeOK
<1>6. StopHasCause'
  BY DEF StopHasCause, OneQueue, InOrder, NotYet, Touched, TypeOK
<1>7. ExitIsEarned'
  BY DEF ExitIsEarned
<1>8. NoTypeAfterFailure'
  BY DEF NoTypeAfterFailure, Touched, TypeOK, OneQueue, NoErrors, Behind, InOrder, NotYet
<1> QED BY <1>1, <1>2, <1>3, <1>4, <1>5, <1>6, <1>7, <1>8

LEMMA PhaseClosesStep == ASSUME IInv, PhaseCloses PROVE IInv'
<1> USE JobFacts DEF IInv, PhaseCloses, phaseVars, Working, JobsOf
<1>1. TypeOK'
  <2>1. type' \in 1 .. (Types + 1)
    BY DEF OneQueue, TypeOK
  <2> QED BY <2>1 DEF TypeOK
<1>2. OneQueue'
  BY DEF OneQueue, TypeOK
<1>3. InOrder'
  BY DEF InOrder, NotYet, Touched, OneQueue, TypeOK
<1>4. NoErrors'
  BY DEF NoErrors, Behind, OneQueue, InOrder, NotYet, TypeOK
<1>5. Accounted'
  <2>1. \A i \in Jobs : TypeOf[i] \in Nat /\ type \in Nat /\ (TypeOf[i] < type + 1 <=> TypeOf[i] <= type)
    BY DEF TypeOK

  <2>2. CASE \A i \in JobsOf(type) : st[i] = "ok"
    BY <2>1, <2>2 DEF Accounted, Behind, Final, OneQueue
  <2>3. CASE \E i \in JobsOf(type) : st[i] # "ok"
    <3>1. \E i \in Jobs : st[i] = "failed"
      <4>1. PICK i \in JobsOf(type) : st[i] \in {"failed", "refused"}
        BY <2>3
      <4>2. CASE st[i] = "refused"
        BY <4>1, <4>2 DEF StopHasCause, OneQueue
      <4> QED BY <4>1, <4>2
    <3>2. \A i \in Jobs : TypeOf[i] <= type => Final(i)
      BY <2>1 DEF Accounted, Behind, Final, NoErrors, OneQueue
    <3> QED BY <2>1, <3>1, <3>2 DEF Accounted, Behind, Final
  <2> QED BY <2>2, <2>3
<1>6. StopHasCause'
  BY DEF StopHasCause, OneQueue, InOrder, NotYet, Touched, TypeOK
<1>7. ExitIsEarned'
  BY DEF ExitIsEarned
<1>8. NoTypeAfterFailure'
  BY DEF NoTypeAfterFailure, Touched, TypeOK, OneQueue, NoErrors, Behind, InOrder, NotYet
<1> QED BY <1>1, <1>2, <1>3, <1>4, <1>5, <1>6, <1>7, <1>8

LEMMA AllTypesDoneStep == ASSUME IInv, AllTypesDone PROVE IInv'
<1> USE JobFacts DEF IInv, AllTypesDone, phaseVars, Working
<1>1. TypeOK'
  BY DEF TypeOK
<1>2. OneQueue'
  BY DEF OneQueue, TypeOK
<1>3. InOrder'
  BY DEF InOrder, NotYet, Touched, OneQueue, TypeOK
<1>4. NoErrors'
  BY DEF NoErrors, Behind, OneQueue, InOrder, NotYet, TypeOK
<1>5. Accounted'
  BY DEF Accounted, Behind, Final, NoErrors, OneQueue, TypeOK
<1>6. StopHasCause'
  BY DEF StopHasCause, OneQueue, InOrder, NotYet, Touched, TypeOK
<1>7. ExitIsEarned'
  BY DEF ExitIsEarned
<1>8. NoTypeAfterFailure'
  BY DEF NoTypeAfterFailure, Touched, TypeOK, OneQueue, NoErrors, Behind, InOrder, NotYet
<1> QED BY <1>1, <1>2, <1>3, <1>4, <1>5, <1>6, <1>7, <1>8

LEMMA ReportStep == ASSUME IInv, Report PROVE IInv'
<1> USE JobFacts DEF IInv, Report, phaseVars, Working, Fail
<1>1. TypeOK'
  BY DEF TypeOK
<1>2. OneQueue'
  BY DEF OneQueue, TypeOK
<1>3. InOrder'
  BY DEF InOrder, NotYet, Touched, OneQueue, TypeOK
<1>4. NoErrors'
  BY DEF NoErrors, Behind, OneQueue, InOrder, NotYet, TypeOK
<1>5. Accounted'
  BY DEF Accounted, Behind, Final, NoErrors, OneQueue, TypeOK
<1>6. StopHasCause'
  BY DEF StopHasCause, OneQueue, InOrder, NotYet, Touched, TypeOK
<1>7. ExitIsEarned'
  BY DEF ExitIsEarned
<1>8. NoTypeAfterFailure'
  BY DEF NoTypeAfterFailure, Touched, TypeOK, OneQueue, NoErrors, Behind, InOrder, NotYet
<1> QED BY <1>1, <1>2, <1>3, <1>4, <1>5, <1>6, <1>7, <1>8

LEMMA FirstSignalStep == ASSUME IInv, FirstSignal PROVE IInv'
<1> USE JobFacts DEF IInv, FirstSignal, phaseVars
<1>1. TypeOK'
  BY DEF TypeOK
<1>2. OneQueue'
  BY DEF OneQueue, TypeOK
<1>3. InOrder'
  BY DEF InOrder, NotYet, Touched, OneQueue, TypeOK
<1>4. NoErrors'
  BY DEF NoErrors, Behind, OneQueue, InOrder, NotYet, TypeOK
<1>5. Accounted'
  BY DEF Accounted, Behind, Final, NoErrors, OneQueue, TypeOK
<1>6. StopHasCause'
  BY DEF StopHasCause, OneQueue, InOrder, NotYet, Touched, TypeOK
<1>7. ExitIsEarned'
  BY DEF ExitIsEarned
<1>8. NoTypeAfterFailure'
  BY DEF NoTypeAfterFailure, Touched, TypeOK, OneQueue, NoErrors, Behind, InOrder, NotYet
<1> QED BY <1>1, <1>2, <1>3, <1>4, <1>5, <1>6, <1>7, <1>8

LEMMA SecondSignalStep == ASSUME IInv, SecondSignal PROVE IInv'
<1> USE JobFacts DEF IInv, SecondSignal, phaseVars
<1>1. TypeOK'
  BY DEF TypeOK
<1>2. OneQueue'
  BY DEF OneQueue, TypeOK
<1>3. InOrder'
  BY DEF InOrder, NotYet, Touched, OneQueue, TypeOK
<1>4. NoErrors'
  BY DEF NoErrors, Behind, OneQueue, InOrder, NotYet, TypeOK
<1>5. Accounted'
  BY DEF Accounted, Behind, Final, NoErrors, OneQueue, TypeOK
<1>6. StopHasCause'
  BY DEF StopHasCause, OneQueue, InOrder, NotYet, Touched, TypeOK
<1>7. ExitIsEarned'
  BY DEF ExitIsEarned
<1>8. NoTypeAfterFailure'
  BY DEF NoTypeAfterFailure, Touched, TypeOK, OneQueue, NoErrors, Behind, InOrder, NotYet
<1> QED BY <1>1, <1>2, <1>3, <1>4, <1>5, <1>6, <1>7, <1>8

LEMMA WorkReturnsStep == ASSUME IInv, WorkReturns PROVE IInv'
<1> USE JobFacts DEF IInv, WorkReturns, phaseVars, Working
<1>1. TypeOK'
  BY DEF TypeOK
<1>2. OneQueue'
  BY DEF OneQueue, TypeOK
<1>3. InOrder'
  BY DEF InOrder, NotYet, Touched, OneQueue, TypeOK
<1>4. NoErrors'
  BY DEF NoErrors, Behind, OneQueue, InOrder, NotYet, TypeOK
<1>5. Accounted'
  BY DEF Accounted, Behind, Final, NoErrors, OneQueue, TypeOK
<1>6. StopHasCause'
  BY DEF StopHasCause, OneQueue, InOrder, NotYet, Touched, TypeOK
<1>7. ExitIsEarned'
  BY DEF ExitIsEarned
<1>8. NoTypeAfterFailure'
  BY DEF NoTypeAfterFailure, Touched, TypeOK, OneQueue, NoErrors, Behind, InOrder, NotYet
<1> QED BY <1>1, <1>2, <1>3, <1>4, <1>5, <1>6, <1>7, <1>8

LEMMA StutterStep == ASSUME IInv, UNCHANGED vars PROVE IInv'
BY DEF vars, phaseVars, IInv, TypeOK, OneQueue, InOrder, NotYet, Touched, NoErrors, Accounted, Behind,
   Final, StopHasCause, ExitIsEarned, NoTypeAfterFailure

LEMMA NextStep == ASSUME IInv, [Next]_vars PROVE IInv'
<1>1. CASE Sequence
  BY <1>1, PlanTypeStep, PlannedStep, SkipTypeStep, AllSkippedStep, CordonNodesStep, PhaseSkippedStep,
     PhaseOpensStep, RefuseStep, PhaseClosesStep, AllTypesDoneStep, ReportStep DEF Sequence
<1>2. ASSUME NEW i \in Jobs, Job(i) PROVE IInv'
  BY <1>2, LaunchStep, PatchStep, DoomStep, SucceedStep, JobFailsStep DEF Job
<1>3. CASE FirstSignal \/ SecondSignal
  BY <1>3, FirstSignalStep, SecondSignalStep
<1>4. CASE WorkReturns
  BY <1>4, WorkReturnsStep
<1>5. CASE Ended \/ UNCHANGED vars
  BY <1>5, StutterStep DEF Ended
<1> QED BY <1>1, <1>2, <1>3, <1>4, <1>5 DEF Next

\* The inductive invariant of a run.
THEOREM RunIInv == Spec => []IInv
<1>1. Init => IInv
  BY InitIInv
<1>2. IInv /\ [Next]_vars => IInv'
  BY NextStep
<1> QED BY <1>1, <1>2, PTL DEF Spec

\* Every variable of a run keeps its type.
THEOREM RunTypeOK == Spec => []TypeOK
<1>1. IInv => TypeOK
  BY DEF IInv
<1> QED BY <1>1, RunIInv, PTL

\* No target is touched unless every target of the types before it was
\* restarted, and the nodes were cordoned.
THEOREM RunNoTypeAfterFailure == Spec => []NoTypeAfterFailure
<1>1. IInv => NoTypeAfterFailure
  BY DEF IInv
<1> QED BY <1>1, RunIInv, PTL

\* Exit code 0 means that everything planned was done.
THEOREM RunZeroMeansDone == Spec => []ZeroMeansDone
<1>1. IInv => ZeroMeansDone
  BY DEF IInv, ExitIsEarned, NoErrors, Behind, ZeroMeansDone
<1> QED BY <1>1, RunIInv, PTL

\* An error at the end means that every target has an outcome, and that
\* something really failed.
THEOREM RunErrorMeansAccounted == Spec => []ErrorMeansAccounted
<1>1. IInv => ErrorMeansAccounted
  BY DEF IInv, ExitIsEarned, Accounted, Behind, Final, ErrorMeansAccounted
<1> QED BY <1>1, RunIInv, PTL

------------------------------------------------------------------------------
(* The run as a whole implements the restart budget: the stop and the      *)
(* errors of the types before close it together.                           *)

BudgetMap == [i \in Jobs |-> BudgetState(i)]

LEMMA BudgetSame ==
  ASSUME \A i \in Jobs : BudgetState(i)' = BudgetState(i)
  PROVE  BudgetMap' = BudgetMap
BY DEF BudgetMap

LEMMA BudgetMoves ==
  ASSUME NEW i \in Jobs, NEW to, BudgetState(i)' = to,
         \A j \in Jobs \ {i} : BudgetState(j)' = BudgetState(j)
  PROVE  BudgetMap' = [BudgetMap EXCEPT ![i] = to]
BY DEF BudgetMap

LEMMA BudgetInit == Init => Budget!Init
BY DEF Init, Budget!Init, Budget!Jobs, Jobs, BudgetState, Closed

LEMMA BudgetCardinality == ASSUME NEW S PROVE Budget!Cardinality(S) = Cardinality(S)
BY DEF Budget!Cardinality, Cardinality, Budget!IsFiniteSet, IsFiniteSet

\* A target is launched only while nothing has failed: those that failed in
\* types before would have closed the run.
LEMMA BudgetStart ==
  ASSUME IInv, NEW i \in Jobs, Launch(i)
  PROVE  Budget!Start(i)
<1>1. st[i] = "todo" /\ st' = [st EXCEPT ![i] = "launched"]
  BY DEF Launch
<1>2. ~ Closed /\ Closed' = Closed
  BY DEF Launch, InQueue, Closed, IInv, OneQueue
<1>3. \A j \in 1 .. (i - 1) : j \in Jobs /\ BudgetState(j) # "todo"
  <2>1. \A j \in 1 .. (i - 1) : j \in Jobs /\ st[j] # "todo"
    BY RunAssumption DEF Launch, Jobs
  <2> QED BY <2>1 DEF BudgetState, IInv, TypeOK
<1>4. {j \in Jobs : BudgetMap[j] \in {"active", "kept"}} = InFlight
  BY <1>2 DEF BudgetMap, BudgetState, InFlight, IInv, TypeOK, StopHasCause, Closed
<1>5. BudgetState(i) = "todo" /\ BudgetState(i)' = "active"
  BY <1>1 DEF BudgetState, IInv, TypeOK
<1>6. \A j \in Jobs \ {i} : BudgetState(j)' = BudgetState(j)
  BY <1>1 DEF BudgetState, IInv, TypeOK
<1>7. BudgetMap' = [BudgetMap EXCEPT ![i] = "active"] /\ BudgetMap[i] = "todo"
  BY <1>5, <1>6, BudgetMoves DEF BudgetMap
<1>8. Budget!Busy = InFlight
  BY <1>4 DEF Budget!Busy, Budget!Jobs, BudgetMap, Jobs
<1>9. Budget!Cardinality(Budget!Busy) < Parallel
  BY <1>8, BudgetCardinality DEF Launch
<1> QED BY <1>2, <1>3, <1>7, <1>9 DEF Budget!Start, BudgetMap

\* What leaves the targets where they are can at most close the run.
LEMMA BudgetQuiet ==
  ASSUME \A i \in Jobs : BudgetState(i)' = BudgetState(i), Closed => Closed'
  PROVE  [Budget!Next]_(Budget!vars)
<1>1. BudgetMap' = BudgetMap
  BY BudgetSame
<1>2. CASE Closed' = Closed
  BY <1>1, <1>2 DEF Budget!vars, BudgetMap
<1>3. CASE Closed'
  BY <1>1, <1>3 DEF Budget!Next, Budget!Close, BudgetMap
<1> QED BY <1>2, <1>3 DEF Closed

LEMMA BudgetSequence ==
  ASSUME IInv, \/ PlanType \/ Planned \/ AllSkipped \/ CordonNodes \/ PhaseOpens \/ PhaseCloses
               \/ AllTypesDone \/ Report \/ FirstSignal \/ SecondSignal \/ WorkReturns \/ UNCHANGED vars
  PROVE  [Budget!Next]_(Budget!vars)
<1>1. st' = st /\ stopped' = stopped /\ errs \subseteq errs'
  BY DEF PlanType, Planned, AllSkipped, CordonNodes, PhaseOpens, PhaseCloses, AllTypesDone, Report,
     FirstSignal, SecondSignal, WorkReturns, vars, phaseVars, Fail
<1>2. Closed => Closed'
  BY <1>1 DEF Closed
<1>3. \A i \in Jobs : BudgetState(i)' = BudgetState(i)
  BY <1>1 DEF BudgetState
<1> QED BY <1>2, <1>3, BudgetQuiet

LEMMA BudgetJob ==
  ASSUME IInv, NEW i \in Jobs, Patch(i) \/ Doom(i) \/ Succeed(i) \/ JobFails(i)
  PROVE  [Budget!Next]_(Budget!vars)
<1>0. i \in Budget!Jobs
  BY DEF Jobs, Budget!Jobs
<1>1. CASE Patch(i) \/ Doom(i)
  <2>1. \A j \in Jobs : BudgetState(j)' = BudgetState(j)
    BY <1>1 DEF Patch, Doom, BudgetState, IInv, TypeOK
  <2>2. Closed => Closed'
    BY <1>1 DEF Patch, Doom, Closed, IInv, TypeOK
  <2> QED BY <2>1, <2>2, BudgetQuiet
<1>2. CASE Succeed(i)
  <2>1. BudgetState(i) = "active" /\ BudgetState(i)' = "ok"
    BY <1>2 DEF Succeed, BudgetState, IInv, TypeOK
  <2>2. \A j \in Jobs \ {i} : BudgetState(j)' = BudgetState(j)
    BY <1>2 DEF Succeed, BudgetState, IInv, TypeOK
  <2>3. BudgetMap' = [BudgetMap EXCEPT ![i] = "ok"] /\ BudgetMap[i] = "active"
    BY <2>1, <2>2, BudgetMoves DEF BudgetMap
  <2>4. Closed' = Closed
    BY <1>2 DEF Succeed, Closed
  <2> QED BY <1>0, <2>3, <2>4 DEF Budget!Next, Budget!Succeed, BudgetMap
<1>3. CASE JobFails(i)
  <2>1. BudgetState(i) = "active" /\ BudgetState(i)' = "kept"
    BY <1>3 DEF JobFails, BudgetState, IInv, TypeOK
  <2>2. \A j \in Jobs \ {i} : BudgetState(j)' = BudgetState(j)
    BY <1>3 DEF JobFails, BudgetState, IInv, TypeOK
  <2>3. BudgetMap' = [BudgetMap EXCEPT ![i] = "kept"] /\ BudgetMap[i] = "active"
    BY <2>1, <2>2, BudgetMoves DEF BudgetMap
  <2>4. Closed /\ Closed' = Closed
    BY <1>3 DEF JobFails, Closed, IInv, StopHasCause
  <2> QED BY <1>0, <2>3, <2>4 DEF Budget!Next, Budget!Keep, BudgetMap
<1> QED BY <1>1, <1>2, <1>3

\* Turning away the rest of a type, whether its queue runs or is skipped.
LEMMA BudgetRefuse ==
  ASSUME IInv, Refuse \/ SkipType \/ PhaseSkipped
  PROVE  [Budget!Next]_(Budget!vars)
<1>1. CASE ~ Refuse /\ interrupted
  <2>1. st' = st /\ Closed'
    BY <1>1 DEF SkipType, PhaseSkipped, NotStarted, Closed
  <2> QED BY <2>1, BudgetQuiet DEF BudgetState
<1>2. CASE Refuse \/ ~ interrupted
  <2>1. Closed /\ Closed'
    BY <1>2 DEF Refuse, SkipType, PhaseSkipped, NotStarted, Closed, IInv, NoErrors, Working
  <2>2. \A i \in Jobs : st'[i] = IF i \in JobsOf(type) /\ st[i] = "todo" THEN "refused" ELSE st[i]
    BY <1>2 DEF Refuse, SkipType, PhaseSkipped, NotStarted, IInv, InOrder, NotYet, JobsOf, Working, TypeOK
  <2>3. \A i \in Jobs : BudgetState(i)' =
          IF i \in JobsOf(type) /\ BudgetState(i) = "todo" THEN "refused" ELSE BudgetState(i)
    BY <2>2 DEF BudgetState, IInv, TypeOK
  <2>4. JobsOf(type) \subseteq Budget!Jobs
    BY DEF JobsOf, Jobs, Budget!Jobs
  <2>5. Budget!Refuse(JobsOf(type))
    BY <2>1, <2>3 DEF Budget!Refuse, Budget!Jobs, Jobs
  <2> QED BY <2>4, <2>5 DEF Budget!Next
<1> QED BY <1>1, <1>2

LEMMA BudgetStep == IInv /\ [Next]_vars => [Budget!Next]_(Budget!vars)
<1> SUFFICES ASSUME IInv, [Next]_vars PROVE [Budget!Next]_(Budget!vars)
  OBVIOUS
<1>1. CASE Sequence
  BY <1>1, BudgetSequence, BudgetRefuse DEF Sequence
<1>2. ASSUME NEW i \in Jobs, Job(i) PROVE [Budget!Next]_(Budget!vars)
  <2>1. i \in Budget!Jobs
    BY DEF Jobs, Budget!Jobs
  <2>2. CASE Launch(i)
    BY <2>1, <2>2, BudgetStart DEF Budget!Next
  <2> QED BY <1>2, <2>2, BudgetJob DEF Job
<1>3. CASE FirstSignal \/ SecondSignal \/ WorkReturns \/ Ended \/ UNCHANGED vars
  BY <1>3, BudgetSequence DEF Ended
<1> QED BY <1>1, <1>2, <1>3 DEF Next

\* Across its types and up to its end, the run never has more than Parallel
\* restarts out, and gives no slot of a failed one to a new target.
THEOREM RunRefinement == Spec => RunImplementsBudget
BY BudgetInit, BudgetStep, RunIInv, PTL DEF Spec, RunImplementsBudget, Budget!Spec
==============================================================================
