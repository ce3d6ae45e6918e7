---------------------------- MODULE HarnessProofs ----------------------------
(***************************************************************************)
(* What the steps of the harness preserve whatever the operations are: ML  *)
(* and IL are the labels of the operations of the measuring thread and of  *)
(* the interfering threads.                                                *)
(***************************************************************************)
EXTENDS Harness, TLAPS

(* TypeOK, in parts. *)
PcType(ML, IL) == pc \in [Threads -> Labels \cup (ML \cup IL)]
FlagsType ==
  /\ stop \in BOOLEAN /\ sigint_fired \in BOOLEAN /\ alarm_fired \in BOOLEAN
  /\ timer \in {"off", "armed"}
SignalsType ==
  /\ shared \subseteq Signals /\ pending \in [Threads -> SUBSET Signals]
  /\ sigints \in 0 .. MaxSigints
ProgressType ==
  /\ todo \in Seq(Run) /\ tid \in 0 .. NrInterfering /\ sample \in Nat
  /\ out \in Seq([run : Run, sample : Nat])

MainLabels == {"run", "spawn", "join_t", "kill", "join", "exit", "aborted"}
MeasurerLabels == {"none", "start", "sample", "armed", "loop", "report", "done"}
InterfererLabels == {"none", "spawned", "loop", "done"}

LabelsOK(ML, IL) ==
  /\ pc[Main] \in MainLabels
  /\ pc[Measurer] \in MeasurerLabels \cup ML
  /\ \A t \in Interferers : pc[t] \in InterfererLabels \cup IL

OperationLabels(ML, IL) ==
  /\ "op" \in ML /\ "op" \in IL
  /\ \A l \in ML \cup IL : l \in Labels => l = "op"
  /\ "blocked" \in ML => "eintr" \in ML
  /\ "blocked" \in IL => "eintr" \in IL

(* A run in progress is the first one left, and the measuring thread       *)
(* exists while the main thread waits to join it.                          *)
RunOK ==
  /\ pc[Main] \notin {"run", "exit", "aborted"} => todo # << >>
  /\ pc[Measurer] # "none" <=> pc[Main] = "join_t"

(* Which interfering threads exist. *)
InterferersOK ==
  /\ pc[Main] \in {"run", "exit", "aborted"} => \A t \in Interferers : pc[t] = "none"
  /\ pc[Main] \notin {"run", "exit", "aborted"} =>
       \A t \in Interferers \ Interfering : pc[t] = "none"
  /\ pc[Main] = "spawn" =>
       \A t \in Interferers : IF t < tid THEN Live(t) ELSE pc[t] = "none"
  /\ pc[Main] = "join_t" /\ ~ stop => \A t \in Interfering : Live(t)
  /\ pc[Main] = "join" => \A t \in Interferers : t < tid => pc[t] = "none"

(* stop is set by the last step of a measurement. *)
StopOK ==
  /\ pc[Main] = "spawn" => ~ stop
  /\ pc[Main] = "join_t" /\ stop => pc[Measurer] \in {"report", "done"}
  /\ pc[Measurer] = "report" /\ run.kind = "energy" => ~ stop

(* Only a thread that runs has signals pending. *)
PendingOK == \A th \in Workers : pc[th] \in {"none", "done"} => pending[th] = {}

HarnessInv(ML, IL) ==
  /\ PcType(ML, IL) /\ FlagsType /\ SignalsType /\ ProgressType
  /\ LabelsOK(ML, IL) /\ RunOK /\ InterferersOK /\ StopOK /\ PendingOK

-----------------------------------------------------------------------------
LEMMA PlanType == Plans \subseteq Seq(Run)
<1>1. ASSUME NEW b \in benchmarks, NEW k \in {"latency", "energy"}, NEW s \in Scenario
      PROVE  RunIf(b, k, s) \in Seq(Run)
  <2> DEFINE r == [benchmark |-> b, kind |-> k, scenario |-> s]
  <2>1. r \in Run
    BY DEF Run
  <2>2. << r >> \in Seq(Run) /\ << >> \in Seq(Run)
    BY <2>1
  <2>3. QED
    BY <2>2 DEF RunIf
<1>2. ASSUME NEW b \in benchmarks, NEW k \in {"latency", "energy"}
      PROVE  Benchmarks(b, k) \in Seq(Run)
  BY <1>1 DEF Benchmarks, Scenario, InterferenceScenario
<1>3. ASSUME NEW b \in benchmarks
      PROVE  Plan(b) \in Seq(Run)
  BY <1>2 DEF Plan
<1>4. QED
  BY <1>3 DEF Plans

LEMMA Ids ==
  /\ NrInterfering \in Nat
  /\ Main = NrInterfering /\ Measurer = NrInterfering + 1
  /\ Threads = 0 .. NrInterfering + 1
  /\ Interferers = 0 .. NrInterfering - 1
  /\ Workers = Interferers \cup {Measurer}
  /\ Main \in Threads /\ Measurer \in Threads /\ Main # Measurer
  /\ Main \notin Interferers /\ Measurer \notin Interferers
  /\ Interferers \subseteq Threads
BY HarnessAssumption DEF Main, Measurer, Threads, Interferers, Workers

LEMMA TailType ==
  ASSUME NEW S, NEW s \in Seq(S), s # << >>
  PROVE  Tail(s) \in Seq(S)
OBVIOUS

LEMMA InitInv ==
  ASSUME NEW ML, NEW IL, HarnessInit
  PROVE  HarnessInv(ML, IL)
<1> USE Ids DEF HarnessInit
<1>1. PcType(ML, IL)
  BY DEF PcType, Labels
<1>2. FlagsType
  BY DEF FlagsType
<1>3. SignalsType
  BY HarnessAssumption DEF SignalsType
<1>4. ProgressType
  BY PlanType DEF ProgressType
<1>5. LabelsOK(ML, IL)
  BY DEF LabelsOK, MainLabels, MeasurerLabels, InterfererLabels
<1>6. RunOK /\ InterferersOK /\ StopOK
  BY DEF RunOK, InterferersOK, StopOK
<1>7. PendingOK
  BY DEF PendingOK
<1>8. QED
  BY <1>1, <1>2, <1>3, <1>4, <1>5, <1>6, <1>7 DEF HarnessInv

LEMMA MainInv ==
  ASSUME NEW ML, NEW IL, OperationLabels(ML, IL), HarnessInv(ML, IL),
         MainStep \/ StartRun \/ ReturnFromRun
  PROVE  HarnessInv(ML, IL)'
<1> USE Ids
    DEF MainStep, StartRun, SkipRun, SpawnInterfering, SpawnMeasuring,
        JoinMeasuring, KillInterfering, AllKilled, JoinInterfering, ReturnFromRun, Exit,
        MainAt, At, Goto, rows, signals, flags
<1>0. /\ PcType(ML, IL) /\ FlagsType /\ SignalsType /\ ProgressType
      /\ LabelsOK(ML, IL) /\ RunOK /\ InterferersOK /\ StopOK /\ PendingOK
  BY DEF HarnessInv
<1>1. PcType(ML, IL)'
  BY <1>0 DEF PcType, Labels
<1>2. FlagsType'
  BY <1>0 DEF PcType, FlagsType
<1>3. SignalsType'
  BY <1>0 DEF SignalsType, Signals, Interfering
<1>4. ProgressType'
  <2>1. CASE SkipRun \/ ReturnFromRun
    <3>1. todo # << >>
      BY <1>0, <2>1 DEF RunOK
    <3>2. todo' \in Seq(Run)
      <4>1. todo' = Tail(todo) /\ todo \in Seq(Run)
        BY <1>0, <2>1 DEF ProgressType
      <4>2. QED
        BY ONLY <3>1, <4>1, TailType
    <3>3. UNCHANGED <<tid, sample, out>>
      BY <2>1
    <3>4. QED
      BY <1>0, <3>2, <3>3 DEF ProgressType
  <2>2. CASE SpawnInterfering \/ KillInterfering \/ JoinInterfering
    <3>1. tid' \in 0 .. NrInterfering
      BY <1>0, <2>2 DEF ProgressType, Interfering
    <3>2. UNCHANGED <<todo, sample, out>>
      BY <2>2
    <3>3. QED
      BY <1>0, <3>1, <3>2 DEF ProgressType
  <2>3. CASE StartRun \/ SpawnMeasuring \/ JoinMeasuring \/ AllKilled \/ Exit
    <3>1. UNCHANGED <<todo, out>> /\ tid' \in {0, tid} /\ sample' \in {0, sample}
      BY <2>3
    <3>2. QED
      BY <1>0, <3>1, HarnessAssumption DEF ProgressType
  <2>4. QED
    BY <2>1, <2>2, <2>3
<1>5. LabelsOK(ML, IL)'
  BY <1>0
  DEF PcType, LabelsOK, MainLabels, MeasurerLabels, InterfererLabels, Interfering,
      ProgressType
<1>6. RunOK'
  <2>1. CASE SkipRun \/ StartRun \/ Exit \/ ReturnFromRun
    BY <1>0, <2>1 DEF PcType, RunOK
  <2>2. CASE SpawnInterfering \/ JoinInterfering
    BY <1>0, <2>2 DEF PcType, RunOK, Interfering
  <2>3. CASE SpawnMeasuring
    BY <1>0, <2>3 DEF PcType, RunOK
  <2>4. CASE JoinMeasuring \/ KillInterfering \/ AllKilled
    BY <1>0, <2>4 DEF PcType, RunOK
  <2>5. QED
    BY <2>1, <2>2, <2>3, <2>4
<1>7. InterferersOK'
  <2>0. CASE SkipRun \/ Exit
    BY <1>0, <2>0 DEF PcType, InterferersOK
  <2>1. CASE StartRun
    <3>1. \A t \in Interferers : pc'[t] = "none" /\ ~ (t < tid')
      BY <1>0, <2>1 DEF PcType, InterferersOK
    <3>2. pc'[Main] = "spawn"
      BY <1>0, <2>1 DEF PcType
    <3>3. QED
      BY <3>1, <3>2 DEF InterferersOK
  <2>2. CASE SpawnInterfering
    BY <1>0, <2>2 DEF PcType, InterferersOK, Interfering, run, Live, ProgressType
  <2>3. CASE SpawnMeasuring
    BY <1>0, <2>3 DEF PcType, InterferersOK, Interfering, run, Live, ProgressType
  <2>4. CASE JoinMeasuring \/ KillInterfering \/ AllKilled
    BY <1>0, <2>4 DEF PcType, InterferersOK, Interfering, run
  <2>5. CASE JoinInterfering
    BY <1>0, <2>5 DEF PcType, InterferersOK, Interfering, run, ProgressType
  <2>6. CASE ReturnFromRun
    <3>1. \A t \in Interferers : t < tid \/ t \notin Interfering
      BY <1>0, <2>6 DEF ProgressType, Interfering
    <3>2. \A t \in Interferers : pc[t] = "none"
      BY <1>0, <2>6, <3>1 DEF InterferersOK
    <3>3. QED
      BY <1>0, <2>6, <3>2 DEF PcType, InterferersOK
  <2>7. QED
    BY <2>0, <2>1, <2>2, <2>3, <2>4, <2>5, <2>6
<1>8. StopOK'
  <2>1. CASE SkipRun \/ StartRun \/ Exit \/ ReturnFromRun
    BY <1>0, <2>1 DEF PcType, StopOK, RunOK
  <2>2. CASE SpawnMeasuring
    BY <1>0, <2>2 DEF PcType, StopOK, RunOK
  <2>3. CASE SpawnInterfering \/ JoinInterfering
    BY <1>0, <2>3 DEF PcType, StopOK, RunOK, Interfering, run
  <2>4. CASE JoinMeasuring \/ KillInterfering \/ AllKilled
    BY <1>0, <2>4 DEF PcType, StopOK, RunOK, run
  <2>5. QED
    BY <2>1, <2>2, <2>3, <2>4
<1>9. PendingOK'
  <2>1. CASE SkipRun \/ StartRun \/ Exit \/ ReturnFromRun \/ AllKilled
    BY <1>0, <2>1 DEF PcType, PendingOK
  <2>2. CASE SpawnInterfering
    BY <1>0, <2>2 DEF PcType, PendingOK, Interfering, LabelsOK, InterfererLabels
  <2>3. CASE SpawnMeasuring \/ JoinMeasuring
    BY <1>0, <2>3 DEF PcType, PendingOK
  <2>4. CASE KillInterfering
    BY <1>0, <2>4 DEF PcType, PendingOK, SignalsType, Live
  <2>5. CASE JoinInterfering
    BY <1>0, <2>5 DEF PcType, PendingOK, Interfering
  <2>6. QED
    BY <2>1, <2>2, <2>3, <2>4, <2>5
<1>10. QED
  BY <1>1, <1>2, <1>3, <1>4, <1>5, <1>6, <1>7, <1>8, <1>9 DEF HarnessInv

LEMMA MeasuringInv ==
  ASSUME NEW ML, NEW IL, OperationLabels(ML, IL), HarnessInv(ML, IL), MeasuringStep
  PROVE  HarnessInv(ML, IL)'
<1> USE Ids
    DEF MeasuringStep, ArmAlarm, OpenMsr, NoMsr, BeginSample,
        EndSamples, ResetAlarm, BeginOperation, EndMeasurement, ReportLatency,
        ReportEnergy, ExitThread, Row, MainAt, At, Goto, rows, signals, flags
<1>0. /\ PcType(ML, IL) /\ FlagsType /\ SignalsType /\ ProgressType
      /\ LabelsOK(ML, IL) /\ RunOK /\ InterferersOK /\ StopOK /\ PendingOK
  BY DEF HarnessInv
<1>1. PcType(ML, IL)'
  BY <1>0 DEF PcType, Labels
<1>2. FlagsType'
  BY <1>0 DEF PcType, FlagsType
<1>3. SignalsType'
  BY <1>0 DEF PcType, SignalsType, Signals
<1>4. ProgressType'
  <2>1. CASE ReportLatency \/ ReportEnergy
    <3>1. run \in Run
      BY <1>0, <2>1 DEF ProgressType, RunOK, run
    <3>2. Row \in [run : Run, sample : Nat]
      BY <1>0, <3>1 DEF ProgressType
    <3>3. out' \in Seq([run : Run, sample : Nat])
      <4> DEFINE R == [run : Run, sample : Nat]
      <4>1. out \in Seq(R)
        BY <1>0 DEF ProgressType
      <4>2. out' = Append(out, Row)
        BY <2>1
      <4>3. Row \in R
        BY <3>2
      <4>4. out' \in Seq(R)
        <5> HIDE DEF R, Row
        <5>1. QED
          BY <4>1, <4>2, <4>3
      <4>5. QED
        BY <4>4
    <3>4. QED
      BY <1>0, <2>1, <3>3 DEF ProgressType
  <2>2. CASE ~ (ReportLatency \/ ReportEnergy)
    BY <1>0, <2>2 DEF ProgressType
  <2>3. QED
    BY <2>1, <2>2
<1>5. LabelsOK(ML, IL)'
  BY <1>0 DEF PcType, LabelsOK, MeasurerLabels, OperationLabels
<1>6. RunOK'
  BY <1>0 DEF PcType, RunOK, LabelsOK, MainLabels, MeasurerLabels, InterfererLabels
<1>7. InterferersOK'
  BY <1>0 DEF PcType, InterferersOK, RunOK, ProgressType, Interfering, run, Live
<1>8. StopOK'
  <2>1. pc[Main] = "join_t" /\ pc'[Main] = "join_t" /\ run' = run
    BY <1>0 DEF PcType, RunOK, run
  <2>2. pc[Measurer] # "report" => ~ stop
    BY <1>0, <2>1 DEF StopOK
  <2>3. CASE NoMsr \/ EndSamples
    BY <1>0, <2>1, <2>3 DEF PcType, StopOK
  <2>4. CASE EndMeasurement
    BY <1>0, <2>1, <2>2, <2>4 DEF PcType, StopOK
  <2>5. CASE ReportLatency \/ ReportEnergy
    BY <1>0, <2>1, <2>5 DEF PcType, StopOK
  <2>6. CASE ~ (NoMsr \/ EndSamples \/ EndMeasurement \/ ReportLatency \/ ReportEnergy)
    <3>1. pc[Measurer] # "report" /\ stop' = stop
      BY <2>6
    <3>2. QED
      BY <2>1, <2>2, <3>1 DEF StopOK
  <2>7. QED
    BY <2>3, <2>4, <2>5, <2>6
<1>9. PendingOK'
  BY <1>0
  DEF PcType, PendingOK, SignalsType, LabelsOK, MainLabels, MeasurerLabels,
      InterfererLabels, Interfering, Live
<1>10. QED
  BY <1>1, <1>2, <1>3, <1>4, <1>5, <1>6, <1>7, <1>8, <1>9 DEF HarnessInv

LEMMA InterferingInv ==
  ASSUME NEW ML, NEW IL, OperationLabels(ML, IL), HarnessInv(ML, IL), NEW t \in Interferers,
         InterferingStep(t)
  PROVE  HarnessInv(ML, IL)'
<1> USE Ids
    DEF InterferingStep, BindInterfering, CheckStop, ExitThread, At, Goto, rows, signals, flags
<1>0. /\ PcType(ML, IL) /\ FlagsType /\ SignalsType /\ ProgressType
      /\ LabelsOK(ML, IL) /\ RunOK /\ InterferersOK /\ StopOK /\ PendingOK
  BY DEF HarnessInv
<1>1. PcType(ML, IL)'
  BY <1>0 DEF PcType, Labels
<1>2. FlagsType'
  BY <1>0 DEF PcType, FlagsType
<1>3. SignalsType'
  BY <1>0 DEF PcType, SignalsType, Signals
<1>4. ProgressType'
  BY <1>0 DEF PcType, ProgressType, RunOK, Interfering, run
<1>5. LabelsOK(ML, IL)'
  BY <1>0 DEF PcType, LabelsOK, InterfererLabels, OperationLabels
<1>6. RunOK'
  BY <1>0 DEF PcType, RunOK, LabelsOK, MainLabels, MeasurerLabels, InterfererLabels
<1>7. InterferersOK'
  BY <1>0 DEF PcType, InterferersOK, StopOK, Interfering, run, Live
<1>8. StopOK'
  BY <1>0 DEF PcType, StopOK, RunOK, run
<1>9. PendingOK'
  BY <1>0
  DEF PcType, PendingOK, SignalsType, LabelsOK, MainLabels, MeasurerLabels,
      InterfererLabels, Interfering, Live
<1>10. QED
  BY <1>1, <1>2, <1>3, <1>4, <1>5, <1>6, <1>7, <1>8, <1>9 DEF HarnessInv

SignalStep == TimerExpires \/ UserSigint \/ \E th \in Threads : Handler(th)

LEMMA SignalInv ==
  ASSUME NEW ML, NEW IL, OperationLabels(ML, IL), HarnessInv(ML, IL), SignalStep
  PROVE  HarnessInv(ML, IL)'
<1> USE Ids DEF rows, signals, flags
<1>0. /\ PcType(ML, IL) /\ FlagsType /\ SignalsType /\ ProgressType
      /\ LabelsOK(ML, IL) /\ RunOK /\ InterferersOK /\ StopOK /\ PendingOK
  BY DEF HarnessInv
<1>1. CASE UserSigint \/ TimerExpires
  <2>1. UNCHANGED <<todo, pc, tid, stop, pending, rows>>
    BY <1>1 DEF UserSigint, TimerExpires
  <2>2. PcType(ML, IL)' /\ ProgressType' /\ LabelsOK(ML, IL)'
    BY <1>0, <2>1 DEF PcType, ProgressType, LabelsOK
  <2>3. RunOK' /\ StopOK' /\ PendingOK'
    BY <1>0, <2>1 DEF RunOK, StopOK, PendingOK, run
  <2>4. InterferersOK'
    BY <1>0, <2>1 DEF InterferersOK, Interfering, run, Live
  <2>5. FlagsType'
    BY <1>0, <1>1 DEF UserSigint, TimerExpires, FlagsType
  <2>6. SignalsType'
    <3>1. shared' \subseteq Signals
      BY <1>0, <1>1 DEF UserSigint, TimerExpires, SignalsType, Signals
    <3>2. sigints' \in 0 .. MaxSigints
      BY <1>0, <1>1, HarnessAssumption DEF UserSigint, TimerExpires, SignalsType
    <3>3. QED
      BY <1>0, <2>1, <3>1, <3>2 DEF SignalsType
  <2>7. QED
    BY <2>2, <2>3, <2>4, <2>5, <2>6 DEF HarnessInv
<1>2. ASSUME NEW th \in Threads, Handler(th)
      PROVE  HarnessInv(ML, IL)'
  <2>0. PICK sig \in Signals : Deliver(th, sig)
    BY <1>2 DEF Handler, signal_handler, alarm_signal_handler, Signals
  <2>1. /\ UNCHANGED <<todo, tid, stop, timer, sigints, rows>>
        /\ pc' = [pc EXCEPT ![th] = IF @ = "blocked" THEN "eintr" ELSE @]
    BY <2>0 DEF Deliver
  <2>2. \A x \in Threads :
          pc'[x] = pc[x] \/ (x \in Workers /\ pc[x] = "blocked" /\ pc'[x] = "eintr")
    BY <1>0, <2>1 DEF PcType, LabelsOK, MainLabels
  <2>3. "blocked" \notin Labels /\ "eintr" \notin Labels
    BY DEF Labels
  <2>4. LabelsOK(ML, IL)'
    BY <1>0, <2>2 DEF LabelsOK, OperationLabels, MeasurerLabels, InterfererLabels
  <2>5. PcType(ML, IL)'
    <3>1. pc[th] = "blocked" => "eintr" \in ML \cup IL
      BY <1>0, <2>3 DEF LabelsOK, OperationLabels, MainLabels, MeasurerLabels,
                        InterfererLabels
    <3>2. QED
      BY <1>0, <2>1, <3>1 DEF PcType
  <2>6. pc'[Main] = pc[Main]
    BY <2>2
  <2>7. RunOK' /\ ProgressType' /\ StopOK'
    BY <1>0, <2>1, <2>2, <2>6 DEF RunOK, ProgressType, StopOK, run
  <2>8. InterferersOK'
    BY <1>0, <2>1, <2>2, <2>6 DEF InterferersOK, Interfering, run, Live
  <2>9. FlagsType' /\ SignalsType'
    <3>1. FlagsType'
      BY <1>0, <1>2, <2>1
      DEF FlagsType, Handler, signal_handler, alarm_signal_handler
    <3>2. shared' \subseteq Signals /\ pending' \in [Threads -> SUBSET Signals]
      BY <1>0, <2>0 DEF SignalsType, Deliver
    <3>3. QED
      BY <1>0, <2>1, <3>1, <3>2 DEF SignalsType
  <2>10. PendingOK'
    BY <1>0, <2>0, <2>2 DEF SignalsType, PendingOK, Live, Deliver
  <2>11. QED
    BY <2>4, <2>5, <2>7, <2>8, <2>9, <2>10 DEF HarnessInv
<1>3. QED
  BY <1>1, <1>2 DEF SignalStep

(* A step of operations, which changes nothing else in the harness.        *)
OperationsOnly(ML, IL) ==
  /\ UNCHANGED <<todo, tid, flags, timer, signals, rows>>
  /\ pc' \in [Threads -> Labels \cup (ML \cup IL)]
  /\ \A th \in Threads :
       \/ pc'[th] = pc[th]
       \/ th = Measurer /\ pc[th] \in ML /\ pc'[th] \in ML \cup {"loop"}
       \/ th \in Interferers /\ pc[th] \in IL /\ pc'[th] \in IL \cup {"loop"}

LEMMA OperationsInv ==
  ASSUME NEW ML, NEW IL, OperationLabels(ML, IL), HarnessInv(ML, IL),
         OperationsOnly(ML, IL)
  PROVE  HarnessInv(ML, IL)'
<1> USE Ids DEF OperationsOnly, rows, signals, flags
<1>0. /\ PcType(ML, IL) /\ FlagsType /\ SignalsType /\ ProgressType
      /\ LabelsOK(ML, IL) /\ RunOK /\ InterferersOK /\ StopOK /\ PendingOK
  BY DEF HarnessInv
<1>1. PcType(ML, IL)' /\ FlagsType' /\ SignalsType' /\ ProgressType'
  BY <1>0 DEF PcType, FlagsType, SignalsType, ProgressType
<1>2. LabelsOK(ML, IL)'
  BY <1>0 DEF LabelsOK, MeasurerLabels, InterfererLabels
<1>3. pc'[Main] = pc[Main] /\ run' = run
  BY DEF run
<1>4. \A l \in ML \cup IL : l \notin {"none", "done", "exit", "aborted", "report"}
  BY DEF OperationLabels, Labels
<1>5. RunOK'
  BY <1>0, <1>3, <1>4 DEF RunOK
<1>6. InterferersOK'
  BY <1>0, <1>3, <1>4 DEF InterferersOK, Interfering, Live
<1>7. StopOK'
  BY <1>0, <1>3, <1>4 DEF StopOK
<1>8. PendingOK'
  BY <1>0, <1>4 DEF PendingOK
<1>9. QED
  BY <1>1, <1>2, <1>5, <1>6, <1>7, <1>8 DEF HarnessInv

LEMMA AbortInv ==
  ASSUME NEW ML, NEW IL, HarnessInv(ML, IL), Abort,
         UNCHANGED <<todo, tid, flags, timer, shared, sigints, rows>>
  PROVE  HarnessInv(ML, IL)'
<1> USE Ids DEF Abort, rows, flags
<1>0. FlagsType /\ SignalsType /\ ProgressType
  BY DEF HarnessInv
<1>1. PcType(ML, IL)' /\ FlagsType' /\ SignalsType' /\ ProgressType'
  BY <1>0 DEF PcType, FlagsType, SignalsType, ProgressType, Labels
<1>2. LabelsOK(ML, IL)'
  BY DEF LabelsOK, MainLabels, MeasurerLabels, InterfererLabels
<1>3. RunOK' /\ InterferersOK' /\ StopOK' /\ PendingOK'
  BY <1>0 DEF RunOK, InterferersOK, StopOK, PendingOK
<1>4. QED
  BY <1>1, <1>2, <1>3 DEF HarnessInv

LEMMA UnchangedInv ==
  ASSUME NEW ML, NEW IL, HarnessInv(ML, IL), UNCHANGED harnessVars
  PROVE  HarnessInv(ML, IL)'
BY DEF harnessVars, flags, signals, rows, HarnessInv, PcType, FlagsType, SignalsType,
       ProgressType, LabelsOK, RunOK, InterferersOK, StopOK, PendingOK, Interfering, run,
       Live

-----------------------------------------------------------------------------
(* What a step of any program is to the harness.                           *)
HarnessNext(ML, IL) ==
  \/ MainStep \/ StartRun \/ ReturnFromRun
  \/ MeasuringStep
  \/ \E t \in Interferers : InterferingStep(t)
  \/ SignalStep
  \/ OperationsOnly(ML, IL)
  \/ /\ Abort /\ UNCHANGED <<todo, tid, flags, timer, shared, sigints, rows>>
     /\ pc[Main] \notin {"run", "exit", "aborted"}
  \/ UNCHANGED harnessVars

LEMMA NextInv ==
  ASSUME NEW ML, NEW IL, OperationLabels(ML, IL), HarnessInv(ML, IL), HarnessNext(ML, IL)
  PROVE  HarnessInv(ML, IL)'
BY MainInv, MeasuringInv, InterferingInv, SignalInv, OperationsInv, AbortInv, UnchangedInv
   DEF HarnessNext

(* Only a failed assertion aborts the program. *)
LEMMA NoStepAborts ==
  ASSUME NEW ML, NEW IL, HarnessInv(ML, IL), pc[Main] # "aborted",
         \/ MainStep \/ StartRun \/ ReturnFromRun \/ MeasuringStep
         \/ \E t \in Interferers : InterferingStep(t)
         \/ SignalStep \/ OperationsOnly(ML, IL)
  PROVE  pc'[Main] # "aborted"
<1> USE Ids DEF At, MainAt, Goto
<1>0. pc \in [Threads -> Labels \cup (ML \cup IL)]
  BY DEF HarnessInv, PcType
<1>1. CASE MainStep \/ StartRun \/ ReturnFromRun
  BY <1>0, <1>1
  DEF MainStep, SkipRun, StartRun, SpawnInterfering, SpawnMeasuring, JoinMeasuring,
      KillInterfering, AllKilled, JoinInterfering, ReturnFromRun, Exit, Interfering
<1>2. CASE MeasuringStep
  BY <1>0, <1>2
  DEF MeasuringStep, ArmAlarm, OpenMsr, NoMsr, BeginSample, EndSamples, ResetAlarm,
      BeginOperation, EndMeasurement, ReportLatency, ReportEnergy, ExitThread
<1>3. CASE \E t \in Interferers : InterferingStep(t)
  BY <1>0, <1>3 DEF InterferingStep, BindInterfering, CheckStop, ExitThread
<1>4. CASE SignalStep
  BY <1>0, <1>4
  DEF SignalStep, UserSigint, TimerExpires, Handler, signal_handler, alarm_signal_handler,
      Deliver
<1>5. CASE OperationsOnly(ML, IL)
  BY <1>5 DEF OperationsOnly
<1>6. QED
  BY <1>1, <1>2, <1>3, <1>4, <1>5

(* Properties of the harness that any program has. *)
LEMMA InvThreadsWithinRun ==
  ASSUME NEW ML, NEW IL, HarnessInv(ML, IL)
  PROVE  ThreadsWithinRun
BY Ids DEF HarnessInv, ThreadsWithinRun, InterferersOK, RunOK, PendingOK

LEMMA InvInterferenceThroughout ==
  ASSUME NEW ML, NEW IL, OperationLabels(ML, IL), HarnessInv(ML, IL)
  PROVE  InterferenceThroughout
BY Ids DEF HarnessInv, InterferenceThroughout, Measuring, InterferersOK, RunOK, StopOK

-----------------------------------------------------------------------------
(* A run r that nothing interrupts, see Unaffected.                        *)

(* Only interfering threads are sent signals, once the measuring thread is *)
(* joined; and sigint_fired has been reset.                                *)
NoSigint(r) ==
  /\ \A th \in Threads : "SIGALRM" \notin pending[th]
  /\ \A th \in Threads \ Interferers : pending[th] = {}
  /\ pc[Main] \in {"spawn", "join_t"} => \A th \in Interferers : pending[th] = {}
  /\ Within(r) /\ r.kind = "latency" => ~ sigint_fired

(* In the loop over the operations, or in one of them. *)
Looping ==
  pc[Measurer] \notin {"none", "start", "sample", "armed", "report", "done"}

(* The only alarm about is that of the current measurement. *)
OneAlarm(r) ==
  Within(r) /\ pc[Measurer] \notin {"none", "start", "done"} =>
    /\ "SIGALRM" \in shared => timer = "off" /\ ~ alarm_fired /\ Looping
    /\ Looping /\ alarm_fired => timer = "off"
    /\ pc[Measurer] = "report" => timer = "off"

Uninterrupted(r) == NoSigint(r) /\ OneAlarm(r)

LEMMA InitUninterrupted ==
  ASSUME NEW r, HarnessInit
  PROVE  Uninterrupted(r)
BY Ids DEF HarnessInit, Uninterrupted, NoSigint, OneAlarm, Within

LEMMA MainUninterrupted ==
  ASSUME NEW ML, NEW IL, HarnessInv(ML, IL), NEW r, Uninterrupted(r),
         MainStep \/ StartRun \/ ReturnFromRun
  PROVE  Uninterrupted(r)'
<1> USE Ids
    DEF MainStep, StartRun, SkipRun, SpawnInterfering, SpawnMeasuring, JoinMeasuring,
        KillInterfering, AllKilled, JoinInterfering, ReturnFromRun, Exit, MainAt, At, Goto, rows,
        signals, flags
<1>0. /\ PcType(ML, IL) /\ SignalsType /\ ProgressType
      /\ LabelsOK(ML, IL) /\ RunOK /\ InterferersOK /\ StopOK /\ PendingOK
  BY DEF HarnessInv
<1>1. NoSigint(r) /\ OneAlarm(r)
  BY DEF Uninterrupted
<1>2. NoSigint(r)'
  <2>1. CASE KillInterfering
    <3>1. \A th \in Threads : pending'[th] \subseteq pending[th] \cup {"SIGINT"}
      BY <1>0, <2>1 DEF SignalsType, Interfering
    <3>2. \A th \in Threads \ Interferers : pending'[th] = pending[th]
      BY <1>0, <2>1 DEF SignalsType, Interfering
    <3>3. pc'[Main] = "kill"
      BY <2>1
    <3>4. QED
      BY <1>1, <3>1, <3>2, <3>3 DEF NoSigint, Within
  <2>2. CASE ~ KillInterfering
    <3>1. UNCHANGED pending
      BY <2>2
    <3>2. CASE StartRun
      <4>1. \A th \in Interferers : pending[th] = {}
        BY <1>0, <3>2 DEF PendingOK, InterferersOK
      <4>2. run' = run /\ (run.kind = "latency" => ~ sigint_fired')
        BY <3>2 DEF run
      <4>3. QED
        BY <1>1, <3>1, <4>1, <4>2 DEF NoSigint, Within
    <3>3. CASE ~ StartRun
      <4>1. /\ UNCHANGED sigint_fired
            /\ pc'[Main] \in {"spawn", "join_t"} =>
                 pc[Main] \in {"spawn", "join_t"} /\ todo' = todo
        BY <1>0, <2>2, <3>3 DEF PcType, Interfering
      <4>2. QED
        BY <1>1, <3>1, <4>1 DEF NoSigint, Within, run
    <3>4. QED
      BY <3>2, <3>3
  <2>3. QED
    BY <2>1, <2>2
<1>3. OneAlarm(r)'
  <2>1. UNCHANGED <<timer, shared, alarm_fired>>
    OBVIOUS
  <2>2. CASE SpawnMeasuring \/ StartRun
    <3>1. pc'[Measurer] \in {"none", "start"}
      BY <1>0, <2>2 DEF PcType, RunOK
    <3>2. QED
      BY <3>1 DEF OneAlarm
  <2>3. CASE ~ (SpawnMeasuring \/ StartRun)
    <3>1. /\ pc'[Main] \in {"spawn", "join_t"} =>
               /\ pc[Main] \in {"spawn", "join_t"} /\ todo' = todo
               /\ pc'[Measurer] = pc[Measurer]
      BY <1>0, <2>3 DEF PcType, Interfering
    <3>2. QED
      BY <1>1, <2>1, <3>1 DEF OneAlarm, Looping, Within, run
  <2>4. QED
    BY <2>2, <2>3
<1>4. QED
  BY <1>2, <1>3 DEF Uninterrupted

LEMMA MeasuringUninterrupted ==
  ASSUME NEW ML, NEW IL, HarnessInv(ML, IL), NEW r, Unaffected(r), Uninterrupted(r),
         MeasuringStep
  PROVE  Uninterrupted(r)'
<1> USE Ids
    DEF MeasuringStep, ArmAlarm, OpenMsr, NoMsr, BeginSample, EndSamples, ResetAlarm,
        BeginOperation, EndMeasurement, Ended, ReportLatency, ReportEnergy, ExitThread, At, Goto,
        rows, signals, flags
<1>0. /\ PcType(ML, IL) /\ SignalsType /\ ProgressType
      /\ LabelsOK(ML, IL) /\ RunOK /\ InterferersOK /\ StopOK /\ PendingOK
  BY DEF HarnessInv
<1>a. /\ pc[Main] = "join_t" /\ pc'[Main] = "join_t"
      /\ UNCHANGED <<todo, shared, sigint_fired>> /\ Within(r)' = Within(r)
  BY <1>0 DEF PcType, RunOK, Within, run
<1>1. NoSigint(r) /\ OneAlarm(r)
  BY DEF Uninterrupted
<1>2. NoSigint(r)'
  <2>1. \A th \in Threads : pending'[th] = {}
    BY <1>0, <1>1, <1>a DEF NoSigint, SignalsType
  <2>2. QED
    BY <1>1, <1>a, <2>1 DEF NoSigint
<1>3. OneAlarm(r)'
  <2> SUFFICES ASSUME Within(r)
      PROVE  OneAlarm(r)'
    BY <1>a DEF OneAlarm
  <2>1. CASE ArmAlarm \/ OpenMsr
    BY <1>0, <1>a, <2>1 DEF PcType, OneAlarm, Looping, Unaffected
  <2>2. CASE NoMsr \/ EndSamples \/ ReportLatency
    BY <1>0, <2>2 DEF PcType, OneAlarm
  <2>3. CASE BeginSample \/ ResetAlarm \/ BeginOperation \/ ReportEnergy
    BY <1>0, <1>1, <1>a, <2>3 DEF PcType, OneAlarm, Looping
  <2>4. CASE EndMeasurement
    <3>1. alarm_fired
      BY <1>1, <1>a, <2>4 DEF NoSigint, Within
    <3>2. QED
      BY <1>0, <1>1, <1>a, <2>4, <3>1 DEF PcType, OneAlarm, Looping
  <2>5. QED
    BY <2>1, <2>2, <2>3, <2>4
<1>4. QED
  BY <1>2, <1>3 DEF Uninterrupted

LEMMA InterferingUninterrupted ==
  ASSUME NEW ML, NEW IL, OperationLabels(ML, IL), HarnessInv(ML, IL), NEW r,
         Uninterrupted(r), NEW t \in Interferers, InterferingStep(t)
  PROVE  Uninterrupted(r)'
<1> USE Ids
    DEF InterferingStep, BindInterfering, CheckStop, ExitThread, At, Goto, rows, signals, flags
<1>0. PcType(ML, IL) /\ SignalsType
  BY DEF HarnessInv
<1>1. /\ UNCHANGED <<todo, timer, shared, alarm_fired, sigint_fired>>
      /\ pc'[Measurer] = pc[Measurer] /\ pc'[Main] = pc[Main]
      /\ \A th \in Threads : pending'[th] \subseteq pending[th]
  BY <1>0 DEF PcType, SignalsType
<1>2. NoSigint(r) /\ OneAlarm(r)
  BY DEF Uninterrupted
<1>3. NoSigint(r)'
  BY <1>1, <1>2 DEF NoSigint, Within, run
<1>4. OneAlarm(r)'
  BY <1>1, <1>2 DEF OneAlarm, Looping, Within, run
<1>5. QED
  BY <1>3, <1>4 DEF Uninterrupted

LEMMA SignalUninterrupted ==
  ASSUME NEW ML, NEW IL, NoStalls, HarnessInv(ML, IL), NEW r, Unaffected(r),
         Uninterrupted(r), SignalStep
  PROVE  Uninterrupted(r)'
<1> USE Ids DEF rows, signals, flags
<1>0. /\ PcType(ML, IL) /\ SignalsType /\ LabelsOK(ML, IL)
  BY DEF HarnessInv
<1> DEFINE Kept ==
      /\ pc'[Main] = pc[Main] /\ UNCHANGED todo
      /\ \A l \in {"none", "start", "sample", "armed", "report", "done"} :
           pc'[Measurer] = l <=> pc[Measurer] = l
<1>1. Kept
  <2>1. CASE TimerExpires \/ UserSigint
    BY <2>1 DEF TimerExpires, UserSigint
  <2>2. ASSUME NEW th \in Threads, NEW sig \in Signals, Deliver(th, sig)
        PROVE  Kept
    BY <1>0, <2>2 DEF Deliver, PcType, LabelsOK, MainLabels
  <2>3. QED
    BY <2>1, <2>2
    DEF SignalStep, Handler, signal_handler, alarm_signal_handler, Signals
<1>2. Within(r)' = Within(r) /\ Looping' = Looping
  BY <1>1 DEF Within, run, Looping
<1>3. NoSigint(r) /\ OneAlarm(r)
  BY DEF Uninterrupted
<1>4. CASE TimerExpires
  <2>1. UNCHANGED <<pc, todo, alarm_fired, sigint_fired, pending>>
    BY <1>4 DEF TimerExpires
  <2>2. NoSigint(r)'
    BY <1>2, <1>3, <2>1 DEF NoSigint
  <2>3. OneAlarm(r)'
    BY <1>2, <1>3, <1>4 DEF TimerExpires, OneAlarm, Looping
  <2>4. QED
    BY <2>2, <2>3 DEF Uninterrupted
<1>5. CASE UserSigint
  <2>1. /\ UNCHANGED <<pc, todo, timer, alarm_fired, sigint_fired, pending>>
        /\ "SIGALRM" \in shared' => "SIGALRM" \in shared
    BY <1>5 DEF UserSigint
  <2>2. QED
    BY <1>2, <1>3, <2>1 DEF Uninterrupted, NoSigint, OneAlarm
<1>6. ASSUME NEW th \in Threads, signal_handler(th)
      PROVE  Uninterrupted(r)'
  <2>1. /\ UNCHANGED <<timer, alarm_fired>> /\ shared' \subseteq shared
        /\ \A x \in Threads : pending'[x] \subseteq pending[x]
    BY <1>0, <1>6 DEF signal_handler, Deliver, SignalsType
  <2>2. ~ (Within(r) /\ r.kind = "latency")
    BY <1>3, <1>6 DEF Within, NoSigint, Unaffected, signal_handler, Deliver
  <2>3. NoSigint(r)'
    BY <1>1, <1>2, <1>3, <2>1, <2>2 DEF NoSigint
  <2>4. OneAlarm(r)'
    BY <1>1, <1>2, <1>3, <2>1 DEF OneAlarm
  <2>5. QED
    BY <2>3, <2>4 DEF Uninterrupted
<1>7. ASSUME NEW th \in Threads, alarm_signal_handler(th)
      PROVE  Uninterrupted(r)'
  <2>1. /\ UNCHANGED <<timer, sigint_fired>> /\ alarm_fired' = TRUE
        /\ "SIGALRM" \in shared /\ shared' = shared \ {"SIGALRM"} /\ UNCHANGED pending
    BY <1>3, <1>7 DEF alarm_signal_handler, Deliver, NoSigint
  <2>2. NoSigint(r)'
    BY <1>1, <1>2, <1>3, <2>1 DEF NoSigint
  <2>3. OneAlarm(r)'
    BY <1>1, <1>2, <1>3, <2>1 DEF OneAlarm
  <2>4. QED
    BY <2>2, <2>3 DEF Uninterrupted
<1>8. QED
  BY <1>4, <1>5, <1>6, <1>7 DEF SignalStep, Handler

LEMMA OperationsUninterrupted ==
  ASSUME NEW ML, NEW IL, OperationLabels(ML, IL), HarnessInv(ML, IL), NEW r,
         Uninterrupted(r), OperationsOnly(ML, IL)
  PROVE  Uninterrupted(r)'
<1> USE Ids DEF OperationsOnly, signals, flags, rows
<1>1. \A l \in ML : l \notin {"none", "start", "sample", "armed", "report", "done"}
  BY DEF OperationLabels, Labels
<1>2. /\ pc'[Main] = pc[Main] /\ Looping' = Looping /\ Within(r)' = Within(r)
      /\ \A l \in {"none", "start", "sample", "armed", "report", "done"} :
           pc'[Measurer] = l <=> pc[Measurer] = l
  BY <1>1 DEF Looping, Within, run
<1>3. NoSigint(r)' = NoSigint(r)
  BY <1>2 DEF NoSigint
<1>4. OneAlarm(r)' = OneAlarm(r)
  BY <1>2 DEF OneAlarm
<1>5. QED
  BY <1>3, <1>4 DEF Uninterrupted

(* Without stalls, no step cuts short a run that nothing interrupts.       *)
LEMMA NextUninterrupted ==
  ASSUME NoStalls, NEW ML, NEW IL, OperationLabels(ML, IL), HarnessInv(ML, IL),
         HarnessNext(ML, IL), NEW r, Unaffected(r), Uninterrupted(r)
  PROVE  Uninterrupted(r)'
<1>1. CASE Abort
  BY <1>1, Ids DEF Abort, Uninterrupted, NoSigint, OneAlarm, Within
<1>2. CASE UNCHANGED harnessVars
  BY <1>2
  DEF harnessVars, flags, signals, rows, Uninterrupted, NoSigint, OneAlarm, Looping, Within, run
<1>3. QED
  BY <1>1, <1>2, MainUninterrupted, MeasuringUninterrupted, InterferingUninterrupted,
     SignalUninterrupted, OperationsUninterrupted DEF HarnessNext

LEMMA FullIfUninterrupted ==
  ASSUME NEW r, Uninterrupted(r)
  PROVE  Full(r)
BY DEF Uninterrupted, OneAlarm, Full

=============================================================================
