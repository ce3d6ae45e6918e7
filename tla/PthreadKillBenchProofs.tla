------------------------ MODULE PthreadKillBenchProofs ------------------------
(***************************************************************************)
(* Safety of bench-pthread-kill, for every machine, command line and       *)
(* number of interfering threads and samples, with any number of SIGINTs:  *)
(* the invariant is that of the harness, together with where the signal    *)
(* and its acknowledgement are.                                            *)
(***************************************************************************)
EXTENDS PthreadKillBench, BenchPlanProofs

MeasurerOps == {"op", "lock", "usr1", "test", "wait", "relock", "check"}
InterfererOps == {"op", "blocked", "eintr", "time", "store", "signal"}

KillType ==
  /\ remote_tid \in Interferers
  /\ remote_timestamps \in [Interferers -> {"fresh", "stale"}]
  /\ signaled \in [Interferers -> BOOLEAN]
  /\ mutexes \in [Interferers -> {Measurer, nullopt}]
  /\ usr1 \subseteq Interferers
  /\ now \in [Interferers -> {"fresh", "stale"}]

(* OneSignal, from the start of the run to the end of its measurement.     *)
InRun == pc[Main] \in {"spawn", "join_t"}
SignalOK ==
  InRun /\ ~ stop =>
    /\ usr1 \cap Taken = {}
    /\ usr1 \cup Taken =
         IF Sent /\ ~ signaled[remote_tid] THEN {remote_tid} ELSE {}

ResetOK == pc[Measurer] = "usr1" => ~ signaled[remote_tid]

(* The time stored by a thread, and the one acknowledged, are later than   *)
(* the start.                                                              *)
StoredOK ==
  \A t \in Interferers :
    /\ pc[t] = "store" => now[t] = "fresh"
    /\ pc[t] = "signal" => remote_timestamps[t] = "fresh"
Acknowledged == (Sent /\ signaled[remote_tid]) \/ pc[Measurer] = "check"
AcknowledgedOK == Acknowledged => remote_timestamps[remote_tid] = "fresh"

(* No thread is interrupted before the measurement ends. *)
Undisturbed ==
  InRun => \A t \in Interferers : pending[t] = {} /\ pc[t] # "eintr"

KillOK == SignalOK /\ ResetOK /\ StoredOK /\ AcknowledgedOK

Prompt == NoStalls /\ Takers = {Main}
PromptOK == Prompt => KillOK /\ Undisturbed /\ pc[Main] # "aborted"

Inv == HarnessInv(MeasurerOps, InterfererOps) /\ KillType /\ PromptOK

-----------------------------------------------------------------------------
LEMMA KillIds ==
  /\ NrInterfering \in Nat \ {0} /\ 0 \in Interferers
  /\ nullopt # Measurer
  /\ \A t \in Interferers : t # Measurer /\ t # Main
BY Ids, PthreadKillAssumption DEF nullopt

LEMMA OpLabels == OperationLabels(MeasurerOps, InterfererOps)
BY DEF OperationLabels, MeasurerOps, InterfererOps, Labels

LEMMA InitKill == Init => Inv
<1> SUFFICES ASSUME Init PROVE Inv
  OBVIOUS
<1>1. HarnessInv(MeasurerOps, InterfererOps)
  BY InitInv DEF Init
<1>2. pc = [th \in Threads |-> IF th = Main THEN "run" ELSE "none"]
  BY DEF Init, HarnessInit
<1>3. KillType
  BY KillIds DEF Init, KillType
<1>4. PromptOK
  BY <1>2, Ids
  DEF PromptOK, KillOK, SignalOK, InRun, ResetOK, StoredOK, AcknowledgedOK, Acknowledged,
      Sent, Undisturbed
<1>5. QED
  BY <1>1, <1>3, <1>4 DEF Inv

(* A step of the harness leaves what the operations are about alone.       *)
Leaves ==
  /\ UNCHANGED killVars
  /\ \A l \in {"usr1", "test", "wait", "relock", "check"} :
       pc'[Measurer] = l <=> pc[Measurer] = l
  /\ \A t \in Interferers : \A l \in {"time", "store", "signal"} : pc'[t] = l <=> pc[t] = l
  /\ (InRun /\ ~ stop)' => InRun /\ ~ stop

LEMMA LeavesKill ==
  ASSUME KillType, Leaves
  PROVE  KillType' /\ Phase' = Phase /\ (KillOK => KillOK')
<1>1. Sent' = Sent /\ Taken' = Taken /\ Requesting' = Requesting
  BY DEF Leaves, Sent, Taken, Requesting
<1>2. UNCHANGED <<remote_tid, remote_timestamps, signaled, mutexes, usr1, now>>
  BY DEF Leaves, killVars
<1>3. KillType' /\ Phase' = Phase
  BY <1>1, <1>2 DEF KillType, Phase
<1>4. ASSUME KillOK PROVE KillOK'
  <2>1. SignalOK'
    BY <1>1, <1>2, <1>4 DEF KillOK, SignalOK, Leaves
  <2>2. ResetOK' /\ StoredOK' /\ AcknowledgedOK'
    BY <1>1, <1>2, <1>4
    DEF KillOK, ResetOK, StoredOK, AcknowledgedOK, Acknowledged, Leaves
  <2>3. QED
    BY <2>1, <2>2 DEF KillOK
<1>5. QED
  BY <1>3, <1>4

LEMMA MainKill ==
  ASSUME Inv, Keep(MainStep) \/ Keep(ReturnFromRun)
  PROVE  Inv' /\ Phase' = Phase
<1> USE Ids
    DEF Keep, MainStep, SkipRun, SpawnInterfering, SpawnMeasuring, JoinMeasuring,
        KillInterfering, AllKilled, JoinInterfering, ReturnFromRun, Exit, MainAt, At, Goto,
        rows, signals, flags
<1>0. /\ PcType(MeasurerOps, InterfererOps) /\ SignalsType
      /\ RunOK /\ InterferersOK /\ ProgressType /\ KillType /\ PromptOK
  BY DEF Inv, HarnessInv
<1>1. HarnessInv(MeasurerOps, InterfererOps)'
  BY MainInv, OpLabels DEF Inv
<1>2. Leaves
  <2>1. UNCHANGED killVars /\ UNCHANGED stop
    OBVIOUS
  <2>2. \A l \in {"usr1", "test", "wait", "relock", "check"} :
          pc'[Measurer] = l <=> pc[Measurer] = l
    BY <1>0 DEF PcType, RunOK, Interfering
  <2>3. \A t \in Interferers : \A l \in {"time", "store", "signal"} : pc'[t] = l <=> pc[t] = l
    <3>1. CASE SpawnInterfering
      <4>1. pc[tid] = "none" /\ tid \in Interferers
        BY <1>0, <3>1 DEF InterferersOK, Interfering
      <4>2. QED
        BY <1>0, <3>1, <4>1 DEF PcType
    <3>2. CASE JoinInterfering
      BY <1>0, <3>2 DEF PcType
    <3>3. CASE ~ (SpawnInterfering \/ JoinInterfering)
      BY <1>0, <3>3 DEF PcType
    <3>4. QED
      BY <3>1, <3>2, <3>3
  <2>4. InRun' => InRun
    BY <1>0 DEF PcType, InRun, Interfering
  <2>5. QED
    BY <2>1, <2>2, <2>3, <2>4 DEF Leaves
<1>3. ASSUME Undisturbed PROVE Undisturbed'
  <2> SUFFICES ASSUME InRun', NEW t \in Interferers
               PROVE  pending'[t] = {} /\ pc'[t] # "eintr"
    BY DEF Undisturbed
  <2>1. InRun
    BY <1>2, <1>0 DEF PcType, InRun, Interfering
  <2>2. pending' = pending
    BY <1>0, <2>1 DEF InRun, PcType
  <2>3. pc'[t] = pc[t] \/ pc'[t] \in {"spawned", "none"}
    BY <1>0 DEF PcType, Interfering
  <2>4. QED
    BY <1>3, <2>1, <2>2, <2>3 DEF Undisturbed
<1>4. pc'[Main] = "aborted" => pc[Main] = "aborted"
  BY <1>0 DEF PcType, Interfering
<1>5. QED
  BY <1>0, <1>1, <1>2, <1>3, <1>4, LeavesKill DEF Inv, PromptOK

LEMMA StartKill ==
  ASSUME Inv, StartKillRun
  PROVE  Inv' /\ Phase' = Phase
<1> USE Ids
<1>0. /\ PcType(MeasurerOps, InterfererOps) /\ SignalsType
      /\ RunOK /\ InterferersOK /\ PendingOK /\ KillType
  BY DEF Inv, HarnessInv
<1>1. HarnessInv(MeasurerOps, InterfererOps)'
  BY MainInv, OpLabels DEF Inv, StartKillRun
<1>2. /\ pc[Main] = "run" /\ pc' = [pc EXCEPT ![Main] = "spawn"] /\ UNCHANGED pending
      /\ remote_tid' = 0 /\ usr1' = {}
      /\ UNCHANGED <<remote_timestamps, signaled, mutexes, now>>
  BY DEF StartKillRun, StartRun, MainAt, At, Goto, signals
<1>3. /\ pc'[Main] = "spawn" /\ pc[Measurer] = "none" /\ pc'[Measurer] = "none"
      /\ \A t \in Interferers : pc'[t] = "none" /\ pending'[t] = {}
  BY <1>0, <1>2 DEF PcType, RunOK, InterferersOK, PendingOK
<1>4. KillType'
  BY <1>0, <1>2, KillIds DEF KillType
<1>5. ~ Sent' /\ Taken' = {} /\ ~ Requesting /\ ~ Requesting'
  BY <1>3 DEF Sent, Taken, Requesting
<1>6. KillOK'
  BY <1>2, <1>3, <1>5
  DEF KillOK, SignalOK, ResetOK, StoredOK, AcknowledgedOK, Acknowledged
<1>7. Undisturbed' /\ Phase' = Phase
  BY <1>3, <1>5 DEF Undisturbed, Phase
<1>8. QED
  BY <1>1, <1>3, <1>4, <1>6, <1>7 DEF Inv, PromptOK

LEMMA MeasuringKill ==
  ASSUME Inv, Keep(MeasuringStep)
  PROVE  Inv' /\ Phase' = Phase
<1> USE Ids
    DEF Keep, MeasuringStep, ArmAlarm, OpenMsr, NoMsr, BeginSample, EndSamples, ResetAlarm,
        BeginOperation, EndMeasurement, ReportLatency, ReportEnergy, ExitThread, At, Goto,
        signals, flags
<1>0. /\ PcType(MeasurerOps, InterfererOps) /\ SignalsType
      /\ KillType /\ PromptOK
  BY DEF Inv, HarnessInv
<1>1. HarnessInv(MeasurerOps, InterfererOps)'
  BY MeasuringInv, OpLabels DEF Inv
<1>2. \A th \in Threads \ {Measurer} : pc'[th] = pc[th] /\ pending'[th] = pending[th]
  BY <1>0 DEF PcType, SignalsType
<1>3. Leaves
  <2>1. UNCHANGED killVars /\ (stop => stop')
    <3>1. UNCHANGED killVars /\ (stop' = stop \/ stop' = TRUE)
      OBVIOUS
    <3>2. QED
      BY <3>1
  <2>2. \A l \in {"usr1", "test", "wait", "relock", "check"} : pc[Measurer] # l
    OBVIOUS
  <2>3. \A l \in {"usr1", "test", "wait", "relock", "check"} : pc'[Measurer] # l
    BY <1>0 DEF PcType
  <2>4. QED
    BY <1>2, <2>1, <2>2, <2>3 DEF Leaves, InRun
<1>4. Undisturbed => Undisturbed'
  BY <1>2 DEF Undisturbed, InRun
<1>5. QED
  BY <1>0, <1>1, <1>2, <1>3, <1>4, LeavesKill DEF Inv, PromptOK

LEMMA InterferingKill ==
  ASSUME Inv, NEW t \in Interferers, Keep(InterferingStep(t))
  PROVE  Inv' /\ Phase' = Phase
<1> USE Ids
    DEF Keep, InterferingStep, BindInterfering, CheckStop, ExitThread, At, Goto, signals,
        flags
<1>0. /\ PcType(MeasurerOps, InterfererOps) /\ SignalsType /\ KillType /\ PromptOK
  BY DEF Inv, HarnessInv
<1>1. HarnessInv(MeasurerOps, InterfererOps)'
  BY InterferingInv, OpLabels DEF Inv
<1>2. pc'[Main] = pc[Main] /\ pc'[Measurer] = pc[Measurer] /\ stop' = stop
  BY <1>0 DEF PcType
<1>3. \A u \in Interferers :
        /\ u # t => pc'[u] = pc[u]
        /\ pc[t] \notin {"time", "store", "signal", "eintr"}
        /\ pc'[t] \notin {"time", "store", "signal", "eintr"}
        /\ pending[u] = {} => pending'[u] = {}
  BY <1>0 DEF PcType, SignalsType
<1>4. Leaves
  BY <1>2, <1>3 DEF Leaves, InRun
<1>5. Undisturbed => Undisturbed'
  BY <1>2, <1>3 DEF Undisturbed, InRun
<1>6. QED
  BY <1>0, <1>1, <1>2, <1>4, <1>5, LeavesKill DEF Inv, PromptOK

LEMMA SignalKill ==
  ASSUME Inv, Keep(SignalStep)
  PROVE  Inv' /\ Phase' = Phase
<1> USE Ids DEF Keep
<1>0. /\ PcType(MeasurerOps, InterfererOps) /\ SignalsType
      /\ LabelsOK(MeasurerOps, InterfererOps) /\ KillType /\ PromptOK
  BY DEF Inv, HarnessInv
<1>1. HarnessInv(MeasurerOps, InterfererOps)'
  BY SignalInv, OpLabels DEF Inv
<1>2. CASE UserSigint \/ TimerExpires
  <2>1. UNCHANGED <<pc, pending, stop, killVars>>
    BY <1>2 DEF UserSigint, TimerExpires, flags
  <2>2. Leaves /\ (Undisturbed => Undisturbed')
    BY <2>1 DEF Leaves, InRun, Undisturbed
  <2>3. QED
    BY <1>0, <1>1, <2>1, <2>2, LeavesKill DEF Inv, PromptOK
<1>3. ASSUME NEW th \in Threads, Handler(th)
      PROVE  Inv' /\ Phase' = Phase
  <2>1. PICK sig \in Signals : Deliver(th, sig)
    BY <1>3 DEF Handler, signal_handler, alarm_signal_handler, Signals
  <2>2. /\ pc' = [pc EXCEPT ![th] = IF @ = "blocked" THEN "eintr" ELSE @]
        /\ stop' = stop /\ UNCHANGED killVars
    BY <2>1 DEF Deliver
  <2>3. /\ \A x \in Threads : pc'[x] = pc[x] \/ (x = th /\ pc[x] = "blocked" /\ pc'[x] = "eintr")
        /\ pc'[Main] = pc[Main] /\ pc'[Measurer] = pc[Measurer]
    BY <1>0, <2>2
    DEF PcType, LabelsOK, MainLabels, MeasurerLabels, MeasurerOps
  <2>4. Leaves
    BY <2>2, <2>3 DEF Leaves, InRun
  <2>5. ASSUME Prompt, Undisturbed PROVE Undisturbed'
    <3> SUFFICES ASSUME InRun, NEW t \in Interferers
                 PROVE  pending'[t] = {} /\ pc'[t] # "eintr"
      BY <2>3 DEF Undisturbed, InRun
    <3>1. th # t
      BY <2>1, <2>5 DEF Deliver, Undisturbed, Prompt
    <3>2. pc'[t] = pc[t]
      BY <2>3, <3>1
    <3>3. pending'[t] = pending[t]
      BY <1>0, <2>1, <3>1 DEF Deliver, SignalsType
    <3>4. QED
      BY <2>5, <3>2, <3>3 DEF Undisturbed
  <2>6. QED
    BY <1>0, <1>1, <2>3, <2>4, <2>5, LeavesKill DEF Inv, PromptOK
<1>4. QED
  BY <1>2, <1>3 DEF SignalStep

-----------------------------------------------------------------------------
(* The operations. *)

MeasurerOperation ==
  \/ TakeStart \/ LockAndReset \/ SendUsr1 \/ TestSignaled \/ SpuriousWakeup \/ Relock
  \/ CheckTime

(* The measuring thread goes on to l. *)
MeasurerGoes(l) ==
  /\ pc[Measurer] \in MeasurerOps /\ Goto(Measurer, l) /\ UNCHANGED harnessButPc

LEMMA MeasurerGoesInv ==
  ASSUME Inv, NEW l \in MeasurerOps \cup {"loop"}, MeasurerGoes(l)
  PROVE  /\ HarnessInv(MeasurerOps, InterfererOps)' /\ OperationsOnly(MeasurerOps, InterfererOps)
         /\ pc'[Measurer] = l /\ \A th \in Threads \ {Measurer} : pc'[th] = pc[th]
         /\ InRun /\ InRun' /\ ~ stop /\ ~ stop' /\ Taken' = Taken /\ pc'[Main] # "aborted"
         /\ run' = run /\ (Undisturbed => Undisturbed')
<1> USE Ids DEF MeasurerGoes
<1>0. /\ PcType(MeasurerOps, InterfererOps) /\ RunOK /\ StopOK
  BY DEF Inv, HarnessInv
<1>1. /\ pc' = [pc EXCEPT ![Measurer] = l]
      /\ UNCHANGED <<todo, tid, flags, timer, signals, rows>>
  BY DEF Goto, harnessButPc
<1>2. l \in Labels \cup (MeasurerOps \cup InterfererOps)
  BY DEF MeasurerOps, Labels
<1>3. pc'[Measurer] = l /\ \A th \in Threads \ {Measurer} : pc'[th] = pc[th]
  BY <1>0, <1>1 DEF PcType
<1>4. OperationsOnly(MeasurerOps, InterfererOps)
  BY <1>0, <1>1, <1>2 DEF PcType, OperationsOnly
<1>5. HarnessInv(MeasurerOps, InterfererOps)'
  BY <1>4, OperationsInv, OpLabels DEF Inv
<1>6. pc[Main] = "join_t"
  BY <1>0 DEF MeasurerOps, RunOK
<1>7. ~ stop
  BY <1>0, <1>6 DEF MeasurerOps, StopOK
<1>8. InRun /\ InRun' /\ ~ stop' /\ Taken' = Taken /\ pc'[Main] # "aborted"
  BY <1>1, <1>3, <1>6, <1>7, KillIds DEF InRun, Taken, flags
<1>9. run' = run /\ (Undisturbed => Undisturbed')
  BY <1>1, <1>3, <1>8, KillIds DEF run, Undisturbed, signals
<1>10. QED
  BY <1>3, <1>4, <1>5, <1>7, <1>8, <1>9

LEMMA MeasurerOperationKill ==
  ASSUME Inv, MeasurerOperation
  PROVE  Inv' /\ (Prompt => [Shaking!Next]_Phase)
<1> USE KillIds
<1>0. KillType /\ PromptOK
  BY DEF Inv
<1> DEFINE Goal == KillType' /\ (KillOK => KillOK' /\ [Shaking!Next]_Phase)
<1>1. ASSUME NEW l \in MeasurerOps \cup {"loop"}, MeasurerGoes(l), Goal
      PROVE  Inv' /\ (Prompt => [Shaking!Next]_Phase)
  BY <1>0, <1>1, MeasurerGoesInv DEF Inv, PromptOK
<1>2. CASE TakeStart
  <2>1. /\ MeasurerGoes("lock") /\ pc[Measurer] = "op"
        /\ remote_timestamps' = [t \in Interferers |-> "stale"]
        /\ now' = [t \in Interferers |-> "stale"]
        /\ UNCHANGED <<remote_tid, signaled, mutexes, usr1>>
    BY <1>2 DEF TakeStart, At, MeasurerGoes, MeasurerOps
  <2>2. /\ pc'[Measurer] = "lock" /\ Taken' = Taken /\ InRun /\ ~ stop
        /\ \A t \in Interferers : pc'[t] = pc[t]
    BY <2>1, MeasurerGoesInv, Ids DEF MeasurerOps
  <2>3. KillType'
    BY <1>0, <2>1 DEF KillType
  <2>4. ~ Sent /\ ~ Sent' /\ Phase' = Phase
    BY <2>1, <2>2 DEF Sent, Phase, Requesting
  <2>5. ASSUME KillOK PROVE KillOK'
    <3>1. Taken = {} /\ usr1 = {}
      BY <2>2, <2>4, <2>5 DEF KillOK, SignalOK
    <3>2. StoredOK'
      BY <2>2, <3>1 DEF StoredOK, Taken
    <3>3. SignalOK'
      BY <2>1, <2>2, <2>4, <3>1 DEF SignalOK
    <3>4. QED
      BY <2>2, <2>4, <3>2, <3>3 DEF KillOK, ResetOK, AcknowledgedOK, Acknowledged
  <2>6. QED
    BY <1>1, <2>1, <2>3, <2>4, <2>5 DEF MeasurerOps
<1>3. CASE LockAndReset
  <2>1. /\ MeasurerGoes("usr1") /\ pc[Measurer] \in {"op", "lock"}
        /\ mutexes' = [mutexes EXCEPT ![remote_tid] = Measurer]
        /\ signaled' = [signaled EXCEPT ![remote_tid] = FALSE]
        /\ UNCHANGED <<remote_tid, remote_timestamps, usr1, now>>
    BY <1>3 DEF LockAndReset, At, MeasurerGoes, MeasurerOps
  <2>2. /\ pc'[Measurer] = "usr1" /\ Taken' = Taken /\ InRun /\ ~ stop
        /\ \A t \in Interferers : pc'[t] = pc[t]
    BY <2>1, MeasurerGoesInv, Ids DEF MeasurerOps
  <2>3. KillType' /\ ~ signaled'[remote_tid']
    BY <1>0, <2>1 DEF KillType
  <2>4. ~ Sent /\ ~ Sent'
    BY <2>1, <2>2 DEF Sent
  <2>5. Phase = "idle" /\ Phase' = "requested"
    BY <2>1, <2>2, <2>3, <2>4 DEF Phase, Requesting
  <2>6. ASSUME KillOK PROVE KillOK'
    <3>1. Taken = {} /\ usr1 = {}
      BY <2>2, <2>4, <2>6 DEF KillOK, SignalOK
    <3>2. SignalOK'
      BY <2>1, <2>2, <2>4, <3>1 DEF SignalOK
    <3>3. StoredOK'
      BY <2>1, <2>2, <2>6 DEF KillOK, StoredOK
    <3>4. QED
      BY <2>2, <2>3, <2>4, <3>2, <3>3 DEF KillOK, ResetOK, AcknowledgedOK, Acknowledged
  <2>7. QED
    BY <1>1, <2>1, <2>3, <2>5, <2>6 DEF MeasurerOps, Shaking!Next, Shaking!Request
<1>4. CASE SendUsr1
  <2>1. /\ MeasurerGoes("test") /\ pc[Measurer] = "usr1"
        /\ usr1' = usr1 \cup {remote_tid}
        /\ UNCHANGED <<remote_tid, remote_timestamps, signaled, mutexes, now>>
    BY <1>4 DEF SendUsr1, At, MeasurerGoes, MeasurerOps
  <2>2. /\ pc'[Measurer] = "test" /\ Taken' = Taken /\ InRun /\ ~ stop
        /\ \A t \in Interferers : pc'[t] = pc[t]
    BY <2>1, MeasurerGoesInv, Ids DEF MeasurerOps
  <2>3. KillType'
    BY <1>0, <2>1 DEF KillType
  <2>4. ~ Sent /\ Sent' /\ Phase' = Phase
    BY <2>1, <2>2 DEF Sent, Phase, Requesting
  <2>5. ASSUME KillOK PROVE KillOK'
    <3>1. Taken = {} /\ usr1 = {} /\ ~ signaled[remote_tid]
      BY <2>1, <2>2, <2>4, <2>5 DEF KillOK, SignalOK, ResetOK
    <3>2. SignalOK'
      BY <2>1, <2>2, <2>4, <3>1 DEF SignalOK
    <3>3. StoredOK'
      BY <2>1, <2>2, <2>5 DEF KillOK, StoredOK
    <3>4. QED
      BY <2>1, <2>2, <3>1, <3>2, <3>3 DEF KillOK, ResetOK, AcknowledgedOK, Acknowledged
  <2>6. QED
    BY <1>1, <2>1, <2>3, <2>4, <2>5 DEF MeasurerOps
<1>5. CASE TestSignaled
  <2> DEFINE l == IF signaled[remote_tid] THEN "check" ELSE "wait"
  <2>1. /\ MeasurerGoes(l) /\ pc[Measurer] = "test" /\ l \in MeasurerOps
        /\ mutexes' = [mutexes EXCEPT ![remote_tid] = nullopt]
        /\ UNCHANGED <<remote_tid, remote_timestamps, signaled, usr1, now>>
    BY <1>5 DEF TestSignaled, At, MeasurerGoes, MeasurerOps
  <2>2. /\ pc'[Measurer] = l /\ Taken' = Taken /\ InRun /\ ~ stop
        /\ \A t \in Interferers : pc'[t] = pc[t]
    BY <2>1, MeasurerGoesInv, Ids
  <2>3. KillType'
    BY <1>0, <2>1 DEF KillType
  <2>4. Sent /\ (Sent' <=> ~ signaled[remote_tid])
    BY <2>1, <2>2 DEF Sent
  <2>5. ASSUME KillOK PROVE KillOK'
    <3>1. SignalOK'
      BY <2>1, <2>2, <2>4, <2>5 DEF KillOK, SignalOK
    <3>2. StoredOK'
      BY <2>1, <2>2, <2>5 DEF KillOK, StoredOK
    <3>3. AcknowledgedOK'
      BY <2>1, <2>2, <2>4, <2>5 DEF KillOK, AcknowledgedOK, Acknowledged
    <3>4. QED
      BY <2>2, <3>1, <3>2, <3>3 DEF KillOK, ResetOK
  <2>6. [Shaking!Next]_Phase
    <3>1. CASE signaled[remote_tid]
      <4>1. Phase = "answered" /\ Phase' = "idle"
        BY <2>1, <2>2, <2>4, <3>1 DEF Phase, Requesting
      <4>2. QED
        BY <4>1 DEF Shaking!Next, Shaking!Accept
    <3>2. CASE ~ signaled[remote_tid]
      BY <2>1, <2>2, <2>4, <3>2 DEF Phase, Requesting
    <3>3. QED
      BY <3>1, <3>2
  <2>7. QED
    BY <1>1, <2>1, <2>3, <2>5, <2>6
<1>6. CASE SpuriousWakeup \/ Relock
  <2> DEFINE l == IF SpuriousWakeup THEN "relock" ELSE "test"
  <2>1. /\ MeasurerGoes(l) /\ pc[Measurer] \in {"wait", "relock"} /\ l \in MeasurerOps
        /\ mutexes' = mutexes \/ mutexes' = [mutexes EXCEPT ![remote_tid] = Measurer]
        /\ UNCHANGED <<remote_tid, remote_timestamps, signaled, usr1, now>>
    BY <1>6 DEF SpuriousWakeup, Relock, At, MeasurerGoes, MeasurerOps, killVars
  <2>2. /\ pc'[Measurer] = l /\ Taken' = Taken /\ InRun /\ ~ stop
        /\ \A t \in Interferers : pc'[t] = pc[t]
    BY <2>1, MeasurerGoesInv, Ids
  <2>3. KillType'
    BY <1>0, <2>1 DEF KillType
  <2>4. Sent /\ Sent' /\ Phase' = Phase
    BY <2>1, <2>2 DEF Sent, Phase, Requesting
  <2>5. ASSUME KillOK PROVE KillOK'
    <3>1. SignalOK'
      BY <2>1, <2>2, <2>4, <2>5 DEF KillOK, SignalOK
    <3>2. StoredOK'
      BY <2>1, <2>2, <2>5 DEF KillOK, StoredOK
    <3>3. AcknowledgedOK'
      BY <2>1, <2>2, <2>4, <2>5 DEF KillOK, AcknowledgedOK, Acknowledged
    <3>4. QED
      BY <2>2, <3>1, <3>2, <3>3 DEF KillOK, ResetOK
  <2>6. QED
    BY <1>1, <2>1, <2>3, <2>4, <2>5
<1>7. CASE CheckTime
  <2>1. /\ pc[Measurer] = "check" /\ remote_tid' = (remote_tid + 1) % NrInterfering
        /\ UNCHANGED <<remote_timestamps, signaled, mutexes, usr1, now>>
    BY <1>7 DEF CheckTime, At
  <2>2. KillType'
    <3>1. remote_tid' \in Interferers
      BY <1>0, <2>1, Ids DEF KillType
    <3>2. QED
      BY <1>0, <2>1, <3>1 DEF KillType
  <2>3. CASE MeasurerGoes("loop")
    <3>1. /\ pc'[Measurer] = "loop" /\ Taken' = Taken /\ InRun /\ ~ stop
          /\ \A t \in Interferers : pc'[t] = pc[t]
      BY <2>3, MeasurerGoesInv, Ids
    <3>2. ~ Sent /\ ~ Sent' /\ Phase' = Phase
      BY <2>1, <3>1 DEF Sent, Phase, Requesting
    <3>3. ASSUME KillOK PROVE KillOK'
      <4>1. SignalOK'
        BY <2>1, <3>1, <3>2, <3>3 DEF KillOK, SignalOK
      <4>2. StoredOK'
        BY <2>1, <3>1, <3>3 DEF KillOK, StoredOK
      <4>3. QED
        BY <3>1, <3>2, <4>1, <4>2 DEF KillOK, ResetOK, AcknowledgedOK, Acknowledged
    <3>4. QED
      BY <1>1, <2>2, <2>3, <3>2, <3>3
  <2>4. CASE ~ MeasurerGoes("loop")
    <3>1. /\ Abort /\ UNCHANGED <<todo, tid, flags, timer, shared, sigints, rows>>
          /\ remote_timestamps[remote_tid] = "stale"
      BY <1>7, <2>1, <2>4 DEF CheckTime, MeasurerGoes, MeasurerOps
    <3>2. ~ Prompt
      BY <1>0, <2>1, <3>1 DEF PromptOK, KillOK, AcknowledgedOK, Acknowledged
    <3>3. HarnessInv(MeasurerOps, InterfererOps)'
      BY <3>1, AbortInv DEF Inv
    <3>4. QED
      BY <2>2, <3>2, <3>3 DEF Inv, PromptOK, Prompt
  <2>5. QED
    BY <2>3, <2>4
<1>8. QED
  BY <1>2, <1>3, <1>4, <1>5, <1>6, <1>7 DEF MeasurerOperation

InterfererOperation(t) ==
  \/ TakeUsr1(t) \/ WaitForUsr1(t) \/ WaitFails(t) \/ TakeTime(t) \/ StoreTime(t)
  \/ Signal(t)

(* Thread t goes on to l, and may wake up the measuring thread. *)
InterfererGoes(t, l) ==
  /\ pc[t] \in InterfererOps
  /\ \/ Goto(t, l)
     \/ pc' = [pc EXCEPT ![t] = l,
                         ![Measurer] = IF remote_tid = t /\ @ = "wait" THEN "relock" ELSE @]
  /\ UNCHANGED harnessButPc

LEMMA InterfererGoesInv ==
  ASSUME Inv, NEW t \in Interferers, NEW l \in InterfererOps \cup {"loop"}, InterfererGoes(t, l)
  PROVE  /\ HarnessInv(MeasurerOps, InterfererOps)' /\ OperationsOnly(MeasurerOps, InterfererOps)
         /\ pc'[t] = l /\ \A th \in Interferers \ {t} : pc'[th] = pc[th]
         /\ Sent' = Sent /\ Requesting' = Requesting
         /\ \A m \in {"usr1", "check"} : pc'[Measurer] = m <=> pc[Measurer] = m
         /\ InRun' = InRun /\ stop' = stop /\ run' = run
         /\ pc'[Main] = "aborted" => pc[Main] = "aborted"
         /\ Undisturbed => l = "eintr" \/ Undisturbed'
<1> USE Ids, KillIds DEF InterfererGoes
<1>0. PcType(MeasurerOps, InterfererOps)
  BY DEF Inv, HarnessInv
<1>1. /\ UNCHANGED <<todo, tid, flags, timer, signals, rows>>
      /\ pc'[t] = l /\ pc'[Main] = pc[Main]
      /\ \A th \in Interferers \ {t} : pc'[th] = pc[th]
      /\ pc'[Measurer] = pc[Measurer] \/ (pc[Measurer] = "wait" /\ pc'[Measurer] = "relock")
  BY <1>0 DEF PcType, Goto, harnessButPc
<1>2. {l, "relock"} \subseteq Labels \cup (MeasurerOps \cup InterfererOps)
  BY DEF InterfererOps, MeasurerOps, Labels
<1>3. pc' \in [Threads -> Labels \cup (MeasurerOps \cup InterfererOps)]
  <2>1. CASE Goto(t, l)
    BY <1>0, <1>2, <2>1 DEF PcType, Goto
  <2>2. CASE ~ Goto(t, l)
    BY <1>0, <1>2, <2>2 DEF PcType
  <2>3. QED
    BY <2>1, <2>2
<1>4. OperationsOnly(MeasurerOps, InterfererOps)
  <2>1. "wait" \in MeasurerOps /\ "relock" \in MeasurerOps
    BY DEF MeasurerOps
  <2>2. ASSUME NEW th \in Threads
        PROVE  \/ pc'[th] = pc[th]
               \/ th = Measurer /\ pc[th] \in MeasurerOps /\ pc'[th] \in MeasurerOps
               \/ th \in Interferers /\ pc[th] \in InterfererOps
                    /\ pc'[th] \in InterfererOps \cup {"loop"}
    BY <1>1, <2>1
  <2>3. QED
    BY <1>1, <1>3, <2>2 DEF OperationsOnly
<1>5. HarnessInv(MeasurerOps, InterfererOps)'
  BY <1>4, OperationsInv, OpLabels DEF Inv
<1>6. Sent' = Sent /\ Requesting' = Requesting
  BY <1>1 DEF Sent, Requesting
<1>7. InRun' = InRun /\ stop' = stop /\ run' = run
  BY <1>1 DEF InRun, run, flags
<1>8. Undisturbed => l = "eintr" \/ Undisturbed'
  BY <1>1, <1>7 DEF Undisturbed, signals
<1>9. QED
  BY <1>1, <1>4, <1>5, <1>6, <1>7, <1>8

LEMMA InterfererOperationKill ==
  ASSUME Inv, NEW t \in Interferers, InterfererOperation(t)
  PROVE  Inv' /\ (Prompt => [Shaking!Next]_Phase)
<1> USE KillIds
<1>0. KillType /\ PromptOK
  BY DEF Inv
<1> DEFINE Goal == KillType' /\ (Prompt => KillOK' /\ [Shaking!Next]_Phase)
<1>1. ASSUME NEW l \in InterfererOps \cup {"loop"}, l # "eintr", InterfererGoes(t, l), Goal
      PROVE  Inv' /\ (Prompt => [Shaking!Next]_Phase)
  BY <1>0, <1>1, InterfererGoesInv DEF Inv, PromptOK
<1>2. ASSUME Prompt PROVE KillOK /\ Undisturbed
  BY <1>0, <1>2 DEF PromptOK
<1>3. CASE TakeUsr1(t)
  <2>1. /\ InterfererGoes(t, "time") /\ t \in usr1 /\ usr1' = usr1 \ {t}
        /\ UNCHANGED <<remote_tid, remote_timestamps, signaled, mutexes, now>>
    BY <1>3 DEF TakeUsr1, InSigtimedwait, InterfererGoes, InterfererOps
  <2>2. /\ pc'[t] = "time" /\ \A th \in Interferers \ {t} : pc'[th] = pc[th]
        /\ Sent' = Sent /\ Requesting' = Requesting /\ InRun' = InRun /\ stop' = stop
        /\ \A m \in {"usr1", "check"} : pc'[Measurer] = m <=> pc[Measurer] = m
    BY <2>1, InterfererGoesInv DEF InterfererOps
  <2>3. KillType' /\ Phase' = Phase
    BY <1>0, <2>1, <2>2 DEF KillType, Phase
  <2>4. ASSUME KillOK PROVE KillOK'
    <3>1. Taken' = Taken \cup {t}
      BY <2>2 DEF Taken
    <3>2. SignalOK'
      BY <2>1, <2>2, <2>4, <3>1 DEF KillOK, SignalOK
    <3>3. StoredOK'
      BY <2>1, <2>2, <2>4 DEF KillOK, StoredOK
    <3>4. QED
      BY <2>1, <2>2, <2>4, <3>2, <3>3 DEF KillOK, ResetOK, AcknowledgedOK, Acknowledged
  <2>5. QED
    BY <1>1, <1>2, <2>1, <2>3, <2>4 DEF InterfererOps
<1>4. CASE WaitForUsr1(t)
  <2>1. InterfererGoes(t, "blocked") /\ pc[t] = "op" /\ UNCHANGED killVars
    BY <1>4 DEF WaitForUsr1, At, InterfererGoes, InterfererOps
  <2>2. /\ pc'[t] = "blocked" /\ \A th \in Interferers \ {t} : pc'[th] = pc[th]
        /\ InRun' = InRun /\ stop' = stop
    BY <2>1, InterfererGoesInv DEF InterfererOps
  <2>3. pc'[Measurer] = pc[Measurer]
    <3>1. pc' = [pc EXCEPT ![t] = "blocked"] /\ PcType(MeasurerOps, InterfererOps)
      BY <1>4 DEF WaitForUsr1, Goto, Inv, HarnessInv
    <3>2. QED
      BY <3>1, Ids DEF PcType
  <2>4. Leaves
    BY <2>1, <2>2, <2>3 DEF Leaves
  <2>5. QED
    BY <1>0, <1>1, <1>2, <2>1, <2>4, LeavesKill DEF InterfererOps
<1>5. CASE WaitFails(t)
  <2>1. /\ InterfererGoes(t, "time") /\ UNCHANGED killVars
        /\ pc[t] = "eintr" \/ (pc[t] = "blocked" /\ (NoStalls => stop))
    BY <1>5 DEF WaitFails, At, InterfererGoes, InterfererOps
  <2>2. /\ pc'[t] = "time" /\ \A th \in Interferers \ {t} : pc'[th] = pc[th]
        /\ Sent' = Sent /\ Requesting' = Requesting /\ InRun' = InRun /\ stop' = stop
        /\ \A m \in {"usr1", "check"} : pc'[Measurer] = m <=> pc[Measurer] = m
    BY <2>1, InterfererGoesInv DEF InterfererOps
  <2>3. UNCHANGED <<remote_tid, remote_timestamps, signaled, mutexes, usr1, now>>
    BY <2>1 DEF killVars
  <2>4. KillType' /\ Phase' = Phase
    BY <1>0, <2>2, <2>3 DEF KillType, Phase
  <2>5. ASSUME Prompt PROVE KillOK'
    <3>1. ~ InRun \/ stop
      BY <1>2, <2>1, <2>5 DEF Undisturbed, Prompt
    <3>2. SignalOK'
      BY <2>2, <3>1 DEF SignalOK
    <3>3. StoredOK'
      BY <1>2, <2>2, <2>3, <2>5 DEF KillOK, StoredOK
    <3>4. QED
      BY <1>2, <2>2, <2>3, <2>5, <3>2, <3>3
      DEF KillOK, ResetOK, AcknowledgedOK, Acknowledged
  <2>6. QED
    BY <1>1, <2>1, <2>4, <2>5 DEF InterfererOps
<1>6. CASE TakeTime(t)
  <2>1. /\ InterfererGoes(t, "store") /\ pc[t] = "time" /\ now' = [now EXCEPT ![t] = "fresh"]
        /\ UNCHANGED <<remote_tid, remote_timestamps, signaled, mutexes, usr1>>
    BY <1>6 DEF TakeTime, At, InterfererGoes, InterfererOps
  <2>2. /\ pc'[t] = "store" /\ \A th \in Interferers \ {t} : pc'[th] = pc[th]
        /\ Sent' = Sent /\ Requesting' = Requesting /\ InRun' = InRun /\ stop' = stop
        /\ \A m \in {"usr1", "check"} : pc'[Measurer] = m <=> pc[Measurer] = m
    BY <2>1, InterfererGoesInv DEF InterfererOps
  <2>3. KillType' /\ Phase' = Phase
    BY <1>0, <2>1, <2>2 DEF KillType, Phase
  <2>4. ASSUME KillOK PROVE KillOK'
    <3>1. Taken' = Taken
      BY <2>1, <2>2 DEF Taken
    <3>2. SignalOK'
      BY <2>1, <2>2, <2>4, <3>1 DEF KillOK, SignalOK
    <3>3. StoredOK'
      BY <1>0, <2>1, <2>2, <2>4 DEF KillOK, KillType, StoredOK
    <3>4. QED
      BY <2>1, <2>2, <2>4, <3>2, <3>3 DEF KillOK, ResetOK, AcknowledgedOK, Acknowledged
  <2>5. QED
    BY <1>1, <1>2, <2>1, <2>3, <2>4 DEF InterfererOps
<1>7. CASE StoreTime(t)
  <2>1. /\ InterfererGoes(t, "signal") /\ pc[t] = "store"
        /\ remote_timestamps' = [remote_timestamps EXCEPT ![t] = now[t]]
        /\ UNCHANGED <<remote_tid, signaled, mutexes, usr1, now>>
    BY <1>7 DEF StoreTime, At, InterfererGoes, InterfererOps
  <2>2. /\ pc'[t] = "signal" /\ \A th \in Interferers \ {t} : pc'[th] = pc[th]
        /\ Sent' = Sent /\ Requesting' = Requesting /\ InRun' = InRun /\ stop' = stop
        /\ \A m \in {"usr1", "check"} : pc'[Measurer] = m <=> pc[Measurer] = m
    BY <2>1, InterfererGoesInv DEF InterfererOps
  <2>3. KillType' /\ Phase' = Phase
    BY <1>0, <2>1, <2>2 DEF KillType, Phase
  <2>4. ASSUME KillOK PROVE KillOK'
    <3>1. Taken' = Taken
      BY <2>1, <2>2 DEF Taken
    <3>2. SignalOK'
      BY <2>1, <2>2, <2>4, <3>1 DEF KillOK, SignalOK
    <3>3. now[t] = "fresh"
      BY <2>1, <2>4 DEF KillOK, StoredOK
    <3>4. StoredOK'
      BY <1>0, <2>1, <2>2, <2>4, <3>3 DEF KillOK, KillType, StoredOK
    <3>5. AcknowledgedOK'
      BY <1>0, <2>1, <2>2, <2>4, <3>3 DEF KillOK, KillType, AcknowledgedOK, Acknowledged
    <3>6. QED
      BY <2>1, <2>2, <2>4, <3>2, <3>4, <3>5 DEF KillOK, ResetOK
  <2>5. QED
    BY <1>1, <1>2, <2>1, <2>3, <2>4 DEF InterfererOps
<1>8. CASE Signal(t)
  <2>1. /\ InterfererGoes(t, "loop") /\ pc[t] = "signal"
        /\ signaled' = [signaled EXCEPT ![t] = TRUE]
        /\ UNCHANGED <<remote_tid, remote_timestamps, mutexes, usr1, now>>
    BY <1>8 DEF Signal, At, InterfererGoes, InterfererOps
  <2>2. /\ pc'[t] = "loop" /\ \A th \in Interferers \ {t} : pc'[th] = pc[th]
        /\ Sent' = Sent /\ Requesting' = Requesting /\ InRun' = InRun /\ stop' = stop
        /\ \A m \in {"usr1", "check"} : pc'[Measurer] = m <=> pc[Measurer] = m
    BY <2>1, InterfererGoesInv
  <2>3. KillType'
    BY <1>0, <2>1 DEF KillType
  <2>4. Taken' = Taken \ {t} /\ t \in Taken
    BY <2>1, <2>2 DEF Taken
  <2>5. Requesting => InRun /\ ~ stop
    <3>1. RunOK /\ StopOK
      BY DEF Inv, HarnessInv
    <3>2. QED
      BY <3>1 DEF RunOK, StopOK, InRun, Requesting, Sent
  <2>6. ASSUME KillOK, InRun, ~ stop
        PROVE  Sent /\ ~ signaled[remote_tid] /\ t = remote_tid /\ Taken = {t} /\ usr1 = {}
    BY <2>4, <2>6 DEF KillOK, SignalOK
  <2>7. ASSUME KillOK PROVE KillOK' /\ [Shaking!Next]_Phase
    <3>1. SignalOK'
      BY <1>0, <2>1, <2>2, <2>4, <2>6, <2>7 DEF SignalOK, KillType
    <3>2. StoredOK'
      BY <2>1, <2>2, <2>7 DEF KillOK, StoredOK
    <3>3. AcknowledgedOK'
      BY <1>0, <2>1, <2>2, <2>7 DEF KillOK, KillType, StoredOK, AcknowledgedOK, Acknowledged
    <3>4. ResetOK'
      BY <2>1, <2>2, <2>5, <2>6, <2>7 DEF KillOK, ResetOK, Requesting, Sent
    <3>5. CASE InRun /\ ~ stop
      <4>1. Phase = "requested" /\ Phase' = "answered"
        BY <1>0, <2>1, <2>2, <2>6, <2>7, <3>5 DEF Phase, Requesting, KillType
      <4>2. QED
        BY <3>1, <3>2, <3>3, <3>4, <4>1 DEF KillOK, Shaking!Next, Shaking!Answer
    <3>6. CASE ~ (InRun /\ ~ stop)
      <4>1. Phase' = Phase
        BY <2>2, <2>5, <3>6 DEF Phase
      <4>2. QED
        BY <3>1, <3>2, <3>3, <3>4, <4>1 DEF KillOK
    <3>7. QED
      BY <3>5, <3>6
  <2>8. QED
    BY <1>1, <1>2, <2>1, <2>3, <2>7
<1>9. QED
  BY <1>3, <1>4, <1>5, <1>6, <1>7, <1>8 DEF InterfererOperation

LEMMA NextKill ==
  ASSUME Inv, [Next]_vars
  PROVE  Inv' /\ (Prompt => [Shaking!Next]_Phase)
<1>1. CASE MainNext
  BY <1>1, MainKill, StartKill DEF MainNext
<1>2. CASE MeasuringNext \/ SpuriousWakeup
  BY <1>2, MeasuringKill, MeasurerOperationKill DEF MeasuringNext, MeasurerOperation
<1>3. CASE \E t \in Interferers : InterferingNext(t)
  BY <1>3, InterferingKill, InterfererOperationKill DEF InterferingNext, InterfererOperation
<1>4. CASE Keep(TimerExpires) \/ Keep(UserSigint) \/ \E th \in Threads : Keep(Handler(th))
  <2>1. Keep(SignalStep)
    BY <1>4 DEF Keep, SignalStep
  <2>2. QED
    BY <2>1, SignalKill
<1>5. CASE UNCHANGED vars
  <2>1. UNCHANGED <<harnessVars, pc, pending, stop, killVars>>
    BY <1>5 DEF vars, harnessVars, signals, flags
  <2>2. HarnessInv(MeasurerOps, InterfererOps)'
    BY <2>1, UnchangedInv DEF Inv
  <2>3. Leaves /\ (Undisturbed => Undisturbed')
    BY <2>1 DEF Leaves, InRun, Undisturbed
  <2>4. QED
    BY <2>1, <2>2, <2>3, LeavesKill DEF Inv, PromptOK
<1>6. QED
  BY <1>1, <1>2, <1>3, <1>4, <1>5 DEF Next, Ending

LEMMA KillInductive == Spec => []Inv
<1>1. Inv /\ [Next]_vars => Inv'
  BY NextKill
<1>2. QED
  BY <1>1, InitKill, PTL DEF Spec

-----------------------------------------------------------------------------
(* Every variable of the signal wake-up keeps to its type. *)
THEOREM KillTypeCorrect == Spec => []TypeOK
<1>1. Inv => TypeOK
  <2> SUFFICES ASSUME Inv PROVE TypeOK
    OBVIOUS
  <2> DEFINE ops == { "lock", "usr1", "test", "wait", "relock", "check", "blocked",
                      "eintr", "time", "store", "signal" }
  <2>1. Labels \cup (MeasurerOps \cup InterfererOps) = Labels \cup ops
    BY DEF Labels, MeasurerOps, InterfererOps
  <2>2. HarnessTypeOK(ops)
    BY <2>1
    DEF Inv, HarnessInv, HarnessTypeOK, PcType, FlagsType, SignalsType, ProgressType
  <2>3. QED
    BY <2>2 DEF Inv, KillType, TypeOK
<1>2. QED
  BY <1>1, KillInductive, PTL

(* A SIGUSR1 is on its way, or its acknowledgement, exactly while the      *)
(* measuring thread waits for it, when the main thread takes the signals   *)
(* to the process and no thread is held up for as long as sigtimedwait     *)
(* waits.                                                                  *)
THEOREM KillOneSignal ==
  ASSUME NoStalls, Takers = {Main}
  PROVE  Spec => []OneSignal
<1>1. ASSUME Inv PROVE OneSignal
  <2>1. SignalOK /\ RunOK
    BY <1>1 DEF Inv, PromptOK, Prompt, KillOK, HarnessInv
  <2>2. Live(Measurer) => InRun
    BY <2>1 DEF Live, RunOK, InRun
  <2>3. QED
    BY <2>1, <2>2 DEF SignalOK, OneSignal
<1>2. QED
  BY <1>1, KillInductive, PTL

(* Then the assertion of measured_operation holds: the time acknowledged   *)
(* is later than the start.                                                *)
THEOREM KillAssertions ==
  ASSUME NoStalls, Takers = {Main}
  PROVE  Spec => []AssertionsHold
<1>1. Inv => AssertionsHold
  BY DEF Inv, PromptOK, Prompt, AssertionsHold
<1>2. QED
  BY <1>1, KillInductive, PTL

(* Then the operations are a handshake as well: one request at a time, one *)
(* answer to each, and no measurement that goes on without it.             *)
THEOREM KillHandshakeSafe ==
  ASSUME NoStalls, Takers = {Main}
  PROVE  Spec => Shaking!Safe
<1>1. Init => Shaking!Init
  BY Ids DEF Init, HarnessInit, Shaking!Init, Phase, Requesting, Sent
<1>2. Inv /\ [Next]_vars => [Shaking!Next]_Phase
  BY NextKill DEF Prompt
<1>3. QED
  BY <1>1, <1>2, KillInductive, PTL DEF Spec, Shaking!Safe
-----------------------------------------------------------------------------
LEMMA KillHarnessSteps ==
  ASSUME Inv, [Next]_vars
  PROVE  HarnessNext(MeasurerOps, InterfererOps)
<1>1. ASSUME MeasurerOperation
      PROVE  HarnessNext(MeasurerOps, InterfererOps)
  <2>1. CASE CheckTime /\ ~ MeasurerGoes("loop")
    <3>1. /\ pc[Measurer] = "check"
          /\ Abort /\ UNCHANGED <<todo, tid, flags, timer, shared, sigints, rows>>
      BY <2>1 DEF CheckTime, At, MeasurerGoes, MeasurerOps
    <3>2. pc[Main] = "join_t"
      BY <3>1 DEF Inv, HarnessInv, RunOK
    <3>3. QED
      BY <3>1, <3>2 DEF HarnessNext
  <2>2. CASE ~ (CheckTime /\ ~ MeasurerGoes("loop"))
    <3>1. PICK l \in MeasurerOps \cup {"loop"} : MeasurerGoes(l)
      BY <1>1, <2>2
      DEF MeasurerOperation, TakeStart, LockAndReset, SendUsr1, TestSignaled, SpuriousWakeup,
          Relock, At, MeasurerGoes, MeasurerOps
    <3>2. QED
      BY <3>1, MeasurerGoesInv DEF HarnessNext
  <2>3. QED
    BY <2>1, <2>2
<1>2. ASSUME NEW t \in Interferers, InterfererOperation(t)
      PROVE  HarnessNext(MeasurerOps, InterfererOps)
  <2>1. PICK l \in InterfererOps \cup {"loop"} : InterfererGoes(t, l)
    BY <1>2
    DEF InterfererOperation, TakeUsr1, WaitForUsr1, WaitFails, TakeTime, StoreTime, Signal,
        InSigtimedwait, At, InterfererGoes, InterfererOps
  <2>2. QED
    BY <2>1, InterfererGoesInv DEF HarnessNext
<1>3. CASE MainNext
  BY <1>3 DEF MainNext, StartKillRun, Keep, HarnessNext
<1>4. CASE MeasuringNext \/ SpuriousWakeup
  BY <1>1, <1>4 DEF MeasuringNext, MeasurerOperation, Keep, HarnessNext
<1>5. CASE \E t \in Interferers : InterferingNext(t)
  BY <1>2, <1>5 DEF InterferingNext, InterfererOperation, Keep, HarnessNext
<1>6. CASE Keep(TimerExpires) \/ Keep(UserSigint) \/ \E th \in Threads : Keep(Handler(th))
  BY <1>6 DEF Keep, SignalStep, HarnessNext
<1>7. CASE UNCHANGED vars
  BY <1>7 DEF vars, HarnessNext
<1>8. QED
  BY <1>3, <1>4, <1>5, <1>6, <1>7 DEF Next, Ending

(* No thread outlives the run that created it, and no SIGINT the thread    *)
(* that it was sent to, whatever waits for a signal, a mutex or a time.    *)
THEOREM KillThreadsEndWithRun == Spec => []ThreadsWithinRun
<1>1. Inv => ThreadsWithinRun
  BY InvThreadsWithinRun DEF Inv
<1>2. QED
  BY <1>1, KillInductive, PTL

(* SIGUSR1 is only sent while all interfering threads exist.               *)
THEOREM KillInterferenceWhileMeasuring == Spec => []InterferenceThroughout
<1>1. Inv => InterferenceThroughout
  BY InvInterferenceThroughout, OpLabels DEF Inv
<1>2. QED
  BY <1>1, KillInductive, PTL

(* Without stalls, a run during which the user sends no SIGINT, and at     *)
(* whose start no alarm of an earlier run is pending, measures until its   *)
(* own alarm, whatever was interrupted before it.                          *)
THEOREM KillMeasurementsAreFull ==
  ASSUME NoStalls
  PROVE  Spec => FullMeasurement
<1> SUFFICES ASSUME NEW r \in Run
    PROVE  Spec => ([]Unaffected(r) => []Full(r))
  BY DEF FullMeasurement
<1>1. Init => Uninterrupted(r)
  BY InitUninterrupted DEF Init
<1>2. Inv /\ Unaffected(r) /\ Uninterrupted(r) /\ [Next]_vars => Uninterrupted(r)'
  BY NextUninterrupted, KillHarnessSteps, OpLabels DEF Inv
<1>3. Uninterrupted(r) => Full(r)
  BY FullIfUninterrupted
<1>4. QED
  BY <1>1, <1>2, <1>3, KillInductive, PTL DEF Spec

(* Whatever the threads and the signals do, stalls included, the runs are  *)
(* those of the plan in its order, and none writes part of its rows unless *)
(* an assertion aborts the program.                                        *)
THEOREM KillPlanCarriedOut == Spec => Promise!Safe
<1>1. Init => PlanInv /\ Promise!Init
  BY InitPlan DEF Init
<1>2. Inv /\ PlanInv /\ [Next]_vars => PlanInv' /\ [Promise!Next]_(Promise!vars)
  BY NextKept, KillHarnessSteps, OpLabels DEF Inv, Kept
<1>3. QED
  BY <1>1, <1>2, KillInductive, PTL DEF Spec, Promise!Safe
=============================================================================
