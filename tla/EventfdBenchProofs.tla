-------------------------- MODULE EventfdBenchProofs --------------------------
(***************************************************************************)
(* Safety of the eventfd programs, for every machine, command line and     *)
(* number of samples, blocking and polling, with any number of SIGINTs:    *)
(* the invariant is that of the harness, together with where the request,  *)
(* the time and the reply are.                                             *)
(***************************************************************************)
EXTENDS EventfdBench, BenchPlanProofs, FiniteSetTheorems

MeasurerOps == {"op", "request", "read", "blocked", "eintr"}
InterfererOps == {"op", "blocked", "eintr", "stamp", "reply"}

EfdType ==
  /\ remote \in Nat \cup {Closed}
  /\ local \in Seq({"fresh", "stale"})
  /\ fd \in Nat /\ now \in {"fresh", "stale"}

(* The Action exists during a run. *)
NoAction == pc[Main] \in {"run", "exit", "aborted"}
ActionOK == remote = Closed <=> NoAction

(* OneMessage, with the one interfering thread. *)
Hand == IF pc[0] \in {"stamp", "reply"} THEN 1 ELSE 0
Messages ==
  remote # Closed => remote + Hand + Len(local) = IF Waiting THEN 1 ELSE 0

(* The value read is one request, and the time sent was taken after it.    *)
ContentsOK ==
  /\ pc[0] \in {"stamp", "reply"} => fd = 1
  /\ pc[0] = "reply" => now = "fresh"
  /\ remote # Closed /\ local # << >> => local = <<"fresh">>

EfdOK == EfdType /\ ActionOK /\ Messages /\ ContentsOK

(* No signal is sent to the measuring thread itself. *)
Undisturbed ==
  /\ pending[Measurer] = {}
  /\ Takers = {Main} => pc[Measurer] # "eintr" /\ pc[Main] # "aborted"

Inv == HarnessInv(MeasurerOps, InterfererOps) /\ EfdOK /\ Undisturbed

-----------------------------------------------------------------------------
LEMMA OneInterferer ==
  /\ Main = 1 /\ Measurer = 2 /\ Interferers = {0} /\ Threads = {0, 1, 2}
  /\ NrInterfering = 1 /\ Workers = {0, 2}
BY EventfdAssumption DEF Main, Measurer, Interferers, Threads, Workers

LEMMA OpLabels == OperationLabels(MeasurerOps, InterfererOps)
BY DEF OperationLabels, MeasurerOps, InterfererOps, Labels

LEMMA Hands == InHand = Hand
<1> DEFINE S == { t \in Interferers : pc[t] \in {"stamp", "reply"} }
<1>1. CASE pc[0] \in {"stamp", "reply"}
  <2>1. S = {0}
    BY <1>1, OneInterferer
  <2>2. QED
    BY <1>1, <2>1, FS_Singleton DEF InHand, Hand
<1>2. CASE pc[0] \notin {"stamp", "reply"}
  <2>1. S = {}
    BY <1>2, OneInterferer
  <2>2. QED
    BY <1>2, <2>1, FS_EmptySet DEF InHand, Hand
<1>3. QED
  BY <1>1, <1>2

LEMMA InitEfd == Init => Inv
<1> SUFFICES ASSUME Init PROVE Inv
  OBVIOUS
<1>1. HarnessInv(MeasurerOps, InterfererOps)
  BY InitInv DEF Init
<1>2. pc[Main] = "run" /\ pc[0] = "none" /\ pending[Measurer] = {} /\ pc[Measurer] = "none"
  BY OneInterferer DEF Init, HarnessInit
<1>3. EfdOK
  BY <1>2
  DEF Init, EfdOK, EfdType, ActionOK, NoAction, Messages, ContentsOK, Closed
<1>4. Undisturbed
  BY <1>2 DEF Undisturbed
<1>5. QED
  BY <1>1, <1>3, <1>4 DEF Inv

(* A step of the harness leaves what the operations are about alone.       *)
Leaves ==
  /\ UNCHANGED efdVars
  /\ Waiting' = Waiting /\ NoAction' = NoAction
  /\ \A l \in {"stamp", "reply"} : pc'[0] = l <=> pc[0] = l

LEMMA LeavesEfd ==
  ASSUME EfdOK, Leaves
  PROVE  EfdOK' /\ Phase' = Phase
BY DEF EfdOK, Leaves, efdVars, EfdType, ActionOK, Messages, ContentsOK, Hand, Phase

LEMMA MainEfd ==
  ASSUME Inv, Keep(MainStep)
  PROVE  Inv' /\ Phase' = Phase
<1> USE OneInterferer
    DEF Keep, MainStep, SkipRun, SpawnInterfering, SpawnMeasuring, JoinMeasuring,
        KillInterfering, AllKilled, JoinInterfering, Exit, MainAt, At, Goto, rows, signals
<1>0. /\ PcType(MeasurerOps, InterfererOps) /\ SignalsType
      /\ RunOK /\ InterferersOK /\ EfdOK /\ Undisturbed
  BY DEF Inv, HarnessInv
<1>1. HarnessInv(MeasurerOps, InterfererOps)'
  BY MainInv, OpLabels DEF Inv
<1>2. Leaves
  <2>1. Waiting' = Waiting
    BY <1>0 DEF PcType, RunOK, Waiting, Interfering
  <2>2. NoAction' = NoAction
    BY <1>0 DEF PcType, NoAction, Interfering
  <2>3. \A l \in {"stamp", "reply"} : pc'[0] = l <=> pc[0] = l
    <3>1. CASE SpawnInterfering
      <4>1. pc[0] = "none" /\ pc'[0] = "spawned"
        BY <1>0, <3>1 DEF PcType, InterferersOK, Interfering
      <4>2. QED
        BY <4>1
    <3>2. CASE JoinInterfering
      <4>1. pc[0] = "done" /\ pc'[0] = "none"
        BY <1>0, <3>2 DEF PcType, Interfering
      <4>2. QED
        BY <4>1
    <3>3. CASE ~ (SpawnInterfering \/ JoinInterfering)
      BY <1>0, <3>3 DEF PcType
    <3>4. QED
      BY <3>1, <3>2, <3>3
  <2>4. QED
    BY <2>1, <2>2, <2>3 DEF Leaves
<1>3. Undisturbed'
  <2>1. pending'[Measurer] = {}
    BY <1>0 DEF SignalsType, Undisturbed, Interfering
  <2>2. pc'[Measurer] # "eintr" \/ pc'[Measurer] = pc[Measurer]
    BY <1>0 DEF PcType, Interfering
  <2>3. pc'[Main] # "aborted" \/ pc'[Main] = pc[Main]
    BY <1>0 DEF PcType, Interfering
  <2>4. QED
    BY <1>0, <2>1, <2>2, <2>3 DEF Undisturbed
<1>4. QED
  BY <1>0, <1>1, <1>2, <1>3, LeavesEfd DEF Inv

LEMMA MeasuringEfd ==
  ASSUME Inv, Keep(MeasuringStep)
  PROVE  Inv' /\ Phase' = Phase
<1> USE OneInterferer
    DEF Keep, MeasuringStep, ArmAlarm, OpenMsr, NoMsr, BeginSample, EndSamples, ResetAlarm,
        BeginOperation, EndMeasurement, ReportLatency, ReportEnergy, ExitThread, At, Goto,
        signals
<1>0. /\ PcType(MeasurerOps, InterfererOps) /\ SignalsType /\ EfdOK /\ Undisturbed
  BY DEF Inv, HarnessInv
<1>1. HarnessInv(MeasurerOps, InterfererOps)'
  BY MeasuringInv, OpLabels DEF Inv
<1>2. pc' = [pc EXCEPT ![Measurer] = pc'[Measurer]] /\ pc'[Measurer] # "eintr"
  BY <1>0 DEF PcType
<1>3. Leaves
  <2>1. Waiting' = Waiting
    <3>1. pc[Measurer] \notin {"read", "blocked", "eintr"}
      OBVIOUS
    <3>2. pc'[Measurer] \notin {"read", "blocked", "eintr"}
      BY <1>0 DEF PcType
    <3>3. QED
      BY <3>1, <3>2 DEF Waiting
  <2>2. NoAction' = NoAction /\ \A l \in {"stamp", "reply"} : pc'[0] = l <=> pc[0] = l
    BY <1>0, <1>2 DEF PcType, NoAction
  <2>3. QED
    BY <2>1, <2>2 DEF Leaves
<1>4. Undisturbed'
  <2>1. pending'[Measurer] = {}
    BY <1>0 DEF SignalsType, Undisturbed
  <2>2. QED
    BY <1>0, <1>2, <2>1 DEF PcType, Undisturbed
<1>5. QED
  BY <1>0, <1>1, <1>3, <1>4, LeavesEfd DEF Inv

LEMMA InterferingEfd ==
  ASSUME Inv, NEW t \in Interferers, Keep(InterferingStep(t))
  PROVE  Inv' /\ Phase' = Phase
<1> USE OneInterferer
    DEF Keep, InterferingStep, BindInterfering, CheckStop, ExitThread, At, Goto, signals
<1>0. /\ PcType(MeasurerOps, InterfererOps) /\ SignalsType /\ EfdOK /\ Undisturbed
  BY DEF Inv, HarnessInv
<1>1. HarnessInv(MeasurerOps, InterfererOps)'
  BY InterferingInv, OpLabels DEF Inv
<1>2. pc'[Main] = pc[Main] /\ pc'[Measurer] = pc[Measurer]
  BY <1>0 DEF PcType
<1>3. \A l \in {"stamp", "reply"} : pc'[0] = l <=> pc[0] = l
  BY <1>0 DEF PcType
<1>4. Leaves
  BY <1>2, <1>3 DEF Leaves, Waiting, NoAction
<1>5. Undisturbed'
  BY <1>0, <1>2 DEF SignalsType, Undisturbed
<1>6. QED
  BY <1>0, <1>1, <1>4, <1>5, LeavesEfd DEF Inv

LEMMA SignalEfd ==
  ASSUME Inv, Keep(SignalStep)
  PROVE  Inv' /\ Phase' = Phase
<1> USE OneInterferer DEF Keep
<1>0. /\ PcType(MeasurerOps, InterfererOps) /\ SignalsType
      /\ LabelsOK(MeasurerOps, InterfererOps) /\ EfdOK /\ Undisturbed
  BY DEF Inv, HarnessInv
<1>1. HarnessInv(MeasurerOps, InterfererOps)'
  BY SignalInv, OpLabels DEF Inv
<1>2. CASE UserSigint \/ TimerExpires
  <2>1. UNCHANGED <<pc, pending, efdVars>>
    BY <1>2 DEF UserSigint, TimerExpires
  <2>2. Leaves /\ Undisturbed'
    BY <1>0, <2>1 DEF Leaves, Waiting, NoAction, Undisturbed
  <2>3. QED
    BY <1>0, <1>1, <2>2, LeavesEfd DEF Inv
<1>3. ASSUME NEW th \in Threads, Handler(th)
      PROVE  Inv' /\ Phase' = Phase
  <2>1. PICK sig \in Signals : Deliver(th, sig)
    BY <1>3 DEF Handler, signal_handler, alarm_signal_handler, Signals
  <2>2. pc' = [pc EXCEPT ![th] = IF @ = "blocked" THEN "eintr" ELSE @]
    BY <2>1 DEF Deliver
  <2>3. pc'[Main] = pc[Main]
    BY <1>0, <2>2 DEF PcType, LabelsOK, MainLabels
  <2>4. Waiting' = Waiting /\ \A l \in {"stamp", "reply"} : pc'[0] = l <=> pc[0] = l
    BY <1>0, <2>2 DEF PcType, Waiting
  <2>5. Leaves
    BY <2>3, <2>4 DEF Leaves, NoAction
  <2>6. pending'[Measurer] = {}
    BY <1>0, <2>1 DEF Deliver, SignalsType, Undisturbed
  <2>7. Takers = {Main} => th # Measurer
    BY <1>0, <2>1 DEF Deliver, Undisturbed
  <2>8. Takers = {Main} => pc'[Measurer] # "eintr"
    BY <1>0, <2>2, <2>7 DEF PcType, Undisturbed
  <2>9. Undisturbed'
    BY <1>0, <2>3, <2>6, <2>8 DEF Undisturbed
  <2>10. QED
    BY <1>0, <1>1, <2>5, <2>9, LeavesEfd DEF Inv
<1>4. QED
  BY <1>2, <1>3 DEF SignalStep

LEMMA StartEfd ==
  ASSUME Inv, StartEventfdRun
  PROVE  Inv' /\ Phase' = Phase
<1> USE OneInterferer
<1>0. /\ PcType(MeasurerOps, InterfererOps) /\ RunOK /\ InterferersOK /\ EfdOK /\ Undisturbed
  BY DEF Inv, HarnessInv
<1>1. HarnessInv(MeasurerOps, InterfererOps)'
  BY MainInv, OpLabels DEF Inv, StartEventfdRun
<1>2. /\ pc[Main] = "run" /\ pc' = [pc EXCEPT ![Main] = "spawn"] /\ UNCHANGED pending
      /\ remote' = 0 /\ local' = << >> /\ UNCHANGED <<fd, now>>
  BY DEF StartEventfdRun, StartRun, MainAt, At, Goto, signals
<1>3. pc'[Main] = "spawn" /\ pc'[0] = "none" /\ pc'[Measurer] = "none" /\ pc[Measurer] = "none"
  BY <1>0, <1>2 DEF PcType, RunOK, InterferersOK
<1>4. EfdOK'
  BY <1>0, <1>2, <1>3
  DEF EfdOK, EfdType, ActionOK, NoAction, Messages, ContentsOK, Hand, Waiting, Closed
<1>5. Undisturbed' /\ Phase' = Phase
  BY <1>0, <1>2, <1>3 DEF Undisturbed, Phase, Waiting
<1>6. QED
  BY <1>1, <1>4, <1>5 DEF Inv

LEMMA ReturnEfd ==
  ASSUME Inv, ReturnFromEventfdRun
  PROVE  Inv' /\ Phase' = Phase
<1> USE OneInterferer
<1>0. /\ PcType(MeasurerOps, InterfererOps) /\ RunOK /\ InterferersOK /\ ProgressType
      /\ EfdOK /\ Undisturbed
  BY DEF Inv, HarnessInv
<1>1. HarnessInv(MeasurerOps, InterfererOps)'
  BY MainInv, OpLabels DEF Inv, ReturnFromEventfdRun
<1>2. /\ pc[Main] = "join" /\ pc' = [pc EXCEPT ![Main] = "run"] /\ UNCHANGED pending
      /\ remote' = Closed /\ UNCHANGED <<local, fd, now>>
      /\ tid \notin Interfering
  BY DEF ReturnFromEventfdRun, ReturnFromRun, MainAt, At, Goto, signals
<1>3. pc[0] = "none"
  BY <1>0, <1>2 DEF InterferersOK, Interfering, ProgressType
<1>4. pc'[Main] = "run" /\ pc'[0] = "none" /\ pc'[Measurer] = "none" /\ pc[Measurer] = "none"
  BY <1>0, <1>2, <1>3 DEF PcType, RunOK
<1>5. EfdOK'
  BY <1>0, <1>2, <1>4 DEF EfdOK, EfdType, ActionOK, NoAction, Messages, ContentsOK
<1>6. Undisturbed' /\ Phase' = Phase
  BY <1>0, <1>2, <1>4 DEF Undisturbed, Phase, Waiting
<1>7. QED
  BY <1>1, <1>5, <1>6 DEF Inv

-----------------------------------------------------------------------------
(* The operations. *)

LEMMA FailEfd ==
  ASSUME Inv, FailAssertion, Takers # {Main}
  PROVE  Inv'
<1>1. HarnessInv(MeasurerOps, InterfererOps)'
  BY AbortInv DEF Inv, FailAssertion
<1>2. pc'[Main] = "aborted" /\ pc'[0] = "none" /\ pending'[Measurer] = {}
  BY OneInterferer DEF FailAssertion, Abort
<1>3. EfdOK'
  BY <1>2
  DEF Inv, EfdOK, EfdType, FailAssertion, ActionOK, NoAction, Messages, ContentsOK, Closed
<1>4. Undisturbed'
  BY <1>2 DEF Undisturbed, FailAssertion
<1>5. QED
  BY <1>1, <1>3, <1>4 DEF Inv

MeasurerOperation ==
  TakeStart \/ WriteRequest \/ WaitForReply \/ ReadReply \/ InterruptedReply

LEMMA MeasurerOperationEfd ==
  ASSUME Inv, MeasurerOperation
  PROVE  /\ Inv'
         /\ Takers = {Main} => [Shaking!Next]_Phase
<1> USE OneInterferer
<1>0. /\ PcType(MeasurerOps, InterfererOps) /\ RunOK
      /\ EfdType /\ ActionOK /\ Messages /\ ContentsOK /\ Undisturbed
  BY DEF Inv, HarnessInv, EfdOK
<1>1. /\ pc[Main] = "join_t" /\ remote # Closed
  BY <1>0
  DEF MeasurerOperation, TakeStart, WriteRequest, WaitForReply, ReadReply, Waiting,
      InterruptedReply, At, RunOK, ActionOK, NoAction
<1>2. ASSUME NEW l \in MeasurerOps \cup {"loop"}, pc[Measurer] \in MeasurerOps,
             Goto(Measurer, l), UNCHANGED harnessButPc
      PROVE  /\ HarnessInv(MeasurerOps, InterfererOps)'
             /\ pc'[Main] = pc[Main] /\ pc'[0] = pc[0] /\ pc'[Measurer] = l
             /\ NoAction' = NoAction /\ Hand' = Hand
             /\ l # "eintr" => Undisturbed'
  <2>1. pc' = [pc EXCEPT ![Measurer] = l] /\ UNCHANGED <<todo, tid, flags, timer, signals, rows>>
    BY <1>2 DEF Goto, harnessButPc
  <2>2. l \in Labels \cup (MeasurerOps \cup InterfererOps)
    BY <1>2 DEF MeasurerOps, Labels
  <2>3. pc'[Main] = pc[Main] /\ pc'[0] = pc[0] /\ pc'[Measurer] = l
    BY <1>0, <2>1 DEF PcType
  <2>4. OperationsOnly(MeasurerOps, InterfererOps)
    BY <1>0, <1>2, <2>1, <2>2 DEF PcType, OperationsOnly
  <2>5. HarnessInv(MeasurerOps, InterfererOps)'
    BY <2>4, OperationsInv, OpLabels DEF Inv
  <2>6. NoAction' = NoAction /\ Hand' = Hand
    BY <2>3 DEF NoAction, Hand
  <2>7. l # "eintr" => Undisturbed'
    BY <1>0, <2>1, <2>3 DEF Undisturbed, signals
  <2>8. QED
    BY <2>3, <2>5, <2>6, <2>7
<1>3. CASE TakeStart
  <2>1. /\ pc[Measurer] = "op" /\ Goto(Measurer, "request") /\ UNCHANGED harnessButPc
        /\ local' = [i \in DOMAIN local |-> "stale"] /\ now' = "stale"
        /\ UNCHANGED <<remote, fd>>
    BY <1>3 DEF TakeStart, At
  <2>2. /\ HarnessInv(MeasurerOps, InterfererOps)' /\ Undisturbed'
        /\ pc'[0] = pc[0] /\ pc'[Measurer] = "request" /\ NoAction' = NoAction /\ Hand' = Hand
    BY <1>2, <2>1 DEF MeasurerOps
  <2>3. remote = 0 /\ Hand = 0 /\ local = << >>
    BY <1>0, <1>1, <2>1 DEF Messages, EfdType, Waiting, Hand
  <2>4. local' = << >>
    BY <2>1, <2>3
  <2>5. EfdOK'
    BY <1>0, <1>1, <2>1, <2>2, <2>3, <2>4
    DEF EfdOK, EfdType, ActionOK, Messages, ContentsOK, Waiting, Hand, Closed
  <2>6. Phase' = Phase
    BY <2>1, <2>2 DEF Phase, Waiting
  <2>7. QED
    BY <2>2, <2>5, <2>6 DEF Inv
<1>4. CASE WriteRequest
  <2>1. /\ pc[Measurer] \in {"op", "request"} /\ Goto(Measurer, "read")
        /\ UNCHANGED harnessButPc
        /\ remote' = remote + 1 /\ UNCHANGED <<local, fd, now>>
    BY <1>4 DEF WriteRequest, At
  <2>2. /\ HarnessInv(MeasurerOps, InterfererOps)' /\ Undisturbed'
        /\ pc'[0] = pc[0] /\ pc'[Measurer] = "read" /\ NoAction' = NoAction /\ Hand' = Hand
    BY <1>2, <2>1 DEF MeasurerOps
  <2>3. remote = 0 /\ Hand = 0 /\ local = << >>
    BY <1>0, <1>1, <2>1 DEF Messages, EfdType, Waiting, Hand
  <2>4. EfdOK'
    BY <1>0, <1>1, <2>1, <2>2, <2>3
    DEF EfdOK, EfdType, ActionOK, Messages, ContentsOK, Waiting, Hand, Closed
  <2>5. Phase = "idle" /\ Phase' = "requested"
    BY <2>1, <2>2, <2>3 DEF Phase, Waiting
  <2>6. QED
    BY <2>2, <2>4, <2>5 DEF Inv, Shaking!Next, Shaking!Request
<1>5. CASE WaitForReply
  <2>1. /\ pc[Measurer] = "read" /\ Goto(Measurer, "blocked") /\ UNCHANGED harnessButPc
        /\ UNCHANGED efdVars
    BY <1>5 DEF WaitForReply, At
  <2>2. /\ HarnessInv(MeasurerOps, InterfererOps)' /\ Undisturbed'
        /\ pc'[0] = pc[0] /\ pc'[Measurer] = "blocked" /\ NoAction' = NoAction
    BY <1>2, <2>1 DEF MeasurerOps
  <2>3. Leaves
    BY <2>1, <2>2 DEF Leaves, Waiting
  <2>4. QED
    BY <1>0, <2>2, <2>3, LeavesEfd DEF Inv, EfdOK
<1>6. CASE ReadReply
  <2>1. Waiting /\ local # << >>
    BY <1>6 DEF ReadReply
  <2>2. local = <<"fresh">>
    BY <1>0, <1>1, <2>1 DEF ContentsOK
  <2>3. /\ pc[Measurer] \in MeasurerOps /\ Goto(Measurer, "loop") /\ UNCHANGED harnessButPc
        /\ local' = << >> /\ UNCHANGED <<remote, fd, now>>
    BY <1>6, <2>1, <2>2 DEF ReadReply, Waiting, MeasurerOps
  <2>4. /\ HarnessInv(MeasurerOps, InterfererOps)' /\ Undisturbed'
        /\ pc'[0] = pc[0] /\ pc'[Measurer] = "loop" /\ NoAction' = NoAction /\ Hand' = Hand
    BY <1>2, <2>3
  <2>5. remote = 0 /\ Hand = 0
    BY <1>0, <1>1, <2>1, <2>2 DEF Messages, EfdType, Hand
  <2>6. EfdOK'
    BY <1>0, <1>1, <2>3, <2>4, <2>5
    DEF EfdOK, EfdType, ActionOK, Messages, ContentsOK, Waiting, Hand, Closed
  <2>7. Phase = "answered" /\ Phase' = "idle"
    BY <2>1, <2>4 DEF Phase, Waiting
  <2>8. QED
    BY <2>4, <2>6, <2>7 DEF Inv, Shaking!Next, Shaking!Accept
<1>7. CASE InterruptedReply
  <2>1. pc[Measurer] = "eintr" /\ FailAssertion
    BY <1>7 DEF InterruptedReply, At
  <2>2. Takers # {Main}
    BY <1>0, <2>1 DEF Undisturbed
  <2>3. QED
    BY <2>1, <2>2, FailEfd
<1>8. QED
  BY <1>3, <1>4, <1>5, <1>6, <1>7 DEF MeasurerOperation

InterfererOperation ==
  \/ ReadRequest(0) \/ WaitForRequest(0) \/ NoRequest(0) \/ InterruptedRequest(0)
  \/ TakeTime(0) \/ Reply(0)

LEMMA InterfererOperationEfd ==
  ASSUME Inv, InterfererOperation
  PROVE  Inv' /\ [Shaking!Next]_Phase
<1> USE OneInterferer
<1>0. /\ PcType(MeasurerOps, InterfererOps) /\ InterferersOK
      /\ EfdType /\ ActionOK /\ Messages /\ ContentsOK /\ Undisturbed
  BY DEF Inv, HarnessInv, EfdOK
<1>1. pc[0] \in InterfererOps
  BY DEF InterfererOperation, ReadRequest, WaitForRequest, NoRequest, InterruptedRequest,
         TakeTime, Reply, Reading, At, InterfererOps
<1>2. ~ NoAction /\ remote # Closed
  BY <1>0, <1>1 DEF InterferersOK, NoAction, InterfererOps, ActionOK
<1>3. ASSUME NEW l \in InterfererOps \cup {"loop"}, Goto(0, l), UNCHANGED harnessButPc
      PROVE  /\ HarnessInv(MeasurerOps, InterfererOps)' /\ Undisturbed'
             /\ pc'[0] = l /\ NoAction' = NoAction /\ Waiting' = Waiting
  <2>1. pc' = [pc EXCEPT ![0] = l] /\ UNCHANGED <<todo, tid, flags, timer, signals, rows>>
    BY <1>3 DEF Goto, harnessButPc
  <2>2. l \in Labels \cup (MeasurerOps \cup InterfererOps)
    BY <1>3 DEF InterfererOps, Labels
  <2>3. pc'[Main] = pc[Main] /\ pc'[Measurer] = pc[Measurer] /\ pc'[0] = l
    BY <1>0, <2>1 DEF PcType
  <2>4. OperationsOnly(MeasurerOps, InterfererOps)
    BY <1>0, <1>1, <2>1, <2>2 DEF PcType, OperationsOnly
  <2>5. HarnessInv(MeasurerOps, InterfererOps)'
    BY <2>4, OperationsInv, OpLabels DEF Inv
  <2>6. Undisturbed'
    BY <1>0, <2>1, <2>3 DEF Undisturbed, signals
  <2>7. QED
    BY <2>3, <2>5, <2>6 DEF NoAction, Waiting
<1>4. CASE ReadRequest(0)
  <2>1. /\ pc[0] \in {"op", "blocked", "eintr"} /\ remote > 0
        /\ Goto(0, "stamp") /\ UNCHANGED harnessButPc
        /\ fd' = remote /\ remote' = 0 /\ UNCHANGED <<local, now>>
    BY <1>4 DEF ReadRequest, Reading
  <2>2. /\ HarnessInv(MeasurerOps, InterfererOps)' /\ Undisturbed'
        /\ pc'[0] = "stamp" /\ NoAction' = NoAction /\ Waiting' = Waiting
    BY <1>3, <2>1 DEF InterfererOps
  <2>3. remote = 1 /\ Waiting /\ Len(local) = 0
    BY <1>0, <1>2, <2>1 DEF Messages, EfdType, Hand, Closed
  <2>4. EfdOK'
    BY <1>0, <1>2, <2>1, <2>2, <2>3
    DEF EfdOK, EfdType, ActionOK, Messages, ContentsOK, Hand, Closed
  <2>5. QED
    BY <2>1, <2>2, <2>4 DEF Inv, Phase
<1>5. CASE WaitForRequest(0)
  <2>1. /\ pc[0] = "op" /\ Goto(0, "blocked") /\ UNCHANGED <<harnessButPc, efdVars>>
    BY <1>5 DEF WaitForRequest, At
  <2>2. /\ HarnessInv(MeasurerOps, InterfererOps)' /\ Undisturbed'
        /\ pc'[0] = "blocked" /\ NoAction' = NoAction /\ Waiting' = Waiting
    BY <1>3, <2>1 DEF InterfererOps
  <2>3. QED
    BY <1>0, <2>1, <2>2, LeavesEfd DEF Inv, EfdOK, Leaves
<1>6. CASE NoRequest(0) \/ InterruptedRequest(0)
  <2>1. /\ pc[0] \in {"op", "eintr"} /\ Goto(0, "loop") /\ UNCHANGED <<harnessButPc, efdVars>>
    BY <1>6 DEF NoRequest, InterruptedRequest, At
  <2>2. /\ HarnessInv(MeasurerOps, InterfererOps)' /\ Undisturbed'
        /\ pc'[0] = "loop" /\ NoAction' = NoAction /\ Waiting' = Waiting
    BY <1>3, <2>1
  <2>3. QED
    BY <1>0, <2>1, <2>2, LeavesEfd DEF Inv, EfdOK, Leaves
<1>7. CASE TakeTime(0)
  <2>1. /\ pc[0] = "stamp" /\ Goto(0, "reply") /\ UNCHANGED harnessButPc
        /\ now' = "fresh" /\ UNCHANGED <<remote, local, fd>>
    BY <1>7 DEF TakeTime, At
  <2>2. /\ HarnessInv(MeasurerOps, InterfererOps)' /\ Undisturbed'
        /\ pc'[0] = "reply" /\ NoAction' = NoAction /\ Waiting' = Waiting
    BY <1>3, <2>1 DEF InterfererOps
  <2>3. EfdOK'
    BY <1>0, <2>1, <2>2 DEF EfdOK, EfdType, ActionOK, Messages, ContentsOK, Hand
  <2>4. QED
    BY <2>1, <2>2, <2>3 DEF Inv, Phase
<1>8. CASE Reply(0)
  <2>1. pc[0] = "reply" /\ fd = 1 /\ now = "fresh"
    BY <1>0, <1>8 DEF Reply, At, ContentsOK
  <2>2. /\ Goto(0, "loop") /\ UNCHANGED harnessButPc
        /\ local' = Append(local, now) /\ UNCHANGED <<remote, fd, now>>
    BY <1>8, <2>1 DEF Reply
  <2>3. /\ HarnessInv(MeasurerOps, InterfererOps)' /\ Undisturbed'
        /\ pc'[0] = "loop" /\ NoAction' = NoAction /\ Waiting' = Waiting
    BY <1>3, <2>2
  <2>4. remote = 0 /\ Waiting /\ local = << >>
    BY <1>0, <1>2, <2>1 DEF Messages, EfdType, Hand, Closed
  <2>5. local' = <<"fresh">>
    BY <2>1, <2>2, <2>4
  <2>6. EfdOK'
    BY <1>0, <1>2, <2>2, <2>3, <2>4, <2>5
    DEF EfdOK, EfdType, ActionOK, Messages, ContentsOK, Hand, Closed
  <2>7. Phase = "requested" /\ Phase' = "answered"
    BY <2>3, <2>4, <2>5 DEF Phase
  <2>8. QED
    BY <2>3, <2>6, <2>7 DEF Inv, Shaking!Next, Shaking!Answer
<1>9. QED
  BY <1>4, <1>5, <1>6, <1>7, <1>8 DEF InterfererOperation

LEMMA NextEfd ==
  ASSUME Inv, [Next]_vars
  PROVE  Inv' /\ (Takers = {Main} => [Shaking!Next]_Phase)
<1>1. CASE MainNext
  BY <1>1, MainEfd, StartEfd, ReturnEfd DEF MainNext
<1>2. CASE MeasuringNext
  BY <1>2, MeasuringEfd, MeasurerOperationEfd DEF MeasuringNext, MeasurerOperation
<1>3. CASE \E t \in Interferers : InterferingNext(t)
  <2>1. CASE \E t \in Interferers : Keep(InterferingStep(t))
    BY <2>1, InterferingEfd
  <2>2. CASE InterfererOperation
    BY <2>2, InterfererOperationEfd
  <2>3. QED
    BY <1>3, <2>1, <2>2, OneInterferer DEF InterferingNext, InterfererOperation
<1>4. CASE Keep(TimerExpires) \/ Keep(UserSigint) \/ \E th \in Threads : Keep(Handler(th))
  <2>1. Keep(SignalStep)
    BY <1>4 DEF Keep, SignalStep
  <2>2. QED
    BY <2>1, SignalEfd
<1>5. CASE UNCHANGED vars
  <2>1. UNCHANGED <<harnessVars, pc, pending, remote, local, fd, now>>
    BY <1>5 DEF vars, harnessVars, efdVars, signals
  <2>2. HarnessInv(MeasurerOps, InterfererOps)'
    BY <2>1, UnchangedInv DEF Inv
  <2>3. Leaves /\ Undisturbed'
    BY <2>1 DEF Leaves, efdVars, Waiting, NoAction, Undisturbed, Inv
  <2>4. QED
    BY <2>2, <2>3, LeavesEfd DEF Inv
<1>6. QED
  BY <1>1, <1>2, <1>3, <1>4, <1>5 DEF Next, Ending

LEMMA EventfdInductive == Spec => []Inv
<1>1. Inv /\ [Next]_vars => Inv'
  BY NextEfd
<1>2. QED
  BY <1>1, InitEfd, PTL DEF Spec

-----------------------------------------------------------------------------
(* Every variable of the eventfd programs keeps to its type.               *)
THEOREM EventfdTypeCorrect == Spec => []TypeOK
<1>1. Inv => TypeOK
  <2> SUFFICES ASSUME Inv PROVE TypeOK
    OBVIOUS
  <2> DEFINE ops == {"request", "read", "blocked", "eintr", "stamp", "reply"}
  <2>1. Labels \cup (MeasurerOps \cup InterfererOps) = Labels \cup ops
    BY DEF Labels, MeasurerOps, InterfererOps
  <2>2. HarnessTypeOK(ops)
    BY <2>1
    DEF Inv, HarnessInv, HarnessTypeOK, PcType, FlagsType, SignalsType, ProgressType
  <2>3. QED
    BY <2>2 DEF Inv, EfdOK, EfdType, TypeOK
<1>2. QED
  BY <1>1, EventfdInductive, PTL

(* The eventfds, which add up what is written to them, never hold two      *)
(* messages, whichever thread the signals interrupt.                       *)
THEOREM EventfdOneMessage == Spec => []OneMessage
<1>1. Inv => OneMessage
  BY Hands DEF Inv, EfdOK, Messages, OneMessage
<1>2. QED
  BY <1>1, EventfdInductive, PTL

(* No assertion of the operations fails when the main thread takes the     *)
(* signals: each time read is later than its start, and the value read is  *)
(* one descriptor.                                                         *)
THEOREM EventfdAssertions ==
  ASSUME Takers = {Main}
  PROVE  Spec => []AssertionsHold
<1>1. Inv => AssertionsHold
  BY DEF Inv, Undisturbed, AssertionsHold
<1>2. QED
  BY <1>1, EventfdInductive, PTL

(* The operations are a handshake when the main thread takes the signals:  *)
(* one request at a time, one answer to each, and no measurement that goes *)
(* on without it.                                                          *)
THEOREM EventfdHandshakeSafe ==
  ASSUME Takers = {Main}
  PROVE  Spec => Shaking!Safe
<1>1. Init => Shaking!Init
  BY OneInterferer DEF Init, HarnessInit, Shaking!Init, Phase, Waiting
<1>2. Inv /\ [Next]_vars => [Shaking!Next]_Phase
  BY NextEfd
<1>3. QED
  BY <1>1, <1>2, EventfdInductive, PTL DEF Spec, Shaking!Safe
-----------------------------------------------------------------------------
(* A step of an operation, of which only an interrupted read may fail.     *)
LEMMA MeasurerOperationOnly ==
  ASSUME Inv, MeasurerOperation
  PROVE  /\ pc[Main] = "join_t"
         /\ \/ OperationsOnly(MeasurerOps, InterfererOps)
            \/ FailAssertion /\ pc[Measurer] = "eintr"
<1> USE OneInterferer
<1>0. PcType(MeasurerOps, InterfererOps) /\ RunOK /\ ActionOK /\ ContentsOK
  BY DEF Inv, HarnessInv, EfdOK
<1>1. pc[Measurer] \in MeasurerOps
  BY DEF MeasurerOperation, TakeStart, WriteRequest, WaitForReply, ReadReply, Waiting,
         InterruptedReply, At, MeasurerOps
<1>2. pc[Main] = "join_t" /\ remote # Closed
  BY <1>0, <1>1 DEF MeasurerOps, RunOK, ActionOK, NoAction
<1>3. \/ FailAssertion /\ pc[Measurer] = "eintr"
      \/ \E l \in MeasurerOps \cup {"loop"} : Goto(Measurer, l) /\ UNCHANGED harnessButPc
  <2>1. CASE ReadReply
    <3>1. local = <<"fresh">>
      BY <1>0, <1>2, <2>1 DEF ContentsOK, ReadReply
    <3>2. local # <<"stale">>
      BY <3>1
    <3>3. QED
      BY <2>1, <3>2 DEF ReadReply
  <2>2. CASE ~ ReadReply
    BY <2>2
    DEF MeasurerOperation, TakeStart, WriteRequest, WaitForReply, InterruptedReply, At,
        MeasurerOps
  <2>3. QED
    BY <2>1, <2>2
<1>4. ASSUME NEW l \in MeasurerOps \cup {"loop"}, Goto(Measurer, l), UNCHANGED harnessButPc
      PROVE  OperationsOnly(MeasurerOps, InterfererOps)
  <2>1. l \in Labels \cup (MeasurerOps \cup InterfererOps)
    BY <1>4 DEF MeasurerOps, Labels
  <2>2. pc' = [pc EXCEPT ![Measurer] = l] /\ UNCHANGED <<todo, tid, flags, timer, signals, rows>>
    BY <1>4 DEF Goto, harnessButPc
  <2>3. QED
    BY <1>0, <1>1, <1>4, <2>1, <2>2 DEF PcType, OperationsOnly
<1>5. QED
  BY <1>2, <1>3, <1>4

LEMMA InterfererOperationOnly ==
  ASSUME Inv, InterfererOperation
  PROVE  OperationsOnly(MeasurerOps, InterfererOps)
<1> USE OneInterferer
<1>0. PcType(MeasurerOps, InterfererOps) /\ ContentsOK
  BY DEF Inv, HarnessInv, EfdOK
<1>1. pc[0] \in InterfererOps
  BY DEF InterfererOperation, ReadRequest, WaitForRequest, NoRequest, InterruptedRequest,
         TakeTime, Reply, Reading, At, InterfererOps
<1>2. PICK l \in InterfererOps \cup {"loop"} : Goto(0, l) /\ UNCHANGED harnessButPc
  BY <1>0
  DEF ContentsOK, InterfererOperation, ReadRequest, WaitForRequest, NoRequest,
      InterruptedRequest, TakeTime, Reply, At, InterfererOps
<1>3. l \in Labels \cup (MeasurerOps \cup InterfererOps)
  BY <1>2 DEF InterfererOps, Labels
<1>4. pc' = [pc EXCEPT ![0] = l] /\ UNCHANGED <<todo, tid, flags, timer, signals, rows>>
  BY <1>2 DEF Goto, harnessButPc
<1>5. QED
  BY <1>0, <1>1, <1>2, <1>3, <1>4 DEF PcType, OperationsOnly

(* What a step is to the harness, and when it aborts.                      *)
LEMMA EfdHarnessSteps ==
  ASSUME Inv, [Next]_vars
  PROVE  /\ HarnessNext(MeasurerOps, InterfererOps)
         /\ AssertionsHold /\ ~ AssertionsHold' => pc[Measurer] = "eintr"
<1> USE OneInterferer
<1>1. CASE \/ MainStep \/ StartRun \/ ReturnFromRun \/ MeasuringStep
           \/ \E t \in Interferers : InterferingStep(t)
           \/ SignalStep \/ OperationsOnly(MeasurerOps, InterfererOps)
  BY <1>1, NoStepAborts DEF HarnessNext, AssertionsHold, Inv
<1>2. CASE MeasurerOperation
  <2>1. CASE OperationsOnly(MeasurerOps, InterfererOps)
    BY <1>1, <2>1
  <2>2. CASE FailAssertion /\ pc[Measurer] = "eintr"
    BY <1>2, <2>2, MeasurerOperationOnly DEF FailAssertion, HarnessNext
  <2>3. QED
    BY <1>2, <2>1, <2>2, MeasurerOperationOnly
<1>3. CASE InterfererOperation
  BY <1>1, <1>3, InterfererOperationOnly
<1>4. CASE UNCHANGED vars
  BY <1>4 DEF vars, harnessVars, HarnessNext, AssertionsHold
<1>5. CASE MainNext
  BY <1>1, <1>5 DEF MainNext, StartEventfdRun, ReturnFromEventfdRun, Keep
<1>6. CASE MeasuringNext
  BY <1>1, <1>2, <1>6 DEF MeasuringNext, MeasurerOperation, Keep
<1>7. CASE \E t \in Interferers : InterferingNext(t)
  BY <1>1, <1>3, <1>7 DEF InterferingNext, InterfererOperation, Keep
<1>8. CASE Keep(TimerExpires) \/ Keep(UserSigint) \/ \E th \in Threads : Keep(Handler(th))
  BY <1>1, <1>8 DEF Keep, SignalStep
<1>9. QED
  BY <1>4, <1>5, <1>6, <1>7, <1>8 DEF Next, Ending

(* Only the read of the measuring thread fails an assertion, and only when *)
(* a signal interrupts it: the times and the descriptors are never wrong.  *)
THEOREM EventfdOnlyEintrAborts == Spec => OnlyEintrAborts
<1>1. Inv /\ [Next]_vars => [AssertionsHold /\ ~ AssertionsHold' => pc[Measurer] = "eintr"]_vars
  BY EfdHarnessSteps
<1>2. QED
  BY <1>1, EventfdInductive, PTL DEF Spec, OnlyEintrAborts

(* No thread outlives the run that created it, and no SIGINT the thread    *)
(* that it was sent to, the runs that fail an assertion included.          *)
THEOREM EventfdThreadsEndWithRun == Spec => []ThreadsWithinRun
<1>1. Inv => ThreadsWithinRun
  BY InvThreadsWithinRun DEF Inv
<1>2. QED
  BY <1>1, EventfdInductive, PTL

(* Requests are only made while the interfering thread, which answers      *)
(* them, exists.                                                           *)
THEOREM EventfdInterferenceWhileMeasuring == Spec => []InterferenceThroughout
<1>1. Inv => InterferenceThroughout
  BY InvInterferenceThroughout, OpLabels DEF Inv
<1>2. QED
  BY <1>1, EventfdInductive, PTL

(* Without stalls, a run during which the user sends no SIGINT, and at     *)
(* whose start no alarm of an earlier run is pending, measures until its   *)
(* own alarm, whatever was interrupted before it.                          *)
THEOREM EventfdMeasurementsAreFull ==
  ASSUME NoStalls
  PROVE  Spec => FullMeasurement
<1> SUFFICES ASSUME NEW r \in Run
    PROVE  Spec => ([]Unaffected(r) => []Full(r))
  BY DEF FullMeasurement
<1>1. Init => Uninterrupted(r)
  BY InitUninterrupted DEF Init
<1>2. Inv /\ Unaffected(r) /\ Uninterrupted(r) /\ [Next]_vars => Uninterrupted(r)'
  BY NextUninterrupted, EfdHarnessSteps, OpLabels DEF Inv
<1>3. Uninterrupted(r) => Full(r)
  BY FullIfUninterrupted
<1>4. QED
  BY <1>1, <1>2, <1>3, EventfdInductive, PTL DEF Spec

(* Whatever the threads and the signals do, the runs are those of the plan *)
(* in its order, and none writes part of its rows unless an assertion      *)
(* aborts the program.                                                     *)
THEOREM EventfdPlanCarriedOut == Spec => Promise!Safe
<1>1. Init => PlanInv /\ Promise!Init
  BY InitPlan DEF Init
<1>2. Inv /\ PlanInv /\ [Next]_vars => PlanInv' /\ [Promise!Next]_(Promise!vars)
  BY NextKept, EfdHarnessSteps, OpLabels DEF Inv, Kept
<1>3. QED
  BY <1>1, <1>2, EventfdInductive, PTL DEF Spec, Promise!Safe
=============================================================================
