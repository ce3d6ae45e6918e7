------------------------- MODULE SymmetricBenchProofs -------------------------
(***************************************************************************)
(* Safety of the harness, for every machine, command line, number of       *)
(* interfering threads and behaviour of the signals.                       *)
(***************************************************************************)
EXTENDS SymmetricBench, BenchPlanProofs

Op == {"op"}
IInv == HarnessInv(Op, Op) /\ pc[Main] # "aborted"

-----------------------------------------------------------------------------
LEMMA OpLabels == OperationLabels(Op, Op)
BY DEF OperationLabels, Op, Labels

LEMMA Parts ==
  ASSUME IInv
  PROVE  /\ pc \in [Threads -> Labels] /\ PcType(Op, Op)
         /\ FlagsType /\ SignalsType /\ ProgressType
         /\ LabelsOK(Op, Op) /\ RunOK /\ InterferersOK /\ StopOK /\ PendingOK
         /\ pc[Main] # "aborted"
         /\ \A th \in Threads : pc[th] # "blocked"
<1>1. Labels \cup (Op \cup Op) = Labels
  BY DEF Labels, Op
<1>2. HarnessInv(Op, Op)
  BY DEF IInv
<1>3. pc \in [Threads -> Labels]
  BY <1>1, <1>2 DEF HarnessInv, PcType
<1>4. QED
  BY <1>2, <1>3 DEF IInv, HarnessInv, Labels

LEMMA TypeParts == IInv => TypeOK
<1>1. Labels \cup {} = Labels
  OBVIOUS
<1>2. QED
  BY <1>1, Parts DEF TypeOK, HarnessTypeOK, FlagsType, SignalsType, ProgressType

LEMMA InitIInv == Init => IInv
BY InitInv, Ids DEF Init, HarnessInit, IInv

LEMMA OperationStepsOnly ==
  ASSUME IInv, NEW th \in Workers, Operation(th)
  PROVE  OperationsOnly(Op, Op)
<1>1. /\ pc[th] = "op" /\ pc' = [pc EXCEPT ![th] = "loop"] /\ pc \in [Threads -> Labels]
      /\ UNCHANGED <<todo, tid, flags, timer, signals, rows>>
  BY Parts DEF Operation, At, Goto
<1>2. QED
  BY <1>1, Ids DEF OperationsOnly, Op, Labels

LEMMA HarnessSteps ==
  ASSUME IInv, [Next]_vars
  PROVE  HarnessNext(Op, Op) /\ pc'[Main] # "aborted"
<1>1. CASE \/ MainNext \/ MeasuringStep \/ \E t \in Interferers : InterferingStep(t)
           \/ SignalStep \/ \E th \in Workers : Operation(th)
  <2>1. CASE \E th \in Workers : Operation(th)
    BY <2>1, OperationStepsOnly, NoStepAborts DEF HarnessNext, IInv
  <2>2. CASE ~ \E th \in Workers : Operation(th)
    BY <1>1, <2>2, NoStepAborts DEF HarnessNext, MainNext, IInv
  <2>3. QED
    BY <2>1, <2>2
<1>2. CASE UNCHANGED vars
  BY <1>2 DEF HarnessNext, vars, harnessVars, IInv
<1>3. QED
  BY <1>1, <1>2, Ids
  DEF Next, Ending, MeasuringNext, InterferingNext, SignalNext, SignalStep

LEMMA NextIInv == IInv /\ [Next]_vars => IInv'
BY HarnessSteps, NextInv, OpLabels DEF IInv

LEMMA Inductive == Spec => []IInv
BY InitIInv, NextIInv, PTL DEF Spec

-----------------------------------------------------------------------------
(* Every variable keeps to its type.                                       *)
THEOREM TypeCorrect == Spec => []TypeOK
BY TypeParts, Inductive, PTL

(* No thread outlives the run that created it, and no SIGINT the thread    *)
(* that it was sent to.                                                    *)
THEOREM ThreadsEndWithRun == Spec => []ThreadsWithinRun
<1>1. IInv => ThreadsWithinRun
  BY InvThreadsWithinRun DEF IInv
<1>2. QED
  BY <1>1, Inductive, PTL

(* Operations are only measured while all interfering threads exist.       *)
THEOREM InterferenceWhileMeasuring == Spec => []InterferenceThroughout
<1>1. IInv => InterferenceThroughout
  BY InvInterferenceThroughout, OpLabels DEF IInv
<1>2. QED
  BY <1>1, Inductive, PTL

(* Without stalls, a run during which the user sends no SIGINT, and at     *)
(* whose start no alarm of an earlier run is pending, measures until its   *)
(* own alarm, whatever was interrupted before it.                          *)
THEOREM MeasurementsAreFull ==
  ASSUME NoStalls
  PROVE  Spec => FullMeasurement
<1> SUFFICES ASSUME NEW r \in Run
    PROVE  Spec => ([]Unaffected(r) => []Full(r))
  BY DEF FullMeasurement
<1>1. Init => Uninterrupted(r)
  BY InitUninterrupted DEF Init
<1>2. IInv /\ Unaffected(r) /\ Uninterrupted(r) /\ [Next]_vars => Uninterrupted(r)'
  BY NextUninterrupted, HarnessSteps, OpLabels DEF IInv
<1>3. Uninterrupted(r) => Full(r)
  BY FullIfUninterrupted
<1>4. QED
  BY <1>1, <1>2, <1>3, Inductive, PTL DEF Spec

(* Whatever the threads and the signals do, run_all takes the runs of its  *)
(* plan one at a time and in order, and writes the rows of each in order   *)
(* and completely, or none for an energy run that cannot measure; it never *)
(* loses or repeats a run or a sample.                                     *)
THEOREM PlanCarriedOut == Spec => Promise!Safe
<1>1. Init => PlanInv /\ Promise!Init
  BY InitPlan DEF Init
<1>2. IInv /\ PlanInv /\ [Next]_vars => PlanInv' /\ [Promise!Next]_(Promise!vars)
  BY NextKept, HarnessSteps, OpLabels DEF IInv, Kept
<1>3. QED
  BY <1>1, <1>2, Inductive, PTL DEF Spec, Promise!Safe
=============================================================================
