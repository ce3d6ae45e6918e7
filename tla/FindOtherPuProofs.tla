-------------------------- MODULE FindOtherPuProofs --------------------------
(***************************************************************************)
(* For every set of machines and every measuring CPU, find_other_pu        *)
(* computes its closed form, returns a PU of the scenario asked for, and,  *)
(* started from the first PU, finds one if there is one.                   *)
(***************************************************************************)
EXTENDS FindOtherPu, TLAPS

(* No PU up to the loop variable has ended the search. *)
Searched ==
  /\ Package(topology, measuring_cpu) # nullopt
  /\ measuring_cpu <= pu
  /\ \A p \in measuring_cpu + 1 .. pu : ~ StopsAt(topology, measuring_cpu, p, scenario)

(* A search that fails has seen every later PU, or one in no package.      *)
FailedForAReason ==
  pc = "returned" /\ result = nullopt =>
    \/ \E p \in PUs(topology) : Package(topology, p) = nullopt
    \/ \A p \in Later(topology, measuring_cpu) :
         ~ Matches(topology, measuring_cpu, p, scenario)

IInv ==
  /\ TypeOK
  /\ FailedForAReason
  /\ pc = "entry" => pu = measuring_cpu /\ result = nullopt
  /\ pc = "loop" => Searched /\ result = nullopt
  /\ ComputesClosedForm

LEMMA InitIInv == Init => IInv
BY TopologyAssumption DEF Init, IInv, TypeOK, ComputesClosedForm, FailedForAReason

(* The loop stops at one PU at most. *)
LEMMA FirstStopUnique ==
  ASSUME NEW t, t.nr \in Nat, NEW p \in PUs(t), NEW s,
         NEW a, NEW b, FirstStop(t, p, a, s), FirstStop(t, p, b, s)
  PROVE  a = b
<1>1. a \in Later(t, p) /\ b \in Later(t, p)
  BY DEF FirstStop
<1>2. a \in Int /\ b \in Int /\ p \in Int /\ p < a /\ p < b
  BY <1>1 DEF Later, PUs
<1>3. ~ (a < b)
  BY <1>2 DEF FirstStop
<1>4. ~ (b < a)
  BY <1>2 DEF FirstStop
<1>5. QED
  BY <1>2, <1>3, <1>4

LEMMA EnterIInv == IInv /\ Enter => IInv'
<1> SUFFICES ASSUME IInv, Enter PROVE IInv'
  OBVIOUS
<1> USE DEF IInv, Enter, args
<1>1. CASE Package(topology, measuring_cpu) = nullopt
  BY <1>1 DEF Return, TypeOK, ComputesClosedForm, FailedForAReason, HasOtherPu, Found
<1>2. CASE Package(topology, measuring_cpu) # nullopt
  <2>1. Searched'
    BY <1>2 DEF Searched, TypeOK, PUs
  <2>2. QED
    BY <1>2, <2>1 DEF TypeOK, ComputesClosedForm, FailedForAReason
<1>3. QED
  BY <1>1, <1>2

LEMMA ExhaustedIInv == IInv /\ Exhausted => IInv'
<1> SUFFICES ASSUME IInv, Exhausted PROVE IInv'
  OBVIOUS
<1>1. pu = topology.nr - 1
  BY DEF Exhausted, NextPu, IInv, TypeOK, PUs
<1>2. ~ HasOtherPu(topology, measuring_cpu, scenario)
  BY <1>1 DEF HasOtherPu, Found, FirstStop, Later, IInv, Searched, Exhausted
<1>3. FailedForAReason'
  BY <1>1 DEF FailedForAReason, StopsAt, Later, IInv, Searched, Exhausted, args
<1>4. QED
  BY <1>2, <1>3 DEF IInv, TypeOK, Exhausted, Return, args, ComputesClosedForm

LEMMA IterateIInv == IInv /\ Iterate => IInv'
<1> SUFFICES ASSUME IInv, Iterate PROVE IInv'
  OBVIOUS
<1> DEFINE t == topology
           m == measuring_cpu
<1>1. /\ t.nr \in Nat /\ m \in PUs(t) /\ pu \in PUs(t) /\ NextPu \in PUs(t)
      /\ m <= pu /\ NextPu = pu + 1
      /\ Package(t, m) # nullopt
      /\ \A p \in m + 1 .. pu : ~ StopsAt(t, m, p, scenario)
  BY DEF Iterate, IInv, TypeOK, Searched, NextPu
<1>2. /\ NextPu \in Int /\ NextPu \in Later(t, m)
      /\ \A p \in m + 1 .. NextPu - 1 : ~ StopsAt(t, m, p, scenario)
  BY <1>1 DEF PUs, Later
<1>3. CASE Package(t, NextPu) = nullopt
  <2>1. FirstStop(t, m, NextPu, scenario)
    BY <1>2, <1>3 DEF FirstStop, StopsAt
  <2>2. ~ HasOtherPu(t, m, scenario)
    BY <2>1, <1>1, <1>3, FirstStopUnique DEF HasOtherPu, Found
  <2>3. pc' = "returned" /\ result' = nullopt
    BY <1>3 DEF Iterate, Return
  <2>4. QED
    BY <1>1, <1>3, <2>2, <2>3
    DEF Iterate, IInv, TypeOK, args, ComputesClosedForm, FailedForAReason
<1>4. CASE Package(t, NextPu) # nullopt /\ Matches(t, m, NextPu, scenario)
  <2>1. Found(t, m, NextPu, scenario)
    BY <1>1, <1>2, <1>4 DEF Found, FirstStop, StopsAt
  <2>2. pc' = "returned" /\ result' = NextPu
    BY <1>4 DEF Iterate, Return
  <2>3. QED
    BY <1>1, <2>1, <2>2 
    DEF Iterate, IInv, TypeOK, args, ComputesClosedForm, FailedForAReason, PUs, nullopt
<1>5. CASE Package(t, NextPu) # nullopt /\ ~ Matches(t, m, NextPu, scenario)
  <2>1. ~ StopsAt(t, m, NextPu, scenario)
    BY <1>5 DEF StopsAt
  <2>2. UNCHANGED <<pc, result>> /\ pu' = NextPu /\ pc = "loop"
    BY <1>5 DEF Iterate
  <2>3. Searched'
    BY <1>1, <1>2, <2>1, <2>2 DEF Searched, Iterate, args, PUs
  <2>4. QED
    BY <1>1, <2>2, <2>3
    DEF Iterate, IInv, TypeOK, args, ComputesClosedForm, FailedForAReason
<1>6. QED
  BY <1>3, <1>4, <1>5

LEMMA NextIInv == IInv /\ [Next]_vars => IInv'
<1>1. IInv /\ UNCHANGED vars => IInv'
  BY DEF IInv, TypeOK, Searched, ComputesClosedForm, FailedForAReason, vars
<1>2. QED
  BY <1>1, EnterIInv, ExhaustedIInv, IterateIInv DEF Next, Terminated

LEMMA Inductive == Spec => []IInv
BY InitIInv, NextIInv, PTL DEF Spec

(* Every variable keeps to its type.                                       *)
THEOREM FindOtherPuTypeCorrect == Spec => []TypeOK
<1>1. IInv => TypeOK
  BY DEF IInv
<1>2. QED
  BY <1>1, Inductive, PTL

(* The loop of find_other_pu returns the first later PU of the scenario.   *)
THEOREM FindOtherPuCorrect == Spec => []ComputesClosedForm
<1>1. IInv => ComputesClosedForm
  BY DEF IInv
<1>2. QED
  BY <1>1, Inductive, PTL

(* The PU returned is in the scenario that enum Scenario describes.        *)
THEOREM FindOtherPuSound == Spec => []Sound
<1>1. IInv => Sound
  <2> SUFFICES ASSUME IInv, pc = "returned", result # nullopt
               PROVE  InScenario(topology, measuring_cpu, result, scenario)
    BY DEF Sound
  <2>1. /\ result \in Later(topology, measuring_cpu)
        /\ Matches(topology, measuring_cpu, result, scenario)
    BY DEF IInv, ComputesClosedForm, Found, FirstStop, StopsAt
  <2>2. result \in PUs(topology) \ {measuring_cpu}
    BY <2>1 DEF IInv, TypeOK, Later, PUs
  <2>3. Core(topology, measuring_cpu) = Core(topology, result)
          => Package(topology, measuring_cpu) = Package(topology, result)
    BY DEF Package
  <2>4. scenario \in {"REMOTE_PACKAGE", "REMOTE_CORE", "LOCAL_CORE"}
    BY DEF IInv, TypeOK, InterferenceScenario
  <2>5. QED
    BY <2>1, <2>2, <2>3, <2>4 DEF InScenario, Matches
<1>2. QED
  BY <1>1, Inductive, PTL

(* With the default measuring CPU, the search misses no PU.                *)
THEOREM FindOtherPuComplete ==
  ASSUME MeasuringCpus = {0}
  PROVE  Spec => []Complete
<1> DEFINE Cpu0 == measuring_cpu = 0
<1>1. Init => Cpu0
  BY DEF Init
<1>2. Cpu0 /\ [Next]_vars => Cpu0'
  BY DEF Next, Enter, Exhausted, Iterate, Terminated, args, vars
<1>3. Spec => []Cpu0
  BY <1>1, <1>2, PTL DEF Spec
<1>4. IInv /\ Cpu0 => Complete
  <2> SUFFICES ASSUME IInv, Cpu0, pc = "returned", result = nullopt,
                      \A p \in Later(topology, 0) : ~ Matches(topology, 0, p, scenario),
                      NEW p \in PUs(topology), InScenario(topology, 0, p, scenario)
               PROVE  FALSE
    BY DEF Complete, IInv, FailedForAReason
  <2>1. p \in Later(topology, 0)
    BY DEF InScenario, PUs, Later
  <2>2. scenario \in {"REMOTE_PACKAGE", "REMOTE_CORE", "LOCAL_CORE"}
    BY DEF IInv, TypeOK, InterferenceScenario
  <2>3. Matches(topology, 0, p, scenario)
    BY <2>2 DEF InScenario, Matches
  <2>4. QED
    BY <2>1, <2>3
<1>5. QED
  BY <1>3, <1>4, Inductive, PTL
=============================================================================
