----------------------------- MODULE FindOtherPu -----------------------------
(***************************************************************************)
(* find_other_pu (benchmark.h), the loop that chooses the CPU on which the *)
(* interfering threads run: one step per iteration.                        *)
(***************************************************************************)
EXTENDS Topology

CONSTANTS
  Topologies,     \* the machines considered
  MeasuringCpus   \* the values of the -m option considered

ASSUME TopologyAssumption == \A t \in Topologies : t.nr \in Nat

VARIABLES
  topology, measuring_cpu, scenario,   \* the arguments
  pu,                                  \* the loop variable
  pc,                                  \* "entry", "loop" or "returned"
  result                               \* the value returned

args == <<topology, measuring_cpu, scenario>>
vars == <<topology, measuring_cpu, scenario, pu, pc, result>>

(* run calls the function with an existing measuring PU only: otherwise    *)
(* hwloc_get_obj_by_type has returned a null pointer.                      *)
Init ==
  /\ topology \in Topologies
  /\ measuring_cpu \in MeasuringCpus \cap PUs(topology)
  /\ scenario \in InterferenceScenario
  /\ pu = measuring_cpu
  /\ pc = "entry"
  /\ result = nullopt

Return(value) == pc' = "returned" /\ result' = value

(* The package of the measuring PU. *)
Enter ==
  /\ pc = "entry"
  /\ IF Package(topology, measuring_cpu) = nullopt
     THEN Return(nullopt)
     ELSE pc' = "loop" /\ UNCHANGED result
  /\ UNCHANGED <<args, pu>>

NextPu == pu + 1

(* hwloc_get_next_obj_by_type has no further PU. *)
Exhausted ==
  /\ pc = "loop" /\ NextPu \notin PUs(topology)
  /\ Return(nullopt)
  /\ UNCHANGED <<args, pu>>

(* mutant: the loop goes on past a PU that is in no package *)
IterateIgnoringPackages ==
  /\ pc = "loop" /\ NextPu \in PUs(topology)
  /\ pu' = NextPu
  /\ IF Matches(topology, measuring_cpu, NextPu, scenario)
     THEN Return(NextPu)
     ELSE UNCHANGED <<pc, result>>
  /\ UNCHANGED args

(* mutant: the PU after the next one is looked at *)
IterateSkippingOne ==
  /\ pc = "loop" /\ NextPu \in PUs(topology)
  /\ pu' = NextPu + 1
  /\ IF NextPu + 1 \in PUs(topology) /\ Matches(topology, measuring_cpu, NextPu + 1, scenario)
     THEN Return(NextPu + 1)
     ELSE UNCHANGED <<pc, result>>
  /\ UNCHANGED args

Iterate ==
  /\ pc = "loop" /\ NextPu \in PUs(topology)
  /\ pu' = NextPu
  /\ CASE Package(topology, NextPu) = nullopt -> Return(nullopt)
       [] /\ Package(topology, NextPu) # nullopt
          /\ Matches(topology, measuring_cpu, NextPu, scenario) -> Return(NextPu)
       [] OTHER -> UNCHANGED <<pc, result>>
  /\ UNCHANGED args

Terminated == pc = "returned" /\ UNCHANGED vars

Next == Enter \/ Exhausted \/ Iterate \/ Terminated

Spec == Init /\ [][Next]_vars

-----------------------------------------------------------------------------
TypeOK ==
  /\ topology.nr \in Nat
  /\ measuring_cpu \in PUs(topology)
  /\ scenario \in InterferenceScenario
  /\ pu \in PUs(topology)
  /\ pc \in {"entry", "loop", "returned"}
  /\ result \in PUs(topology) \cup {nullopt}

(* The loop computes the closed form that the harness modules use: the     *)
(* first later PU of the scenario, or nothing.                             *)
ComputesClosedForm ==
  pc = "returned" =>
    IF result = nullopt
    THEN ~ HasOtherPu(topology, measuring_cpu, scenario)
    ELSE Found(topology, measuring_cpu, result, scenario)

(* What the comments of enum Scenario (benchmark.h:54-63) say of the PU of *)
(* the interfering threads: it is another PU, on a remote package, on a    *)
(* remote core of the same package, or on the same core.                   *)
InScenario(t, p, other, s) ==
  /\ other \in PUs(t) \ {p}
  /\ s = "REMOTE_PACKAGE" <=> Package(t, p) # Package(t, other)
  /\ s = "LOCAL_CORE" <=> Core(t, p) = Core(t, other)

(* The PU returned is in the scenario asked for, and in no other one.      *)
Sound ==
  pc = "returned" /\ result # nullopt =>
    InScenario(topology, measuring_cpu, result, scenario)

(* A PU is found whenever the machine, all of whose PUs are in packages,   *)
(* has one in the scenario asked for.                                      *)
Complete ==
  pc = "returned" /\ result = nullopt =>
    \/ \E p \in PUs(topology) : Package(topology, p) = nullopt
    \/ ~ \E p \in PUs(topology) : InScenario(topology, measuring_cpu, p, scenario)
=============================================================================
