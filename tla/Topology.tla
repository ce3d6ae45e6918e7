------------------------------ MODULE Topology ------------------------------
(***************************************************************************)
(* The hwloc object tree as find_package and find_other_pu of benchmark.h  *)
(* read it, and the two functions in closed form.                          *)
(*                                                                         *)
(* A topology is a record t:                                               *)
(*   t.nr      number of PUs; the PUs are the objects 0 .. t.nr - 1,       *)
(*             numbered in hwloc's logical order, the order in which       *)
(*             hwloc_get_next_obj_by_type returns them;                    *)
(*   t.parent  the parent of every object, nullptr for the root;           *)
(*   t.type    the type of every object.                                   *)
(***************************************************************************)
EXTENDS Integers, FiniteSets

nullptr == -1        \* no parent object
nullopt == -1        \* an empty std::optional<hwloc_obj_t>

PUs(t) == 0 .. t.nr - 1

(* The Scenario values for which the harness looks for another PU. *)
InterferenceScenario == {"REMOTE_PACKAGE", "REMOTE_CORE", "LOCAL_CORE"}
Scenario == InterferenceScenario \cup {"NO_INTERFERENCE"}

(* The nearest proper ancestor of obj that is a package. *)
find_package(t, obj) ==
  LET up[o \in DOMAIN t.parent] ==
        IF t.parent[o] = nullptr THEN nullopt
        ELSE IF t.type[t.parent[o]] = "PACKAGE" THEN t.parent[o]
        ELSE up[t.parent[o]]
  IN  up[obj]

Core(t, pu) == t.parent[pu]
Package(t, pu) == find_package(t, Core(t, pu))

(* The test of the switch statement for a candidate PU. *)
MatchesSwapped(t, pu, other, scenario) ==       \* mutant: tests the wrong level
  CASE scenario = "REMOTE_PACKAGE" -> Core(t, pu) # Core(t, other)
    [] scenario = "REMOTE_CORE"    -> Package(t, pu) = Package(t, other)
    [] scenario = "LOCAL_CORE"     -> Core(t, pu) = Core(t, other)

Matches(t, pu, other, scenario) ==
  CASE scenario = "REMOTE_PACKAGE" -> Package(t, pu) # Package(t, other)
    [] scenario = "REMOTE_CORE"    -> /\ Package(t, pu) = Package(t, other)
                                      /\ Core(t, pu) # Core(t, other)
    [] scenario = "LOCAL_CORE"     -> Core(t, pu) = Core(t, other)

(* The PUs the loop looks at, and those at which it returns. *)
Later(t, pu) == pu + 1 .. t.nr - 1
StopsAt(t, pu, other, scenario) ==
  Package(t, other) = nullopt \/ Matches(t, pu, other, scenario)

(* other is the PU at which the loop that starts after pu returns. *)
FirstStop(t, pu, other, scenario) ==
  /\ other \in Later(t, pu)
  /\ StopsAt(t, pu, other, scenario)
  /\ \A p \in pu + 1 .. other - 1 : ~ StopsAt(t, pu, p, scenario)

(* What find_other_pu returns: the first later PU in the scenario, unless  *)
(* the measuring PU, or a PU met on the way, is in no package.             *)
Found(t, pu, other, scenario) ==
  /\ Package(t, pu) # nullopt
  /\ FirstStop(t, pu, other, scenario)
  /\ Package(t, other) # nullopt

HasOtherPu(t, pu, scenario) == \E o \in Later(t, pu) : Found(t, pu, o, scenario)

(* The topologies of hwloc: logical indices follow the tree depth first,   *)
(* so the PUs of a core, and the cores of a package, are contiguous.       *)
LogicalOrder(t) ==
  \A p, q, r \in PUs(t) :
    p <= q /\ q <= r =>
      /\ Core(t, p) = Core(t, r) => Core(t, q) = Core(t, p)
      /\ Package(t, p) = Package(t, r) => Package(t, q) = Package(t, p)
=============================================================================
