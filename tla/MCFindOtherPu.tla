---------------------------- MODULE MCFindOtherPu ----------------------------
(***************************************************************************)
(* Every machine with four PUs on one to four cores, numbered in hwloc's   *)
(* logical order, where a core is in package 20, in package 21 behind a    *)
(* shared cache, or directly below the root (a machine whose packages      *)
(* hwloc cannot see).                                                      *)
(***************************************************************************)
EXTENDS FindOtherPu, TLC

NrPUs == 4
FirstCore == 10
CoreObj == FirstCore .. FirstCore + NrPUs - 1
Cache == 30
Machine == 40
ParentOf == (20 :> Machine) @@ (21 :> Machine) @@ (Cache :> 21) @@ (Machine :> nullptr)
TypeOf == (20 :> "PACKAGE") @@ (21 :> "PACKAGE") @@ (Cache :> "CACHE") @@ (Machine :> "MACHINE")

(* Cores are numbered as the PUs are, without gaps. *)
CoreMaps ==
  { f \in [0 .. NrPUs - 1 -> CoreObj] :
      f[0] = FirstCore /\ \A p \in 1 .. NrPUs - 1 : f[p] \in {f[p - 1], f[p - 1] + 1} }

Machines ==
  { [ nr     |-> NrPUs,
      parent |-> core @@ [c \in CoreObj |-> above[c]] @@ ParentOf,
      type   |-> [p \in 0 .. NrPUs - 1 |-> "PU"] @@ [c \in CoreObj |-> "CORE"] @@ TypeOf ]
    : core \in CoreMaps, above \in [CoreObj -> {20, Cache, Machine}] }

MCTopologies ==
  { t \in Machines :
      /\ LogicalOrder(t)
      /\ \A c \in CoreObj : (\A p \in PUs(t) : Core(t, p) # c) => t.parent[c] = Machine }
=============================================================================
