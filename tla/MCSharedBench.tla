---------------------------- MODULE MCSharedBench ----------------------------
(***************************************************************************)
(* All the programs of module Programs on a machine of two cores.          *)
(***************************************************************************)
EXTENDS SharedBench, TLC

(* One package of two cores with one PU each. *)
TwoCores ==
  [ nr     |-> 2,
    parent |-> [p \in 0 .. 1 |-> 10 + p] @@ [c \in 10 .. 11 |-> 20] @@ (20 :> 30)
                 @@ (30 :> nullptr),
    type   |-> [p \in 0 .. 1 |-> "PU"] @@ [c \in 10 .. 11 |-> "CORE"]
                 @@ (20 :> "PACKAGE") @@ (30 :> "MACHINE") ]

MainOnly == {Main}
=============================================================================
