---------------------------- MODULE MCEventfdBench ----------------------------
(***************************************************************************)
(* Two cores with one PU each in one package.                              *)
(***************************************************************************)
EXTENDS EventfdBench, TLC

TwoCores ==
  [ nr     |-> 2,
    parent |-> (0 :> 10) @@ (1 :> 11) @@ (10 :> 20) @@ (11 :> 20) @@ (20 :> 30) @@ (30 :> nullptr),
    type   |-> (0 :> "PU") @@ (1 :> "PU") @@ (10 :> "CORE") @@ (11 :> "CORE")
                 @@ (20 :> "PACKAGE") @@ (30 :> "MACHINE") ]

MainOnly == {Main}
AnyThread == Threads
=============================================================================
