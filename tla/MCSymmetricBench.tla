--------------------------- MODULE MCSymmetricBench ---------------------------
(***************************************************************************)
(* Small machines for the harness.                                         *)
(***************************************************************************)
EXTENDS SymmetricBench, TLC

(* Two packages of two cores with one PU each: no SMT. *)
TwoPackages ==
  [ nr     |-> 4,
    parent |-> [p \in 0 .. 3 |-> 10 + p] @@ [c \in 10 .. 13 |-> IF c < 12 THEN 20 ELSE 21]
                 @@ [p \in 20 .. 21 |-> 30] @@ (30 :> nullptr),
    type   |-> [p \in 0 .. 3 |-> "PU"] @@ [c \in 10 .. 13 |-> "CORE"]
                 @@ [p \in 20 .. 21 |-> "PACKAGE"] @@ (30 :> "MACHINE") ]

MainOnly == {Main}
AnyThread == Threads
=============================================================================
