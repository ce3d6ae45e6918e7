--------------------------- MODULE MCEnergySample ---------------------------
(***************************************************************************)
(* Samples of a second of twenty ticks.                                    *)
(***************************************************************************)
EXTENDS EnergySample

Loads == {[pkg |-> 2, dram |-> 1], [pkg |-> 3, dram |-> 1]}
=============================================================================
