------------------------------ MODULE BenchPlan ------------------------------
(***************************************************************************)
(* What run_all promises: the runs of the plan are taken one at a time and *)
(* in order; a run is skipped, or writes its rows in order and completely, *)
(* except that an energy run may find that it cannot measure and write     *)
(* none; and the program ends.                                             *)
(***************************************************************************)
EXTENDS Integers, Sequences

CONSTANTS
  Plans,        \* the runs that may be asked for, all different in each plan
  Skipped(_),   \* the runs that this machine or program does not support
  Rows(_),      \* the number of rows of a run
  MayFail(_)    \* the runs that may be unable to measure

VARIABLES todo, active, out, ended
vars == <<todo, active, out, ended>>

run == Head(todo)
Written == { out[i].sample : i \in { j \in DOMAIN out : out[j].run = run } }

Init == todo \in Plans /\ active = FALSE /\ out = << >> /\ ended = FALSE

Skip ==
  /\ ~ ended /\ ~ active /\ todo # << >> /\ Skipped(run)
  /\ todo' = Tail(todo)
  /\ UNCHANGED <<active, out, ended>>

Begin ==
  /\ ~ active /\ todo # << >> /\ ~ Skipped(run)
  /\ active' = TRUE
  /\ UNCHANGED <<todo, out, ended>>

Write ==
  /\ active
  /\ \E n \in 0 .. Rows(run) - 1 :
       /\ Written = 0 .. n - 1
       /\ out' = Append(out, [run |-> run, sample |-> n])
  /\ UNCHANGED <<todo, active, ended>>

Return ==
  /\ active
  /\ Written = 0 .. Rows(run) - 1 \/ (Written = {} /\ MayFail(run))
  /\ active' = FALSE /\ todo' = Tail(todo)
  /\ UNCHANGED <<out, ended>>

End ==
  /\ ~ active /\ todo = << >> /\ ~ ended
  /\ ended' = TRUE
  /\ UNCHANGED <<todo, active, out>>

Next == Skip \/ Begin \/ Write \/ Return \/ End

Safe == Init /\ [][Next]_vars
Spec == Safe /\ WF_vars(Next)
=============================================================================
