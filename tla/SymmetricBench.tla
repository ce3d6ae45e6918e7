---------------------------- MODULE SymmetricBench ----------------------------
(***************************************************************************)
(* The harness with SymmetricAction, which most programs use: all threads  *)
(* run the same operation, a system call or a few of them that do not wait *)
(* for another thread.                                                     *)
(***************************************************************************)
EXTENDS Harness

vars == harnessVars

Init == HarnessInit

(* measured_operation or raw_operation in the measuring thread,            *)
(* other_operation in the others.                                          *)
Operation(th) ==
  /\ At(th, "op") /\ Goto(th, "loop")
  /\ UNCHANGED <<todo, tid, flags, timer, signals, rows>>

MainNext == MainStep \/ StartRun \/ ReturnFromRun
MeasuringNext == MeasuringStep \/ Operation(Measurer)
InterferingNext(t) == InterferingStep(t) \/ Operation(t)
SignalNext == TimerExpires \/ \E th \in Threads : Handler(th)
Ending == At(Main, "exit") /\ UNCHANGED vars

Next ==
  \/ MainNext
  \/ MeasuringNext
  \/ \E t \in Interferers : InterferingNext(t)
  \/ SignalNext
  \/ UserSigint
  \/ Ending

(* Every thread runs, an armed alarm expires, and a pending signal is      *)
(* delivered; the user need not send any.                                  *)
Fairness ==
  /\ WF_vars(MainNext)
  /\ WF_vars(MeasuringNext)
  /\ \A t \in Interferers : WF_vars(InterferingNext(t))
  /\ WF_vars(TimerExpires)
  /\ WF_vars(\E th \in Threads : signal_handler(th))
  /\ WF_vars(\E th \in Threads : alarm_signal_handler(th))

Spec == Init /\ [][Next]_vars /\ Fairness

-----------------------------------------------------------------------------
TypeOK == HarnessTypeOK({})

(* run_all carries out its plan, see Promise, and the program ends. *)
KeepsPromise == Promise!Spec

(* The program ends.                                                       *)
Termination == <>(pc[Main] = "exit")

(* "SIGINT is sent by user who wants to quit" (signal_handler): no run     *)
(* begins once the handler has received it.                                *)
QuitStopsRuns ==
  [][sigints > 0 /\ sigint_fired /\ "SIGINT" \notin shared => ~ StartRun]_vars
=============================================================================
