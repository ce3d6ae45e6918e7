--------------------------- MODULE PthreadKillBench ---------------------------
(***************************************************************************)
(* bench-pthread-kill.cpp in the harness: the measuring thread sends       *)
(* SIGUSR1 to an interfering thread, which is in sigtimedwait, and waits   *)
(* on a condition variable until that thread has stored the time at which  *)
(* it woke up.  SIGUSR1 is blocked in all threads.                         *)
(*                                                                         *)
(* A time is "fresh" when it is later than the start that the measuring    *)
(* thread took last and "stale" otherwise.                                 *)
(***************************************************************************)
EXTENDS Harness

(* init gives the vectors one element per interfering thread. *)
ASSUME PthreadKillAssumption == NrInterfering > 0

VARIABLES
  remote_tid,          \* the thread to signal next
  remote_timestamps,
  signaled,
  mutexes,             \* holder, or nullopt
  usr1,                \* threads for which SIGUSR1 is pending
  now                  \* the time each thread has taken

killVars == <<remote_tid, remote_timestamps, signaled, mutexes, usr1, now>>
vars == <<harnessVars, killVars>>
harnessButPc == <<todo, tid, flags, timer, signals, rows>>

Init ==
  /\ HarnessInit
  /\ remote_tid = 0
  /\ remote_timestamps = [t \in Interferers |-> "stale"]
  /\ signaled = [t \in Interferers |-> FALSE]
  /\ mutexes = [t \in Interferers |-> nullopt]
  /\ usr1 = {}
  /\ now = [t \in Interferers |-> "stale"]

(* A new Action and new threads; the other vectors are static. *)
StartKillRun ==
  /\ StartRun /\ remote_tid' = 0 /\ usr1' = {}
  /\ UNCHANGED <<remote_timestamps, signaled, mutexes, now>>

-----------------------------------------------------------------------------
(* measured_operation, and raw_operation in an energy run.                 *)

TakeStart ==
  /\ At(Measurer, "op") /\ run.kind = "latency"
  /\ remote_timestamps' = [t \in Interferers |-> "stale"]
  /\ now' = [t \in Interferers |-> "stale"]
  /\ Goto(Measurer, "lock")
  /\ UNCHANGED <<harnessButPc, remote_tid, signaled, mutexes, usr1>>

LockKeepingSignaled ==       \* mutant: signaled is not reset
  /\ At(Measurer, "lock") \/ (At(Measurer, "op") /\ run.kind = "energy")
  /\ mutexes[remote_tid] = nullopt
  /\ mutexes' = [mutexes EXCEPT ![remote_tid] = Measurer]
  /\ Goto(Measurer, "usr1")
  /\ UNCHANGED <<harnessButPc, remote_tid, remote_timestamps, signaled, usr1, now>>

LockAndReset ==
  /\ At(Measurer, "lock") \/ (At(Measurer, "op") /\ run.kind = "energy")
  /\ mutexes[remote_tid] = nullopt
  /\ mutexes' = [mutexes EXCEPT ![remote_tid] = Measurer]
  /\ signaled' = [signaled EXCEPT ![remote_tid] = FALSE]
  /\ Goto(Measurer, "usr1")
  /\ UNCHANGED <<harnessButPc, remote_tid, remote_timestamps, usr1, now>>

SendUsr1 ==
  /\ At(Measurer, "usr1")
  /\ usr1' = usr1 \cup {remote_tid}
  /\ Goto(Measurer, "test")
  /\ UNCHANGED <<harnessButPc, remote_tid, remote_timestamps, signaled, mutexes, now>>

(* The test of the while loop: either it ends, or pthread_cond_wait, which *)
(* unlocks the mutex as well.                                              *)
TestSignaled ==
  /\ At(Measurer, "test")
  /\ mutexes' = [mutexes EXCEPT ![remote_tid] = nullopt]
  /\ Goto(Measurer, IF signaled[remote_tid] THEN "check" ELSE "wait")
  /\ UNCHANGED <<harnessButPc, remote_tid, remote_timestamps, signaled, usr1, now>>

SpuriousWakeup ==
  /\ At(Measurer, "wait") /\ Goto(Measurer, "relock")
  /\ UNCHANGED <<harnessButPc, killVars>>

RelockWithoutTest ==         \* mutant: if instead of while
  /\ At(Measurer, "relock") /\ mutexes[remote_tid] = nullopt
  /\ Goto(Measurer, "check")
  /\ UNCHANGED <<harnessButPc, killVars>>

Relock ==
  /\ At(Measurer, "relock") /\ mutexes[remote_tid] = nullopt
  /\ mutexes' = [mutexes EXCEPT ![remote_tid] = Measurer]
  /\ Goto(Measurer, "test")
  /\ UNCHANGED <<harnessButPc, remote_tid, remote_timestamps, signaled, usr1, now>>

(* assert(end_ns > start_ns), in a latency run *)
CheckTime ==
  /\ At(Measurer, "check")
  /\ remote_tid' = (remote_tid + 1) % NrInterfering
  /\ IF run.kind = "latency" /\ remote_timestamps[remote_tid] = "stale"
     THEN Abort /\ UNCHANGED <<todo, tid, flags, timer, shared, sigints, rows>>
     ELSE Goto(Measurer, "loop") /\ UNCHANGED harnessButPc
  /\ UNCHANGED <<remote_timestamps, signaled, mutexes, usr1, now>>

-----------------------------------------------------------------------------
(* other_operation                                                         *)

InSigtimedwait(t) == pc[t] \in {"op", "blocked", "eintr"}

TakeUsr1(t) ==
  /\ InSigtimedwait(t) /\ t \in usr1
  /\ usr1' = usr1 \ {t} /\ Goto(t, "time")
  /\ UNCHANGED <<harnessButPc, remote_tid, remote_timestamps, signaled, mutexes, now>>

WaitForUsr1(t) ==
  /\ At(t, "op") /\ t \notin usr1
  /\ Goto(t, "blocked")
  /\ UNCHANGED <<harnessButPc, killVars>>

WaitForever(t) ==            \* mutant: sigwaitinfo, without a time limit
  /\ t \notin usr1
  /\ At(t, "eintr")
  /\ Goto(t, "time")
  /\ UNCHANGED <<harnessButPc, killVars>>

(* sigtimedwait fails with EINTR, or with EAGAIN after five seconds, which *)
(* do not pass without a stall while the thread is being measured; the     *)
(* result -1 is treated as SIGUSR1 is.                                     *)
WaitFails(t) ==
  /\ t \notin usr1
  /\ At(t, "eintr") \/ (At(t, "blocked") /\ (NoStalls => stop))
  /\ Goto(t, "time")
  /\ UNCHANGED <<harnessButPc, killVars>>

TakeTime(t) ==
  /\ At(t, "time")
  /\ now' = [now EXCEPT ![t] = "fresh"] /\ Goto(t, "store")
  /\ UNCHANGED <<harnessButPc, remote_tid, remote_timestamps, signaled, mutexes, usr1>>

StoreTime(t) ==
  /\ At(t, "store")
  /\ remote_timestamps' = [remote_timestamps EXCEPT ![t] = now[t]]
  /\ Goto(t, "signal")
  /\ UNCHANGED <<harnessButPc, remote_tid, signaled, mutexes, usr1, now>>

SignalWithoutSetting(t) ==   \* mutant: signaled is not set
  /\ At(t, "signal") /\ mutexes[t] = nullopt
  /\ pc' = [pc EXCEPT ![t] = "loop",
                      ![Measurer] = IF remote_tid = t /\ @ = "wait" THEN "relock" ELSE @]
  /\ UNCHANGED <<harnessButPc, remote_tid, remote_timestamps, signaled, mutexes, usr1, now>>

(* The critical section: signaled, pthread_cond_signal. *)
Signal(t) ==
  /\ At(t, "signal") /\ mutexes[t] = nullopt
  /\ signaled' = [signaled EXCEPT ![t] = TRUE]
  /\ pc' = [pc EXCEPT ![t] = "loop",
                      ![Measurer] = IF remote_tid = t /\ @ = "wait" THEN "relock" ELSE @]
  /\ UNCHANGED <<harnessButPc, remote_tid, remote_timestamps, mutexes, usr1, now>>

-----------------------------------------------------------------------------
Keep(A) == A /\ UNCHANGED killVars

MainNext == Keep(MainStep) \/ StartKillRun \/ Keep(ReturnFromRun)
MeasuringNext ==
  \/ Keep(MeasuringStep)
  \/ TakeStart \/ LockAndReset \/ SendUsr1 \/ TestSignaled \/ Relock \/ CheckTime
InterferingNext(t) ==
  \/ Keep(InterferingStep(t))
  \/ TakeUsr1(t) \/ WaitForUsr1(t) \/ WaitFails(t) \/ TakeTime(t) \/ StoreTime(t)
  \/ Signal(t)
Ending == pc[Main] \in {"exit", "aborted"} /\ UNCHANGED vars

Next ==
  \/ MainNext
  \/ MeasuringNext \/ SpuriousWakeup
  \/ \E t \in Interferers : InterferingNext(t)
  \/ Keep(TimerExpires)
  \/ \E th \in Threads : Keep(Handler(th))
  \/ Keep(UserSigint)
  \/ Ending

(* A thread that waits for a mutex gets it if it is free again and again. *)
Fairness ==
  /\ WF_vars(MainNext)
  /\ SF_vars(MeasuringNext)
  /\ \A t \in Interferers : SF_vars(InterferingNext(t))
  /\ WF_vars(Keep(TimerExpires))
  /\ WF_vars(\E th \in Threads : Keep(signal_handler(th)))
  /\ WF_vars(\E th \in Threads : Keep(alarm_signal_handler(th)))

Spec == Init /\ [][Next]_vars /\ Fairness

-----------------------------------------------------------------------------
TypeOK ==
  /\ HarnessTypeOK({ "lock", "usr1", "test", "wait", "relock", "check", "blocked",
                     "eintr", "time", "store", "signal" })
  /\ remote_tid \in Interferers
  /\ remote_timestamps \in [Interferers -> {"fresh", "stale"}]
  /\ signaled \in [Interferers -> BOOLEAN]
  /\ mutexes \in [Interferers -> {Measurer, nullopt}]
  /\ usr1 \subseteq Interferers
  /\ now \in [Interferers -> {"fresh", "stale"}]

(* Until the run is stopped, a SIGUSR1 is pending, taken or acknowledged   *)
(* exactly while the measuring thread waits for it, and for the thread it  *)
(* waits for: signals do not pile up and no acknowledgement is for an      *)
(* earlier request.                                                        *)
Sent == pc[Measurer] \in {"test", "wait", "relock"}
Taken == { t \in Interferers : pc[t] \in {"time", "store", "signal"} }
OneSignal ==
  ~ stop /\ Live(Measurer) =>
    /\ usr1 \cap Taken = {}
    /\ usr1 \cup Taken =
         IF Sent /\ ~ signaled[remote_tid] THEN {remote_tid} ELSE {}

(* The assertion of measured_operation holds: the time read is later than  *)
(* the start.                                                              *)
AssertionsHold == pc[Main] # "aborted"

(* The operations are a handshake, in which every request is answered.     *)
Requesting == Sent \/ pc[Measurer] = "usr1"
Phase ==
  IF ~ Requesting THEN "idle" ELSE IF ~ signaled[remote_tid] THEN "requested" ELSE "answered"
Shaking == INSTANCE Handshake WITH phase <- Phase
IsHandshake == Shaking!Spec

(* The program ends: the time limit of sigtimedwait makes up for a SIGINT  *)
(* that the harness sends to an interfering thread just before it waits.   *)
Termination == <>(pc[Main] = "exit")
=============================================================================
