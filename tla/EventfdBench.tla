----------------------------- MODULE EventfdBench -----------------------------
(***************************************************************************)
(* bench-eventfd.cpp and bench-eventfd-nonblock.cpp in the harness: the    *)
(* measuring thread writes to remote_efds[0] and reads from local_efd, to  *)
(* which the interfering thread, woken up, writes the time.                *)
(*                                                                         *)
(* A time is "fresh" when it is later than the start that the measuring    *)
(* thread took last and "stale" otherwise.  An eventfd keeps the sum of    *)
(* what is written until it is read: the model keeps the number of         *)
(* requests (all are the descriptor local_efd) and the list of times.      *)
(***************************************************************************)
EXTENDS Harness

CONSTANT EFD_NONBLOCK   \* the flag of remote_efds

(* The Action creates one remote_efds, indexed by the tid of the           *)
(* interfering threads: there is one of them (the default).                *)
ASSUME EventfdAssumption == EFD_NONBLOCK \in BOOLEAN /\ NrInterfering = 1

Closed == -1

VARIABLES
  remote,   \* requests in remote_efds[0], or Closed
  local,    \* times in local_efd
  fd,       \* requests in the value read by the interfering thread
  now       \* the time it has taken

efdVars == <<remote, local, fd, now>>
vars == <<harnessVars, efdVars>>
harnessButPc == <<todo, tid, flags, timer, signals, rows>>

Init == HarnessInit /\ remote = Closed /\ local = << >> /\ fd = 0 /\ now = "stale"

(* Action::Action and Action::~Action. *)
StartEventfdRun == StartRun /\ remote' = 0 /\ local' = << >> /\ UNCHANGED <<fd, now>>
ReturnFromEventfdRun == ReturnFromRun /\ remote' = Closed /\ UNCHANGED <<local, fd, now>>

-----------------------------------------------------------------------------
(* measured_operation, and raw_operation in an energy run.                 *)

TakeStart ==
  /\ At(Measurer, "op") /\ run.kind = "latency"
  /\ local' = [i \in DOMAIN local |-> "stale"] /\ now' = "stale"
  /\ Goto(Measurer, "request")
  /\ UNCHANGED <<harnessButPc, remote, fd>>

WriteRequest ==
  /\ At(Measurer, "request") \/ (At(Measurer, "op") /\ run.kind = "energy")
  /\ remote' = remote + 1
  /\ Goto(Measurer, "read")
  /\ UNCHANGED <<harnessButPc, local, fd, now>>

WaitForReply ==
  /\ At(Measurer, "read") /\ local = << >>
  /\ Goto(Measurer, "blocked")
  /\ UNCHANGED <<harnessButPc, efdVars>>

Waiting == pc[Measurer] \in {"read", "blocked", "eintr"}

(* The process ends with its descriptors when an assertion fails. *)
FailAssertion ==
  /\ Abort /\ remote' = Closed /\ local' = << >>
  /\ UNCHANGED <<todo, tid, flags, timer, shared, sigints, rows, fd, now>>

(* assert(end_ns > start_ns), in a latency run *)
ReadReply ==
  /\ Waiting /\ local # << >>
  /\ IF run.kind = "latency" /\ local = <<"stale">>
     THEN FailAssertion
     ELSE /\ local' = << >> /\ Goto(Measurer, "loop")
          /\ UNCHANGED <<harnessButPc, remote, fd, now>>

(* Every error of eventfd_read is an assertion failure, EINTR as well. *)
InterruptedReply == At(Measurer, "eintr") /\ local = << >> /\ FailAssertion

-----------------------------------------------------------------------------
(* other_operation                                                         *)

Reading(t) == pc[t] \in {"op", "blocked", "eintr"}

ReadWithoutStamp(t) ==       \* mutant: replies with the time of the last request
  /\ Reading(t) /\ remote > 0
  /\ fd' = remote /\ remote' = 0
  /\ Goto(t, "reply")
  /\ UNCHANGED <<harnessButPc, local, now>>

ReadKeepingRequest(t) ==     \* mutant: the read does not reset the counter
  /\ Reading(t) /\ remote > 0
  /\ fd' = remote
  /\ Goto(t, "stamp")
  /\ UNCHANGED <<harnessButPc, remote, local, now>>

ReadRequest(t) ==
  /\ Reading(t) /\ remote > 0
  /\ fd' = remote /\ remote' = 0
  /\ Goto(t, "stamp")
  /\ UNCHANGED <<harnessButPc, local, now>>

WaitForRequest(t) ==
  /\ At(t, "op") /\ remote = 0 /\ ~ EFD_NONBLOCK
  /\ Goto(t, "blocked")
  /\ UNCHANGED <<harnessButPc, efdVars>>

ReplyAnyway(t) ==            \* mutant: EAGAIN is not told from success
  /\ At(t, "op") /\ remote = 0 /\ EFD_NONBLOCK
  /\ fd' = 0 /\ Goto(t, "stamp")
  /\ UNCHANGED <<harnessButPc, remote, local, now>>

RetryRead(t) ==              \* mutant: EAGAIN does not return to the harness
  /\ At(t, "op") /\ remote = 0 /\ EFD_NONBLOCK
  /\ UNCHANGED vars

NoRequest(t) ==              \* EAGAIN
  /\ At(t, "op") /\ remote = 0 /\ EFD_NONBLOCK
  /\ Goto(t, "loop")
  /\ UNCHANGED <<harnessButPc, efdVars>>

ReplyAfterInterrupt(t) ==    \* mutant: EINTR is not told from success
  /\ At(t, "eintr") /\ remote = 0
  /\ fd' = 0 /\ Goto(t, "stamp")
  /\ UNCHANGED <<harnessButPc, remote, local, now>>

LeaveAfterInterrupt(t) ==    \* mutant: EINTR ends the thread
  /\ At(t, "eintr") /\ remote = 0
  /\ ExitThread(t)
  /\ UNCHANGED <<todo, tid, flags, timer, shared, sigints, rows, efdVars>>

InterruptedRequest(t) ==     \* EINTR
  /\ At(t, "eintr") /\ remote = 0
  /\ Goto(t, "loop")
  /\ UNCHANGED <<harnessButPc, efdVars>>

TakeTime(t) ==
  /\ At(t, "stamp") /\ now' = "fresh"
  /\ Goto(t, "reply")
  /\ UNCHANGED <<harnessButPc, remote, local, fd>>

(* The sum of several requests is not a descriptor. *)
Reply(t) ==
  /\ At(t, "reply")
  /\ IF fd # 1
     THEN FailAssertion
     ELSE /\ local' = Append(local, now) /\ Goto(t, "loop")
          /\ UNCHANGED <<harnessButPc, remote, fd, now>>

-----------------------------------------------------------------------------
Keep(A) == A /\ UNCHANGED efdVars

MainNext == Keep(MainStep) \/ StartEventfdRun \/ ReturnFromEventfdRun
MeasuringNext ==
  \/ Keep(MeasuringStep)
  \/ TakeStart \/ WriteRequest \/ WaitForReply \/ ReadReply \/ InterruptedReply
InterferingNext(t) ==
  \/ Keep(InterferingStep(t))
  \/ ReadRequest(t) \/ WaitForRequest(t) \/ NoRequest(t) \/ InterruptedRequest(t)
  \/ TakeTime(t) \/ Reply(t)
Ending == pc[Main] \in {"exit", "aborted"} /\ UNCHANGED vars

Next ==
  \/ MainNext
  \/ MeasuringNext
  \/ \E t \in Interferers : InterferingNext(t)
  \/ Keep(TimerExpires)
  \/ \E th \in Threads : Keep(Handler(th))
  \/ Keep(UserSigint)
  \/ Ending

Fairness ==
  /\ WF_vars(MainNext)
  /\ WF_vars(MeasuringNext)
  /\ \A t \in Interferers : WF_vars(InterferingNext(t))
  /\ WF_vars(Keep(TimerExpires))
  /\ WF_vars(\E th \in Threads : Keep(signal_handler(th)))
  /\ WF_vars(\E th \in Threads : Keep(alarm_signal_handler(th)))

Spec == Init /\ [][Next]_vars /\ Fairness

-----------------------------------------------------------------------------
TypeOK ==
  /\ HarnessTypeOK({"request", "read", "blocked", "eintr", "stamp", "reply"})
  /\ remote \in Nat \cup {Closed}
  /\ local \in Seq({"fresh", "stale"})
  /\ fd \in Nat /\ now \in {"fresh", "stale"}

(* While the measuring thread waits there is one request, time stamp or    *)
(* reply on its way, and otherwise none: the counters of the eventfds,     *)
(* which add up what is written, never mix two messages.                   *)
InHand == Cardinality({ t \in Interferers : pc[t] \in {"stamp", "reply"} })
OneMessage ==
  remote # Closed => remote + InHand + Len(local) = IF Waiting THEN 1 ELSE 0

(* No assertion of the operations fails: every time read is later than the *)
(* start of its measurement, and the descriptor written to is local_efd.   *)
AssertionsHold == pc[Main] # "aborted"

(* Whichever threads the signals interrupt, an assertion fails only while  *)
(* a read of the measuring thread is interrupted, where its own does: in   *)
(* no other state is there a reply whose time is too early, or one to a    *)
(* descriptor that is none.                                                *)
OnlyEintrAborts ==
  [][AssertionsHold /\ ~ AssertionsHold' => pc[Measurer] = "eintr"]_vars

(* The operations are a handshake, in which every request is answered.     *)
Phase ==
  IF ~ Waiting THEN "idle" ELSE IF local = << >> THEN "requested" ELSE "answered"
Shaking == INSTANCE Handshake WITH phase <- Phase
IsHandshake == Shaking!Spec

(* Whichever threads the signals interrupt, a request is answered, or the  *)
(* program aborts.                                                         *)
RequestAnswered == Waiting ~> ~ Waiting

(* The program ends. *)
Termination == <>(pc[Main] = "exit")
=============================================================================
