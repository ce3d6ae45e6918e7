----------------------------- MODULE SharedBench -----------------------------
(***************************************************************************)
(* The harness with the programs of module Programs, one action for each   *)
(* step of an operation: what the threads share (a lock, the pool of huge  *)
(* pages, a file, a mapping) and what they leave behind.  Seen from the    *)
(* harness, every operation is the single step of SymmetricBench.          *)
(***************************************************************************)
EXTENDS SymmetricBench, Programs, FiniteSets

CONSTANT nr_hugepages   \* 2 MB pages in the kernel's pool

ASSUME PoolAssumption == nr_hugepages \in Nat /\ benchmarks \subseteq ProgramNames

VARIABLES
  ip,       \* per thread, the next step of its operation
  held,     \* per thread, what its operation has acquired and not yet released
  free,     \* huge pages in the pool
  object,   \* what Action has made, a mapping by its protection
  now,      \* per thread, the time the SIGSEGV handler has taken and
  end_ns    \* the time at which the operation ended, both "after" when taken
            \* after the start of the latest measured operation

times == <<now, end_ns>>
ownVars == <<ip, held, free, object, times>>
sharedVars == <<vars, ownVars>>

Resources == {"lock", "rdlock", "map", "page", "fd", "child", "ended"}

SharedInit ==
  /\ Init
  /\ ip = [th \in Threads |-> 1]
  /\ held = [th \in Threads |-> {}]
  /\ free = nr_hugepages
  /\ object = "nothing"
  /\ now = [th \in Threads |-> "before"] /\ end_ns = [th \in Threads |-> "before"]

-----------------------------------------------------------------------------
(* Action's constructor and destructor.                                    *)

StartShared ==
  /\ StartRun /\ object' = Programs[run.benchmark].object
  /\ UNCHANGED <<ip, held, free, times>>

(* unlink fails when the file is gone. *)
ReturnShared ==
  /\ ReturnFromRun /\ object' = "nothing"
  /\ UNCHANGED <<ip, held, free, times>>

-----------------------------------------------------------------------------
(* The steps of an operation of th.                                        *)

Measured(th) == th = Measurer /\ run.kind = "latency"
Code(th) ==
  IF Measured(th) THEN Programs[run.benchmark].measured ELSE Programs[run.benchmark].raw

Over(th) == ip[th] > Len(Code(th))
AtStep(th, step) == At(th, "op") /\ ~ Over(th) /\ Code(th)[ip[th]] = step
Advance(th) == ip' = [ip EXCEPT ![th] = @ + 1]
Acquire(th, r) == held' = [held EXCEPT ![th] = @ \cup {r}]
Release(th, rs) == held' = [held EXCEPT ![th] = @ \ rs]
Holders(r) == { th \in Threads : r \in held[th] }

FailAssertion ==
  /\ Abort
  /\ UNCHANGED <<todo, tid, flags, timer, shared, sigints, rows, ownVars>>

Return(th) ==
  /\ Operation(th) /\ Over(th)
  /\ ip' = [ip EXCEPT ![th] = 1]
  /\ UNCHANGED <<held, free, object, times>>

LockAnyway(th) ==                  \* mutant: the lock is not initialized
  /\ AtStep(th, "lock") /\ Advance(th) /\ Acquire(th, "lock")
  /\ UNCHANGED <<vars, free, object, times>>

Lock(th) ==
  /\ AtStep(th, "lock") /\ Advance(th)
  /\ Holders("lock") \cup Holders("rdlock") = {}
  /\ Acquire(th, "lock")
  /\ UNCHANGED <<vars, free, object, times>>

RdLock(th) ==
  /\ AtStep(th, "rdlock") /\ Advance(th)
  /\ Holders("lock") = {}
  /\ Acquire(th, "rdlock")
  /\ UNCHANGED <<vars, free, object, times>>

Unlock(th) ==
  /\ AtStep(th, "unlock") /\ Advance(th)
  /\ Release(th, {"lock", "rdlock"})
  /\ UNCHANGED <<vars, free, object, times>>

MmapSmall(th) ==
  /\ AtStep(th, "mmap") /\ Advance(th) /\ Acquire(th, "map")
  /\ UNCHANGED <<vars, free, object, times>>

(* assert(map != MAP_FAILED) *)
MmapHuge(th) ==
  /\ AtStep(th, "mmap_huge")
  /\ IF free = 0
     THEN FailAssertion
     ELSE /\ Advance(th) /\ Acquire(th, "page") /\ free' = free - 1
          /\ UNCHANGED <<vars, object, times>>

Unmap(th) ==
  /\ AtStep(th, "munmap") /\ Advance(th)
  /\ Release(th, {"map", "page"})
  /\ free' = IF "page" \in held[th] THEN free + 1 ELSE free
  /\ UNCHANGED <<vars, object, times>>

Touch(th) ==
  /\ AtStep(th, "touch") /\ Advance(th)
  /\ UNCHANGED <<vars, held, free, object, times>>

Protect(th, step, protection) ==
  /\ AtStep(th, step) /\ Advance(th)
  /\ object' = protection
  /\ UNCHANGED <<vars, held, free, times>>

OpenFile(th) ==
  /\ AtStep(th, "open")
  /\ IF object # "file"
     THEN FailAssertion
     ELSE Advance(th) /\ Acquire(th, "fd") /\ UNCHANGED <<vars, free, object, times>>

CloseFile(th) ==
  /\ AtStep(th, "close")
  /\ IF "fd" \notin held[th]
     THEN FailAssertion
     ELSE Advance(th) /\ Release(th, {"fd"}) /\ UNCHANGED <<vars, free, object, times>>

Create(th) ==
  /\ AtStep(th, "create") /\ Advance(th) /\ Acquire(th, "child")
  /\ UNCHANGED <<vars, free, object, times>>

(* The child of th; the one of raw_operation takes no time. *)
ChildEnds(th) ==
  /\ "child" \in held[th] /\ "ended" \notin held[th]
  /\ Acquire(th, "ended")
  /\ end_ns' = IF Measured(th) THEN [end_ns EXCEPT ![th] = "after"] ELSE end_ns
  /\ UNCHANGED <<vars, ip, free, object, now>>

Join(th) ==
  /\ AtStep(th, "join") /\ "ended" \in held[th] /\ Advance(th)
  /\ Release(th, {"child", "ended"})
  /\ UNCHANGED <<vars, free, object, times>>

(* Every time taken so far is now before the start. *)
Start(th) ==
  /\ AtStep(th, "start") /\ Advance(th)
  /\ now' = [t \in Threads |-> "before"] /\ end_ns' = [t \in Threads |-> "before"]
  /\ UNCHANGED <<vars, held, free, object>>

End(th) ==
  /\ AtStep(th, "end") /\ Advance(th)
  /\ end_ns' = [end_ns EXCEPT ![th] = "after"]
  /\ UNCHANGED <<vars, held, free, object, now>>

(* sigaction_segv *)
HandlerTime(th) ==
  /\ AtStep(th, "handler_time") /\ Advance(th)
  /\ now' = [now EXCEPT ![th] = "after"]
  /\ UNCHANGED <<vars, held, free, object, end_ns>>

HandlerEndOfAll(th) ==             \* mutant: end_ns is not thread_local
  /\ AtStep(th, "handler_end") /\ Advance(th)
  /\ end_ns' = [t \in Threads |-> now[th]]
  /\ UNCHANGED <<vars, held, free, object, now>>

HandlerEndAgain(th) ==             \* mutant: the handler does not skip the read
  /\ AtStep(th, "handler_end") /\ ip' = [ip EXCEPT ![th] = @ - 1]
  /\ end_ns' = [end_ns EXCEPT ![th] = now[th]]
  /\ UNCHANGED <<vars, held, free, object, now>>

(* The handler moves the program counter past the read that has faulted.   *)
HandlerEnd(th) ==
  /\ AtStep(th, "handler_end") /\ Advance(th)
  /\ end_ns' = [end_ns EXCEPT ![th] = now[th]]
  /\ UNCHANGED <<vars, held, free, object, now>>

OperationStep(th) ==
  \/ Return(th)
  \/ Lock(th) \/ RdLock(th) \/ Unlock(th)
  \/ MmapSmall(th) \/ MmapHuge(th) \/ Unmap(th) \/ Touch(th)
  \/ Protect(th, "protect_none", "none") \/ Protect(th, "protect_rw", "rw")
  \/ OpenFile(th) \/ CloseFile(th)
  \/ Create(th) \/ Join(th)
  \/ Start(th) \/ End(th) \/ HandlerTime(th) \/ HandlerEnd(th)

-----------------------------------------------------------------------------
MainShared == (MainStep /\ UNCHANGED ownVars) \/ StartShared \/ ReturnShared
MeasuringShared == (MeasuringStep /\ UNCHANGED ownVars) \/ OperationStep(Measurer)
InterferingShared(t) == (InterferingStep(t) /\ UNCHANGED ownVars) \/ OperationStep(t)
SignalShared == SignalNext /\ UNCHANGED ownVars
EndingShared == pc[Main] \in {"exit", "aborted"} /\ UNCHANGED sharedVars

SharedNext ==
  \/ MainShared
  \/ MeasuringShared
  \/ \E t \in Interferers : InterferingShared(t)
  \/ \E th \in Workers : ChildEnds(th)
  \/ SignalShared
  \/ UserSigint /\ UNCHANGED ownVars
  \/ EndingShared

(* Besides, a thread that waits for a lock that is free again and again    *)
(* gets it, which the kernel and the hardware give only in all likelihood. *)
SharedFairness ==
  /\ WF_sharedVars(MainShared)
  /\ WF_sharedVars(MeasuringShared)
  /\ \A t \in Interferers : WF_sharedVars(InterferingShared(t))
  /\ \A th \in Workers : WF_sharedVars(ChildEnds(th)) /\ SF_sharedVars(Lock(th))
  /\ WF_sharedVars(TimerExpires /\ UNCHANGED ownVars)
  /\ WF_sharedVars((\E th \in Threads : signal_handler(th)) /\ UNCHANGED ownVars)
  /\ WF_sharedVars((\E th \in Threads : alarm_signal_handler(th)) /\ UNCHANGED ownVars)

SharedSpec == SharedInit /\ [][SharedNext]_sharedVars /\ SharedFairness

-----------------------------------------------------------------------------
SharedTypeOK ==
  /\ TypeOK \/ pc[Main] = "aborted"
  /\ ip \in [Threads -> Nat \ {0}] /\ held \in [Threads -> SUBSET Resources]
  /\ free \in 0 .. nr_hugepages /\ object \in Objects
  /\ {now, end_ns} \subseteq [Threads -> {"before", "after"}]

(* No lock is held twice or by a reader beside a writer (lock, unlock),    *)
(* every huge page is in the pool or in one mapping (MAP_HUGETLB), and the *)
(* mapping of bench-mprotect is inaccessible only while some thread is     *)
(* between its two calls of mprotect.                                      *)
BetweenCalls(th) ==
  /\ At(th, "op")
  /\ \E i \in 1 .. ip[th] - 1, j \in ip[th] .. Len(Code(th)) :
       Code(th)[i] = "protect_none" /\ Code(th)[j] = "protect_rw"
ResourcesAccounted ==
  /\ Cardinality(Holders("lock")) <= 1
  /\ Holders("lock") # {} => Holders("rdlock") = {}
  /\ free + Cardinality(Holders("page")) = nr_hugepages
  /\ object = "none" /\ run.benchmark = "mprotect" => \E th \in Workers : BetweenCalls(th)

(* What an operation acquires it releases, and what the constructor of     *)
(* Action makes its destructor removes: between operations a thread holds  *)
(* nothing, and between runs nothing is left of a run (~Action).           *)
NothingLeftBehind ==
  /\ \A th \in Workers : pc[th] \in {"none", "loop", "done"} => held[th] = {}
  /\ pc[Main] \in {"run", "exit"} => object = "nothing"

(* The difference that measured_operation returns is not negative: the end *)
(* it subtracts from was taken in this operation, by this thread or its    *)
(* child, although other threads run the same handler (end_ns).            *)
EndAfterStart ==
  At(Measurer, "op") /\ Measured(Measurer) /\ Over(Measurer) => end_ns[Measurer] = "after"

(* With a page for every thread no assertion of the operations fails:      *)
(* mmap finds a page and open the file, whatever the other threads do.     *)
AssertionsHold == pc[Main] # "aborted"

(* Seen from the harness, the operations are the steps of SymmetricBench,  *)
(* each of which comes to an end (SymmetricAction::raw_operation).         *)
ImplementsSymmetric == Spec
=============================================================================
