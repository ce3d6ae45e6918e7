-------------------------- MODULE SharedBenchProofs --------------------------
(***************************************************************************)
(* The operations of all programs and what they share, for every machine,  *)
(* command line and number of interfering threads, as long as the pool has *)
(* a huge page for each thread.                                            *)
(***************************************************************************)
EXTENDS SharedBench, SymmetricBenchProofs, FiniteSetTheorems

-----------------------------------------------------------------------------
(* What the steps of every program have in common, by going through the    *)
(* table of module Programs.                                               *)

(* Step b releases what step a acquires. *)
IsPair(a, b) ==
  \/ a \in {"lock", "rdlock"} /\ b = "unlock"
  \/ a \in {"mmap", "mmap_huge"} /\ b = "munmap"
  \/ a = "create" /\ b = "join"
  \/ a = "open" /\ b = "close"
  \/ a = "protect_none" /\ b = "protect_rw"

(* Before step k of code c, there is an a that no b has followed yet. *)
Opened(c, k, a, b) == \E i \in 1 .. k - 1 : c[i] = a /\ \A j \in i .. k - 1 : c[j] # b

(* Every a is followed by b, with no other a in between. *)
Paired(c, a, b) ==
  /\ ~ Opened(c, Len(c) + 1, a, b)
  /\ \A k \in 1 .. Len(c) : c[k] = a => ~ Opened(c, k, a, b)

CodeOK(c, made) ==
  /\ Len(c) \in Nat
  /\ \A a, b : IsPair(a, b) => Paired(c, a, b)
  /\ \A k \in 1 .. Len(c) :
       /\ c[k] = "close" => Opened(c, k, "open", "close")
       /\ c[k] = "open" => made = "file"
       /\ c[k] \in {"protect_none", "protect_rw"} => made = "rw"

RawOK(c) == \A k \in 1 .. Len(c) : c[k] # "start"

(* After the start, the end is taken, by whomever. *)
MeasuredOK(c) ==
  /\ \/ Opened(c, Len(c) + 1, "end", "start")
     \/ Opened(c, Len(c) + 1, "handler_end", "start")
     \/ Opened(c, Len(c) + 1, "join", "start")
  /\ \A k \in 1 .. Len(c) :
       /\ c[k] = "handler_end" => Opened(c, k, "handler_time", "start")
       /\ c[k] = "start" => ~ Opened(c, k, "create", "join")

ProgramOK(p) ==
  /\ CodeOK(p.raw, p.object) /\ CodeOK(p.measured, p.object)
  /\ RawOK(p.raw) /\ MeasuredOK(p.measured)
  /\ p.object \in Objects

-----------------------------------------------------------------------------
LEMMA ByParts ==
  ASSUME NEW raw, NEW measured, NEW made, NEW energy, CodeOK(raw, made),
         CodeOK(measured, made), RawOK(raw), MeasuredOK(measured), made \in Objects
  PROVE  ProgramOK(Program(raw, measured, made, energy))
BY DEF Program, ProgramOK

LEMMA SystemCallOK == ProgramOK(SystemCall)
<1>1. CodeOK(<< >>, "nothing")
  BY DEF CodeOK, IsPair, Paired, Opened
<1>2. CodeOK(<< "start", "end" >>, "nothing")
  BY DEF CodeOK, IsPair, Paired, Opened
<1>3. RawOK(<< >>)
  BY DEF RawOK
<1>4. MeasuredOK(<< "start", "end" >>)
  BY DEF MeasuredOK, Opened
<1>5. QED
  BY <1>1, <1>2, <1>3, <1>4, ByParts DEF SystemCall, Symmetric, Objects

LEMMA LockingOK ==
  ASSUME NEW lock \in {"lock", "rdlock"}
  PROVE  ProgramOK(Locking(lock))
<1>1. CodeOK(<< lock, "unlock" >>, "nothing")
  BY DEF CodeOK, IsPair, Paired, Opened
<1>2. CodeOK(<< "start", lock, "unlock", "end" >>, "nothing")
  BY DEF CodeOK, IsPair, Paired, Opened
<1>3. RawOK(<< lock, "unlock" >>)
  BY DEF RawOK
<1>4. MeasuredOK(<< "start", lock, "unlock", "end" >>)
  BY DEF MeasuredOK, Opened
<1>5. QED
  BY <1>1, <1>2, <1>3, <1>4, ByParts DEF Locking, Symmetric, Objects

LEMMA PthreadCreateOK == ProgramOK(pthread_create)
<1>1. CodeOK(<< "create", "join" >>, "nothing")
  BY DEF CodeOK, IsPair, Paired, Opened
<1>2. CodeOK(<< "start", "create", "join" >>, "nothing")
  BY DEF CodeOK, IsPair, Paired, Opened
<1>3. RawOK(<< "create", "join" >>)
  BY DEF RawOK
<1>4. MeasuredOK(<< "start", "create", "join" >>)
  BY DEF MeasuredOK, Opened
<1>5. QED
  BY <1>1, <1>2, <1>3, <1>4, ByParts DEF pthread_create, Objects

LEMMA OpenOK == ProgramOK(open)
<1>1. CodeOK(<< "open", "close" >>, "file")
  BY DEF CodeOK, IsPair, Paired, Opened
<1>2. CodeOK(<< "start", "open", "end", "close" >>, "file")
  BY DEF CodeOK, IsPair, Paired, Opened
<1>3. RawOK(<< "open", "close" >>)
  BY DEF RawOK
<1>4. MeasuredOK(<< "start", "open", "end", "close" >>)
  BY DEF MeasuredOK, Opened
<1>5. QED
  BY <1>1, <1>2, <1>3, <1>4, ByParts DEF open, Objects

LEMMA CloseOK == ProgramOK(close)
<1>1. CodeOK(<< "open", "close" >>, "file")
  BY DEF CodeOK, IsPair, Paired, Opened
<1>2. CodeOK(<< "open", "start", "close", "end" >>, "file")
  BY DEF CodeOK, IsPair, Paired, Opened
<1>3. RawOK(<< "open", "close" >>)
  BY DEF RawOK
<1>4. MeasuredOK(<< "open", "start", "close", "end" >>)
  BY DEF MeasuredOK, Opened
<1>5. QED
  BY <1>1, <1>2, <1>3, <1>4, ByParts DEF close, Objects

LEMMA MprotectOK == ProgramOK(mprotect)
<1>1. CodeOK(<< "protect_none", "protect_rw" >>, "rw")
  BY DEF CodeOK, IsPair, Paired, Opened
<1>2. CodeOK(<< "start", "protect_none", "end", "protect_rw" >>, "rw")
  BY DEF CodeOK, IsPair, Paired, Opened
<1>3. RawOK(<< "protect_none", "protect_rw" >>)
  BY DEF RawOK
<1>4. MeasuredOK(<< "start", "protect_none", "end", "protect_rw" >>)
  BY DEF MeasuredOK, Opened
<1>5. QED
  BY <1>1, <1>2, <1>3, <1>4, ByParts DEF mprotect, Objects

LEMMA PagefaultSignalOK == ProgramOK(pagefault_signal)
<1>1. CodeOK(<< "handler_time", "handler_end" >>, "none")
  BY DEF CodeOK, IsPair, Paired, Opened
<1>2. CodeOK(<< "start", "handler_time", "handler_end" >>, "none")
  BY DEF CodeOK, IsPair, Paired, Opened
<1>3. RawOK(<< "handler_time", "handler_end" >>)
  BY DEF RawOK
<1>4. MeasuredOK(<< "start", "handler_time", "handler_end" >>)
  BY DEF MeasuredOK, Opened
<1>5. QED
  BY <1>1, <1>2, <1>3, <1>4, ByParts DEF pagefault_signal, Objects

LEMMA PagefaultOK ==
  ASSUME NEW mmap \in {"mmap", "mmap_huge"}
  PROVE  ProgramOK(Pagefault(mmap))
<1>1. CodeOK(<< mmap, "touch", "munmap" >>, "nothing")
  BY DEF CodeOK, IsPair, Paired, Opened
<1>2. CodeOK(<< mmap, "start", "touch", "end", "munmap" >>, "nothing")
  BY DEF CodeOK, IsPair, Paired, Opened
<1>3. RawOK(<< mmap, "touch", "munmap" >>)
  BY DEF RawOK
<1>4. MeasuredOK(<< mmap, "start", "touch", "end", "munmap" >>)
  BY DEF MeasuredOK, Opened
<1>5. QED
  BY <1>1, <1>2, <1>3, <1>4, ByParts DEF Pagefault, Objects

LEMMA MmapOK ==
  ASSUME NEW mmap \in {"mmap", "mmap_huge"}
  PROVE  ProgramOK(Mmap(mmap))
<1>1. CodeOK(<< mmap, "munmap" >>, "nothing")
  BY DEF CodeOK, IsPair, Paired, Opened
<1>2. CodeOK(<< "start", mmap, "end", "munmap" >>, "nothing")
  BY DEF CodeOK, IsPair, Paired, Opened
<1>3. RawOK(<< mmap, "munmap" >>)
  BY DEF RawOK
<1>4. MeasuredOK(<< "start", mmap, "end", "munmap" >>)
  BY DEF MeasuredOK, Opened
<1>5. QED
  BY <1>1, <1>2, <1>3, <1>4, ByParts DEF Mmap, Objects

LEMMA MunmapOK ==
  ASSUME NEW mmap \in {"mmap", "mmap_huge"}
  PROVE  ProgramOK(Munmap(mmap))
<1>1. CodeOK(<< mmap, "munmap" >>, "nothing")
  BY DEF CodeOK, IsPair, Paired, Opened
<1>2. CodeOK(<< mmap, "start", "munmap", "end" >>, "nothing")
  BY DEF CodeOK, IsPair, Paired, Opened
<1>3. RawOK(<< mmap, "munmap" >>)
  BY DEF RawOK
<1>4. MeasuredOK(<< mmap, "start", "munmap", "end" >>)
  BY DEF MeasuredOK, Opened
<1>5. QED
  BY <1>1, <1>2, <1>3, <1>4, ByParts DEF Munmap, Objects

LEMMA MmapMunmapOK ==
  ASSUME NEW mmap \in {"mmap", "mmap_huge"}
  PROVE  ProgramOK(MmapMunmap(mmap))
<1>1. CodeOK(<< mmap, "munmap" >>, "nothing")
  BY DEF CodeOK, IsPair, Paired, Opened
<1>2. CodeOK(<< "start", mmap, "munmap", "end" >>, "nothing")
  BY DEF CodeOK, IsPair, Paired, Opened
<1>3. RawOK(<< mmap, "munmap" >>)
  BY DEF RawOK
<1>4. MeasuredOK(<< "start", mmap, "munmap", "end" >>)
  BY DEF MeasuredOK, Opened
<1>5. QED
  BY <1>1, <1>2, <1>3, <1>4, ByParts DEF MmapMunmap, Objects

LEMMA AllPrograms ==
  ASSUME NEW p \in ProgramNames
  PROVE  \/ Programs[p] \in {SystemCall, pthread_create, open, close, mprotect, pagefault_signal}
         \/ \E lock \in {"lock", "rdlock"} : Programs[p] = Locking(lock)
         \/ \E mmap \in {"mmap", "mmap_huge"} :
              Programs[p] \in {Pagefault(mmap), Mmap(mmap), Munmap(mmap), MmapMunmap(mmap)}
BY DEF Programs, ProgramNames, getuid, gettime, pthread_yield, pthread_mutex,
       pthread_mutex_adaptive, pthread_spinlock, pthread_rwlock_rd, pthread_rwlock_wr,
       pagefault_small, pagefault_large, mmap_4kb, mmap_2mb, mmap_populate_4kb,
       mmap_populate_2mb, munmap_4kb, munmap_2mb, munmap_populated_4kb,
       munmap_populated_2mb, mmap_munmap_4kb, mmap_munmap_2mb,
       mmap_populate_munmap_4kb, mmap_populate_munmap_2mb

(* In every program, the operations of all threads release what they       *)
(* acquire, and the measured one takes both times.                         *)
THEOREM ProgramsOK == \A p \in ProgramNames : ProgramOK(Programs[p])
BY AllPrograms, SystemCallOK, LockingOK, PthreadCreateOK, OpenOK, CloseOK, MprotectOK,
   PagefaultSignalOK, PagefaultOK, MmapOK, MunmapOK, MmapMunmapOK

-----------------------------------------------------------------------------
(* The operations in the harness. *)

PageForEachThread == nr_hugepages > NrInterfering

OwnType ==
  /\ ip \in [Threads -> Nat \ {0}] /\ held \in [Threads -> SUBSET Resources]
  /\ free \in Nat /\ object \in Objects
  /\ now \in [Threads -> {"before", "after"}] /\ end_ns \in [Threads -> {"before", "after"}]

(* A thread holds what its operation has acquired and not yet released. *)
HeldBy(th, r, a, b) == r \in held[th] <=> Opened(Code(th), ip[th], a, b)
HeldOf(th) ==
  /\ HeldBy(th, "lock", "lock", "unlock") /\ HeldBy(th, "rdlock", "rdlock", "unlock")
  /\ HeldBy(th, "map", "mmap", "munmap") /\ HeldBy(th, "page", "mmap_huge", "munmap")
  /\ HeldBy(th, "fd", "open", "close") /\ HeldBy(th, "child", "create", "join")
  /\ "ended" \in held[th] => "child" \in held[th]

HeldOK ==
  \A th \in Threads :
    /\ pc[th] # "op" => ip[th] = 1 /\ held[th] = {}
    /\ pc[th] = "op" => ip[th] \in 1 .. Len(Code(th)) + 1 /\ HeldOf(th)

LocksOK ==
  \A th \in Threads : "lock" \in held[th] =>
    \A t \in Threads : ("lock" \in held[t] => t = th) /\ "rdlock" \notin held[t]

PoolOK == free + Cardinality(Holders("page")) = nr_hugepages

(* The object of the current run, and how bench-mprotect protects it. *)
ObjectOK ==
  /\ pc[Main] \in {"run", "exit"} => object = "nothing"
  /\ pc[Main] \notin {"run", "exit"} =>
       LET made == Programs[run.benchmark].object
       IN IF made = "rw"
          THEN /\ object \in Mapped
               /\ object = "none" => \E th \in Workers : BetweenCalls(th)
          ELSE object = made

(* What the measuring thread has done since the start of its operation. *)
Done(step) == Opened(Code(Measurer), ip[Measurer], step, "start")
TimesOK ==
  pc[Measurer] = "op" /\ run.kind = "latency" =>
    /\ Done("handler_time") => now[Measurer] = "after"
    /\ Done("end") \/ Done("handler_end") \/ Done("join") \/ "ended" \in held[Measurer]
         => end_ns[Measurer] = "after"

SharedInv == IInv /\ OwnType /\ HeldOK /\ LocksOK /\ PoolOK /\ ObjectOK /\ TimesOK

-----------------------------------------------------------------------------
LEMMA OpenedFirst == \A c, a, b : ~ Opened(c, 1, a, b)
BY DEF Opened

LEMMA OpenedStep ==
  ASSUME NEW c, NEW k \in Nat \ {0}, NEW a, NEW b, a # b
  PROVE  Opened(c, k + 1, a, b) <=> c[k] # b /\ (c[k] = a \/ Opened(c, k, a, b))
<1>1. ASSUME Opened(c, k + 1, a, b)
      PROVE  c[k] # b /\ (c[k] = a \/ Opened(c, k, a, b))
  BY <1>1 DEF Opened
<1>2. ASSUME c[k] # b, c[k] = a
      PROVE  Opened(c, k + 1, a, b)
  BY <1>2 DEF Opened
<1>3. ASSUME c[k] # b, Opened(c, k, a, b)
      PROVE  Opened(c, k + 1, a, b)
  <2>1. PICK i \in 1 .. k - 1 : c[i] = a /\ \A j \in i .. k - 1 : c[j] # b
    BY <1>3 DEF Opened
  <2>2. \A j \in i .. k + 1 - 1 : c[j] # b
    BY <1>3, <2>1
  <2>3. QED
    BY <2>1, <2>2 DEF Opened
<1>4. QED
  BY <1>1, <1>2, <1>3

(* In an operation, a program of the table is run. *)
LEMMA InOperation ==
  ASSUME IInv, NEW th \in Threads, pc[th] = "op"
  PROVE  /\ th \in Workers /\ pc[Main] \notin {"run", "exit"}
         /\ run \in Run /\ ProgramOK(Programs[run.benchmark])
         /\ CodeOK(Code(th), Programs[run.benchmark].object)
         /\ ~ Measured(th) => RawOK(Code(th))
         /\ Measured(th) => MeasuredOK(Code(th))
<1>0. /\ pc \in [Threads -> Labels] /\ ProgressType /\ LabelsOK(Op, Op) /\ RunOK
      /\ InterferersOK /\ pc[Main] # "aborted"
  BY Parts
<1>1. th \in Workers
  BY <1>0, Ids DEF LabelsOK, MainLabels
<1>2. pc[Main] \notin {"run", "exit"}
  BY <1>0, <1>1, Ids DEF RunOK, InterferersOK
<1>3. run \in Run
  BY <1>0, <1>2 DEF RunOK, ProgressType, run
<1>4. ProgramOK(Programs[run.benchmark])
  BY <1>3, ProgramsOK, PoolAssumption DEF Run
<1>5. QED
  BY <1>1, <1>2, <1>3, <1>4 DEF ProgramOK, Code

CodesFinite == \A th \in Threads : pc[th] = "op" => Len(Code(th)) \in Nat

LEMMA CodeLength == IInv => CodesFinite
BY InOperation DEF CodesFinite, CodeOK

LEMMA InRun ==
  ASSUME IInv, pc[Main] \notin {"run", "exit"}
  PROVE  run \in Run /\ ProgramOK(Programs[run.benchmark])
<1>1. run \in Run
  BY Parts DEF RunOK, ProgressType, run
<1>2. QED
  BY <1>1, ProgramsOK, PoolAssumption DEF Run

LEMMA FiniteThreads ==
  /\ IsFiniteSet(Threads) /\ IsFiniteSet(Workers)
  /\ Cardinality(Workers) = NrInterfering + 1
<1>1. IsFiniteSet(Threads)
  BY Ids, FS_Interval
<1>2. IsFiniteSet(Interferers) /\ Cardinality(Interferers) = NrInterfering
  BY Ids, FS_Interval
<1>3. QED
  BY <1>1, <1>2, Ids, FS_AddElement

LEMMA FiniteHolders ==
  ASSUME NEW r
  PROVE  IsFiniteSet(Holders(r)) /\ Cardinality(Holders(r)) \in Nat
BY FiniteThreads, FS_Subset, FS_CardinalityType DEF Holders

-----------------------------------------------------------------------------
LEMMA SharedInitInv == SharedInit => SharedInv
<1> SUFFICES ASSUME SharedInit PROVE SharedInv
  OBVIOUS
<1> USE Ids DEF SharedInit
<1>1. IInv
  BY InitIInv
<1>2. \A th \in Threads : pc[th] # "op"
  BY DEF Init, HarnessInit
<1>3. OwnType
  BY PoolAssumption DEF OwnType, Objects
<1>4. HeldOK /\ LocksOK
  BY <1>2 DEF HeldOK, LocksOK
<1>5. PoolOK
  <2>1. Holders("page") = {}
    BY DEF Holders
  <2>2. QED
    BY <2>1, FS_EmptySet, PoolAssumption DEF PoolOK
<1>6. ObjectOK /\ TimesOK
  BY <1>2 DEF ObjectOK, TimesOK, Init, HarnessInit
<1>7. QED
  BY <1>1, <1>3, <1>4, <1>5, <1>6 DEF SharedInv

-----------------------------------------------------------------------------
(* The steps of the harness.                                               *)

HarnessStep ==
  \/ MainNext \/ MeasuringStep \/ \E t \in Interferers : InterferingStep(t)
  \/ SignalNext \/ UserSigint

LEMMA HarnessIsNext == HarnessStep => Next
BY DEF HarnessStep, Next, MeasuringNext, InterferingNext

(* They neither end an operation nor change the run during one. *)
LEMMA OperationsGoOn ==
  ASSUME IInv, HarnessStep, NEW th \in Threads, pc[th] = "op"
  PROVE  pc'[th] = "op" /\ todo' = todo
<1>0. /\ pc \in [Threads -> Labels] /\ RunOK /\ InterferersOK /\ ProgressType
      /\ \A t \in Threads : pc[t] # "blocked"
  BY Parts
<1>1. th \in Workers /\ pc[Main] \notin {"run", "exit"}
  BY InOperation
<1>2. CASE MainNext
  <2>1. CASE SkipRun \/ StartRun \/ Exit
    BY <1>1, <2>1 DEF SkipRun, StartRun, Exit, MainAt, At
  <2>2. CASE SpawnInterfering \/ SpawnMeasuring \/ JoinMeasuring \/ AllKilled
             \/ KillInterfering \/ JoinInterfering
    BY <1>0, <1>1, <2>2, Ids
    DEF SpawnInterfering, SpawnMeasuring, JoinMeasuring, AllKilled, KillInterfering,
        JoinInterfering, MainAt, At, Goto, InterferersOK, RunOK, Interfering
  <2>3. CASE ReturnFromRun
    <3>1. \A t \in Interferers : t < tid \/ t \notin Interfering
      BY <1>0, <2>3, Ids DEF ReturnFromRun, ProgressType, Interfering
    <3>2. \A t \in Interferers : pc[t] = "none"
      BY <1>0, <2>3, <3>1 DEF InterferersOK, ReturnFromRun, MainAt, At
    <3>3. QED
      BY <1>0, <1>1, <2>3, <3>2, Ids DEF RunOK, ReturnFromRun, MainAt, At
  <2>4. QED
    BY <1>2, <2>1, <2>2, <2>3 DEF MainNext, MainStep
<1>3. CASE MeasuringStep
  BY <1>0, <1>1, <1>3, Ids
  DEF MeasuringStep, ArmAlarm, OpenMsr, NoMsr, BeginSample, EndSamples, ResetAlarm,
      BeginOperation, EndMeasurement, ReportLatency, ReportEnergy, ExitThread, At, Goto
<1>4. ASSUME NEW t \in Interferers, InterferingStep(t)
      PROVE  pc'[th] = "op" /\ todo' = todo
  BY <1>0, <1>1, <1>4, Ids
  DEF InterferingStep, BindInterfering, CheckStop, ExitThread, At, Goto
<1>5. CASE SignalNext \/ UserSigint
  BY <1>0, <1>5, Ids
  DEF SignalNext, UserSigint, TimerExpires, Handler, signal_handler,
      alarm_signal_handler, Deliver
<1>6. QED
  BY <1>2, <1>3, <1>4, <1>5 DEF HarnessStep

LEMMA HarnessKeepsHeld ==
  ASSUME SharedInv, IInv', HarnessStep, UNCHANGED <<ip, held, free, times>>
  PROVE  HeldOK' /\ LocksOK' /\ PoolOK' /\ TimesOK'
<1>0. IInv /\ OwnType /\ HeldOK /\ LocksOK /\ PoolOK /\ TimesOK
  BY DEF SharedInv
<1>1. ASSUME NEW th \in Threads, pc'[th] = "op", pc[th] = "op"
      PROVE  todo' = todo /\ run' = run /\ Code(th)' = Code(th)
  <2>1. todo' = todo
    BY <1>0, <1>1, OperationsGoOn
  <2>2. QED
    BY <2>1 DEF run, Code, Measured
<1>2. HeldOK'
  <2> SUFFICES ASSUME NEW th \in Threads
               PROVE  /\ pc'[th] # "op" => ip'[th] = 1 /\ held'[th] = {}
                      /\ pc'[th] = "op" =>
                           ip'[th] \in 1 .. Len(Code(th)') + 1 /\ HeldOf(th)'
    BY DEF HeldOK
  <2>1. CASE pc[th] # "op" /\ pc'[th] = "op"
    <3>1. ip'[th] = 1 /\ held'[th] = {}
      BY <1>0, <2>1 DEF HeldOK
    <3>2. Len(Code(th)') \in Nat
      <4>1. IInv' => CodesFinite'
        BY CodeLength, PTL
      <4>2. QED
        BY <2>1, <4>1 DEF CodesFinite
    <3>3. HeldOf(th)'
      BY <3>1, OpenedFirst DEF HeldOf, HeldBy
    <3>4. QED
      BY <2>1, <3>1, <3>2, <3>3
  <2>2. CASE pc[th] = "op"
    <3>1. pc'[th] = "op"
      BY <1>0, <2>2, OperationsGoOn
    <3>2. Code(th)' = Code(th)
      BY <1>1, <2>2, <3>1
    <3>3. QED
      BY <1>0, <2>2, <3>1, <3>2 DEF HeldOK, HeldOf, HeldBy
  <2>3. CASE pc[th] # "op" /\ pc'[th] # "op"
    BY <1>0, <2>3 DEF HeldOK
  <2>4. QED
    BY <2>1, <2>2, <2>3
<1>3. LocksOK' /\ PoolOK'
  BY <1>0 DEF LocksOK, PoolOK, Holders
<1>4. TimesOK'
  <2> SUFFICES ASSUME pc'[Measurer] = "op", run'.kind = "latency"
               PROVE  /\ Done("handler_time")' => now'[Measurer] = "after"
                      /\ Done("end")' \/ Done("handler_end")' \/ Done("join")'
                           \/ "ended" \in held'[Measurer]
                           => end_ns'[Measurer] = "after"
    BY DEF TimesOK
  <2>1. CASE pc[Measurer] # "op"
    <3>1. ip'[Measurer] = 1 /\ held'[Measurer] = {}
      BY <1>0, <2>1, Ids DEF HeldOK
    <3>2. QED
      BY <3>1, OpenedFirst DEF Done
  <2>2. CASE pc[Measurer] = "op"
    BY <1>0, <1>1, <2>2, Ids DEF TimesOK, Done, times
  <2>3. QED
    BY <2>1, <2>2
<1>5. QED
  BY <1>2, <1>3, <1>4

Other == \* the steps of the harness but those that make or remove the object
  \/ MainStep \/ MeasuringStep \/ \E t \in Interferers : InterferingStep(t)
  \/ SignalNext \/ UserSigint

LEMMA SameRun ==
  ASSUME IInv, Other
  PROVE  /\ pc'[Main] \in {"run", "exit"} <=> pc[Main] \in {"run", "exit"}
         /\ pc[Main] \notin {"run", "exit"} => todo' = todo
<1>0. pc \in [Threads -> Labels]
  BY Parts
<1>1. CASE MainStep
  BY <1>0, <1>1, Ids
  DEF MainStep, SkipRun, SpawnInterfering, SpawnMeasuring, JoinMeasuring,
      KillInterfering, AllKilled, JoinInterfering, Exit, MainAt, At, Goto,
      Interfering
<1>2. CASE MeasuringStep
  BY <1>0, <1>2, Ids
  DEF MeasuringStep, ArmAlarm, OpenMsr, NoMsr, BeginSample, EndSamples, ResetAlarm,
      BeginOperation, EndMeasurement, ReportLatency, ReportEnergy, ExitThread, At, Goto
<1>3. ASSUME NEW t \in Interferers, InterferingStep(t)
      PROVE  pc'[Main] = pc[Main] /\ todo' = todo
  BY <1>0, <1>3, Ids
  DEF InterferingStep, BindInterfering, CheckStop, ExitThread, At, Goto
<1>4. CASE SignalNext \/ UserSigint
  BY <1>0, <1>4, Ids
  DEF SignalNext, UserSigint, TimerExpires, Handler, signal_handler,
      alarm_signal_handler, Deliver
<1>5. QED
  BY <1>1, <1>2, <1>3, <1>4 DEF Other

LEMMA OtherInv ==
  ASSUME SharedInv, Other, UNCHANGED ownVars
  PROVE  SharedInv'
<1>0. IInv /\ OwnType /\ ObjectOK
  BY DEF SharedInv
<1>1. HarnessStep
  BY DEF Other, HarnessStep, MainNext
<1>2. IInv'
  BY <1>0, <1>1, HarnessIsNext, NextIInv
<1>3. HeldOK' /\ LocksOK' /\ PoolOK' /\ TimesOK'
  BY <1>1, <1>2, HarnessKeepsHeld DEF ownVars
<1>4. OwnType'
  BY <1>0 DEF OwnType, ownVars, times
<1>5. ObjectOK'
  <2>1. CASE pc[Main] \in {"run", "exit"}
    BY <1>0, <2>1, SameRun DEF ObjectOK, ownVars
  <2>2. CASE pc[Main] \notin {"run", "exit"}
    <3>1. pc'[Main] \notin {"run", "exit"} /\ run' = run /\ object' = object
      BY <1>0, <2>2, SameRun DEF run, ownVars
    <3>2. ASSUME NEW th \in Workers, BetweenCalls(th)
          PROVE  BetweenCalls(th)'
      <4>1. th \in Threads /\ pc[th] = "op"
        BY <3>2 DEF BetweenCalls, At, Workers
      <4>2. pc'[th] = "op" /\ Code(th)' = Code(th)
        BY <1>0, <1>1, <4>1, OperationsGoOn DEF Code, Measured, run
      <4>3. QED
        BY <3>2, <4>2 DEF BetweenCalls, At, ownVars
    <3>3. QED
      BY <1>0, <2>2, <3>1, <3>2 DEF ObjectOK
  <2>3. QED
    BY <2>1, <2>2
<1>6. QED
  BY <1>2, <1>3, <1>4, <1>5 DEF SharedInv

LEMMA ActionInv ==
  ASSUME SharedInv, StartShared \/ ReturnShared
  PROVE  SharedInv'
<1>0. IInv /\ OwnType /\ ObjectOK /\ pc \in [Threads -> Labels]
  BY Parts DEF SharedInv
<1>1. HarnessStep /\ UNCHANGED <<ip, held, free, times>>
  BY DEF HarnessStep, MainNext, StartShared, ReturnShared
<1>2. IInv'
  BY <1>0, <1>1, HarnessIsNext, NextIInv
<1>3. HeldOK' /\ LocksOK' /\ PoolOK' /\ TimesOK'
  BY <1>1, <1>2, HarnessKeepsHeld
<1>4. OwnType' /\ ObjectOK'
  <2>1. CASE StartShared
    <3>1. pc'[Main] = "spawn" /\ run' = run /\ object' = Programs[run.benchmark].object
      BY <1>0, <2>1, Ids DEF StartShared, StartRun, Goto, run
    <3>2. run \in Run
      BY <1>0, <2>1, Parts DEF StartShared, StartRun, ProgressType, run
    <3>3. object' \in Objects
      BY <3>1, <3>2, ProgramsOK, PoolAssumption DEF ProgramOK, Run
    <3>4. QED
      BY <1>0, <1>1, <3>1, <3>3 DEF OwnType, ObjectOK, times, Mapped
  <2>2. CASE ReturnShared
    <3>1. pc'[Main] = "run" /\ object' = "nothing"
      BY <1>0, <2>2, Ids DEF ReturnShared, ReturnFromRun, Goto
    <3>2. QED
      BY <1>0, <1>1, <3>1 DEF OwnType, ObjectOK, times, Objects
  <2>3. QED
    BY <2>1, <2>2
<1>5. QED
  BY <1>2, <1>3, <1>4 DEF SharedInv

-----------------------------------------------------------------------------
(* The steps of an operation: step s of th, which then holds H.            *)

Takes(th, s, H) ==
  /\ AtStep(th, s) /\ Advance(th) /\ UNCHANGED vars
  /\ H \subseteq Resources /\ held' = [held EXCEPT ![th] = H]

Balanced(th, s, H) ==
  /\ "lock" \in H <=> s # "unlock" /\ (s = "lock" \/ "lock" \in held[th])
  /\ "rdlock" \in H <=> s # "unlock" /\ (s = "rdlock" \/ "rdlock" \in held[th])
  /\ "map" \in H <=> s # "munmap" /\ (s = "mmap" \/ "map" \in held[th])
  /\ "page" \in H <=> s # "munmap" /\ (s = "mmap_huge" \/ "page" \in held[th])
  /\ "fd" \in H <=> s # "close" /\ (s = "open" \/ "fd" \in held[th])
  /\ "child" \in H <=> s # "join" /\ (s = "create" \/ "child" \in held[th])
  /\ "ended" \in H => "child" \in H

LEMMA StepFacts ==
  ASSUME SharedInv, NEW th \in Threads, NEW s, NEW H, Takes(th, s, H)
  PROVE  /\ pc[th] = "op" /\ th \in Workers /\ pc' = pc /\ todo' = todo /\ run' = run
         /\ \A t \in Threads : Code(t)' = Code(t)
         /\ ip[th] \in 1 .. Len(Code(th)) /\ Len(Code(th)) \in Nat /\ Code(th)[ip[th]] = s
         /\ ip'[th] = ip[th] + 1 /\ held'[th] = H
         /\ \A t \in Threads \ {th} : ip'[t] = ip[t] /\ held'[t] = held[t]
<1>0. IInv /\ OwnType /\ HeldOK
  BY DEF SharedInv
<1>1. pc[th] = "op" /\ pc' = pc /\ todo' = todo
  BY DEF Takes, AtStep, At, vars, harnessVars
<1>2. th \in Workers /\ CodeOK(Code(th), Programs[run.benchmark].object)
  BY <1>0, <1>1, InOperation
<1>3. Len(Code(th)) \in Nat
  BY <1>2 DEF CodeOK
<1>4. ip[th] \in 1 .. Len(Code(th)) /\ Code(th)[ip[th]] = s
  BY <1>0, <1>1, <1>3 DEF HeldOK, Takes, AtStep, Over
<1>5. run' = run /\ \A t \in Threads : Code(t)' = Code(t)
  BY <1>1 DEF run, Code, Measured
<1>6. /\ ip'[th] = ip[th] + 1 /\ held'[th] = H
      /\ \A t \in Threads \ {th} : ip'[t] = ip[t] /\ held'[t] = held[t]
  BY <1>0 DEF Takes, Advance, OwnType
<1>7. QED
  BY <1>1, <1>2, <1>3, <1>4, <1>5, <1>6

LEMMA StepOpened ==
  ASSUME SharedInv, NEW th \in Threads, NEW s, NEW H, Takes(th, s, H),
         NEW a, NEW b, a # b
  PROVE  Opened(Code(th)', ip'[th], a, b)
           <=> s # b /\ (s = a \/ Opened(Code(th), ip[th], a, b))
<1>1. ip[th] \in Nat \ {0} /\ ip'[th] = ip[th] + 1
  BY StepFacts
<1>2. Code(th)' = Code(th) /\ Code(th)[ip[th]] = s
  BY StepFacts
<1>3. Opened(Code(th), ip[th] + 1, a, b)
        <=> s # b /\ (s = a \/ Opened(Code(th), ip[th], a, b))
  BY <1>1, <1>2, OpenedStep
<1>4. QED
  BY <1>1, <1>2, <1>3

LEMMA StepHeld ==
  ASSUME SharedInv, NEW th \in Threads, NEW s, NEW H, Takes(th, s, H), Balanced(th, s, H)
  PROVE  HeldOK'
<1>0. HeldOK
  BY DEF SharedInv
<1>1. HeldOf(th)
  BY <1>0, StepFacts DEF HeldOK
<1>2. HeldOf(th)'
  <2>1. ASSUME NEW r, NEW a, NEW b, a # b, HeldBy(th, r, a, b),
               r \in H <=> s # b /\ (s = a \/ r \in held[th])
        PROVE  HeldBy(th, r, a, b)'
    BY <2>1, StepFacts, StepOpened DEF HeldBy
  <2>2. HeldBy(th, "lock", "lock", "unlock")' /\ HeldBy(th, "rdlock", "rdlock", "unlock")'
    BY <1>1, <2>1 DEF HeldOf, Balanced
  <2>3. HeldBy(th, "map", "mmap", "munmap")' /\ HeldBy(th, "page", "mmap_huge", "munmap")'
    BY <1>1, <2>1 DEF HeldOf, Balanced
  <2>4. HeldBy(th, "fd", "open", "close")' /\ HeldBy(th, "child", "create", "join")'
    BY <1>1, <2>1 DEF HeldOf, Balanced
  <2>5. QED
    BY <2>2, <2>3, <2>4, StepFacts DEF HeldOf, Balanced
<1>3. ip'[th] \in 1 .. Len(Code(th)') + 1
  BY StepFacts
<1>4. ASSUME NEW t \in Threads \ {th}, HeldOf(t)
      PROVE  HeldOf(t)'
  BY <1>4, StepFacts DEF HeldOf, HeldBy
<1>5. QED
  BY <1>0, <1>2, <1>3, <1>4, StepFacts DEF HeldOK

LEMMA StepLocks ==
  ASSUME SharedInv, NEW th \in Threads, NEW s, NEW H, Takes(th, s, H), Balanced(th, s, H),
         "lock" \in H => "lock" \in held[th] \/ Holders("lock") \cup Holders("rdlock") = {},
         "rdlock" \in H => "rdlock" \in held[th] \/ Holders("lock") = {}
  PROVE  LocksOK'
<1>0. LocksOK
  BY DEF SharedInv
<1>1. QED
  BY <1>0, StepFacts DEF LocksOK, Holders, Balanced

LEMMA StepPool ==
  ASSUME SharedInv, NEW th \in Threads, NEW s, NEW H, Takes(th, s, H), free' = free,
         "page" \in H <=> "page" \in held[th]
  PROVE  PoolOK'
<1>1. Holders("page")' = Holders("page")
  BY StepFacts DEF Holders
<1>2. QED
  BY <1>1 DEF SharedInv, PoolOK

LEMMA StepObject ==
  ASSUME SharedInv, NEW th \in Threads, NEW s, NEW H, Takes(th, s, H),
         \/ s \notin {"protect_none", "protect_rw"} /\ object' = object
         \/ s = "protect_none" /\ object' = "none"
         \/ s = "protect_rw" /\ object' = "rw"
  PROVE  ObjectOK'
<1>0. IInv /\ ObjectOK /\ OwnType
  BY DEF SharedInv
<1> DEFINE made == Programs[run.benchmark].object
<1>1. pc[Main] \notin {"run", "exit"} /\ CodeOK(Code(th), made)
  BY <1>0, StepFacts, InOperation
<1>2. pc' = pc /\ Programs[run'.benchmark].object = made
  BY StepFacts
<1>3. ASSUME NEW t \in Workers, BetweenCalls(t), s # "protect_rw"
      PROVE  BetweenCalls(t)'
  <2>1. t \in Threads
    BY DEF Workers
  <2>2. CASE t = th
    <3>1. PICK i \in 1 .. ip[th] - 1, j \in ip[th] .. Len(Code(th)) :
            Code(th)[i] = "protect_none" /\ Code(th)[j] = "protect_rw"
      BY <1>3, <2>2 DEF BetweenCalls
    <3>2. i \in 1 .. ip'[th] - 1 /\ j \in ip'[th] .. Len(Code(th)')
      BY <1>3, <3>1, StepFacts
    <3>3. QED
      BY <2>2, <3>1, <3>2, StepFacts DEF BetweenCalls, At
  <2>3. CASE t # th
    BY <1>3, <2>1, <2>3, StepFacts DEF BetweenCalls, At
  <2>4. QED
    BY <2>2, <2>3
<1>4. CASE s \notin {"protect_none", "protect_rw"} /\ object' = object
  BY <1>0, <1>1, <1>2, <1>3, <1>4 DEF ObjectOK
<1>5. CASE s = "protect_none" /\ object' = "none"
  <2>1. made = "rw"
    BY <1>1, <1>5, StepFacts DEF CodeOK
  <2>2. ~ Opened(Code(th), Len(Code(th)) + 1, "protect_none", "protect_rw")
    BY <1>1 DEF CodeOK, IsPair, Paired
  <2>3. PICK j \in ip[th] .. Len(Code(th)) : Code(th)[j] = "protect_rw"
    BY <1>5, <2>2, StepFacts DEF Opened
  <2>4. j \in ip'[th] .. Len(Code(th)') /\ ip[th] \in 1 .. ip'[th] - 1
    BY <1>5, <2>3, StepFacts
  <2>5. BetweenCalls(th)'
    BY <1>5, <2>3, <2>4, StepFacts DEF BetweenCalls, At
  <2>6. QED
    BY <1>1, <1>2, <1>5, <2>1, <2>5, StepFacts DEF ObjectOK, Mapped
<1>6. CASE s = "protect_rw" /\ object' = "rw"
  <2>1. made = "rw"
    BY <1>1, <1>6, StepFacts DEF CodeOK
  <2>2. QED
    BY <1>1, <1>2, <1>6, <2>1 DEF ObjectOK, Mapped
<1>7. QED
  BY <1>4, <1>5, <1>6

TimesTaken(th, s) ==
  CASE s = "start" -> now' = [t \in Threads |-> "before"]
                        /\ end_ns' = [t \in Threads |-> "before"]
    [] s = "end" -> UNCHANGED now /\ end_ns' = [end_ns EXCEPT ![th] = "after"]
    [] s = "handler_time" -> now' = [now EXCEPT ![th] = "after"] /\ UNCHANGED end_ns
    [] s = "handler_end" -> UNCHANGED now /\ end_ns' = [end_ns EXCEPT ![th] = now[th]]
    [] OTHER -> UNCHANGED times

LEMMA StepTimes ==
  ASSUME SharedInv, NEW th \in Threads, NEW s, NEW H, Takes(th, s, H), TimesTaken(th, s),
         "ended" \in H \/ s = "join" => "ended" \in held[th]
  PROVE  TimesOK'
<1>0. IInv /\ OwnType /\ HeldOK /\ TimesOK
  BY DEF SharedInv
<1> SUFFICES ASSUME pc[Measurer] = "op", run.kind = "latency"
             PROVE  /\ Done("handler_time")' => now'[Measurer] = "after"
                    /\ Done("end")' \/ Done("handler_end")' \/ Done("join")'
                         \/ "ended" \in held'[Measurer]
                         => end_ns'[Measurer] = "after"
  BY StepFacts DEF TimesOK
<1>1. /\ Done("handler_time") => now[Measurer] = "after"
      /\ Done("end") \/ Done("handler_end") \/ Done("join") \/ "ended" \in held[Measurer]
           => end_ns[Measurer] = "after"
  BY <1>0 DEF TimesOK
<1>2. CASE th # Measurer
  <2>1. s # "start"
    BY <1>0, <1>2, StepFacts, InOperation DEF RawOK, Measured
  <2>2. now'[Measurer] = now[Measurer] /\ end_ns'[Measurer] = end_ns[Measurer]
    BY <1>0, <1>2, <2>1, Ids DEF TimesTaken, OwnType, times
  <2>3. /\ ip'[Measurer] = ip[Measurer] /\ held'[Measurer] = held[Measurer]
        /\ Code(Measurer)' = Code(Measurer)
    BY <1>2, StepFacts, Ids
  <2>4. QED
    BY <1>1, <2>2, <2>3 DEF Done
<1>3. CASE th = Measurer
  <2>1. MeasuredOK(Code(th))
    BY <1>0, <1>3, InOperation, Ids DEF Measured
  <2>2. ASSUME NEW a, a # "start"
        PROVE  Done(a)' <=> s # "start" /\ (s = a \/ Done(a))
    BY <1>3, <2>2, StepOpened DEF Done
  <2>3. held'[Measurer] = H
    BY <1>3, StepFacts
  <2>4. CASE s = "start"
    <3>1. ~ Opened(Code(th), ip[th], "create", "join")
      BY <2>1, <2>4, StepFacts DEF MeasuredOK
    <3>2. "ended" \notin held[th]
      BY <1>0, <3>1, StepFacts DEF HeldOK, HeldOf, HeldBy
    <3>3. QED
      BY <2>2, <2>3, <2>4, <3>2
  <2>5. CASE s = "end"
    BY <1>0, <1>1, <1>3, <2>2, <2>5, Ids DEF TimesTaken, OwnType
  <2>6. CASE s = "handler_time"
    BY <1>0, <1>1, <1>3, <2>2, <2>3, <2>6, Ids DEF TimesTaken, OwnType
  <2>7. CASE s = "handler_end"
    <3>1. Done("handler_time")
      BY <1>3, <2>1, <2>7, StepFacts DEF MeasuredOK, Done
    <3>2. end_ns'[Measurer] = "after"
      BY <1>0, <1>1, <1>3, <2>7, <3>1, Ids DEF TimesTaken, OwnType
    <3>3. QED
      BY <1>1, <2>2, <2>7, <3>1, <3>2 DEF TimesTaken
  <2>8. CASE s \notin {"start", "end", "handler_time", "handler_end"}
    BY <1>1, <1>3, <2>2, <2>3, <2>8 DEF TimesTaken, times
  <2>9. QED
    BY <2>4, <2>5, <2>6, <2>7, <2>8
<1>4. QED
  BY <1>2, <1>3

LEMMA TimesType ==
  ASSUME OwnType, NEW th \in Threads, NEW s, TimesTaken(th, s)
  PROVE  /\ now' \in [Threads -> {"before", "after"}]
         /\ end_ns' \in [Threads -> {"before", "after"}]
BY DEF OwnType, TimesTaken, times

LEMMA StepInv ==
  ASSUME SharedInv, NEW th \in Threads, NEW s, NEW H, Takes(th, s, H), Balanced(th, s, H),
         "lock" \in H => "lock" \in held[th] \/ Holders("lock") \cup Holders("rdlock") = {},
         "rdlock" \in H => "rdlock" \in held[th] \/ Holders("lock") = {},
         TimesTaken(th, s), "ended" \in H \/ s = "join" => "ended" \in held[th],
         \/ s \notin {"protect_none", "protect_rw"} /\ object' = object
         \/ s = "protect_none" /\ object' = "none"
         \/ s = "protect_rw" /\ object' = "rw",
         free' \in Nat, PoolOK'
  PROVE  SharedInv'
<1>0. IInv /\ OwnType
  BY DEF SharedInv
<1>1. IInv'
  BY <1>0, NextIInv DEF Takes
<1>2. OwnType'
  <2>1. ip' \in [Threads -> Nat \ {0}]
    BY <1>0 DEF OwnType, Takes, Advance
  <2>2. held' \in [Threads -> SUBSET Resources]
    BY <1>0 DEF OwnType, Takes
  <2>3. object' \in Objects
    BY <1>0 DEF OwnType, Objects
  <2>4. QED
    BY <1>0, <2>1, <2>2, <2>3, TimesType DEF OwnType
<1>3. HeldOK'
  BY StepHeld
<1>4. LocksOK'
  BY StepLocks
<1>5. ObjectOK'
  BY StepObject
<1>6. TimesOK'
  BY StepTimes
<1>7. QED
  BY <1>1, <1>2, <1>3, <1>4, <1>5, <1>6 DEF SharedInv

-----------------------------------------------------------------------------
(* The actions of an operation, one by one.                                *)

LEMMA SamePool ==
  ASSUME SharedInv, NEW th \in Threads, NEW s, NEW H, Takes(th, s, H), free' = free,
         "page" \in H <=> "page" \in held[th]
  PROVE  free' \in Nat /\ PoolOK'
BY StepPool DEF SharedInv, OwnType

LEMMA HeldEnded ==
  ASSUME SharedInv, NEW th \in Threads
  PROVE  /\ held[th] \subseteq Resources /\ held = [held EXCEPT ![th] = held[th]]
         /\ "ended" \in held[th] => "child" \in held[th]
<1>1. OwnType /\ HeldOK
  BY DEF SharedInv
<1>2. held[th] \subseteq Resources /\ held = [held EXCEPT ![th] = held[th]]
  BY <1>1 DEF OwnType
<1>3. "ended" \in held[th] => "child" \in held[th]
  BY <1>1 DEF HeldOK, HeldOf
<1>4. QED
  BY <1>2, <1>3

LEMMA KeepInv ==   \* nothing is acquired or released
  ASSUME SharedInv, NEW th \in Threads,
         \/ Touch(th) \/ Protect(th, "protect_none", "none") \/ Protect(th, "protect_rw", "rw")
         \/ Start(th) \/ End(th) \/ HandlerTime(th) \/ HandlerEnd(th)
  PROVE  SharedInv'
<1>1. ASSUME NEW s \in {"touch", "protect_none", "protect_rw", "start", "end", "handler_time",
                        "handler_end"},
             AtStep(th, s), Advance(th), UNCHANGED <<vars, held, free>>, TimesTaken(th, s),
             \/ s \notin {"protect_none", "protect_rw"} /\ object' = object
             \/ s = "protect_none" /\ object' = "none"
             \/ s = "protect_rw" /\ object' = "rw"
      PROVE  SharedInv'
  <2> DEFINE H == held[th]
  <2>1. Takes(th, s, H)
    BY <1>1, HeldEnded DEF Takes
  <2>2. Balanced(th, s, H)
    BY <1>1, HeldEnded DEF Balanced
  <2>3. free' \in Nat /\ PoolOK'
    BY <1>1, <2>1, SamePool
  <2>4. QED
    BY <1>1, <2>1, <2>2, <2>3, StepInv
<1>2. CASE Touch(th)
  BY <1>1, <1>2 DEF Touch, TimesTaken
<1>3. CASE Protect(th, "protect_none", "none")
  BY <1>1, <1>3 DEF Protect, TimesTaken
<1>4. CASE Protect(th, "protect_rw", "rw")
  BY <1>1, <1>4 DEF Protect, TimesTaken
<1>5. CASE Start(th)
  BY <1>1, <1>5 DEF Start, TimesTaken
<1>6. CASE End(th)
  BY <1>1, <1>6 DEF End, TimesTaken
<1>7. CASE HandlerTime(th)
  BY <1>1, <1>7 DEF HandlerTime, TimesTaken
<1>8. CASE HandlerEnd(th)
  BY <1>1, <1>8 DEF HandlerEnd, TimesTaken
<1>9. QED
  BY <1>2, <1>3, <1>4, <1>5, <1>6, <1>7, <1>8

LEMMA LockInv ==
  ASSUME SharedInv, NEW th \in Threads, Lock(th) \/ RdLock(th) \/ Unlock(th)
  PROVE  SharedInv'
<1>1. ASSUME NEW s \in {"lock", "rdlock", "unlock"}, NEW H, Takes(th, s, H),
             UNCHANGED <<free, object, times>>,
             "page" \in H <=> "page" \in held[th], Balanced(th, s, H),
             "lock" \in H => "lock" \in held[th]
                               \/ Holders("lock") \cup Holders("rdlock") = {},
             "rdlock" \in H => "rdlock" \in held[th] \/ Holders("lock") = {},
             "ended" \in H => "ended" \in held[th]
      PROVE  SharedInv'
  <2>1. TimesTaken(th, s)
    BY <1>1 DEF TimesTaken
  <2>2. free' \in Nat /\ PoolOK'
    BY <1>1, SamePool
  <2>3. QED
    BY <1>1, <2>1, <2>2, StepInv
<1>2. CASE Lock(th)
  <2> DEFINE H == held[th] \cup {"lock"}
  <2>1. Takes(th, "lock", H)
    BY <1>2, HeldEnded DEF Lock, Takes, Acquire, Resources
  <2>2. Balanced(th, "lock", H)
    BY HeldEnded DEF Balanced
  <2>3. QED
    BY <1>1, <1>2, <2>1, <2>2 DEF Lock
<1>3. CASE RdLock(th)
  <2> DEFINE H == held[th] \cup {"rdlock"}
  <2>1. Takes(th, "rdlock", H)
    BY <1>3, HeldEnded DEF RdLock, Takes, Acquire, Resources
  <2>2. Balanced(th, "rdlock", H)
    BY HeldEnded DEF Balanced
  <2>3. QED
    BY <1>1, <1>3, <2>1, <2>2 DEF RdLock
<1>4. CASE Unlock(th)
  <2> DEFINE H == held[th] \ {"lock", "rdlock"}
  <2>1. Takes(th, "unlock", H)
    BY <1>4, HeldEnded DEF Unlock, Takes, Release
  <2>2. Balanced(th, "unlock", H)
    BY HeldEnded DEF Balanced
  <2>3. QED
    BY <1>1, <1>4, <2>1, <2>2 DEF Unlock
<1>5. QED
  BY <1>2, <1>3, <1>4

(* A step of another kind leaves the locks and the protection alone. *)
LEMMA PlainInv ==
  ASSUME SharedInv, NEW th \in Threads,
         NEW s \in {"mmap", "mmap_huge", "munmap", "open", "close", "create", "join"},
         NEW H, Takes(th, s, H), UNCHANGED <<object, times>>, Balanced(th, s, H),
         "lock" \in H => "lock" \in held[th], "rdlock" \in H => "rdlock" \in held[th],
         "ended" \in H \/ s = "join" => "ended" \in held[th],
         free' \in Nat, PoolOK'
  PROVE  SharedInv'
<1>1. TimesTaken(th, s)
  BY DEF TimesTaken
<1>2. QED
  BY <1>1, StepInv

(* While some thread has no huge page, there is one left in the pool. *)
LEMMA PageLeft ==
  ASSUME SharedInv, PageForEachThread, NEW th \in Workers, th \notin Holders("page")
  PROVE  free # 0
<1> DEFINE S == Holders("page")
<1>1. HeldOK /\ PoolOK /\ IInv /\ OwnType
  BY DEF SharedInv
<1>2. S \subseteq Workers
  BY <1>1, Parts, Ids DEF Holders, HeldOK, LabelsOK, MainLabels, Op
<1>3. IsFiniteSet(S) /\ Cardinality(S) \in Nat
  BY FiniteHolders
<1>4. Cardinality(S \cup {th}) = Cardinality(S) + 1
  BY <1>3, FS_AddElement
<1>5. Cardinality(S \cup {th}) <= Cardinality(Workers)
  BY <1>2, FiniteThreads, FS_Subset
<1>6. Cardinality(S) <= NrInterfering
  BY <1>3, <1>4, <1>5, FiniteThreads, Ids
<1>7. QED
  BY <1>1, <1>3, <1>6, Ids, PoolAssumption DEF PageForEachThread, PoolOK, OwnType

LEMMA NotOpenedTwice ==
  ASSUME SharedInv, NEW th \in Threads, AtStep(th, "mmap_huge")
  PROVE  "page" \notin held[th]
<1>1. IInv /\ OwnType /\ HeldOK
  BY DEF SharedInv
<1>2. pc[th] = "op" /\ CodeOK(Code(th), Programs[run.benchmark].object)
  BY <1>1, InOperation DEF AtStep, At
<1>3. Paired(Code(th), "mmap_huge", "munmap") /\ Len(Code(th)) \in Nat
  BY <1>2 DEF CodeOK, IsPair
<1>4. ip[th] \in 1 .. Len(Code(th)) /\ Code(th)[ip[th]] = "mmap_huge"
  BY <1>1, <1>2, <1>3 DEF HeldOK, AtStep, Over
<1>5. ~ Opened(Code(th), ip[th], "mmap_huge", "munmap")
  BY <1>3, <1>4 DEF Paired
<1>6. QED
  BY <1>1, <1>2, <1>5 DEF HeldOK, HeldOf, HeldBy

LEMMA MmapInv ==
  ASSUME SharedInv, PageForEachThread, NEW th \in Workers,
         MmapSmall(th) \/ MmapHuge(th) \/ Unmap(th)
  PROVE  SharedInv' /\ UNCHANGED vars
<1>0. th \in Threads /\ OwnType /\ PoolOK
  BY DEF Workers, SharedInv
<1>1. CASE MmapSmall(th)
  <2> DEFINE H == held[th] \cup {"map"}
  <2>1. Takes(th, "mmap", H)
    BY <1>0, <1>1, HeldEnded DEF MmapSmall, Takes, Acquire, Resources
  <2>2. Balanced(th, "mmap", H)
    BY <1>0, HeldEnded DEF Balanced
  <2>3. free' \in Nat /\ PoolOK'
    BY <1>0, <1>1, <2>1, SamePool DEF MmapSmall
  <2>4. SharedInv'
    BY <1>0, <1>1, <2>1, <2>2, <2>3, PlainInv DEF MmapSmall
  <2>5. QED
    BY <1>1, <2>4 DEF MmapSmall
<1>2. CASE MmapHuge(th)
  <2> DEFINE H == held[th] \cup {"page"}
  <2>1. "page" \notin held[th]
    BY <1>0, <1>2, NotOpenedTwice DEF MmapHuge
  <2>2. free # 0
    BY <2>1, PageLeft DEF Holders
  <2>3. Takes(th, "mmap_huge", H)
    BY <1>0, <1>2, <2>2, HeldEnded DEF MmapHuge, Takes, Acquire, Resources
  <2>4. Balanced(th, "mmap_huge", H)
    BY <1>0, HeldEnded DEF Balanced
  <2>5. Holders("page")' = Holders("page") \cup {th} /\ th \notin Holders("page")
    BY <1>0, <2>1, <2>3, StepFacts DEF Holders
  <2>6. Cardinality(Holders("page")') = Cardinality(Holders("page")) + 1
    BY <2>5, FiniteHolders, FS_AddElement
  <2>7. free' \in Nat /\ PoolOK'
    BY <1>0, <1>2, <2>2, <2>6, FiniteHolders DEF MmapHuge, OwnType, PoolOK
  <2>8. SharedInv'
    BY <1>0, <1>2, <2>2, <2>3, <2>4, <2>7, PlainInv DEF MmapHuge
  <2>9. QED
    BY <1>2, <2>2, <2>8 DEF MmapHuge
<1>3. CASE Unmap(th)
  <2> DEFINE H == held[th] \ {"map", "page"}
  <2>1. Takes(th, "munmap", H)
    BY <1>0, <1>3, HeldEnded DEF Unmap, Takes, Release
  <2>2. Balanced(th, "munmap", H)
    BY <1>0, HeldEnded DEF Balanced
  <2>3. Holders("page")' = Holders("page") \ {th}
    BY <1>0, <2>1, StepFacts DEF Holders
  <2>4. Cardinality(Holders("page")')
          = IF "page" \in held[th] THEN Cardinality(Holders("page")) - 1
                                   ELSE Cardinality(Holders("page"))
    BY <1>0, <2>3, FiniteHolders, FS_RemoveElement DEF Holders
  <2>5. free' \in Nat /\ PoolOK'
    BY <1>0, <1>3, <2>4, FiniteHolders DEF Unmap, OwnType, PoolOK
  <2>6. SharedInv'
    BY <1>0, <1>3, <2>1, <2>2, <2>5, PlainInv DEF Unmap
  <2>7. QED
    BY <1>3, <2>6 DEF Unmap
<1>4. QED
  BY <1>1, <1>2, <1>3

LEMMA FileInv ==
  ASSUME SharedInv, NEW th \in Threads, OpenFile(th) \/ CloseFile(th)
  PROVE  SharedInv' /\ UNCHANGED vars
<1>0. IInv /\ OwnType /\ HeldOK /\ ObjectOK
  BY DEF SharedInv
<1> DEFINE made == Programs[run.benchmark].object
<1>1. /\ pc[th] = "op" /\ pc[Main] \notin {"run", "exit"} /\ CodeOK(Code(th), made)
      /\ ip[th] \in 1 .. Len(Code(th))
  <2>1. pc[th] = "op"
    BY DEF OpenFile, CloseFile, AtStep, At
  <2>2. pc[Main] \notin {"run", "exit"} /\ CodeOK(Code(th), made)
    BY <1>0, <2>1, InOperation
  <2>3. QED
    BY <1>0, <2>1, <2>2 DEF HeldOK, OpenFile, CloseFile, AtStep, Over, CodeOK
<1>2. CASE OpenFile(th)
  <2> DEFINE H == held[th] \cup {"fd"}
  <2>1. object = "file"
    <3>1. made = "file"
      BY <1>1, <1>2 DEF CodeOK, OpenFile, AtStep
    <3>2. QED
      BY <1>0, <1>1, <3>1 DEF ObjectOK
  <2>2. Takes(th, "open", H)
    BY <1>2, <2>1, HeldEnded DEF OpenFile, Takes, Acquire, Resources
  <2>3. Balanced(th, "open", H)
    BY HeldEnded DEF Balanced
  <2>4. free' \in Nat /\ PoolOK'
    BY <1>2, <2>1, <2>2, SamePool DEF OpenFile
  <2>5. SharedInv'
    BY <1>2, <2>1, <2>2, <2>3, <2>4, PlainInv DEF OpenFile
  <2>6. QED
    BY <1>2, <2>1, <2>5 DEF OpenFile
<1>3. CASE CloseFile(th)
  <2> DEFINE H == held[th] \ {"fd"}
  <2>1. "fd" \in held[th]
    <3>1. Opened(Code(th), ip[th], "open", "close")
      BY <1>1, <1>3 DEF CodeOK, CloseFile, AtStep
    <3>2. QED
      BY <1>0, <1>1, <3>1 DEF HeldOK, HeldOf, HeldBy
  <2>2. Takes(th, "close", H)
    BY <1>3, <2>1, HeldEnded DEF CloseFile, Takes, Release
  <2>3. Balanced(th, "close", H)
    BY HeldEnded DEF Balanced
  <2>4. free' \in Nat /\ PoolOK'
    BY <1>3, <2>1, <2>2, SamePool DEF CloseFile
  <2>5. SharedInv'
    BY <1>3, <2>1, <2>2, <2>3, <2>4, PlainInv DEF CloseFile
  <2>6. QED
    BY <1>3, <2>1, <2>5 DEF CloseFile
<1>4. QED
  BY <1>2, <1>3

LEMMA ChildInv ==
  ASSUME SharedInv, NEW th \in Threads, Create(th) \/ Join(th)
  PROVE  SharedInv'
<1>1. CASE Create(th)
  <2> DEFINE H == held[th] \cup {"child"}
  <2>1. Takes(th, "create", H)
    BY <1>1, HeldEnded DEF Create, Takes, Acquire, Resources
  <2>2. Balanced(th, "create", H)
    BY HeldEnded DEF Balanced
  <2>3. free' \in Nat /\ PoolOK'
    BY <1>1, <2>1, SamePool DEF Create
  <2>4. QED
    BY <1>1, <2>1, <2>2, <2>3, PlainInv DEF Create
<1>2. CASE Join(th)
  <2> DEFINE H == held[th] \ {"child", "ended"}
  <2>1. Takes(th, "join", H)
    BY <1>2, HeldEnded DEF Join, Takes, Release
  <2>2. Balanced(th, "join", H)
    BY HeldEnded DEF Balanced
  <2>3. free' \in Nat /\ PoolOK'
    BY <1>2, <2>1, SamePool DEF Join
  <2>4. QED
    BY <1>2, <2>1, <2>2, <2>3, PlainInv DEF Join
<1>3. QED
  BY <1>1, <1>2

LEMMA ChildEndsInv ==
  ASSUME SharedInv, NEW th \in Threads, ChildEnds(th)
  PROVE  SharedInv'
<1>0. IInv /\ OwnType /\ HeldOK /\ LocksOK /\ PoolOK /\ ObjectOK /\ TimesOK
  BY DEF SharedInv
<1> USE DEF ChildEnds, Acquire
<1>1. IInv'
  BY <1>0, NextIInv
<1>2. /\ pc' = pc /\ run' = run /\ ip' = ip /\ object' = object /\ free' = free /\ now' = now
      /\ \A t \in Threads : Code(t)' = Code(t)
  BY DEF vars, harnessVars, run, Code, Measured
<1>3. /\ held'[th] = held[th] \cup {"ended"}
      /\ \A t \in Threads \ {th} : held'[t] = held[t]
  BY <1>0 DEF OwnType
<1>4. OwnType'
  BY <1>0, <1>2 DEF OwnType, Resources
<1>5. HeldOK'
  BY <1>0, <1>2, <1>3 DEF HeldOK, HeldOf, HeldBy
<1>6. LocksOK'
  BY <1>0, <1>3 DEF LocksOK
<1>7. PoolOK'
  <2>1. Holders("page")' = Holders("page")
    BY <1>3 DEF Holders
  <2>2. QED
    BY <1>0, <1>2, <2>1 DEF PoolOK
<1>8. ObjectOK'
  <2>1. \A t \in Workers : BetweenCalls(t)' <=> BetweenCalls(t)
    BY <1>2 DEF BetweenCalls, At, Workers
  <2>2. QED
    BY <1>0, <1>2, <2>1 DEF ObjectOK
<1>9. TimesOK'
  BY <1>0, <1>2, <1>3, Ids DEF TimesOK, Done, Measured, OwnType
<1>10. QED
  BY <1>1, <1>4, <1>5, <1>6, <1>7, <1>8, <1>9 DEF SharedInv

LEMMA NothingHeld ==   \* at the end of an operation
  ASSUME SharedInv, NEW th \in Threads, pc[th] = "op", Over(th)
  PROVE  held[th] = {} /\ ip[th] = Len(Code(th)) + 1
<1>0. IInv /\ OwnType /\ HeldOK
  BY DEF SharedInv
<1>1. CodeOK(Code(th), Programs[run.benchmark].object)
  BY <1>0, InOperation
<1>2. ip[th] = Len(Code(th)) + 1
  BY <1>0, <1>1 DEF HeldOK, Over, CodeOK
<1>3. \A a, b : IsPair(a, b) => ~ Opened(Code(th), ip[th], a, b)
  BY <1>1, <1>2 DEF CodeOK, Paired
<1>4. HeldOf(th) /\ held[th] \subseteq Resources
  BY <1>0 DEF HeldOK, OwnType
<1>5. \A r \in Resources : r \notin held[th]
  BY <1>3, <1>4 DEF HeldOf, HeldBy, IsPair, Resources
<1>6. QED
  BY <1>2, <1>4, <1>5

LEMMA ReturnInv ==
  ASSUME SharedInv, NEW th \in Workers, Return(th)
  PROVE  SharedInv' /\ Next
<1>0. /\ IInv /\ OwnType /\ HeldOK /\ LocksOK /\ PoolOK /\ ObjectOK /\ TimesOK
      /\ pc \in [Threads -> Labels]
  BY Parts DEF SharedInv
<1> USE DEF Return, Operation, At, Goto
<1>1. th \in Threads /\ th # Main
  BY Ids
<1>2. Next
  BY Ids DEF Next, MeasuringNext, InterferingNext
<1>3. IInv'
  BY <1>0, <1>2, NextIInv
<1>4. held[th] = {} /\ ip[th] = Len(Code(th)) + 1
  BY <1>1, NothingHeld
<1>5. /\ run' = run /\ \A t \in Threads : Code(t)' = Code(t)
      /\ pc'[th] = "loop" /\ ip'[th] = 1 /\ held' = held /\ object' = object
      /\ \A t \in Threads \ {th} : pc'[t] = pc[t] /\ ip'[t] = ip[t]
  BY <1>0, <1>1 DEF OwnType, run, Code, Measured
<1>6. OwnType'
  <2>1. ip' = [ip EXCEPT ![th] = 1] /\ ip \in [Threads -> Nat \ {0}]
    BY <1>0 DEF OwnType
  <2>2. ip' = [t \in Threads |-> IF t = th THEN 1 ELSE ip[t]]
    BY <2>1
  <2>3. \A t \in Threads : ip'[t] \in Nat \ {0}
    BY <2>1, <2>2
  <2>4. ip' \in [Threads -> Nat \ {0}]
    BY <2>2, <2>3
  <2>5. QED
    BY <1>0, <2>4 DEF OwnType, times
<1>7. HeldOK'
  BY <1>0, <1>4, <1>5 DEF HeldOK, HeldOf, HeldBy
<1>8. LocksOK' /\ PoolOK'
  BY <1>0 DEF LocksOK, PoolOK, Holders
<1>9. ObjectOK'
  <2>1. ~ BetweenCalls(th)
    BY <1>0, <1>1, <1>4, InOperation DEF BetweenCalls, CodeOK
  <2>2. \A t \in Workers \ {th} : BetweenCalls(t) => BetweenCalls(t)'
    BY <1>5 DEF BetweenCalls, Workers
  <2>3. pc'[Main] = pc[Main]
    BY <1>1, <1>5, Ids
  <2>4. QED
    BY <1>0, <1>5, <2>1, <2>2, <2>3 DEF ObjectOK
<1>10. TimesOK'
  BY <1>0, <1>5, Ids DEF TimesOK, Done, times
<1>11. QED
  BY <1>2, <1>3, <1>6, <1>7, <1>8, <1>9, <1>10 DEF SharedInv

-----------------------------------------------------------------------------
LEMMA OperationInv ==
  ASSUME SharedInv, PageForEachThread, NEW th \in Workers, OperationStep(th)
  PROVE  SharedInv' /\ [Next]_vars
<1>1. th \in Threads
  BY DEF Workers
<1>2. CASE Return(th)
  BY <1>2, ReturnInv
<1>3. CASE Lock(th) \/ RdLock(th) \/ Unlock(th)
  BY <1>1, <1>3, LockInv DEF Lock, RdLock, Unlock
<1>4. CASE MmapSmall(th) \/ MmapHuge(th) \/ Unmap(th)
  BY <1>4, MmapInv
<1>5. CASE \/ Touch(th) \/ Protect(th, "protect_none", "none")
           \/ Protect(th, "protect_rw", "rw")
           \/ Start(th) \/ End(th) \/ HandlerTime(th) \/ HandlerEnd(th)
  BY <1>1, <1>5, KeepInv DEF Touch, Protect, Start, End, HandlerTime, HandlerEnd
<1>6. CASE OpenFile(th) \/ CloseFile(th)
  BY <1>1, <1>6, FileInv
<1>7. CASE Create(th) \/ Join(th)
  BY <1>1, <1>7, ChildInv DEF Create, Join
<1>8. QED
  BY <1>2, <1>3, <1>4, <1>5, <1>6, <1>7 DEF OperationStep

LEMMA SharedNextInv ==
  ASSUME SharedInv, PageForEachThread, [SharedNext]_sharedVars
  PROVE  SharedInv' /\ [Next]_vars
<1>1. CASE Other /\ UNCHANGED ownVars
  BY <1>1, OtherInv, HarnessIsNext DEF Other, HarnessStep, MainNext
<1>2. CASE StartShared \/ ReturnShared
  BY <1>2, ActionInv DEF StartShared, ReturnShared, Next, MainNext
<1>3. ASSUME NEW th \in Workers, OperationStep(th)
      PROVE  SharedInv' /\ [Next]_vars
  BY <1>3, OperationInv
<1>4. ASSUME NEW th \in Workers, ChildEnds(th)
      PROVE  SharedInv' /\ [Next]_vars
  BY <1>4, ChildEndsInv DEF Workers, ChildEnds
<1>5. CASE UNCHANGED sharedVars
  <2>1. UNCHANGED vars
    BY <1>5 DEF sharedVars
  <2>2. IInv'
    BY <2>1, NextIInv DEF SharedInv
  <2>3. /\ OwnType' /\ HeldOK' /\ LocksOK' /\ PoolOK' /\ ObjectOK' /\ TimesOK'
    BY <1>5
    DEF SharedInv, sharedVars, ownVars, times, vars, harnessVars, OwnType, HeldOK, HeldOf,
        HeldBy, LocksOK, PoolOK, ObjectOK, TimesOK, Done, Holders, BetweenCalls, Code,
        Measured, run, At
  <2>4. QED
    BY <2>1, <2>2, <2>3 DEF SharedInv
<1>6. QED
  BY <1>1, <1>2, <1>3, <1>4, <1>5, Ids
  DEF SharedNext, MainShared, MeasuringShared, InterferingShared, SignalShared,
      EndingShared, Other

LEMMA SharedInductive ==
  ASSUME PageForEachThread
  PROVE  SharedSpec => []SharedInv
<1>1. SharedInv /\ [SharedNext]_sharedVars => SharedInv'
  BY SharedNextInv
<1>2. QED
  BY <1>1, SharedInitInv, PTL DEF SharedSpec

-----------------------------------------------------------------------------
(* Every variable keeps to its type. *)
THEOREM SharedTypeCorrect ==
  ASSUME PageForEachThread
  PROVE  SharedSpec => []SharedTypeOK
<1>1. SharedInv => SharedTypeOK
  BY TypeParts, FiniteHolders, PoolAssumption
  DEF SharedInv, SharedTypeOK, OwnType, PoolOK
<1>2. QED
  BY <1>1, SharedInductive, PTL

(* Locks exclude, huge pages are not lost, and the mapping of              *)
(* bench-mprotect is inaccessible only between two calls of mprotect.      *)
THEOREM SharedResources ==
  ASSUME PageForEachThread
  PROVE  SharedSpec => []ResourcesAccounted
<1>1. SharedInv => ResourcesAccounted
  <2> SUFFICES ASSUME SharedInv PROVE ResourcesAccounted
    OBVIOUS
  <2>0. IInv /\ LocksOK /\ PoolOK /\ ObjectOK
    BY DEF SharedInv
  <2>1. Cardinality(Holders("lock")) <= 1
    <3>1. CASE Holders("lock") = {}
      BY <3>1, FS_EmptySet
    <3>2. ASSUME NEW th \in Holders("lock")
          PROVE  Holders("lock") = {th}
      BY <2>0, <3>2 DEF LocksOK, Holders
    <3>3. QED
      BY <3>1, <3>2, FS_Singleton
  <2>2. Holders("lock") # {} => Holders("rdlock") = {}
    BY <2>0 DEF LocksOK, Holders
  <2>3. ASSUME object = "none", run.benchmark = "mprotect"
        PROVE  \E th \in Workers : BetweenCalls(th)
    <3>1. Programs["mprotect"].object = "rw"
      BY DEF Programs, mprotect, Program
    <3>2. QED
      BY <2>0, <2>3, <3>1 DEF ObjectOK
  <2>4. QED
    BY <2>0, <2>1, <2>2, <2>3 DEF ResourcesAccounted, PoolOK
<1>2. QED
  BY <1>1, SharedInductive, PTL

(* No operation and no run leaves anything behind. *)
THEOREM SharedLeavesNothing ==
  ASSUME PageForEachThread
  PROVE  SharedSpec => []NothingLeftBehind
<1>1. SharedInv => NothingLeftBehind
  BY DEF SharedInv, HeldOK, ObjectOK, NothingLeftBehind, Workers
<1>2. QED
  BY <1>1, SharedInductive, PTL

(* The measured end is after the start. *)
THEOREM SharedEndAfterStart ==
  ASSUME PageForEachThread
  PROVE  SharedSpec => []EndAfterStart
<1>1. SharedInv => EndAfterStart
  <2> SUFFICES ASSUME SharedInv, pc[Measurer] = "op", Measured(Measurer), Over(Measurer)
               PROVE  end_ns[Measurer] = "after"
    BY DEF EndAfterStart, At
  <2>1. MeasuredOK(Code(Measurer)) /\ run.kind = "latency"
    BY InOperation, Ids DEF SharedInv, Measured
  <2>2. ip[Measurer] = Len(Code(Measurer)) + 1
    BY NothingHeld, Ids
  <2>3. Done("end") \/ Done("handler_end") \/ Done("join")
    BY <2>1, <2>2 DEF MeasuredOK, Done
  <2>4. QED
    BY <2>1, <2>3 DEF SharedInv, TimesOK
<1>2. QED
  BY <1>1, SharedInductive, PTL

(* With a huge page for each thread, no assertion of an operation fails. *)
THEOREM SharedAssertions ==
  ASSUME PageForEachThread
  PROVE  SharedSpec => []AssertionsHold
<1>1. SharedInv => AssertionsHold
  BY DEF SharedInv, IInv, AssertionsHold
<1>2. QED
  BY <1>1, SharedInductive, PTL

(* Seen from the harness, an operation is one step of SymmetricBench; that *)
(* it comes to an end is fairness, and is model-checked.                   *)
THEOREM SharedRefines ==
  ASSUME PageForEachThread
  PROVE  SharedSpec => Init /\ [][Next]_vars
<1>1. SharedInit => Init
  BY DEF SharedInit
<1>2. SharedInv /\ [SharedNext]_sharedVars => [Next]_vars
  BY SharedNextInv
<1>3. QED
  BY <1>1, <1>2, SharedInductive, PTL DEF SharedSpec
(* So every program has what SymmetricBench promises of the harness: no    *)
(* thread outlives the run that created it.                                *)
THEOREM SharedThreadsEndWithRun ==
  ASSUME PageForEachThread
  PROVE  SharedSpec => []ThreadsWithinRun
<1>1. SharedInv => ThreadsWithinRun
  BY InvThreadsWithinRun DEF SharedInv, IInv
<1>2. QED
  BY <1>1, SharedInductive, PTL

(* No operation is measured without all interfering threads. *)
THEOREM SharedInterferenceWhileMeasuring ==
  ASSUME PageForEachThread
  PROVE  SharedSpec => []InterferenceThroughout
<1>1. SharedInv => InterferenceThroughout
  BY InvInterferenceThroughout, OpLabels DEF SharedInv, IInv
<1>2. QED
  BY <1>1, SharedInductive, PTL

(* Without stalls, a run during which the user sends no SIGINT, and at     *)
(* whose start no alarm of an earlier run is pending, measures until its   *)
(* own alarm, whatever was interrupted before it.                          *)
THEOREM SharedMeasurementsAreFull ==
  ASSUME PageForEachThread, NoStalls
  PROVE  SharedSpec => FullMeasurement
<1> SUFFICES ASSUME NEW r \in Run
    PROVE  SharedSpec => ([]Unaffected(r) => []Full(r))
  BY DEF FullMeasurement
<1>1. SharedInit => Uninterrupted(r)
  BY InitUninterrupted DEF SharedInit, Init
<1>2. SharedInv /\ Unaffected(r) /\ Uninterrupted(r) /\ [SharedNext]_sharedVars
        => Uninterrupted(r)'
  BY SharedNextInv, NextUninterrupted, HarnessSteps, OpLabels DEF SharedInv, IInv
<1>3. Uninterrupted(r) => Full(r)
  BY FullIfUninterrupted
<1>4. QED
  BY <1>1, <1>2, <1>3, SharedInductive, PTL DEF SharedSpec

(* And the plan is carried out, each run with all its rows. *)
THEOREM SharedPlanCarriedOut ==
  ASSUME PageForEachThread
  PROVE  SharedSpec => Promise!Safe
<1>1. SharedInit => PlanInv /\ Promise!Init
  BY InitPlan DEF SharedInit, Init
<1>2. SharedInv /\ PlanInv /\ [SharedNext]_sharedVars
        => PlanInv' /\ [Promise!Next]_(Promise!vars)
  BY SharedNextInv, NextKept, HarnessSteps, OpLabels DEF SharedInv, IInv, Kept
<1>3. QED
  BY <1>1, <1>2, SharedInductive, PTL DEF SharedSpec, Promise!Safe
=============================================================================
