# posixbench in TLA+

posixbench measures the latency and the energy of POSIX operations under interference. Each program
`bench-*.cpp` is one operation; `benchmark.h` is the harness that all of them share. This directory
holds TLA+ models of that code, TLC configurations that check them on small instances, and TLAPS
proofs of the most important properties for every value of the constants.

Contents: 1 inventory, 2 modules, 3 runs, 4 abstractions, bounds and fairness, 5 proofs, 6
disagreements with the documentation, 7 what is not modelled, 8 plan.

## 1. Inventory

Paths are relative to `src/`.

| Component | State | Operations | Interacts with |
|---|---|---|---|
| Driver, `run_all` (`benchmark.h:590`) | options, two output files | parse options, install handlers, run the latency then the energy benchmark of up to four scenarios | calls the two harnesses in sequence |
| Topology search, `find_package`, `find_other_pu` (`benchmark.h:145-187`) | loop variable | walk up to the package; walk the PUs after the measuring one | called by both harnesses before they start a run |
| Latency harness, `LatencyBenchmark` (`:189-309`) | `stop`, thread handles, `Action`, all on the stack frame of `run` | spawn interfering threads and the measuring thread; arm the alarm; measure until `alarm_fired` or `sigint_fired`; set `stop`, report; wake and join | `Action`, signals, `alarm` |
| Energy harness, `EnergyBenchmark`, `measure_energy` (`:400-543`) | the same, RAPL counters, `msr_fd` | open the msr device (may fail), `nr_samples` samples of one second, one row each | the same |
| Signals | `sigint_fired`, `alarm_fired` (globals that outlive a run), pending signals, the alarm clock | `signal_handler`, `alarm_signal_handler`; both installed without `SA_RESTART` | the user, the kernel's timer, the harness's `pthread_kill` |
| Symmetric operations (`SymmetricAction`) | none that threads share | one system call, or a thread created and joined | called from the loops of all threads |
| Eventfd wake-up (`bench-eventfd.cpp`, `bench-eventfd-nonblock.cpp`) | `local_efd`, `remote_efds` | write a request, block for the reply; read a request (blocking or polling), reply with the time | harness's SIGINT wakes the blocked reader |
| Signal wake-up (`bench-pthread-kill.cpp`) | `signaled`, `mutexes`, `cond_vars`, `remote_timestamps`, pending SIGUSR1 | send SIGUSR1, wait on the condition variable; `sigtimedwait` for 5 s, store the time, acknowledge | harness's SIGINT and the time limit end `sigtimedwait` |
| Locks (`bench-pthread-mutex*.cpp`, `-rwlock-*`, `-spinlock`) | one lock | lock and unlock | all threads take the lock |
| Files (`bench-open.cpp`, `bench-close.cpp`) | a file that `Action` creates and unlinks, descriptors | open, close | all threads open the file |
| Mappings (`bench-mmap-*`, `bench-munmap-*`, `bench-mprotect.cpp`) | the kernel's pool of 2 MB pages, a mapping that all threads protect | map, unmap, protect | through the pool and the mapping |
| Page faults (`bench-pagefault-*.cpp`, `memory.hh`) | a page that is never readable, `end_ns` | touch a page; the SIGSEGV handler takes the time and skips the read | through the pool and the handler |
| Time conversion | none | `timespec_to_ns`, `time_diff`, in double precision | every measurement |
| HdrHistogram, hwloc | | | third-party; hwloc's tree is modelled as far as the search reads it |
| Makefile, CMake, scripts | | run the programs, plot | sequential, not modelled |

Where it is hard, and what makes each component correct:

* **Flags that outlive their run.** `sigint_fired` and `alarm_fired` are globals, and the harness
  itself sends SIGINT to its threads at the end of every run. Unless the user interrupts it, a run
  must be ended by its own alarm only. An interrupted run leaves its alarm armed; only if that alarm
  is still pending as the next run begins can it cut that run short (`FullMeasurement`).
* **Lifetime.** The threads use variables of the stack frame of `run`; none may outlive it
  (`ThreadsWithinRun`), and every operation must be measured with its interfering threads alive
  (`InterferenceThroughout`), also when the msr device cannot be opened.
* **Signals and blocking calls.** SIGINT wakes a thread only if it is already in its system call
  (`Termination` of each program), and EINTR may come to a thread that does not expect it.
* **Message matching.** An eventfd adds up what is written and a pending SIGUSR1 is only one bit: a
  request and its answer must never be mixed with another's (`OneMessage`, `OneSignal`,
  `IsHandshake`), and the time answered must be later than the start (`AssertionsHold`).
* **What threads share and leave behind.** All threads run the same operation on one lock, file,
  mapping or pool of pages, millions of times: whatever they take they must release, and no
  assertion may depend on what the others do (`ResourcesAccounted`, `NothingLeftBehind`,
  `AssertionsHold`). The end of an operation may be taken by a child or a signal handler, and must
  belong to this operation (`EndAfterStart`).
* **Numbers.** Energy counters of 32 bits are subtracted in 64, a mean is a quotient that may have
  no divisor, and nanoseconds are rounded to doubles (`EnergyUnlessWrapped`, `SomeOperation`,
  `DurationAccurate`, `OrderKept`).
* **The plan.** Whatever happens in between, `run_all` carries out its runs in order, each with all
  its rows (`KeepsPromise`).
* **Off-by-one in the search.** The search begins after the measuring PU and gives up at a PU
  without a package (`ComputesClosedForm`, `Sound`, `Complete`).

`PROJECT.json` lists all hazards with their source lines.

## 2. Modules

| Module | Models |
|---|---|
| `Topology` | hwloc's tree, `find_package`, and `find_other_pu` in closed form (`Found`, `HasOtherPu`) |
| `FindOtherPu` | the loop of `find_other_pu`, one action per way an iteration ends |
| `Harness` | `run_all`, both `run` functions, `measure_energy`, handlers and alarm: everything but the operation |
| `SymmetricBench` | the harness with an operation that is one step, a complete specification |
| `Programs` | the 27 programs whose operations never wait for the operation of another thread: the steps of `raw_operation` and `measured_operation`, the object of `Action` |
| `SharedBench` | the harness with the steps of those programs, and what their threads share |
| `TimeConversion` | `timespec_to_ns` and `time_diff` with the rounding of doubles |
| `EnergySample` | `measure_energy` and the loop around it with time, energy counters and arithmetic |
| `BenchPlan` | abstract: what `run_all` promises |
| `EventfdBench` | the harness with both eventfd programs (`EFD_NONBLOCK` tells them apart) |
| `PthreadKillBench` | the harness with `bench-pthread-kill.cpp` |
| `Handshake` | abstract: request, answer, accept |
| `MC...` | instances for TLC: machines with two or four PUs, who may take a signal |
| `HarnessProofs` | the invariants of `Harness`, for any operations, and that its actions keep them |
| `BenchPlanProofs` | that the harness with any operations carries out its plan |
| `FindOtherPuProofs`, `SymmetricBenchProofs`, `SharedBenchProofs`, `EventfdBenchProofs`, `PthreadKillBenchProofs`, `EnergySampleProofs` | the theorems of each specification |

**Composition.** A program module `EXTENDS Harness` and completes it: the harness takes a thread to
the label `"op"`, the program's actions take it back to `"loop"`. The `Action` object is constructed
in `StartRun` and destroyed in `ReturnFromRun`; a program with state of its own replaces these two
by versions that also change that state. `EventfdBench` and `PthreadKillBench` keep their own
variables unchanged in the harness's actions with `Keep`. `SharedBench` extends `SymmetricBench` and
splits its single step `Operation`: every behaviour of `SharedBench` is one of `SymmetricBench`
(`ImplementsSymmetric`), so what is shown of the harness with the single step holds for all 27
programs. `EventfdBench` and `PthreadKillBench`, whose threads wait for each other, are
specifications of their own. The harness uses the closed form of `Topology` for the early return of
`run`; `FindOtherPu` shows that the loop computes it.

**State.** `pc[th]` is the position of a thread between two points at which other threads can notice
the difference. The main thread is `NrInterfering`, the measuring one `NrInterfering + 1`, and the
interfering threads are the `tid`s of the code. `todo` is the list of runs left, its head the
current one; `out` is the list of rows written to the two files (one row for the whole report of a
latency run, one for each energy sample). `timer` is the process's alarm clock, `shared` and
`pending` are the signals pending for the process and for a thread; a signal already pending is not
queued twice, as in POSIX. Each flag of the code is a variable of the same name.

**Actions.** The main thread: `SkipRun` (all early returns), `StartRun`, `SpawnInterfering`,
`SpawnMeasuring`, `JoinMeasuring`, `KillInterfering`, `AllKilled`, `JoinInterfering`,
`ReturnFromRun`, `Exit`. The measuring thread: `ArmAlarm` or `OpenMsr`/`NoMsr`, `BeginSample`,
`ResetAlarm`, `BeginOperation`, the operation, `EndMeasurement`, `ReportLatency` or `ReportEnergy`,
`EndSamples`. An interfering thread: `BindInterfering`, `CheckStop`, the operation. `alarm(...)` and
`alarm_fired = false` are separate steps since a handler can run in between; the test of a loop and
the following operation are separate steps for the same reason. A `-i` value the parser rejects
gives the empty plan, as `run_all` then only prints an error.

**Operations.** `EventfdBench`: `TakeStart`, `WriteRequest`, `WaitForReply`, `ReadReply`,
`InterruptedReply` in the measuring thread; `ReadRequest`, `WaitForRequest`, `NoRequest` (EAGAIN),
`InterruptedRequest` (EINTR), `TakeTime`, `Reply` in the interfering one. `PthreadKillBench`:
`LockAndReset`, `SendUsr1`, `TestSignaled`, `SpuriousWakeup`, `Relock`, `CheckTime`; `TakeUsr1`,
`WaitForUsr1`, `WaitFails` (EINTR or time-out), `TakeTime`, `StoreTime`, `Signal`. An energy run
goes through the same steps without the two clock readings and the assertion. A blocked system call
is the label `"blocked"`, and a handler that runs in it moves the thread to `"eintr"`, from which
the call still succeeds if what it waits for has arrived.

`SharedBench`: `ip[th]` is the next step of the operation of `th`, a position in the list of steps
that `Programs` has for the current program, `measured` in the measuring thread of a latency run and
`raw` otherwise. `held[th]` is what the operation has taken and not released, `free` the pages in
the pool, `object` what the constructor of `Action` has made: `"file"`, or a mapping by its
protection. A time is `"before"` or `"after"` the start of the latest measured operation, which
`Start` resets. Each kind of step is an action: `Lock`, `RdLock`, `Unlock`, `MmapSmall`, `MmapHuge`,
`Unmap`, `Touch`, `Protect`, `OpenFile`, `CloseFile`, `Create`, `Join`, `Start`, `End`,
`HandlerTime`, `HandlerEnd`; `ChildEnds` is the thread that `bench-pthread-create` creates; `Return`
goes back to the loop of the harness. An `assert` that fails is `FailAssertion`.

`EnergySample` is one thread and the alarm, with time: each step of the thread takes some ticks of
`clock`, and `AlarmFires` happens when `deadline` has passed, at most `Late` ticks after it. `Poll`
is the loop of `wait_for_rapl_sampling_period_begin`. A variable that holds a reading of an energy
counter holds the time of the reading instead; `read_msr` computes the counter from it. Counters are
updated at the beginning of each sampling period of a millisecond (`Updated`), which is why the code
waits, and show the energy used until then (`Energy`) modulo `CounterSize`: a reading at the end of
a sample may be old by almost a period, and one at its beginning by the steps since the wait.
`IsMean` allows for both. The periods are the milliseconds of `CLOCK_MONOTONIC`, which is what the
wait goes by. If the hardware's periods begin at other times, the readings at the beginning may be
old by up to a period as well, and the upper bound grows by that.

Operators marked `mutant:` are plausible bugs of the definition below them. No specification uses
them; they show that a property would notice the bug (`mutants` in `PROJECT.json`).

## 3. Runs

Run from this directory, for example `tlc -config MCSymmetricBench.cfg MCSymmetricBench.tla`.

Expected to pass:

| Run | Configuration | Shows |
|---|---|---|
| `find_other_pu` | `MCFindOtherPu.cfg` | For the default measuring CPU and every four-PU machine, the loop computes its closed form, returns only PUs of the scenario, and finds one whenever there is one. |
| `harness` | `MCSymmetricBench.cfg` | The plan of eight runs (three latency and three energy runs that the machine has, and two that are skipped for lack of SMT; two samples each), two interfering threads, two user interrupts and signals handled by any thread: thread lifetimes, interference, full measurements, the plan (refinement of `BenchPlan`) and termination. |
| `eventfd_nonblock` | `MCEventfdBench_nonblock.cfg` | `bench-eventfd-nonblock`: messages never mix, assertions hold, the operations refine `Handshake`, the program ends. |
| `eventfd_any_thread` | `MCEventfdBench_any.cfg` | `bench-eventfd` with signals handled by any thread: interrupted reads neither mix messages nor lose a request, and no assertion fails but that of an interrupted read of the measuring thread. |
| `pthread_kill` | `MCPthreadKillBench.cfg` | `bench-pthread-kill` with two interfering threads and spurious wake-ups: signals and acknowledgements match, the assertion holds, `Handshake`, the program ends. |
| `shared` | `MCSharedBench.cfg` | Each of the 27 programs (the initial states choose one), with a user interrupt: locks, pages, descriptors and mappings are released, times belong to the operation, assertions hold with one huge page for each thread, and the operations implement the single step of `SymmetricBench`, liveness included. |
| `energy` | `MCEnergySample.cfg` | Two samples: the loop runs at least once, what is reported is the mean energy, within a sampling period below and the steps around the loop above, unless a counter wraps, durations are as accurate as doubles allow, and times keep their order. |

Expected to violate their property; section 6 explains each: `find_other_pu_complete`,
`harness_quit`, `harness_stall`, `eventfd_hang`, `energy_wrap`.

`CHECK_DEADLOCK FALSE` appears only in the two configurations of the blocking eventfd program,
because that program really can hang (`eventfd_hang`).

## 4. Abstractions, bounds and fairness

**Data.** Names, CPU numbers beyond the topology and report values are left out; the values of the
RAPL counters are left out of `Harness` and are the subject of `EnergySample`. A time is `"fresh"`
or `"stale"`: whether it was taken after the start of the current measurement, which is all the
assertions ask of it. Two readings of the clock are assumed to differ: `End` of `SharedBench` cannot
fail the assertion of `time_diff`, and `OrderKept` is about readings that are close.

**Bounds.** `MaxSigints` bounds the interrupts the user sends: one is enough to end a run, to leave
an alarm armed and to be handled in any later phase, and two also overlap. `nr_samples = 2` has a
first and a last sample that differ. `NrInterfering` is 1 in the code; 2 is checked where the code
allows it, since the loops over threads and `remote_tid` are trivial with one. The machines have two
cores, or two packages of two cores so that scenarios are skipped (`LOCAL_CORE`: no SMT) and carried
out. `MCFindOtherPu` takes all divisions of four PUs into cores and of the cores into two packages
or none: a PU may match, fail to match or stop the search before, at and after every other. The
durations of the harness are not counted.

`MCSharedBench` has one interfering thread, as the code does, one sample, one interrupt and a pool
of two pages, one for each thread. The lock, the pool, the file and the mapping are shared by two
threads then, which all the interleavings of two operations need; the theorems of section 5 say the
same for any number of threads.

`MCEnergySample` scales the numbers and keeps their relations:

* A second has 20 ticks and a millisecond 5. Like 1e9, 20 has factors of two, so that `tv_sec * 1e9`
  is still exact when the sum with `tv_nsec` is first rounded; a second is a whole number of
  milliseconds. A sampling period is longer than the steps around the loop, so that without the wait
  the bounds of `IsMean` do not hold (the mutant `PollOnce`). Doubles hold all integers below
  `Exact` = 32; the uptimes 20, 50 and 75 make the distance of the doubles 1, 2 and 4 and cross 2^5
  and 2^6 within a sample, as uptimes cross 2^53 and 2^54 ns (104 and 208 days).
* Counters with `CounterSize` = 64 values wrap in some samples of the run and not in others;
  `LongSize` = 1024 is enough for differences and their product with the unit, as 2^64 is.
* A step of the harness takes 0 or 1 tick (`StepTicks`), an operation 1 or 2 (`OpTicks`), the
  handler of the alarm runs within `Late` = 3 ticks. The set-up steps before the loop together are
  shorter than a second, which is what `SomeOperation` depends on. With steps of a second it would
  fail, and the report would divide by zero.
* A domain uses a constant power, one of `Powers`. `EnergyUnit` is a whole number. The two roundings
  of `PerOperation` in doubles are ignored; its conversion of a number too large to `uint64_t` is
  undefined in C++ and yields one of the values that x86 and ARM processors give (`Undefined`).

**Two constants are assumptions about the platform.** `Takers` is the set of threads that may handle
a signal sent to the process: POSIX allows any that does not block it, Linux takes the main thread
unless that thread cannot take it. With `Takers = {Main}` the main thread handles a pending signal
before it goes on (`MainAt`), since each of its steps goes through the kernel. `NoStalls` says that
no thread is held up for as long as an alarm takes (a second or more): the alarm then does not
expire between `alarm` and the first test of the loop, and the five seconds of `sigtimedwait` do not
pass while the thread is being measured. The run `harness_stall` drops it.

**Fairness.** Weak fairness for each thread: the scheduler runs every thread, and none is ever
stopped. An armed alarm expires and a pending signal is delivered eventually, as the kernel
guarantees. `PthreadKillBench` has strong fairness for its threads, because a thread may wait for a
mutex that is free and taken again and again; this assumes that the mutex starves nobody, which
default pthread mutexes do in practice and do not promise. `SharedBench` has strong fairness for
`Lock` for the same reason, in each thread, and weak fairness for the thread that
`bench-pthread-create` creates. Locks give this only in all likelihood: the spinlock and the
adaptive mutex are free for a moment in each operation, again and again. A read lock needs no more
than weak fairness, since nobody takes the write lock in the program that has it. `EnergySample`
states no fairness, as it has no liveness property. `UserSigint` and `SpuriousWakeup` are not fair:
they may never happen. Nothing is assumed of the user.

## 5. Proofs

Check with `tlapm M.tla` for each of the eight modules `M` whose name ends in `Proofs`.

`FindOtherPuProofs`, for every set of machines and measuring CPUs (`TopologyAssumption`: the number
of PUs is a natural number):

* `FindOtherPuTypeCorrect`: `Spec => []TypeOK`.
* `FindOtherPuCorrect`: `Spec => []ComputesClosedForm`. The closed form is what `Harness` uses.
* `FindOtherPuSound`: `Spec => []Sound`.
* `FindOtherPuComplete`: `MeasuringCpus = {0}` implies `Spec => []Complete`. Without that condition
  the run `find_other_pu_complete` has a counterexample.

The invariant `IInv` is that every PU between the measuring one and the loop variable has been
passed without a reason to stop (`Searched`), and that a `nullopt` returned has its reason
(`FailedForAReason`). `ComputesClosedForm` alone is not inductive: it says nothing before the
return.

`HarnessProofs` and `BenchPlanProofs` are about any program. Their parameters `ML` and `IL` are the
labels of the operations of the measuring thread and of an interfering thread, and `HarnessNext(ML,
IL)` is all that a step of a program may be to the harness: an action of `Harness`, a step of an
operation that changes `pc` only (`OperationsOnly`), a failed assertion (`Abort`), or nothing. There
are three invariants:

* `HarnessInv` has the parts `PcType`, `FlagsType`, `SignalsType`, `ProgressType` (types),
  `LabelsOK` (which labels each thread may have), `RunOK` (within a run there is a current one, and
  the measuring thread exists while it is waited for), `InterferersOK` (which interfering threads
  exist at each position of the main thread, in terms of its loop index `tid`), `StopOK` (`stop` is
  set only at the end of a measurement) and `PendingOK` (no signal is pending for a thread that does
  not run). It implies `ThreadsWithinRun` and `InterferenceThroughout`, neither of which is
  inductive: the loop of joins needs `InterferersOK`, and that needs `StopOK`.
* `Uninterrupted(r)`, for the part of `FullMeasurement` that is about run `r`: without an interrupt
  by the user in that run, `sigint_fired` is false throughout its latency measurement
  (`NoSigint(r)`: `StartRun` resets the flag, the SIGINTs of the harness are sent after the
  measurement, and their threads are joined before the next), and if no alarm of an earlier run is
  pending when the measuring thread starts, the alarm of `r` is armed, pending or fired at most once
  (`OneAlarm(r)`). Nothing is assumed of the runs before `r`: an alarm that is still armed is set
  again by `r`.
* `PlanInv`, for `Promise!Safe`: the runs left are different and those after the current one have no
  rows (`PlanOK`), the current one has none before its measurement (`Unmeasured`), the samples `0 ..
  sample - 1` in it (`InMeasurement`), and all or, in an energy run that could not open the msr
  device, none after it (`Complete`). That the runs of every plan are different follows from the
  order in which `run_all` makes it (`PlansDistinct`).

There is a lemma for each group of actions, and one for all of them (`NextInv`, `NextUninterrupted`,
`NextKept`). Each program's module proves that its steps are steps of `HarnessNext` (`HarnessSteps`,
`EfdHarnessSteps`, `KillHarnessSteps`), adds to `HarnessInv` what its own properties need, and has
these theorems from the lemmas:

| | `SymmetricBench` | `SharedBench` | `EventfdBench` | `PthreadKillBench` |
|---|---|---|---|---|
| `[]ThreadsWithinRun` | `ThreadsEndWithRun` | `SharedThreadsEndWithRun` | `EventfdThreadsEndWithRun` | `KillThreadsEndWithRun` |
| `[]InterferenceThroughout` | `InterferenceWhileMeasuring` | `SharedInterferenceWhileMeasuring` | `EventfdInterferenceWhileMeasuring` | `KillInterferenceWhileMeasuring` |
| `FullMeasurement` | `MeasurementsAreFull` | `SharedMeasurementsAreFull` | `EventfdMeasurementsAreFull` | `KillMeasurementsAreFull` |
| `Promise!Safe` | `PlanCarriedOut` | `SharedPlanCarriedOut` | `EventfdPlanCarriedOut` | `KillPlanCarriedOut` |

The row of `FullMeasurement` assumes `NoStalls`: otherwise the alarm of one phase may be handled in
the next. The column of `SharedBench` assumes a huge page for each thread, as below. Otherwise the
four hold for every command line, machine, number of interfering threads (one, in `EventfdBench`),
samples and interrupts and any set of `Takers` (`HarnessAssumption`). TLC checks them of
`SymmetricBench`, in the run `harness`. In `EventfdBench` and `PthreadKillBench` an assertion may
fail and end the program in the middle of a run: its threads end then as well, and the plan is
carried out up to there.

`SymmetricBenchProofs` besides: `TypeCorrect`: `Spec => []TypeOK`.

`SharedBenchProofs`, for the same constants and any pool with a page for each thread
(`PageForEachThread`: `nr_hugepages > NrInterfering`):

* `SharedTypeCorrect`, `SharedResources`, `SharedLeavesNothing`, `SharedEndAfterStart`,
  `SharedAssertions`: `SharedSpec => []P` for each invariant `P` of the run `shared`.
* `SharedRefines`: `SharedSpec => Init /\ [][Next]_vars`, the safety part of `ImplementsSymmetric`.
  `SharedInv` includes the invariant of `SymmetricBench`.

`SharedInv` says of every thread, by `Opened`, that it holds exactly what the steps before `ip` have
acquired and not released (`HeldOK`), that locks exclude each other (`LocksOK`), that no page is
lost (`PoolOK`), which object there is and who protects it (`ObjectOK`), and when the times are
those of this operation (`TimesOK`). What it needs of the programs is `ProgramsOK`, proved first for
each of the 27: releases follow acquisitions in `raw_operation` and `measured_operation`, a file is
opened only by a program that has created one, and the end comes after the start. A program added to
the table gets the theorems when it has these properties. The pool is never empty when a thread maps
a page because each of the others holds at most one and this thread none.

`EventfdBenchProofs`, for both eventfd programs, every machine, command line, number of samples and
interrupts, and the one interfering thread of the code:

* `EventfdTypeCorrect`: `Spec => []TypeOK`; `EventfdOneMessage`: `Spec => []OneMessage`, for any
  `Takers`.
* `EventfdAssertions`, with `Takers = {Main}`: `Spec => []AssertionsHold`.
* `EventfdOnlyEintrAborts`, for any `Takers`: `Spec => OnlyEintrAborts`. That the measuring thread's
  read is interrupted is the only way to abort; the other two assertions, on the time and on the
  descriptor, never fail.
* `EventfdHandshakeSafe`, with `Takers = {Main}`: `Spec => Shaking!Safe`, the safety part of
  `IsHandshake`.

The invariant adds to `HarnessInv` where the one message is (`Messages`), that a request is one and
the time sent was taken after it (`ContentsOK`), when the descriptor is open (`ActionOK`) and that
nobody sends a signal to the measuring thread (`Undisturbed`).

`PthreadKillBenchProofs`, for any number of interfering threads:

* `KillTypeCorrect`: `Spec => []TypeOK`.
* `KillOneSignal`, `KillAssertions`, `KillHandshakeSafe`: `OneSignal`, `AssertionsHold` and
  `Shaking!Safe`, with `NoStalls` and `Takers = {Main}`. Section 6 describes what happens without
  `NoStalls`.

Their invariant says where SIGUSR1 or its acknowledgement is (`SignalOK`), that `signaled` is reset
before a request (`ResetOK`), that the times stored and acknowledged are later than the start
(`StoredOK`, `AcknowledgedOK`), and that no interfering thread is interrupted before the measurement
ends (`Undisturbed`), which is what keeps `WaitFails` from acknowledging a request that was not
made.

`EnergySampleProofs`, for any scale of time, doubles and counters and any times of steps and
operations, of which there is a longest step and a shortest and a longest operation
(`ConversionAssumption`, `EnergyAssumption`):

* `TimesKeepOrder`, `DurationsAccurate`, `TypeCorrect`: `OrderKept`, `DurationAccurate` and
  `TypeOK`, while the clock is `InRange`, which is 146 years of uptime. `tv_sec * 1e9` is exact up
  to there, since 1e9 is a multiple of 2^9 and the distance of the doubles is at most that. Beyond,
  a second rounding may add to that of the sum. What rounding does is in lemmas about `RoundTo`: it
  moves a number by at most half the distance, and does not pass a multiple.
* `SampleNotEmpty`: `SetUpInTime` implies `Spec => []SomeOperation`. `SetUpInTime` says that a
  second is longer than one millisecond and the six steps from `alarm(1)` to the first test of the
  loop. If they took longer, the loop would not run and the report divide by zero.
* `EnergyIsMean`: `SetUpInTime` and `CounterFits` imply `Spec => []EnergyUnlessWrapped`.
  `CounterFits` says that 2^32 units of energy times 1e9 are less than 2^64, which is so for units
  below 4.29 J; RAPL's are some microjoules. The difference of two readings is the energy between
  two updates of the counter. What the wait contributes is `FreshOK`: when it ends, the clock has
  just left a millisecond, so the readings that follow are not older than the steps in between. That
  two times in one millisecond have the same `Ms`, on which the loop depends, needs that a second is
  a whole number of milliseconds.

The instance that TLC checks satisfies all of these assumptions. The properties only speak of rows
that are written. The invariant says, at each step of a sample, how much of the second has passed at
most and that the alarm has not fired before the loop (`SetUpOK`), that the loop is only left after
an operation (`IterationsOK`), and how far the reads of each counter are apart, in terms of the
iterations so far (`SpansOK`, with `Between`), and how old the last update was at the first reads
(`FreshOK`).

The SMT encoding of tlapm 1.4.5 states of any function that its domain is `1 .. Len(f)` in
obligations that mention `Len` or `<< >>`, which is false of functions like `pc`. All proofs have
also been checked with this statement restricted to functions whose domain is such an interval.

Model-checked only: liveness (`Termination`, `RequestAnswered`, and the fairness parts of
`KeepsPromise`, `ImplementsSymmetric` and `IsHandshake`), which is out of the prover's reach. Every
other property of a run that is expected to pass has a theorem.

## 6. Disagreements with the documentation

* `find_other_pu_complete`: with `-m`, the search never looks at PUs before the measuring one, yet
  the warning says there is none (`benchmark.h:160`, `:207`).
* `harness_quit`: SIGINT "is sent by user who wants to quit" (`benchmark.h:133`), but every latency
  run resets the flag and energy runs ignore it; the next run begins.
* `harness_stall`: `alarm` precedes the reset of `alarm_fired` (`benchmark.h:241-242`, `:408-409`).
  If the thread is held up for the whole duration in between, the alarm is lost and the loop has no
  end. The first alarm of an energy run is reset and armed in the right order (`:517-518`).
* `eventfd_hang`: SIGINT handled between the test of `stop` and `eventfd_read` wakes nobody, and the
  harness waits in `join` for ever (`bench-eventfd.cpp:70-74`).
* `energy_wrap`: the RAPL counters have 32 bits and wrap around within the hour under load, but the
  difference is taken in 64 bits (`benchmark.h:433-434`). A sample in which a counter wraps does not
  report the "mean energy per operation" (`:400`), but a number that says nothing.

More that the models show, without a run of their own:

* The measuring thread does not wait until the interfering ones have bound themselves to their CPU,
  so the first operations may be measured without interference (`benchmark.h:233`).
* The alarm of a run that the user has interrupted stays armed. `alarm` of the next run takes it
  back, and the reset discards an alarm handled before. But if it expires just before the next run
  calls `alarm`, and is handled after the reset of `alarm_fired`, it ends that run at once
  (`benchmark.h:241-242`), which then has not lasted its "measurement duration" (`:126`).
  `FullMeasurement` therefore excludes a SIGALRM pending at the start of the run; without that
  conjunct of `Unaffected`, TLC finds this behaviour.
* If the kernel chooses the measuring thread of an eventfd program for a signal to the process, its
  `eventfd_read` fails with EINTR and the assertion of `bench-eventfd.cpp:60` ends the program:
  `AssertionsHold` is violated in `MCEventfdBench_any.cfg`, and is therefore checked with `Takers <-
  MainOnly`.
* A time-out of `sigtimedwait` is acknowledged like SIGUSR1 (`bench-pthread-kill.cpp:67-77`). If the
  measuring thread has been held up for the five seconds and makes its request just then, the
  acknowledgement has a time before the start, and `assert(end_ns > start_ns)` (`:55`) fails:
  `AssertionsHold` is violated in `MCPthreadKillBench.cfg` with `NoStalls = FALSE`.
* With fewer huge pages than threads, `mmap` fails and the assertion ends the program
  (`bench-pagefault-large.cpp:14`): `AssertionsHold` is violated in `MCSharedBench.cfg` with
  `nr_hugepages = 1`. `scripts/hugepages.sh` decides how many there are; where the default huge page
  is 1 GB, it reserves a single page of 2 MB.
* The measured `mprotect` may find the mapping inaccessible already, because an interfering thread
  is between its two calls, and then measures a call that changes nothing (`bench-mprotect.cpp:31`).

## 7. Not modelled

* HdrHistogram is third-party code in a submodule whose directory is empty. That `hdr_record_value`
  fails for more than about 4.3 s (`benchmark.h:237`, `:249`) is not modelled either: only a stalled
  thread takes so long.
* Option parsing, formatting and the build and report scripts are sequential and keep no state.
* `-d 0` turns the alarm off, and only an interrupt ends the measurement. `ArmAlarm` has the case,
  no run sets it.
* A measuring CPU that does not exist makes hwloc return a null pointer, which the search
  dereferences; the models begin with existing ones.
* That two readings of the clock are so close that doubles do not tell them apart, and the assertion
  of `time_diff` (`benchmark.h:36`) fails: how short an operation can be is a fact of the machine.
* Leaks that are bounded by the number of runs: the topology at an early return, `local_efd`,
  `msr_fd`.
* How locks spin and sleep, and failures of system calls for reasons outside the program (limits on
  descriptors, threads, memory) other than an empty pool of huge pages. `MAP_POPULATE` makes no
  difference at this level.
* In `Harness`, the wait for a RAPL period is part of `ResetAlarm`, and a sample without an
  operation is possible; `EnergySample` models both, and composing it with the threads and signals
  of `Harness` would add nothing: the two meet in the alarm only.

## 8. Plan

Done, in this order: `Topology`, `FindOtherPu` and its proofs; `Harness`, `SymmetricBench`,
`BenchPlan`; `EventfdBench`, `PthreadKillBench`, `Handshake`; the proofs of `SymmetricBench`;
`Programs`, `SharedBench`; `TimeConversion`, `EnergySample`; the proofs about `Harness`,
`BenchPlan`, `SharedBench`, `EventfdBench` and `PthreadKillBench`; the proofs about `EnergySample`,
and those about the harness for all programs.

Left:

1. `bench-pthread-kill` with stalls: an exact account, as an invariant, of when the assertion fails.
2. The range of `hdr_record_value`, and a run with `-d 0`.
