------------------------------- MODULE Harness -------------------------------
(***************************************************************************)
(* The benchmark harness of benchmark.h: run_all runs the latency and the  *)
(* energy benchmark of one program for one scenario after the other; a run *)
(* spawns the interfering threads and the measuring thread, which measures *)
(* until its alarm fires or SIGINT arrives, and joins them all.            *)
(*                                                                         *)
(* The operation that is measured belongs to a program (bench-*.cpp): a    *)
(* module that EXTENDS this one takes a thread from "op" back to "loop".   *)
(* A label pc[th] stands for the code from that point to the next label;   *)
(* "none" is a thread that does not exist and "done" one not yet joined.   *)
(***************************************************************************)
EXTENDS Topology, Sequences

CONSTANTS
  benchmarks,                \* the programs, by name: any one of them is run
  machine,                   \* the hwloc topology
  measuring_cpu,             \* -m
  raw_interference,          \* -i
  latency_output,            \* -l is given
  duration,                  \* -d
  energy_output,             \* -e is given
  nr_samples,                \* -s
  NrInterfering,             \* Config::nr_interfering_threads
  supports_non_interference, \* the programs whose Action says so
  supports_energy_measurement,
  Takers,                    \* threads that may take a signal sent to the process
  NoStalls,                  \* no thread is held up for as long as an alarm takes
  MaxSigints                 \* bound: SIGINTs that the user sends

Main == NrInterfering
Measurer == NrInterfering + 1
Threads == 0 .. Measurer
Interferers == Threads \ {Main, Measurer}
Workers == Threads \ {Main}
Signals == {"SIGINT", "SIGALRM"}

ASSUME HarnessAssumption ==
  /\ NrInterfering \in Nat
  /\ duration \in Int /\ nr_samples \in Int /\ MaxSigints \in Nat
  /\ {latency_output, energy_output, NoStalls} \subseteq BOOLEAN
  /\ Takers \subseteq Threads /\ Main \in Takers

-----------------------------------------------------------------------------
(* The runs asked for.                                                     *)

Run == [benchmark : benchmarks, kind : {"latency", "energy"}, scenario : Scenario]

parse_interference ==
  CASE raw_interference = "all"  -> Scenario
    [] raw_interference = "none" -> {"NO_INTERFERENCE"}
    [] raw_interference = "smt"  -> {"LOCAL_CORE"}
    [] raw_interference = "mc"   -> {"REMOTE_CORE"}
    [] raw_interference = "numa" -> {"REMOTE_PACKAGE"}
    [] OTHER -> {}             \* throws: run_all prints an error and returns

RunIf(benchmark, kind, scenario) ==
  IF scenario \in parse_interference
  THEN << [benchmark |-> benchmark, kind |-> kind, scenario |-> scenario] >>
  ELSE << >>

Benchmarks(benchmark, kind) ==
  RunIf(benchmark, kind, "REMOTE_PACKAGE") \o RunIf(benchmark, kind, "REMOTE_CORE")
    \o RunIf(benchmark, kind, "LOCAL_CORE") \o RunIf(benchmark, kind, "NO_INTERFERENCE")

Plan(benchmark) ==
  (IF latency_output THEN Benchmarks(benchmark, "latency") ELSE << >>)
    \o (IF energy_output THEN Benchmarks(benchmark, "energy") ELSE << >>)
Plans == { Plan(benchmark) : benchmark \in benchmarks }

(* The early returns of the two run functions. *)
Available == { s \in InterferenceScenario : HasOtherPu(machine, measuring_cpu, s) }
Skipped(r) ==
  \/ r.scenario # "NO_INTERFERENCE" /\ r.scenario \notin Available
  \/ r.scenario = "NO_INTERFERENCE" /\ r.benchmark \notin supports_non_interference
  \/ r.kind = "energy" /\ r.benchmark \notin supports_energy_measurement

-----------------------------------------------------------------------------
VARIABLES
  todo,          \* the runs left, the current one first
  pc,            \* where each thread is
  tid,           \* index of the main thread's loops
  stop,          \* the run's stop flag
  sigint_fired,
  alarm_fired,
  timer,         \* the process's alarm clock
  shared,        \* signals pending for the process
  pending,       \* signals pending for one thread
  sigints,       \* SIGINTs sent by the user so far
  sample,        \* energy samples taken in this run
  out            \* rows written to the output files

flags == <<stop, sigint_fired, alarm_fired>>
signals == <<shared, pending, sigints>>
rows == <<sample, out>>
harnessVars == <<todo, pc, tid, flags, timer, signals, rows>>

run == Head(todo)
InterferingOneMore ==              \* mutant: <= in the loops
  IF run.scenario = "NO_INTERFERENCE" THEN {} ELSE 0 .. NrInterfering

Interfering == IF run.scenario = "NO_INTERFERENCE" THEN {} ELSE 0 .. NrInterfering - 1

At(th, label) == pc[th] = label

(* The main thread enters the kernel in each of its steps, and so handles  *)
(* a signal that only it can take before it goes on.                       *)
MainAt(label) == At(Main, label) /\ (Takers = {Main} => shared = {})

Live(th) == pc[th] \notin {"none", "done", "exit", "aborted"}
Goto(th, label) == pc' = [pc EXCEPT ![th] = label]
ExitThread(th) == Goto(th, "done") /\ pending' = [pending EXCEPT ![th] = {}]

(* A failed assertion ends the process. *)
Abort ==
  /\ pc' = [th \in Threads |-> IF th = Main THEN "aborted" ELSE "none"]
  /\ pending' = [th \in Threads |-> {}]

HarnessInit ==
  /\ todo \in Plans
  /\ pc = [th \in Threads |-> IF th = Main THEN "run" ELSE "none"]
  /\ tid = 0
  /\ stop = FALSE /\ sigint_fired = FALSE /\ alarm_fired = FALSE
  /\ timer = "off"
  /\ shared = {} /\ pending = [th \in Threads |-> {}] /\ sigints = 0
  /\ sample = 0 /\ out = << >>

-----------------------------------------------------------------------------
(* The main thread: LatencyBenchmark::run and EnergyBenchmark::run.        *)

SkipRun ==
  /\ MainAt("run") /\ todo # << >> /\ Skipped(run)
  /\ todo' = Tail(todo)
  /\ UNCHANGED <<pc, tid, flags, timer, signals, rows>>

StartRunKeepingFlag ==             \* mutant: sigint_fired is not reset
  /\ MainAt("run") /\ todo # << >> /\ ~ Skipped(run)
  /\ Goto(Main, "spawn") /\ tid' = 0
  /\ stop' = FALSE
  /\ UNCHANGED <<todo, sigint_fired, alarm_fired, timer, signals, rows>>

StartRun ==
  /\ MainAt("run") /\ todo # << >> /\ ~ Skipped(run)
  /\ Goto(Main, "spawn") /\ tid' = 0
  /\ stop' = FALSE
  /\ sigint_fired' = IF run.kind = "latency" THEN FALSE ELSE sigint_fired
  /\ UNCHANGED <<todo, alarm_fired, timer, signals, rows>>

SpawnInterfering ==
  /\ MainAt("spawn") /\ tid \in Interfering
  /\ Goto(tid, "spawned") /\ tid' = tid + 1
  /\ UNCHANGED <<todo, flags, timer, signals, rows>>

SpawnMeasuring ==
  /\ MainAt("spawn") /\ tid \notin Interfering
  /\ pc' = [pc EXCEPT ![Main] = "join_t", ![Measurer] = "start"]
  /\ sample' = 0
  /\ UNCHANGED <<todo, tid, flags, timer, signals, out>>

JoinMeasuring ==
  /\ MainAt("join_t") /\ At(Measurer, "done")
  /\ pc' = [pc EXCEPT ![Main] = "kill", ![Measurer] = "none"]
  /\ tid' = 0
  /\ UNCHANGED <<todo, flags, timer, signals, rows>>

(* pthread_kill to a thread that has ended has no effect. *)
KillInterfering ==
  /\ MainAt("kill") /\ tid \in Interfering
  /\ pending' = IF Live(tid) THEN [pending EXCEPT ![tid] = @ \cup {"SIGINT"}] ELSE pending
  /\ tid' = tid + 1
  /\ UNCHANGED <<todo, pc, flags, timer, shared, sigints, rows>>

AllKilled ==
  /\ MainAt("kill") /\ tid \notin Interfering
  /\ Goto(Main, "join") /\ tid' = 0
  /\ UNCHANGED <<todo, flags, timer, signals, rows>>

JoinInterfering ==
  /\ MainAt("join") /\ tid \in Interfering /\ At(tid, "done")
  /\ Goto(tid, "none") /\ tid' = tid + 1
  /\ UNCHANGED <<todo, flags, timer, signals, rows>>

ReturnWithoutJoin ==               \* mutant: the second join loop is missing
  /\ MainAt("join")
  /\ todo' = Tail(todo) /\ Goto(Main, "run")
  /\ UNCHANGED <<tid, flags, timer, signals, rows>>

ReturnFromRun ==
  /\ MainAt("join") /\ tid \notin Interfering
  /\ todo' = Tail(todo) /\ Goto(Main, "run")
  /\ UNCHANGED <<tid, flags, timer, signals, rows>>

Exit ==
  /\ MainAt("run") /\ todo = << >>
  /\ Goto(Main, "exit")
  /\ UNCHANGED <<todo, tid, flags, timer, signals, rows>>

-----------------------------------------------------------------------------
(* The interfering threads.                                                *)

BindInterfering(t) ==              \* hwloc_set_cpubind, make_state
  /\ At(t, "spawned") /\ Goto(t, "loop")
  /\ UNCHANGED <<todo, tid, flags, timer, signals, rows>>

CheckStop(t) ==
  /\ At(t, "loop")
  /\ IF stop THEN ExitThread(t) ELSE Goto(t, "op") /\ UNCHANGED pending
  /\ UNCHANGED <<todo, tid, flags, timer, shared, sigints, rows>>

-----------------------------------------------------------------------------
(* The measuring thread.                                                   *)

(* Latency: alarm(0) turns the clock off, and a negative duration is a     *)
(* large unsigned one.                                                     *)
ArmAlarm ==
  /\ At(Measurer, "start") /\ run.kind = "latency"
  /\ timer' = IF duration = 0 THEN "off" ELSE "armed"
  /\ Goto(Measurer, "armed")
  /\ UNCHANGED <<todo, tid, flags, signals, rows>>

(* Energy: the msr device may be missing or not permitted. *)
OpenMsr ==
  /\ At(Measurer, "start") /\ run.kind = "energy"
  /\ alarm_fired' = FALSE /\ timer' = "armed"
  /\ Goto(Measurer, "sample")
  /\ UNCHANGED <<todo, tid, stop, sigint_fired, signals, rows>>

NoMsrKeepingStop ==                \* mutant: the early return forgets stop
  /\ At(Measurer, "start") /\ run.kind = "energy"
  /\ ExitThread(Measurer)
  /\ UNCHANGED <<todo, tid, flags, timer, shared, sigints, rows>>

NoMsr ==
  /\ At(Measurer, "start") /\ run.kind = "energy"
  /\ stop' = TRUE /\ ExitThread(Measurer)
  /\ UNCHANGED <<todo, tid, sigint_fired, alarm_fired, timer, shared, sigints, rows>>

BeginSampleOneMore ==              \* mutant: <= in the loop
  /\ At(Measurer, "sample") /\ sample <= nr_samples
  /\ timer' = "armed" /\ Goto(Measurer, "armed")
  /\ UNCHANGED <<todo, tid, flags, signals, rows>>

BeginSample ==
  /\ At(Measurer, "sample") /\ sample < nr_samples
  /\ timer' = "armed" /\ Goto(Measurer, "armed")
  /\ UNCHANGED <<todo, tid, flags, signals, rows>>

EndSamples ==
  /\ At(Measurer, "sample") /\ sample >= nr_samples
  /\ stop' = TRUE /\ ExitThread(Measurer)
  /\ UNCHANGED <<todo, tid, sigint_fired, alarm_fired, timer, shared, sigints, rows>>

ResetAlarm ==
  /\ At(Measurer, "armed") /\ alarm_fired' = FALSE /\ Goto(Measurer, "loop")
  /\ UNCHANGED <<todo, tid, stop, sigint_fired, timer, signals, rows>>

Ended == alarm_fired \/ (run.kind = "latency" /\ sigint_fired)

BeginOperation ==
  /\ At(Measurer, "loop") /\ ~ Ended
  /\ Goto(Measurer, "op")
  /\ UNCHANGED <<todo, tid, flags, timer, signals, rows>>

EndMeasurementStopping ==          \* mutant: sets stop after each energy sample
  /\ At(Measurer, "loop") /\ Ended
  /\ stop' = TRUE
  /\ Goto(Measurer, "report")
  /\ UNCHANGED <<todo, tid, sigint_fired, alarm_fired, timer, signals, rows>>

EndMeasurement ==
  /\ At(Measurer, "loop") /\ Ended
  /\ stop' = IF run.kind = "latency" THEN TRUE ELSE stop
  /\ Goto(Measurer, "report")
  /\ UNCHANGED <<todo, tid, sigint_fired, alarm_fired, timer, signals, rows>>

Row == [run |-> run, sample |-> sample]

ReportLatency ==
  /\ At(Measurer, "report") /\ run.kind = "latency"
  /\ out' = Append(out, Row) /\ ExitThread(Measurer)
  /\ UNCHANGED <<todo, tid, flags, timer, shared, sigints, sample>>

ReportEnergy ==
  /\ At(Measurer, "report") /\ run.kind = "energy"
  /\ out' = Append(out, Row) /\ sample' = sample + 1
  /\ Goto(Measurer, "sample")
  /\ UNCHANGED <<todo, tid, flags, timer, signals>>

-----------------------------------------------------------------------------
(* Signals.                                                                *)

UserSigint ==
  /\ sigints < MaxSigints /\ Live(Main)
  /\ sigints' = sigints + 1 /\ shared' = shared \cup {"SIGINT"}
  /\ UNCHANGED <<todo, pc, tid, flags, timer, pending, rows>>

(* An alarm takes a second or more: without stalls it does not expire      *)
(* while the measuring thread is between alarm and the loop.               *)
TimerExpires ==
  /\ timer = "armed" /\ Live(Main)
  /\ NoStalls => pc[Measurer] \notin {"armed", "sample"}
  /\ timer' = "off" /\ shared' = shared \cup {"SIGALRM"}
  /\ UNCHANGED <<todo, pc, tid, flags, pending, sigints, rows>>

(* A handler runs on th. The handlers are installed without SA_RESTART: a  *)
(* system call that th is blocked in returns EINTR, unless it can return   *)
(* with success.                                                           *)
Deliver(th, sig) ==
  /\ Live(th)
  /\ \/ /\ sig \in pending[th]
        /\ pending' = [pending EXCEPT ![th] = @ \ {sig}]
        /\ UNCHANGED shared
     \/ /\ th \in Takers /\ sig \in shared
        /\ shared' = shared \ {sig}
        /\ UNCHANGED pending
  /\ pc' = [pc EXCEPT ![th] = IF @ = "blocked" THEN "eintr" ELSE @]
  /\ UNCHANGED <<todo, tid, stop, timer, sigints, rows>>

signal_handler(th) ==
  Deliver(th, "SIGINT") /\ sigint_fired' = TRUE /\ UNCHANGED alarm_fired

alarm_signal_handler(th) ==
  Deliver(th, "SIGALRM") /\ alarm_fired' = TRUE /\ UNCHANGED sigint_fired

-----------------------------------------------------------------------------
(* The steps in which the program's Action is constructed and destroyed    *)
(* are StartRun and ReturnFromRun; the others leave its state alone.       *)

MainStep ==
  \/ SkipRun \/ SpawnInterfering \/ SpawnMeasuring \/ JoinMeasuring
  \/ KillInterfering \/ AllKilled \/ JoinInterfering \/ Exit

InterferingStep(t) == BindInterfering(t) \/ CheckStop(t)

MeasuringStep ==
  \/ ArmAlarm \/ OpenMsr \/ NoMsr \/ BeginSample \/ EndSamples \/ ResetAlarm
  \/ BeginOperation \/ EndMeasurement \/ ReportLatency \/ ReportEnergy

Handler(th) == signal_handler(th) \/ alarm_signal_handler(th)

-----------------------------------------------------------------------------
Labels ==
  { "none", "done", "run", "spawn", "join_t", "kill", "join", "exit", "aborted", "spawned",
    "loop", "op", "start", "sample", "armed", "report" }

HarnessTypeOK(opLabels) ==
  /\ todo \in Seq(Run)
  /\ pc \in [Threads -> Labels \cup opLabels]
  /\ tid \in 0 .. NrInterfering
  /\ stop \in BOOLEAN /\ sigint_fired \in BOOLEAN /\ alarm_fired \in BOOLEAN
  /\ timer \in {"off", "armed"}
  /\ shared \subseteq Signals /\ pending \in [Threads -> SUBSET Signals]
  /\ sigints \in 0 .. MaxSigints
  /\ sample \in Nat
  /\ out \in Seq([run : Run, sample : Nat])

(* No thread of a run, and no signal sent to one, outlives the run, whose  *)
(* stop flag, Action and thread handles it uses (t.join and the join loop  *)
(* at the end of the run functions).                                       *)
ThreadsWithinRun ==
  pc[Main] \in {"run", "exit"} => \A th \in Workers : pc[th] = "none" /\ pending[th] = {}

(* Every operation is measured with all the interfering threads of the     *)
(* scenario in existence: they are created before the measuring thread and *)
(* end only once it has set stop.                                          *)
Measuring == pc[Measurer] \notin {"none", "start", "report", "done"}
InterferenceThroughout ==
  Measuring => \A t \in Interfering : Live(t)

(* A run r during which the user sends no SIGINT (an energy run ignores    *)
(* them), and at whose start no alarm of an earlier run is still pending,  *)
(* measures until its own alarm: neither the interrupts of earlier runs,   *)
(* nor the SIGINTs that the harness sends to its threads, nor the alarm of *)
(* an earlier sample cut it short.                                         *)
Within(r) == todo # << >> /\ run = r /\ pc[Main] \in {"spawn", "join_t"}

Unaffected(r) ==
  Within(r) =>
    /\ r.kind = "latency" => "SIGINT" \notin shared
    /\ pc[Measurer] = "start" => "SIGALRM" \notin shared

Full(r) == Within(r) /\ pc[Measurer] = "report" => timer = "off"

FullMeasurement == \A r \in Run : []Unaffected(r) => []Full(r)

(* Whatever the threads and the signals do, run_all carries out its plan   *)
(* to the end, in order, without losing or repeating a run or a sample.    *)
RowsOf(r) == IF r.kind = "latency" THEN 1 ELSE nr_samples
IsEnergy(r) == r.kind = "energy"
Promise == INSTANCE BenchPlan WITH
  active <- pc[Main] \notin {"run", "exit"},
  ended <- pc[Main] = "exit",
  Rows <- RowsOf,
  MayFail <- IsEnergy
=============================================================================
