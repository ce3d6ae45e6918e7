---------------------------- MODULE EnergySample ----------------------------
(***************************************************************************)
(* The energy samples of one run, with time and energy: the loop of        *)
(* EnergyBenchmark::run around measure_energy (benchmark.h), from alarm(1) *)
(* to the row of output.  A step of the measuring thread takes some time,  *)
(* and while time goes by the processor uses energy, which the RAPL        *)
(* counters show modulo their width.                                       *)
(***************************************************************************)
EXTENDS TimeConversion

CONSTANTS
  nr_samples,
  NsPerMs,       \* 1000000
  StepTicks,     \* time a step of the harness can take
  OpTicks,       \* time an operation can take
  Late,          \* bound: the alarm is handled that long after it expires
  Uptimes,       \* time since boot when the samples begin
  Powers,        \* energy units that the domains may use per tick
  EnergyUnit,    \* energy_unit * 1e9
  CounterSize,   \* 2^32: values of the RAPL counters
  LongSize       \* 2^64: values of uint64_t

Domains == {"pkg", "dram"}

ASSUME EnergyAssumption ==
  /\ {nr_samples, NsPerMs, Late, EnergyUnit, CounterSize, LongSize} \subseteq Nat
  /\ StepTicks \subseteq Nat /\ OpTicks \subseteq Nat \ {0}
  /\ \A ticks \in {StepTicks, OpTicks} : \E t \in ticks : \A u \in ticks : u <= t
  /\ \E t \in OpTicks : \A u \in OpTicks : t <= u
  /\ Uptimes \subseteq Nat /\ Powers \subseteq [Domains -> Nat]
  /\ 0 < NsPerMs /\ 2 * NsPerMs <= NsPerSec /\ NsPerSec % NsPerMs = 0
  /\ 0 < CounterSize /\ CounterSize < LongSize

VARIABLES
  pc,
  sample,        \* samples reported
  clock,         \* CLOCK_MONOTONIC
  deadline,      \* when the alarm clock expires, 0 when it is off
  alarm_fired,
  iterations,
  start,         \* time at which measure_energy and
  period,        \* wait_for_rapl_sampling_period_begin begin
  begin, end,    \* times at which the counters are read, per domain
  power,         \* energy units that each domain uses per tick
  report         \* the row of output

vars == <<pc, sample, clock, deadline, alarm_fired, iterations, start, period, begin, end,
          power, report>>

AtBoot == [d \in Domains |-> 0]
NoReport == [iterations |-> 0, duration |-> 0, energy |-> AtBoot]

Init ==
  /\ pc = "alarm" /\ sample = 0
  /\ clock \in Uptimes /\ deadline = clock + NsPerSec   \* alarm(1) before the loop
  /\ alarm_fired = FALSE
  /\ iterations = 0 /\ start = 0 /\ period = 0 /\ begin = AtBoot /\ end = AtBoot
  /\ power \in Powers
  /\ report = NoReport

-----------------------------------------------------------------------------
(* The measuring thread goes on within ticks; the handler is not overdue.  *)
Step(from, to, ticks) ==
  /\ pc = from /\ pc' = to
  /\ deadline # 0 => clock < deadline + Late
  /\ clock' \in { clock + t : t \in ticks }
  /\ UNCHANGED power

(* The local variables of measure_energy are new, its row is not written. *)
BeginSample ==
  /\ sample < nr_samples
  /\ Step("alarm", "reset", StepTicks)
  /\ iterations' = 0 /\ deadline' = clock + NsPerSec
  /\ start' = 0 /\ period' = 0 /\ begin' = AtBoot /\ end' = AtBoot
  /\ report' = NoReport
  /\ UNCHANGED <<sample, alarm_fired>>

EndSamples ==
  /\ sample >= nr_samples
  /\ Step("alarm", "done", StepTicks)
  /\ UNCHANGED <<sample, deadline, alarm_fired, iterations, start, period, begin, end, report>>

KeepAlarmFired ==                  \* mutant: alarm_fired is not reset
  /\ Step("reset", "start", StepTicks)
  /\ UNCHANGED <<sample, deadline, alarm_fired, iterations, start, period, begin, end, report>>

ResetAlarm ==
  /\ Step("reset", "start", StepTicks)
  /\ alarm_fired' = FALSE
  /\ UNCHANGED <<sample, deadline, iterations, start, period, begin, end, report>>

TakeStart ==
  /\ Step("start", "wait", StepTicks) /\ start' = clock
  /\ UNCHANGED <<sample, deadline, alarm_fired, iterations, period, begin, end, report>>

(* wait_for_rapl_sampling_period_begin *)
BeginWait ==
  /\ Step("wait", "poll", StepTicks) /\ period' = clock
  /\ UNCHANGED <<sample, deadline, alarm_fired, iterations, start, begin, end, report>>

Ms(t) == tv_nsec(t) \div NsPerMs

PollOnce ==                        \* mutant: does not wait for the next period
  /\ Step("poll", "pkg_begin", {1})
  /\ UNCHANGED
       <<sample, deadline, alarm_fired, iterations, start, period, begin, end, report>>

Poll ==
  /\ Step("poll", IF Ms(period) # Ms(clock) THEN "pkg_begin" ELSE "poll", {1})
  /\ UNCHANGED
       <<sample, deadline, alarm_fired, iterations, start, period, begin, end, report>>

(* The counters are updated at the beginning of each sampling period, and  *)
(* the periods are the milliseconds of the clock that the wait goes by.  A *)
(* time at which a counter is read stands for the value it shows then.     *)
Updated(t) == (t \div NsPerMs) * NsPerMs
Energy(d, t) == power[d] * Updated(t)
read_msr(d, t) == Energy(d, t) % CounterSize

ReadBegin(d, from, to) ==
  /\ Step(from, to, StepTicks) /\ begin' = [begin EXCEPT ![d] = clock]
  /\ UNCHANGED <<sample, deadline, alarm_fired, iterations, start, period, end, report>>

TestAlarm ==
  /\ Step("loop", IF alarm_fired THEN "pkg_end" ELSE "op", {0})
  /\ UNCHANGED
       <<sample, deadline, alarm_fired, iterations, start, period, begin, end, report>>

Iterate ==
  /\ Step("op", "loop", OpTicks) /\ iterations' = iterations + 1
  /\ UNCHANGED <<sample, deadline, alarm_fired, start, period, begin, end, report>>

ReadEnd(d, from, to) ==
  /\ Step(from, to, StepTicks) /\ end' = [end EXCEPT ![d] = clock]
  /\ UNCHANGED <<sample, deadline, alarm_fired, iterations, start, period, begin, report>>

(* pkg_energy_end - pkg_energy_begin, in uint64_t *)
SignedDifference(d) ==             \* mutant
  read_msr(d, end[d]) - read_msr(d, begin[d])

Difference(d) == (read_msr(d, end[d]) - read_msr(d, begin[d])) % LongSize

(* The conversion of a quotient that uint64_t does not hold is undefined:  *)
(* these are the values that x86 and ARM processors give.                  *)
Undefined == {0, LongSize \div 2, LongSize - 1}
PerOperation(d) ==
  IF iterations = 0 \/ (Difference(d) * EnergyUnit) \div iterations >= LongSize
  THEN Undefined
  ELSE {(Difference(d) * EnergyUnit) \div iterations}

Report ==
  /\ Step("end", IF Later(start, clock) THEN "alarm" ELSE "aborted", StepTicks)
  /\ IF Later(start, clock)
     THEN /\ \E pkg \in PerOperation("pkg"), dram \in PerOperation("dram") :
               report' = [ iterations |-> iterations,
                           duration |-> time_diff(start, clock),
                           energy |-> [d \in Domains |-> IF d = "pkg" THEN pkg ELSE dram] ]
          /\ sample' = sample + 1
     ELSE UNCHANGED <<report, sample>>
  /\ UNCHANGED <<deadline, alarm_fired, iterations, start, period, begin, end>>

(* alarm_signal_handler *)
AlarmFires ==
  /\ deadline # 0 /\ clock >= deadline
  /\ alarm_fired' = TRUE /\ deadline' = 0
  /\ UNCHANGED <<pc, sample, clock, iterations, start, period, begin, end, power, report>>

Ending == pc \in {"done", "aborted"} /\ UNCHANGED vars

Next ==
  \/ BeginSample \/ EndSamples \/ ResetAlarm \/ TakeStart \/ BeginWait \/ Poll
  \/ ReadBegin("pkg", "pkg_begin", "dram_begin") \/ ReadBegin("dram", "dram_begin", "loop")
  \/ TestAlarm \/ Iterate
  \/ ReadEnd("pkg", "pkg_end", "dram_end") \/ ReadEnd("dram", "dram_end", "end")
  \/ Report \/ AlarmFires \/ Ending

Spec == Init /\ [][Next]_vars
-----------------------------------------------------------------------------
Labels ==
  { "alarm", "reset", "start", "wait", "poll", "pkg_begin", "dram_begin", "loop", "op",
    "pkg_end", "dram_end", "end", "done", "aborted" }

TypeOK ==
  /\ pc \in Labels /\ sample \in 0 .. nr_samples /\ alarm_fired \in BOOLEAN
  /\ {clock, deadline, iterations, start, period} \subseteq Nat
  /\ {begin, end} \subseteq [Domains -> Nat] /\ power \in Powers
  /\ report \in [ iterations : Nat, duration : Nat,
                  energy : [Domains -> 0 .. LongSize - 1] ]

Reported == pc = "alarm" /\ sample > 0

(* The loop of every sample runs at least one operation: an alarm of an    *)
(* earlier sample does not end it and the wait for the next sampling       *)
(* period (1 ms granularity) leaves it time, so the mean is defined.       *)
SomeOperation == Reported => report.iterations > 0

(* "Measure mean energy per operation (EPO)": what is reported for domain  *)
(* d is, n operations together, at least what n of the shortest use less a *)
(* sampling period, since the last update may be that old at the end, and  *)
(* at most what n of the longest use and the steps around the loop: those  *)
(* from the beginning of a period, for which the code waits, to the first  *)
(* operation and from the last one to the read of the counter.             *)
Shortest == CHOOSE t \in OpTicks : \A u \in OpTicks : t <= u
Longest(ticks) == CHOOSE t \in ticks : \A u \in ticks : t >= u
IsMean(d) ==
  LET n == report.iterations
      perTick == power[d] * EnergyUnit
      around == 4 * Longest(StepTicks) + 1
  IN /\ (report.energy[d] + 1) * n > perTick * (n * Shortest - NsPerMs)
     /\ report.energy[d] * n <= perTick * (n * Longest(OpTicks) + around)
MeanEnergy == Reported => \A d \in Domains : IsMean(d)

(* That holds as long as the counter does not wrap between its two reads   *)
(* (pkg_energy_end - pkg_energy_begin).                                    *)
Wrapped(d) ==
  Energy(d, begin[d]) \div CounterSize # Energy(d, end[d]) \div CounterSize
EnergyUnlessWrapped == Reported => \A d \in Domains : IsMean(d) \/ Wrapped(d)

(* The rounding of both times together changes the duration by at most the *)
(* distance of the doubles at that uptime (timespec_to_ns, time_diff).     *)
DurationAccurate ==
  [][sample' > sample =>
       LET error == report'.duration - (clock - start)
       IN -Ulp(clock) <= error /\ error <= Ulp(clock)]_vars

(* Times keep their order in nanoseconds, whatever the uptime, and stay    *)
(* apart when they are more than the distance of doubles apart: time_diff  *)
(* asserts no more than that, and no difference of times is negative.      *)
OrderKept ==
  \A t \in {start, period} \cup { begin[d] : d \in Domains } :
    /\ t <= clock => timespec_to_ns(t) <= timespec_to_ns(clock)
    /\ t + Ulp(clock) < clock => Later(t, clock)
=============================================================================
